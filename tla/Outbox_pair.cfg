SPECIFICATION Spec
CONSTANTS
  Members = {1, 2}
  Refused = {}
  Runners = {r1}
  Requests = {q}
  Tokens = {1, 2, 3, 4}
  NoToken = NoToken
  Inherited = {}
  NoLinkage = {}
  PageLimit = 1
  LineVerdicts = {"sent", "recipient_not_linked"}
  Prompt = TRUE
  ConsistentLine = TRUE
  Unanswered = {}
INVARIANTS
  DeliveriesMatchRows
  StatusIsAggregate
  AuditTellsOnce
PROPERTIES
  KeepsPromise
CHECK_DEADLOCK FALSE
