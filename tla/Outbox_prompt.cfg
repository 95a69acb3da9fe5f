SPECIFICATION Spec
CONSTANTS
  Members = {1, 2}
  Refused = {3}
  Runners = {r1}
  Requests = {q}
  Tokens = {1, 2, 3}
  NoToken = NoToken
  Inherited = {2}
  NoLinkage = {2}
  PageLimit = 1
  LineVerdicts = {"sent", "rejected"}
  Prompt = TRUE
  ConsistentLine = FALSE
  Unanswered = {}
INVARIANTS
  TypeOK
  SingleWorker
PROPERTIES
  NoPostOnceAnswered
CHECK_DEADLOCK FALSE
