SPECIFICATION LiveSpec
CONSTANTS
  Members = {1, 2}
  Refused = {}
  Runners = {r1}
  Requests = {}
  Tokens = {1, 2, 3, 4}
  NoToken = NoToken
  Inherited = {1, 2}
  NoLinkage = {1}
  PageLimit = 1
  LineVerdicts = {"sent"}
  Prompt = TRUE
  ConsistentLine = TRUE
  Unanswered = {1}
INVARIANT IInv
PROPERTIES
  NobodyStarves
  OperationCompletes
CHECK_DEADLOCK FALSE
