SPECIFICATION Spec
CONSTANTS
  Members = {1}
  Refused = {}
  Runners = {r1, r2}
  Requests = {q}
  Tokens = {1, 2, 3, 4}
  NoToken = NoToken
  Inherited = {}
  NoLinkage = {}
  PageLimit = 1
  LineVerdicts = {"sent", "unknown"}
  Prompt = FALSE
  ConsistentLine = TRUE
  Unanswered = {}
SYMMETRY RunnerSymmetry
INVARIANTS
  OutcomesAreTrue
PROPERTIES
  ClaimProtected
  SettledForever
CHECK_DEADLOCK FALSE
