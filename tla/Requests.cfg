SPECIFICATION Spec
CONSTANTS
  Pair = {a, b}
  One = {a}
  Sendable = 2
  Limits = {1, 2}
  Faults = {"line", "storage", "queue", "handler", "crash"}
  MaxTries = 2
  MaxEdits = 1
  MaxTurns = 1
  Numbers = {1, 2, 3}
  Numberless = {3}
  Limit = 1
  MaxChanges = 2
  RacingNumbers = {1, 2}
  RacingLimit = 2
  MaxRacingChanges = 1
  Holders = {"h1", "h2"}
  Services = {"v1"}
  Roles = {"viewer"}
  Registrars = {1, 2, 3}
  Person = {"s1"}
  Holder = {"h1"}
  AccessRoles = {"viewer", "sender"}
  OldRoles = {"operator", "other"}
  Registrar = {1}
  Requests = {"q1"}
  MaxSeen = 2
  Flights = {1, 2}
SYMMETRY PairSymmetry
INVARIANTS
  TypeOK
  AccessIsJust
PROPERTIES
  AnswersAreTrue
  SavesAreRight
  RegistryIsSound
  PageIsRight
\* Each component ends its requests.
CHECK_DEADLOCK FALSE
