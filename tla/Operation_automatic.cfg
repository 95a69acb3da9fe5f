SPECIFICATION Spec
CONSTANTS
  Members = {m1, m2}
  Staff = {s1, s2}
  Automatic = TRUE
  Linkages = {"v1"}
  Refusals = {"not_linked", "unknown"}
  Flaws = {"none"}
  RecipientLimit = 1
  CanCrash = TRUE
  MaxStamp = 5
  MaxMessage = 1
SYMMETRY Symmetry
INVARIANTS
  TypeOK
  WithinLimit
PROPERTIES
  ExclusionsRespected
CHECK_DEADLOCK FALSE
