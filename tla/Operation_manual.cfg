SPECIFICATION Spec
CONSTANTS
  Members = {m1, m2}
  Staff = {s1, s2}
  Automatic = FALSE
  Linkages = {"v1", "v2"}
  Refusals = {"opted_out", "missing"}
  Flaws = {"none"}
  RecipientLimit = 2
  CanCrash = TRUE
  MaxStamp = 4
  MaxMessage = 2
SYMMETRY Symmetry
INVARIANTS
  InHand
  SoleValidator
  PopulationAgrees
  ReservedIsConfirmed
PROPERTIES
  FrozenOnceReserved
CHECK_DEADLOCK FALSE
