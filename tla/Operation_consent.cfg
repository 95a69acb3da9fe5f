SPECIFICATION Spec
CONSTANTS
  Members = {m1, m2}
  Staff = {s1, s2}
  Automatic = TRUE
  Linkages = {"v1", "v2"}
  Refusals = {"opted_out"}
  Flaws = {"none"}
  RecipientLimit = 2
  CanCrash = FALSE
  MaxStamp = 4
  MaxMessage = 2
SYMMETRY Symmetry
PROPERTIES
  SendsAsPromised
CHECK_DEADLOCK FALSE
