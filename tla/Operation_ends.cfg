SPECIFICATION FairSpec
CONSTANTS
  Members = {m1}
  Staff = {s1, s2}
  Automatic = TRUE
  Linkages = {"v1"}
  Refusals = {"ineligible"}
  Flaws = {"none", "job", "version", "empty", "unfilled"}
  RecipientLimit = 1
  CanCrash = FALSE
  MaxStamp = 3
  MaxMessage = 2
PROPERTIES
  ValidationEnds
CHECK_DEADLOCK FALSE
