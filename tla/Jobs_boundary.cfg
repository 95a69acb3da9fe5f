SPECIFICATION Spec
CONSTANTS
  Jobs = {1, 2, 3, 4, 5}
  CreatedAt <- Dates
  Undated <- NoDate
  PageSize = 2
  MaxPages = 2
  Counting = "before"
  Surroundings <- OnlyRegister
  MaxChanges = 3
CHECK_DEADLOCK FALSE
INVARIANT ListIsComplete
