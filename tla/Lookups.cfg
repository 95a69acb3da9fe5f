SPECIFICATION Spec
CONSTANTS
  Jobs = {1, 2, 3, 4, 5}
  CreatedAt <- SomeDates
  PageSize = 2
  MaxPages = 2
  MaxMoves = 2
  Members = {"m1", "m2"}
  MaxDamages = 2
  Verdicts = {"sent", "failed", "unknown", "recipient_not_linked"}
  GatewayStatuses = {"302", "403", "429", "503"}
  Transport = {"timeout", "network", "protocol"}
  Callers = {"c1", "c2", "c3"}
  TTL = 2
  Life = 3
  FetchTime = 1
  MaxTime = 7
  Selected <- TwoMembers
  Others = {"m3"}
  Excluded <- SecondExcluded
  CustomJob = FALSE
  ChunkSize = 1
  MaxFacts = 1
  Ids = {1, 2, 3}
  Numbers <- SomeNumbers
  Profiles <- SomeProfiles
  Limit = 2
INVARIANTS
  TypeOK
  ListIsSound
  GatewayIsTrue
  VerdictIsJustified
  SelectionIsRight
PROPERTIES
  LineIsUnderstood
  TokenIsSound
\* Each component ends its request.
CHECK_DEADLOCK FALSE
