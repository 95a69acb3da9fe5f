SPECIFICATION Spec
PROPERTIES
  PagesAreFair
  ReservedIsTaken
  NobodyWaitsForEver
  ViewSettles
\* Requests end, the cache's clock stops at its bound, and a page rests.
CHECK_DEADLOCK FALSE
