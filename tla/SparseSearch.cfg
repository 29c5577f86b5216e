SPECIFICATION FairSearch
CONSTANTS
  Searches <- SomeSearches
  BlockCap = 2
  BatchSz = 2
  Exhausted = 7
INVARIANTS
  TopK
PROPERTIES
  SearchEnds
CHECK_DEADLOCK FALSE
