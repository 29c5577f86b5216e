SPECIFICATION FairSpec
CONSTANTS
  r1 = r1
  r2 = r2
  r3 = r3
  x1 = x1
  x2 = x2
  x3 = x3
  old = old
  saved = saved
  Backed = {saved}
  NoRequest = NoRequest
  Requests = {r1, r2, r3}
  Indexes = {x1, x2, x3}
  Asks <- MixedAsks
  Existing = {x1, x2}
  Logged <- OldLog
  Size <- Sizes
  MaxMemory = 1
  SaveEvery = 2
  MaxEntries = 4
INVARIANTS
  Durable
  Served
  
PROPERTIES
  LeavesSaved
  RequestsEnd
