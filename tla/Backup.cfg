SPECIFICATION FairSpec
CONSTANTS
  r1 = r1
  r2 = r2
  n1 = n1
  n2 = n2
  x1 = x1
  x2 = x2
  NoRequest = NoRequest
  Writer = Writer
  Requests = {r1, r2}
  Names = {n1, n2}
  Asks <- TwoAsks
  Indexes = {x1, x2}
  MaxWrites = 1
  MaxRestarts = 1
INVARIANTS
  
  
  TarDescribed
  NoLeftovers
PROPERTIES
  FinishedKept
  ActiveEnds
