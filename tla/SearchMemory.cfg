SPECIFICATION MemorySpec
CONSTANTS
  Threads = {t1, t2}
  Lists = {l1, l2, l3}
  MaxNodes = 2
  StartNodes = 1
  Tags = 3
  CacheSize = 1
  Stripes = 2
  MaxVersion = 1
  None = None
SYMMETRY Alike
INVARIANTS
  ListsApart
  VisitedExact
  ListsFit
  ViewsHold
  CacheFresh
