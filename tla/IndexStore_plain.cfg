SPECIFICATION FairSpec
CONSTANTS
  a = a
  b = b
  v = v
  w = w
  bad = bad
  red = red
  blue = blue
  Names = {a, b}
  MaxId = 3
  NameBatches <- PlainNames
  Batches <- PlainBatches
  Labels <- MCLabels
  Vecs = {v, w}
  NoVec = NoVec
  SizeRange = 64
  BadVecs = {}
  Tags = {red}
  NoTag = NoTag
  UpdateTags = {red, NoTag}
  NoName = NoName
  Threads = {t1}
  NoThread = NoThread
  SaveEvery = 3
  MaxCrashes = 0
  MaxLog = 9
  MaxDel = 3
INVARIANTS
  PromisesKept
  Agreement
  Recoverable
PROPERTIES
  
  OpsComplete
