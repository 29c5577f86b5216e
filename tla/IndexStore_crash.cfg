SPECIFICATION Spec
CONSTANTS
  a = a
  b = b
  v = v
  w = w
  bad = bad
  red = red
  blue = blue
  Names = {a, b}
  MaxId = 2
  NameBatches <- RoughNames
  Batches <- RoughBatches
  Labels <- MCLabels
  Vecs = {v, bad}
  NoVec = NoVec
  SizeRange = 64
  BadVecs = {bad}
  Tags = {red, blue}
  NoTag = NoTag
  UpdateTags = {red}
  NoName = NoName
  Threads = {t1}
  NoThread = NoThread
  SaveEvery = 3
  MaxCrashes = 1
  MaxLog = 4
  MaxDel = 1
INVARIANTS
  IndexInv
PROPERTIES
  
  LogClearedWhenSaved
CHECK_DEADLOCK FALSE
