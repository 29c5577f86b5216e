SPECIFICATION SparseSpec
CONSTANTS
  Docs <- Ids
  Terms <- Words
  Vectors <- SomeVectors
  Batches <- SomeBatches
  BlockCap = 3
  Levels = 2
  CountLimit = 2
  TombNum = 1
  TombDen = 2
  MaxCount = 3
INVARIANTS
  
  HeadersExact
  InfoFresh
  CountExact
