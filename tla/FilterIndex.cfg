SPECIFICATION FilterSpec
CONSTANTS
  i1 = i1
  i2 = i2
  i3 = i3
  Ids = {i1, i2, i3}
  MaxTorn = 1
  Values <- Keys
  MaxSize = 2
  MaxDelta = 3
  CountMod = 4
  Fields = {"age", "tag"}
  NumField = "age"
  Filters <- SomeFilters
  NoFilter = NoFilter
  Half = 20
  Gap = 10
  Conditions <- SomeConditions
SYMMETRY Alike
INVARIANTS
  FilterInv
  RangeExact
  
PROPERTIES
  TypesBound
