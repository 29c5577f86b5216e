SPECIFICATION IdSpec
CONSTANTS
  Names = {a, b, c}
  NameBatches <- MCBatches
  MaxId = 4
SYMMETRY MCSymmetry
INVARIANTS
  IdInv
PROPERTIES
  IdIsStable
