CONSTANTS
  Cells = {c1, c2, c3, c4, c5}
  Rows = 3
  MaxKept = 3
SYMMETRY CellSymmetry
SPECIFICATION Spec
INVARIANTS KeptIsOfItsRow OneOwnerEach
