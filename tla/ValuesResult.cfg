CONSTANTS
  Cells = {c1, c2, c3}
  Rows = 2
  MaxKept = 1
SPECIFICATION Spec
INVARIANT ResultIsReadable
