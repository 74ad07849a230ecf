CONSTANTS
  None = None
  Dialogs = {d1, d2}
  Inodes = {1, 2, 3, 4, 5, 6, 7, 8}
  MaxVersion = 2
  MaxStarts = 3
SYMMETRY MCSymmetry
SPECIFICATION Spec
INVARIANTS TypeOK  
CHECK_DEADLOCK FALSE
