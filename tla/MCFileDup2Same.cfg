CONSTANTS
  Process = {p1, p2}
  NFILE = 3
  NOFILE = 2
  NPIPE = 1
  MaxRef = 5
  AnyDup2 = TRUE
SPECIFICATION Spec
INVARIANT NoPanic
SYMMETRY ProcessSymmetry
