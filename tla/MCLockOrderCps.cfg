CONSTANTS
  CPU = {c1, c2}
  NOCPU = NOCPU
  WithCps = TRUE
SPECIFICATION Spec
INVARIANT NoDeadlock
SYMMETRY CPUSymmetry
