CONSTANTS
  NPROC = 3
  NCPU = 2
  MaxPid = 3
  KillPids = {2, 3}
SPECIFICATION Spec
INVARIANT NoStaleKill
