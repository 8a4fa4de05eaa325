CONSTANTS
  NPROC = 3
  NCPU = 1
  MaxPid = 3
  KillPids = {2}
SPECIFICATION FairSpec
PROPERTIES OrphansReaped KilledExits
CHECK_DEADLOCK FALSE
