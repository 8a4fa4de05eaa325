CONSTANTS
  Thread = {t1, t2}
  NHome = 4
  Val = {0}
  MAXOPBLOCKS = 2
  LOGSIZE = 4
  LogSize = 4
  OpBlocks = 2
  NoBuf = NoBuf
SPECIFICATION Spec
INVARIANT SpaceSuffices
