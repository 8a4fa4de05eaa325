CONSTANTS
  Thread = {t1, t2, t3}
  NHome = 3
  Val = {0}
  MAXOPBLOCKS = 2
  LOGSIZE = 4
  LogSize = 4
  OpBlocks = 1
  NoBuf = NoBuf
  Client = {p1, p2}
  Buffer = {b1, b2}
  Block = {k1, k2, k3}
  Written = {k1}
  Value = {0, 1}
  NoBlock = NoBlock
  MaxPinned = 0
  Slots = 5
  Pipes = {1, 2}
  Capacity = 1
  Amount = 2
  Sessions <- MCSessions
SPECIFICATION MCSpec
INVARIANTS SpaceSuffices PipelinesWired
PROPERTIES LogMoves BreadReturns PromptReturns
