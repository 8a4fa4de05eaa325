CONSTANTS
  Reader = {r1}
  Writer = {w1, w2}
  Mortal = {r1}
  Byte = {0, 1}
  Text <- MCText
  PIPESIZE = 2
  UINT = 4
  MaxN = 2
  HeapEnd = 8
  MinCore = 3
  Requests = {0, 1, 2, 4}
SPECIFICATION MCSpec
PROPERTY KilledExits
CHECK_DEADLOCK FALSE
