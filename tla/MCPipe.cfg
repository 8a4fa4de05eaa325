CONSTANTS
  Reader = {r1}
  Writer = {w1, w2}
  Mortal = {r1, w1}
  Byte = {0, 1}
  Text <- MCText
  PIPESIZE = 2
  UINT = 4
  MaxN = 2
  HeapEnd = 8
  MinCore = 3
  Requests = {0, 1, 2, 4}
SPECIFICATION MCSpec
INVARIANTS NoUseAfterFree SleepersHaveReason
PROPERTIES Fifo CallsReturn HeapSound
CHECK_DEADLOCK FALSE
