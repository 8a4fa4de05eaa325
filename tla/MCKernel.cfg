CONSTANTS
  CPU = {c1, c2}
  NOCPU = NOCPU
  WithCps = FALSE
  Cpu = {c1, c2}
  Thread = {t1, t2}
  MaxHeld = 1
  Client = {c1, c2}
  Buffer = {b1, b2, b3}
  Block = {k1, k2, k3, k4}
  Written = {k1}
  Value = {0, 1}
  NoBlock = NoBlock
  MaxPinned = 1
  UWORD = 16
  WORD = 2
  MaxSz = 3
  Vals <- MCVals
  Asked <- MCAsked
  Fds = 2
  Proc = {q1}
  Calls = 3
  SYS_cn = 2
  SYS_getcount = 1
  Priorities = {0}
  Ticks = 4
  Lengths <- MCLengths
  MaxCount = 1
  Radix <- MCRadix
  IsBcd = TRUE
  MaxTicks = 2
SPECIFICATION MCSpec
INVARIANTS NoDeadlock InterruptsMatched  ArgsExact RealInstant
PROPERTIES Coherent SyscallsExact
SYMMETRY KernelSymmetry
