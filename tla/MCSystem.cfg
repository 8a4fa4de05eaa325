CONSTANTS
  NPROC = 3
  NCPU = 2
  MaxPid = 3
  KillPids = {2}
  Slot = {1, 2}
  FirstSlot = 1
  Pages = {1, 2, 3, 4, 5, 6, 7, 8, 9, 10, 11, 12, 13}
  PGSIZE = 2
  NPDE = 2
  NPTE = 2
  VSPACE = 16
  Segments <- MCSegments
  Amounts <- MCAmounts
  MaxSegs = 2
  MaxMemOps = 4
  MAXARGS = 3
  MaxLine = 5
  Patterns <- MCPatterns
  Texts <- MCTexts
  Inputs <- MCInputs
  Pattern <- MCPattern
  BufSize = 4
  Cells = 6
  DIRSIZ = 3
  Bits = 8
  Jobs <- MCJobs
SPECIFICATION MCSpec
INVARIANTS StackSafe HandOff WaitSound ParentLive SpacesSound
INVARIANTS LinesUnderstood FiltersExact StringsExact
PROPERTIES SlotOwner FailureKeeps
