CONSTANTS
  Process = {p1, p2}
  NFILE = 3
  NOFILE = 2
  NPIPE = 1
  MaxRef = 5
  AnyDup2 = FALSE
  Caller = {q1, q2}
  NINODES = 4
  MaxCalls = 3
  Name = {"a", "b"}
  Paths <- ShortPaths
  Ino = {1, 2}
  ROOT = 1
  BSIZE = 2
  NDIRECT = 1
  FSSIZE = 9
  BPB = 16
  NMETA = 2
  MAXOPBLOCKS = 6
  UINT = 8
  Bytes <- MCBytes
  MaxOps = 3
  Ordered <- MCOrdered
  Sizes = {0, 3, 6}
SPECIFICATION MCSpec
INVARIANTS RefCount ObjectsExact ReferencesSafe LinksExact FilesKept OpFits
SYMMETRY FilesSymmetry
VIEW FilesView
