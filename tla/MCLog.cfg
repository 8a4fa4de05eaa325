CONSTANTS
  Thread = {t1, t2}
  NHome = 3
  Val = {v1, v2}
  MAXOPBLOCKS = 3
  LOGSIZE = 6
  LogSize = 6
  OpBlocks = 2
  NoBuf = NoBuf
  MaxBytes = 2
  COLS = 3
  ROWS = 2
  Glyph = {"a", "b"}
  MaxLines = 4
  Reader = {p1, p2}
  Key = {a, b}
  Newline = nl
  INPUT_BUF = 3
  UINT = 6
  MaxN = 2
SPECIFICATION MCSpec
INVARIANTS KeysDecoded ScreenExact NeverStuck
PROPERTIES Atomic LineEdited
SYMMETRY LogSymmetry
VIEW LogView
