SPECIFICATION Spec
CONSTANTS
  c1 = c1
  c2 = c2
  t1 = t1
  t2 = t2
  f = f
  g = g
  Dir = Dir
  Zero = Zero
  MaxRecords = 9
  NoOp = NoOp
  Threads = {t1}
  Cookies = {c1, c2}
  Files = {f, g}
  Captured = {f}
  Cells = 2
  MaxLen = 2
  Kinds = {"pwrite", "pwritev", "pread"}
  SyncWrites = TRUE
  SharedReap = FALSE
  CaptureLimit = 2
  Faults = TRUE
  RingSize = 3
  DioMax = 1
  MaxOps = 2
SYMMETRY Symmetric
INVARIANTS
  TypeOK
  FailClosed
  NoFalseAlarm
CHECK_DEADLOCK FALSE
