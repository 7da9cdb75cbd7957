SPECIFICATION Spec
CONSTANTS
  c1 = c1
  c2 = c2
  t1 = t1
  t2 = t2
  f = f
  g = g
  Dir = Dir
  Zero = Zero
  MaxRecords = 9
  NoOp = NoOp
  Threads = {t1, t2}
  Cookies = {c1, c2}
  Files = {f}
  Captured = {f}
  Cells = 2
  MaxLen = 1
  Kinds = {"pwrite"}
  SyncWrites = TRUE
  SharedReap = FALSE
  CaptureLimit = 2
  Faults = FALSE
  RingSize = 8
  DioMax = 2
  MaxOps = 3
SYMMETRY Symmetric
INVARIANTS
  FailClosed
CONSTRAINT Narrow
CHECK_DEADLOCK FALSE
