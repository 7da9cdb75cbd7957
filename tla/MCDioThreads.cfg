SPECIFICATION Spec
CONSTANTS
  c1 = c1
  c2 = c2
  t1 = t1
  t2 = t2
  f = f
  g = g
  Dir = Dir
  Zero = Zero
  MaxRecords = 9
  NoOp = NoOp
  Threads = {t1, t2}
  Cookies = {c1, c2}
  Files = {f}
  Captured = {f}
  Cells = 2
  MaxLen = 2
  Kinds = {"pwrite"}
  SyncWrites = FALSE
  SharedReap = FALSE
  CaptureLimit = 1
  Faults = FALSE
  RingSize = 4
  DioMax = 2
  MaxOps = 2
SYMMETRY Symmetric
INVARIANTS
  FailClosed
  WriteOrder
  NothingStranded
CHECK_DEADLOCK FALSE
