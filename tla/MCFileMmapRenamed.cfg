SPECIFICATION Spec
CONSTANTS
  t1 = t1
  t2 = t2
  f1 = f1
  f2 = f2
  a = a
  b = b
  Dir = Dir
  Zero = Zero
  NoIno = NoIno
  NoCall = NoCall
  Threads = {t1, t2}
  Names = {a, b}
  Inodes = {f1, f2}
  ChunkLimit = 1
  MaxChunks = 2
  MaxSegs = 2
  Setups <- Renamed
  MaxRecords = 9
  Orderly = FALSE
INVARIANTS
  FailClosed
SYMMETRY Alike
CHECK_DEADLOCK FALSE
