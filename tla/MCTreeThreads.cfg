SPECIFICATION Spec
CONSTANTS
  root = root
  ext = ext
  i1 = i1
  i2 = i2
  i3 = i3
  i4 = i4
  i5 = i5
  a = a
  b = b
  Dir = Dir
  Zero = Zero
  NoIno = NoIno
  Root = root
  Names = {a, b}
  Threads = {t1, t2}
  Inodes = {root, i1, i2, i3, i4}
  Outside = {}
  Ops = {"rmdir", "unlink", "rename"}
  RenameFlags = {"none", "exchange"}
  InodeReuse = FALSE
  InitialTrees <- Deep
  RingSize = 4
  TrackedMax = 9
  MaxOps = 3
  MaxRecords = 2
SYMMETRY AlikeThreads
INVARIANTS
  FailClosed
  TablesAgree
  DirectoryOrder
PROPERTIES
  Replayable
CHECK_DEADLOCK FALSE
