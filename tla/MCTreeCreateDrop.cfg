SPECIFICATION Spec
CONSTANTS
  root = root
  ext = ext
  i1 = i1
  i2 = i2
  i3 = i3
  i4 = i4
  i5 = i5
  a = a
  b = b
  Dir = Dir
  Zero = Zero
  NoIno = NoIno
  Root = root
  Names = {a, b}
  Threads = {t1}
  Inodes = {root, i1, i2, i3, i4}
  Outside = {}
  Ops = {"mkdir", "rmdir", "create", "unlink", "rename"}
  RenameFlags = {"none"}
  InodeReuse = FALSE
  InitialTrees <- Inside
  RingSize = 1
  TrackedMax = 9
  MaxOps = 2
  MaxRecords = 9
INVARIANTS
  FailClosed
CHECK_DEADLOCK FALSE
