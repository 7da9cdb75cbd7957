SPECIFICATION Spec
CONSTANTS
  root = root
  ext = ext
  i1 = i1
  i2 = i2
  i3 = i3
  i4 = i4
  i5 = i5
  a = a
  b = b
  Dir = Dir
  Zero = Zero
  NoIno = NoIno
  Root = root
  Names = {a, b}
  Threads = {t1}
  Inodes = {root,ext,i1,i2,i3,i4,i5}
  Outside = {ext}
  Ops = {"mkdir", "rmdir", "unlink", "rename"}
  RenameFlags = {"none", "noreplace"}
  InodeReuse = FALSE
  InitialTrees <- Boundary
  RingSize = 1
  TrackedMax = 9
  MaxOps = 3
  MaxRecords = 2
INVARIANTS
  FailClosed
PROPERTIES
  ReplayableAcross
CHECK_DEADLOCK FALSE
