------------------------------- MODULE Replay -------------------------------
(***************************************************************************)
(* What statediff_apply_vfs does with a batch: each record is applied to   *)
(* the backup's copy of the tree, in order, until one fails; nothing is    *)
(* rolled back.                                                            *)
(*                                                                         *)
(* A copy of the tree is a function from the paths that exist (sequences   *)
(* of components, <<>> is the target root) to Dir or to a file's content,  *)
(* a sequence of cells.  A cell stands for any fixed number of bytes.      *)
(* Owner, permission bits and times are left out.                          *)
(***************************************************************************)
EXTENDS Naturals, Sequences, SequencesExt

CONSTANTS Dir,       \* the value of a path that names a directory
          Zero,      \* a cell of a hole, or of a range that was zeroed
          MaxRecords \* MAX_REPLAY_RECORDS, 1000000 in the code

(* An empty file is not a directory.                                       *)
ASSUME DirAssumption == Dir # <<>>
ASSUME LimitAssumption == MaxRecords \in Nat

IsDirAt(fs, p)  == p \in DOMAIN fs /\ fs[p] = Dir
IsFileAt(fs, p) == p \in DOMAIN fs /\ fs[p] # Dir

(* The proper prefixes of p, the root excluded: the directories that       *)
(* ensure_parent_dirs visits.                                              *)
ParentsOf(p) == {SubSeq(p, 1, k) : k \in 1..(Len(p) - 1)}

Set(fs, p, node) == [q \in DOMAIN fs \cup {p} |-> IF q = p THEN node ELSE fs[q]]
Drop(fs, p)      == [q \in DOMAIN fs \ {p} |-> fs[q]]

Empty(fs, p) == \A q \in DOMAIN fs : IsPrefix(p, q) => q = p

(* path with its prefix old replaced by new *)
Rebase(path, old, new) == new \o SubSeq(path, Len(old) + 1, Len(path))

(* The tree after everything at or below old has moved to new, which must  *)
(* be absent or about to be replaced.                                      *)
MoveSubtree(fs, old, new) ==
  LET moved   == {q \in DOMAIN fs : IsPrefix(old, q)}
      kept    == DOMAIN fs \ (moved \cup {new})
      came(q) == {m \in moved : Rebase(m, old, new) = q}
  IN [q \in kept \cup {Rebase(m, old, new) : m \in moved} |->
        IF came(q) = {} THEN fs[q] ELSE fs[CHOOSE m \in came(q) : TRUE]]

-----------------------------------------------------------------------------
Done(fs)   == [fs |-> fs, ok |-> TRUE]
Failed(fs) == [fs |-> fs, ok |-> FALSE]

(* ensure_parent_dirs: mkdir of every missing ancestor.  A file among them *)
(* makes this call or the operation after it fail with ENOTDIR; the        *)
(* directories above a file exist, so nothing was created by then.         *)
Blocked(fs, p) == \E q \in ParentsOf(p) : IsFileAt(fs, q)
WithParents(fs, p) ==
  [q \in DOMAIN fs \cup ParentsOf(p) |-> IF q \in DOMAIN fs THEN fs[q] ELSE Dir]

(* open(path, O_CREAT) after ensure_parent_dirs: the file's content is     *)
(* <<>> if it was not there.                                               *)
CanOpen(fs, p)  == ~Blocked(fs, p) /\ ~IsDirAt(fs, p)
ContentAt(fs, p) == IF p \in DOMAIN fs THEN fs[p] ELSE <<>>

Resize(data, n) == [k \in 1..n |-> IF k <= Len(data) THEN data[k] ELSE Zero]
Larger(m, n)    == IF m > n THEN m ELSE n

(* pwrite of the cells src at offset off *)
Overwrite(data, off, src) ==
  [k \in 1..Larger(Len(data), off + Len(src)) |->
     IF k > off /\ k <= off + Len(src) THEN src[k - off]
     ELSE IF k <= Len(data) THEN data[k] ELSE Zero]

(* apply_zero_range: zeros within the current size, then the size is       *)
(* extended unless KEEP_SIZE is set.                                       *)
ZeroRange(data, off, n, keep) ==
  LET size   == Len(data)
      zeroed == [k \in 1..size |-> IF k > off /\ k <= off + n THEN Zero ELSE data[k]]
  IN IF ~keep /\ off + n > size THEN Resize(zeroed, off + n) ELSE zeroed

Modify(fs, p, data) == Done(Set(WithParents(fs, p), p, data))

apply_create(fs, r) ==
  IF CanOpen(fs, r.path) THEN Modify(fs, r.path, ContentAt(fs, r.path)) ELSE Failed(fs)

apply_write(fs, r) ==
  IF CanOpen(fs, r.path)
  THEN Modify(fs, r.path, Overwrite(ContentAt(fs, r.path), r.off, r.data))
  ELSE Failed(fs)

apply_truncate(fs, r) ==
  IF CanOpen(fs, r.path)
  THEN Modify(fs, r.path, Resize(ContentAt(fs, r.path), r.size))
  ELSE Failed(fs)

apply_zero_range(fs, r) ==
  IF r.size > 0 /\ CanOpen(fs, r.path)
  THEN Modify(fs, r.path, ZeroRange(ContentAt(fs, r.path), r.off, r.size, r.keep))
  ELSE Failed(fs)

apply_unlink(fs, r) ==
  IF Blocked(fs, r.path) \/ IsDirAt(fs, r.path) THEN Failed(fs)
  ELSE Done(Drop(fs, r.path))

apply_mkdir(fs, r) ==
  IF Blocked(fs, r.path) \/ IsFileAt(fs, r.path) THEN Failed(fs)
  ELSE Done(Set(WithParents(fs, r.path), r.path, Dir))

apply_rmdir(fs, r) ==
  IF Blocked(fs, r.path) \/ IsFileAt(fs, r.path) \/ ~Empty(fs, r.path) THEN Failed(fs)
  ELSE Done(Drop(fs, r.path))

(* rename(2) on the backup.  A missing source, a target of the other kind, *)
(* a non-empty target directory and a move below itself are errors.        *)
CanRename(fs, old, new) ==
  /\ old \in DOMAIN fs
  /\ new \in DOMAIN fs => /\ IsDirAt(fs, old) = IsDirAt(fs, new)
                          /\ Empty(fs, new) \/ old = new
  /\ IsPrefix(old, new) => old = new

(* flags: RENAME_EXCHANGE and RENAME_WHITEOUT are refused (ENOTSUP) before *)
(* anything is created, NOREPLACE is checked by an lstat after the parents *)
(* of the new path exist.                                                  *)
apply_rename(fs, r) ==
  IF ~(r.flags \in {"none", "noreplace"}) \/ Blocked(fs, r.npath) THEN Failed(fs)
  ELSE LET base == WithParents(fs, r.npath)
           taken == r.flags = "noreplace" /\ r.npath \in DOMAIN base
       IN IF taken \/ ~CanRename(base, r.path, r.npath) THEN Failed(base)
          ELSE IF r.path = r.npath THEN Done(base)
          ELSE Done(MoveSubtree(base, r.path, r.npath))

ApplyRecord(fs, r) ==
  CASE r.op = "create"   -> apply_create(fs, r)
    [] r.op = "write"    -> apply_write(fs, r)
    [] r.op = "truncate" -> apply_truncate(fs, r)
    [] r.op = "zero"     -> apply_zero_range(fs, r)
    [] r.op = "unlink"   -> apply_unlink(fs, r)
    [] r.op = "mkdir"    -> apply_mkdir(fs, r)
    [] r.op = "rmdir"    -> apply_rmdir(fs, r)
    [] r.op = "rename"   -> apply_rename(fs, r)

(* main(): the loop over the records stops at the first that fails.        *)
ApplyStep(out, r) == IF out.ok THEN ApplyRecord(out.fs, r) ELSE out
Replayed(fs, batch) ==
  LET after[n \in 0..Len(batch)] ==
        IF n = 0 THEN Done(fs) ELSE ApplyStep(after[n - 1], batch[n])
  IN after[Len(batch)]

(* An exchange in the records, which apply_rename refuses.                 *)
WithExchange(records) ==
  \E i \in 1..Len(records) : records[i].op = "rename" /\ records[i].flags = "exchange"

(* A batch over the limit is refused before its first record is read.      *)
ApplyBatch(fs, batch) ==
  IF Len(batch) > MaxRecords THEN Failed(fs) ELSE Replayed(fs, batch)
=============================================================================
