---------------------------- MODULE TrackedTree ----------------------------
(***************************************************************************)
(* The capture of namespace operations, end to end: application threads    *)
(* inside the kernel's mkdir, rmdir, create, unlink and rename, the BPF    *)
(* hooks around them (statediff_vfs.bpf.c), the ring buffer, the           *)
(* capturer's directory table and handle_event (statediff_vfs.c), and the  *)
(* replay of a harvested batch on the backup (module Replay).              *)
(*                                                                         *)
(* A call of a thread takes several steps, and other threads and the       *)
(* capturer take theirs in between:                                        *)
(*   Enter*   the directory locks are taken and the fentry hook runs;      *)
(*   Vfs*     the kernel performs the operation, or finds it impossible;   *)
(*   *Ret     the part of the fexit hook that maintains tracked_dirs;      *)
(*   Emit*    the rest of it: the event is written to the ring buffer; the *)
(*            locks are released and the call returns.                     *)
(***************************************************************************)
EXTENDS Replay, FiniteSets

CONSTANTS
  Threads,      \* threads of the application
  Inodes,       \* inode numbers of the file system, the root's included
  Root,         \* the inode of the captured directory
  Outside,      \* inodes of directories of the same file system outside it
  Names,        \* names of directory entries
  NoIno,        \* the zero inode key
  Ops,          \* the operations the application uses
  RenameFlags,  \* the flags it passes to renameat2
  InodeReuse,   \* TRUE if a freed inode number may be handed out again
  InitialTrees, \* the trees the capture may start on
  RingSize,     \* events the ring buffer holds (64 MiB in the code)
  TrackedMax,   \* entries tracked_dirs holds (65536 in the code)
  MaxOps        \* bound: no call starts once this many have executed

OpNames == {"mkdir", "rmdir", "create", "unlink", "rename"}
FlagNames == {"none", "noreplace", "exchange"}

(* Components of a path: a name; or an inode, which stands for an outside  *)
(* directory in tree, and for "<unknown:dev:ino>" in what the capturer     *)
(* resolves.                                                               *)
Elems == Names \cup Inodes
Paths == Seq(Elems)
Node  == [ino : Inodes, dir : BOOLEAN]

IsTree(t) == /\ t = [p \in DOMAIN t |-> t[p]]
             /\ \A p \in DOMAIN t : p \in Paths /\ t[p] \in Node

(* What every file system satisfies: a root; entries only in directories;  *)
(* one path to a directory.                                                *)
IsFileSystem(t) ==
  /\ <<>> \in DOMAIN t /\ t[<<>>].dir
  /\ \A p \in DOMAIN t : \A q \in ParentsOf(p) : q \in DOMAIN t /\ t[q].dir
  /\ \A p, q \in DOMAIN t : t[p].dir /\ t[p].ino = t[q].ino => p = q

ASSUME TreeAssumption ==
  /\ Root \in Inodes /\ Outside \subseteq Inodes /\ Root \notin Outside
  /\ NoIno \notin Inodes
  /\ Names # {} /\ Names \cap Inodes = {}
  /\ Ops \subseteq OpNames /\ RenameFlags \subseteq FlagNames
  /\ InodeReuse \in BOOLEAN
  /\ RingSize \in Nat /\ TrackedMax \in Nat /\ MaxOps \in Nat
  /\ \A t \in InitialTrees : IsTree(t) /\ IsFileSystem(t)

VARIABLES
  tree,        \* the primary's file system: path -> [ino, dir]
  used,        \* inode numbers handed out so far
  tracked,     \* BPF map tracked_dirs
  pc,          \* where each thread is in its call
  call,        \* its arguments and its pending_* entry
  ring,        \* BPF ring buffer rb
  lost,        \* TRUE once a counter of stats_loss_count is not zero
  dirs,        \* rt->dirs: inode -> path
  batch,       \* rt->batch
  batch_error, \* rt->batch_error
  daemon,      \* "run"; "failed" after it answered with an error
  backup,      \* the backup's copy: path -> Dir or <<>>
  applied,     \* FALSE once statediff_apply_vfs has failed
  clock        \* ghost: calls executed so far

kernel  == <<tree, used, clock>>
threads == <<pc, call>>
user    == <<dirs, batch, batch_error>>
sink    == <<daemon, backup, applied>>
vars == <<tree, used, tracked, pc, call, ring, lost, dirs, batch, batch_error,
          daemon, backup, applied, clock>>

-----------------------------------------------------------------------------
(* The file system.                                                        *)

InTree(p) == p = <<>> \/ Head(p) \notin Outside
IsDirPath(p) == p \in DOMAIN tree /\ tree[p].dir
Ino(p)    == tree[p].ino
At(i)     == {p \in DOMAIN tree : tree[p].ino = i}
PathOf(i) == CHOOSE p \in At(i) : TRUE

(* What a comparison of the captured directory with its backup would see.  *)
Visible(t) == [p \in {q \in DOMAIN t : InTree(q)} |-> IF t[p].dir THEN Dir ELSE <<>>]

(* The arguments of a call and its pending_* entry.  saved: the fentry     *)
(* hook stored one.  ok: the kernel's return value was not negative.  pins:*)
(* inodes the call keeps from being freed.  at: ghost, when it executed.   *)
Call == [op : OpNames, par : Inodes, name : Names, npar : Inodes, nname : Names,
         obj : Inodes \cup {NoIno}, dir : BOOLEAN, flags : FlagNames,
         saved : BOOLEAN, ok : BOOLEAN, at : Nat, pins : SUBSET Inodes]

Event == [op : OpNames, par : Inodes, name : Names, npar : Inodes, nname : Names,
          obj : Inodes, dir : BOOLEAN, flags : FlagNames, at : Nat]

EventOf(c) == [op |-> c.op, par |-> c.par, name |-> c.name, npar |-> c.npar,
               nname |-> c.nname, obj |-> c.obj, dir |-> c.dir, flags |-> c.flags,
               at |-> c.at]

Busy(t)    == pc[t] # "idle"
InCall(t, op, at) == pc[t] = at /\ call[t].op = op

(* The directories whose i_rwsem a thread holds: the parents, until the    *)
(* call returns; an open that creates drops it before do_filp_open exits.  *)
Locks(t) ==
  IF Busy(t) /\ call[t].op # "create" THEN {call[t].par, call[t].npar} ELSE {}
Unlocked(S, t) == \A u \in Threads \ {t} : S \cap Locks(u) = {}

(* s_vfs_rename_mutex: one rename between two directories at a time.       *)
CrossRename(t) == Busy(t) /\ call[t].op = "rename" /\ call[t].par # call[t].npar

Pinned == UNION {IF Busy(t) THEN call[t].pins ELSE {} : t \in Threads}
Allocated == {tree[p].ino : p \in DOMAIN tree} \cup Pinned
FreeInodes == Inodes \ (IF InodeReuse THEN Allocated ELSE used)

Add(s, i) == IF i \in s \/ Cardinality(s) < TrackedMax THEN s \cup {i} ELSE s

-----------------------------------------------------------------------------
(* Entry of a call: the kernel looks the names up and locks the parents,   *)
(* then the fentry hook stores a pending entry if a parent is tracked.     *)

Args(op, par, name, npar, nname, obj, dir, flags, saved) ==
  [op |-> op, par |-> par, name |-> name, npar |-> npar, nname |-> nname,
   obj |-> obj, dir |-> dir, flags |-> flags, saved |-> saved, ok |-> TRUE,
   at |-> 0, pins |-> {}]

AnyName == CHOOSE n \in Names : TRUE
NoCall == Args("mkdir", Root, AnyName, Root, AnyName, NoIno, TRUE, "none", FALSE)

Enter(t, c) ==
  /\ pc[t] = "idle" /\ clock < MaxOps
  /\ c.op \in Ops
  /\ Unlocked({c.par, c.npar}, t)
  /\ pc' = [pc EXCEPT ![t] = "entered"]
  /\ call' = [call EXCEPT ![t] = c]
  /\ UNCHANGED <<tree, used, clock, tracked, ring, lost, user, sink>>

(* save_child_op; the object of a mkdir has no inode yet.                  *)
save_child_op(t, op, p, n, obj, dir) ==
  Enter(t, Args(op, Ino(p), n, Ino(p), n, obj, dir, "none", Ino(p) \in tracked))

EnterMkdir(t) ==
  \E p \in DOMAIN tree, n \in Names :
    /\ IsDirPath(p) /\ Append(p, n) \notin DOMAIN tree
    /\ save_child_op(t, "mkdir", p, n, NoIno, TRUE)

EnterRmdir(t) ==
  \E p \in DOMAIN tree, n \in Names :
    /\ IsDirPath(Append(p, n)) /\ InTree(Append(p, n))
    /\ save_child_op(t, "rmdir", p, n, Ino(Append(p, n)), TRUE)

EnterUnlink(t) ==
  \E p \in DOMAIN tree, n \in Names :
    /\ Append(p, n) \in DOMAIN tree /\ ~IsDirPath(Append(p, n))
    /\ save_child_op(t, "unlink", p, n, Ino(Append(p, n)), FALSE)

(* handle_vfs_rename.  do_renameat2 and vfs_rename refuse a move of a      *)
(* directory below itself and a target of the other kind; RENAME_NOREPLACE *)
(* wants no target, RENAME_EXCHANGE one of any kind.                       *)
EnterRename(t) ==
  \E p, q \in DOMAIN tree, n, m \in Names, flags \in RenameFlags :
    LET old == Append(p, n)
        new == Append(q, m)
    IN /\ old \in DOMAIN tree /\ IsDirPath(q) /\ old # new
       /\ ~IsPrefix(old, new) /\ ~IsPrefix(new, old)
       /\ IF new \in DOMAIN tree
          THEN \/ flags = "none" /\ tree[new].dir = tree[old].dir
               \/ flags = "exchange"
          ELSE flags # "exchange"
       /\ p # q => ~ \E u \in Threads : CrossRename(u)
       /\ Enter(t, Args("rename", Ino(p), n, Ino(q), m, Ino(old), tree[old].dir,
                        flags, Ino(p) \in tracked \/ Ino(q) \in tracked))

-----------------------------------------------------------------------------
(* The kernel performs the operation.                                      *)

Executed(t, at, obj, ok, pins) ==
  /\ clock' = clock + 1
  /\ pc' = [pc EXCEPT ![t] = at]
  /\ call' = [call EXCEPT ![t].obj = obj, ![t].ok = ok, ![t].pins = pins,
                          ![t].at = clock + 1]
  /\ UNCHANGED <<tracked, ring, lost, user, sink>>

VfsMkdir(t) ==
  LET c == call[t]
  IN /\ InCall(t, "mkdir", "entered")
     /\ \E p \in At(c.par), i \in FreeInodes :
          /\ tree' = Set(tree, Append(p, c.name), [ino |-> i, dir |-> TRUE])
          /\ used' = used \cup {i}
          /\ Executed(t, "executed", i, TRUE, {})

(* vfs_rmdir takes the victim's lock, then finds out whether it is empty;  *)
(* it drops the inode before it returns.                                   *)
VfsRmdir(t) ==
  LET c == call[t]
  IN /\ InCall(t, "rmdir", "entered")
     /\ Unlocked({c.obj}, t)
     /\ \E p \in At(c.par) :
          LET old  == Append(p, c.name)
              done == Empty(tree, old)
          IN /\ tree' = IF done THEN Drop(tree, old) ELSE tree
             /\ Executed(t, "executed", c.obj, done, {})
     /\ UNCHANGED used

(* do_unlinkat still holds the inode when vfs_unlink returns.              *)
VfsUnlink(t) ==
  LET c == call[t]
  IN /\ InCall(t, "unlink", "entered")
     /\ \E p \in At(c.par) : tree' = Drop(tree, Append(p, c.name))
     /\ Executed(t, "marked", c.obj, TRUE, {c.obj})
     /\ UNCHANGED used

(* open(O_CREAT) of a name that is absent: no fentry hook, and the lock is *)
(* taken and released inside do_filp_open.  The open file keeps its inode  *)
(* and its parent's.                                                       *)
VfsCreate(t) ==
  \E p \in DOMAIN tree, n \in Names, i \in FreeInodes :
    LET c == Args("create", Ino(p), n, Ino(p), n, i, FALSE, "none", FALSE)
    IN /\ pc[t] = "idle" /\ clock < MaxOps /\ "create" \in Ops
       /\ IsDirPath(p) /\ Append(p, n) \notin DOMAIN tree
       /\ Unlocked({Ino(p)}, t)
       /\ tree' = Set(tree, Append(p, n), [ino |-> i, dir |-> FALSE])
       /\ used' = used \cup {i}
       /\ clock' = clock + 1
       /\ pc' = [pc EXCEPT ![t] = "marked"]
       /\ call' = [call EXCEPT ![t] = [c EXCEPT !.at = clock + 1, !.pins = {i, Ino(p)}]]
       /\ UNCHANGED <<tracked, ring, lost, user, sink>>

Moved(c, par, name) ==
  [c EXCEPT !.par = par, !.npar = par, !.name = name, !.nname = name,
            !.pins = {c.obj, par}]

(* The tree after what is at or below old and what is at or below new,     *)
(* neither of which lies below the other, have changed places.             *)
SwapSubtrees(fs, old, new) ==
  LET swapped(p) == IF IsPrefix(old, p) THEN Rebase(p, old, new)
                    ELSE IF IsPrefix(new, p) THEN Rebase(p, new, old) ELSE p
  IN [q \in {swapped(p) : p \in DOMAIN fs} |->
        fs[CHOOSE p \in DOMAIN fs : swapped(p) = q]]

(* A rename replaces a target of the same kind, a directory only if it is  *)
(* empty and its lock is free; RENAME_EXCHANGE makes the two change places.*)
(* do_renameat2 holds the target's inode until it returns.  The dentry of a*)
(* file another thread has just created moves with the file.               *)
VfsRename(t) ==
  LET c    == call[t]
      swap == c.flags = "exchange"
  IN /\ InCall(t, "rename", "entered")
     /\ \E p \in At(c.par), q \in At(c.npar) :
          LET old    == Append(p, c.name)
              new    == Append(q, c.nname)
              target == IF new \in DOMAIN tree THEN {Ino(new)} ELSE {}
              done   == swap \/ Empty(tree, new)
          IN /\ swap \/ Unlocked(target, t)
             /\ tree' = IF swap THEN SwapSubtrees(tree, old, new)
                        ELSE IF done THEN MoveSubtree(tree, old, new) ELSE tree
             /\ call' = [u \in Threads |->
                  IF u = t
                  THEN [c EXCEPT !.ok = done, !.at = clock + 1, !.pins = target]
                  ELSE IF done /\ InCall(u, "create", "marked") /\ call[u].obj = c.obj
                  THEN Moved(call[u], c.npar, c.nname)
                  ELSE IF swap /\ InCall(u, "create", "marked") /\ call[u].obj \in target
                  THEN Moved(call[u], c.par, c.name)
                  ELSE call[u]]
     /\ clock' = clock + 1
     /\ pc' = [pc EXCEPT ![t] = "executed"]
     /\ UNCHANGED <<used, tracked, ring, lost, user, sink>>

-----------------------------------------------------------------------------
(* The fexit hooks: first tracked_dirs, then the event.                    *)

Marked(t) ==
  /\ pc' = [pc EXCEPT ![t] = "marked"]
  /\ UNCHANGED <<kernel, call, ring, lost, user, sink>>

(* Mutant: the key read when mkdir was entered, before there was an inode. *)
TrackEntryKey(t) ==
  /\ InCall(t, "mkdir", "executed")
  /\ tracked' = IF call[t].saved THEN Add(tracked, NoIno) ELSE tracked
  /\ Marked(t)

handle_vfs_mkdir_ret(t) ==
  /\ InCall(t, "mkdir", "executed")
  /\ tracked' = IF call[t].saved THEN Add(tracked, call[t].obj) ELSE tracked
  /\ Marked(t)

handle_vfs_rmdir_ret(t) ==
  /\ InCall(t, "rmdir", "executed")
  /\ tracked' = IF call[t].saved /\ call[t].ok THEN tracked \ {call[t].obj} ELSE tracked
  /\ Marked(t)

handle_vfs_rename_ret(t) ==
  LET c == call[t]
  IN /\ InCall(t, "rename", "executed")
     /\ tracked' =
          IF ~(c.saved /\ c.ok /\ c.dir) THEN tracked
          ELSE IF c.npar \in tracked THEN Add(tracked, c.obj)
          ELSE IF c.par \in tracked THEN tracked \ {c.obj}
          ELSE tracked
     /\ Marked(t)

Return(t) ==
  /\ pc' = [pc EXCEPT ![t] = "idle"]
  /\ call' = [call EXCEPT ![t] = NoCall]
  /\ UNCHANGED <<kernel, tracked, user, sink>>

RingFull == Len(ring) >= RingSize

(* Mutant: a dropped event is not counted.                                 *)
EmitUncounted(t) ==
  LET c == call[t]
  IN /\ pc[t] = "marked" /\ c.op # "create"
     /\ ring' = IF c.saved /\ c.ok /\ ~RingFull THEN Append(ring, EventOf(c)) ELSE ring
     /\ UNCHANGED lost
     /\ Return(t)

(* Mutant: one buffer per CPU, read in any order.                          *)
EmitPerCpu(t) ==
  LET c == call[t]
  IN /\ pc[t] = "marked" /\ c.op # "create"
     /\ IF ~(c.saved /\ c.ok) THEN UNCHANGED <<ring, lost>>
        ELSE IF RingFull THEN lost' = TRUE /\ UNCHANGED ring
        ELSE /\ \E k \in 1..(Len(ring) + 1) : ring' = InsertAt(ring, k, EventOf(c))
             /\ UNCHANGED lost
     /\ Return(t)

(* emit_pending_event: an event that finds no room is counted as a drop.   *)
emit_pending_event(t) ==
  LET c == call[t]
  IN /\ pc[t] = "marked" /\ c.op # "create"
     /\ IF ~(c.saved /\ c.ok) THEN UNCHANGED <<ring, lost>>
        ELSE IF RingFull THEN lost' = TRUE /\ UNCHANGED ring
        ELSE ring' = Append(ring, EventOf(c)) /\ UNCHANGED lost
     /\ Return(t)

(* handle_do_filp_open: the only hook of a create.  It reads the parent and*)
(* the name from the open file, and counts nothing when the ring is full.  *)
handle_do_filp_open(t) ==
  LET c == call[t]
  IN /\ InCall(t, "create", "marked")
     /\ ring' = IF c.par \in tracked /\ ~RingFull THEN Append(ring, EventOf(c)) ELSE ring
     /\ UNCHANGED lost
     /\ Return(t)

-----------------------------------------------------------------------------
(* The capturer: handle_event of statediff_vfs.c, for one event.           *)

resolve_event_path(par, name) ==
  IF par \in DOMAIN dirs THEN [path |-> Append(dirs[par], name), ok |-> TRUE]
  ELSE [path |-> <<par, name>>, ok |-> FALSE]

Record == [op : OpNames, path : Paths, npath : Paths, flags : FlagNames]
Rec(op, path, npath, flags) ==
  [op |-> op, path |-> path, npath |-> npath, flags |-> flags]

append_batch_record(yes, rec) == batch' = IF yes THEN Append(batch, rec) ELSE batch

(* remove_dir_subtree also takes the entries out of the kernel's map.      *)
Below(prefix) == {i \in DOMAIN dirs : IsPrefix(prefix, dirs[i])}
remove_dir_subtree(prefix) ==
  /\ dirs' = [i \in DOMAIN dirs \ Below(prefix) |-> dirs[i]]
  /\ tracked' = tracked \ Below(prefix)

(* Mutant: only the renamed directory's own entry is rewritten.            *)
MoveTopOnly(i, old, new) == dirs' = Set(dirs, i, new) /\ UNCHANGED tracked

move_dir_subtree(i, old, new) ==
  /\ dirs' = [j \in DOMAIN dirs \cup {i} |->
                IF j = i THEN new
                ELSE IF IsPrefix(old, dirs[j]) THEN Rebase(dirs[j], old, new)
                ELSE dirs[j]]
  /\ UNCHANGED tracked

(* seed_dir walks what is below path on disk now; it fails, having seeded  *)
(* nothing, if path is gone or is no directory.                            *)
seed_dir(path) ==
  LET found == {p \in DOMAIN tree : IsPrefix(path, p) /\ tree[p].dir}
      inos  == {tree[p].ino : p \in found}
  IN IF IsDirPath(path)
     THEN /\ dirs' = [i \in DOMAIN dirs \cup inos |->
                        IF i \in inos THEN PathOf(i) ELSE dirs[i]]
          /\ tracked' = tracked \cup inos
     ELSE UNCHANGED <<dirs, tracked>>

HandleLeaf(e) ==
  LET at == resolve_event_path(e.par, e.name)
  IN /\ e.op \in {"create", "unlink"}
     /\ append_batch_record(at.ok, Rec(e.op, at.path, <<>>, "none"))
     /\ UNCHANGED <<dirs, tracked, batch_error>>

(* The new directory enters the table even when its path is unknown.       *)
HandleMkdir(e) ==
  LET at == resolve_event_path(e.par, e.name)
  IN /\ e.op = "mkdir"
     /\ append_batch_record(at.ok, Rec(e.op, at.path, <<>>, "none"))
     /\ dirs' = IF e.obj = NoIno THEN dirs ELSE Set(dirs, e.obj, at.path)
     /\ UNCHANGED <<tracked, batch_error>>

HandleRmdir(e) ==
  LET at == resolve_event_path(e.par, e.name)
  IN /\ e.op = "rmdir"
     /\ append_batch_record(at.ok, Rec(e.op, at.path, <<>>, "none"))
     /\ remove_dir_subtree(at.path)
     /\ UNCHANGED batch_error

(* Within the tree a rename is one record; of two exchanged directories    *)
(* only the first moves in the table.                                      *)
RenameWithin(e, old, new) ==
  /\ append_batch_record(TRUE, Rec("rename", old, new, e.flags))
  /\ IF e.dir THEN move_dir_subtree(e.obj, old, new) ELSE UNCHANGED <<dirs, tracked>>
  /\ UNCHANGED batch_error

(* Out of the tree it is an UNLINK of the old path, whatever was moved and *)
(* whatever an exchange brought in.                                        *)
RenameOut(e, old) ==
  /\ append_batch_record(TRUE, Rec("unlink", old, <<>>, "none"))
  /\ IF e.dir THEN remove_dir_subtree(old) ELSE UNCHANGED <<dirs, tracked>>
  /\ UNCHANGED batch_error

(* Mutant: what a rename brings in is only added to the table.             *)
SeedOnly(e, new) ==
  /\ IF e.dir THEN seed_dir(new) ELSE UNCHANGED <<dirs, tracked>>
  /\ UNCHANGED <<batch, batch_error>>

(* Into the tree it is an error: the moved content was never captured.     *)
RenameIn(e, new) ==
  /\ batch_error' = TRUE
  /\ IF e.dir THEN seed_dir(new) ELSE UNCHANGED <<dirs, tracked>>
  /\ UNCHANGED batch

HandleRename(e) ==
  LET old == resolve_event_path(e.par, e.name)
      new == resolve_event_path(e.npar, e.nname)
  IN /\ e.op = "rename"
     /\ \/ old.ok /\ new.ok /\ RenameWithin(e, old.path, new.path)
        \/ old.ok /\ ~new.ok /\ RenameOut(e, old.path)
        \/ ~old.ok /\ new.ok /\ RenameIn(e, new.path)
        \/ ~old.ok /\ ~new.ok /\ UNCHANGED <<dirs, tracked, batch, batch_error>>

(* ring_buffer__consume delivers the events in the order they were written.*)
handle_event ==
  /\ daemon = "run" /\ ring # <<>>
  /\ \/ HandleLeaf(Head(ring))
     \/ HandleMkdir(Head(ring))
     \/ HandleRmdir(Head(ring))
     \/ HandleRename(Head(ring))
  /\ ring' = Tail(ring)
  /\ UNCHANGED <<kernel, threads, lost, sink>>

(* capture_and_send once the ring is drained: an incomplete capture is     *)
(* answered with an error and ends the capturer; otherwise the recorder    *)
(* has the batch applied on the backup, and the capturer clears it.        *)
capture_and_send ==
  /\ daemon = "run" /\ applied /\ ring = <<>>
  /\ lost \/ batch_error \/ batch # <<>>
  /\ IF lost \/ batch_error
     THEN daemon' = "failed" /\ UNCHANGED <<batch, backup, applied>>
     ELSE LET out == ApplyBatch(backup, batch)
          IN /\ backup' = out.fs /\ applied' = out.ok
             /\ batch' = <<>>
             /\ UNCHANGED daemon
  /\ UNCHANGED <<kernel, threads, tracked, ring, lost, dirs, batch_error>>

-----------------------------------------------------------------------------
(* The capture starts on a tree that seed_dir has walked and rsync copied. *)
Init ==
  /\ tree \in InitialTrees
  /\ used = {tree[p].ino : p \in DOMAIN tree}
  /\ tracked = {tree[p].ino : p \in {q \in DOMAIN tree : InTree(q) /\ tree[q].dir}}
  /\ dirs = [i \in tracked |-> PathOf(i)]
  /\ pc = [t \in Threads |-> "idle"]
  /\ call = [t \in Threads |-> NoCall]
  /\ ring = <<>> /\ lost = FALSE
  /\ batch = <<>> /\ batch_error = FALSE
  /\ daemon = "run" /\ applied = TRUE
  /\ backup = Visible(tree)
  /\ clock = 0

(* A thread outside the kernel may enter it (Enter and VfsCreate say so    *)
(* too; here it keeps TLC from trying names in vain).                      *)
Syscall(t) ==
  \/ /\ ~Busy(t) /\ clock < MaxOps
     /\ \/ EnterMkdir(t) \/ EnterRmdir(t) \/ EnterUnlink(t) \/ EnterRename(t)
        \/ VfsCreate(t)
  \/ VfsMkdir(t) \/ VfsRmdir(t) \/ VfsUnlink(t) \/ VfsRename(t)
  \/ handle_vfs_mkdir_ret(t) \/ handle_vfs_rmdir_ret(t) \/ handle_vfs_rename_ret(t)
  \/ emit_pending_event(t) \/ handle_do_filp_open(t)

Capturer == handle_event \/ capture_and_send

(* The capturer exits when it has answered with an error, and its hooks are*)
(* detached; the recorder gives up when the backup refuses a batch.        *)
Next ==
  /\ daemon = "run" /\ applied
  /\ (\E t \in Threads : Syscall(t)) \/ Capturer

Spec == Init /\ [][Next]_vars

-----------------------------------------------------------------------------
KernelTypeOK ==
  IsTree(tree) /\ used \subseteq Inodes /\ clock \in Nat
HookTypeOK ==
  /\ pc \in [Threads -> {"idle", "entered", "executed", "marked"}]
  /\ call \in [Threads -> Call]
  /\ \A t \in Threads : Busy(t) =>
       call[t].obj \in Inodes \/ InCall(t, "mkdir", "entered")
  /\ ring \in Seq(Event) /\ lost \in BOOLEAN /\ tracked \subseteq Inodes
CapturerTypeOK ==
  /\ dirs = [i \in DOMAIN dirs |-> dirs[i]] /\ DOMAIN dirs \subseteq Inodes
  /\ \A i \in DOMAIN dirs : dirs[i] \in Paths
  /\ batch \in Seq(Record) /\ batch_error \in BOOLEAN
  /\ daemon \in {"run", "failed"}

(* Every variable has the type of the code's data it stands for.        *)
TypeOK == KernelTypeOK /\ HookTypeOK /\ CapturerTypeOK

Healthy == ~lost /\ ~batch_error /\ daemon = "run" /\ applied

(* No call is between its effect on the file system and its event.         *)
Settled == \A t \in Threads : pc[t] \in {"idle", "entered"}

(* A capture that has reported no loss and has nothing left to deliver has *)
(* made the backup equal to the primary: what a harvest answers is either  *)
(* complete or an error (stats_loss_count, check_capture_loss).            *)
FailClosed ==
  Healthy /\ Settled /\ ring = <<>> /\ batch = <<>> => backup = Visible(tree)

(* A backup that received all the batches before it refuses one only for   *)
(* an exchange in it, which apply_rename does not replay, or for its       *)
(* length: no other record fails, however late the capturer wrote it       *)
(* (statediff_apply_vfs stops at the first record that fails).             *)
Replayable == [][~applied' => Len(batch) > MaxRecords \/ WithExchange(batch)]_vars

(* The same with entries that are moved out of the captured tree: the      *)
(* UNLINK written for a directory is the one other record that fails.      *)
UnlinksDir(i) ==
  /\ batch[i].op = "unlink"
  /\ IsDirAt(Replayed(backup, SubSeq(batch, 1, i - 1)).fs, batch[i].path)
ReplayableAcross ==
  [][~applied' => \/ Len(batch) > MaxRecords \/ WithExchange(batch)
                  \/ \E i \in 1..Len(batch) : UnlinksDir(i)]_vars

(* Once no call is in flight, every directory of the captured tree is in   *)
(* tracked_dirs, so that what happens in it next is captured: a directory  *)
(* enters with the mkdir that makes it and leaves with its rmdir.  After   *)
(* an exchange of two directories the rmdir of one also removes the other; *)
(* the capture that saw the exchange is then still to be refused.          *)
ToBeRefused == WithExchange(ring) \/ WithExchange(batch)
DirsTracked ==
  Healthy /\ Settled /\ ~ToBeRefused =>
    \A p \in DOMAIN tree : InTree(p) /\ tree[p].dir => Ino(p) \in tracked

(* Once every event is consumed, the capturer's table maps every directory *)
(* of the captured tree to the path it has now, however it was renamed,    *)
(* but for a table that followed one of two exchanged directories, whose   *)
(* batch is still to be refused.                                           *)
TablesAgree ==
  Healthy /\ Settled /\ ring = <<>> /\ ~ToBeRefused =>
    \A p \in DOMAIN tree :
      InTree(p) /\ tree[p].dir => Ino(p) \in DOMAIN dirs /\ dirs[Ino(p)] = p

(* The ring holds the events of one directory in the order in which the    *)
(* kernel performed them there, creates excepted: the parent's lock is held*)
(* from the fentry hook to the end of the fexit hook.                      *)
Touches(e, d) == e.op # "create" /\ d \in {e.par, e.npar}
DirectoryOrder ==
  \A i, j \in 1..Len(ring) :
    i < j /\ (\E d \in Inodes : Touches(ring[i], d) /\ Touches(ring[j], d))
      => ring[i].at < ring[j].at
=============================================================================
