------------------------- MODULE TrackedTreeProofs -------------------------
(***************************************************************************)
(* Proofs about TrackedTree, for any threads, inodes, names, trees, ring   *)
(* and bounds: its variables keep their types, and the ring holds the      *)
(* events of a directory in the order in which the kernel performed them.  *)
(***************************************************************************)
EXTENDS TrackedTree, TLAPS

-----------------------------------------------------------------------------
(* Paths and trees.                                                        *)

LEMMA AppendPath == \A p \in Paths, n \in Elems : Append(p, n) \in Paths
BY DEF Paths

LEMMA RebasePath ==
  ASSUME NEW path \in Paths, NEW old \in Paths, NEW new \in Paths, IsPrefix(old, path)
  PROVE  Rebase(path, old, new) \in Paths
<1>1. Len(old) <= Len(path)
  BY DEF IsPrefix, Paths
<1>2. SubSeq(path, Len(old) + 1, Len(path)) \in Seq(Elems)
  BY <1>1 DEF Paths
<1> QED BY <1>2 DEF Rebase, Paths

LEMMA SetTree ==
  ASSUME NEW t, IsTree(t), NEW p \in Paths, NEW n \in Node
  PROVE  IsTree(Set(t, p, n))
BY DEF IsTree, Set

LEMMA DropTree ==
  ASSUME NEW t, IsTree(t), NEW p
  PROVE  IsTree(Drop(t, p))
BY DEF IsTree, Drop

LEMMA MoveTree ==
  ASSUME NEW t, IsTree(t), NEW old \in Paths, NEW new \in Paths
  PROVE  IsTree(MoveSubtree(t, old, new))
<1> DEFINE moved   == {q \in DOMAIN t : IsPrefix(old, q)}
           kept    == DOMAIN t \ (moved \cup {new})
           came(q) == {m \in moved : Rebase(m, old, new) = q}
           dom     == kept \cup {Rebase(m, old, new) : m \in moved}
           val(q)  == IF came(q) = {} THEN t[q] ELSE t[CHOOSE m \in came(q) : TRUE]
<1>1. MoveSubtree(t, old, new) = [q \in dom |-> val(q)]
  BY DEF MoveSubtree
<1>2. ASSUME NEW q \in dom PROVE q \in Paths /\ val(q) \in Node
  <2>1. CASE came(q) = {}
    <3>1. q \in kept
      BY <1>2, <2>1
    <3> QED BY <3>1, <2>1 DEF IsTree
  <2>2. CASE came(q) # {}
    <3>1. (CHOOSE m \in came(q) : TRUE) \in came(q)
      BY <2>2
    <3>2. PICK k \in moved : Rebase(k, old, new) = q
      BY <2>2
    <3>3. q \in Paths
      BY <3>2, RebasePath DEF IsTree
    <3>4. t[CHOOSE m \in came(q) : TRUE] \in Node
      BY <3>1 DEF IsTree
    <3> QED BY <3>3, <3>4, <2>2
  <2> QED BY <2>1, <2>2
<1> HIDE DEF dom, val
<1> QED BY <1>1, <1>2 DEF IsTree

LEMMA SwapTree ==
  ASSUME NEW t, IsTree(t), NEW old \in Paths, NEW new \in Paths
  PROVE  IsTree(SwapSubtrees(t, old, new))
<1> DEFINE swapped(p) == IF IsPrefix(old, p) THEN Rebase(p, old, new)
                         ELSE IF IsPrefix(new, p) THEN Rebase(p, new, old) ELSE p
           dom    == {swapped(p) : p \in DOMAIN t}
           val(q) == t[CHOOSE p \in DOMAIN t : swapped(p) = q]
<1>1. SwapSubtrees(t, old, new) = [q \in dom |-> val(q)]
  BY DEF SwapSubtrees
<1>2. \A p \in DOMAIN t : swapped(p) \in Paths
  BY RebasePath DEF IsTree
<1> HIDE DEF swapped
<1>3. ASSUME NEW q \in dom PROVE q \in Paths /\ val(q) \in Node
  <2>1. PICK p \in DOMAIN t : swapped(p) = q
    OBVIOUS
  <2>2. (CHOOSE k \in DOMAIN t : swapped(k) = q) \in DOMAIN t
    BY <2>1
  <2> QED BY <1>2, <2>1, <2>2 DEF IsTree
<1> HIDE DEF dom, val
<1> QED BY <1>1, <1>3 DEF IsTree

-----------------------------------------------------------------------------
(* The capturer's tables.                                                  *)

LEMMA ResolvedPath ==
  ASSUME CapturerTypeOK, NEW par \in Inodes, NEW n \in Names
  PROVE  /\ resolve_event_path(par, n).path \in Paths
         /\ resolve_event_path(par, n).ok \in BOOLEAN
<1>1. CASE par \in DOMAIN dirs
  <2>1. dirs[par] \in Paths /\ n \in Elems
    BY <1>1 DEF CapturerTypeOK, Elems
  <2> QED BY <1>1, <2>1, AppendPath DEF resolve_event_path
<1>2. CASE par \notin DOMAIN dirs
  BY <1>2 DEF resolve_event_path, Paths, Elems
<1> QED BY <1>1, <1>2

LEMMA AppendRecord ==
  ASSUME CapturerTypeOK, NEW yes \in BOOLEAN, NEW r \in Record,
         append_batch_record(yes, r)
  PROVE  batch' \in Seq(Record)
BY DEF append_batch_record, CapturerTypeOK

LEMMA RecType ==
  ASSUME NEW op \in OpNames, NEW p \in Paths, NEW q \in Paths, NEW flags \in FlagNames
  PROVE  Rec(op, p, q, flags) \in Record
BY DEF Rec, Record

LEMMA NoPath == <<>> \in Paths
BY DEF Paths

(* What handle_event may change of the tables, and what it keeps of them.  *)
TablesTyped ==
  /\ dirs' = [i \in DOMAIN dirs' |-> dirs'[i]] /\ DOMAIN dirs' \subseteq Inodes
  /\ \A i \in DOMAIN dirs' : dirs'[i] \in Paths
  /\ tracked' \subseteq Inodes

LEMMA RemoveTyped ==
  ASSUME CapturerTypeOK, tracked \subseteq Inodes, NEW p, remove_dir_subtree(p)
  PROVE  TablesTyped
BY DEF CapturerTypeOK, remove_dir_subtree, TablesTyped

LEMMA MoveTyped ==
  ASSUME CapturerTypeOK, tracked \subseteq Inodes,
         NEW i \in Inodes, NEW old \in Paths, NEW new \in Paths,
         move_dir_subtree(i, old, new)
  PROVE  TablesTyped
<1> DEFINE d(j) == IF j = i THEN new
                   ELSE IF IsPrefix(old, dirs[j]) THEN Rebase(dirs[j], old, new)
                   ELSE dirs[j]
<1>1. dirs' = [j \in DOMAIN dirs \cup {i} |-> d(j)] /\ tracked' = tracked
  BY DEF move_dir_subtree
<1>2. \A j \in DOMAIN dirs \cup {i} : d(j) \in Paths
  BY RebasePath DEF CapturerTypeOK
<1> HIDE DEF d
<1> QED BY <1>1, <1>2 DEF TablesTyped, CapturerTypeOK

LEMMA SeedTyped ==
  ASSUME CapturerTypeOK, KernelTypeOK, tracked \subseteq Inodes,
         NEW path, seed_dir(path)
  PROVE  TablesTyped
<1> DEFINE found == {p \in DOMAIN tree : IsPrefix(path, p) /\ tree[p].dir}
           inos  == {tree[p].ino : p \in found}
           d(i)  == IF i \in inos THEN PathOf(i) ELSE dirs[i]
<1>1. CASE IsDirPath(path)
  <2>1. /\ dirs' = [i \in DOMAIN dirs \cup inos |-> d(i)]
        /\ tracked' = tracked \cup inos
    BY <1>1 DEF seed_dir
  <2>2. inos \subseteq Inodes
    BY DEF KernelTypeOK, IsTree, Node
  <2>3. ASSUME NEW i \in inos PROVE PathOf(i) \in Paths
    <3>1. At(i) # {}
      BY DEF At
    <3>2. PathOf(i) \in DOMAIN tree
      BY <3>1 DEF PathOf, At
    <3> QED BY <3>2 DEF KernelTypeOK, IsTree
  <2>4. \A i \in DOMAIN dirs \cup inos : d(i) \in Paths
    BY <2>3 DEF CapturerTypeOK
  <2> HIDE DEF d, inos
  <2> QED BY <2>1, <2>2, <2>4 DEF TablesTyped, CapturerTypeOK
<1>2. CASE ~IsDirPath(path)
  BY <1>2 DEF seed_dir, TablesTyped, CapturerTypeOK
<1> QED BY <1>1, <1>2

-----------------------------------------------------------------------------
(* Calls.                                                                  *)

LEMMA ArgsType ==
  ASSUME NEW op \in OpNames, NEW par \in Inodes, NEW n \in Names,
         NEW npar \in Inodes, NEW m \in Names, NEW obj \in Inodes \cup {NoIno},
         NEW dir \in BOOLEAN, NEW flags \in FlagNames, NEW saved \in BOOLEAN
  PROVE  Args(op, par, n, npar, m, obj, dir, flags, saved) \in Call
BY DEF Args, Call

LEMMA ObjectType ==
  ASSUME NEW op \in OpNames, NEW par \in Inodes, NEW n \in Names,
         NEW npar \in Inodes, NEW m \in Names, NEW obj \in Inodes,
         NEW dir \in BOOLEAN, NEW flags \in FlagNames, NEW saved \in BOOLEAN
  PROVE  /\ Args(op, par, n, npar, m, obj, dir, flags, saved) \in Call
         /\ Args(op, par, n, npar, m, obj, dir, flags, saved).obj \in Inodes
BY DEF Args, Call

LEMMA NoCallType == NoCall \in Call
<1>1. AnyName \in Names
  BY TreeAssumption DEF AnyName
<1> QED BY <1>1, ArgsType, TreeAssumption DEF NoCall, OpNames, FlagNames

LEMMA InoType ==
  ASSUME KernelTypeOK, NEW p \in DOMAIN tree
  PROVE  Ino(p) \in Inodes /\ tree[p].dir \in BOOLEAN /\ p \in Paths
BY DEF KernelTypeOK, IsTree, Node, Ino

LEMMA AddType ==
  ASSUME NEW s \in SUBSET Inodes, NEW i \in Inodes PROVE Add(s, i) \subseteq Inodes
BY DEF Add

LEMMA EventType ==
  ASSUME HookTypeOK, NEW t \in Threads, pc[t] = "marked"
  PROVE  EventOf(call[t]) \in Event
BY DEF HookTypeOK, EventOf, Event, Call, Busy, InCall

LEMMA InitTypeOK == Init => TypeOK
<1> SUFFICES ASSUME Init PROVE TypeOK
  OBVIOUS
<1>1. KernelTypeOK
  BY TreeAssumption DEF Init, KernelTypeOK, IsTree, Node
<1>2. HookTypeOK
  <2>1. tracked \subseteq Inodes
    BY <1>1 DEF Init, KernelTypeOK, IsTree, Node
  <2>2. pc \in [Threads -> {"idle", "entered", "executed", "marked"}]
    BY DEF Init
  <2>3. call \in [Threads -> Call]
    BY NoCallType DEF Init
  <2>4. ASSUME NEW t \in Threads PROVE ~Busy(t)
    BY DEF Init, Busy
  <2>5. ring \in Seq(Event)
    <3>1. ring = <<>>
      BY DEF Init
    <3> QED BY ONLY <3>1
  <2>6. lost \in BOOLEAN
    BY DEF Init
  <2> QED BY ONLY <2>1, <2>2, <2>3, <2>4, <2>5, <2>6 DEF HookTypeOK
<1>3. CapturerTypeOK
  <2>1. ASSUME NEW i \in tracked PROVE PathOf(i) \in Paths
    <3>1. At(i) # {}
      BY DEF Init, At
    <3>2. PathOf(i) \in DOMAIN tree
      BY <3>1 DEF PathOf, At
    <3> QED BY <3>2, <1>1 DEF KernelTypeOK, IsTree
  <2>2. tracked \subseteq Inodes
    BY <1>2 DEF HookTypeOK
  <2>3. batch \in Seq(Record)
    BY DEF Init
  <2> QED BY <2>1, <2>2, <2>3 DEF Init, CapturerTypeOK
<1> QED BY <1>1, <1>2, <1>3 DEF TypeOK

(* A system call's entry.                                                  *)
LEMMA EnterTyped ==
  ASSUME TypeOK, NEW t \in Threads, NEW c \in Call, Enter(t, c),
         c.obj \in Inodes \/ c.op = "mkdir"
  PROVE  TypeOK'
<1>1. KernelTypeOK'
  BY DEF TypeOK, KernelTypeOK, Enter, kernel
<1>2. CapturerTypeOK'
  BY DEF TypeOK, CapturerTypeOK, Enter, user, sink
<1>3. HookTypeOK'
  BY DEF TypeOK, HookTypeOK, Enter, Busy, InCall
<1> QED BY <1>1, <1>2, <1>3 DEF TypeOK

LEMMA EntryTyped ==
  ASSUME TypeOK, NEW t \in Threads,
         EnterMkdir(t) \/ EnterRmdir(t) \/ EnterUnlink(t) \/ EnterRename(t)
  PROVE  TypeOK'
<1> USE DEF OpNames
<1>1. CASE EnterMkdir(t)
  <2>1. PICK p \in DOMAIN tree, n \in Names : save_child_op(t, "mkdir", p, n, NoIno, TRUE)
    BY <1>1 DEF EnterMkdir
  <2> DEFINE c == Args("mkdir", Ino(p), n, Ino(p), n, NoIno, TRUE, "none", Ino(p) \in tracked)
  <2>2. c \in Call /\ c.op = "mkdir"
    <3>1. /\ Ino(p) \in Inodes /\ (Ino(p) \in tracked) \in BOOLEAN
          /\ "mkdir" \in OpNames /\ NoIno \in Inodes \cup {NoIno} /\ TRUE \in BOOLEAN
          /\ "none" \in FlagNames
      BY InoType DEF TypeOK, FlagNames
    <3>2. c \in Call
      BY ONLY <3>1, ArgsType, n \in Names
    <3> QED BY <3>2 DEF Args
  <2>3. Enter(t, c)
    BY <2>1 DEF save_child_op
  <2> QED BY <2>2, <2>3, EnterTyped
<1>2. ASSUME NEW op \in {"rmdir", "unlink"}, NEW p \in DOMAIN tree, NEW n \in Names,
             NEW dir \in BOOLEAN, Append(p, n) \in DOMAIN tree,
             save_child_op(t, op, p, n, Ino(Append(p, n)), dir)
      PROVE  TypeOK'
  <2> DEFINE c == Args(op, Ino(p), n, Ino(p), n, Ino(Append(p, n)), dir, "none",
                       Ino(p) \in tracked)
  <2>1. Ino(p) \in Inodes /\ Ino(Append(p, n)) \in Inodes
    BY <1>2, InoType DEF TypeOK
  <2>2. c \in Call /\ c.obj \in Inodes
    <3>1. op \in OpNames /\ (Ino(p) \in tracked) \in BOOLEAN /\ "none" \in FlagNames
      BY DEF FlagNames
    <3> QED BY ONLY <2>1, <3>1, ObjectType, n \in Names, dir \in BOOLEAN
  <2>3. Enter(t, c)
    BY <1>2 DEF save_child_op
  <2> QED BY <2>2, <2>3, EnterTyped
<1>3. CASE EnterRmdir(t)
  BY <1>3, <1>2 DEF EnterRmdir, IsDirPath
<1>4. CASE EnterUnlink(t)
  BY <1>4, <1>2 DEF EnterUnlink
<1>5. CASE EnterRename(t)
  <2>1. PICK p \in DOMAIN tree, q \in DOMAIN tree, n \in Names, m \in Names, flags \in RenameFlags :
          /\ Append(p, n) \in DOMAIN tree
          /\ Enter(t, Args("rename", Ino(p), n, Ino(q), m, Ino(Append(p, n)),
                           tree[Append(p, n)].dir, flags,
                           Ino(p) \in tracked \/ Ino(q) \in tracked))
    BY <1>5 DEF EnterRename
  <2> DEFINE c == Args("rename", Ino(p), n, Ino(q), m, Ino(Append(p, n)),
                       tree[Append(p, n)].dir, flags, Ino(p) \in tracked \/ Ino(q) \in tracked)
  <2>2. /\ Ino(p) \in Inodes /\ Ino(q) \in Inodes /\ Ino(Append(p, n)) \in Inodes
        /\ tree[Append(p, n)].dir \in BOOLEAN
    BY <2>1, InoType DEF TypeOK
  <2>3. c \in Call /\ c.obj \in Inodes
    <3>1. /\ "rename" \in OpNames /\ (Ino(p) \in tracked \/ Ino(q) \in tracked) \in BOOLEAN
          /\ flags \in FlagNames
      BY TreeAssumption
    <3> QED BY ONLY <2>2, <3>1, ObjectType, n \in Names, m \in Names
  <2> QED BY <2>1, <2>3, EnterTyped
<1> QED BY <1>1, <1>3, <1>4, <1>5

-----------------------------------------------------------------------------
(* The kernel's steps.                                                     *)

(* The part of the state that a kernel step, and later a hook, keeps.      *)
LEMMA ExecutedTyped ==
  ASSUME TypeOK, NEW t \in Threads, NEW at \in {"executed", "marked"},
         NEW obj \in Inodes, NEW ok \in BOOLEAN, NEW pins \in SUBSET Inodes,
         pc[t] = "entered", Executed(t, at, obj, ok, pins)
  PROVE  HookTypeOK' /\ CapturerTypeOK' /\ clock' \in Nat
<1>1. CapturerTypeOK'
  BY DEF TypeOK, CapturerTypeOK, Executed, user, sink
<1>2. clock' \in Nat
  BY DEF TypeOK, KernelTypeOK, Executed
<1>3. call' \in [Threads -> Call]
  <2> DEFINE c == [call[t] EXCEPT !.obj = obj, !.ok = ok, !.pins = pins, !.at = clock + 1]
  <2>1. call' = [call EXCEPT ![t] = c] /\ call \in [Threads -> Call] /\ clock \in Nat
    BY DEF TypeOK, HookTypeOK, KernelTypeOK, Executed
  <2>2. c \in Call
    <3>1. call[t] \in Call /\ clock + 1 \in Nat /\ obj \in Inodes \cup {NoIno}
      BY <2>1
    <3> QED BY <3>1 DEF Call
  <2> HIDE DEF c
  <2> QED BY <2>1, <2>2
<1>4. HookTypeOK'
  <2>1. ASSUME NEW u \in Threads, Busy(u)'
        PROVE  call'[u].obj \in Inodes \/ InCall(u, "mkdir", "entered")'
    <3>1. CASE u = t
      BY <3>1 DEF TypeOK, HookTypeOK, Call, Executed
    <3>2. CASE u # t
      BY <3>2, <2>1 DEF TypeOK, HookTypeOK, Executed, Busy, InCall
    <3> QED BY <3>1, <3>2
  <2> QED BY <1>3, <2>1 DEF TypeOK, HookTypeOK, Executed
<1> QED BY <1>1, <1>2, <1>4

LEMMA CallFields ==
  ASSUME HookTypeOK, NEW t \in Threads
  PROVE  /\ call[t] \in Call
         /\ call[t].par \in Inodes /\ call[t].npar \in Inodes
         /\ call[t].name \in Names /\ call[t].nname \in Names
         /\ Busy(t) /\ call[t].op # "mkdir" => call[t].obj \in Inodes
BY DEF HookTypeOK, Call, InCall

LEMMA ChildPath ==
  ASSUME KernelTypeOK, NEW p \in DOMAIN tree, NEW n \in Names
  PROVE  Append(p, n) \in Paths
BY InoType, AppendPath DEF Elems

LEMMA FreeTyped == FreeInodes \subseteq Inodes
BY DEF FreeInodes

LEMMA VfsMkdirTyped ==
  ASSUME TypeOK, NEW t \in Threads, VfsMkdir(t) PROVE TypeOK'
<1>1. PICK p \in At(call[t].par), i \in FreeInodes :
        /\ tree' = Set(tree, Append(p, call[t].name), [ino |-> i, dir |-> TRUE])
        /\ used' = used \cup {i}
        /\ Executed(t, "executed", i, TRUE, {})
  BY DEF VfsMkdir
<1>2. pc[t] = "entered"
  BY DEF VfsMkdir, InCall
<1>3. i \in Inodes /\ Append(p, call[t].name) \in Paths
  BY FreeTyped, ChildPath, CallFields DEF At, TypeOK
<1>4. HookTypeOK' /\ CapturerTypeOK' /\ clock' \in Nat
  <2>1. TRUE \in BOOLEAN /\ {} \in SUBSET Inodes /\ "executed" \in {"executed", "marked"}
    OBVIOUS
  <2> QED BY ONLY <1>1, <1>2, <1>3, <2>1, ExecutedTyped, TypeOK, t \in Threads
<1>5. IsTree(tree')
  BY <1>1, <1>3, SetTree DEF TypeOK, KernelTypeOK, Node
<1>6. used' \subseteq Inodes
  BY <1>1, <1>3 DEF TypeOK, KernelTypeOK
<1> QED BY <1>4, <1>5, <1>6 DEF TypeOK, KernelTypeOK

LEMMA VfsRmdirTyped ==
  ASSUME TypeOK, NEW t \in Threads, VfsRmdir(t) PROVE TypeOK'
<1>1. pc[t] = "entered" /\ call[t].obj \in Inodes /\ used' = used
  BY CallFields DEF VfsRmdir, InCall, Busy, TypeOK
<1>2. PICK p \in At(call[t].par) :
        LET old  == Append(p, call[t].name)
            done == Empty(tree, old)
        IN /\ tree' = IF done THEN Drop(tree, old) ELSE tree
           /\ Executed(t, "executed", call[t].obj, done, {})
  BY DEF VfsRmdir
<1> DEFINE old  == Append(p, call[t].name)
           done == Empty(tree, old)
<1>3. HookTypeOK' /\ CapturerTypeOK' /\ clock' \in Nat
  <2>1. /\ done \in BOOLEAN /\ {} \in SUBSET Inodes
        /\ "executed" \in {"executed", "marked"}
    BY DEF Empty
  <2>2. Executed(t, "executed", call[t].obj, done, {})
    BY <1>2
  <2> HIDE DEF done
  <2> QED BY ONLY <1>1, <2>1, <2>2, ExecutedTyped, TypeOK, t \in Threads
<1>4. IsTree(tree')
  BY <1>2, DropTree DEF TypeOK, KernelTypeOK
<1> QED BY <1>1, <1>3, <1>4 DEF TypeOK, KernelTypeOK

LEMMA VfsUnlinkTyped ==
  ASSUME TypeOK, NEW t \in Threads, VfsUnlink(t) PROVE TypeOK'
<1>1. pc[t] = "entered" /\ call[t].obj \in Inodes /\ used' = used
  BY CallFields DEF VfsUnlink, InCall, Busy, TypeOK
<1>2. HookTypeOK' /\ CapturerTypeOK' /\ clock' \in Nat
  <2>1. /\ TRUE \in BOOLEAN /\ {call[t].obj} \in SUBSET Inodes
        /\ "marked" \in {"executed", "marked"}
    BY <1>1
  <2>2. Executed(t, "marked", call[t].obj, TRUE, {call[t].obj})
    BY DEF VfsUnlink
  <2> QED BY ONLY <1>1, <2>1, <2>2, ExecutedTyped, TypeOK, t \in Threads
<1>3. IsTree(tree')
  BY DropTree DEF TypeOK, KernelTypeOK, VfsUnlink
<1> QED BY <1>1, <1>2, <1>3 DEF TypeOK, KernelTypeOK

LEMMA VfsCreateTyped ==
  ASSUME TypeOK, NEW t \in Threads, VfsCreate(t) PROVE TypeOK'
<1>1. PICK p \in DOMAIN tree, n \in Names, i \in FreeInodes :
        LET c == Args("create", Ino(p), n, Ino(p), n, i, FALSE, "none", FALSE)
        IN /\ tree' = Set(tree, Append(p, n), [ino |-> i, dir |-> FALSE])
           /\ used' = used \cup {i}
           /\ clock' = clock + 1
           /\ pc' = [pc EXCEPT ![t] = "marked"]
           /\ call' = [call EXCEPT ![t] = [c EXCEPT !.at = clock + 1, !.pins = {i, Ino(p)}]]
           /\ UNCHANGED <<tracked, ring, lost, user, sink>>
  BY DEF VfsCreate
<1>2. Ino(p) \in Inodes /\ i \in Inodes /\ Append(p, n) \in Paths /\ clock + 1 \in Nat
  BY InoType, FreeTyped, ChildPath DEF TypeOK, KernelTypeOK
<1>3. KernelTypeOK'
  <2>1. IsTree(tree')
    BY <1>1, <1>2, SetTree DEF TypeOK, KernelTypeOK, Node
  <2> QED BY <1>1, <1>2, <2>1 DEF TypeOK, KernelTypeOK
<1>4. CapturerTypeOK'
  BY <1>1 DEF TypeOK, CapturerTypeOK, user, sink
<1>5. HookTypeOK'
  <2> DEFINE c == Args("create", Ino(p), n, Ino(p), n, i, FALSE, "none", FALSE)
             d == [c EXCEPT !.at = clock + 1, !.pins = {i, Ino(p)}]
  <2>1. d \in Call /\ d.obj \in Inodes
    <3>1. "create" \in OpNames /\ "none" \in FlagNames
      BY DEF OpNames, FlagNames
    <3>2. c \in Call /\ c.obj \in Inodes
      BY ONLY <1>2, <3>1, ObjectType, n \in Names, FALSE \in BOOLEAN
    <3> HIDE DEF c
    <3> QED BY <1>2, <3>2 DEF Call
  <2>2. call' = [call EXCEPT ![t] = d] /\ pc' = [pc EXCEPT ![t] = "marked"]
    BY <1>1
  <2> HIDE DEF d
  <2>3. call' \in [Threads -> Call]
    BY <2>1, <2>2 DEF TypeOK, HookTypeOK
  <2>4. ASSUME NEW u \in Threads, Busy(u)'
        PROVE  call'[u].obj \in Inodes \/ InCall(u, "mkdir", "entered")'
    BY <2>1, <2>2, <2>4 DEF TypeOK, HookTypeOK, Busy, InCall
  <2> QED BY <1>1, <2>2, <2>3, <2>4 DEF TypeOK, HookTypeOK
<1> QED BY <1>3, <1>4, <1>5 DEF TypeOK

LEMMA VfsRenameTyped ==
  ASSUME TypeOK, NEW t \in Threads, VfsRename(t) PROVE TypeOK'
<1>1. PICK p \in At(call[t].par), q \in At(call[t].npar) :
        LET c      == call[t]
            swap   == c.flags = "exchange"
            old    == Append(p, c.name)
            new    == Append(q, c.nname)
            target == IF new \in DOMAIN tree THEN {Ino(new)} ELSE {}
            done   == swap \/ Empty(tree, new)
        IN /\ tree' = IF swap THEN SwapSubtrees(tree, old, new)
                      ELSE IF done THEN MoveSubtree(tree, old, new) ELSE tree
           /\ call' = [u \in Threads |->
                IF u = t
                THEN [c EXCEPT !.ok = done, !.at = clock + 1, !.pins = target]
                ELSE IF done /\ InCall(u, "create", "marked") /\ call[u].obj = c.obj
                THEN Moved(call[u], c.npar, c.nname)
                ELSE IF swap /\ InCall(u, "create", "marked") /\ call[u].obj \in target
                THEN Moved(call[u], c.par, c.name)
                ELSE call[u]]
  BY DEF VfsRename
<1> DEFINE swap   == call[t].flags = "exchange"
           old    == Append(p, call[t].name)
           new    == Append(q, call[t].nname)
           target == IF new \in DOMAIN tree THEN {Ino(new)} ELSE {}
           done   == swap \/ Empty(tree, new)
           mine   == [call[t] EXCEPT !.ok = done, !.at = clock + 1, !.pins = target]
<1>2. target \subseteq Inodes /\ done \in BOOLEAN
  <2>1. target \subseteq Inodes
    BY InoType DEF TypeOK
  <2>2. done \in BOOLEAN
    OBVIOUS
  <2> QED BY <2>1, <2>2
<1>3. old \in Paths /\ new \in Paths
  BY ChildPath, CallFields DEF At, TypeOK
<1>4. tree' = IF swap THEN SwapSubtrees(tree, old, new)
              ELSE IF done THEN MoveSubtree(tree, old, new) ELSE tree
  BY <1>1
<1>5. call' = [u \in Threads |->
         IF u = t THEN mine
         ELSE IF done /\ InCall(u, "create", "marked") /\ call[u].obj = call[t].obj
         THEN Moved(call[u], call[t].npar, call[t].nname)
         ELSE IF swap /\ InCall(u, "create", "marked") /\ call[u].obj \in target
         THEN Moved(call[u], call[t].par, call[t].name)
         ELSE call[u]]
  BY <1>1
<1>6. mine \in Call /\ mine.obj = call[t].obj
  <2>1. call[t] \in Call /\ clock + 1 \in Nat
    BY CallFields DEF TypeOK, KernelTypeOK
  <2> HIDE DEF target, done
  <2> QED BY <2>1, <1>2 DEF Call
<1> HIDE DEF swap, old, new, target, done, mine
<1>7. /\ clock' = clock + 1 /\ pc' = [pc EXCEPT ![t] = "executed"]
      /\ UNCHANGED <<used, tracked, ring, lost, user, sink>>
      /\ call[t].op = "rename" /\ pc[t] = "entered"
  BY DEF VfsRename, InCall
<1>8. KernelTypeOK'
  <2>1. IsTree(tree')
    BY <1>3, <1>4, MoveTree, SwapTree DEF TypeOK, KernelTypeOK
  <2> QED BY <1>7, <2>1 DEF TypeOK, KernelTypeOK
<1>9. CapturerTypeOK'
  BY <1>7 DEF TypeOK, CapturerTypeOK, user, sink
<1>10. call' \in [Threads -> Call]
  <2>1. ASSUME NEW u \in Threads, InCall(u, "create", "marked")
        PROVE  /\ Moved(call[u], call[t].npar, call[t].nname) \in Call
               /\ Moved(call[u], call[t].par, call[t].name) \in Call
    <3>1. /\ call[u] \in Call /\ call[u].obj \in Inodes
          /\ call[t].npar \in Inodes /\ call[t].nname \in Names
          /\ call[t].par \in Inodes /\ call[t].name \in Names
      BY <2>1, CallFields DEF TypeOK, InCall, Busy
    <3> QED BY <3>1 DEF Call, Moved
  <2> QED BY <1>5, <1>6, <2>1 DEF TypeOK, HookTypeOK
<1>11. HookTypeOK'
  <2>1. pc' \in [Threads -> {"idle", "entered", "executed", "marked"}]
    BY <1>7 DEF TypeOK, HookTypeOK
  <2>2. ASSUME NEW u \in Threads, Busy(u)'
        PROVE  call'[u].obj \in Inodes \/ InCall(u, "mkdir", "entered")'
    <3>1. CASE u = t
      <4>1. call[t].obj \in Inodes /\ call[t] \in Call
        BY <1>7, CallFields DEF TypeOK, Busy
      <4>2. call'[t] = mine
        BY <1>5
      <4> QED BY <3>1, <4>1, <4>2, <1>6
    <3>2. CASE u # t
      <4>1. \/ call'[u] = call[u]
            \/ call'[u] = Moved(call[u], call[t].npar, call[t].nname)
            \/ call'[u] = Moved(call[u], call[t].par, call[t].name)
        BY <1>5, <3>2
      <4>2. call'[u].obj = call[u].obj /\ call'[u].op = call[u].op
        BY <4>1, CallFields DEF Moved, Call, TypeOK
      <4> QED BY <1>7, <2>2, <3>2, <4>2 DEF TypeOK, HookTypeOK, Busy, InCall
    <3> QED BY <3>1, <3>2
  <2> QED BY <1>7, <1>10, <2>1, <2>2 DEF TypeOK, HookTypeOK
<1> QED BY <1>8, <1>9, <1>11 DEF TypeOK

-----------------------------------------------------------------------------
(* The hooks at the end of a call.                                         *)

LEMMA MarkTyped ==
  ASSUME TypeOK, NEW t \in Threads,
         handle_vfs_mkdir_ret(t) \/ handle_vfs_rmdir_ret(t) \/ handle_vfs_rename_ret(t)
  PROVE  TypeOK'
<1>1. pc[t] = "executed" /\ Marked(t)
  BY DEF handle_vfs_mkdir_ret, handle_vfs_rmdir_ret, handle_vfs_rename_ret, InCall
<1>2. call[t].obj \in Inodes
  BY <1>1 DEF TypeOK, HookTypeOK, Busy, InCall
<1>3. tracked' \subseteq Inodes
  BY <1>2, AddType DEF handle_vfs_mkdir_ret, handle_vfs_rmdir_ret, handle_vfs_rename_ret,
                      TypeOK, HookTypeOK
<1>4. KernelTypeOK' /\ CapturerTypeOK'
  BY <1>1 DEF TypeOK, KernelTypeOK, CapturerTypeOK, Marked, kernel, user, sink
<1>5. HookTypeOK'
  BY <1>1, <1>2, <1>3 DEF TypeOK, HookTypeOK, Marked, Busy, InCall
<1> QED BY <1>4, <1>5 DEF TypeOK

LEMMA EmitTyped ==
  ASSUME TypeOK, NEW t \in Threads, emit_pending_event(t) \/ handle_do_filp_open(t)
  PROVE  TypeOK'
<1>1. pc[t] = "marked" /\ Return(t)
  BY DEF emit_pending_event, handle_do_filp_open, InCall
<1>2. (ring' = ring \/ ring' = Append(ring, EventOf(call[t]))) /\ lost' \in {lost, TRUE}
  BY DEF emit_pending_event, handle_do_filp_open
<1>3. ring' \in Seq(Event) /\ lost' \in BOOLEAN
  <2>1. EventOf(call[t]) \in Event
    BY <1>1, EventType DEF TypeOK
  <2>2. ring \in Seq(Event) /\ lost \in BOOLEAN
    BY DEF TypeOK, HookTypeOK
  <2>3. ring' \in Seq(Event)
    BY ONLY <1>2, <2>1, <2>2
  <2>4. lost' \in BOOLEAN
    BY ONLY <1>2, <2>2
  <2> QED BY <2>3, <2>4
<1>4. KernelTypeOK' /\ CapturerTypeOK'
  BY <1>1 DEF TypeOK, KernelTypeOK, CapturerTypeOK, Return, kernel, user, sink
<1>5. HookTypeOK'
  BY <1>1, <1>3, NoCallType DEF TypeOK, HookTypeOK, Return, Busy, InCall
<1> QED BY <1>4, <1>5 DEF TypeOK

-----------------------------------------------------------------------------
(* The capturer.                                                           *)

LEMMA HandleTyped ==
  ASSUME TypeOK, NEW e \in Event,
         HandleLeaf(e) \/ HandleMkdir(e) \/ HandleRmdir(e) \/ HandleRename(e)
  PROVE  TablesTyped /\ batch' \in Seq(Record) /\ batch_error' \in BOOLEAN
<1> DEFINE at  == resolve_event_path(e.par, e.name)
           new == resolve_event_path(e.npar, e.nname)
<1>1. /\ e.par \in Inodes /\ e.npar \in Inodes /\ e.obj \in Inodes
      /\ e.name \in Names /\ e.nname \in Names /\ e.op \in OpNames
      /\ e.flags \in FlagNames /\ "none" \in FlagNames
  BY DEF Event, FlagNames
<1>2. /\ at.path \in Paths /\ at.ok \in BOOLEAN
      /\ new.path \in Paths /\ new.ok \in BOOLEAN
  BY <1>1, ResolvedPath DEF TypeOK
<1> HIDE DEF at, new
<1>3. CapturerTypeOK /\ KernelTypeOK /\ tracked \subseteq Inodes
  BY DEF TypeOK, HookTypeOK
<1>4. UNCHANGED <<dirs, tracked>> => TablesTyped
  BY <1>3 DEF TablesTyped, CapturerTypeOK
<1>5. batch \in Seq(Record) /\ batch_error \in BOOLEAN
  BY <1>3 DEF CapturerTypeOK
<1>6. ASSUME NEW yes \in BOOLEAN, NEW op \in OpNames, NEW p \in Paths, NEW q \in Paths,
             NEW flags \in FlagNames, append_batch_record(yes, Rec(op, p, q, flags))
      PROVE  batch' \in Seq(Record)
  BY <1>3, <1>6, RecType, AppendRecord
<1>7. CASE HandleLeaf(e)
  BY <1>7, <1>1, <1>2, <1>4, <1>5, <1>6, NoPath DEF HandleLeaf, at
<1>8. CASE HandleMkdir(e)
  <2>1. append_batch_record(at.ok, Rec(e.op, at.path, <<>>, "none"))
    BY <1>8 DEF HandleMkdir, at
  <2>2. batch' \in Seq(Record)
    BY <2>1, <1>1, <1>2, <1>6, NoPath
  <2>3. /\ dirs' = dirs \/ dirs' = Set(dirs, e.obj, at.path)
        /\ tracked' = tracked /\ batch_error' = batch_error
    BY <1>8 DEF HandleMkdir, at
  <2>4. TablesTyped
    BY <2>3, <1>1, <1>2, <1>3 DEF Set, TablesTyped, CapturerTypeOK
  <2> QED BY <2>2, <2>3, <2>4, <1>5
<1>9. CASE HandleRmdir(e)
  <2>1. /\ append_batch_record(at.ok, Rec(e.op, at.path, <<>>, "none"))
        /\ remove_dir_subtree(at.path) /\ batch_error' = batch_error
    BY <1>9 DEF HandleRmdir, at
  <2>2. TablesTyped
    BY <2>1, <1>3, RemoveTyped
  <2> QED BY <2>1, <2>2, <1>1, <1>2, <1>5, <1>6, NoPath
<1>10. CASE HandleRename(e)
  <2>1. \/ RenameWithin(e, at.path, new.path)
        \/ RenameOut(e, at.path)
        \/ RenameIn(e, new.path)
        \/ UNCHANGED <<dirs, tracked, batch, batch_error>>
    BY <1>10 DEF HandleRename, at, new
  <2>2. TRUE \in BOOLEAN /\ "rename" \in OpNames /\ "unlink" \in OpNames
    BY DEF OpNames
  <2>3. CASE RenameWithin(e, at.path, new.path)
    <3>1. TablesTyped
      BY <2>3, <1>1, <1>2, <1>3, <1>4, MoveTyped DEF RenameWithin
    <3>2. batch' \in Seq(Record)
      BY <2>3, <2>2, <1>1, <1>2, <1>6 DEF RenameWithin
    <3> QED BY <2>3, <3>1, <3>2, <1>5 DEF RenameWithin
  <2>4. CASE RenameOut(e, at.path)
    <3>1. TablesTyped
      BY <2>4, <1>3, <1>4, RemoveTyped DEF RenameOut
    <3>2. batch' \in Seq(Record)
      BY <2>4, <2>2, <1>1, <1>2, <1>6, NoPath DEF RenameOut
    <3> QED BY <2>4, <3>1, <3>2, <1>5 DEF RenameOut
  <2>5. CASE RenameIn(e, new.path)
    BY <2>5, <1>3, <1>4, <1>5, SeedTyped DEF RenameIn
  <2>6. CASE UNCHANGED <<dirs, tracked, batch, batch_error>>
    BY <2>6, <1>4, <1>5
  <2> QED BY <2>1, <2>3, <2>4, <2>5, <2>6
<1> QED BY <1>7, <1>8, <1>9, <1>10

LEMMA CapturerTyped == TypeOK /\ Capturer => TypeOK'
<1>1. ASSUME TypeOK, handle_event PROVE TypeOK'
  <2>1. ring # <<>> /\ ring \in Seq(Event)
    BY <1>1 DEF handle_event, TypeOK, HookTypeOK
  <2>2. Head(ring) \in Event /\ Tail(ring) \in Seq(Event)
    BY <2>1
  <2>3. TablesTyped /\ batch' \in Seq(Record) /\ batch_error' \in BOOLEAN
    BY <1>1, <2>2, HandleTyped DEF handle_event
  <2>4. ring' = Tail(ring) /\ UNCHANGED <<kernel, threads, lost, sink>>
    BY <1>1 DEF handle_event
  <2>5. KernelTypeOK'
    BY <1>1, <2>4 DEF TypeOK, KernelTypeOK, kernel
  <2>6. HookTypeOK'
    BY <1>1, <2>2, <2>3, <2>4
       DEF TypeOK, HookTypeOK, threads, TablesTyped, Busy, InCall
  <2>7. CapturerTypeOK'
    BY <1>1, <2>3, <2>4 DEF TypeOK, CapturerTypeOK, TablesTyped, sink
  <2> QED BY <2>5, <2>6, <2>7 DEF TypeOK
<1>2. ASSUME TypeOK, capture_and_send PROVE TypeOK'
  <2>1. KernelTypeOK' /\ HookTypeOK'
    BY <1>2 DEF TypeOK, KernelTypeOK, HookTypeOK, capture_and_send, kernel, threads,
                Busy, InCall
  <2>2. /\ batch' \in {batch, <<>>} /\ daemon' \in {daemon, "failed"}
        /\ UNCHANGED <<dirs, batch_error>>
    BY <1>2 DEF capture_and_send
  <2>3. batch' \in Seq(Record)
    <3>1. <<>> \in Seq(Record) /\ batch \in Seq(Record)
      BY <1>2 DEF TypeOK, CapturerTypeOK
    <3> QED BY ONLY <2>2, <3>1
  <2>4. daemon' \in {"run", "failed"}
    BY <1>2, <2>2 DEF TypeOK, CapturerTypeOK
  <2>5. CapturerTypeOK'
    BY <1>2, <2>2, <2>3, <2>4 DEF TypeOK, CapturerTypeOK
  <2> QED BY <2>1, <2>5 DEF TypeOK
<1> QED BY <1>1, <1>2 DEF Capturer

(* TypeOK is inductive: no step of a thread, a hook or the capturer leaves *)
(* the types the code declares.                                            *)
LEMMA TypeStep == TypeOK /\ [Next]_vars => TypeOK'
<1> SUFFICES ASSUME TypeOK, [Next]_vars PROVE TypeOK'
  OBVIOUS
<1>1. ASSUME NEW t \in Threads, Syscall(t) PROVE TypeOK'
  BY <1>1, EntryTyped, VfsMkdirTyped, VfsRmdirTyped, VfsUnlinkTyped, VfsRenameTyped,
     VfsCreateTyped, MarkTyped, EmitTyped DEF Syscall
<1>2. CASE UNCHANGED vars
  BY <1>2 DEF vars, TypeOK, KernelTypeOK, HookTypeOK, CapturerTypeOK, Busy, InCall
<1> QED BY <1>1, <1>2, CapturerTyped DEF Next

(* Every variable keeps the type of the code's data it stands for, for any *)
(* number of threads and any interleaving of calls, hooks and harvests.    *)
THEOREM TypeCorrect == Spec => []TypeOK
BY InitTypeOK, TypeStep, PTL DEF Spec

-----------------------------------------------------------------------------
(* The order of the events of a directory.  A thread keeps the locks of    *)
(* the directories it works in from its entry until its event is in the    *)
(* ring, so nobody else performs an operation there in between.            *)

LockedApart ==
  \A t, u \in Threads : t # u => Locks(t) \cap Locks(u) = {}

(* The ghost clock bounds every stamp.                                     *)
Stamped ==
  /\ \A i \in 1..Len(ring) : ring[i].at <= clock
  /\ \A t \in Threads : call[t].at <= clock

(* A call that has executed comes after all that the ring holds about the  *)
(* directories it has locked.                                              *)
Performed(t) == pc[t] \in {"executed", "marked"} /\ call[t].op # "create"
AfterRing ==
  \A t \in Threads, i \in 1..Len(ring) :
    Performed(t) /\ (\E d \in Locks(t) : Touches(ring[i], d)) => ring[i].at < call[t].at

OrderInv == TypeOK /\ LockedApart /\ Stamped /\ AfterRing /\ DirectoryOrder

LEMMA OrderInit == Init => OrderInv
<1> SUFFICES ASSUME Init PROVE OrderInv
  OBVIOUS
<1>1. ring = <<>> /\ clock = 0
  BY DEF Init
<1>2. ASSUME NEW t \in Threads PROVE Locks(t) = {} /\ call[t].at = 0 /\ ~Performed(t)
  BY DEF Init, Locks, Busy, NoCall, Args, Performed
<1>3. Len(ring) = 0
  BY <1>1
<1> QED BY <1>1, <1>2, <1>3, InitTypeOK
        DEF OrderInv, LockedApart, Stamped, AfterRing, DirectoryOrder

(* While the ring stands still, what matters of a thread is its locks, its *)
(* stamp and whether it has executed.                                      *)
LEMMA OrderQuiet ==
  ASSUME OrderInv, TypeOK', ring' = ring, clock' \in {clock, clock + 1}, LockedApart',
         \A t \in Threads : call'[t].at \in {0, call[t].at, clock'},
         \A t \in Threads : Performed(t)' =>
            \/ Performed(t) /\ Locks(t)' = Locks(t) /\ call'[t].at = call[t].at
            \/ clock' = clock + 1 /\ call'[t].at = clock'
  PROVE  OrderInv'
<1>1. /\ clock \in Nat /\ clock' \in Nat /\ clock <= clock'
      /\ ring \in Seq(Event)
  BY DEF OrderInv, TypeOK, KernelTypeOK, HookTypeOK
<1>2. ASSUME NEW i \in 1..Len(ring) PROVE ring[i].at \in Nat
  <2>1. ring[i] \in Event
    BY <1>1
  <2> QED BY <2>1 DEF Event
<1>3. \A t \in Threads : call[t].at \in Nat
  BY DEF OrderInv, TypeOK, HookTypeOK, Call
<1>4. Stamped'
  BY <1>1, <1>2, <1>3 DEF OrderInv, Stamped
<1>5. AfterRing'
  BY <1>1, <1>2 DEF OrderInv, AfterRing, Stamped
<1>6. DirectoryOrder'
  BY DEF OrderInv, DirectoryOrder
<1> QED BY <1>4, <1>5, <1>6 DEF OrderInv

LEMMA OrderEnter ==
  ASSUME OrderInv, TypeOK', NEW t \in Threads, NEW c, c.at = 0, Enter(t, c)
  PROVE  OrderInv'
<1>1. /\ ring' = ring /\ clock' = clock
      /\ pc' = [pc EXCEPT ![t] = "entered"] /\ call' = [call EXCEPT ![t] = c]
      /\ Unlocked({c.par, c.npar}, t)
      /\ pc \in [Threads -> {"idle", "entered", "executed", "marked"}]
      /\ call \in [Threads -> Call]
  BY DEF Enter, OrderInv, TypeOK, HookTypeOK
<1>2. \A u \in Threads \ {t} :
        Locks(u)' = Locks(u) /\ Performed(u)' = Performed(u) /\ call'[u] = call[u]
  BY <1>1 DEF Locks, Busy, Performed
<1>3. Locks(t)' \subseteq {c.par, c.npar} /\ ~Performed(t)' /\ call'[t] = c
  BY <1>1 DEF Locks, Performed
<1>4. LockedApart'
  BY <1>1, <1>2, <1>3 DEF OrderInv, LockedApart, Unlocked
<1> QED BY <1>1, <1>2, <1>3, <1>4, OrderQuiet

(* A kernel step: t's call gets the next stamp, and other calls may only   *)
(* change what a create knows of its file.                                 *)
LEMMA OrderExecute ==
  ASSUME OrderInv, TypeOK', NEW t \in Threads,
         ring' = ring, clock' = clock + 1,
         NEW at \in {"executed", "marked"}, pc' = [pc EXCEPT ![t] = at],
         call'[t].at = clock + 1,
         \/ call'[t].op = "create"
         \/ /\ Busy(t) /\ call'[t].op = call[t].op
            /\ call'[t].par = call[t].par /\ call'[t].npar = call[t].npar,
         \A u \in Threads \ {t} :
           \/ call'[u] = call[u]
           \/ call[u].op = "create" /\ call'[u].op = "create" /\ call'[u].at = call[u].at
  PROVE  OrderInv'
<1>1. pc \in [Threads -> {"idle", "entered", "executed", "marked"}]
  BY DEF OrderInv, TypeOK, HookTypeOK
<1>2. ASSUME NEW u \in Threads \ {t}
      PROVE  Locks(u)' = Locks(u) /\ Performed(u)' = Performed(u) /\ call'[u].at = call[u].at
  BY <1>1, <1>2 DEF Locks, Busy, Performed
<1>3. Locks(t)' \subseteq Locks(t)
  BY <1>1 DEF Locks, Busy
<1>4. LockedApart'
  BY <1>2, <1>3 DEF OrderInv, LockedApart
<1> QED BY <1>2, <1>4, OrderQuiet

LEMMA OrderKernel ==
  ASSUME OrderInv, TypeOK', NEW t \in Threads,
         VfsMkdir(t) \/ VfsRmdir(t) \/ VfsUnlink(t) \/ VfsRename(t) \/ VfsCreate(t)
  PROVE  OrderInv'
<1>1. /\ call \in [Threads -> Call] /\ t \in Threads /\ clock \in Nat
      /\ pc \in [Threads -> {"idle", "entered", "executed", "marked"}]
  BY DEF OrderInv, TypeOK, HookTypeOK, KernelTypeOK
<1>2. ASSUME NEW at \in {"executed", "marked"}, NEW obj, NEW ok, NEW pins,
             pc[t] = "entered", Executed(t, at, obj, ok, pins)
      PROVE  OrderInv'
  <2>1. /\ ring' = ring /\ clock' = clock + 1 /\ pc' = [pc EXCEPT ![t] = at]
        /\ call' = [call EXCEPT ![t].obj = obj, ![t].ok = ok, ![t].pins = pins,
                                ![t].at = clock + 1]
    BY <1>2 DEF Executed
  <2>2. /\ call'[t].at = clock + 1 /\ call'[t].op = call[t].op
        /\ call'[t].par = call[t].par /\ call'[t].npar = call[t].npar
    BY <1>1, <2>1 DEF Call
  <2>3. Busy(t) /\ \A u \in Threads \ {t} : call'[u] = call[u]
    BY <1>1, <1>2, <2>1 DEF Busy
  <2> QED BY <2>1, <2>2, <2>3, OrderExecute
<1>3. CASE VfsMkdir(t)
  BY <1>2, <1>3 DEF VfsMkdir, InCall
<1>4. CASE VfsRmdir(t)
  <2>1. PICK done : Executed(t, "executed", call[t].obj, done, {})
    BY <1>4 DEF VfsRmdir
  <2> QED BY <1>2, <1>4, <2>1 DEF VfsRmdir, InCall
<1>5. CASE VfsUnlink(t)
  BY <1>2, <1>5 DEF VfsUnlink, InCall
<1>6. CASE VfsRename(t)
  <2>1. PICK p \in At(call[t].par), q \in At(call[t].npar) :
          LET swap   == call[t].flags = "exchange"
              new    == Append(q, call[t].nname)
              target == IF new \in DOMAIN tree THEN {Ino(new)} ELSE {}
              done   == swap \/ Empty(tree, new)
          IN call' = [u \in Threads |->
                IF u = t THEN [call[t] EXCEPT !.ok = done, !.at = clock + 1, !.pins = target]
                ELSE IF done /\ InCall(u, "create", "marked") /\ call[u].obj = call[t].obj
                THEN Moved(call[u], call[t].npar, call[t].nname)
                ELSE IF swap /\ InCall(u, "create", "marked") /\ call[u].obj \in target
                THEN Moved(call[u], call[t].par, call[t].name)
                ELSE call[u]]
    BY <1>6 DEF VfsRename
  <2> DEFINE swap == call[t].flags = "exchange"
             new  == Append(q, call[t].nname)
             pins == IF new \in DOMAIN tree THEN {Ino(new)} ELSE {}
             done == swap \/ Empty(tree, new)
  <2>2. call' = [u \in Threads |->
                IF u = t THEN [call[t] EXCEPT !.ok = done, !.at = clock + 1, !.pins = pins]
                ELSE IF done /\ InCall(u, "create", "marked") /\ call[u].obj = call[t].obj
                THEN Moved(call[u], call[t].npar, call[t].nname)
                ELSE IF swap /\ InCall(u, "create", "marked") /\ call[u].obj \in pins
                THEN Moved(call[u], call[t].par, call[t].name)
                ELSE call[u]]
    BY <2>1
  <2> HIDE DEF swap, new, pins, done
  <2>3. /\ ring' = ring /\ clock' = clock + 1 /\ pc' = [pc EXCEPT ![t] = "executed"]
        /\ Busy(t)
    BY <1>6 DEF VfsRename, InCall, Busy
  <2>4. /\ call'[t].at = clock + 1 /\ call'[t].op = call[t].op
        /\ call'[t].par = call[t].par /\ call'[t].npar = call[t].npar
    BY <1>1, <2>2 DEF Call
  <2>5. ASSUME NEW u \in Threads \ {t}
        PROVE  \/ call'[u] = call[u]
               \/ call[u].op = "create" /\ call'[u].op = "create" /\ call'[u].at = call[u].at
    <3>1. \/ call'[u] = call[u]
          \/ call[u].op = "create" /\ call'[u] = Moved(call[u], call[t].npar, call[t].nname)
          \/ call[u].op = "create" /\ call'[u] = Moved(call[u], call[t].par, call[t].name)
      BY <2>2, <2>5 DEF InCall
    <3> QED BY <1>1, <3>1 DEF Moved, Call
  <2> QED BY <2>3, <2>4, <2>5, OrderExecute
<1>7. CASE VfsCreate(t)
  <2>1. PICK p \in DOMAIN tree, n \in Names, i \in FreeInodes :
          call' = [call EXCEPT ![t] = [Args("create", Ino(p), n, Ino(p), n, i, FALSE, "none", FALSE)
                                         EXCEPT !.at = clock + 1, !.pins = {i, Ino(p)}]]
    BY <1>7 DEF VfsCreate
  <2>2. /\ ring' = ring /\ clock' = clock + 1 /\ pc' = [pc EXCEPT ![t] = "marked"]
    BY <1>7 DEF VfsCreate
  <2>3. call'[t].op = "create" /\ call'[t].at = clock + 1
    BY <1>1, <2>1 DEF Args
  <2>4. \A u \in Threads \ {t} : call'[u] = call[u]
    BY <1>1, <2>1
  <2> QED BY <2>2, <2>3, <2>4, OrderExecute
<1> QED BY <1>3, <1>4, <1>5, <1>6, <1>7

LEMMA OrderMark ==
  ASSUME OrderInv, TypeOK', NEW t \in Threads, pc[t] = "executed", Marked(t)
  PROVE  OrderInv'
<1>1. /\ ring' = ring /\ clock' = clock /\ call' = call
      /\ pc' = [pc EXCEPT ![t] = "marked"]
      /\ pc \in [Threads -> {"idle", "entered", "executed", "marked"}]
  BY DEF Marked, kernel, OrderInv, TypeOK, HookTypeOK
<1>2. \A u \in Threads : Locks(u)' = Locks(u) /\ Performed(u)' = Performed(u)
  BY <1>1 DEF Locks, Busy, Performed
<1>3. LockedApart'
  BY <1>2 DEF OrderInv, LockedApart
<1> QED BY <1>1, <1>2, <1>3, OrderQuiet

(* The event of a call joins the ring while the call still has its locks.  *)
LEMMA OrderEmit ==
  ASSUME OrderInv, TypeOK', NEW t \in Threads,
         emit_pending_event(t) \/ handle_do_filp_open(t)
  PROVE  OrderInv'
<1>1. /\ pc' = [pc EXCEPT ![t] = "idle"] /\ call' = [call EXCEPT ![t] = NoCall]
      /\ clock' = clock /\ pc[t] = "marked"
      /\ pc \in [Threads -> {"idle", "entered", "executed", "marked"}]
      /\ call \in [Threads -> Call] /\ ring \in Seq(Event) /\ clock \in Nat
  BY DEF emit_pending_event, handle_do_filp_open, InCall, Return, kernel,
         OrderInv, TypeOK, HookTypeOK, KernelTypeOK
<1>2. ring' = ring \/ ring' = Append(ring, EventOf(call[t]))
  BY DEF emit_pending_event, handle_do_filp_open
<1>3. \A u \in Threads \ {t} :
        Locks(u)' = Locks(u) /\ Performed(u)' = Performed(u) /\ call'[u] = call[u]
  BY <1>1 DEF Locks, Busy, Performed
<1>4. Locks(t)' = {} /\ ~Performed(t)' /\ call'[t].at = 0
  BY <1>1 DEF Locks, Busy, Performed, NoCall, Args
<1>5. LockedApart'
  BY <1>3, <1>4 DEF OrderInv, LockedApart
<1>6. CASE ring' = ring
  BY <1>1, <1>3, <1>4, <1>5, <1>6, OrderQuiet
<1>7. CASE ring' = Append(ring, EventOf(call[t]))
  <2> DEFINE n == Len(ring)
             e == EventOf(call[t])
  <2>1. /\ Len(ring') = n + 1 /\ n \in Nat /\ ring'[n + 1] = e
        /\ \A i \in 1..n : ring'[i] = ring[i]
    BY <1>1, <1>7
  <2>2. e.at = call[t].at /\ \A d \in Inodes : Touches(e, d) => d \in Locks(t)
    BY <1>1 DEF EventOf, Touches, Locks, Busy
  <2>3. ASSUME NEW d \in Inodes, Touches(e, d) PROVE Performed(t)
    BY <1>1, <2>3 DEF EventOf, Touches, Performed
  <2> HIDE DEF e, n
  <2>4. Stamped'
    BY <1>1, <1>3, <1>4, <2>1, <2>2 DEF n, OrderInv, Stamped
  <2>5. AfterRing'
    <3> SUFFICES ASSUME NEW u \in Threads, NEW i \in 1..(n + 1), Performed(u)',
                        NEW d \in Locks(u)', Touches(ring'[i], d)
                 PROVE  ring'[i].at < call'[u].at
      BY <2>1 DEF AfterRing
    <3>1. u # t /\ d \in Locks(u) /\ Performed(u) /\ call'[u] = call[u]
      BY <1>3, <1>4
    <3>2. CASE i \in 1..n
      BY <2>1, <3>1, <3>2 DEF n, OrderInv, AfterRing
    <3>3. CASE i = n + 1
      <4>1. d \in Inodes
        BY <1>1, <3>1 DEF Locks, Call
      <4>2. d \in Locks(t)
        BY <2>1, <2>2, <3>3, <4>1
      <4> QED BY <3>1, <4>2 DEF OrderInv, LockedApart
    <3> QED BY <2>1, <3>2, <3>3
  <2>6. DirectoryOrder'
    <3> SUFFICES ASSUME NEW i \in 1..(n + 1), NEW j \in 1..(n + 1), i < j,
                        NEW d \in Inodes, Touches(ring'[i], d), Touches(ring'[j], d)
                 PROVE  ring'[i].at < ring'[j].at
      BY <2>1 DEF DirectoryOrder
    <3>1. i \in 1..n
      BY <2>1
    <3>2. CASE j \in 1..n
      BY <2>1, <3>1, <3>2 DEF n, OrderInv, DirectoryOrder
    <3>3. CASE j = n + 1
      <4>1. Performed(t) /\ d \in Locks(t) /\ ring'[j].at = call[t].at
        BY <2>1, <2>2, <2>3, <3>3
      <4>2. ring[i].at < call[t].at
        BY <2>1, <3>1, <4>1 DEF n, OrderInv, AfterRing
      <4> QED BY <2>1, <3>1, <4>1, <4>2
    <3> QED BY <2>1, <3>2, <3>3
  <2> QED BY <1>5, <2>4, <2>5, <2>6 DEF OrderInv
<1> QED BY <1>2, <1>6, <1>7

LEMMA OrderCapturer ==
  ASSUME OrderInv, TypeOK', Capturer
  PROVE  OrderInv'
<1>1. /\ UNCHANGED <<pc, call, clock>> /\ ring \in Seq(Event)
      /\ ring' = ring \/ (ring # <<>> /\ ring' = Tail(ring))
  BY DEF Capturer, handle_event, capture_and_send, kernel, threads, OrderInv, TypeOK, HookTypeOK
<1>2. \A u \in Threads : Locks(u)' = Locks(u) /\ Performed(u)' = Performed(u)
  BY <1>1 DEF Locks, Busy, Performed
<1>3. LockedApart'
  BY <1>2 DEF OrderInv, LockedApart
<1>4. CASE ring' = ring
  BY <1>1, <1>2, <1>3, <1>4, OrderQuiet
<1>5. CASE ring # <<>> /\ ring' = Tail(ring)
  <2>1. /\ Len(ring) \in Nat /\ Len(ring) > 0 /\ Len(ring') = Len(ring) - 1
        /\ \A i \in 1..Len(ring') : i + 1 \in 1..Len(ring) /\ ring'[i] = ring[i + 1]
    BY <1>1, <1>5
  <2>2. Stamped' /\ AfterRing'
    BY <1>1, <1>2, <2>1 DEF OrderInv, Stamped, AfterRing
  <2>3. DirectoryOrder'
    <3> SUFFICES ASSUME NEW i \in 1..Len(ring'), NEW j \in 1..Len(ring'), i < j,
                        NEW d \in Inodes, Touches(ring'[i], d), Touches(ring'[j], d)
                 PROVE  ring'[i].at < ring'[j].at
      BY DEF DirectoryOrder
    <3>1. /\ i + 1 \in 1..Len(ring) /\ j + 1 \in 1..Len(ring) /\ i + 1 < j + 1
          /\ ring'[i] = ring[i + 1] /\ ring'[j] = ring[j + 1]
      BY <2>1
    <3> QED BY <3>1 DEF OrderInv, DirectoryOrder
  <2> QED BY <1>3, <2>2, <2>3 DEF OrderInv
<1> QED BY <1>1, <1>4, <1>5

LEMMA OrderEntry ==
  ASSUME OrderInv, TypeOK', NEW t \in Threads,
         EnterMkdir(t) \/ EnterRmdir(t) \/ EnterUnlink(t) \/ EnterRename(t)
  PROVE  OrderInv'
<1>1. ASSUME NEW op, NEW par, NEW n, NEW npar, NEW m, NEW obj, NEW dir, NEW flags, NEW saved,
             Enter(t, Args(op, par, n, npar, m, obj, dir, flags, saved))
      PROVE  OrderInv'
  <2> DEFINE c == Args(op, par, n, npar, m, obj, dir, flags, saved)
  <2>1. c.at = 0
    BY DEF Args
  <2>2. Enter(t, c)
    BY <1>1
  <2> HIDE DEF c
  <2> QED BY <2>1, <2>2, OrderEnter
<1>2. ASSUME NEW op, NEW p, NEW n, NEW obj, NEW dir, save_child_op(t, op, p, n, obj, dir)
      PROVE  OrderInv'
  BY <1>1, <1>2 DEF save_child_op
<1>3. CASE EnterRename(t)
  <2>1. PICK p \in DOMAIN tree, q \in DOMAIN tree, n \in Names, m \in Names, flags \in RenameFlags :
          Enter(t, Args("rename", Ino(p), n, Ino(q), m, Ino(Append(p, n)),
                        tree[Append(p, n)].dir, flags, Ino(p) \in tracked \/ Ino(q) \in tracked))
    BY <1>3 DEF EnterRename
  <2> QED BY <2>1, <1>1
<1> QED BY <1>2, <1>3 DEF EnterMkdir, EnterRmdir, EnterUnlink

LEMMA OrderStep == OrderInv /\ [Next]_vars => OrderInv'
<1> SUFFICES ASSUME OrderInv, [Next]_vars PROVE OrderInv'
  OBVIOUS
<1>1. TypeOK'
  BY TypeStep DEF OrderInv
<1>2. ASSUME NEW t \in Threads, Syscall(t) PROVE OrderInv'
  <2>1. CASE handle_vfs_mkdir_ret(t) \/ handle_vfs_rmdir_ret(t) \/ handle_vfs_rename_ret(t)
    <3>1. pc[t] = "executed" /\ Marked(t)
      BY <2>1 DEF handle_vfs_mkdir_ret, handle_vfs_rmdir_ret, handle_vfs_rename_ret, InCall
    <3> QED BY <1>1, <3>1, OrderMark
  <2> QED BY <1>1, <1>2, <2>1, OrderEntry, OrderKernel, OrderEmit DEF Syscall
<1>3. CASE UNCHANGED vars
  BY <1>3 DEF vars, OrderInv, TypeOK, KernelTypeOK, HookTypeOK, CapturerTypeOK, LockedApart,
              Locks, Busy, InCall, Stamped, AfterRing, Performed, DirectoryOrder
<1> QED BY <1>1, <1>2, <1>3, OrderCapturer DEF Next

(* The ring holds the events of a directory in the order in which the      *)
(* kernel performed them, creates excepted, for any number of threads, any *)
(* ring size and any bound on the calls: handle_event may take each event  *)
(* of a directory as happening after the previous one.                     *)
THEOREM EventsOrdered == Spec => []DirectoryOrder
<1>1. OrderInv => DirectoryOrder
  BY DEF OrderInv
<1> QED BY <1>1, OrderInit, OrderStep, PTL DEF Spec
=============================================================================
