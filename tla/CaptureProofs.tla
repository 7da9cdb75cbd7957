---------------------------- MODULE CaptureProofs ----------------------------
(***************************************************************************)
(* One application thread, any calls, any trees, names, inodes and bounds, *)
(* a ring of any size and a capturer that is as late as it likes: the      *)
(* tables of the capturer follow the tree, and what it delivers makes the  *)
(* backup equal to it.                                                     *)
(***************************************************************************)
EXTENDS TrackedTreeProofs, ReplayProofs, FiniteSetTheorems

-----------------------------------------------------------------------------
(* The file system t, with the inodes u handed out so far.                 *)

Sound(t, u) ==
  /\ IsTree(t) /\ IsFileSystem(t) /\ u \subseteq Inodes
  /\ \A p \in DOMAIN t : t[p].ino \in u

LEMMA TreePaths ==
  ASSUME NEW t, IsTree(t), NEW p \in DOMAIN t
  PROVE  p \in Seq(Elems) /\ t[p] \in Node /\ t[p].ino \in Inodes /\ t[p].dir \in BOOLEAN
BY DEF IsTree, Paths, Node

LEMMA NameIsElem == \A n \in Names : n \in Elems
BY DEF Elems

(* Above an entry there are directories.                                   *)
LEMMA Above ==
  ASSUME NEW t, IsTree(t), IsFileSystem(t), NEW p \in DOMAIN t, NEW q \in Seq(Elems),
         IsPrefix(q, p), q # p
  PROVE  q \in DOMAIN t /\ t[q].dir
<1>1. p \in Seq(Elems)
  BY TreePaths
<1>2. CASE q = <<>>
  BY <1>2 DEF IsFileSystem
<1>3. CASE q # <<>>
  <2>1. q \in ParentsOf(p)
    BY <1>1, <1>3, ParentsArePrefixes
  <2> QED BY <2>1 DEF IsFileSystem
<1> QED BY <1>2, <1>3

(* A tree in which every entry has its directories is a file system.       *)
LEMMA BuildFileSystem ==
  ASSUME NEW t, IsTree(t), <<>> \in DOMAIN t, t[<<>>].dir,
         \A p \in DOMAIN t : \A q \in Seq(Elems) :
           IsPrefix(q, p) /\ q # p => q \in DOMAIN t /\ t[q].dir,
         \A p, q \in DOMAIN t : t[p].dir /\ t[p].ino = t[q].ino => p = q
  PROVE  IsFileSystem(t)
<1>1. ASSUME NEW p \in DOMAIN t, NEW q \in ParentsOf(p)
      PROVE  q \in DOMAIN t /\ t[q].dir
  <2>1. p \in Seq(Elems)
    BY TreePaths
  <2>2. q \in Seq(Elems) /\ IsPrefix(q, p) /\ q # p
    BY <2>1, ParentsArePrefixes
  <2> QED BY <2>2
<1> QED BY <1>1 DEF IsFileSystem

(* Nothing is below a file.                                                *)
LEMMA FileEmpty ==
  ASSUME NEW t, IsTree(t), IsFileSystem(t), NEW p \in DOMAIN t, ~t[p].dir
  PROVE  Empty(t, p)
<1> SUFFICES ASSUME NEW q \in DOMAIN t, IsPrefix(p, q), q # p PROVE FALSE
  BY DEF Empty
<1>1. p \in Seq(Elems)
  BY TreePaths
<1> QED BY <1>1, Above

-----------------------------------------------------------------------------
(* A file system that a call has changed is a file system.                 *)

LEMMA MadeSound ==
  ASSUME NEW t, NEW u, Sound(t, u), NEW p \in DOMAIN t, t[p].dir, NEW n \in Names,
         NEW i \in Inodes \ u, NEW d \in BOOLEAN, Append(p, n) \notin DOMAIN t
  PROVE  Sound(Set(t, Append(p, n), [ino |-> i, dir |-> d]), u \cup {i})
<1> DEFINE old == Append(p, n)
           h   == Set(t, old, [ino |-> i, dir |-> d])
<1>1. IsTree(t) /\ IsFileSystem(t) /\ p \in Seq(Elems) /\ n \in Elems
  BY TreePaths, NameIsElem DEF Sound
<1>2. /\ old \in Seq(Elems) /\ old # <<>> /\ IsPrefix(p, old) /\ p # old
      /\ \A q \in Seq(Elems) : IsPrefix(q, old) => IsPrefix(q, p) \/ q = old
  BY <1>1, PrefixAppend
<1>3. [ino |-> i, dir |-> d] \in Node
  BY DEF Node
<1>4. IsTree(h)
  BY <1>1, <1>2, <1>3, SetTree DEF Paths
<1>5. /\ DOMAIN h = DOMAIN t \cup {old} /\ h[old] = [ino |-> i, dir |-> d]
      /\ \A q \in DOMAIN t : h[q] = t[q]
  BY DEF Set
<1> HIDE DEF old, h
<1>6. <<>> \in DOMAIN h /\ h[<<>>].dir
  BY <1>1, <1>5 DEF IsFileSystem
<1>7. ASSUME NEW r \in DOMAIN h, NEW q \in Seq(Elems), IsPrefix(q, r), q # r
      PROVE  q \in DOMAIN h /\ h[q].dir
  <2>1. CASE r = old
    <3>1. IsPrefix(q, p)
      BY <1>2, <1>7, <2>1
    <3>2. q \in DOMAIN t /\ t[q].dir
      BY <1>1, <3>1, Above
    <3> QED BY <1>5, <3>2
  <2>2. CASE r # old
    <3>1. r \in DOMAIN t
      BY <1>5, <2>2
    <3>2. q \in DOMAIN t /\ t[q].dir
      BY <1>1, <1>7, <3>1, Above
    <3> QED BY <1>5, <3>2
  <2> QED BY <2>1, <2>2
<1>8. \A q \in DOMAIN t : t[q].ino \in u
  BY DEF Sound
<1>9. ASSUME NEW q \in DOMAIN h, NEW r \in DOMAIN h, h[q].dir, h[q].ino = h[r].ino PROVE q = r
  BY <1>1, <1>5, <1>8, <1>9 DEF IsFileSystem
<1>10. IsFileSystem(h)
  BY <1>4, <1>6, <1>7, <1>9, BuildFileSystem
<1>11. u \cup {i} \subseteq Inodes /\ \A q \in DOMAIN h : h[q].ino \in u \cup {i}
  BY <1>5, <1>8 DEF Sound
<1> QED BY <1>4, <1>10, <1>11 DEF Sound, h, old

LEMMA RemovedSound ==
  ASSUME NEW t, NEW u, Sound(t, u), NEW old \in DOMAIN t, old # <<>>, Empty(t, old)
  PROVE  Sound(Drop(t, old), u)
<1> DEFINE h == Drop(t, old)
<1>1. IsTree(t) /\ IsFileSystem(t)
  BY DEF Sound
<1>2. IsTree(h)
  BY <1>1, DropTree
<1>3. DOMAIN h = DOMAIN t \ {old} /\ \A q \in DOMAIN h : h[q] = t[q]
  BY DEF Drop
<1> HIDE DEF h
<1>4. <<>> \in DOMAIN h /\ h[<<>>].dir
  BY <1>1, <1>3 DEF IsFileSystem
<1>5. ASSUME NEW r \in DOMAIN h, NEW q \in Seq(Elems), IsPrefix(q, r), q # r
      PROVE  q \in DOMAIN h /\ h[q].dir
  <2>1. q \in DOMAIN t /\ t[q].dir
    BY <1>1, <1>3, <1>5, Above
  <2>2. q # old
    BY <1>3, <1>5 DEF Empty
  <2> QED BY <1>3, <2>1, <2>2
<1>6. \A q, r \in DOMAIN h : h[q].dir /\ h[q].ino = h[r].ino => q = r
  BY <1>1, <1>3 DEF IsFileSystem
<1>7. IsFileSystem(h)
  BY <1>2, <1>4, <1>5, <1>6, BuildFileSystem
<1>8. \A q \in DOMAIN h : h[q].ino \in u
  BY <1>3 DEF Sound
<1> QED BY <1>2, <1>7, <1>8 DEF Sound, h

LEMMA MovedSound ==
  ASSUME NEW t, NEW u, Sound(t, u), NEW old \in DOMAIN t, NEW new \in Seq(Elems),
         old # <<>>, new # <<>>, ~IsPrefix(old, new), Empty(t, new),
         \A q \in Seq(Elems) : IsPrefix(q, new) /\ q # new => q \in DOMAIN t /\ t[q].dir
  PROVE  Sound(MoveSubtree(t, old, new), u)
<1> DEFINE h == MoveSubtree(t, old, new)
<1>1. IsTree(t) /\ IsFileSystem(t)
  BY DEF Sound
<1>7. old \in Seq(Elems) /\ \A q \in DOMAIN t : q \in Seq(Elems)
  BY <1>1, TreePaths
<1>2. IsTree(h)
  BY <1>1, <1>7, MoveTree DEF Paths
<1>3. ASSUME NEW q \in DOMAIN h
      PROVE  \E l \in DOMAIN t : CameFrom(l, q, old, new) /\ h[q] = t[l]
  BY <1>7, MoveCame
<1>4. ASSUME NEW q \in DOMAIN t, ~IsPrefix(old, q), q # new
      PROVE  q \in DOMAIN h /\ h[q] = t[q]
  BY <1>4, <1>7, MoveKeeps
<1>5. ASSUME NEW l \in DOMAIN t, IsPrefix(old, l)
      PROVE  Rebase(l, old, new) \in DOMAIN h /\ h[Rebase(l, old, new)] = t[l]
  BY <1>5, <1>7, MoveTakes
<1> HIDE DEF h
<1>8. <<>> \in DOMAIN h /\ h[<<>>].dir
  <2> DEFINE root == <<>>
  <2>1. root \in DOMAIN t /\ t[root].dir /\ root \in Seq(Elems)
    BY <1>1 DEF IsFileSystem
  <2>2. IsPrefix(root, old) /\ old # root /\ new # root
    BY <1>7, PrefixRoot
  <2> HIDE DEF root
  <2>3. ~IsPrefix(old, root)
    BY <1>7, <2>1, <2>2, PrefixSame
  <2>4. root \in DOMAIN h /\ h[root].dir
    BY <1>4, <2>1, <2>2, <2>3
  <2> QED BY <2>4 DEF root
<1>9. ASSUME NEW q \in Seq(Elems), IsPrefix(q, new), q # new
      PROVE  q \in DOMAIN h /\ h[q].dir
  <2>1. q \in DOMAIN t /\ t[q].dir
    BY <1>9
  <2>2. ~IsPrefix(old, q)
    BY <1>7, <1>9, PrefixTrans
  <2> QED BY <1>4, <1>9, <2>1, <2>2
<1>10. ASSUME NEW r \in DOMAIN h, NEW q \in Seq(Elems), IsPrefix(q, r), q # r
       PROVE  q \in DOMAIN h /\ h[q].dir
  <2>0. PICK l \in DOMAIN t : CameFrom(l, r, old, new) /\ h[r] = t[l]
    BY <1>3
  <2>1. CASE l = r /\ ~IsPrefix(old, r) /\ r # new
    <3>1. q \in DOMAIN t /\ t[q].dir
      BY <1>1, <1>10, <2>1, Above
    <3>2. r \in Seq(Elems)
      BY <1>7, <2>1
    <3>3. ~IsPrefix(old, q)
      BY <1>7, <1>10, <2>1, <3>2, PrefixTrans
    <3>4. q # new
      BY <1>10, <2>1 DEF Empty
    <3> QED BY <1>4, <3>1, <3>3, <3>4
  <2>2. CASE IsPrefix(old, l) /\ r = Rebase(l, old, new)
    <3>1. l \in Seq(Elems)
      BY <1>7
    <3>2. CASE IsPrefix(q, new) /\ q # new
      BY <1>9, <3>2
    <3>3. CASE q = new
      <4>1. IsPrefix(old, old) /\ Rebase(old, old, new) = new
        BY <1>7, PrefixSelf, RebaseSelf
      <4>2. new \in DOMAIN h /\ h[new] = t[old]
        BY <1>5, <4>1
      <4>3. l # old
        BY <1>10, <2>2, <3>3, <4>1
      <4>4. t[old].dir
        BY <1>1, <1>7, <2>2, <4>3, Above
      <4> QED BY <3>3, <4>2, <4>4
    <3>4. CASE ~IsPrefix(q, new)
      <4>1. PICK k \in Seq(Elems) : IsPrefix(old, k) /\ IsPrefix(k, l) /\ q = Rebase(k, old, new)
        <5>1. IsPrefix(q, Rebase(l, old, new)) /\ IsPrefix(old, l)
          BY <1>10, <2>2
        <5> QED BY <1>7, <3>1, <3>4, <5>1, RebaseAbove
      <4>2. k # l
        BY <1>10, <2>2, <4>1
      <4>3. k \in DOMAIN t /\ t[k].dir
        BY <1>1, <4>1, <4>2, Above
      <4> QED BY <1>5, <4>1, <4>3
    <3> QED BY <3>2, <3>3, <3>4
  <2> QED BY <2>0, <2>1, <2>2 DEF CameFrom
<1>12. ASSUME NEW q \in DOMAIN h, NEW r \in DOMAIN h, h[q].dir, h[q].ino = h[r].ino PROVE q = r
  <2>1. PICK k \in DOMAIN t : CameFrom(k, q, old, new) /\ h[q] = t[k]
    BY <1>3
  <2>2. PICK l \in DOMAIN t : CameFrom(l, r, old, new) /\ h[r] = t[l]
    BY <1>3
  <2>3. k = l
    BY <1>1, <1>12, <2>1, <2>2 DEF IsFileSystem
  <2> QED BY <2>1, <2>2, <2>3 DEF CameFrom
<1>13. IsFileSystem(h)
  BY <1>2, <1>8, <1>10, <1>12, BuildFileSystem
<1>14. \A q \in DOMAIN h : h[q].ino \in u
  BY <1>3 DEF Sound
<1>15. u \subseteq Inodes
  BY DEF Sound
<1> QED BY <1>2, <1>13, <1>14, <1>15 DEF Sound, h

-----------------------------------------------------------------------------
(* What the call of event e makes of the file system: t, u become t2, u2.  *)
(* An exchange of two entries is not among it.                             *)

Old(e, p) == Append(p, e.name)
New(e, q) == Append(q, e.nname)

Makes(e, t, u, t2, u2, p) ==
  /\ e.op \in {"mkdir", "create"} /\ Old(e, p) \notin DOMAIN t /\ e.obj \notin u
  /\ t2 = Set(t, Old(e, p), [ino |-> e.obj, dir |-> (e.op = "mkdir")])
  /\ u2 = u \cup {e.obj}
Removes(e, t, u, t2, u2, p) ==
  /\ e.op \in {"rmdir", "unlink"} /\ Old(e, p) \in DOMAIN t
  /\ t[Old(e, p)].dir <=> e.op = "rmdir"
  /\ Empty(t, Old(e, p))
  /\ t2 = Drop(t, Old(e, p)) /\ u2 = u
Moves(e, t, u, t2, u2, p, q) ==
  /\ e.op = "rename" /\ Old(e, p) \in DOMAIN t
  /\ t[Old(e, p)].ino = e.obj /\ t[Old(e, p)].dir = e.dir
  /\ ~IsPrefix(Old(e, p), New(e, q)) /\ ~IsPrefix(New(e, q), Old(e, p))
  /\ \/ e.flags = "none" /\ (New(e, q) \in DOMAIN t => t[New(e, q)].dir = e.dir)
     \/ e.flags = "noreplace" /\ New(e, q) \notin DOMAIN t
  /\ Empty(t, New(e, q))
  /\ t2 = MoveSubtree(t, Old(e, p), New(e, q)) /\ u2 = u
Parents(e, t, p, q) ==
  t[p].dir /\ t[p].ino = e.par /\ t[q].dir /\ t[q].ino = e.npar
Effect(e, t, u, t2, u2) ==
  \E p, q \in DOMAIN t :
    /\ Parents(e, t, p, q)
    /\ Makes(e, t, u, t2, u2, p) \/ Removes(e, t, u, t2, u2, p) \/ Moves(e, t, u, t2, u2, p, q)

LEMMA EntryPaths ==
  ASSUME NEW t, NEW u, Sound(t, u), NEW e \in Event, NEW p \in DOMAIN t, NEW q \in DOMAIN t
  PROVE  /\ p \in Seq(Elems) /\ q \in Seq(Elems)
         /\ Old(e, p) \in Seq(Elems) /\ Old(e, p) # <<>>
         /\ New(e, q) \in Seq(Elems) /\ New(e, q) # <<>>
<1>1. p \in Seq(Elems) /\ q \in Seq(Elems)
  BY TreePaths DEF Sound
<1>2. e.name \in Elems /\ e.nname \in Elems
  BY NameIsElem DEF Event
<1>3. Old(e, p) \in Seq(Elems) /\ Old(e, p) # <<>>
  BY <1>1, <1>2, PrefixAppend DEF Old
<1>4. New(e, q) \in Seq(Elems) /\ New(e, q) # <<>>
  BY <1>1, <1>2, PrefixAppend DEF New
<1> QED BY <1>1, <1>3, <1>4

(* The directories above an entry of the directory q.                      *)
LEMMA AboveEntry ==
  ASSUME NEW t, NEW u, Sound(t, u), NEW q \in DOMAIN t, t[q].dir, NEW n \in Names,
         NEW r \in Seq(Elems), IsPrefix(r, Append(q, n)), r # Append(q, n)
  PROVE  r \in DOMAIN t /\ t[r].dir
<1>1. q \in Seq(Elems) /\ n \in Elems /\ IsTree(t) /\ IsFileSystem(t)
  BY TreePaths, NameIsElem DEF Sound
<1>2. IsPrefix(r, q)
  BY <1>1, PrefixAppend
<1> QED BY <1>1, <1>2, Above

LEMMA EffectSound ==
  ASSUME NEW t, NEW u, Sound(t, u), NEW e \in Event, NEW t2, NEW u2, Effect(e, t, u, t2, u2)
  PROVE  Sound(t2, u2)
<1>1. PICK p \in DOMAIN t, q \in DOMAIN t :
        /\ Parents(e, t, p, q)
        /\ Makes(e, t, u, t2, u2, p) \/ Removes(e, t, u, t2, u2, p) \/ Moves(e, t, u, t2, u2, p, q)
  BY DEF Effect
<1>2. t[p].dir /\ t[q].dir
  BY <1>1 DEF Parents
<1>3. /\ p \in Seq(Elems) /\ q \in Seq(Elems)
      /\ Old(e, p) \in Seq(Elems) /\ Old(e, p) # <<>>
      /\ New(e, q) \in Seq(Elems) /\ New(e, q) # <<>>
  BY EntryPaths
<1>4. CASE Makes(e, t, u, t2, u2, p)
  <2>1. e.name \in Names /\ e.obj \in Inodes \ u
    BY <1>4 DEF Makes, Event
  <2>2. Append(p, e.name) \notin DOMAIN t
    BY <1>4 DEF Makes, Old
  <2>3. Sound(Set(t, Append(p, e.name), [ino |-> e.obj, dir |-> (e.op = "mkdir")]), u \cup {e.obj})
    BY <1>2, <2>1, <2>2, MadeSound
  <2> QED BY <1>4, <2>3 DEF Makes, Old
<1>5. CASE Removes(e, t, u, t2, u2, p)
  BY <1>3, <1>5, RemovedSound DEF Removes
<1>6. CASE Moves(e, t, u, t2, u2, p, q)
  <2>1. /\ Old(e, p) \in DOMAIN t /\ ~IsPrefix(Old(e, p), New(e, q)) /\ Empty(t, New(e, q))
        /\ t2 = MoveSubtree(t, Old(e, p), New(e, q)) /\ u2 = u
    BY <1>6 DEF Moves
  <2>2. e.nname \in Names
    BY DEF Event
  <2>3. \A r \in Seq(Elems) : IsPrefix(r, New(e, q)) /\ r # New(e, q) => r \in DOMAIN t /\ t[r].dir
    BY <1>2, <2>2, AboveEntry DEF New
  <2> QED BY <1>3, <2>1, <2>3, MovedSound
<1> QED BY <1>1, <1>4, <1>5, <1>6

-----------------------------------------------------------------------------
(* What the capturer makes of an event whose parents are in its table d.   *)

From(e, d) == Append(d[e.par], e.name)
To(e, d)   == Append(d[e.npar], e.nname)

Unlisted(d, prefix) == [i \in {j \in DOMAIN d : ~IsPrefix(prefix, d[j])} |-> d[i]]
Relisted(d, i, old, new) ==
  [j \in DOMAIN d \cup {i} |->
     IF j = i THEN new ELSE IF IsPrefix(old, d[j]) THEN Rebase(d[j], old, new) ELSE d[j]]
After(e, d) ==
  IF e.op = "mkdir" THEN Set(d, e.obj, From(e, d))
  ELSE IF e.op = "rmdir" THEN Unlisted(d, From(e, d))
  ELSE IF e.op = "rename" /\ e.dir THEN Relisted(d, e.obj, From(e, d), To(e, d))
  ELSE d
Written(e, d) ==
  Rec(e.op, From(e, d), IF e.op = "rename" THEN To(e, d) ELSE <<>>,
      IF e.op = "rename" THEN e.flags ELSE "none")

DirsOf(t) == {t[p].ino : p \in {q \in DOMAIN t : t[q].dir}}
Agrees(d, t) == \A p \in DOMAIN t : t[p].dir => t[p].ino \in DOMAIN d /\ d[t[p].ino] = p

(* The table after the event agrees with the tree after the call, and no   *)
(* directory that is still there has left it.                              *)
Follows(e, d, t2, u2) ==
  /\ e.par \in DOMAIN d /\ e.npar \in DOMAIN d
  /\ Agrees(After(e, d), t2) /\ DOMAIN After(e, d) \subseteq u2
  /\ DirsOf(t2) \cap DOMAIN d \subseteq DOMAIN After(e, d)

LEMMA ParentsListed ==
  ASSUME NEW t, NEW d, Agrees(d, t), NEW e, NEW p \in DOMAIN t, NEW q \in DOMAIN t,
         Parents(e, t, p, q)
  PROVE  /\ e.par \in DOMAIN d /\ e.npar \in DOMAIN d
         /\ From(e, d) = Old(e, p) /\ To(e, d) = New(e, q)
BY DEF Agrees, Parents, From, To, Old, New

LEMMA MadeDir ==
  ASSUME NEW i, NEW op PROVE [ino |-> i, dir |-> (op = "mkdir")].dir <=> op = "mkdir"
<1>1. PICK b \in BOOLEAN : b <=> op = "mkdir"
  OBVIOUS
<1>2. b = (op = "mkdir")
  BY <1>1
<1>3. [ino |-> i, dir |-> b].dir = b
  OBVIOUS
<1> QED BY <1>1, <1>2, <1>3

LEMMA MakesFollowed ==
  ASSUME NEW t, NEW u, Sound(t, u), NEW e \in Event, NEW t2, NEW u2, NEW d, Agrees(d, t),
         DOMAIN d \subseteq u, NEW p \in DOMAIN t, NEW q \in DOMAIN t, Parents(e, t, p, q),
         Makes(e, t, u, t2, u2, p)
  PROVE  Follows(e, d, t2, u2)
<1>1. e.par \in DOMAIN d /\ e.npar \in DOMAIN d /\ From(e, d) = Old(e, p)
  BY ParentsListed
<1> DEFINE old == Old(e, p)
<1>2. /\ old \notin DOMAIN t /\ e.obj \notin u /\ u2 = u \cup {e.obj}
      /\ DOMAIN t2 = DOMAIN t \cup {old} /\ t2[old] = [ino |-> e.obj, dir |-> (e.op = "mkdir")]
      /\ \A r \in DOMAIN t : t2[r] = t[r]
  BY DEF Makes, Set
<1>3. \A r \in DOMAIN t : t[r].ino \in u
  BY DEF Sound
<1> HIDE DEF old
<1>4. CASE e.op = "mkdir"
  <2> DEFINE h == After(e, d)
  <2>1. /\ DOMAIN h = DOMAIN d \cup {e.obj} /\ h[e.obj] = old
        /\ \A i \in DOMAIN d : i # e.obj => h[i] = d[i]
    BY <1>1, <1>4 DEF After, Set, old
  <2> HIDE DEF h
  <2>2. Agrees(h, t2)
    BY <1>2, <1>3, <1>4, <2>1 DEF Agrees
  <2> QED BY <1>1, <1>2, <2>1, <2>2 DEF Follows, h
<1>5. CASE e.op # "mkdir"
  <2>1. After(e, d) = d
    BY <1>5 DEF After, Makes
  <2>0. ~t2[old].dir
    BY <1>2, <1>5, MadeDir
  <2>2. \A r \in DOMAIN t2 : t2[r].dir => r \in DOMAIN t
    BY <1>2, <2>0
  <2>3. Agrees(d, t2)
    BY <1>2, <2>2 DEF Agrees
  <2> QED BY <1>1, <1>2, <2>1, <2>3 DEF Follows
<1> QED BY <1>4, <1>5

LEMMA RemovesFollowed ==
  ASSUME NEW t, NEW u, Sound(t, u), NEW e \in Event, NEW t2, NEW u2, NEW d, Agrees(d, t),
         DOMAIN d \subseteq u, NEW p \in DOMAIN t, NEW q \in DOMAIN t, Parents(e, t, p, q),
         Removes(e, t, u, t2, u2, p)
  PROVE  Follows(e, d, t2, u2)
<1>1. e.par \in DOMAIN d /\ e.npar \in DOMAIN d /\ From(e, d) = Old(e, p)
  BY ParentsListed
<1> DEFINE old == Old(e, p)
<1>2. /\ Empty(t, old) /\ u2 = u /\ DOMAIN t2 = DOMAIN t \ {old}
      /\ \A r \in DOMAIN t2 : t2[r] = t[r]
  BY DEF Removes, Drop
<1>3. Agrees(d, t2)
  BY <1>2 DEF Agrees
<1> HIDE DEF old
<1>4. CASE e.op = "rmdir"
  <2> DEFINE h == After(e, d)
  <2>1. DOMAIN h = {j \in DOMAIN d : ~IsPrefix(old, d[j])} /\ \A i \in DOMAIN h : h[i] = d[i]
    BY <1>1, <1>4 DEF After, Unlisted, old
  <2> HIDE DEF h
  <2>2. \A r \in DOMAIN t2 : t2[r].dir => t2[r].ino \in DOMAIN h
    BY <1>2, <1>3, <2>1 DEF Agrees, Empty
  <2>3. Agrees(h, t2)
    BY <1>3, <2>1, <2>2 DEF Agrees
  <2>4. DirsOf(t2) \subseteq DOMAIN h
    BY <2>2 DEF DirsOf
  <2> QED BY <1>1, <1>2, <2>1, <2>3, <2>4 DEF Follows, h
<1>5. CASE e.op # "rmdir"
  <2>1. After(e, d) = d
    BY <1>5 DEF After, Removes
  <2> QED BY <1>1, <1>2, <1>3, <2>1 DEF Follows
<1> QED BY <1>4, <1>5

LEMMA MovesFollowed ==
  ASSUME NEW t, NEW u, Sound(t, u), NEW e \in Event, NEW t2, NEW u2, NEW d, Agrees(d, t),
         DOMAIN d \subseteq u, NEW p \in DOMAIN t, NEW q \in DOMAIN t, Parents(e, t, p, q),
         Moves(e, t, u, t2, u2, p, q)
  PROVE  Follows(e, d, t2, u2)
<1>1. e.par \in DOMAIN d /\ e.npar \in DOMAIN d /\ From(e, d) = Old(e, p) /\ To(e, d) = New(e, q)
  BY ParentsListed
<1> DEFINE old == Old(e, p)
           new == New(e, q)
<1>2. /\ old \in DOMAIN t /\ t[old].ino = e.obj /\ t[old].dir = e.dir
      /\ Empty(t, new) /\ t2 = MoveSubtree(t, old, new) /\ u2 = u /\ e.op = "rename"
  BY DEF Moves
<1>3. IsTree(t) /\ IsFileSystem(t) /\ \A r \in DOMAIN t : r \in Seq(Elems) /\ t[r].ino \in u
  BY TreePaths DEF Sound
<1>4. old \in Seq(Elems) /\ new \in Seq(Elems)
  BY EntryPaths
<1> HIDE DEF old, new
<1>5. ASSUME NEW r \in DOMAIN t2
      PROVE  \E l \in DOMAIN t : CameFrom(l, r, old, new) /\ t2[r] = t[l]
  BY <1>2, <1>3, <1>4, MoveCame
<1>6. CASE e.dir
  <2> DEFINE h == After(e, d)
  <2>1. /\ DOMAIN h = DOMAIN d \cup {e.obj} /\ h[e.obj] = new
        /\ \A j \in DOMAIN d : j # e.obj => h[j] = IF IsPrefix(old, d[j]) THEN Rebase(d[j], old, new) ELSE d[j]
    BY <1>1, <1>2, <1>6 DEF After, Relisted, old, new
  <2> HIDE DEF h
  <2>2. ASSUME NEW r \in DOMAIN t2, t2[r].dir
        PROVE  t2[r].ino \in DOMAIN h /\ h[t2[r].ino] = r
    <3>1. PICK l \in DOMAIN t : CameFrom(l, r, old, new) /\ t2[r] = t[l]
      BY <1>5
    <3>2. t[l].ino \in DOMAIN d /\ d[t[l].ino] = l
      BY <2>2, <3>1 DEF Agrees
    <3>3. CASE t[l].ino = e.obj
      <4>1. l = old
        BY <1>2, <1>3, <2>2, <3>1, <3>3 DEF IsFileSystem
      <4>2. IsPrefix(old, old) /\ Rebase(old, old, new) = new
        BY <1>4, PrefixSelf, RebaseSelf
      <4>3. r = new
        BY <3>1, <4>1, <4>2 DEF CameFrom
      <4> QED BY <2>1, <3>1, <3>3, <4>3
    <3>4. CASE t[l].ino # e.obj
      <4>1. h[t[l].ino] = IF IsPrefix(old, l) THEN Rebase(l, old, new) ELSE l
        BY <2>1, <3>2, <3>4
      <4> QED BY <2>1, <3>1, <3>2, <4>1 DEF CameFrom
    <3> QED BY <3>3, <3>4
  <2>3. Agrees(h, t2)
    BY <2>2 DEF Agrees
  <2>4. DOMAIN h \subseteq u2
    BY <1>2, <1>3, <2>1
  <2> QED BY <1>1, <2>1, <2>3, <2>4 DEF Follows, h
<1>7. CASE ~e.dir
  <2>1. After(e, d) = d
    BY <1>2, <1>7 DEF After
  <2>2. Empty(t, old)
    BY <1>2, <1>3, <1>7, FileEmpty
  <2>3. ASSUME NEW r \in DOMAIN t2, t2[r].dir
        PROVE  r \in DOMAIN t /\ t2[r] = t[r]
    <3>1. PICK l \in DOMAIN t : CameFrom(l, r, old, new) /\ t2[r] = t[l]
      BY <1>5
    <3>2. l # old
      BY <1>2, <1>7, <2>3, <3>1
    <3>3. ~IsPrefix(old, l)
      BY <2>2, <3>2 DEF Empty
    <3> QED BY <3>1, <3>3 DEF CameFrom
  <2>4. Agrees(d, t2)
    BY <2>3 DEF Agrees
  <2> QED BY <1>1, <1>2, <2>1, <2>4 DEF Follows
<1> QED BY <1>6, <1>7

LEMMA EffectFollowed ==
  ASSUME NEW t, NEW u, Sound(t, u), NEW e \in Event, NEW t2, NEW u2, Effect(e, t, u, t2, u2),
         NEW d, Agrees(d, t), DOMAIN d \subseteq u
  PROVE  Follows(e, d, t2, u2)
BY MakesFollowed, RemovesFollowed, MovesFollowed DEF Effect

-----------------------------------------------------------------------------
(* The record of an event, replayed on a copy of the tree before the call, *)
(* makes a copy of the tree after it.                                      *)

KindOf(n) == IF n.dir THEN Dir ELSE <<>>
Copy(t)   == [p \in DOMAIN t |-> KindOf(t[p])]

LEMMA CopyPoints ==
  ASSUME NEW t
  PROVE  /\ DOMAIN Copy(t) = DOMAIN t
         /\ \A p \in DOMAIN t : Copy(t)[p] = IF t[p].dir THEN Dir ELSE <<>>
         /\ Copy(t) = [p \in DOMAIN Copy(t) |-> Copy(t)[p]]
         /\ \A p : Empty(Copy(t), p) <=> Empty(t, p)
BY DEF Copy, KindOf, Empty

LEMMA AllVisible ==
  ASSUME Outside = {}, NEW t PROVE Visible(t) = Copy(t)
BY DEF Visible, InTree, Copy, KindOf

LEMMA CopySet ==
  ASSUME NEW t, NEW p, NEW n PROVE Copy(Set(t, p, n)) = Set(Copy(t), p, KindOf(n))
BY DEF Copy, Set

LEMMA CopyDrop ==
  ASSUME NEW t, NEW p PROVE Copy(Drop(t, p)) = Drop(Copy(t), p)
BY DEF Copy, Drop

LEMMA CopyMove ==
  ASSUME NEW t, IsTree(t), NEW old \in Seq(Elems), NEW new \in Seq(Elems), Empty(t, new)
  PROVE  Copy(MoveSubtree(t, old, new)) = MoveSubtree(Copy(t), old, new)
<1> DEFINE f == Copy(t)
           g == MoveSubtree(f, old, new)
           h == MoveSubtree(t, old, new)
<1>1. DOMAIN t \subseteq Seq(Elems)
  BY TreePaths
<1>2. DOMAIN f = DOMAIN t /\ Empty(f, new) /\ \A p \in DOMAIN t : f[p] = KindOf(t[p])
  BY CopyPoints DEF KindOf
<1> HIDE DEF f
<1>3. g = [q \in DOMAIN g |-> g[q]]
  BY <1>1, <1>2, MoveParts
<1>4. ASSUME NEW q \in DOMAIN h PROVE q \in DOMAIN g /\ g[q] = KindOf(h[q])
  <2>1. PICK l \in DOMAIN t : CameFrom(l, q, old, new) /\ h[q] = t[l]
    BY <1>1, MoveCame
  <2>2. CASE l = q /\ ~IsPrefix(old, q) /\ q # new
    <3>1. q \in DOMAIN g /\ g[q] = f[q]
      BY <1>1, <1>2, <2>2, MoveKeeps
    <3> QED BY <1>2, <2>1, <2>2, <3>1
  <2>3. CASE IsPrefix(old, l) /\ q = Rebase(l, old, new)
    <3>1. q \in DOMAIN g /\ g[q] = f[l]
      BY <1>1, <1>2, <2>3, MoveTakes
    <3> QED BY <1>2, <2>1, <3>1
  <2> QED BY <2>1, <2>2, <2>3 DEF CameFrom
<1>5. ASSUME NEW q \in DOMAIN g PROVE q \in DOMAIN h
  <2>1. PICK l \in DOMAIN f : CameFrom(l, q, old, new) /\ g[q] = f[l]
    BY <1>1, <1>2, MoveCame
  <2>2. CASE l = q /\ ~IsPrefix(old, q) /\ q # new
    BY <1>1, <1>2, <2>2, MoveKeeps
  <2>3. CASE IsPrefix(old, l) /\ q = Rebase(l, old, new)
    BY <1>1, <1>2, <2>3, MoveTakes
  <2> QED BY <2>1, <2>2, <2>3 DEF CameFrom
<1> HIDE DEF g, h
<1>6. DOMAIN g = DOMAIN h
  BY <1>4, <1>5
<1>7. [q \in DOMAIN h |-> KindOf(h[q])] = [q \in DOMAIN g |-> g[q]]
  BY <1>4, <1>6
<1>8. Copy(h) = g
  BY <1>3, <1>7 DEF Copy
<1> QED BY <1>8 DEF f, g, h

LEMMA CopyParents ==
  ASSUME NEW t, NEW u, Sound(t, u), NEW q \in DOMAIN t, t[q].dir, NEW n \in Names
  PROVE  ParentsThere(Copy(t), Append(q, n))
<1>1. q \in Seq(Elems) /\ n \in Elems
  BY TreePaths, NameIsElem DEF Sound
<1>2. Append(q, n) \in Seq(Elems)
  BY <1>1, PrefixAppend
<1>3. ASSUME NEW r \in ParentsOf(Append(q, n)) PROVE r \in DOMAIN t /\ t[r].dir
  <2>1. r \in Seq(Elems) /\ IsPrefix(r, Append(q, n)) /\ r # Append(q, n)
    BY <1>2, ParentsArePrefixes
  <2> QED BY <2>1, AboveEntry
<1> QED BY <1>3, CopyPoints DEF ParentsThere

LEMMA MakesReplayed ==
  ASSUME NEW t, NEW u, Sound(t, u), NEW e \in Event, NEW t2, NEW u2, NEW d, Agrees(d, t),
         NEW p \in DOMAIN t, NEW q \in DOMAIN t, Parents(e, t, p, q), Makes(e, t, u, t2, u2, p)
  PROVE  ApplyRecord(Copy(t), Written(e, d)) = Done(Copy(t2))
<1> DEFINE r == Written(e, d)
           f == Copy(t)
<1>1. From(e, d) = Old(e, p) /\ t[p].dir /\ e.name \in Names
  BY ParentsListed DEF Parents, Event
<1>2. r.op = e.op /\ r.path = Old(e, p)
  BY <1>1 DEF Written, Rec
<1>3. f = [s \in DOMAIN f |-> f[s]] /\ DOMAIN f = DOMAIN t
  BY CopyPoints
<1>4. ParentsThere(f, r.path)
  BY <1>1, <1>2, CopyParents DEF Old
<1>5. r.path \notin DOMAIN f
  BY <1>2, <1>3 DEF Makes
<1>6. Copy(t2) = Set(f, r.path, IF e.op = "mkdir" THEN Dir ELSE <<>>)
  <2>1. Copy(t2) = Set(f, r.path, KindOf([ino |-> e.obj, dir |-> (e.op = "mkdir")]))
    BY <1>2, CopySet DEF Makes
  <2>2. KindOf([ino |-> e.obj, dir |-> (e.op = "mkdir")]) = IF e.op = "mkdir" THEN Dir ELSE <<>>
    BY MadeDir DEF KindOf
  <2> QED BY <2>1, <2>2
<1> HIDE DEF r, f
<1>7. CASE e.op = "mkdir"
  BY <1>2, <1>3, <1>4, <1>5, <1>6, <1>7, MkdirApplied DEF r, f
<1>8. CASE e.op = "create"
  BY <1>2, <1>3, <1>4, <1>5, <1>6, <1>8, CreateApplied DEF r, f
<1> QED BY <1>7, <1>8 DEF Makes

LEMMA RemovesReplayed ==
  ASSUME NEW t, NEW u, Sound(t, u), NEW e \in Event, NEW t2, NEW u2, NEW d, Agrees(d, t),
         NEW p \in DOMAIN t, NEW q \in DOMAIN t, Parents(e, t, p, q), Removes(e, t, u, t2, u2, p)
  PROVE  ApplyRecord(Copy(t), Written(e, d)) = Done(Copy(t2))
<1> DEFINE r == Written(e, d)
           f == Copy(t)
<1>1. From(e, d) = Old(e, p) /\ t[p].dir /\ e.name \in Names
  BY ParentsListed DEF Parents, Event
<1>2. r.op = e.op /\ r.path = Old(e, p)
  BY <1>1 DEF Written, Rec
<1>3. f = [s \in DOMAIN f |-> f[s]] /\ DOMAIN f = DOMAIN t
  BY CopyPoints
<1>4. ParentsThere(f, r.path)
  BY <1>1, <1>2, CopyParents DEF Old
<1>5. Empty(f, r.path)
  BY <1>2, CopyPoints DEF Removes
<1>6. Copy(t2) = Drop(f, r.path)
  BY <1>2, CopyDrop DEF Removes
<1>9. f[r.path] = IF e.op = "rmdir" THEN Dir ELSE <<>>
  BY <1>2, CopyPoints DEF Removes
<1> HIDE DEF r, f
<1>7. CASE e.op = "rmdir"
  BY <1>2, <1>3, <1>4, <1>5, <1>6, <1>7, <1>9, RmdirApplied DEF r, f
<1>8. CASE e.op = "unlink"
  BY <1>2, <1>3, <1>4, <1>6, <1>8, <1>9, UnlinkApplied, DirAssumption DEF r, f
<1> QED BY <1>7, <1>8 DEF Removes

LEMMA MovesReplayed ==
  ASSUME NEW t, NEW u, Sound(t, u), NEW e \in Event, NEW t2, NEW u2, NEW d, Agrees(d, t),
         NEW p \in DOMAIN t, NEW q \in DOMAIN t, Parents(e, t, p, q), Moves(e, t, u, t2, u2, p, q)
  PROVE  ApplyRecord(Copy(t), Written(e, d)) = Done(Copy(t2))
<1> DEFINE r == Written(e, d)
           f == Copy(t)
<1>1. From(e, d) = Old(e, p) /\ To(e, d) = New(e, q) /\ t[q].dir /\ e.nname \in Names
  BY ParentsListed DEF Parents, Event
<1>2. r.op = "rename" /\ r.path = Old(e, p) /\ r.npath = New(e, q) /\ r.flags = e.flags
  BY <1>1 DEF Written, Rec, Moves
<1>3. f = [s \in DOMAIN f |-> f[s]] /\ DOMAIN f = DOMAIN t
  BY CopyPoints
<1>4. ParentsThere(f, r.npath)
  BY <1>1, <1>2, CopyParents DEF New
<1>5. Empty(f, r.npath)
  BY <1>2, CopyPoints DEF Moves
<1>6. Copy(t2) = MoveSubtree(f, r.path, r.npath)
  <2>1. IsTree(t) /\ Old(e, p) \in Seq(Elems) /\ New(e, q) \in Seq(Elems)
    BY EntryPaths DEF Sound
  <2>2. Empty(t, New(e, q)) /\ t2 = MoveSubtree(t, Old(e, p), New(e, q))
    BY DEF Moves
  <2> QED BY <1>2, <2>1, <2>2, CopyMove
<1>7. /\ r.path \in DOMAIN f /\ ~IsPrefix(r.path, r.npath)
  BY <1>2, <1>3 DEF Moves
<1>8. r.path # r.npath
  <2>1. Old(e, p) \in Seq(Elems)
    BY EntryPaths
  <2> QED BY <1>2, <1>7, <2>1, PrefixSelf
<1>9. r.npath \in DOMAIN f => (f[r.path] = Dir <=> f[r.npath] = Dir)
  BY <1>2, <1>3, CopyPoints DEF Moves
<1>11. r.flags = "none" \/ (r.flags = "noreplace" /\ r.npath \notin DOMAIN f)
  BY <1>2, <1>3 DEF Moves
<1> HIDE DEF r, f
<1>10. ApplyRecord(f, r) = Done(MoveSubtree(f, r.path, r.npath))
  BY <1>2, <1>3, <1>4, <1>5, <1>7, <1>8, <1>9, <1>11, RenameApplied
<1> QED BY <1>6, <1>10 DEF r, f

LEMMA EffectReplayed ==
  ASSUME NEW t, NEW u, Sound(t, u), NEW e \in Event, NEW t2, NEW u2, Effect(e, t, u, t2, u2),
         NEW d, Agrees(d, t)
  PROVE  ApplyRecord(Copy(t), Written(e, d)) = Done(Copy(t2))
BY MakesReplayed, RemovesReplayed, MovesReplayed DEF Effect

(* A call makes no directory of an inode that is in use, and leaves the    *)
(* directories it works in.                                                *)
LEMMA EffectDirs ==
  ASSUME NEW t, NEW u, Sound(t, u), NEW e \in Event, NEW t2, NEW u2, Effect(e, t, u, t2, u2)
  PROVE  /\ u \subseteq u2 /\ DirsOf(t2) \cap u \subseteq DirsOf(t)
         /\ e.par \in DirsOf(t2) /\ (e.op \in {"rename", "mkdir", "create"} => e.npar \in DirsOf(t2))
<1>1. PICK p \in DOMAIN t, q \in DOMAIN t :
        /\ Parents(e, t, p, q)
        /\ Makes(e, t, u, t2, u2, p) \/ Removes(e, t, u, t2, u2, p) \/ Moves(e, t, u, t2, u2, p, q)
  BY DEF Effect
<1>2. t[p].dir /\ t[p].ino = e.par /\ t[q].dir /\ t[q].ino = e.npar
  BY <1>1 DEF Parents
<1>3. p \in Seq(Elems) /\ q \in Seq(Elems) /\ e.name \in Elems /\ e.nname \in Elems
  BY EntryPaths, NameIsElem DEF Event
<1>4. IsPrefix(p, Old(e, p)) /\ ~IsPrefix(Old(e, p), p) /\ p # Old(e, p)
  BY <1>3, PrefixAppend DEF Old
<1>5. IsPrefix(q, New(e, q)) /\ q # New(e, q)
  BY <1>3, PrefixAppend DEF New
<1>6. IsTree(t) /\ \A r \in DOMAIN t : t[r].ino \in u
  BY DEF Sound
<1>7. CASE Makes(e, t, u, t2, u2, p)
  <2>1. /\ DOMAIN t2 = DOMAIN t \cup {Old(e, p)} /\ t2[Old(e, p)].ino = e.obj /\ e.obj \notin u
        /\ \A r \in DOMAIN t : t2[r] = t[r]
    BY <1>7 DEF Makes, Set
  <2>2. u \subseteq u2 /\ Old(e, p) \notin DOMAIN t
    BY <1>7 DEF Makes
  <2>3. e.par \in DirsOf(t2) /\ e.npar \in DirsOf(t2)
    BY <1>2, <2>1 DEF DirsOf
  <2>4. DirsOf(t2) \cap u \subseteq DirsOf(t)
    BY <2>1, <2>2 DEF DirsOf
  <2> QED BY <2>2, <2>3, <2>4
<1>8. CASE Removes(e, t, u, t2, u2, p)
  <2>1. /\ DOMAIN t2 = DOMAIN t \ {Old(e, p)} /\ \A r \in DOMAIN t2 : t2[r] = t[r]
    BY <1>8 DEF Removes, Drop
  <2>2. u = u2 /\ e.op \in {"rmdir", "unlink"}
    BY <1>8 DEF Removes
  <2>3. e.par \in DirsOf(t2)
    BY <1>2, <1>4, <2>1 DEF DirsOf
  <2>4. DirsOf(t2) \subseteq DirsOf(t)
    BY <2>1 DEF DirsOf
  <2> QED BY <2>2, <2>3, <2>4
<1>9. CASE Moves(e, t, u, t2, u2, p, q)
  <2> DEFINE old == Old(e, p)
             new == New(e, q)
  <2>1. /\ Empty(t, new) /\ t2 = MoveSubtree(t, old, new) /\ u = u2
        /\ ~IsPrefix(old, new) /\ ~IsPrefix(new, old)
    BY <1>9 DEF Moves
  <2>2. DOMAIN t \subseteq Seq(Elems) /\ old \in Seq(Elems) /\ new \in Seq(Elems)
    BY <1>6, EntryPaths, TreePaths
  <2> HIDE DEF old, new
  <2>3. p # new
    BY <1>4, <2>1 DEF old
  <2>4. ~IsPrefix(old, q)
    BY <1>3, <1>5, <2>1, <2>2, PrefixTrans DEF new
  <2>5. p \in DOMAIN t2 /\ t2[p] = t[p]
    BY <1>4, <2>1, <2>2, <2>3, MoveKeeps DEF old
  <2>6. q \in DOMAIN t2 /\ t2[q] = t[q]
    BY <1>5, <2>1, <2>2, <2>4, MoveKeeps DEF new
  <2>7. e.par \in DirsOf(t2) /\ e.npar \in DirsOf(t2)
    BY <1>2, <2>5, <2>6 DEF DirsOf
  <2>8. ASSUME NEW r \in DOMAIN t2 PROVE \E l \in DOMAIN t : t2[r] = t[l]
    BY <2>1, <2>2, MoveCame
  <2>9. DirsOf(t2) \subseteq DirsOf(t)
    BY <2>8 DEF DirsOf
  <2> QED BY <2>1, <2>7, <2>9
<1> QED BY <1>1, <1>7, <1>8, <1>9

-----------------------------------------------------------------------------
(* What is to come: the table and the backup after each of the events es,  *)
(* from the table d and from out, what the batch will make of the backup.  *)

Handled(D, e, n, t) ==
  /\ e.par \in DOMAIN D[n - 1] /\ e.npar \in DOMAIN D[n - 1]
  /\ D[n] = After(e, D[n - 1])
  /\ DirsOf(t) \cap DOMAIN D[n - 1] \subseteq DOMAIN D[n]
Tables(D, d, es, t, u) ==
  /\ D[0] = d
  /\ \A n \in 1..Len(es) : Handled(D, es[n], n, t)
  /\ \A n \in 0..Len(es) : DOMAIN D[n] \subseteq u
  /\ Agrees(D[Len(es)], t)

Contents(D, B, out, es, t) ==
  /\ B[0] = out
  /\ \A n \in 1..Len(es) : B[n] = ApplyStep(B[n - 1], Written(es[n], D[n - 1]))
  /\ \A n \in 0..Len(es) : B[n] = Done(B[n].fs)
  /\ B[Len(es)] = Done(Copy(t))

(* whole: the backup is to follow as well.                                 *)
Ahead(whole, d, out, es, t, u) ==
  \E D, B : Tables(D, d, es, t, u) /\ (whole => Contents(D, B, out, es, t))

LEMMA DoneIsFine == \A f : Done(f) = Done(Done(f).fs)
<1>1. ASSUME NEW f PROVE Done(f).fs = f
  BY DEF Done
<1> QED BY <1>1

LEMMA AheadNothing ==
  ASSUME NEW whole \in BOOLEAN, NEW t, NEW u, NEW d, Agrees(d, t), DOMAIN d \subseteq u
  PROVE  Ahead(whole, d, Done(Copy(t)), <<>>, t, u)
<1> DEFINE D == [n \in {0} |-> d]
           B == [n \in {0} |-> Done(Copy(t))]
           es == <<>>
<1>1. Len(es) = 0 /\ 1..Len(es) = {} /\ 0..Len(es) = {0}
  OBVIOUS
<1>2. Tables(D, d, es, t, u)
  BY <1>1 DEF Tables
<1>3. Contents(D, B, Done(Copy(t)), es, t)
  BY <1>1 DEF Contents, Done
<1> QED BY <1>2, <1>3 DEF Ahead

(* A call adds its event.                                                  *)
LEMMA AheadGrows ==
  ASSUME NEW whole \in BOOLEAN, NEW t, NEW u, Sound(t, u), NEW d, NEW out, NEW es \in Seq(Event),
         Ahead(whole, d, out, es, t, u), NEW e \in Event, NEW t2, NEW u2, Effect(e, t, u, t2, u2)
  PROVE  Ahead(whole, d, out, Append(es, e), t2, u2)
<1> DEFINE k == Len(es)
           more == Append(es, e)
<1>1. /\ k \in Nat /\ Len(more) = k + 1 /\ more[k + 1] = e /\ \A n \in 1..k : more[n] = es[n]
  OBVIOUS
<1>2. PICK D, B : Tables(D, d, es, t, u) /\ (whole => Contents(D, B, out, es, t))
  BY DEF Ahead
<1> DEFINE D2 == [n \in 0..(k + 1) |-> IF n = k + 1 THEN After(e, D[k]) ELSE D[n]]
           B2 == [n \in 0..(k + 1) |-> IF n = k + 1 THEN ApplyStep(B[k], Written(e, D[k])) ELSE B[n]]
<1>3. Tables(D, d, es, t, u)
  BY <1>2
<1>4. Agrees(D[k], t) /\ DOMAIN D[k] \subseteq u
  BY <1>1, <1>3 DEF Tables
<1>5. Follows(e, D[k], t2, u2)
  BY <1>4, EffectFollowed
<1>6. u \subseteq u2 /\ DirsOf(t2) \cap u \subseteq DirsOf(t)
  BY EffectDirs
<1>7. D2[k + 1] = After(e, D[k]) /\ \A n \in 0..k : D2[n] = D[n]
  BY <1>1
<1>8. B2[k + 1] = ApplyStep(B[k], Written(e, D[k])) /\ \A n \in 0..k : B2[n] = B[n]
  BY <1>1
<1> HIDE DEF D2, B2, k, more
<1>9. ASSUME NEW n \in 1..(k + 1) PROVE Handled(D2, more[n], n, t2)
  <2>1. CASE n = k + 1
    <3>1. n - 1 = k /\ k \in 0..k
      BY <1>1, <2>1
    <3> QED BY <1>1, <1>5, <1>7, <2>1, <3>1 DEF Handled, Follows
  <2>2. CASE n # k + 1
    <3>1. n \in 1..k /\ n \in 0..k /\ n - 1 \in 0..k
      BY <1>1, <2>2
    <3>2. Handled(D, es[n], n, t) /\ DOMAIN D[n - 1] \subseteq u
      BY <1>3, <3>1 DEF Tables, k
    <3> QED BY <1>1, <1>6, <1>7, <3>1, <3>2 DEF Handled
  <2> QED BY <2>1, <2>2
<1>10. ASSUME NEW n \in 0..(k + 1) PROVE DOMAIN D2[n] \subseteq u2
  <2>1. CASE n = k + 1
    BY <1>5, <1>7, <2>1 DEF Follows
  <2>2. CASE n # k + 1
    <3>1. n \in 0..k
      BY <1>1, <2>2
    <3>2. DOMAIN D[n] \subseteq u
      BY <1>3, <3>1 DEF Tables, k
    <3> QED BY <1>6, <1>7, <3>1, <3>2
  <2> QED BY <2>1, <2>2
<1>11. D2[0] = d /\ Agrees(D2[k + 1], t2)
  <2>1. 0 \in 0..k
    BY <1>1
  <2> QED BY <1>3, <1>5, <1>7, <2>1 DEF Tables, Follows
<1>12. Tables(D2, d, more, t2, u2)
  BY <1>1, <1>9, <1>10, <1>11 DEF Tables
<1>13. ASSUME whole PROVE Contents(D2, B2, out, more, t2)
  <2>1. Contents(D, B, out, es, t)
    BY <1>2, <1>13
  <2>2. B[k] = Done(Copy(t))
    BY <2>1 DEF Contents, k
  <2>3. ApplyRecord(Copy(t), Written(e, D[k])) = Done(Copy(t2))
    BY <1>4, EffectReplayed
  <2>4. B2[k + 1] = Done(Copy(t2))
    BY <1>8, <2>2, <2>3 DEF ApplyStep, Done
  <2>5. ASSUME NEW n \in 1..(k + 1)
        PROVE  B2[n] = ApplyStep(B2[n - 1], Written(more[n], D2[n - 1]))
    <3>1. CASE n = k + 1
      <4>1. n - 1 = k /\ k \in 0..k
        BY <1>1, <3>1
      <4> QED BY <1>1, <1>7, <1>8, <3>1, <4>1
    <3>2. CASE n # k + 1
      <4>1. n \in 1..k /\ n \in 0..k /\ n - 1 \in 0..k
        BY <1>1, <3>2
      <4>2. B[n] = ApplyStep(B[n - 1], Written(es[n], D[n - 1]))
        BY <2>1, <4>1 DEF Contents, k
      <4> QED BY <1>1, <1>7, <1>8, <4>1, <4>2
    <3> QED BY <3>1, <3>2
  <2>6. ASSUME NEW n \in 0..(k + 1) PROVE B2[n] = Done(B2[n].fs)
    <3>1. CASE n = k + 1
      BY <2>4, <3>1, DoneIsFine
    <3>2. CASE n # k + 1
      <4>1. n \in 0..k
        BY <1>1, <3>2
      <4> QED BY <1>8, <2>1, <4>1 DEF Contents, k
    <3> QED BY <3>1, <3>2
  <2>7. B2[0] = out
    <3>1. 0 \in 0..k
      BY <1>1
    <3> QED BY <1>8, <2>1, <3>1 DEF Contents
  <2> QED BY <1>1, <2>4, <2>5, <2>6, <2>7 DEF Contents
<1> QED BY <1>12, <1>13 DEF Ahead, more

(* The capturer consumes the first event.                                  *)
LEMMA AheadHead ==
  ASSUME NEW whole \in BOOLEAN, NEW t, NEW u, NEW d, NEW out, NEW es \in Seq(Event), es # <<>>,
         Ahead(whole, d, out, es, t, u), NEW e, e = es[1]
  PROVE  /\ e.par \in DOMAIN d /\ e.npar \in DOMAIN d
         /\ DirsOf(t) \cap DOMAIN d \subseteq DOMAIN After(e, d)
         /\ Ahead(whole, After(e, d), ApplyStep(out, Written(e, d)), Tail(es), t, u)
<1> DEFINE k == Len(es) - 1
           less == Tail(es)
<1>1. /\ k \in Nat /\ Len(es) = k + 1 /\ Len(less) = k /\ \A n \in 1..k : less[n] = es[n + 1]
  OBVIOUS
<1>2. PICK D, B : Tables(D, d, es, t, u) /\ (whole => Contents(D, B, out, es, t))
  BY DEF Ahead
<1> DEFINE D2 == [n \in 0..k |-> D[n + 1]]
           B2 == [n \in 0..k |-> B[n + 1]]
<1>3. Tables(D, d, es, t, u)
  BY <1>2
<1>4. Handled(D, e, 1, t) /\ D[0] = d
  <2>1. 1 \in 1..Len(es)
    BY <1>1
  <2> QED BY <1>3, <2>1 DEF Tables
<1>5. /\ e.par \in DOMAIN d /\ e.npar \in DOMAIN d /\ D[1] = After(e, d)
      /\ DirsOf(t) \cap DOMAIN d \subseteq DOMAIN After(e, d)
  <2>1. 1 - 1 = 0
    OBVIOUS
  <2> QED BY <1>4, <2>1 DEF Handled
<1>6. \A n \in 0..k : D2[n] = D[n + 1] /\ B2[n] = B[n + 1]
  OBVIOUS
<1> HIDE DEF D2, B2, k, less
<1>7. ASSUME NEW n \in 1..k
      PROVE  /\ n \in 0..k /\ n - 1 \in 0..k /\ n + 1 \in 1..(k + 1)
             /\ (n + 1) - 1 = n /\ (n - 1) + 1 = n
  BY <1>1
<1>8. ASSUME NEW n \in 1..k PROVE Handled(D2, less[n], n, t)
  <2>1. Handled(D, es[n + 1], n + 1, t)
    BY <1>1, <1>3, <1>7 DEF Tables
  <2> QED BY <1>1, <1>6, <1>7, <2>1 DEF Handled
<1>9. ASSUME NEW n \in 0..k PROVE DOMAIN D2[n] \subseteq u
  <2>1. n + 1 \in 0..(k + 1)
    BY <1>1
  <2> QED BY <1>1, <1>3, <1>6, <2>1 DEF Tables
<1>10. D2[0] = After(e, d) /\ B2[0] = B[1] /\ D2[k] = D[k + 1] /\ B2[k] = B[k + 1]
  <2>1. 0 \in 0..k /\ k \in 0..k /\ 0 + 1 = 1
    BY <1>1
  <2> QED BY <1>5, <1>6, <2>1
<1>11. Tables(D2, After(e, d), less, t, u)
  BY <1>1, <1>3, <1>8, <1>9, <1>10 DEF Tables
<1>12. ASSUME whole PROVE Contents(D2, B2, ApplyStep(out, Written(e, d)), less, t)
  <2>1. Contents(D, B, out, es, t)
    BY <1>2, <1>12
  <2>2. B[1] = ApplyStep(out, Written(e, d))
    <3>1. 1 \in 1..Len(es) /\ 1 - 1 = 0
      BY <1>1
    <3> QED BY <1>4, <2>1, <3>1 DEF Contents
  <2>3. ASSUME NEW n \in 1..k PROVE B2[n] = ApplyStep(B2[n - 1], Written(less[n], D2[n - 1]))
    <3>1. B[n + 1] = ApplyStep(B[n], Written(es[n + 1], D[n]))
      BY <1>1, <1>7, <2>1 DEF Contents
    <3> QED BY <1>1, <1>6, <1>7, <3>1
  <2>4. ASSUME NEW n \in 0..k PROVE B2[n] = Done(B2[n].fs)
    <3>1. n + 1 \in 0..(k + 1)
      BY <1>1
    <3> QED BY <1>1, <1>6, <2>1, <3>1 DEF Contents
  <2>5. B2[k] = Done(Copy(t))
    BY <1>1, <1>10, <2>1 DEF Contents
  <2> QED BY <1>1, <1>10, <2>2, <2>3, <2>4, <2>5 DEF Contents
<1> QED BY <1>5, <1>11, <1>12 DEF Ahead, less

(* The ring loses a create: the tables need none.                          *)
LEMMA AheadDrops ==
  ASSUME NEW t, NEW u, NEW d, NEW out, NEW es \in Seq(Event), NEW e \in Event, e.op = "create",
         Ahead(FALSE, d, out, Append(es, e), t, u), NEW any
  PROVE  Ahead(FALSE, d, any, es, t, u)
<1> DEFINE k == Len(es)
           more == Append(es, e)
<1>1. /\ k \in Nat /\ Len(more) = k + 1 /\ more[k + 1] = e /\ \A n \in 1..k : more[n] = es[n]
  OBVIOUS
<1>2. PICK D : Tables(D, d, more, t, u)
  BY DEF Ahead
<1> HIDE DEF k, more
<1>3. D[k + 1] = D[k]
  <2>1. k + 1 \in 1..Len(more) /\ (k + 1) - 1 = k
    BY <1>1
  <2>2. Handled(D, e, k + 1, t)
    BY <1>1, <1>2, <2>1 DEF Tables
  <2> QED BY <2>1, <2>2 DEF Handled, After
<1>4. ASSUME NEW n \in 1..k PROVE Handled(D, es[n], n, t)
  <2>1. n \in 1..Len(more)
    BY <1>1
  <2> QED BY <1>1, <1>2, <2>1 DEF Tables
<1>5. ASSUME NEW n \in 0..k PROVE DOMAIN D[n] \subseteq u
  <2>1. n \in 0..Len(more)
    BY <1>1
  <2> QED BY <1>2, <2>1 DEF Tables
<1>6. D[0] = d /\ Agrees(D[k], t)
  BY <1>1, <1>2, <1>3 DEF Tables
<1>7. Tables(D, d, es, t, u)
  BY <1>4, <1>5, <1>6 DEF Tables, k
<1> QED BY <1>7 DEF Ahead

(* The first and the last of it.                                           *)
LEMMA AheadFine ==
  ASSUME NEW t, NEW u, NEW d, NEW out, NEW es \in Seq(Event), Ahead(TRUE, d, out, es, t, u)
  PROVE  out = Done(out.fs)
<1>1. PICK D, B : Contents(D, B, out, es, t)
  BY DEF Ahead
<1>2. 0 \in 0..Len(es)
  OBVIOUS
<1> QED BY <1>1, <1>2 DEF Contents

LEMMA AheadEnd ==
  ASSUME NEW whole \in BOOLEAN, NEW t, NEW u, NEW d, NEW out, Ahead(whole, d, out, <<>>, t, u)
  PROVE  Agrees(d, t) /\ (whole => out = Done(Copy(t)))
<1> DEFINE es == <<>>
<1>1. PICK D, B : Tables(D, d, es, t, u) /\ (whole => Contents(D, B, out, es, t))
  BY DEF Ahead
<1>2. Len(es) = 0
  OBVIOUS
<1> HIDE DEF es
<1>3. Agrees(d, t)
  BY <1>1, <1>2 DEF Tables
<1>4. ASSUME whole PROVE out = Done(Copy(t))
  BY <1>1, <1>2, <1>4 DEF Contents
<1> QED BY <1>3, <1>4

-----------------------------------------------------------------------------
(* One thread, no directories outside the captured one, no inode number    *)
(* used twice, and tracked_dirs never full.                                *)

Alone ==
  /\ \E t : Threads = {t}
  /\ Outside = {} /\ ~InodeReuse
  /\ IsFiniteSet(Inodes) /\ Cardinality(Inodes) <= TrackedMax
me == CHOOSE t : t \in Threads

(* The thread's event, once its call has executed, comes after the ring's. *)
HasEvent == pc[me] \in {"executed", "marked"} /\ call[me].ok
Coming == IF HasEvent THEN Append(ring, EventOf(call[me])) ELSE ring

(* What a call that has been entered looked up still stands.               *)
LookedUp(c, t, p, q) ==
  \/ c.op = "mkdir" /\ Old(c, p) \notin DOMAIN t
  \/ /\ c.op \in {"rmdir", "unlink"} /\ Old(c, p) \in DOMAIN t
     /\ t[Old(c, p)].dir <=> c.op = "rmdir"
     /\ t[Old(c, p)].ino = c.obj
  \/ /\ c.op = "rename" /\ Old(c, p) \in DOMAIN t
     /\ t[Old(c, p)].ino = c.obj /\ t[Old(c, p)].dir = c.dir
     /\ ~IsPrefix(Old(c, p), New(c, q)) /\ ~IsPrefix(New(c, q), Old(c, p))
     /\ \/ c.flags = "none" /\ (New(c, q) \in DOMAIN t => t[New(c, q)].dir = c.dir)
        \/ c.flags = "noreplace" /\ New(c, q) \notin DOMAIN t
        \/ c.flags = "exchange"
Ready(c) ==
  c.saved /\ c.ok /\ \E p, q \in DOMAIN tree : Parents(c, tree, p, q) /\ LookedUp(c, tree, p, q)

(* One that has executed works in directories that are still there, and a  *)
(* directory it has removed is not.                                        *)
Executing(c) ==
  /\ c.op # "create" => c.saved
  /\ c.par \in DirsOf(tree) /\ (c.op \in {"rename", "mkdir", "create"} => c.npar \in DirsOf(tree))
  /\ c.op = "rmdir" /\ c.ok => c.obj \notin DirsOf(tree)
  /\ c.op = "create" => c.ok

CallRight ==
  /\ pc[me] = "entered" => Ready(call[me])
  /\ pc[me] \in {"executed", "marked"} => Executing(call[me])

(* Every directory is tracked, but for the one that a mkdir has just made. *)
Fresh(i) == pc[me] = "executed" /\ call[me].op = "mkdir" /\ i = call[me].obj
Tracks == \A i \in DirsOf(tree) : i \in tracked \/ Fresh(i)

(* Until something is lost, the table, brought up to date by the events to *)
(* come, agrees with the tree; whole: and so does the backup.              *)
Right(whole) ==
  /\ Sound(tree, used) /\ ~batch_error /\ CallRight /\ Tracks
  /\ Ahead(whole, dirs, Replayed(backup, batch), Coming, tree, used)

(* The events s have been written to the ring, or the last of them will be *)
(* when the call that has executed returns.                                *)
Heard(s) ==
  \/ Len(s) <= Len(ring) /\ \A n \in 1..Len(s) : s[n] = ring[n]
  \/ /\ HasEvent /\ call[me].saved /\ call[me].op # "create"
     /\ s = Append(ring, EventOf(call[me]))

(* The table follows the events es, and the event e of an exchange comes   *)
(* after them: its record will be in the batch.                            *)
Swaps(e, t) ==
  /\ e.op = "rename" /\ e.flags = "exchange"
  /\ e.par \in DirsOf(t) /\ e.npar \in DirsOf(t)
Doomed(whole) ==
  /\ ~batch_error
  /\ \E es \in Seq(Event), e \in Event : \E t, u :
       /\ Sound(t, u) /\ Swaps(e, t) /\ Heard(Append(es, e))
       /\ Ahead(whole, dirs, Replayed(backup, batch), es, t, u)

CaptureInv(whole) ==
  TypeOK /\ (~lost /\ applied => Right(whole) \/ Doomed(whole) \/ WithExchange(batch))

LEMMA AloneMe == Alone => Threads = {me} /\ me \in Threads
BY DEF Alone, me

LEMMA ComingTyped == ASSUME TypeOK, Alone PROVE Coming \in Seq(Event) /\ ring \in Seq(Event)
<1>1. ring \in Seq(Event) /\ me \in Threads
  BY AloneMe DEF TypeOK, HookTypeOK
<1>2. ASSUME HasEvent PROVE EventOf(call[me]) \in Event
  <2>1. call[me] \in Call /\ call[me].obj \in Inodes
    BY <1>1, <1>2 DEF TypeOK, HookTypeOK, HasEvent, Busy, InCall
  <2> QED BY <2>1 DEF Call, Event, EventOf
<1> QED BY <1>1, <1>2 DEF Coming

-----------------------------------------------------------------------------
(* Steps that leave what is to come as it is, and calls that add to it.    *)

CapturerIdle == UNCHANGED <<dirs, batch, batch_error, backup>>

LEMMA RightQuiet ==
  ASSUME NEW whole \in BOOLEAN, Right(whole), tree' = tree, used' = used, CapturerIdle,
         Coming' = Coming, CallRight', Tracks'
  PROVE  Right(whole)'
BY DEF Right, CapturerIdle

LEMMA RightEffect ==
  ASSUME NEW whole \in BOOLEAN, Right(whole), TypeOK, Alone, CapturerIdle, ~HasEvent, ring' = ring,
         HasEvent', NEW e \in Event, e = EventOf(call'[me]), Effect(e, tree, used, tree', used'),
         CallRight', Tracks'
  PROVE  Right(whole)'
<1>1. Coming = ring /\ Coming' = Append(ring, e) /\ ring \in Seq(Event)
  BY ComingTyped DEF Coming
<1>2. Sound(tree, used) /\ Ahead(whole, dirs, Replayed(backup, batch), ring, tree, used)
  BY <1>1 DEF Right
<1>3. Sound(tree', used')
  BY <1>2, EffectSound
<1>4. Ahead(whole, dirs, Replayed(backup, batch), Append(ring, e), tree', used')
  BY <1>1, <1>2, AheadGrows
<1>5. dirs' = dirs /\ batch' = batch /\ backup' = backup /\ batch_error' = batch_error
  BY DEF CapturerIdle
<1> QED BY <1>1, <1>3, <1>4, <1>5 DEF Right

-----------------------------------------------------------------------------
(* The entry of a call.                                                    *)

LEMMA DirTracked ==
  ASSUME NEW whole \in BOOLEAN, Right(whole), NEW p \in DOMAIN tree, tree[p].dir, pc[me] # "executed"
  PROVE  Ino(p) \in tracked
BY DEF Right, Tracks, DirsOf, Fresh, Ino

LEMMA EnterRight ==
  ASSUME NEW whole \in BOOLEAN, Right(whole), TypeOK, Alone, NEW c, Enter(me, c), Ready(c)
  PROVE  Right(whole)'
<1>1. pc'[me] = "entered" /\ call'[me] = c /\ pc[me] = "idle"
  BY AloneMe DEF Enter, TypeOK, HookTypeOK
<1>2. UNCHANGED <<tree, used, tracked, ring>> /\ CapturerIdle
  BY DEF Enter, CapturerIdle, user, sink
<1>3. Coming' = Coming
  BY <1>1, <1>2 DEF Coming, HasEvent
<1>4. CallRight'
  BY <1>1, <1>2 DEF CallRight, Ready
<1>5. Tracks'
  BY <1>1, <1>2 DEF Right, Tracks, Fresh
<1> QED BY <1>2, <1>3, <1>4, <1>5, RightQuiet

LEMMA ChildRight ==
  ASSUME NEW whole \in BOOLEAN, Right(whole), TypeOK, Alone, NEW p \in DOMAIN tree, IsDirPath(p),
         NEW n \in Names, NEW op, NEW obj, NEW dir, save_child_op(me, op, p, n, obj, dir),
         \A c : c.op = op /\ c.obj = obj /\ Old(c, p) = Append(p, n) => LookedUp(c, tree, p, p)
  PROVE  Right(whole)'
<1> DEFINE c == Args(op, Ino(p), n, Ino(p), n, obj, dir, "none", TRUE)
<1>1. Enter(me, Args(op, Ino(p), n, Ino(p), n, obj, dir, "none", Ino(p) \in tracked))
  BY DEF save_child_op
<1>2. tree[p].dir /\ pc[me] # "executed"
  BY <1>1 DEF Enter, IsDirPath
<1>3. (Ino(p) \in tracked) = TRUE
  BY <1>2, DirTracked
<1>4. Enter(me, c)
  BY <1>1, <1>3
<1>5. /\ c.op = op /\ c.par = Ino(p) /\ c.name = n /\ c.npar = Ino(p) /\ c.obj = obj
      /\ c.saved = TRUE /\ c.ok = TRUE
  BY DEF Args
<1> HIDE DEF c
<1>6. LookedUp(c, tree, p, p)
  BY <1>5 DEF Old
<1>7. Parents(c, tree, p, p)
  BY <1>2, <1>5 DEF Parents, Ino
<1>8. Ready(c)
  BY <1>5, <1>6, <1>7 DEF Ready
<1> QED BY <1>4, <1>8, EnterRight

(* An entry is in a directory.                                             *)
LEMMA EntryInDir ==
  ASSUME NEW t, NEW u, Sound(t, u), NEW p \in DOMAIN t, NEW n \in Names, Append(p, n) \in DOMAIN t
  PROVE  t[p].dir
<1>1. IsTree(t) /\ IsFileSystem(t) /\ p \in Seq(Elems) /\ n \in Elems
  BY TreePaths, NameIsElem DEF Sound
<1>2. IsPrefix(p, Append(p, n)) /\ p # Append(p, n)
  BY <1>1, PrefixAppend
<1> QED BY <1>1, <1>2, Above

LEMMA EntryRight ==
  ASSUME NEW whole \in BOOLEAN, Right(whole), TypeOK, Alone,
         EnterMkdir(me) \/ EnterRmdir(me) \/ EnterUnlink(me) \/ EnterRename(me)
  PROVE  Right(whole)'
<1>0. Sound(tree, used)
  BY DEF Right
<1>1. CASE EnterMkdir(me)
  <2>1. PICK p \in DOMAIN tree, n \in Names :
          /\ IsDirPath(p) /\ Append(p, n) \notin DOMAIN tree
          /\ save_child_op(me, "mkdir", p, n, NoIno, TRUE)
    BY <1>1 DEF EnterMkdir
  <2>2. \A c : c.op = "mkdir" /\ c.obj = NoIno /\ Old(c, p) = Append(p, n) => LookedUp(c, tree, p, p)
    BY <2>1 DEF LookedUp
  <2> QED BY <2>1, <2>2, ChildRight
<1>2. CASE EnterRmdir(me)
  <2>1. PICK p \in DOMAIN tree, n \in Names :
          /\ IsDirPath(Append(p, n)) /\ InTree(Append(p, n))
          /\ save_child_op(me, "rmdir", p, n, Ino(Append(p, n)), TRUE)
    BY <1>2 DEF EnterRmdir
  <2>2. \A c : c.op = "rmdir" /\ c.obj = Ino(Append(p, n)) /\ Old(c, p) = Append(p, n)
               => LookedUp(c, tree, p, p)
    BY <2>1 DEF LookedUp, IsDirPath, Ino
  <2>3. IsDirPath(p)
    BY <1>0, <2>1, EntryInDir DEF IsDirPath
  <2> QED BY <2>1, <2>2, <2>3, ChildRight
<1>3. CASE EnterUnlink(me)
  <2>1. PICK p \in DOMAIN tree, n \in Names :
          /\ Append(p, n) \in DOMAIN tree /\ ~IsDirPath(Append(p, n))
          /\ save_child_op(me, "unlink", p, n, Ino(Append(p, n)), FALSE)
    BY <1>3 DEF EnterUnlink
  <2>2. \A c : c.op = "unlink" /\ c.obj = Ino(Append(p, n)) /\ Old(c, p) = Append(p, n)
               => LookedUp(c, tree, p, p)
    BY <2>1 DEF LookedUp, IsDirPath, Ino
  <2>3. IsDirPath(p)
    BY <1>0, <2>1, EntryInDir DEF IsDirPath
  <2> QED BY <2>1, <2>2, <2>3, ChildRight
<1>4. CASE EnterRename(me)
  <2>1. PICK p \in DOMAIN tree, q \in DOMAIN tree, n \in Names, m \in Names, flags \in RenameFlags :
          /\ Append(p, n) \in DOMAIN tree /\ IsDirPath(q)
          /\ ~IsPrefix(Append(p, n), Append(q, m)) /\ ~IsPrefix(Append(q, m), Append(p, n))
          /\ IF Append(q, m) \in DOMAIN tree
             THEN \/ flags = "none" /\ tree[Append(q, m)].dir = tree[Append(p, n)].dir
                  \/ flags = "exchange"
             ELSE flags # "exchange"
          /\ Enter(me, Args("rename", Ino(p), n, Ino(q), m, Ino(Append(p, n)), tree[Append(p, n)].dir,
                            flags, Ino(p) \in tracked \/ Ino(q) \in tracked))
    BY <1>4 DEF EnterRename
  <2> DEFINE c == Args("rename", Ino(p), n, Ino(q), m, Ino(Append(p, n)), tree[Append(p, n)].dir,
                       flags, TRUE)
  <2>2. tree[p].dir /\ tree[q].dir
    BY <1>0, <2>1, EntryInDir DEF IsDirPath
  <2>3. (Ino(p) \in tracked \/ Ino(q) \in tracked) = TRUE
    BY <2>1, <2>2, DirTracked DEF Enter
  <2>4. Enter(me, c)
    BY <2>1, <2>3
  <2>5. /\ c.op = "rename" /\ c.par = Ino(p) /\ c.name = n /\ c.npar = Ino(q) /\ c.nname = m
        /\ c.obj = Ino(Append(p, n)) /\ c.dir = tree[Append(p, n)].dir
        /\ c.flags = flags /\ c.saved = TRUE /\ c.ok = TRUE
    BY DEF Args
  <2> HIDE DEF c
  <2>9. flags \in {"none", "noreplace", "exchange"}
    BY TreeAssumption DEF FlagNames
  <2>6. Parents(c, tree, p, q)
    BY <2>2, <2>5 DEF Parents, Ino
  <2>7. LookedUp(c, tree, p, q)
    BY <2>1, <2>5, <2>9 DEF LookedUp, Old, New, Ino
  <2>8. Ready(c)
    BY <2>5, <2>6, <2>7 DEF Ready
  <2> QED BY <2>4, <2>8, EnterRight
<1> QED BY <1>1, <1>2, <1>3, <1>4

-----------------------------------------------------------------------------
(* The kernel performs the call.                                           *)

LEMMA EffectNew ==
  ASSUME NEW t, NEW u, Sound(t, u), NEW e \in Event, NEW t2, NEW u2, Effect(e, t, u, t2, u2)
  PROVE  \A i \in DirsOf(t2) : i \in DirsOf(t) \/ (e.op = "mkdir" /\ i = e.obj)
<1>1. PICK p \in DOMAIN t, q \in DOMAIN t :
        Makes(e, t, u, t2, u2, p) \/ Removes(e, t, u, t2, u2, p) \/ Moves(e, t, u, t2, u2, p, q)
  BY DEF Effect
<1>2. DirsOf(t2) \cap u \subseteq DirsOf(t)
  BY EffectDirs
<1>3. CASE Makes(e, t, u, t2, u2, p)
  <2>1. /\ DOMAIN t2 = DOMAIN t \cup {Old(e, p)} /\ \A r \in DOMAIN t : t2[r] = t[r]
        /\ t2[Old(e, p)].ino = e.obj
    BY <1>3 DEF Makes, Set
  <2>2. t2[Old(e, p)].dir <=> e.op = "mkdir"
    BY <1>3, MadeDir DEF Makes, Set
  <2> QED BY <2>1, <2>2 DEF DirsOf
<1>4. CASE u2 = u
  <2>1. Sound(t2, u2)
    BY EffectSound
  <2>2. DirsOf(t2) \subseteq u
    BY <1>4, <2>1 DEF Sound, DirsOf
  <2> QED BY <1>2, <2>2
<1> QED BY <1>1, <1>3, <1>4 DEF Removes, Moves

LEMMA EventTyped ==
  ASSUME TypeOK', Alone, HasEvent' PROVE EventOf(call'[me]) \in Event
<1>1. call'[me] \in Call /\ call'[me].obj \in Inodes
  BY AloneMe DEF TypeOK, HookTypeOK, HasEvent, Busy, InCall
<1> QED BY <1>1 DEF Call, Event, EventOf

(* An inode has one path if it is a directory.                             *)
LEMMA OnePath ==
  ASSUME Sound(tree, used), NEW i, NEW p \in DOMAIN tree, tree[p].dir, tree[p].ino = i, NEW r \in At(i)
  PROVE  r = p
BY DEF Sound, IsFileSystem, At

(* The call has had its effect and will be heard of.                       *)
LEMMA EffectRight ==
  ASSUME NEW whole \in BOOLEAN, Right(whole), TypeOK, TypeOK', Alone, ~HasEvent,
         pc[me] # "executed", CapturerIdle, ring' = ring, tracked' = tracked,
         HasEvent', NEW e, e = EventOf(call'[me]), Effect(e, tree, used, tree', used'),
         call'[me].op # "create" => call'[me].saved,
         call'[me].op = "rmdir" => call'[me].obj \notin DirsOf(tree'),
         call'[me].op = "mkdir" => pc'[me] = "executed"
  PROVE  Right(whole)'
<1>1. e \in Event
  BY EventTyped
<1>2. Sound(tree, used)
  BY DEF Right
<1>3. e.op = call'[me].op /\ e.par = call'[me].par /\ e.npar = call'[me].npar /\ e.obj = call'[me].obj
  BY DEF EventOf
<1>4. e.par \in DirsOf(tree') /\ (e.op \in {"rename", "mkdir", "create"} => e.npar \in DirsOf(tree'))
  BY <1>1, <1>2, EffectDirs
<1>5. CallRight'
  BY <1>3, <1>4 DEF CallRight, Executing, HasEvent
<1>6. Tracks'
  <2>1. \A i \in DirsOf(tree') : i \in DirsOf(tree) \/ (e.op = "mkdir" /\ i = e.obj)
    BY <1>1, <1>2, EffectNew
  <2>2. \A i \in DirsOf(tree) : i \in tracked
    BY DEF Right, Tracks, Fresh
  <2> QED BY <1>3, <2>1, <2>2 DEF Tracks, Fresh
<1> QED BY <1>1, <1>5, <1>6, RightEffect

(* The call has failed, and its hook will say nothing.                     *)
LEMMA FailureRight ==
  ASSUME NEW whole \in BOOLEAN, Right(whole), Alone, pc[me] = "entered", pc'[me] = "executed",
         tree' = tree, used' = used, tracked' = tracked, ring' = ring, CapturerIdle,
         call'[me].op \in {"rmdir", "rename"}, call'[me].saved, ~call'[me].ok,
         call'[me].par \in DirsOf(tree), call'[me].npar \in DirsOf(tree)
  PROVE  Right(whole)'
<1>1. Coming' = Coming
  BY DEF Coming, HasEvent
<1>2. CallRight'
  BY DEF CallRight, Executing
<1>3. Tracks'
  BY DEF Right, Tracks, Fresh
<1> QED BY <1>1, <1>2, <1>3, RightQuiet

LEMMA ExecutedFields ==
  ASSUME TypeOK, Alone, NEW at \in {"executed", "marked"}, NEW obj, NEW ok, NEW pins,
         pc[me] = "entered", Executed(me, at, obj, ok, pins), NEW c, c = call[me]
  PROVE  /\ pc'[me] = at /\ call'[me].op = c.op /\ call'[me].saved = c.saved
         /\ call'[me].par = c.par /\ call'[me].name = c.name
         /\ call'[me].npar = c.npar /\ call'[me].nname = c.nname
         /\ call'[me].obj = obj /\ call'[me].dir = c.dir /\ call'[me].ok = ok
         /\ tracked' = tracked /\ ring' = ring /\ CapturerIdle /\ ~HasEvent
<1>1. call \in [Threads -> Call] /\ me \in Threads /\ pc \in [Threads -> {"idle", "entered", "executed", "marked"}]
  BY AloneMe DEF TypeOK, HookTypeOK
<1>2. c \in Call
  BY <1>1
<1> DEFINE d == [call[me] EXCEPT !.obj = obj, !.ok = ok, !.pins = pins, !.at = clock + 1]
<1>3. call' = [call EXCEPT ![me] = d]
  BY DEF Executed
<1>4. /\ d.op = c.op /\ d.saved = c.saved /\ d.par = c.par /\ d.name = c.name
      /\ d.npar = c.npar /\ d.nname = c.nname /\ d.obj = obj /\ d.dir = c.dir /\ d.ok = ok
  BY <1>2 DEF Call
<1> HIDE DEF d
<1>5. call'[me] = d
  BY <1>1, <1>3
<1>6. pc'[me] = at
  BY <1>1 DEF Executed
<1>7. tracked' = tracked /\ ring' = ring /\ CapturerIdle
  BY DEF Executed, user, sink, CapturerIdle
<1>8. ~HasEvent
  BY DEF HasEvent
<1> QED BY <1>4, <1>5, <1>6, <1>7, <1>8

(* What a call that executes finds.                                        *)
LEMMA Finds ==
  ASSUME NEW whole \in BOOLEAN, Right(whole), Alone, pc[me] = "entered"
  PROVE  /\ call[me].saved /\ call[me].ok
         /\ \E p, q \in DOMAIN tree : Parents(call[me], tree, p, q) /\ LookedUp(call[me], tree, p, q)
         /\ \A p \in DOMAIN tree, q \in DOMAIN tree : Parents(call[me], tree, p, q) =>
              /\ \A r \in At(call[me].par) : r = p
              /\ \A r \in At(call[me].npar) : r = q
BY OnePath DEF Right, CallRight, Ready, Parents

LEMMA VfsMkdirRight ==
  ASSUME NEW whole \in BOOLEAN, Right(whole), TypeOK, TypeOK', Alone, VfsMkdir(me)
  PROVE  Right(whole)'
<1>1. pc[me] = "entered" /\ call[me].op = "mkdir"
  BY DEF VfsMkdir, InCall
<1>2. PICK p \in DOMAIN tree, q \in DOMAIN tree :
        Parents(call[me], tree, p, q) /\ LookedUp(call[me], tree, p, q)
  BY <1>1, Finds
<1>3. PICK i \in FreeInodes :
        /\ tree' = Set(tree, Append(p, call[me].name), [ino |-> i, dir |-> TRUE])
        /\ used' = used \cup {i}
        /\ Executed(me, "executed", i, TRUE, {})
  BY <1>1, <1>2, Finds DEF VfsMkdir
<1>4. i \in Inodes \ used
  BY DEF FreeInodes, Alone
<1>5. /\ pc'[me] = "executed" /\ call'[me].op = "mkdir" /\ call'[me].saved = call[me].saved
      /\ call'[me].par = call[me].par /\ call'[me].name = call[me].name
      /\ call'[me].npar = call[me].npar /\ call'[me].obj = i /\ call'[me].ok = TRUE
      /\ tracked' = tracked /\ ring' = ring /\ CapturerIdle /\ ~HasEvent
  BY <1>1, <1>3, ExecutedFields
<1> DEFINE e == EventOf(call'[me])
<1>6. /\ e.op = "mkdir" /\ e.par = call[me].par /\ e.npar = call[me].npar /\ e.name = call[me].name
      /\ e.obj = i
  BY <1>5 DEF EventOf
<1> HIDE DEF e
<1>7. HasEvent'
  BY <1>5 DEF HasEvent
<1>8. Parents(e, tree, p, q)
  BY <1>2, <1>6 DEF Parents
<1>9. Makes(e, tree, used, tree', used', p)
  <2>1. Old(e, p) = Append(p, call[me].name) /\ Old(e, p) \notin DOMAIN tree
    BY <1>1, <1>2, <1>6 DEF Old, LookedUp
  <2>2. (e.op = "mkdir") = TRUE
    BY <1>6
  <2> QED BY <1>3, <1>4, <1>6, <2>1, <2>2 DEF Makes
<1>10. Effect(e, tree, used, tree', used')
  BY <1>8, <1>9 DEF Effect
<1>11. call[me].saved
  BY <1>1, Finds
<1> QED BY <1>1, <1>5, <1>7, <1>10, <1>11, EffectRight DEF e

LEMMA VfsUnlinkRight ==
  ASSUME NEW whole \in BOOLEAN, Right(whole), TypeOK, TypeOK', Alone, VfsUnlink(me)
  PROVE  Right(whole)'
<1>1. pc[me] = "entered" /\ call[me].op = "unlink" /\ used' = used
  BY DEF VfsUnlink, InCall
<1>2. PICK p \in DOMAIN tree, q \in DOMAIN tree :
        Parents(call[me], tree, p, q) /\ LookedUp(call[me], tree, p, q)
  BY <1>1, Finds
<1>3. /\ tree' = Drop(tree, Append(p, call[me].name))
      /\ Executed(me, "marked", call[me].obj, TRUE, {call[me].obj})
  BY <1>1, <1>2, Finds DEF VfsUnlink
<1>5. /\ pc'[me] = "marked" /\ call'[me].op = "unlink" /\ call'[me].saved = call[me].saved
      /\ call'[me].par = call[me].par /\ call'[me].name = call[me].name
      /\ call'[me].npar = call[me].npar /\ call'[me].ok = TRUE
      /\ tracked' = tracked /\ ring' = ring /\ CapturerIdle /\ ~HasEvent
  BY <1>1, <1>3, ExecutedFields
<1> DEFINE e == EventOf(call'[me])
<1>6. e.op = "unlink" /\ e.par = call[me].par /\ e.npar = call[me].npar /\ e.name = call[me].name
  BY <1>5 DEF EventOf
<1> HIDE DEF e
<1>7. HasEvent'
  BY <1>5 DEF HasEvent
<1>8. Parents(e, tree, p, q)
  BY <1>2, <1>6 DEF Parents
<1>9. Removes(e, tree, used, tree', used', p)
  <2>1. Old(e, p) = Append(p, call[me].name) /\ Old(e, p) = Old(call[me], p)
    BY <1>6 DEF Old
  <2>2. Old(e, p) \in DOMAIN tree /\ ~tree[Old(e, p)].dir
    BY <1>1, <1>2, <2>1 DEF LookedUp
  <2>3. Empty(tree, Old(e, p))
    BY <2>2, FileEmpty DEF Right, Sound
  <2> QED BY <1>1, <1>3, <1>6, <2>1, <2>2, <2>3 DEF Removes
<1>10. Effect(e, tree, used, tree', used')
  BY <1>8, <1>9 DEF Effect
<1>11. call[me].saved
  BY <1>1, Finds
<1> QED BY <1>1, <1>5, <1>7, <1>10, <1>11, EffectRight DEF e

LEMMA VfsRmdirRight ==
  ASSUME NEW whole \in BOOLEAN, Right(whole), TypeOK, TypeOK', Alone, VfsRmdir(me)
  PROVE  Right(whole)'
<1>1. pc[me] = "entered" /\ call[me].op = "rmdir" /\ used' = used
  BY DEF VfsRmdir, InCall
<1>2. PICK p \in DOMAIN tree, q \in DOMAIN tree :
        Parents(call[me], tree, p, q) /\ LookedUp(call[me], tree, p, q)
  BY <1>1, Finds
<1> DEFINE old == Old(call[me], p)
<1>3. /\ tree' = IF Empty(tree, old) THEN Drop(tree, old) ELSE tree
      /\ Executed(me, "executed", call[me].obj, Empty(tree, old), {})
  BY <1>1, <1>2, Finds DEF VfsRmdir, Old
<1>4. old \in DOMAIN tree /\ tree[old].dir /\ tree[old].ino = call[me].obj
  BY <1>1, <1>2 DEF LookedUp
<1>5. /\ pc'[me] = "executed" /\ call'[me].op = "rmdir" /\ call'[me].saved = call[me].saved
      /\ call'[me].par = call[me].par /\ call'[me].name = call[me].name
      /\ call'[me].npar = call[me].npar /\ call'[me].obj = call[me].obj
      /\ call'[me].ok = Empty(tree, old)
      /\ tracked' = tracked /\ ring' = ring /\ CapturerIdle /\ ~HasEvent
  BY <1>1, <1>3, ExecutedFields
<1>6. call[me].saved
  BY <1>1, Finds
<1> DEFINE e == EventOf(call'[me])
<1>7. e.op = "rmdir" /\ e.par = call[me].par /\ e.npar = call[me].npar /\ e.name = call[me].name
  BY <1>5 DEF EventOf
<1> HIDE DEF e
<1>8. Parents(e, tree, p, q) /\ old = Old(e, p)
  BY <1>2, <1>7 DEF Parents, Old
<1> HIDE DEF old
<1>9. CASE Empty(tree, old)
  <2>1. HasEvent' /\ tree' = Drop(tree, old)
    BY <1>3, <1>5, <1>9 DEF HasEvent
  <2>2. Removes(e, tree, used, tree', used', p)
    BY <1>1, <1>4, <1>7, <1>8, <1>9, <2>1 DEF Removes
  <2>3. Effect(e, tree, used, tree', used')
    BY <1>8, <2>2 DEF Effect
  <2>4. call'[me].obj \notin DirsOf(tree')
    <3>1. \A r \in DOMAIN tree' : r # old /\ r \in DOMAIN tree /\ tree'[r] = tree[r]
      BY <2>1 DEF Drop
    <3>2. \A r \in DOMAIN tree : tree[old].ino = tree[r].ino => r = old
      BY <1>4 DEF Right, Sound, IsFileSystem
    <3> QED BY <1>4, <1>5, <3>1, <3>2 DEF DirsOf
  <2> QED BY <1>1, <1>5, <1>6, <2>1, <2>3, <2>4, EffectRight DEF e
<1>10. CASE ~Empty(tree, old)
  <2>1. tree' = tree /\ ~call'[me].ok
    BY <1>3, <1>5, <1>10
  <2>2. call'[me].par \in DirsOf(tree) /\ call'[me].npar \in DirsOf(tree)
    BY <1>2, <1>5 DEF Parents, DirsOf
  <2> QED BY <1>1, <1>5, <1>6, <2>1, <2>2, FailureRight
<1> QED BY <1>9, <1>10

(* After an exchange the table no longer follows the tree, but the batch   *)
(* will not be applied.                                                    *)
LEMMA VfsRenameRight ==
  ASSUME NEW whole \in BOOLEAN, Right(whole), TypeOK, TypeOK', Alone, VfsRename(me)
  PROVE  Right(whole)' \/ Doomed(whole)'
<1>1. /\ pc[me] = "entered" /\ call[me].op = "rename" /\ used' = used
      /\ pc' = [pc EXCEPT ![me] = "executed"]
      /\ tracked' = tracked /\ ring' = ring /\ CapturerIdle
  BY DEF VfsRename, InCall, CapturerIdle, user, sink
<1>2. PICK p \in DOMAIN tree, q \in DOMAIN tree :
        Parents(call[me], tree, p, q) /\ LookedUp(call[me], tree, p, q)
  BY <1>1, Finds
<1> DEFINE c   == call[me]
           old == Old(c, p)
           new == New(c, q)
           swap   == c.flags = "exchange"
           done   == swap \/ Empty(tree, new)
           target == IF new \in DOMAIN tree THEN {Ino(new)} ELSE {}
           mine   == [c EXCEPT !.ok = done, !.at = clock + 1, !.pins = target]
<1>3. /\ ~swap => tree' = IF Empty(tree, new) THEN MoveSubtree(tree, old, new) ELSE tree
      /\ call'[me] = mine
  <2>1. \A r \in At(c.par), s \in At(c.npar) : r = p /\ s = q
    BY <1>1, <1>2, Finds
  <2>2. me \in Threads
    BY AloneMe
  <2> QED BY <2>1, <2>2 DEF VfsRename, Old, New
<1>4. /\ call'[me].op = "rename" /\ call'[me].saved = c.saved /\ call'[me].par = c.par
      /\ call'[me].name = c.name /\ call'[me].npar = c.npar /\ call'[me].nname = c.nname
      /\ call'[me].obj = c.obj /\ call'[me].dir = c.dir /\ call'[me].flags = c.flags
      /\ call'[me].ok = done
  <2>1. c \in Call
    BY AloneMe, CallFields DEF TypeOK
  <2> HIDE DEF target, done
  <2>2. /\ mine.op = c.op /\ mine.saved = c.saved /\ mine.par = c.par
        /\ mine.name = c.name /\ mine.npar = c.npar /\ mine.nname = c.nname
        /\ mine.obj = c.obj /\ mine.dir = c.dir /\ mine.flags = c.flags /\ mine.ok = done
    BY <2>1 DEF Call
  <2> HIDE DEF mine, c
  <2> QED BY <1>1, <1>3, <2>2 DEF c
<1>5. pc'[me] = "executed" /\ ~HasEvent
  BY <1>1, AloneMe DEF TypeOK, HookTypeOK, HasEvent
<1>6. c.saved
  BY <1>1, Finds
<1> DEFINE e == EventOf(call'[me])
<1>7. /\ e.op = "rename" /\ e.par = c.par /\ e.npar = c.npar /\ e.name = c.name /\ e.nname = c.nname
      /\ e.obj = c.obj /\ e.dir = c.dir /\ e.flags = c.flags
  BY <1>4 DEF EventOf
<1> HIDE DEF e, mine
<1>8. Parents(e, tree, p, q) /\ old = Old(e, p) /\ new = New(e, q)
  BY <1>2, <1>7 DEF Parents, Old, New
<1>9. /\ old \in DOMAIN tree /\ tree[old].ino = c.obj /\ tree[old].dir = c.dir
      /\ ~IsPrefix(old, new) /\ ~IsPrefix(new, old)
      /\ \/ c.flags = "none" /\ (new \in DOMAIN tree => tree[new].dir = c.dir)
         \/ c.flags = "noreplace" /\ new \notin DOMAIN tree
         \/ swap
  BY <1>1, <1>2 DEF LookedUp
<1>10. c.par \in DirsOf(tree) /\ c.npar \in DirsOf(tree)
  BY <1>2 DEF Parents, DirsOf
<1> HIDE DEF old, new, c
<1>11. CASE ~swap /\ Empty(tree, new)
  <2>1. HasEvent' /\ tree' = MoveSubtree(tree, old, new)
    BY <1>3, <1>4, <1>5, <1>11 DEF HasEvent
  <2>2. Moves(e, tree, used, tree', used', p, q)
    BY <1>1, <1>7, <1>8, <1>9, <1>11, <2>1 DEF Moves
  <2>3. Effect(e, tree, used, tree', used')
    BY <1>8, <2>2 DEF Effect
  <2> QED BY <1>1, <1>4, <1>5, <1>6, <2>1, <2>3, EffectRight DEF e
<1>12. CASE ~swap /\ ~Empty(tree, new)
  <2>1. tree' = tree /\ ~call'[me].ok
    BY <1>3, <1>4, <1>12
  <2> QED BY <1>1, <1>4, <1>5, <1>6, <1>10, <2>1, FailureRight
<1>13. CASE swap
  <2>1. HasEvent'
    BY <1>4, <1>5, <1>13 DEF HasEvent
  <2>2. e \in Event
    BY <2>1, EventTyped DEF e
  <2>3. /\ ring \in Seq(Event) /\ Sound(tree, used) /\ ~batch_error
        /\ Ahead(whole, dirs, Replayed(backup, batch), ring, tree, used)
    BY <1>5, ComingTyped DEF Right, Coming
  <2>4. Swaps(e, tree)
    BY <1>7, <1>10, <1>13 DEF Swaps
  <2>5. PICK es, f, t, u : es = ring /\ f = e /\ t = tree /\ u = used
    OBVIOUS
  <2>6. Heard(Append(es, f))'
    <3>1. call'[me].saved /\ call'[me].op # "create" /\ Append(es, f) = Append(ring', EventOf(call'[me]))
      BY <1>1, <1>4, <1>6, <2>5 DEF e
    <3> QED BY <2>1, <3>1 DEF Heard
  <2>7. dirs' = dirs /\ batch' = batch /\ backup' = backup /\ batch_error' = batch_error
    BY <1>1 DEF CapturerIdle
  <2>8. es \in Seq(Event) /\ f \in Event /\ Sound(t, u) /\ Swaps(f, t)
    BY <2>2, <2>3, <2>4, <2>5
  <2>9. Ahead(whole, dirs', Replayed(backup', batch'), es, t, u)
    BY <2>3, <2>5, <2>7
  <2> QED BY <2>3, <2>6, <2>7, <2>8, <2>9 DEF Doomed
<1> QED BY <1>11, <1>12, <1>13

LEMMA VfsCreateRight ==
  ASSUME NEW whole \in BOOLEAN, Right(whole), TypeOK, TypeOK', Alone, VfsCreate(me)
  PROVE  Right(whole)'
<1>1. PICK p \in DOMAIN tree, n \in Names, i \in FreeInodes :
        /\ pc[me] = "idle" /\ IsDirPath(p) /\ Append(p, n) \notin DOMAIN tree
        /\ tree' = Set(tree, Append(p, n), [ino |-> i, dir |-> FALSE])
        /\ used' = used \cup {i}
        /\ pc' = [pc EXCEPT ![me] = "marked"]
        /\ call' = [call EXCEPT ![me] =
                      [Args("create", Ino(p), n, Ino(p), n, i, FALSE, "none", FALSE)
                         EXCEPT !.at = clock + 1, !.pins = {i, Ino(p)}]]
        /\ UNCHANGED <<tracked, ring, lost, user, sink>>
  BY DEF VfsCreate
<1>2. i \in Inodes \ used
  BY DEF FreeInodes, Alone
<1> DEFINE c == [Args("create", Ino(p), n, Ino(p), n, i, FALSE, "none", FALSE)
                   EXCEPT !.at = clock + 1, !.pins = {i, Ino(p)}]
<1>3. /\ c.op = "create" /\ c.par = Ino(p) /\ c.name = n /\ c.npar = Ino(p) /\ c.obj = i
      /\ c.ok = TRUE
  BY DEF Args
<1> HIDE DEF c
<1>4. pc'[me] = "marked" /\ call'[me] = c
  BY <1>1, AloneMe DEF TypeOK, HookTypeOK, c
<1>5. tracked' = tracked /\ ring' = ring /\ CapturerIdle /\ ~HasEvent /\ pc[me] # "executed"
  BY <1>1 DEF CapturerIdle, user, sink, HasEvent
<1> DEFINE e == EventOf(call'[me])
<1>6. e.op = "create" /\ e.par = Ino(p) /\ e.npar = Ino(p) /\ e.name = n /\ e.obj = i
  BY <1>3, <1>4 DEF EventOf
<1> HIDE DEF e
<1>7. HasEvent'
  BY <1>3, <1>4 DEF HasEvent
<1>8. Parents(e, tree, p, p)
  BY <1>1, <1>6 DEF Parents, Ino, IsDirPath
<1>9. Makes(e, tree, used, tree', used', p)
  <2>1. (e.op = "mkdir") = FALSE
    BY <1>6
  <2> QED BY <1>1, <1>2, <1>6, <2>1 DEF Makes, Old
<1>10. Effect(e, tree, used, tree', used')
  BY <1>8, <1>9 DEF Effect
<1> QED BY <1>3, <1>4, <1>5, <1>7, <1>10, EffectRight DEF e

-----------------------------------------------------------------------------
(* The hooks at the end of a call.                                         *)

LEMMA AddTracks ==
  ASSUME TypeOK, Alone, NEW i \in Inodes PROVE i \in Add(tracked, i) /\ tracked \subseteq Add(tracked, i)
<1>1. tracked \subseteq Inodes /\ IsFiniteSet(Inodes) /\ Cardinality(Inodes) <= TrackedMax
  BY DEF TypeOK, HookTypeOK, Alone
<1>2. CASE i \in tracked
  BY <1>2 DEF Add
<1>3. CASE i \notin tracked
  <2>1. Cardinality(tracked) <= Cardinality(Inodes) /\ Cardinality(tracked) # Cardinality(Inodes)
    BY <1>1, <1>3, FS_Subset
  <2>2. Cardinality(tracked) \in Nat /\ Cardinality(Inodes) \in Nat /\ TrackedMax \in Nat
    BY <1>1, FS_Subset, FS_CardinalityType, TreeAssumption
  <2>3. Cardinality(tracked) < TrackedMax
    BY <1>1, <2>1, <2>2
  <2> QED BY <2>3 DEF Add
<1> QED BY <1>2, <1>3

LEMMA MarkRight ==
  ASSUME NEW whole \in BOOLEAN, Right(whole), TypeOK, Alone,
         handle_vfs_mkdir_ret(me) \/ handle_vfs_rmdir_ret(me) \/ handle_vfs_rename_ret(me)
  PROVE  Right(whole)'
<1>1. pc[me] = "executed" /\ Marked(me)
  BY DEF handle_vfs_mkdir_ret, handle_vfs_rmdir_ret, handle_vfs_rename_ret, InCall
<1>2. /\ pc'[me] = "marked" /\ tree' = tree /\ used' = used /\ call' = call /\ ring' = ring
      /\ CapturerIdle
  BY <1>1, AloneMe DEF Marked, TypeOK, HookTypeOK, kernel, user, sink, CapturerIdle
<1>3. Coming' = Coming
  BY <1>1, <1>2 DEF Coming, HasEvent
<1>4. Executing(call[me])
  BY <1>1 DEF Right, CallRight
<1>5. CallRight'
  BY <1>2, <1>4 DEF CallRight, Executing
<1>6. \A i \in DirsOf(tree) : i \in tracked \/ (call[me].op = "mkdir" /\ i = call[me].obj)
  BY DEF Right, Tracks, Fresh
<1>7. call[me].obj \in Inodes
  BY <1>1, AloneMe DEF TypeOK, HookTypeOK, Busy, InCall
<1>8. \A i \in DirsOf(tree) : i \in tracked'
  <2>1. CASE handle_vfs_mkdir_ret(me)
    <3>1. tracked' = Add(tracked, call[me].obj)
      BY <1>4, <2>1 DEF handle_vfs_mkdir_ret, InCall, Executing
    <3> QED BY <1>6, <1>7, <3>1, AddTracks
  <2>2. CASE handle_vfs_rmdir_ret(me)
    <3>1. call[me].op = "rmdir" /\ tracked' \in {tracked, tracked \ {call[me].obj}}
          /\ (call[me].ok \/ tracked' = tracked)
      BY <2>2 DEF handle_vfs_rmdir_ret, InCall
    <3>2. call[me].ok => call[me].obj \notin DirsOf(tree)
      BY <1>4, <3>1 DEF Executing
    <3> QED BY <1>6, <3>1, <3>2
  <2>3. CASE handle_vfs_rename_ret(me)
    <3>1. call[me].op = "rename" /\ call[me].npar \in DirsOf(tree)
      BY <1>4, <2>3 DEF handle_vfs_rename_ret, InCall, Executing
    <3>2. call[me].npar \in tracked
      BY <1>6, <3>1
    <3>3. tracked' = tracked \/ tracked' = Add(tracked, call[me].obj)
      BY <2>3, <3>2 DEF handle_vfs_rename_ret
    <3> QED BY <1>6, <1>7, <3>1, <3>3, AddTracks
  <2> QED BY <2>1, <2>2, <2>3
<1>9. Tracks'
  BY <1>2, <1>8 DEF Tracks
<1> QED BY <1>2, <1>3, <1>5, <1>9, RightQuiet

(* A call that returns.                                                    *)
LEMMA ReturnFields ==
  ASSUME TypeOK, Alone, pc[me] = "marked", Return(me)
  PROVE  /\ pc'[me] = "idle" /\ tree' = tree /\ used' = used /\ tracked' = tracked /\ CapturerIdle
         /\ ~HasEvent'
<1>1. pc'[me] = "idle" /\ tree' = tree /\ used' = used /\ tracked' = tracked /\ CapturerIdle
  BY AloneMe DEF Return, TypeOK, HookTypeOK, kernel, user, sink, CapturerIdle
<1> QED BY <1>1 DEF HasEvent

LEMMA ReturnRight ==
  ASSUME NEW whole \in BOOLEAN, Right(whole), TypeOK, Alone, pc[me] = "marked", Return(me)
  PROVE  CallRight' /\ Tracks' /\ Coming' = ring'
<1>1. pc'[me] = "idle" /\ tree' = tree /\ tracked' = tracked /\ ~HasEvent'
  BY ReturnFields
<1>2. CallRight'
  BY <1>1 DEF CallRight
<1>3. Tracks'
  BY <1>1 DEF Right, Tracks, Fresh
<1> QED BY <1>1, <1>2, <1>3 DEF Coming

LEMMA EmitRight ==
  ASSUME NEW whole \in BOOLEAN, Right(whole), TypeOK, Alone, emit_pending_event(me), ~lost'
  PROVE  Right(whole)'
<1>1. pc[me] = "marked" /\ call[me].op # "create" /\ Return(me)
  BY DEF emit_pending_event
<1>2. call[me].saved
  BY <1>1 DEF Right, CallRight, Executing
<1>3. ring' = Coming
  BY <1>1, <1>2 DEF emit_pending_event, Coming, HasEvent
<1>4. CallRight' /\ Tracks' /\ Coming' = ring'
  BY <1>1, ReturnRight
<1>5. tree' = tree /\ used' = used /\ CapturerIdle
  BY <1>1, ReturnFields
<1> QED BY <1>3, <1>4, <1>5, RightQuiet

(* A create that finds the ring full is not heard of.                      *)
LEMMA CreateRight ==
  ASSUME NEW whole \in BOOLEAN, Right(whole), TypeOK, Alone, handle_do_filp_open(me),
         whole => ~RingFull
  PROVE  Right(whole)'
<1>1. pc[me] = "marked" /\ call[me].op = "create" /\ Return(me)
  BY DEF handle_do_filp_open, InCall
<1>2. call[me].par \in DirsOf(tree) /\ call[me].ok
  BY <1>1 DEF Right, CallRight, Executing
<1>3. call[me].par \in tracked
  BY <1>1, <1>2 DEF Right, Tracks, Fresh
<1>4. CallRight' /\ Tracks' /\ Coming' = ring'
  BY <1>1, ReturnRight
<1>5. tree' = tree /\ used' = used /\ CapturerIdle
  BY <1>1, ReturnFields
<1>6. Coming = Append(ring, EventOf(call[me]))
  BY <1>1, <1>2 DEF Coming, HasEvent
<1>7. CASE ~RingFull
  <2>1. ring' = Coming
    BY <1>3, <1>6, <1>7 DEF handle_do_filp_open
  <2> QED BY <1>4, <1>5, <2>1, RightQuiet
<1>8. CASE RingFull
  <2>1. ring' = ring /\ whole = FALSE
    BY <1>8 DEF handle_do_filp_open
  <2>2. EventOf(call[me]) \in Event /\ ring \in Seq(Event)
    BY <1>1, AloneMe, EventType DEF TypeOK, HookTypeOK
  <2>3. EventOf(call[me]).op = "create"
    BY <1>1 DEF EventOf
  <2>4. Ahead(FALSE, dirs, Replayed(backup, batch), Append(ring, EventOf(call[me])), tree, used)
    BY <1>6, <2>1 DEF Right
  <2>5. Ahead(FALSE, dirs, Replayed(backup, batch), ring, tree, used)
    BY <2>2, <2>3, <2>4, AheadDrops
  <2>6. dirs' = dirs /\ batch' = batch /\ backup' = backup /\ batch_error' = batch_error
    BY <1>5 DEF CapturerIdle
  <2>7. Ahead(whole, dirs, Replayed(backup, batch), Coming, tree, used)'
    BY <1>4, <1>5, <2>1, <2>5, <2>6
  <2> QED BY <1>4, <1>5, <2>6, <2>7 DEF Right
<1> QED BY <1>7, <1>8

-----------------------------------------------------------------------------
(* The capturer consumes an event, and sends a batch.                      *)

LEMMA HandleFollows ==
  ASSUME NEW e \in Event, e.par \in DOMAIN dirs, e.npar \in DOMAIN dirs,
         HandleLeaf(e) \/ HandleMkdir(e) \/ HandleRmdir(e) \/ HandleRename(e)
  PROVE  /\ dirs' = After(e, dirs) /\ batch' = Append(batch, Written(e, dirs))
         /\ batch_error' = batch_error
         /\ \A i : i \in tracked /\ (i \in DOMAIN dirs => i \in DOMAIN dirs') => i \in tracked'
<1>1. /\ resolve_event_path(e.par, e.name) = [path |-> From(e, dirs), ok |-> TRUE]
      /\ resolve_event_path(e.npar, e.nname) = [path |-> To(e, dirs), ok |-> TRUE]
  BY DEF resolve_event_path, From, To
<1>2. CASE HandleLeaf(e)
  BY <1>1, <1>2 DEF HandleLeaf, append_batch_record, After, Written
<1>3. CASE HandleMkdir(e)
  <2>1. e.obj # NoIno
    BY TreeAssumption DEF Event
  <2> QED BY <1>1, <1>3, <2>1 DEF HandleMkdir, append_batch_record, After, Written
<1>4. CASE HandleRmdir(e)
  <2>1. /\ e.op = "rmdir" /\ batch' = Append(batch, Written(e, dirs)) /\ batch_error' = batch_error
        /\ remove_dir_subtree(From(e, dirs))
    BY <1>1, <1>4 DEF HandleRmdir, append_batch_record, Written
  <2>2. DOMAIN dirs \ Below(From(e, dirs)) = {j \in DOMAIN dirs : ~IsPrefix(From(e, dirs), dirs[j])}
    BY DEF Below
  <2>3. dirs' = After(e, dirs)
    BY <2>1, <2>2 DEF remove_dir_subtree, After, Unlisted
  <2>4. tracked' = tracked \ Below(From(e, dirs)) /\ DOMAIN dirs' = DOMAIN dirs \ Below(From(e, dirs))
    BY <2>1 DEF remove_dir_subtree
  <2>5. Below(From(e, dirs)) \subseteq DOMAIN dirs
    BY DEF Below
  <2> QED BY <2>1, <2>3, <2>4, <2>5
<1>5. CASE HandleRename(e)
  <2>1. e.op = "rename" /\ RenameWithin(e, From(e, dirs), To(e, dirs))
    BY <1>1, <1>5 DEF HandleRename
  <2>2. batch' = Append(batch, Written(e, dirs)) /\ batch_error' = batch_error
    BY <2>1 DEF RenameWithin, append_batch_record, Written
  <2>3. dirs' = After(e, dirs) /\ tracked' = tracked
    BY <2>1 DEF RenameWithin, move_dir_subtree, After, Relisted
  <2> QED BY <2>2, <2>3
<1> QED BY <1>2, <1>3, <1>4, <1>5

LEMMA WrittenTyped ==
  ASSUME TypeOK, NEW e \in Event, e.par \in DOMAIN dirs, e.npar \in DOMAIN dirs
  PROVE  Written(e, dirs) \in Record
<1>1. e.name \in Elems /\ e.nname \in Elems /\ e.op \in OpNames
  BY NameIsElem DEF Event
<1>2. dirs[e.par] \in Paths /\ dirs[e.npar] \in Paths
  BY DEF TypeOK, CapturerTypeOK
<1>3. From(e, dirs) \in Paths /\ To(e, dirs) \in Paths
  BY <1>1, <1>2, AppendPath DEF From, To
<1>4. Written(e, dirs) = Rec(e.op, From(e, dirs), IF e.op = "rename" THEN To(e, dirs) ELSE <<>>,
                             IF e.op = "rename" THEN e.flags ELSE "none")
  BY DEF Written
<1>5. /\ (IF e.op = "rename" THEN To(e, dirs) ELSE <<>>) \in Paths
      /\ (IF e.op = "rename" THEN e.flags ELSE "none") \in FlagNames
  BY <1>3, NoPath DEF Event, FlagNames
<1> HIDE DEF From, To
<1> QED BY <1>1, <1>3, <1>4, <1>5, RecType

LEMMA FirstOfMore ==
  ASSUME NEW s \in Seq(Event), s # <<>>, NEW x \in Event
  PROVE  /\ Append(s, x) \in Seq(Event) /\ Append(s, x) # <<>>
         /\ Append(s, x)[1] = Head(s) /\ Tail(Append(s, x)) = Append(Tail(s), x)
<1>1. Len(s) \in Nat /\ Len(s) >= 1
  OBVIOUS
<1> DEFINE a == Tail(Append(s, x))
           b == Append(Tail(s), x)
<1>2. /\ a \in Seq(Event) /\ Len(a) = Len(s)
      /\ \A k \in 1..Len(s) : a[k] = IF k + 1 <= Len(s) THEN s[k + 1] ELSE x
  BY <1>1
<1>3. /\ b \in Seq(Event) /\ Len(b) = Len(s)
      /\ \A k \in 1..Len(s) : b[k] = IF k + 1 <= Len(s) THEN s[k + 1] ELSE x
  BY <1>1
<1> HIDE DEF a, b
<1>4. a = b
  BY <1>2, <1>3, SamePath
<1>5. Append(s, x) \in Seq(Event) /\ Append(s, x) # <<>> /\ Append(s, x)[1] = Head(s)
  BY <1>1
<1> QED BY <1>4, <1>5 DEF a, b

LEMMA HandleAhead ==
  ASSUME NEW whole \in BOOLEAN, TypeOK, handle_event, NEW es \in Seq(Event), es # <<>>,
         es[1] = Head(ring), NEW t, NEW u,
         Ahead(whole, dirs, Replayed(backup, batch), es, t, u)
  PROVE  /\ DirsOf(t) \cap DOMAIN dirs \subseteq DOMAIN dirs' /\ batch_error' = batch_error
         /\ \A i : i \in tracked /\ (i \in DOMAIN dirs => i \in DOMAIN dirs') => i \in tracked'
         /\ Ahead(whole, dirs', Replayed(backup', batch'), Tail(es), t, u)
<1>1. ring # <<>> /\ ring \in Seq(Event) /\ backup' = backup
  BY DEF handle_event, sink, TypeOK, HookTypeOK
<1> DEFINE e == Head(ring)
<1>2. /\ e \in Event /\ e = es[1]
      /\ HandleLeaf(e) \/ HandleMkdir(e) \/ HandleRmdir(e) \/ HandleRename(e)
  BY <1>1 DEF handle_event
<1> HIDE DEF e
<1>3. e.par \in DOMAIN dirs /\ e.npar \in DOMAIN dirs
  BY <1>2, AheadHead
<1>4. DirsOf(t) \cap DOMAIN dirs \subseteq DOMAIN After(e, dirs)
  BY <1>2, AheadHead
<1>5. Ahead(whole, After(e, dirs), ApplyStep(Replayed(backup, batch), Written(e, dirs)),
            Tail(es), t, u)
  BY <1>2, AheadHead
<1>6. /\ dirs' = After(e, dirs) /\ batch' = Append(batch, Written(e, dirs))
      /\ batch_error' = batch_error
      /\ \A i : i \in tracked /\ (i \in DOMAIN dirs => i \in DOMAIN dirs') => i \in tracked'
  BY <1>2, <1>3, HandleFollows
<1>7. Replayed(backup, Append(batch, Written(e, dirs)))
        = ApplyStep(Replayed(backup, batch), Written(e, dirs))
  <2>1. batch \in Seq(Record) /\ Written(e, dirs) \in Record
    BY <1>2, <1>3, WrittenTyped DEF TypeOK, CapturerTypeOK
  <2> QED BY <2>1, ReplayOneMore
<1>8. Ahead(whole, dirs', Replayed(backup', batch'), Tail(es), t, u)
  BY <1>1, <1>5, <1>6, <1>7
<1> QED BY <1>4, <1>6, <1>8

LEMMA HandleRight ==
  ASSUME NEW whole \in BOOLEAN, Right(whole), TypeOK, TypeOK', Alone, handle_event
  PROVE  Right(whole)'
<1>1. /\ ring # <<>> /\ ring' = Tail(ring) /\ ring \in Seq(Event)
      /\ tree' = tree /\ used' = used /\ pc' = pc /\ call' = call /\ backup' = backup
  BY DEF handle_event, kernel, threads, sink, TypeOK, HookTypeOK
<1> DEFINE e == Head(ring)
<1>3. Coming \in Seq(Event) /\ Coming # <<>> /\ Coming[1] = e /\ Tail(Coming) = Coming'
  <2>1. CASE HasEvent
    <3>1. HasEvent' /\ EventOf(call[me]) \in Event
      BY <1>1, <2>1, EventTyped DEF HasEvent
    <3> QED BY <1>1, <2>1, <3>1, FirstOfMore DEF Coming, e
  <2>2. CASE ~HasEvent
    <3>1. ~HasEvent' /\ ring[1] = Head(ring)
      BY <1>1, <2>2 DEF HasEvent
    <3> QED BY <1>1, <2>2, <3>1 DEF Coming, e
  <2> QED BY <2>1, <2>2
<1>4. Ahead(whole, dirs, Replayed(backup, batch), Coming, tree, used)
  BY DEF Right
<1> HIDE DEF e
<1>5. PICK es, t, u : es = Coming /\ t = tree /\ u = used
  OBVIOUS
<1>6. /\ DirsOf(tree) \cap DOMAIN dirs \subseteq DOMAIN dirs' /\ batch_error' = batch_error
      /\ \A i : i \in tracked /\ (i \in DOMAIN dirs => i \in DOMAIN dirs') => i \in tracked'
      /\ Ahead(whole, dirs', Replayed(backup', batch'), Tail(es), t, u)
  <2>1. es \in Seq(Event) /\ es # <<>> /\ es[1] = Head(ring)
        /\ Ahead(whole, dirs, Replayed(backup, batch), es, t, u)
    BY <1>3, <1>4, <1>5 DEF e
  <2>2. /\ DirsOf(t) \cap DOMAIN dirs \subseteq DOMAIN dirs' /\ batch_error' = batch_error
        /\ \A i : i \in tracked /\ (i \in DOMAIN dirs => i \in DOMAIN dirs') => i \in tracked'
        /\ Ahead(whole, dirs', Replayed(backup', batch'), Tail(es), t, u)
    BY <2>1, HandleAhead
  <2> QED BY <1>5, <2>2
<1>8. Ahead(whole, dirs', Replayed(backup', batch'), Coming', tree', used')
  BY <1>1, <1>3, <1>5, <1>6
<1>9. CallRight'
  BY <1>1 DEF Right, CallRight, Ready, Executing
<1>10. Tracks'
  BY <1>1, <1>6 DEF Right, Tracks, Fresh
<1> QED BY <1>1, <1>6, <1>8, <1>9, <1>10 DEF Right

(* A batch that is applied leaves what is to come as it is.                *)
LEMMA SendAhead ==
  ASSUME NEW whole \in BOOLEAN, capture_and_send, ~lost, ~batch_error, applied',
         NEW es \in Seq(Event), NEW t, NEW u,
         Ahead(whole, dirs, Replayed(backup, batch), es, t, u)
  PROVE  Ahead(whole, dirs, Replayed(backup', batch'), es, t, u)
<1> DEFINE out == Replayed(backup, batch)
<1>1. backup' = ApplyBatch(backup, batch).fs /\ applied' = ApplyBatch(backup, batch).ok /\ batch' = <<>>
  BY DEF capture_and_send
<1>2. ApplyBatch(backup, batch) = out
  BY <1>1 DEF ApplyBatch, Failed
<1> HIDE DEF out
<1>3. Replayed(backup', batch') = Done(out.fs)
  BY <1>1, <1>2, ReplayNothing
<1>4. CASE whole
  BY <1>3, <1>4, AheadFine DEF out
<1>5. CASE ~whole
  BY <1>3, <1>5 DEF Ahead
<1> QED BY <1>4, <1>5

LEMMA SendRight ==
  ASSUME NEW whole \in BOOLEAN, Right(whole), TypeOK, Alone, capture_and_send, ~lost, applied'
  PROVE  Right(whole)'
<1>1. /\ ring' = ring /\ tree' = tree /\ used' = used /\ pc' = pc /\ call' = call
      /\ dirs' = dirs /\ batch_error' = batch_error /\ tracked' = tracked
  BY DEF capture_and_send, kernel, threads
<1>3. Coming' = Coming
  BY <1>1 DEF Coming, HasEvent
<1>4. CallRight' /\ Tracks'
  BY <1>1 DEF Right, CallRight, Ready, Executing, Tracks, Fresh
<1>5. PICK es, t, u : es = Coming /\ t = tree /\ u = used
  OBVIOUS
<1>6. es \in Seq(Event) /\ ~batch_error /\ Ahead(whole, dirs, Replayed(backup, batch), es, t, u)
  BY <1>5, ComingTyped DEF Right
<1>7. Ahead(whole, dirs, Replayed(backup', batch'), es, t, u)
  BY <1>6, SendAhead
<1> QED BY <1>1, <1>3, <1>4, <1>5, <1>7 DEF Right

-----------------------------------------------------------------------------
(* A capture that has seen an exchange goes on until its batch is refused. *)

LEMMA HeardStays ==
  ASSUME TypeOK, Alone, Syscall(me), ~lost', NEW s \in Seq(Event), Heard(s)
  PROVE  Heard(s)'
<1>0. ring \in Seq(Event) /\ me \in Threads
  BY AloneMe DEF TypeOK, HookTypeOK
<1>1. CASE UNCHANGED <<ring, pc, call>>
  BY <1>1 DEF Heard, HasEvent
<1>2. CASE ring' = ring /\ ~HasEvent
  BY <1>2 DEF Heard
<1>3. CASE pc[me] = "marked" /\ ring' = Append(ring, EventOf(call[me]))
  <2>1. EventOf(call[me]) \in Event
    BY <1>0, <1>3, EventType DEF TypeOK
  <2>2. Len(ring') = Len(ring) + 1 /\ Len(ring) \in Nat /\ Len(s) \in Nat
        /\ \A n \in 1..Len(ring) : ring'[n] = ring[n]
    BY <1>0, <1>3, <2>1
  <2>3. CASE Len(s) <= Len(ring) /\ \A n \in 1..Len(s) : s[n] = ring[n]
    BY <2>2, <2>3 DEF Heard
  <2>4. CASE s = Append(ring, EventOf(call[me]))
    <3>1. Len(s) <= Len(ring') /\ \A n \in 1..Len(s) : s[n] = ring'[n]
      BY <1>3, <2>2, <2>4
    <3> QED BY <3>1 DEF Heard
  <2> QED BY <2>3, <2>4 DEF Heard
<1>4. CASE pc[me] = "executed" /\ Marked(me)
  <2>1. pc'[me] = "marked" /\ call' = call /\ ring' = ring
    BY <1>0, <1>4 DEF Marked, TypeOK, HookTypeOK
  <2>2. HasEvent => HasEvent'
    BY <2>1 DEF HasEvent
  <2> QED BY <2>1, <2>2 DEF Heard
<1>5. CASE ring' = ring /\ ~(HasEvent /\ call[me].saved /\ call[me].op # "create")
  BY <1>5 DEF Heard
<1>6. CASE EnterMkdir(me) \/ EnterRmdir(me) \/ EnterUnlink(me) \/ EnterRename(me)
  <2>1. ASSUME NEW c, Enter(me, c) PROVE ring' = ring /\ ~HasEvent
    BY <2>1 DEF Enter, HasEvent
  <2>2. CASE EnterMkdir(me)
    BY <1>2, <2>1, <2>2 DEF EnterMkdir, save_child_op
  <2>3. CASE EnterRmdir(me)
    BY <1>2, <2>1, <2>3 DEF EnterRmdir, save_child_op
  <2>4. CASE EnterUnlink(me)
    BY <1>2, <2>1, <2>4 DEF EnterUnlink, save_child_op
  <2>5. CASE EnterRename(me)
    BY <1>2, <2>1, <2>5 DEF EnterRename
  <2> QED BY <1>6, <2>2, <2>3, <2>4, <2>5
<1>7. CASE VfsMkdir(me) \/ VfsRmdir(me) \/ VfsUnlink(me) \/ VfsRename(me) \/ VfsCreate(me)
  <2>1. ring' = ring
    BY <1>7 DEF VfsMkdir, VfsRmdir, VfsUnlink, VfsRename, VfsCreate, Executed
  <2>2. ~HasEvent
    BY <1>7 DEF VfsMkdir, VfsRmdir, VfsUnlink, VfsRename, VfsCreate, InCall, HasEvent
  <2> QED BY <1>2, <2>1, <2>2
<1>8. CASE handle_vfs_mkdir_ret(me) \/ handle_vfs_rmdir_ret(me) \/ handle_vfs_rename_ret(me)
  <2>1. pc[me] = "executed" /\ Marked(me)
    BY <1>8 DEF handle_vfs_mkdir_ret, handle_vfs_rmdir_ret, handle_vfs_rename_ret, InCall
  <2> QED BY <1>4, <2>1
<1>9. CASE emit_pending_event(me)
  BY <1>3, <1>5, <1>9 DEF emit_pending_event, HasEvent
<1>10. CASE handle_do_filp_open(me)
  BY <1>3, <1>5, <1>10 DEF handle_do_filp_open, InCall
<1> QED BY <1>6, <1>7, <1>8, <1>9, <1>10 DEF Syscall

LEMMA SyscallKeeps ==
  ASSUME Alone, Syscall(me) PROVE applied' = applied /\ (lost => lost') /\ CapturerIdle
<1>1. CASE EnterMkdir(me) \/ EnterRmdir(me) \/ EnterUnlink(me) \/ EnterRename(me)
  <2>1. ASSUME NEW c, Enter(me, c) PROVE applied' = applied /\ lost' = lost /\ CapturerIdle
    BY <2>1 DEF Enter, sink, user, CapturerIdle
  <2>2. CASE EnterMkdir(me)
    BY <2>1, <2>2 DEF EnterMkdir, save_child_op
  <2>3. CASE EnterRmdir(me)
    BY <2>1, <2>3 DEF EnterRmdir, save_child_op
  <2>4. CASE EnterUnlink(me)
    BY <2>1, <2>4 DEF EnterUnlink, save_child_op
  <2>5. CASE EnterRename(me)
    BY <2>1, <2>5 DEF EnterRename
  <2> QED BY <1>1, <2>2, <2>3, <2>4, <2>5
<1>2. CASE VfsMkdir(me) \/ VfsRmdir(me) \/ VfsUnlink(me) \/ VfsRename(me) \/ VfsCreate(me)
  <2>1. ASSUME NEW at, NEW obj, NEW ok, NEW pins, Executed(me, at, obj, ok, pins)
        PROVE  applied' = applied /\ lost' = lost /\ CapturerIdle
    BY <2>1 DEF Executed, sink, user, CapturerIdle
  <2>2. CASE VfsMkdir(me)
    BY <2>1, <2>2 DEF VfsMkdir
  <2>3. CASE VfsRmdir(me)
    BY <2>1, <2>3 DEF VfsRmdir
  <2>4. CASE VfsUnlink(me)
    BY <2>1, <2>4 DEF VfsUnlink
  <2>5. CASE VfsRename(me)
    BY <2>5 DEF VfsRename, sink, user, CapturerIdle
  <2>6. CASE VfsCreate(me)
    BY <2>6 DEF VfsCreate, sink, user, CapturerIdle
  <2> QED BY <1>2, <2>2, <2>3, <2>4, <2>5, <2>6
<1>3. CASE handle_vfs_mkdir_ret(me) \/ handle_vfs_rmdir_ret(me) \/ handle_vfs_rename_ret(me)
  BY <1>3 DEF handle_vfs_mkdir_ret, handle_vfs_rmdir_ret, handle_vfs_rename_ret, Marked, sink, user,
              CapturerIdle
<1>4. CASE emit_pending_event(me) \/ handle_do_filp_open(me)
  BY <1>4 DEF emit_pending_event, handle_do_filp_open, Return, sink, user, CapturerIdle
<1> QED BY <1>1, <1>2, <1>3, <1>4 DEF Syscall

LEMMA HeardTail ==
  ASSUME TypeOK, TypeOK', Alone, handle_event, NEW s \in Seq(Event), s # <<>>, Heard(s)
  PROVE  s[1] = Head(ring) /\ Heard(Tail(s))'
<1>1. ring # <<>> /\ ring \in Seq(Event) /\ ring' = Tail(ring) /\ pc' = pc /\ call' = call
  BY DEF handle_event, threads, TypeOK, HookTypeOK
<1>2. CASE Len(s) <= Len(ring) /\ \A n \in 1..Len(s) : s[n] = ring[n]
  <2>1. /\ Len(s) \in Nat \ {0} /\ Len(ring) \in Nat \ {0} /\ Head(ring) = ring[1]
        /\ Len(Tail(s)) = Len(s) - 1 /\ Len(ring') = Len(ring) - 1
        /\ \A n \in 1..(Len(s) - 1) : Tail(s)[n] = s[n + 1]
        /\ \A n \in 1..(Len(ring) - 1) : ring'[n] = ring[n + 1]
    BY <1>1
  <2>2. s[1] = ring[1]
    BY <1>2, <2>1
  <2>3. ASSUME NEW n \in 1..(Len(s) - 1) PROVE Tail(s)[n] = ring'[n]
    <3>1. n \in 1..(Len(ring) - 1) /\ n + 1 \in 1..Len(s)
      BY <1>2, <2>1
    <3> QED BY <1>2, <2>1, <3>1
  <2>4. Len(Tail(s)) <= Len(ring') /\ \A n \in 1..Len(Tail(s)) : Tail(s)[n] = ring'[n]
    BY <1>2, <2>1, <2>3
  <2>5. Heard(Tail(s))'
    BY <2>4 DEF Heard
  <2> QED BY <2>1, <2>2, <2>5
<1>3. CASE /\ HasEvent /\ call[me].saved /\ call[me].op # "create"
           /\ s = Append(ring, EventOf(call[me]))
  <2>1. HasEvent' /\ EventOf(call[me]) \in Event
    BY <1>1, <1>3, EventTyped DEF HasEvent
  <2>2. s[1] = Head(ring) /\ Tail(s) = Append(ring', EventOf(call'[me]))
    BY <1>1, <1>3, <2>1, FirstOfMore
  <2> QED BY <1>1, <1>3, <2>1, <2>2 DEF Heard
<1> QED BY <1>2, <1>3 DEF Heard

LEMMA DoomedSyscall ==
  ASSUME NEW whole \in BOOLEAN, Alone, TypeOK, Doomed(whole), Syscall(me), ~lost'
  PROVE  Doomed(whole)'
<1>0. PICK es \in Seq(Event), e \in Event : \E t, u :
        /\ Sound(t, u) /\ Swaps(e, t) /\ Heard(Append(es, e))
        /\ Ahead(whole, dirs, Replayed(backup, batch), es, t, u)
  BY DEF Doomed
<1>1. PICK t, u :
        /\ Sound(t, u) /\ Swaps(e, t) /\ Heard(Append(es, e))
        /\ Ahead(whole, dirs, Replayed(backup, batch), es, t, u)
  BY <1>0
<1>2. Append(es, e) \in Seq(Event)
  OBVIOUS
<1>3. Heard(Append(es, e))'
  BY <1>1, <1>2, HeardStays
<1>4. dirs' = dirs /\ batch' = batch /\ batch_error' = batch_error /\ backup' = backup
  BY SyscallKeeps DEF CapturerIdle
<1>5. Ahead(whole, dirs', Replayed(backup', batch'), es, t, u) /\ ~batch_error'
  BY <1>1, <1>4 DEF Doomed
<1> QED BY <1>1, <1>3, <1>5 DEF Doomed

LEMMA DoomedHandle ==
  ASSUME NEW whole \in BOOLEAN, Alone, TypeOK, TypeOK', Doomed(whole), handle_event
  PROVE  Doomed(whole)' \/ WithExchange(batch')
<1>0. PICK es \in Seq(Event), e \in Event : \E t, u :
        /\ Sound(t, u) /\ Swaps(e, t) /\ Heard(Append(es, e))
        /\ Ahead(whole, dirs, Replayed(backup, batch), es, t, u)
  BY DEF Doomed
<1>1. PICK t, u :
        /\ Sound(t, u) /\ Swaps(e, t) /\ Heard(Append(es, e))
        /\ Ahead(whole, dirs, Replayed(backup, batch), es, t, u)
  BY <1>0
<1>2. Append(es, e) \in Seq(Event) /\ Append(es, e) # <<>>
  OBVIOUS
<1>3. Append(es, e)[1] = Head(ring) /\ Heard(Tail(Append(es, e)))'
  BY <1>1, <1>2, HeardTail
<1>4. CASE es # <<>>
  <2>1. Append(es, e)[1] = Head(es) /\ Tail(Append(es, e)) = Append(Tail(es), e)
    BY <1>4, FirstOfMore
  <2>2. Tail(es) \in Seq(Event) /\ es[1] = Head(es)
    BY <1>4
  <2>3. batch_error' = batch_error /\ Ahead(whole, dirs', Replayed(backup', batch'), Tail(es), t, u)
    BY <1>1, <1>3, <1>4, <2>1, <2>2, HandleAhead
  <2>4. PICK s : s = Tail(es)
    OBVIOUS
  <2>5. s \in Seq(Event) /\ Heard(Append(s, e))' /\ ~batch_error'
        /\ Ahead(whole, dirs', Replayed(backup', batch'), s, t, u)
    BY <1>3, <2>1, <2>2, <2>3, <2>4 DEF Doomed
  <2> QED BY <1>1, <2>5 DEF Doomed
<1>5. CASE es = <<>>
  <2>1. e = Head(ring)
    BY <1>3, <1>5
  <2>2. HandleLeaf(e) \/ HandleMkdir(e) \/ HandleRmdir(e) \/ HandleRename(e)
    BY <2>1 DEF handle_event
  <2>3. Agrees(dirs, t)
    BY <1>1, <1>5, AheadEnd
  <2>4. e.par \in DOMAIN dirs /\ e.npar \in DOMAIN dirs
    BY <1>1, <2>3 DEF Swaps, DirsOf, Agrees
  <2>5. batch' = Append(batch, Written(e, dirs))
    BY <2>2, <2>4, HandleFollows
  <2>6. Written(e, dirs).op = "rename" /\ Written(e, dirs).flags = "exchange"
    BY <1>1 DEF Swaps, Written, Rec
  <2>7. batch \in Seq(Record) /\ Written(e, dirs) \in Record
    BY <2>4, WrittenTyped DEF TypeOK, CapturerTypeOK
  <2>8. Len(batch') = Len(batch) + 1 /\ Len(batch) \in Nat /\ batch'[Len(batch) + 1] = Written(e, dirs)
    BY <2>5, <2>7
  <2> QED BY <2>6, <2>8 DEF WithExchange
<1> QED BY <1>4, <1>5

LEMMA DoomedSend ==
  ASSUME NEW whole \in BOOLEAN, Alone, TypeOK, Doomed(whole), capture_and_send, ~lost, applied'
  PROVE  Doomed(whole)'
<1>0. PICK es \in Seq(Event), e \in Event : \E t, u :
        /\ Sound(t, u) /\ Swaps(e, t) /\ Heard(Append(es, e))
        /\ Ahead(whole, dirs, Replayed(backup, batch), es, t, u)
  BY DEF Doomed
<1>1. PICK t, u :
        /\ Sound(t, u) /\ Swaps(e, t) /\ Heard(Append(es, e))
        /\ Ahead(whole, dirs, Replayed(backup, batch), es, t, u)
  BY <1>0
<1>2. ~batch_error /\ batch_error' = batch_error /\ UNCHANGED <<dirs, ring, pc, call>>
  BY DEF Doomed, capture_and_send, threads
<1>3. Ahead(whole, dirs', Replayed(backup', batch'), es, t, u)
  BY <1>1, <1>2, SendAhead
<1>4. Heard(Append(es, e))'
  BY <1>1, <1>2 DEF Heard, HasEvent
<1> QED BY <1>1, <1>2, <1>3, <1>4 DEF Doomed

(* A batch with an exchange keeps it, and is not applied.                  *)
LEMMA ExchangeStays ==
  ASSUME TypeOK, WithExchange(batch), handle_event PROVE WithExchange(batch')
<1>1. batch \in Seq(Record)
  BY DEF TypeOK, CapturerTypeOK
<1>2. batch' = batch \/ \E r : batch' = Append(batch, r)
  BY DEF handle_event, HandleLeaf, HandleMkdir, HandleRmdir, HandleRename, RenameWithin, RenameOut,
         RenameIn, append_batch_record
<1>3. PICK i \in 1..Len(batch) : batch[i].op = "rename" /\ batch[i].flags = "exchange"
  BY DEF WithExchange
<1>4. i \in 1..Len(batch') /\ batch'[i] = batch[i]
  BY <1>1, <1>2
<1> QED BY <1>3, <1>4 DEF WithExchange

LEMMA ExchangeSent ==
  ASSUME TypeOK, WithExchange(batch), capture_and_send, applied'
  PROVE  batch' = batch
<1>1. batch \in Seq(Record)
  BY DEF TypeOK, CapturerTypeOK
<1>2. ~ApplyBatch(backup, batch).ok
  BY <1>1, ExchangeRefused DEF ApplyBatch, Failed
<1> QED BY <1>2 DEF capture_and_send

-----------------------------------------------------------------------------
(* The invariant holds at the start and is kept.                           *)

LEMMA InitRight == ASSUME NEW whole \in BOOLEAN, Alone, Init PROVE CaptureInv(whole)
<1>1. /\ tree \in InitialTrees /\ used = {tree[p].ino : p \in DOMAIN tree}
      /\ tracked = {tree[p].ino : p \in {q \in DOMAIN tree : InTree(q) /\ tree[q].dir}}
      /\ dirs = [i \in tracked |-> PathOf(i)]
      /\ pc[me] = "idle" /\ ring = <<>> /\ batch = <<>> /\ ~batch_error /\ applied
      /\ backup = Visible(tree)
  BY AloneMe DEF Init
<1>2. Sound(tree, used)
  <2>1. IsTree(tree) /\ IsFileSystem(tree)
    BY <1>1, TreeAssumption
  <2>2. \A p \in DOMAIN tree : tree[p].ino \in used /\ tree[p].ino \in Inodes
    BY <1>1, <2>1, TreePaths
  <2>3. used \subseteq Inodes
    BY <1>1, <2>2
  <2> QED BY <2>1, <2>2, <2>3 DEF Sound
<1>3. \A q : InTree(q)
  BY DEF InTree, Alone
<1>4. tracked = DirsOf(tree) /\ tracked \subseteq used
  BY <1>1, <1>3 DEF DirsOf
<1>5. Agrees(dirs, tree)
  <2>1. ASSUME NEW p \in DOMAIN tree, tree[p].dir PROVE tree[p].ino \in DOMAIN dirs /\ dirs[tree[p].ino] = p
    <3>1. tree[p].ino \in tracked
      BY <1>4, <2>1 DEF DirsOf
    <3>2. At(tree[p].ino) = {p}
      BY <1>2, <2>1, OnePath DEF At
    <3>3. PathOf(tree[p].ino) = p
      BY <3>2 DEF PathOf
    <3> QED BY <1>1, <3>1, <3>3
  <2> QED BY <2>1 DEF Agrees
<1>6. Coming = <<>>
  BY <1>1 DEF Coming, HasEvent
<1>7. Replayed(backup, batch) = Done(Copy(tree))
  BY <1>1, AllVisible, ReplayNothing DEF Alone
<1>8. Ahead(whole, dirs, Replayed(backup, batch), Coming, tree, used)
  <2>1. DOMAIN dirs \subseteq used
    BY <1>1, <1>4
  <2> QED BY <1>5, <1>6, <1>7, <2>1, AheadNothing
<1>9. CallRight /\ Tracks
  BY <1>1, <1>4 DEF CallRight, Tracks
<1> QED BY <1>1, <1>2, <1>8, <1>9, InitTypeOK DEF CaptureInv, Right

(* A create hands its event to the ring.                                   *)
CreateHeard == \A t \in Threads : InCall(t, "create", "marked") /\ pc'[t] = "idle" => ~RingFull

LEMMA SyscallRight ==
  ASSUME NEW whole \in BOOLEAN, Alone, TypeOK, TypeOK', Right(whole), ~lost', Syscall(me),
         whole => CreateHeard
  PROVE  Right(whole)' \/ Doomed(whole)'
<1>1. CASE EnterMkdir(me) \/ EnterRmdir(me) \/ EnterUnlink(me) \/ EnterRename(me)
  BY <1>1, EntryRight
<1>2. CASE VfsMkdir(me)
  BY <1>2, VfsMkdirRight
<1>3. CASE VfsRmdir(me)
  BY <1>3, VfsRmdirRight
<1>4. CASE VfsUnlink(me)
  BY <1>4, VfsUnlinkRight
<1>5. CASE VfsRename(me)
  BY <1>5, VfsRenameRight
<1>6. CASE VfsCreate(me)
  BY <1>6, VfsCreateRight
<1>7. CASE handle_vfs_mkdir_ret(me) \/ handle_vfs_rmdir_ret(me) \/ handle_vfs_rename_ret(me)
  BY <1>7, MarkRight
<1>8. CASE emit_pending_event(me)
  BY <1>8, EmitRight
<1>9. CASE handle_do_filp_open(me)
  <2>1. InCall(me, "create", "marked") /\ pc[me] = "marked" /\ Return(me)
    BY <1>9 DEF handle_do_filp_open, InCall
  <2>2. pc'[me] = "idle"
    BY <2>1, ReturnFields
  <2>3. whole => ~RingFull
    BY <2>1, <2>2, AloneMe DEF CreateHeard
  <2> QED BY <1>9, <2>3, CreateRight
<1> QED BY <1>1, <1>2, <1>3, <1>4, <1>5, <1>6, <1>7, <1>8, <1>9 DEF Syscall

LEMMA CaptureStep ==
  ASSUME NEW whole \in BOOLEAN, Alone, CaptureInv(whole), [Next]_vars, whole => [CreateHeard]_vars
  PROVE  CaptureInv(whole)'
<1>1. TypeOK /\ TypeOK'
  BY TypeStep DEF CaptureInv
<1>2. CASE UNCHANGED vars
  BY <1>1, <1>2 DEF vars, CaptureInv, Right, Coming, HasEvent, CallRight, Ready, Executing,
                    Tracks, Fresh, Doomed, Heard
<1>3. CASE Syscall(me) /\ ~UNCHANGED vars
  <2>1. whole => CreateHeard
    BY <1>3
  <2>2. applied' = applied /\ (~lost' => ~lost) /\ batch' = batch
    BY <1>3, SyscallKeeps DEF CapturerIdle
  <2> SUFFICES ASSUME ~lost', applied' PROVE Right(whole)' \/ Doomed(whole)' \/ WithExchange(batch')
    BY <1>1 DEF CaptureInv
  <2>3. CASE Right(whole)
    BY <1>1, <1>3, <2>1, <2>3, SyscallRight
  <2>4. CASE Doomed(whole)
    BY <1>1, <1>3, <2>4, DoomedSyscall
  <2>5. CASE WithExchange(batch)
    BY <2>2, <2>5
  <2> QED BY <2>2, <2>3, <2>4, <2>5 DEF CaptureInv
<1>4. CASE handle_event
  <2>1. applied' = applied /\ lost' = lost
    BY <1>4 DEF handle_event, sink
  <2> SUFFICES ASSUME ~lost', applied' PROVE Right(whole)' \/ Doomed(whole)' \/ WithExchange(batch')
    BY <1>1 DEF CaptureInv
  <2>2. CASE Right(whole)
    BY <1>1, <1>4, <2>2, HandleRight
  <2>3. CASE Doomed(whole)
    BY <1>1, <1>4, <2>3, DoomedHandle
  <2>4. CASE WithExchange(batch)
    BY <1>1, <1>4, <2>4, ExchangeStays
  <2> QED BY <2>1, <2>2, <2>3, <2>4 DEF CaptureInv
<1>5. CASE capture_and_send
  <2>1. lost' = lost /\ applied
    BY <1>5 DEF capture_and_send
  <2> SUFFICES ASSUME ~lost', applied' PROVE Right(whole)' \/ Doomed(whole)' \/ WithExchange(batch')
    BY <1>1 DEF CaptureInv
  <2>2. CASE Right(whole)
    BY <1>1, <1>5, <2>1, <2>2, SendRight
  <2>3. CASE Doomed(whole)
    BY <1>1, <1>5, <2>1, <2>3, DoomedSend
  <2>4. CASE WithExchange(batch)
    BY <1>1, <1>5, <2>4, ExchangeSent
  <2> QED BY <2>1, <2>2, <2>3, <2>4 DEF CaptureInv
<1>6. \A t \in Threads : t = me
  BY AloneMe
<1> QED BY <1>2, <1>3, <1>4, <1>5, <1>6 DEF Next, Capturer

-----------------------------------------------------------------------------
(* What it says of the capture.                                            *)

(* An exchange that is to come is in the ring when no call is in flight.   *)
LEMMA DoomedSettled ==
  ASSUME NEW whole \in BOOLEAN, Alone, TypeOK, Doomed(whole), Settled PROVE WithExchange(ring)
<1>1. PICK es \in Seq(Event), e \in Event :
        e.op = "rename" /\ e.flags = "exchange" /\ Heard(Append(es, e))
  BY DEF Doomed, Swaps
<1>2. ~HasEvent
  BY AloneMe DEF Settled, HasEvent
<1>3. Len(Append(es, e)) = Len(es) + 1 /\ Append(es, e)[Len(es) + 1] = e /\ Len(es) \in Nat
  OBVIOUS
<1>4. Len(ring) \in Nat
  BY DEF TypeOK, HookTypeOK
<1>5. Len(es) + 1 \in 1..Len(ring) /\ ring[Len(es) + 1] = e
  BY <1>1, <1>2, <1>3, <1>4 DEF Heard
<1> QED BY <1>1, <1>5 DEF WithExchange

LEMMA SettledRight ==
  ASSUME NEW whole \in BOOLEAN, Alone, CaptureInv(whole), Healthy, Settled, ~ToBeRefused
  PROVE  Right(whole) /\ pc[me] # "executed" /\ Coming = ring
<1>1. pc[me] \in {"idle", "entered"}
  BY AloneMe DEF Settled
<1>2. ~Doomed(whole)
  BY DoomedSettled DEF CaptureInv, ToBeRefused
<1> QED BY <1>1, <1>2 DEF CaptureInv, Healthy, Coming, HasEvent, ToBeRefused

LEMMA TrackedNow == ASSUME NEW whole \in BOOLEAN, Alone, CaptureInv(whole) PROVE DirsTracked
<1> SUFFICES ASSUME Healthy, Settled, ~ToBeRefused, NEW p \in DOMAIN tree, tree[p].dir
             PROVE  Ino(p) \in tracked
  BY DEF DirsTracked
<1>1. Right(whole) /\ pc[me] # "executed"
  BY SettledRight
<1> QED BY <1>1, DirTracked

LEMMA AgreeNow == ASSUME NEW whole \in BOOLEAN, Alone, CaptureInv(whole) PROVE TablesAgree
<1> SUFFICES ASSUME Healthy, Settled, ring = <<>>, ~ToBeRefused
             PROVE  \A p \in DOMAIN tree :
                      InTree(p) /\ tree[p].dir => Ino(p) \in DOMAIN dirs /\ dirs[Ino(p)] = p
  BY DEF TablesAgree
<1>1. Ahead(whole, dirs, Replayed(backup, batch), <<>>, tree, used)
  BY SettledRight DEF Right
<1>2. Agrees(dirs, tree)
  BY <1>1, AheadEnd
<1> QED BY <1>2 DEF Agrees, Ino

LEMMA EqualNow == ASSUME Alone, CaptureInv(TRUE) PROVE FailClosed
<1> SUFFICES ASSUME Healthy, Settled, ring = <<>>, batch = <<>> PROVE backup = Visible(tree)
  BY DEF FailClosed
<1>0. ~ToBeRefused
  BY DEF ToBeRefused, WithExchange
<1>1. Ahead(TRUE, dirs, Replayed(backup, batch), <<>>, tree, used)
  BY <1>0, SettledRight DEF Right
<1>2. Replayed(backup, batch) = Done(Copy(tree))
  BY <1>1, AheadEnd
<1>3. Done(backup) = Done(Copy(tree))
  BY <1>2, ReplayNothing
<1>4. backup = Copy(tree)
  BY <1>3 DEF Done
<1> QED BY <1>4, AllVisible DEF Alone

(* A batch that the capturer sends for a table it followed is applied, if  *)
(* it is not too long.                                                     *)
LEMMA RefusedFor ==
  ASSUME Alone, CaptureInv(TRUE), [Next]_vars, ~applied', ~UNCHANGED vars
  PROVE  Len(batch) > MaxRecords \/ WithExchange(batch)
<1>1. Next /\ applied
  BY DEF Next
<1>2. capture_and_send
  <2>1. \A t \in Threads : t = me
    BY AloneMe
  <2>2. ~Syscall(me)
    BY <1>1, SyscallKeeps
  <2>3. ~handle_event
    BY <1>1 DEF handle_event, sink
  <2> QED BY <1>1, <2>1, <2>2, <2>3 DEF Next, Capturer
<1>3. ~lost /\ ~ApplyBatch(backup, batch).ok
  BY <1>1, <1>2 DEF capture_and_send
<1> SUFFICES ASSUME ~(Len(batch) > MaxRecords) PROVE WithExchange(batch)
  OBVIOUS
<1>4. ~Replayed(backup, batch).ok
  BY <1>3 DEF ApplyBatch
<1>5. \A out, f : out = Done(f) => out.ok
  BY DEF Done
<1>6. ~Right(TRUE)
  <2> SUFFICES ASSUME Right(TRUE) PROVE FALSE
    OBVIOUS
  <2>1. Coming \in Seq(Event) /\ Ahead(TRUE, dirs, Replayed(backup, batch), Coming, tree, used)
    BY ComingTyped DEF CaptureInv, Right
  <2> QED BY <1>4, <1>5, <2>1, AheadFine
<1>7. ~Doomed(TRUE)
  BY <1>4, <1>5, AheadFine DEF Doomed
<1> QED BY <1>1, <1>3, <1>6, <1>7 DEF CaptureInv

(* Every directory of the tree is in tracked_dirs when no call is in       *)
(* flight, unless a loss has been reported or the batch of an exchange is  *)
(* still to be refused: on any tree, with any ring and any names, however  *)
(* late the capturer reads the events.                                     *)
THEOREM Tracked == ASSUME Alone PROVE Spec => []DirsTracked
<1>1. Init => CaptureInv(FALSE)
  BY InitRight
<1>2. CaptureInv(FALSE) /\ [Next]_vars => CaptureInv(FALSE)'
  BY CaptureStep
<1>3. CaptureInv(FALSE) => DirsTracked
  BY TrackedNow
<1> QED BY <1>1, <1>2, <1>3, PTL DEF Spec

(* Once it has consumed all events, the capturer's table has the path of   *)
(* every directory, unless a loss has been reported or the batch of an     *)
(* exchange is still to be refused.                                        *)
THEOREM PathsKnown == ASSUME Alone PROVE Spec => []TablesAgree
<1>1. Init => CaptureInv(FALSE)
  BY InitRight
<1>2. CaptureInv(FALSE) /\ [Next]_vars => CaptureInv(FALSE)'
  BY CaptureStep
<1>3. CaptureInv(FALSE) => TablesAgree
  BY AgreeNow
<1> QED BY <1>1, <1>2, <1>3, PTL DEF Spec

(* If the ring has room for the events of creates, the only ones whose     *)
(* loss is not counted, then what has been harvested without an error is   *)
(* complete: the backup is equal to the primary.                           *)
THEOREM BackupEqual ==
  ASSUME Alone PROVE Spec /\ [][CreateHeard]_vars => []FailClosed
<1>1. Init => CaptureInv(TRUE)
  BY InitRight
<1>2. CaptureInv(TRUE) /\ [Next]_vars /\ [CreateHeard]_vars => CaptureInv(TRUE)'
  BY CaptureStep
<1>3. CaptureInv(TRUE) => FailClosed
  BY EqualNow
<1> QED BY <1>1, <1>2, <1>3, PTL DEF Spec

(* Nor does a batch fail on the backup, but for an exchange in it or for   *)
(* its length.                                                             *)
THEOREM BatchesApply ==
  ASSUME Alone PROVE Spec /\ [][CreateHeard]_vars => Replayable
<1>1. Init => CaptureInv(TRUE)
  BY InitRight
<1>2. CaptureInv(TRUE) /\ [Next]_vars /\ [CreateHeard]_vars => CaptureInv(TRUE)'
  BY CaptureStep
<1>3. CaptureInv(TRUE) /\ [Next]_vars
        => [~applied' => Len(batch) > MaxRecords \/ WithExchange(batch)]_vars
  BY RefusedFor
<1> QED BY <1>1, <1>2, <1>3, PTL DEF Spec, Replayable
=============================================================================
