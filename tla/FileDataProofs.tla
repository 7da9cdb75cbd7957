--------------------------- MODULE FileDataProofs ---------------------------
(***************************************************************************)
(* What holds of FileData for any number of threads, files and names, any  *)
(* sizes and limits, and whatever calls the application makes: its types,  *)
(* and that the capturer knows mapped files by their present names.        *)
(***************************************************************************)
EXTENDS FileData, FiniteSetTheorems, TLAPS

-----------------------------------------------------------------------------
(* The invariant behind TypeOK.                                            *)

Cells == 0..ops \cup {Zero}

Ops    == {"write", "truncate", "zero", "unlink", "rename", "mmap", "writeback"}
Events == [op : Ops, ino : Inodes, name : Names \cup {NoIno}, nname : Names \cup {NoIno},
           off : Int, size : Int, data : Seq(Nat), keep : BOOLEAN, truncated : BOOLEAN,
           flags : {"none", "noreplace", "exchange"}]

(* Kinds of calls whose hook tells of them in one event.                   *)
Single == {"truncate", "alloc", "zero", "zero_keep", "punch", "unlink"} \cup Renames

(* An event that makes the capturer remember the name in it.               *)
Naming(e) == e.op \in {"write", "zero", "mmap"}

SetupTypes == setup \in Setups /\ ops \in 0..setup.ops
NameTypes  == dir \in [Names -> Inodes \cup {NoIno}] /\ dentry \in [Inodes -> Names]
DataTypes  == /\ data \in [Inodes -> Seq(Cells)]
              /\ \A i \in Inodes : Len(data[i]) <= setup.cells
              /\ dirty \subseteq Inodes \X (1..setup.cells)
MapTypes   == mmap_files = mapped /\ mapped \subseteq Inodes
CallTypes  == calls \in [Threads -> Records \cup {NoCall}]

(* A call stays within the file sizes of the instance, carries the number  *)
(* of an operation that was started, and sends no more than was written.   *)
Within(c, started, cells) ==
  /\ c.id <= started
  /\ c.at = "entered" /\ c.kind # "append" => c.off + c.len <= cells
  /\ c.at = "entered" => c.sent = 0
  /\ c.at = "sized" => c.kind = "alloc"
  /\ c.kind \in {"write", "append"} => c.sent <= c.ret
CallBounds == \A t \in Threads : ~Idle(t) => Within(calls[t], ops, setup.cells)

RingTypes == /\ ring \in Seq(Events) /\ Len(ring) <= setup.ring /\ lost \in BOOLEAN
             /\ \A n \in 1..Len(ring) : Naming(ring[n]) => ring[n].name \in Names
UserTypes == /\ DOMAIN files \subseteq Inodes /\ \A i \in DOMAIN files : files[i] \in Names
             /\ batch_error \in BOOLEAN
             /\ daemon \in {"idle", "draining", "flushed", "failed", "broken"}

Types == /\ SetupTypes /\ NameTypes /\ DataTypes /\ MapTypes
         /\ CallTypes /\ CallBounds /\ RingTypes /\ UserTypes

(* The invariant gives the types a run checks.                             *)
LEMMA TypesSuffice == Types => TypeOK
<1> SUFFICES ASSUME Types PROVE TypeOK
  OBVIOUS
<1> USE DEF Types
<1>1. setup \in Setups /\ ops \in 0..setup.ops
  BY DEF SetupTypes
<1>2. dir \in [Names -> Inodes \cup {NoIno}] /\ dentry \in [Inodes -> Names]
  BY DEF NameTypes
<1>3. \A i \in Inodes : data[i] \in Seq(0..ops \cup {Zero}) /\ Len(data[i]) <= setup.cells
  BY DEF DataTypes, Cells
<1>4. mmap_files = mapped /\ mapped \subseteq Inodes /\ dirty \subseteq Inodes \X (1..setup.cells)
  BY DEF MapTypes, DataTypes
<1>5. \A t \in Threads : ~Idle(t) => calls[t].at \in {"entered", "done", "sized"}
  BY DEF CallTypes, Idle, Records
<1> QED BY <1>1, <1>2, <1>3, <1>4, <1>5 DEF TypeOK, RingTypes, UserTypes

-----------------------------------------------------------------------------
(* The sizes and switches of an instance.                                  *)
LEMMA SetupTyped ==
  ASSUME SetupTypes
  PROVE  /\ setup.cells \in Nat /\ setup.len \in Nat /\ setup.ring \in Nat /\ setup.ops \in Nat
         /\ ops \in Nat /\ setup.cells >= 1
BY FileAssumption DEF SetupTypes, Setup

(* Calls and events are built with the types they should have.             *)
LEMMA CallTyped ==
  ASSUME NEW k \in DataKinds \cup NameKinds, NEW i \in Inodes, NEW n \in Names, NEW m \in Names,
         NEW off \in Nat, NEW len \in Nat, NEW seg \in Nat, ops \in Nat
  PROVE  /\ Call(k, i, n, m, off, len, seg) \in Records
         /\ [Call(k, i, n, m, off, len, seg) EXCEPT !.at = "done"] \in Records
BY DEF Call, Records

LEMMA EventTyped ==
  ASSUME NEW op \in Ops, NEW c \in Records
  PROVE  /\ Event(op, c) \in Events
         /\ Event(op, c).op = op /\ Event(op, c).name = c.name /\ Event(op, c).ino = c.ino
BY DEF Event, Events, Records

LEMMA RepeatTyped ==
  ASSUME NEW v, NEW n \in Nat, NEW S, v \in S
  PROVE  Repeat(v, n) \in Seq(S) /\ Len(Repeat(v, n)) = n /\ \A k \in 1..n : Repeat(v, n)[k] = v
BY DEF Repeat

LEMMA ChunkTyped ==
  ASSUME NEW c \in Records, NEW off \in Int, NEW n \in Nat, NEW cut \in BOOLEAN
  PROVE  /\ Chunk(c, off, n, cut) \in Events
         /\ Chunk(c, off, n, cut).op = "write" /\ Chunk(c, off, n, cut).name = c.name
         /\ Chunk(c, off, n, cut).ino = c.ino
<1> DEFINE e == Event("write", c)
           d == Repeat(c.id, n)
<1>1. d \in Seq(Nat)
  BY RepeatTyped DEF Records
<1>2. e \in Events /\ e.op = "write" /\ e.name = c.name /\ e.ino = c.ino
  BY EventTyped DEF Ops
<1> HIDE DEF e, d
<1> DEFINE f == [e EXCEPT !.off = off, !.size = n]
<1>3. Chunk(c, off, n, cut) = [f EXCEPT !.data = d, !.truncated = cut]
  BY DEF e, d, Chunk
<1>4. f \in Events /\ f.op = "write" /\ f.name = c.name /\ f.ino = c.ino
  <2> DEFINE g == [e EXCEPT !.off = off]
  <2>1. g \in Events /\ g.op = "write" /\ g.name = c.name /\ g.ino = c.ino
    BY <1>2 DEF Events
  <2> HIDE DEF g
  <2>2. f = [g EXCEPT !.size = n] /\ n \in Int
    BY DEF g
  <2> QED BY <2>1, <2>2 DEF Events
<1> HIDE DEF f
<1> QED BY <1>1, <1>3, <1>4 DEF Events

LEMMA EventOfTyped ==
  ASSUME NEW c \in Records, c.kind \in Single
  PROVE  /\ EventOf(c) \in Events /\ EventOf(c).name = c.name /\ EventOf(c).ino = c.ino
         /\ Naming(EventOf(c)) => c.kind \in {"zero", "zero_keep", "punch"}
<1>1. CASE c.kind \in {"truncate", "alloc"}
  <2> DEFINE e == Event("truncate", c)
  <2>1. e \in Events /\ e.op = "truncate" /\ e.name = c.name /\ e.ino = c.ino
    BY EventTyped DEF Ops
  <2> HIDE DEF e
  <2>2. EventOf(c) = [e EXCEPT !.size = c.len] /\ c.len \in Int
    BY <1>1 DEF EventOf, e, Records
  <2> QED BY <2>1, <2>2 DEF Events, Naming
<1>2. CASE c.kind \in {"zero", "zero_keep", "punch"}
  <2> DEFINE e == Event("zero", c)
  <2>1. e \in Events /\ e.op = "zero" /\ e.name = c.name /\ e.ino = c.ino
    BY EventTyped DEF Ops
  <2> HIDE DEF e
  <2> DEFINE q == c.kind # "zero"
  <2>2. EventOf(c) = [e EXCEPT !.off = c.off, !.size = c.len, !.keep = q]
    BY <1>2 DEF EventOf, e
  <2>3. c.off \in Int /\ c.len \in Int /\ q \in BOOLEAN
    BY DEF Records
  <2> HIDE DEF q
  <2> QED BY <1>2, <2>1, <2>2, <2>3 DEF Events
<1>3. CASE c.kind \in {"unlink", "rename"}
  <2>1. EventOf(c) = Event(c.kind, c)
    BY <1>3 DEF EventOf
  <2> QED BY <1>3, <2>1, EventTyped DEF Ops, Naming
<1>4. CASE c.kind \in {"noreplace", "exchange"}
  <2> DEFINE e == Event("rename", c)
  <2>1. e \in Events /\ e.op = "rename" /\ e.name = c.name /\ e.ino = c.ino
    BY EventTyped DEF Ops
  <2>2. EventOf(c) = [e EXCEPT !.flags = c.kind]
    BY <1>4 DEF EventOf
  <2> HIDE DEF e
  <2> QED BY <1>4, <2>1, <2>2 DEF Events, Naming
<1> QED BY <1>1, <1>2, <1>3, <1>4 DEF Single, Renames

LEMMA WrittenTyped ==
  ASSUME NEW page \in Inodes \X Nat, ops \in Nat
  PROVE  Written(page) \in Events /\ Written(page).op = "writeback" /\ Written(page).ino = page[1]
<1> DEFINE c == Call("store", page[1], NoIno, NoIno, 0, 0, 1)
           e == Event("writeback", c)
<1>1. c.ino = page[1] /\ c.name = NoIno /\ c.nname = NoIno
  BY DEF Call
<1> HIDE DEF c
<1>2. e \in Events /\ e.op = "writeback" /\ e.ino = page[1]
  BY <1>1 DEF Event, Events, Ops
<1> HIDE DEF e
<1> DEFINE off == page[2] - 1
<1> DEFINE g == [e EXCEPT !.off = off]
<1>3. Written(page) = [g EXCEPT !.size = 1]
  BY DEF Written, e, c
<1>4. off \in Int
  OBVIOUS
<1> HIDE DEF off
<1>5. g \in Events /\ g.op = "writeback" /\ g.ino = page[1]
  BY <1>2, <1>4 DEF Events
<1> DEFINE i == page[1]
           w == Written(page)
           one == 1
<1>6. w = [g EXCEPT !.size = one] /\ g \in Events /\ g.op = "writeback" /\ g.ino = i
      /\ one \in Int
  BY <1>3, <1>5
<1> HIDE DEF g, i, w, one
<1>7. w \in Events /\ w.op = "writeback" /\ w.ino = i
  BY <1>6 DEF Events
<1> QED BY <1>7 DEF w, i

-----------------------------------------------------------------------------
(* What calls do to a file's content keeps cells cells, and says how long  *)
(* the content is afterwards.                                              *)
LEMMA OverwriteTyped ==
  ASSUME NEW S, Zero \in S, NEW old \in Seq(S), NEW off \in Nat, NEW src \in Seq(S)
  PROVE  /\ Overwrite(old, off, src) \in Seq(S)
         /\ Len(Overwrite(old, off, src)) = Larger(Len(old), off + Len(src))
<1> DEFINE n == Larger(Len(old), off + Len(src))
           f == Overwrite(old, off, src)
<1>1. n \in Nat
  BY DEF Larger
<1>2. f = [k \in 1..n |-> IF k > off /\ k <= off + Len(src) THEN src[k - off]
                          ELSE IF k <= Len(old) THEN old[k] ELSE Zero]
  BY DEF Overwrite
<1>3. ASSUME NEW k \in 1..n PROVE f[k] \in S
  <2>1. CASE k > off /\ k <= off + Len(src)
    <3>1. k - off \in 1..Len(src)
      BY <1>1, <2>1
    <3> QED BY <1>2, <2>1, <3>1
  <2>2. CASE ~(k > off /\ k <= off + Len(src)) /\ k <= Len(old)
    <3>1. k \in 1..Len(old)
      BY <1>1, <2>2
    <3> QED BY <1>2, <2>2, <3>1
  <2>3. CASE ~(k > off /\ k <= off + Len(src)) /\ ~(k <= Len(old))
    BY <1>2, <2>3
  <2> QED BY <2>1, <2>2, <2>3
<1> HIDE DEF n
<1>4. f = [k \in 1..n |-> f[k]]
  BY <1>2
<1> HIDE DEF f
<1>5. f \in Seq(S) /\ Len(f) = n
  BY <1>1, <1>3, <1>4
<1> QED BY <1>5 DEF n, f

LEMMA ResizeTyped ==
  ASSUME NEW S, Zero \in S, NEW old \in Seq(S), NEW n \in Nat
  PROVE  Resize(old, n) \in Seq(S) /\ Len(Resize(old, n)) = n
<1> DEFINE f == Resize(old, n)
<1>1. f = [k \in 1..n |-> IF k <= Len(old) THEN old[k] ELSE Zero]
  BY DEF Resize
<1>2. ASSUME NEW k \in 1..n PROVE f[k] \in S
  <2>1. CASE k <= Len(old)
    <3>1. k \in 1..Len(old)
      BY <2>1
    <3> QED BY <1>1, <2>1, <3>1
  <2>2. CASE ~(k <= Len(old))
    BY <1>1, <2>2
  <2> QED BY <2>1, <2>2
<1>3. f = [k \in 1..n |-> f[k]]
  BY <1>1
<1> HIDE DEF f
<1>4. f \in Seq(S) /\ Len(f) = n
  BY <1>2, <1>3
<1> QED BY <1>4 DEF f

LEMMA ZeroRangeTyped ==
  ASSUME NEW S, Zero \in S, NEW old \in Seq(S), NEW off \in Nat, NEW n \in Nat,
         NEW keep \in BOOLEAN
  PROVE  /\ ZeroRange(old, off, n, keep) \in Seq(S)
         /\ \/ Len(ZeroRange(old, off, n, keep)) = Len(old)
            \/ Len(ZeroRange(old, off, n, keep)) = off + n
<1> DEFINE z == [k \in 1..Len(old) |-> IF k > off /\ k <= off + n THEN Zero ELSE old[k]]
<1>1. z \in Seq(S) /\ Len(z) = Len(old)
  OBVIOUS
<1>2. \/ ZeroRange(old, off, n, keep) = z
      \/ ZeroRange(old, off, n, keep) = Resize(z, off + n)
  BY DEF ZeroRange
<1> HIDE DEF z
<1>3. off + n \in Nat
  OBVIOUS
<1>4. Resize(z, off + n) \in Seq(S) /\ Len(Resize(z, off + n)) = off + n
  BY <1>1, <1>3, ResizeTyped
<1> QED BY <1>1, <1>2, <1>4

LEMMA CutTyped ==
  ASSUME NEW S, NEW old \in Seq(S), NEW off \in Nat, NEW n \in Nat, off + n < Len(old)
  PROVE  LET cut == SubSeq(old, 1, off) \o SubSeq(old, off + n + 1, Len(old))
         IN cut \in Seq(S) /\ Len(cut) <= Len(old)
<1> DEFINE a == SubSeq(old, 1, off)
           b == SubSeq(old, off + n + 1, Len(old))
<1>1. a \in Seq(S) /\ Len(a) = off
  OBVIOUS
<1>2. b \in Seq(S) /\ Len(b) = Len(old) - off - n
  OBVIOUS
<1> HIDE DEF a, b
<1>3. a \o b \in Seq(S) /\ Len(a \o b) <= Len(old)
  BY <1>1, <1>2
<1> QED BY <1>3 DEF a, b

(* fallocate(2) in any of its modes.                                       *)
LEMMA AllocatedTyped ==
  ASSUME NEW S, Zero \in S, NEW old \in Seq(S), NEW c \in Records, NEW room \in Nat,
         c.kind \in Allocs, Len(old) <= room, c.off + c.len <= room,
         c.kind = "collapse" => c.off + c.len < Len(old)
  PROVE  Allocated(c, old) \in Seq(S) /\ Len(Allocated(c, old)) <= room
<1>1. c.off \in Nat /\ c.len \in Nat
  BY DEF Records
<1>2. CASE c.kind = "alloc"
  <2> DEFINE n == Larger(Len(old), c.off + c.len)
  <2>1. n \in Nat /\ n <= room
    BY <1>1 DEF Larger
  <2>2. Allocated(c, old) = Resize(old, n)
    BY <1>2 DEF Allocated
  <2> HIDE DEF n
  <2> QED BY <2>1, <2>2, ResizeTyped
<1>3. CASE c.kind = "zero"
  <2>1. Allocated(c, old) = ZeroRange(old, c.off, c.len, FALSE)
    BY <1>3 DEF Allocated
  <2>2. /\ ZeroRange(old, c.off, c.len, FALSE) \in Seq(S)
        /\ \/ Len(ZeroRange(old, c.off, c.len, FALSE)) = Len(old)
           \/ Len(ZeroRange(old, c.off, c.len, FALSE)) = c.off + c.len
    BY <1>1, ZeroRangeTyped
  <2> QED BY <2>1, <2>2
<1>4. CASE c.kind = "collapse"
  <2>1. Allocated(c, old)
          = SubSeq(old, 1, c.off) \o SubSeq(old, c.off + c.len + 1, Len(old))
    BY <1>4 DEF Allocated
  <2> DEFINE cut == SubSeq(old, 1, c.off) \o SubSeq(old, c.off + c.len + 1, Len(old))
  <2>2. cut \in Seq(S) /\ Len(cut) <= Len(old)
    BY <1>1, <1>4, CutTyped
  <2> HIDE DEF cut
  <2> QED BY <2>1, <2>2 DEF cut
<1>5. CASE c.kind \notin {"alloc", "zero", "collapse"}
  <2>1. Allocated(c, old) = ZeroRange(old, c.off, c.len, TRUE)
    BY <1>5 DEF Allocated
  <2>2. /\ ZeroRange(old, c.off, c.len, TRUE) \in Seq(S)
        /\ \/ Len(ZeroRange(old, c.off, c.len, TRUE)) = Len(old)
           \/ Len(ZeroRange(old, c.off, c.len, TRUE)) = c.off + c.len
    BY <1>1, ZeroRangeTyped
  <2> QED BY <2>1, <2>2
<1> QED BY <1>2, <1>3, <1>4, <1>5

-----------------------------------------------------------------------------
(* What a step does to the parts of the invariant it touches.              *)

(* Starting an operation.                                                  *)
LEMMA StartTypes ==
  ASSUME SetupTypes, NEW k, Start(k)
  PROVE  SetupTypes' /\ ops' = ops + 1 /\ setup' = setup /\ ops \in Nat /\ setup.cells \in Nat
<1>1. ops \in Nat /\ setup.ops \in Nat /\ setup.cells \in Nat
  BY SetupTyped
<1> QED BY <1>1 DEF SetupTypes, Start

(* One call changes, the others stay within what they were within.         *)
LEMMA SetCallTypes ==
  ASSUME CallTypes, CallBounds, NEW t \in Threads, NEW c \in Records,
         calls' = [calls EXCEPT ![t] = c], ops \in Nat, ops' \in Nat, ops' >= ops,
         setup' = setup, Within(c, ops', setup.cells)
  PROVE  CallTypes' /\ CallBounds'
<1>1. CallTypes'
  BY DEF CallTypes
<1>2. ASSUME NEW u \in Threads, ~Idle(u)' PROVE Within(calls'[u], ops', setup'.cells)
  <2>1. CASE u = t
    BY <2>1 DEF CallTypes
  <2>2. CASE u # t
    <3>1. calls'[u] = calls[u] /\ ~Idle(u)
      BY <1>2, <2>2 DEF CallTypes, Idle
    <3>2. Within(calls[u], ops, setup.cells) /\ calls[u] \in Records
      BY <3>1 DEF CallBounds, CallTypes, Idle
    <3>3. calls[u].id \in Nat
      BY <3>2 DEF Records
    <3> QED BY <3>1, <3>2, <3>3 DEF Within
  <2> QED BY <2>1, <2>2
<1> QED BY <1>1, <1>2 DEF CallBounds

LEMMA LeaveTypes ==
  ASSUME CallTypes, CallBounds, NEW t \in Threads, Leave(t), ops' = ops, setup' = setup
  PROVE  CallTypes' /\ CallBounds'
<1>1. calls' = [calls EXCEPT ![t] = NoCall]
  BY DEF Leave
<1>2. ASSUME NEW u \in Threads, ~Idle(u)' PROVE calls'[u] = calls[u] /\ ~Idle(u)
  BY <1>1, <1>2 DEF CallTypes, Idle
<1> QED BY <1>1, <1>2 DEF CallTypes, CallBounds

(* Calls are as they were, while other operations may have started.        *)
LEMMA SameCallTypes ==
  ASSUME CallTypes, CallBounds, calls' = calls, ops \in Nat, ops' \in Nat, ops' >= ops,
         setup' = setup
  PROVE  CallTypes' /\ CallBounds'
<1>1. ASSUME NEW u \in Threads, ~Idle(u)' PROVE Within(calls'[u], ops', setup'.cells)
  <2>1. Within(calls[u], ops, setup.cells) /\ calls[u] \in Records
    BY <1>1 DEF CallBounds, CallTypes, Idle
  <2>2. calls[u].id \in Nat
    BY <2>1 DEF Records
  <2> QED BY <2>1, <2>2 DEF Within
<1> QED BY <1>1 DEF CallTypes, CallBounds

(* A call under way.                                                       *)
LEMMA UnderWay ==
  ASSUME CallTypes, CallBounds, NEW t \in Threads, ~Idle(t)
  PROVE  calls[t] \in Records /\ Within(calls[t], ops, setup.cells)
BY DEF CallTypes, CallBounds, Idle

(* Content is as it was, while other operations may have started.          *)
LEMMA SameDataTypes ==
  ASSUME DataTypes, data' = data, dirty' = dirty, ops \in Nat, ops' \in Nat, ops' >= ops,
         setup' = setup
  PROVE  DataTypes'
<1>1. Cells \subseteq Cells'
  BY DEF Cells
<1>2. ASSUME NEW i \in Inodes PROVE data[i] \in Seq(Cells')
  BY <1>1 DEF DataTypes
<1>3. data \in [Inodes -> Seq(Cells')]
  BY <1>2 DEF DataTypes
<1> QED BY <1>3 DEF DataTypes

(* The content of one file changes.                                        *)
LEMMA SetDataTypes ==
  ASSUME DataTypes, NEW i \in Inodes, NEW new \in Seq(Cells), Len(new) <= setup.cells,
         data' = [data EXCEPT ![i] = new], ops' = ops, setup' = setup,
         dirty' \subseteq Inodes \X (1..setup.cells)
  PROVE  DataTypes'
<1>1. Cells' = Cells
  BY DEF Cells
<1>2. \A j \in Inodes : Len(data'[j]) <= setup.cells
  BY DEF DataTypes
<1>3. data' \in [Inodes -> Seq(Cells)]
  BY DEF DataTypes
<1> QED BY <1>1, <1>2, <1>3 DEF DataTypes

(* An event is written, if it finds room.                                  *)
LEMMA AppendTypes ==
  ASSUME RingTypes, SetupTypes, NEW e \in Events, Naming(e) => e.name \in Names,
         Room, ring' = Append(ring, e), lost' \in BOOLEAN, setup' = setup
  PROVE  RingTypes'
<1>1. setup.ring \in Nat /\ Len(ring) < setup.ring
  BY SetupTyped DEF Room
<1>2. /\ ring' \in Seq(Events) /\ Len(ring') = Len(ring) + 1
      /\ \A n \in 1..Len(ring) : ring'[n] = ring[n]
      /\ ring'[Len(ring) + 1] = e
  BY DEF RingTypes
<1>3. ASSUME NEW n \in 1..Len(ring'), Naming(ring'[n]) PROVE ring'[n].name \in Names
  <2>1. n \in 1..Len(ring) \/ n = Len(ring) + 1
    BY <1>2
  <2> QED BY <1>2, <1>3, <2>1 DEF RingTypes
<1>4. Len(ring') <= setup'.ring
  BY <1>1, <1>2 DEF RingTypes
<1> QED BY <1>2, <1>3, <1>4 DEF RingTypes

LEMMA EmitTypes ==
  ASSUME RingTypes, SetupTypes, NEW e \in Events, Naming(e) => e.name \in Names,
         Emit(e), setup' = setup
  PROVE  RingTypes'
<1>1. CASE Room
  BY <1>1, AppendTypes DEF Emit, RingTypes
<1>2. CASE ~Room
  BY <1>2 DEF Emit, RingTypes
<1> QED BY <1>1, <1>2

LEMMA SameRingTypes ==
  ASSUME RingTypes, ring' = ring, lost' \in BOOLEAN, setup' = setup
  PROVE  RingTypes'
BY DEF RingTypes

-----------------------------------------------------------------------------
(* The calls of the application.                                           *)

LEMMA EnterTypes ==
  ASSUME Types, NEW t \in Threads, Enter(t)
  PROVE  Types'
<1> USE DEF Types
<1>1. PICK k \in DataKinds, i \in Inodes :
        /\ Start(k)
        /\ \E a \in Arguments(k) :
             LET c == Call(k, i, dentry[i], dentry[i], a[1], a[2], a[3])
             IN /\ k # "append" => c.off + c.len <= setup.cells
                /\ calls' = [calls EXCEPT ![t] = c]
        /\ UNCHANGED <<primary, mmap_files, ring, lost, user, sink>>
  <2>1. PICK k \in DataKinds, i \in Inodes :
          /\ MayCall(t) /\ Start(k)
          /\ \E a \in Arguments(k) :
               LET c == Call(k, i, dentry[i], dentry[i], a[1], a[2], a[3])
               IN /\ k # "append" => c.off + c.len <= setup.cells
                  /\ c.len % c.seg = 0 /\ MayChange(c)
                  /\ calls' = [calls EXCEPT ![t] = c]
          /\ UNCHANGED <<primary, mmap_files, ring, lost, user, sink>>
    BY DEF Enter
  <2>2. \E a \in Arguments(k) :
          LET c == Call(k, i, dentry[i], dentry[i], a[1], a[2], a[3])
          IN /\ k # "append" => c.off + c.len <= setup.cells
             /\ calls' = [calls EXCEPT ![t] = c]
    BY <2>1, Zenon
  <2> QED BY <2>1, <2>2
<1>2. /\ SetupTypes' /\ ops' = ops + 1 /\ setup' = setup /\ ops \in Nat
      /\ setup.cells \in Nat /\ setup.len \in Nat
  BY <1>1, StartTypes, SetupTyped
<1>3. PICK a \in Arguments(k) :
        LET c == Call(k, i, dentry[i], dentry[i], a[1], a[2], a[3])
        IN /\ k # "append" => c.off + c.len <= setup.cells
           /\ calls' = [calls EXCEPT ![t] = c]
  BY <1>1
<1>4. PICK o \in Nat, n \in Nat, s \in Nat : a[1] = o /\ a[2] = n /\ a[3] = s
  <2>1. CASE k = "append"
    BY <1>2, <2>1 DEF Arguments
  <2>2. CASE k = "truncate"
    BY <1>2, <2>2 DEF Arguments
  <2>3. CASE k = "writev"
    BY <1>2, <2>3 DEF Arguments
  <2>4. CASE k \notin {"append", "truncate", "writev"}
    BY <1>2, <2>4 DEF Arguments
  <2> QED BY <2>1, <2>2, <2>3, <2>4
<1> DEFINE c == Call(k, i, dentry[i], dentry[i], o, n, s)
<1>5. k # "append" => c.off + c.len <= setup.cells
  BY <1>3, <1>4
<1>6. calls' = [calls EXCEPT ![t] = c]
  BY <1>3, <1>4
<1>7. dentry[i] \in Names
  BY DEF NameTypes
<1>8. c \in Records
  BY <1>2, <1>7, CallTyped
<1>9. c.id = ops' /\ c.kind = k /\ c.at = "entered" /\ c.sent = 0 /\ c.ret = 0
  BY <1>2 DEF Call
<1>10. ops' \in Nat /\ ops' >= ops
  BY <1>2
<1> HIDE DEF c
<1>11. Within(c, ops', setup.cells)
  BY <1>5, <1>9, <1>10 DEF Within
<1>12. CallTypes' /\ CallBounds'
  BY <1>2, <1>6, <1>8, <1>10, <1>11, SetCallTypes
<1>13. DataTypes'
  BY <1>1, <1>2, <1>10, SameDataTypes DEF primary
<1>14. RingTypes'
  BY <1>1, <1>2, SameRingTypes DEF RingTypes
<1>15. NameTypes' /\ MapTypes' /\ UserTypes'
  BY <1>1 DEF NameTypes, MapTypes, UserTypes, primary, user, sink
<1> QED BY <1>2, <1>12, <1>13, <1>14, <1>15

(* The part of a call inside the kernel leaves these parts alone.          *)
LEMMA WorkFrame ==
  ASSUME Types, Work
  PROVE  SetupTypes' /\ NameTypes' /\ MapTypes' /\ RingTypes' /\ UserTypes' /\ ops' = ops /\ setup' = setup
<1>1. UNCHANGED <<setup, ops, dir, dentry, mapped, mmap_files, ring, lost, user, daemon>>
  BY DEF Work, app, sink
<1>2. SetupTypes' /\ NameTypes' /\ MapTypes' /\ UserTypes'
  BY <1>1 DEF Types, SetupTypes, NameTypes, MapTypes, UserTypes, user
<1>3. RingTypes'
  BY <1>1, SameRingTypes DEF Types, RingTypes
<1> QED BY <1>1, <1>2, <1>3

LEMMA DirtyTyped ==
  ASSUME DataTypes, setup.cells \in Nat, NEW i \in Inodes, NEW m \in Nat, NEW n \in Nat,
         n <= setup.cells
  PROVE  Touch(i, (m + 1)..n) \subseteq Inodes \X (1..setup.cells)
<1>1. Pages(i, (m + 1)..n) \subseteq Inodes \X (1..setup.cells)
  BY DEF Pages
<1> QED BY <1>1 DEF Touch, DataTypes

LEMMA WriteTypes ==
  ASSUME Types, NEW t \in Threads, vfs_write(t)
  PROVE  Types'
<1> USE DEF Types
<1> DEFINE c   == calls[t]
           old == data[c.ino]
           pos == IF c.kind = "append" THEN Len(old) ELSE c.off
<1>1. ~Idle(t) /\ c.at = "entered" /\ c.kind \in Writes /\ Work
  BY DEF vfs_write
<1>2. c \in Records /\ Within(c, ops, setup.cells)
  BY <1>1, UnderWay
<1>3. /\ SetupTypes' /\ NameTypes' /\ MapTypes' /\ RingTypes' /\ UserTypes'
      /\ ops' = ops /\ setup' = setup /\ ops \in Nat /\ setup.cells \in Nat
  BY <1>1, WorkFrame, SetupTyped
<1>4. PICK n \in 0..c.len :
        /\ pos + n <= setup.cells
        /\ IF n = 0 THEN Leave(t) /\ UNCHANGED <<data, dirty>>
           ELSE /\ data' = [data EXCEPT ![c.ino] = Overwrite(@, pos, Repeat(c.id, n))]
                /\ dirty' = Touch(c.ino, (pos + 1)..(pos + n))
                /\ calls' = [calls EXCEPT ![t].at = "done", ![t].end = pos + n, ![t].ret = n]
  BY DEF vfs_write
<1>5. n \in Nat /\ c.ino \in Inodes /\ c.id \in Nat /\ c.off \in Nat /\ c.id <= ops
  BY <1>2 DEF Records, Within
<1>6. old \in Seq(Cells) /\ Len(old) <= setup.cells /\ pos \in Nat
  BY <1>5 DEF DataTypes
<1>7. CASE n = 0
  <2>1. CallTypes' /\ CallBounds'
    BY <1>3, <1>4, <1>7, LeaveTypes
  <2>2. DataTypes'
    BY <1>3, <1>4, <1>7, SameDataTypes
  <2> QED BY <1>3, <2>1, <2>2
<1>8. CASE n # 0
  <2> DEFINE src  == Repeat(c.id, n)
             new  == Overwrite(old, pos, src)
             done == [c EXCEPT !.at = "done", !.end = pos + n, !.ret = n]
  <2>1. c.id \in Cells /\ Zero \in Cells
    BY <1>5, <1>3 DEF Cells
  <2>2. src \in Seq(Cells) /\ Len(src) = n
    BY <1>5, <2>1, RepeatTyped
  <2>3. new \in Seq(Cells) /\ Len(new) = Larger(Len(old), pos + n)
    <3> HIDE DEF src, old, pos
    <3> QED BY <1>6, <2>1, <2>2, OverwriteTyped
  <2>4. Len(new) <= setup.cells
    <3> HIDE DEF new, old, pos
    <3> QED BY <1>4, <1>6, <2>3 DEF Larger
  <2>5. pos + n \in Nat /\ Touch(c.ino, (pos + 1)..(pos + n)) \subseteq Inodes \X (1..setup.cells)
    <3> HIDE DEF old, pos
    <3>1. pos + n \in Nat /\ pos + n <= setup.cells
      BY <1>4, <1>5, <1>6
    <3> QED BY <1>3, <1>5, <1>6, <3>1, DirtyTyped
  <2>6. DataTypes'
    <3>1. data' = [data EXCEPT ![c.ino] = new]
      BY <1>4, <1>8
    <3>2. dirty' \subseteq Inodes \X (1..setup.cells)
      BY <1>4, <1>8, <2>5
    <3> HIDE DEF new
    <3> QED BY <1>3, <1>5, <2>3, <2>4, <3>1, <3>2, SetDataTypes
  <2>7. calls' = [calls EXCEPT ![t] = done]
    BY <1>4, <1>8 DEF CallTypes
  <2>8. done \in Records
    <3> DEFINE end == pos + n
               d1  == [c EXCEPT !.at = "done", !.end = end]
    <3> HIDE DEF c, end
    <3>1. d1 \in Records
      BY <1>2, <2>5 DEF Records, end
    <3>2. done = [d1 EXCEPT !.ret = n]
      BY DEF end
    <3> HIDE DEF d1, done
    <3> QED BY <1>5, <3>1, <3>2 DEF Records
  <2>9. Within(done, ops, setup.cells)
    <3> HIDE DEF c, pos
    <3>1. done.id = c.id /\ done.at = "done" /\ done.sent = c.sent /\ done.ret = n
      BY <1>2 DEF Records
    <3>2. c.id <= ops /\ c.sent = 0
      BY <1>1, <1>2 DEF Within
    <3> HIDE DEF done
    <3> QED BY <1>5, <3>1, <3>2 DEF Within
  <2>10. CallTypes' /\ CallBounds'
    <3>1. Within(done, ops', setup.cells) /\ ops' \in Nat /\ ops' >= ops
      BY <1>3, <2>9
    <3> HIDE DEF done
    <3> QED BY <1>3, <2>7, <2>8, <3>1, SetCallTypes
  <2> QED BY <1>3, <2>6, <2>10
<1> QED BY <1>7, <1>8

(* A call whose effect is done.                                            *)
LEMMA DoneTypes ==
  ASSUME CallTypes, CallBounds, NEW t \in Threads, ~Idle(t), ops \in Nat,
         calls' = [calls EXCEPT ![t].at = "done"], ops' = ops, setup' = setup
  PROVE  CallTypes' /\ CallBounds'
<1> DEFINE c    == calls[t]
           done == [c EXCEPT !.at = "done"]
<1>1. c \in Records /\ Within(c, ops, setup.cells)
  BY UnderWay
<1>2. calls' = [calls EXCEPT ![t] = done]
  BY DEF CallTypes
<1> HIDE DEF c
<1>3. done \in Records
  BY <1>1 DEF Records
<1>4. /\ done.id = c.id /\ done.at = "done" /\ done.kind = c.kind
      /\ done.sent = c.sent /\ done.ret = c.ret
  BY <1>1 DEF Records
<1> HIDE DEF done
<1>5. Within(done, ops', setup.cells) /\ ops' \in Nat /\ ops' >= ops
  BY <1>1, <1>4 DEF Within
<1> QED BY <1>2, <1>3, <1>5, SetCallTypes

LEMMA TruncateTypes ==
  ASSUME Types, NEW t \in Threads, do_truncate(t)
  PROVE  Types'
<1> USE DEF Types
<1> DEFINE c   == calls[t]
           old == data[c.ino]
           new == Resize(old, c.len)
<1>1. ~Idle(t) /\ c.at = "entered" /\ c.kind = "truncate" /\ Work
  BY DEF do_truncate
<1>2. c \in Records /\ Within(c, ops, setup.cells)
  BY <1>1, UnderWay
<1>3. /\ SetupTypes' /\ NameTypes' /\ MapTypes' /\ RingTypes' /\ UserTypes'
      /\ ops' = ops /\ setup' = setup /\ ops \in Nat /\ setup.cells \in Nat
  BY <1>1, WorkFrame, SetupTyped
<1>4. c.ino \in Inodes /\ c.len \in Nat /\ c.off \in Nat /\ c.len <= setup.cells
  <2>1. c.ino \in Inodes /\ c.len \in Nat /\ c.off \in Nat
    BY <1>2 DEF Records
  <2>2. c.off + c.len <= setup.cells
    BY <1>1, <1>2 DEF Within
  <2> QED BY <1>3, <2>1, <2>2
<1>5. CASE /\ data' = [data EXCEPT ![c.ino] = Resize(@, c.len)]
           /\ dirty' = dirty \ Pages(c.ino, (c.len + 1)..setup.cells)
           /\ calls' = [calls EXCEPT ![t].at = "done"]
  <2>1. old \in Seq(Cells) /\ Zero \in Cells
    BY <1>4 DEF DataTypes, Cells
  <2>2. new \in Seq(Cells) /\ Len(new) <= setup.cells
    <3> HIDE DEF old
    <3> QED BY <1>4, <2>1, ResizeTyped
  <2>3. data' = [data EXCEPT ![c.ino] = new]
    BY <1>5
  <2>4. dirty' \subseteq Inodes \X (1..setup.cells)
    BY <1>5 DEF DataTypes
  <2>5. DataTypes'
    <3> HIDE DEF new
    <3> QED BY <1>3, <1>4, <2>2, <2>3, <2>4, SetDataTypes
  <2>6. CallTypes' /\ CallBounds'
    BY <1>1, <1>3, <1>5, DoneTypes
  <2> QED BY <1>3, <2>5, <2>6
<1>6. CASE Leave(t) /\ UNCHANGED <<data, dirty>>
  <2>1. CallTypes' /\ CallBounds'
    BY <1>3, <1>6, LeaveTypes
  <2>2. DataTypes'
    BY <1>3, <1>6, SameDataTypes
  <2> QED BY <1>3, <2>1, <2>2
<1> QED BY <1>5, <1>6 DEF do_truncate

LEMMA AllocateTypes ==
  ASSUME Types, NEW t \in Threads, vfs_fallocate(t)
  PROVE  Types'
<1> USE DEF Types
<1> DEFINE c   == calls[t]
           old == data[c.ino]
           new == Allocated(c, old)
<1>1. ~Idle(t) /\ c.at = "entered" /\ c.kind \in Allocs /\ Work
  BY DEF vfs_fallocate
<1>2. c \in Records /\ Within(c, ops, setup.cells)
  BY <1>1, UnderWay
<1>3. /\ SetupTypes' /\ NameTypes' /\ MapTypes' /\ RingTypes' /\ UserTypes'
      /\ ops' = ops /\ setup' = setup /\ ops \in Nat /\ setup.cells \in Nat
  BY <1>1, WorkFrame, SetupTyped
<1>4. c.ino \in Inodes /\ c.off + c.len <= setup.cells
  BY <1>1, <1>2 DEF Records, Within, Allocs
<1>5. CASE /\ c.kind = "collapse" => c.off + c.len < Len(data[c.ino])
           /\ data' = [data EXCEPT ![c.ino] = Allocated(c, @)]
           /\ dirty' = IF c.kind = "alloc" THEN dirty ELSE dirty \ Pages(c.ino, CellsOf(c))
           /\ calls' = [calls EXCEPT ![t].at = "done"]
  <2>1. old \in Seq(Cells) /\ Zero \in Cells /\ Len(old) <= setup.cells
    BY <1>4 DEF DataTypes, Cells
  <2>2. new \in Seq(Cells) /\ Len(new) <= setup.cells
    <3>1. c.kind = "collapse" => c.off + c.len < Len(old)
      BY <1>5
    <3> HIDE DEF old, c
    <3> QED BY <1>1, <1>2, <1>3, <1>4, <2>1, <3>1, AllocatedTyped
  <2>3. data' = [data EXCEPT ![c.ino] = new]
    BY <1>5
  <2>4. dirty' \subseteq Inodes \X (1..setup.cells)
    BY <1>5 DEF DataTypes
  <2>5. DataTypes'
    <3> HIDE DEF new
    <3> QED BY <1>3, <1>4, <2>2, <2>3, <2>4, SetDataTypes
  <2>6. CallTypes' /\ CallBounds'
    BY <1>1, <1>3, <1>5, DoneTypes
  <2> QED BY <1>3, <2>5, <2>6
<1>6. CASE Leave(t) /\ UNCHANGED <<data, dirty>>
  <2>1. CallTypes' /\ CallBounds'
    BY <1>3, <1>6, LeaveTypes
  <2>2. DataTypes'
    BY <1>3, <1>6, SameDataTypes
  <2> QED BY <1>3, <2>1, <2>2
<1> QED BY <1>5, <1>6 DEF vfs_fallocate

-----------------------------------------------------------------------------
(* The fexit hooks.                                                        *)

LEMMA HookFrame ==
  ASSUME Types, Hook
  PROVE  /\ SetupTypes' /\ NameTypes' /\ MapTypes' /\ DataTypes' /\ UserTypes'
         /\ ops' = ops /\ setup' = setup /\ ops \in Nat /\ setup.cells \in Nat
<1>1. UNCHANGED <<setup, ops, primary, mmap_files, user, daemon>>
  BY DEF Hook, app, sink
<1>2. ops \in Nat /\ setup.cells \in Nat /\ ops' >= ops /\ ops' \in Nat
  BY <1>1, SetupTyped DEF Types
<1>3. SetupTypes' /\ NameTypes' /\ MapTypes' /\ UserTypes'
  BY <1>1 DEF Types, SetupTypes, NameTypes, MapTypes, UserTypes, user, primary
<1>4. DataTypes'
  BY <1>1, <1>2, SameDataTypes DEF Types, primary
<1> QED BY <1>1, <1>2, <1>3, <1>4

(* A round sends the next piece of a write, if it finds room.              *)
LEMMA SendChunk ==
  ASSUME Types, NEW t \in Threads, ~Idle(t), calls[t].at = "done", NEW off \in Int,
         NEW n \in Nat, NEW cut \in BOOLEAN, NEW last \in BOOLEAN, Hook,
         Room, ring' = Append(ring, Chunk(calls[t], off, n, cut)), lost' \in BOOLEAN,
         calls[t].kind \in {"write", "append"} => calls[t].sent + n <= calls[t].ret,
         IF last THEN Leave(t) ELSE calls' = [calls EXCEPT ![t].sent = @ + n]
  PROVE  Types'
<1> USE DEF Types
<1> DEFINE c    == calls[t]
           e    == Chunk(c, off, n, cut)
           sent == c.sent + n
           next == [c EXCEPT !.sent = sent]
<1>1. c \in Records /\ Within(c, ops, setup.cells)
  BY UnderWay
<1>2. /\ SetupTypes' /\ NameTypes' /\ MapTypes' /\ DataTypes' /\ UserTypes'
      /\ ops' = ops /\ setup' = setup /\ ops \in Nat /\ setup.cells \in Nat
  BY HookFrame
<1>3. RingTypes'
  <2>1. e \in Events /\ e.name = c.name
    BY <1>1, ChunkTyped
  <2>2. c.name \in Names
    BY <1>1 DEF Records
  <2> HIDE DEF e
  <2>3. ring' = Append(ring, e)
    BY DEF e
  <2> QED BY <1>2, <2>1, <2>2, <2>3, AppendTypes
<1>4. CASE last
  BY <1>2, <1>3, <1>4, LeaveTypes
<1>5. CASE ~last
  <2>1. sent \in Nat
    BY <1>1 DEF Records
  <2>2. calls' = [calls EXCEPT ![t] = next]
    BY <1>5 DEF CallTypes
  <2>3. c.kind \in {"write", "append"} => sent <= c.ret
    OBVIOUS
  <2>4. c.at = "done"
    OBVIOUS
  <2> HIDE DEF c, sent
  <2>5. next \in Records
    BY <1>1, <2>1 DEF Records
  <2>6. /\ next.id = c.id /\ next.at = c.at /\ next.kind = c.kind
        /\ next.sent = sent /\ next.ret = c.ret
    BY <1>1 DEF Records
  <2> HIDE DEF next
  <2>7. Within(next, ops', setup.cells) /\ ops' \in Nat /\ ops' >= ops
    BY <1>1, <1>2, <2>3, <2>4, <2>6 DEF Within
  <2>8. CallTypes' /\ CallBounds'
    BY <1>2, <2>2, <2>5, <2>7, SetCallTypes
  <2> QED BY <1>2, <1>3, <2>8
<1> QED BY <1>4, <1>5

(* A hook that gives up leaves a count.                                    *)
LEMMA GiveUpTypes ==
  ASSUME Types, NEW t \in Threads, Hook, lost' = TRUE, Leave(t), ring' = ring
  PROVE  Types'
<1> USE DEF Types
<1>1. /\ SetupTypes' /\ NameTypes' /\ MapTypes' /\ DataTypes' /\ UserTypes'
      /\ ops' = ops /\ setup' = setup
  BY HookFrame
<1>2. CallTypes' /\ CallBounds'
  BY <1>1, LeaveTypes
<1>3. RingTypes'
  BY <1>1, SameRingTypes
<1> QED BY <1>1, <1>2, <1>3

LEMMA WriteRetTypes ==
  ASSUME Types, NEW t \in Threads, handle_vfs_write_ret(t)
  PROVE  Types'
<1> DEFINE c    == calls[t]
           n    == Least(ChunkLimit, c.ret - c.sent)
           last == c.sent + n = c.ret \/ c.sent \div ChunkLimit = MaxChunks - 1
           cut  == last /\ c.sent + n < c.ret
           off  == start_offset(c) + c.sent
<1>1. /\ ~Idle(t) /\ c.at = "done" /\ c.kind \in {"write", "append"} /\ Hook
      /\ \/ /\ Room /\ ring' = Append(ring, Chunk(c, off, n, cut))
            /\ lost' = (lost \/ cut)
            /\ IF last THEN Leave(t) ELSE calls' = [calls EXCEPT ![t].sent = @ + n]
         \/ /\ lost' = TRUE /\ Leave(t) /\ UNCHANGED ring
  BY DEF handle_vfs_write_ret, Finished
<1>2. c \in Records /\ Within(c, ops, setup.cells)
  BY <1>1, UnderWay DEF Types
<1>3. c.sent \in Nat /\ c.ret \in Nat /\ c.end \in Nat /\ c.sent <= c.ret /\ ChunkLimit \in Nat
  BY <1>1, <1>2, FileAssumption DEF Records, Within
<1>4. n \in Nat /\ c.sent + n <= c.ret /\ off \in Int
  <2> HIDE DEF c
  <2> QED BY <1>3 DEF Least, start_offset
<1>5. last \in BOOLEAN /\ cut \in BOOLEAN /\ lost \in BOOLEAN
  BY DEF Types, RingTypes
<1> HIDE DEF n, last, cut, off
<1>6. CASE /\ Room /\ ring' = Append(ring, Chunk(c, off, n, cut))
           /\ lost' = (lost \/ cut)
           /\ IF last THEN Leave(t) ELSE calls' = [calls EXCEPT ![t].sent = @ + n]
  <2>1. lost' \in BOOLEAN
    BY <1>5, <1>6
  <2> QED BY <1>1, <1>4, <1>5, <1>6, <2>1, SendChunk
<1>7. CASE lost' = TRUE /\ Leave(t) /\ UNCHANGED ring
  BY <1>1, <1>7, GiveUpTypes
<1> QED BY <1>1, <1>6, <1>7

LEMMA WritevTypes ==
  ASSUME Types, NEW t \in Threads, writev_emit_seg(t)
  PROVE  Types'
<1> DEFINE c    == calls[t]
           n    == Least(ChunkLimit, c.seg)
           last == n < c.seg \/ c.sent + n \in {c.len, c.seg * MaxSegs}
           cut  == n < c.seg
           off  == start_offset(c) + c.sent
           more == last /\ c.sent + n # c.ret
<1>1. /\ ~Idle(t) /\ c.at = "done" /\ c.kind = "writev" /\ Hook
      /\ \/ /\ Room /\ ring' = Append(ring, Chunk(c, off, n, cut))
            /\ lost' = (lost \/ more)
            /\ IF last THEN Leave(t) ELSE calls' = [calls EXCEPT ![t].sent = @ + n]
         \/ /\ lost' = TRUE /\ Leave(t) /\ UNCHANGED ring
  BY DEF writev_emit_seg, Finished
<1>2. c \in Records
  BY <1>1, UnderWay DEF Types
<1>3. /\ c.sent \in Nat /\ c.ret \in Nat /\ c.end \in Nat /\ c.seg \in Nat
      /\ ChunkLimit \in Nat
  BY <1>2, FileAssumption DEF Records
<1>4. n \in Nat /\ off \in Int
  <2> HIDE DEF c
  <2> QED BY <1>3 DEF Least, start_offset
<1>5. last \in BOOLEAN /\ cut \in BOOLEAN /\ more \in BOOLEAN /\ lost \in BOOLEAN
  BY DEF Types, RingTypes
<1> HIDE DEF n, last, cut, off, more
<1>6. CASE /\ Room /\ ring' = Append(ring, Chunk(c, off, n, cut))
           /\ lost' = (lost \/ more)
           /\ IF last THEN Leave(t) ELSE calls' = [calls EXCEPT ![t].sent = @ + n]
  <2>1. lost' \in BOOLEAN
    BY <1>5, <1>6
  <2> QED BY <1>1, <1>4, <1>5, <1>6, <2>1, SendChunk
<1>7. CASE lost' = TRUE /\ Leave(t) /\ UNCHANGED ring
  BY <1>1, <1>7, GiveUpTypes
<1> QED BY <1>1, <1>6, <1>7

LEMMA EmitEventTypes ==
  ASSUME Types, NEW t \in Threads, emit_pending_event(t)
  PROVE  Types'
<1> USE DEF Types
<1> DEFINE c == calls[t]
           e == EventOf(c)
<1>1. ~Idle(t) /\ Emit(e) /\ Leave(t) /\ Hook
  BY DEF emit_pending_event, Finished
<1>2. c \in Records /\ Within(c, ops, setup.cells)
  BY <1>1, UnderWay
<1>3. /\ SetupTypes' /\ NameTypes' /\ MapTypes' /\ DataTypes' /\ UserTypes'
      /\ ops' = ops /\ setup' = setup /\ ops \in Nat
  BY <1>1, HookFrame
<1>4. c.kind \in Single
  <2>1. CASE Finished(t, {"truncate", "zero", "zero_keep", "punch"} \cup NameKinds)
    BY <2>1 DEF Finished, NameKinds, Single
  <2>2. CASE c.at = "sized"
    BY <1>2, <2>2 DEF Within, Single
  <2> QED BY <2>1, <2>2 DEF emit_pending_event
<1>5. e \in Events /\ e.name = c.name /\ c.name \in Names
  BY <1>2, <1>4, EventOfTyped DEF Records
<1> HIDE DEF e
<1>6. RingTypes'
  BY <1>1, <1>3, <1>5, EmitTypes
<1>7. CallTypes' /\ CallBounds'
  BY <1>1, <1>3, LeaveTypes
<1> QED BY <1>3, <1>6, <1>7

(* Mode 0 of fallocate(2) takes the length the file has by now.            *)
LEMMA AllocateRetTypes ==
  ASSUME Types, NEW t \in Threads, handle_vfs_fallocate_ret(t)
  PROVE  Types'
<1> USE DEF Types
<1> DEFINE c    == calls[t]
           len  == Len(data[c.ino])
           next == [c EXCEPT !.at = "sized", !.len = len]
<1>1. ~Idle(t) /\ Hook /\ ring' = ring
  BY DEF handle_vfs_fallocate_ret, Finished
<1>2. c \in Records /\ Within(c, ops, setup.cells)
  BY <1>1, UnderWay
<1>3. /\ SetupTypes' /\ NameTypes' /\ MapTypes' /\ DataTypes' /\ UserTypes'
      /\ ops' = ops /\ setup' = setup /\ ops \in Nat
  BY <1>1, HookFrame
<1>4. CASE /\ Finished(t, {"alloc"}) /\ UNCHANGED lost
           /\ calls' = [calls EXCEPT ![t].at = "sized", ![t].len = len]
  <2>1. len \in Nat
    BY <1>2 DEF Records, DataTypes
  <2>2. calls' = [calls EXCEPT ![t] = next]
    BY <1>4 DEF CallTypes
  <2>3. c.kind = "alloc"
    BY <1>4 DEF Finished
  <2> HIDE DEF c, len
  <2> DEFINE d == [c EXCEPT !.at = "sized"]
  <2>4. d \in Records /\ d.id = c.id /\ d.kind = c.kind /\ d.at = "sized"
    BY <1>2 DEF Records
  <2>5. next = [d EXCEPT !.len = len]
    OBVIOUS
  <2> HIDE DEF d, next
  <2>6. next \in Records /\ next.id = c.id /\ next.kind = c.kind /\ next.at = "sized"
    BY <2>1, <2>4, <2>5 DEF Records
  <2>7. Within(next, ops', setup.cells) /\ ops' \in Nat /\ ops' >= ops
    BY <1>2, <1>3, <2>3, <2>6 DEF Within
  <2>8. CallTypes' /\ CallBounds'
    BY <1>3, <2>2, <2>6, <2>7, SetCallTypes
  <2>9. RingTypes'
    BY <1>1, <1>3, <1>4, SameRingTypes DEF RingTypes
  <2> QED BY <1>3, <2>8, <2>9
<1>5. CASE lost' = TRUE /\ Leave(t)
  BY <1>1, <1>5, GiveUpTypes
<1> QED BY <1>4, <1>5 DEF handle_vfs_fallocate_ret

-----------------------------------------------------------------------------
(* Names.                                                                  *)

(* A call that changes names begins and has its effect in one step.        *)
LEMMA NamedTypes ==
  ASSUME Types, NEW t \in Threads, NEW k \in NameKinds, NEW i \in Inodes,
         NEW n \in Names, NEW m \in Names, Start(k), Named(t, Call(k, i, n, m, 0, 0, 1))
  PROVE  CallTypes' /\ CallBounds' /\ SetupTypes' /\ ops' \in Nat /\ ops' >= ops /\ ops \in Nat
         /\ setup' = setup
<1> USE DEF Types
<1> DEFINE c == Call(k, i, n, m, 0, 0, 1)
           d == [c EXCEPT !.at = "done"]
<1>1. SetupTypes' /\ ops' = ops + 1 /\ setup' = setup /\ ops \in Nat
  BY StartTypes
<1>2. d \in Records
  BY <1>1, CallTyped
<1>3. d.id = ops' /\ d.at = "done" /\ d.kind = k
  BY <1>1 DEF Call
<1>4. calls' = [calls EXCEPT ![t] = d]
  BY DEF Named
<1>5. ops' \in Nat /\ ops' >= ops
  BY <1>1
<1> HIDE DEF d
<1>6. Within(d, ops', setup.cells)
  BY <1>3, <1>5 DEF Within, NameKinds, Renames
<1>7. CallTypes' /\ CallBounds'
  BY <1>1, <1>2, <1>4, <1>5, <1>6, SetCallTypes
<1> QED BY <1>1, <1>5, <1>7

LEMMA UnlinkTypes ==
  ASSUME Types, NEW t \in Threads, vfs_unlink(t)
  PROVE  Types'
<1> USE DEF Types
<1>1. PICK n \in Names :
        /\ Start("unlink") /\ dir[n] # NoIno
        /\ dir' = [dir EXCEPT ![n] = NoIno]
        /\ Named(t, Call("unlink", dir[n], n, n, 0, 0, 1))
        /\ UNCHANGED <<data, dentry, mapped, dirty, mmap_files, ring, lost, user, sink>>
  BY DEF vfs_unlink
<1>2. dir[n] \in Inodes
  BY <1>1 DEF NameTypes
<1>3. /\ CallTypes' /\ CallBounds' /\ SetupTypes' /\ ops' \in Nat /\ ops' >= ops
      /\ ops \in Nat /\ setup' = setup
  BY <1>1, <1>2, NamedTypes DEF NameKinds
<1>4. NameTypes'
  BY <1>1 DEF NameTypes
<1>5. DataTypes' /\ RingTypes'
  BY <1>1, <1>3, SameDataTypes, SameRingTypes DEF RingTypes
<1>6. MapTypes' /\ UserTypes'
  BY <1>1 DEF MapTypes, UserTypes, user, sink
<1> QED BY <1>3, <1>4, <1>5, <1>6

LEMMA RenameTypes ==
  ASSUME Types, NEW t \in Threads, vfs_rename(t)
  PROVE  Types'
<1> USE DEF Types
<1>1. PICK n \in Names, m \in Names, k \in Renames :
        /\ Start(k) /\ dir[n] # NoIno /\ (Rename(n, m) \/ Exchange(n, m))
        /\ Named(t, Call(k, dir[n], n, m, 0, 0, 1))
        /\ UNCHANGED <<data, mapped, dirty, mmap_files, ring, lost, user, sink>>
  BY DEF vfs_rename
<1>2. dir[n] \in Inodes
  BY <1>1 DEF NameTypes
<1>3. /\ CallTypes' /\ CallBounds' /\ SetupTypes' /\ ops' \in Nat /\ ops' >= ops
      /\ ops \in Nat /\ setup' = setup
  BY <1>1, <1>2, NamedTypes DEF NameKinds
<1>4. NameTypes'
  BY <1>1, <1>2 DEF NameTypes, Rename, Exchange
<1>5. DataTypes' /\ RingTypes'
  BY <1>1, <1>3, SameDataTypes, SameRingTypes DEF RingTypes
<1>6. MapTypes' /\ UserTypes'
  BY <1>1 DEF MapTypes, UserTypes, user, sink
<1> QED BY <1>3, <1>4, <1>5, <1>6

-----------------------------------------------------------------------------
(* Mappings.                                                               *)

LEMMA MmapTypes ==
  ASSUME Types, NEW i \in Inodes, handle_security_mmap_file(i)
  PROVE  Types'
<1> USE DEF Types
<1> DEFINE c == Call("mmap", i, dentry[i], dentry[i], 0, 0, 1)
           e == Event("mmap", c)
<1>1. /\ Start("mmap") /\ mapped' = mapped \cup {i} /\ mmap_files' = mmap_files \cup {i}
      /\ ring' = IF Room THEN Append(ring, e) ELSE ring
      /\ UNCHANGED <<dir, data, dentry, dirty, calls, lost, user, sink>>
  BY DEF handle_security_mmap_file
<1>2. SetupTypes' /\ ops' = ops + 1 /\ setup' = setup /\ ops \in Nat
  BY <1>1, StartTypes
<1>3. ops' \in Nat /\ ops' >= ops
  BY <1>2
<1>4. dentry[i] \in Names
  BY DEF NameTypes
<1>5. e \in Events /\ e.name \in Names
  BY <1>4 DEF Event, Events, Call, Ops
<1> HIDE DEF e
<1>6. RingTypes'
  <2>1. CASE Room
    BY <1>1, <1>2, <1>5, <2>1, AppendTypes DEF RingTypes
  <2>2. CASE ~Room
    BY <1>1, <1>2, <2>2, SameRingTypes DEF RingTypes
  <2> QED BY <2>1, <2>2
<1>7. DataTypes' /\ CallTypes' /\ CallBounds'
  BY <1>1, <1>2, <1>3, SameDataTypes, SameCallTypes
<1>8. NameTypes' /\ MapTypes' /\ UserTypes'
  BY <1>1 DEF NameTypes, MapTypes, UserTypes, user, sink
<1> QED BY <1>2, <1>6, <1>7, <1>8

LEMMA StoreTypes ==
  ASSUME Types, NEW i \in Inodes, Store(i)
  PROVE  Types'
<1> USE DEF Types
<1>1. PICK k \in 1..Len(data[i]) :
        /\ Start("store")
        /\ data' = [data EXCEPT ![i][k] = ops + 1]
        /\ dirty' = dirty \cup {<<i, k>>}
        /\ UNCHANGED <<dir, dentry, mapped, hooks, ring, lost, user, sink>>
  BY DEF Store
<1>2. SetupTypes' /\ ops' = ops + 1 /\ setup' = setup /\ ops \in Nat /\ setup.cells \in Nat
  BY <1>1, StartTypes
<1>3. ops' \in Nat /\ ops' >= ops
  BY <1>2
<1>4. DataTypes'
  <2> DEFINE old == data[i]
             new == [old EXCEPT ![k] = ops + 1]
  <2>1. old \in Seq(Cells) /\ Len(old) <= setup.cells
    BY DEF DataTypes
  <2>2. Cells \subseteq Cells' /\ ops + 1 \in Cells'
    BY <1>2 DEF Cells
  <2>3. old \in Seq(Cells') /\ k \in 1..Len(old)
    BY <2>1, <2>2
  <2>4. data' = [data EXCEPT ![i] = new]
    BY <1>1 DEF DataTypes
  <2> HIDE DEF old
  <2>5. new \in Seq(Cells') /\ Len(new) = Len(old)
    BY <2>2, <2>3
  <2> HIDE DEF new
  <2>6. data \in [Inodes -> Seq(Cells')]
    <3>1. \A j \in Inodes : data[j] \in Seq(Cells')
      BY <2>2 DEF DataTypes
    <3> QED BY <3>1 DEF DataTypes
  <2>7. data' \in [Inodes -> Seq(Cells')]
    BY <2>4, <2>5, <2>6
  <2>8. \A j \in Inodes : Len(data'[j]) <= setup.cells
    BY <2>1, <2>4, <2>5, <2>6 DEF DataTypes
  <2>9. dirty' \subseteq Inodes \X (1..setup.cells)
    BY <1>1, <1>2, <2>1, <2>3 DEF DataTypes, old
  <2> QED BY <1>2, <2>7, <2>8, <2>9 DEF DataTypes
<1>5. CallTypes' /\ CallBounds' /\ RingTypes'
  BY <1>1, <1>2, <1>3, SameCallTypes, SameRingTypes DEF hooks, RingTypes
<1>6. NameTypes' /\ MapTypes' /\ UserTypes'
  BY <1>1 DEF NameTypes, MapTypes, UserTypes, hooks, user, sink
<1> QED BY <1>2, <1>4, <1>5, <1>6

LEMMA WritebackTypes ==
  ASSUME Types, NEW page \in dirty, handle_folio_start_writeback(page)
  PROVE  Types'
<1> USE DEF Types
<1> DEFINE e == Written(page)
<1>1. /\ dirty' = dirty \ {page}
      /\ IF page[1] \in mmap_files THEN Emit(e) ELSE UNCHANGED <<ring, lost>>
      /\ UNCHANGED <<app, dir, data, dentry, mapped, hooks, user, sink>>
  BY DEF handle_folio_start_writeback
<1>2. ops' = ops /\ setup' = setup /\ ops \in Nat /\ SetupTypes'
  BY <1>1, SetupTyped DEF app, SetupTypes
<1>3. page \in Inodes \X Nat
  BY SetupTyped DEF DataTypes
<1>4. e \in Events /\ e.op = "writeback"
  BY <1>2, <1>3, WrittenTyped
<1> HIDE DEF e
<1>5. RingTypes'
  <2>1. CASE Emit(e)
    BY <1>2, <1>4, <2>1, EmitTypes DEF Naming
  <2>2. CASE UNCHANGED <<ring, lost>>
    BY <1>2, <2>2, SameRingTypes DEF RingTypes
  <2> QED BY <1>1, <2>1, <2>2
<1>6. DataTypes'
  BY <1>1, <1>2 DEF DataTypes, Cells
<1>7. CallTypes' /\ CallBounds'
  BY <1>1, <1>2, SameCallTypes DEF hooks
<1>8. NameTypes' /\ MapTypes' /\ UserTypes'
  BY <1>1 DEF NameTypes, MapTypes, UserTypes, hooks, user, sink
<1> QED BY <1>2, <1>5, <1>6, <1>7, <1>8

-----------------------------------------------------------------------------
(* The capturer.                                                           *)

(* What is left of the ring once its first event is taken.                 *)
LEMMA TailTyped ==
  ASSUME NEW S, NEW s \in Seq(S), s # <<>>
  PROVE  /\ Len(s) \in Nat /\ Len(s) >= 1 /\ Head(s) = s[1] /\ s[1] \in S
         /\ Tail(s) \in Seq(S) /\ Len(Tail(s)) = Len(s) - 1
         /\ \A n \in 1..Len(Tail(s)) : n + 1 \in 1..Len(s) /\ Tail(s)[n] = s[n + 1]
OBVIOUS

LEMMA HandleEventTypes ==
  ASSUME Types, handle_event
  PROVE  Types'
<1> USE DEF Types
<1> DEFINE e == Head(ring)
<1>1. /\ ring # <<>> /\ ring' = Tail(ring)
      /\ UNCHANGED <<app, primary, hooks, lost, sink>>
      /\ \/ Naming(e) /\ files' = Set(files, e.ino, e.name)
         \/ files' = files
      /\ batch_error' \in BOOLEAN
  <2>1. e.truncated \in BOOLEAN /\ batch_error \in BOOLEAN
    <3>1. ring # <<>> /\ ring \in Seq(Events)
      BY DEF handle_event, RingTypes
    <3>2. e \in Events
      BY <3>1
    <3> QED BY <3>2 DEF Events, UserTypes
  <2> HIDE DEF Types
  <2> QED BY <2>1 DEF handle_event, Naming, Remember
<1>2. ops' = ops /\ setup' = setup /\ ops \in Nat /\ setup.cells \in Nat /\ SetupTypes'
  BY <1>1, SetupTyped DEF app, SetupTypes
<1>3. /\ Len(ring) \in Nat /\ Len(ring) >= 1 /\ e = ring[1] /\ e \in Events
      /\ ring' \in Seq(Events) /\ Len(ring') = Len(ring) - 1
      /\ \A n \in 1..Len(ring') : n + 1 \in 1..Len(ring) /\ ring'[n] = ring[n + 1]
  BY <1>1, TailTyped DEF RingTypes
<1> HIDE DEF e
<1>4. RingTypes'
  <2>1. Len(ring') <= setup'.ring
    BY <1>2, <1>3, SetupTyped DEF RingTypes
  <2>2. lost' \in BOOLEAN
    BY <1>1 DEF RingTypes
  <2>3. \A n \in 1..Len(ring') : Naming(ring'[n]) => ring'[n].name \in Names
    BY <1>3 DEF RingTypes
  <2> QED BY <1>3, <2>1, <2>2, <2>3 DEF RingTypes
<1>5. DOMAIN files' \subseteq Inodes /\ \A i \in DOMAIN files' : files'[i] \in Names
  <2>1. CASE files' = files
    BY <2>1 DEF UserTypes
  <2>2. CASE Naming(e) /\ files' = Set(files, e.ino, e.name)
    <3>1. e.ino \in Inodes /\ e.name \in Names
      BY <1>3, <2>2 DEF Events, RingTypes
    <3> QED BY <2>2, <3>1 DEF Set, UserTypes
  <2> QED BY <1>1, <2>1, <2>2
<1>6. UserTypes'
  BY <1>1, <1>5 DEF UserTypes, sink
<1>7. DataTypes' /\ CallTypes' /\ CallBounds'
  BY <1>1, <1>2, SameDataTypes, SameCallTypes DEF primary, hooks
<1>8. NameTypes' /\ MapTypes'
  BY <1>1 DEF NameTypes, MapTypes, primary, hooks
<1> QED BY <1>2, <1>4, <1>6, <1>7, <1>8

LEMMA CaptureTypes ==
  ASSUME Types, capture_and_send
  PROVE  Types'
<1> USE DEF Types
<1>1. /\ daemon' = "draining"
      /\ UNCHANGED <<setup, ops, primary, hooks, ring, lost, user>>
  BY DEF capture_and_send
<1>2. ops' = ops /\ setup' = setup /\ ops \in Nat /\ setup.cells \in Nat /\ SetupTypes'
  BY <1>1, SetupTyped DEF SetupTypes
<1>3. DataTypes' /\ CallTypes' /\ CallBounds' /\ RingTypes'
  BY <1>1, <1>2, SameDataTypes, SameCallTypes, SameRingTypes DEF primary, hooks, RingTypes
<1>4. NameTypes' /\ MapTypes' /\ UserTypes'
  BY <1>1 DEF NameTypes, MapTypes, UserTypes, primary, hooks, user
<1> QED BY <1>2, <1>3, <1>4

(* There are finitely many pages, so that those to be flushed, one after   *)
(* the other, are a sequence.                                              *)
LEMMA PagesInOrder ==
  ASSUME DataTypes, setup.cells \in Nat, NEW S, S \subseteq dirty, NEW pages \in SetToSeqs(S)
  PROVE  pages \in Seq(S)
<1>1. IsFiniteSet(Inodes \X (1..setup.cells))
  <2>1. IsFiniteSet(1..setup.cells)
    BY FS_Interval
  <2>2. IsFiniteSet(Inodes)
    BY FileAssumption
  <2> QED BY <2>1, <2>2, FS_Product
<1>2. IsFiniteSet(S)
  BY <1>1, FS_Subset DEF DataTypes
<1>3. Cardinality(S) \in Nat
  BY <1>2, FS_CardinalityType
<1>4. pages \in [1..Cardinality(S) -> S]
  BY DEF SetToSeqs
<1> QED BY <1>3, <1>4

LEMMA SnapshotTypes ==
  ASSUME Types, snapshot_mmap_files
  PROVE  /\ Types'
         /\ \A n \in 1..Len(ring') : ring'[n].op = "writeback"
<1> USE DEF Types
<1> DEFINE S == {page \in dirty : page[1] \in Found \cap mmap_files}
<1>1. PICK pages \in SetToSeqs(S) :
        /\ daemon' = "flushed"
        /\ dirty' = {page \in dirty : page[1] \notin Found}
        /\ ring' = [n \in 1..Least(setup.ring, Len(pages)) |-> Written(pages[n])]
        /\ lost' = (lost \/ Len(pages) > setup.ring)
        /\ UNCHANGED <<app, dir, data, dentry, mapped, hooks, user, backup>>
  BY DEF snapshot_mmap_files
<1>2. /\ ops' = ops /\ setup' = setup /\ ops \in Nat /\ setup.cells \in Nat
      /\ setup.ring \in Nat /\ SetupTypes'
  BY <1>1, SetupTyped DEF app, SetupTypes
<1>3. S \subseteq dirty
  OBVIOUS
<1> HIDE DEF S
<1>4. pages \in Seq(S)
  BY <1>2, <1>3, PagesInOrder
<1> DEFINE m == Least(setup.ring, Len(pages))
<1>5. m \in Nat /\ m <= setup.ring /\ m <= Len(pages)
  BY <1>2, <1>4 DEF Least
<1>6. ring' = [n \in 1..m |-> Written(pages[n])]
  BY <1>1
<1> HIDE DEF m
<1>7. ASSUME NEW n \in 1..m PROVE Written(pages[n]) \in Events /\ Written(pages[n]).op = "writeback"
  <2>1. n \in 1..Len(pages)
    BY <1>4, <1>5
  <2>2. pages[n] \in S
    BY <1>4, <2>1
  <2>3. pages[n] \in Inodes \X Nat
    BY <1>2, <1>3, <2>2 DEF DataTypes
  <2> QED BY <1>2, <2>3, WrittenTyped
<1>8. /\ ring' \in Seq(Events) /\ Len(ring') = m
      /\ \A n \in 1..Len(ring') : ring'[n].op = "writeback"
  BY <1>5, <1>6, <1>7
<1>9. RingTypes'
  BY <1>1, <1>2, <1>5, <1>8 DEF RingTypes, Naming
<1>10. DataTypes'
  BY <1>1, <1>2 DEF DataTypes, Cells
<1>11. CallTypes' /\ CallBounds'
  BY <1>1, <1>2, SameCallTypes DEF hooks
<1>12. NameTypes' /\ MapTypes' /\ UserTypes'
  BY <1>1 DEF NameTypes, MapTypes, UserTypes, hooks, user
<1> QED BY <1>2, <1>8, <1>9, <1>10, <1>11, <1>12

LEMMA SendTypes ==
  ASSUME Types, send_batch
  PROVE  Types'
<1> USE DEF Types
<1>1. /\ daemon' \in {"failed", "idle", "broken"}
      /\ UNCHANGED <<setup, ops, primary, hooks, ring, lost, files, batch_error>>
  <2> HIDE DEF Types
  <2> QED BY DEF send_batch
<1>2. ops' = ops /\ setup' = setup /\ ops \in Nat /\ setup.cells \in Nat /\ SetupTypes'
  BY <1>1, SetupTyped DEF SetupTypes
<1>3. DataTypes' /\ CallTypes' /\ CallBounds' /\ RingTypes'
  BY <1>1, <1>2, SameDataTypes, SameCallTypes, SameRingTypes DEF primary, hooks, RingTypes
<1>4. NameTypes' /\ MapTypes' /\ UserTypes'
  BY <1>1 DEF NameTypes, MapTypes, UserTypes, primary, hooks
<1> QED BY <1>2, <1>3, <1>4

-----------------------------------------------------------------------------
LEMMA InitTypes == Init => Types
<1> SUFFICES ASSUME Init PROVE Types
  OBVIOUS
<1>1. SetupTypes
  BY FileAssumption DEF Init, SetupTypes, Setup
<1>2. setup.cells \in Nat /\ setup.cells >= 1 /\ setup.ring \in Nat
  BY <1>1, SetupTyped
<1>3. DataTypes
  <2>1. data = [i \in Inodes |-> <<0>>] /\ dirty = {} /\ ops = 0
    BY DEF Init
  <2>2. <<0>> \in Seq(Cells) /\ Len(<<0>>) = 1
    BY <2>1 DEF Cells
  <2> QED BY <1>2, <2>1, <2>2 DEF DataTypes
<1>4. CallTypes /\ CallBounds
  BY DEF Init, CallTypes, CallBounds, Idle
<1>5. RingTypes
  <2>1. ring = <<>> /\ lost = FALSE
    BY DEF Init
  <2>2. ring \in Seq(Events) /\ Len(ring) = 0
    BY <2>1
  <2>3. 0 <= setup.ring /\ 1..0 = {}
    BY <1>2
  <2> QED BY <2>1, <2>2, <2>3 DEF RingTypes
<1>6. NameTypes /\ MapTypes /\ UserTypes
  BY DEF Init, NameTypes, MapTypes, UserTypes
<1> QED BY <1>1, <1>3, <1>4, <1>5, <1>6 DEF Types

LEMMA NextTypes == Types /\ [Next]_vars => Types'
<1> SUFFICES ASSUME Types, [Next]_vars PROVE Types'
  OBVIOUS
<1>1. ASSUME NEW t \in Threads,
             \/ Enter(t) \/ vfs_write(t) \/ do_truncate(t) \/ vfs_fallocate(t)
             \/ handle_vfs_write_ret(t) \/ writev_emit_seg(t)
             \/ emit_pending_event(t) \/ handle_vfs_fallocate_ret(t)
             \/ vfs_unlink(t) \/ vfs_rename(t)
      PROVE Types'
  BY <1>1, EnterTypes, WriteTypes, TruncateTypes, AllocateTypes, WriteRetTypes, WritevTypes,
     EmitEventTypes, AllocateRetTypes, UnlinkTypes, RenameTypes
<1>2. ASSUME NEW i \in Inodes, handle_security_mmap_file(i) \/ Store(i) PROVE Types'
  BY <1>2, MmapTypes, StoreTypes
<1>3. ASSUME NEW page \in dirty, handle_folio_start_writeback(page) PROVE Types'
  BY <1>3, WritebackTypes
<1>4. CASE handle_event \/ capture_and_send \/ snapshot_mmap_files \/ send_batch
  BY <1>4, HandleEventTypes, CaptureTypes, SnapshotTypes, SendTypes
<1>5. CASE UNCHANGED vars
  <2>1. UNCHANGED <<setup, ops, primary, hooks, ring, lost, user, daemon>>
    BY <1>5 DEF vars, app, sink
  <2>2. ops' = ops /\ setup' = setup /\ ops \in Nat /\ SetupTypes'
    BY <2>1, SetupTyped DEF SetupTypes, Types
  <2>3. DataTypes' /\ CallTypes' /\ CallBounds' /\ RingTypes'
    BY <2>1, <2>2, SameDataTypes, SameCallTypes, SameRingTypes
    DEF Types, primary, hooks, RingTypes
  <2>4. NameTypes' /\ MapTypes' /\ UserTypes'
    BY <2>1 DEF Types, NameTypes, MapTypes, UserTypes, primary, hooks, user
  <2> QED BY <2>2, <2>3, <2>4 DEF Types
<1> QED BY <1>1, <1>2, <1>3, <1>4, <1>5 DEF Next

(* Types: every variable keeps its type, for any threads, files, sizes and *)
(* limits and whatever the application does; contents never grow beyond    *)
(* the bound, since a call that grows a file noted its arguments within    *)
(* it, and every event names a file.                                       *)
THEOREM TypesAlways == Spec => []TypeOK
<1>1. Init => Types
  BY InitTypes
<1>2. Types /\ [Next]_vars => Types'
  BY NextTypes
<1>3. Types => TypeOK
  BY TypesSuffice
<1> QED BY <1>1, <1>2, <1>3, PTL DEF Spec

-----------------------------------------------------------------------------
(* Names.  A name leads to the file whose dentry has it; a call on the     *)
(* content of a file noted the name that leads to it, since a file is not  *)
(* renamed or removed while a call on it is under way.                     *)
NamedRight == \A n \in Names : dir[n] # NoIno => dentry[dir[n]] = n
NotedRight == \A t \in Threads :
  ~Idle(t) /\ calls[t].kind \in DataKinds =>
    Live(calls[t].ino) /\ calls[t].name = dentry[calls[t].ino]

(* A mapped file is known by its name, which leads to no other file, or    *)
(* will be once the events up to place k are handled, and no event after   *)
(* that says otherwise.                                                    *)
Tells(e, i) == Naming(e) /\ e.ino = i
Known(i, k) ==
  /\ k = 0 => i \in DOMAIN files /\ files[i] = dentry[i]
  /\ k > 0 => Tells(ring[k], i)
  /\ \A n \in 1..Len(ring) : n >= k /\ Tells(ring[n], i) => ring[n].name = dentry[i]
MappedKnown == \A i \in mmap_files :
  dir[dentry[i]] \in {i, NoIno} /\ \E k \in 0..Len(ring) : Known(i, k)

NamesInv == NamedRight /\ NotedRight /\ MappedKnown

(* Every mapping that is new to the map finds room for its event.          *)
MappingHeard == mmap_files' # mmap_files => Room

LEMMA NamesSuffice == Types /\ NamesInv => PathsCurrent
<1> SUFFICES ASSUME Types, NamesInv, ring = <<>>, NEW i \in mmap_files, Live(i)
             PROVE  i \in DOMAIN files /\ files[i] = dentry[i]
  BY DEF PathsCurrent
<1>1. PICK k \in 0..Len(ring) : Known(i, k)
  BY DEF NamesInv, MappedKnown
<1>2. k = 0
  OBVIOUS
<1> QED BY <1>1, <1>2 DEF Known

(* What the ring tells of a file stays true when an event is added that    *)
(* tells its name, or none.                                                *)
LEMMA KnownAppended ==
  ASSUME Types, UNCHANGED files, NEW i, dentry'[i] = dentry[i], NEW e,
         ring' = ring \/ ring' = Append(ring, e), Tells(e, i) => e.name = dentry[i],
         NEW k \in 0..Len(ring), Known(i, k)
  PROVE  Known(i, k)' /\ k \in 0..Len(ring')
<1>1. ring \in Seq(Events)
  BY DEF Types, RingTypes
<1>2. CASE ring' = ring
  BY <1>2 DEF Known
<1>3. CASE ring' = Append(ring, e)
  <2>1. /\ Len(ring) \in Nat /\ Len(ring') = Len(ring) + 1 /\ ring'[Len(ring) + 1] = e
        /\ \A n \in 1..Len(ring) : ring'[n] = ring[n]
    BY <1>1, <1>3
  <2>2. k \in 0..Len(ring')
    BY <2>1
  <2>3. k > 0 => Tells(ring'[k], i)
    BY <2>1 DEF Known
  <2>4. ASSUME NEW n \in 1..Len(ring'), n >= k, Tells(ring'[n], i)
        PROVE  ring'[n].name = dentry[i]
    <3>1. CASE n = Len(ring) + 1
      BY <2>1, <2>4, <3>1
    <3>2. CASE n # Len(ring) + 1
      <4>1. n \in 1..Len(ring)
        BY <2>1, <3>2
      <4> QED BY <2>1, <2>4, <4>1 DEF Known
    <3> QED BY <3>1, <3>2
  <2>5. k = 0 => i \in DOMAIN files' /\ files'[i] = dentry'[i]
    BY DEF Known
  <2>6. Known(i, k)'
    BY <2>3, <2>4, <2>5 DEF Known, Tells, Naming
  <2> QED BY <2>2, <2>6
<1> QED BY <1>2, <1>3

LEMMA RingAppended ==
  ASSUME Types, MappedKnown, UNCHANGED <<dir, dentry, mmap_files, files>>, NEW e,
         ring' = ring \/ ring' = Append(ring, e),
         \A i \in mmap_files : Tells(e, i) => e.name = dentry[i]
  PROVE  MappedKnown'
<1> SUFFICES ASSUME NEW i \in mmap_files'
             PROVE  dir'[dentry'[i]] \in {i, NoIno} /\ \E k \in 0..Len(ring') : Known(i, k)'
  BY DEF MappedKnown
<1>1. PICK k \in 0..Len(ring) : Known(i, k)
  BY DEF MappedKnown
<1>2. Known(i, k)' /\ k \in 0..Len(ring')
  BY <1>1, KnownAppended
<1> QED BY <1>2 DEF MappedKnown

LEMMA RingSame ==
  ASSUME MappedKnown, UNCHANGED <<dir, dentry, mmap_files, files, ring>>
  PROVE  MappedKnown'
BY DEF MappedKnown, Known, Live

LEMMA NamedSame ==
  ASSUME NamedRight, UNCHANGED <<dir, dentry>>
  PROVE  NamedRight'
BY DEF NamedRight

(* A call keeps the file and the name it noted until its thread is idle    *)
(* again.                                                                  *)
KeepsNames == \A t \in Threads : ~Idle(t)' =>
  /\ ~Idle(t) /\ calls'[t].kind = calls[t].kind
  /\ calls'[t].ino = calls[t].ino /\ calls'[t].name = calls[t].name

LEMMA NotedSame ==
  ASSUME NotedRight, KeepsNames, UNCHANGED <<dir, dentry>>
  PROVE  NotedRight'
<1> SUFFICES ASSUME NEW t \in Threads, ~Idle(t)', calls'[t].kind \in DataKinds
             PROVE  Live(calls[t].ino)' /\ calls'[t].name = dentry'[calls'[t].ino]
  BY DEF NotedRight
<1>1. ~Idle(t) /\ calls[t].kind \in DataKinds /\ calls'[t].ino = calls[t].ino
  BY DEF KeepsNames
<1>2. Live(calls[t].ino)
  BY <1>1 DEF NotedRight
<1> QED BY <1>1, <1>2 DEF NotedRight, KeepsNames, Live

LEMMA LeaveKeeps ==
  ASSUME CallTypes, NEW t \in Threads, Leave(t)
  PROVE  KeepsNames
BY DEF CallTypes, Leave, KeepsNames, Idle

LEMMA SetKeeps ==
  ASSUME CallTypes, NEW t \in Threads, NEW d, ~Idle(t), calls' = [calls EXCEPT ![t] = d],
         d.kind = calls[t].kind, d.ino = calls[t].ino, d.name = calls[t].name
  PROVE  KeepsNames
<1> SUFFICES ASSUME NEW u \in Threads, ~Idle(u)'
             PROVE  /\ ~Idle(u) /\ calls'[u].kind = calls[u].kind
                    /\ calls'[u].ino = calls[u].ino /\ calls'[u].name = calls[u].name
  BY DEF KeepsNames
<1>1. CASE u = t
  BY <1>1 DEF CallTypes
<1>2. CASE u # t
  BY <1>2 DEF CallTypes, Idle
<1> QED BY <1>1, <1>2

(* A call on content notes the name the file has.                          *)
LEMMA EnterNames ==
  ASSUME Orderly, Types, NamesInv, NEW t \in Threads, Enter(t)
  PROVE  NamesInv'
<1>1. PICK k \in DataKinds, i \in Inodes :
        /\ MayCall(t) /\ Start(k)
        /\ \E a \in Arguments(k) :
             LET c == Call(k, i, dentry[i], dentry[i], a[1], a[2], a[3])
             IN /\ k # "append" => c.off + c.len <= setup.cells
                /\ c.len % c.seg = 0 /\ MayChange(c)
                /\ calls' = [calls EXCEPT ![t] = c]
        /\ UNCHANGED <<primary, mmap_files, ring, lost, user, sink>>
  BY DEF Enter
<1>2. PICK c : calls' = [calls EXCEPT ![t] = c] /\ c.ino = i /\ c.name = dentry[i] /\ Live(i)
  <2>1. PICK a \in Arguments(k) :
          LET c == Call(k, i, dentry[i], dentry[i], a[1], a[2], a[3])
          IN calls' = [calls EXCEPT ![t] = c] /\ MayChange(c)
    BY <1>1
  <2> DEFINE d == Call(k, i, dentry[i], dentry[i], a[1], a[2], a[3])
  <2>2. d.ino = i /\ d.name = dentry[i]
    BY DEF Call
  <2> HIDE DEF d
  <2>3. calls' = [calls EXCEPT ![t] = d] /\ MayChange(d)
    BY <2>1 DEF d
  <2> QED BY <2>2, <2>3 DEF MayChange
<1>3. UNCHANGED <<dir, dentry, mmap_files, files, ring>>
  BY <1>1 DEF primary, user
<1>4. NamedRight' /\ MappedKnown'
  BY <1>3, NamedSame, RingSame DEF NamesInv
<1>5. ASSUME NEW u \in Threads, ~Idle(u)', calls'[u].kind \in DataKinds
      PROVE  Live(calls[u].ino)' /\ calls'[u].name = dentry'[calls'[u].ino]
  <2>1. CASE u = t
    BY <1>2, <1>3, <2>1 DEF Types, CallTypes, Live
  <2>2. CASE u # t
    <3>1. calls'[u] = calls[u] /\ ~Idle(u)
      BY <1>2, <1>5, <2>2 DEF Types, CallTypes, Idle
    <3> QED BY <1>3, <1>5, <3>1 DEF NamesInv, NotedRight, Live
  <2> QED BY <2>1, <2>2
<1>6. NotedRight'
  BY <1>5 DEF NotedRight
<1> QED BY <1>4, <1>6 DEF NamesInv

(* The kernel works on the content only.                                   *)
LEMMA WorkNames ==
  ASSUME NamesInv, Work, KeepsNames
  PROVE  NamesInv'
<1>1. UNCHANGED <<dir, dentry, mmap_files, files, ring>>
  BY DEF Work, user
<1> QED BY <1>1, NamedSame, RingSame, NotedSame DEF NamesInv

LEMMA EffectNames ==
  ASSUME Types, NamesInv, NEW t \in Threads,
         vfs_write(t) \/ do_truncate(t) \/ vfs_fallocate(t)
  PROVE  NamesInv'
<1> DEFINE c == calls[t]
<1>1. ~Idle(t) /\ Work
  BY DEF vfs_write, do_truncate, vfs_fallocate
<1>2. c \in Records /\ calls \in [Threads -> Records \cup {NoCall}] /\ CallTypes
  BY <1>1, UnderWay DEF Types, CallTypes
<1>3. CASE Leave(t)
  BY <1>1, <1>2, <1>3, LeaveKeeps, WorkNames
<1>4. ASSUME NEW d, calls' = [calls EXCEPT ![t] = d],
             d.kind = c.kind, d.ino = c.ino, d.name = c.name
      PROVE  NamesInv'
  <2>1. KeepsNames
    BY <1>1, <1>2, <1>4, SetKeeps
  <2> QED BY <1>1, <2>1, WorkNames
<1>5. CASE calls' = [calls EXCEPT ![t].at = "done"]
  <2> DEFINE d == [c EXCEPT !.at = "done"]
  <2>1. calls' = [calls EXCEPT ![t] = d]
    BY <1>2, <1>5
  <2>2. d.kind = c.kind /\ d.ino = c.ino /\ d.name = c.name
    BY <1>2 DEF Records
  <2> HIDE DEF d
  <2> QED BY <1>4, <2>1, <2>2
<1>6. ASSUME NEW end, NEW ret,
             calls' = [calls EXCEPT ![t].at = "done", ![t].end = end, ![t].ret = ret]
      PROVE  NamesInv'
  <2> DEFINE d == [c EXCEPT !.at = "done", !.end = end, !.ret = ret]
  <2>1. calls' = [calls EXCEPT ![t] = d]
    BY <1>2, <1>6
  <2>2. d.kind = c.kind /\ d.ino = c.ino /\ d.name = c.name
    BY <1>2 DEF Records
  <2> HIDE DEF d
  <2> QED BY <1>4, <2>1, <2>2
<1>7. CASE do_truncate(t) \/ vfs_fallocate(t)
  <2>1. Leave(t) \/ calls' = [calls EXCEPT ![t].at = "done"]
    BY <1>7 DEF do_truncate, vfs_fallocate
  <2> QED BY <1>3, <1>5, <2>1
<1>8. CASE vfs_write(t)
  <2> DEFINE pos == IF c.kind = "append" THEN Len(data[c.ino]) ELSE c.off
  <2>1. PICK n :
          \/ Leave(t)
          \/ calls' = [calls EXCEPT ![t].at = "done", ![t].end = pos + n, ![t].ret = n]
    BY <1>8 DEF vfs_write
  <2> HIDE DEF pos
  <2> QED BY <1>3, <1>6, <2>1
<1> QED BY <1>7, <1>8

(* A fexit hook tells the name the call noted.                             *)
LEMMA HookNames ==
  ASSUME Types, NamesInv, NEW t \in Threads, ~Idle(t), Hook, KeepsNames, NEW e,
         ring' = ring \/ ring' = Append(ring, e),
         e.ino = calls[t].ino /\ e.name = calls[t].name,
         Naming(e) => calls[t].kind \in DataKinds
  PROVE  NamesInv'
<1>1. UNCHANGED <<dir, dentry, mmap_files, files>>
  BY DEF Hook, primary, user
<1>2. ASSUME NEW i \in mmap_files, Tells(e, i) PROVE e.name = dentry[i]
  BY <1>2 DEF NamesInv, NotedRight, Tells
<1>3. MappedKnown'
  BY <1>1, <1>2, RingAppended DEF NamesInv
<1> QED BY <1>1, <1>3, NamedSame, NotedSame DEF NamesInv

LEMMA ChunkNames ==
  ASSUME Types, NamesInv, NEW t \in Threads, handle_vfs_write_ret(t) \/ writev_emit_seg(t)
  PROVE  NamesInv'
<1> DEFINE c == calls[t]
<1>1. ~Idle(t) /\ Hook /\ c.kind \in DataKinds
  BY DEF handle_vfs_write_ret, writev_emit_seg, Finished, DataKinds, Writes
<1>2. c \in Records /\ CallTypes
  BY <1>1, UnderWay DEF Types
<1>3. \/ ring' = ring /\ Leave(t)
      \/ \E off, n, cut : ring' = Append(ring, Chunk(c, off, n, cut))
  BY DEF handle_vfs_write_ret, writev_emit_seg
<1>4. KeepsNames
  <2>1. Leave(t) \/ \E n : calls' = [calls EXCEPT ![t].sent = @ + n]
    BY DEF handle_vfs_write_ret, writev_emit_seg
  <2>2. ASSUME NEW n, calls' = [calls EXCEPT ![t].sent = @ + n] PROVE KeepsNames
    <3> DEFINE d == [c EXCEPT !.sent = c.sent + n]
    <3>1. calls' = [calls EXCEPT ![t] = d]
      BY <1>2, <2>2 DEF CallTypes
    <3>2. d.kind = c.kind /\ d.ino = c.ino /\ d.name = c.name
      BY <1>2 DEF Records
    <3> HIDE DEF d
    <3> QED BY <1>1, <1>2, <3>1, <3>2, SetKeeps
  <2> QED BY <1>2, <2>1, <2>2, LeaveKeeps
<1>5. ring' = ring => NamesInv'
  <2>1. UNCHANGED <<dir, dentry, mmap_files, files>>
    BY <1>1 DEF Hook, primary, user
  <2> QED BY <1>4, <2>1, NamedSame, NotedSame, RingSame DEF NamesInv
<1>6. ASSUME NEW off, NEW n, NEW cut, ring' = Append(ring, Chunk(c, off, n, cut))
      PROVE  NamesInv'
  <2> DEFINE e == Chunk(c, off, n, cut)
  <2>1. e.ino = c.ino /\ e.name = c.name
    BY DEF Chunk, Event
  <2>2. ring' = Append(ring, e)
    BY <1>6
  <2> HIDE DEF e
  <2> QED BY <1>1, <1>4, <2>1, <2>2, HookNames
<1> QED BY <1>3, <1>5, <1>6

LEMMA EmitEventNames ==
  ASSUME Types, NamesInv, NEW t \in Threads, emit_pending_event(t)
  PROVE  NamesInv'
<1> DEFINE c == calls[t]
           e == EventOf(c)
<1>1. ~Idle(t) /\ Emit(e) /\ Leave(t) /\ Hook
  BY DEF emit_pending_event, Finished
<1>2. c \in Records /\ CallTypes /\ Within(c, ops, setup.cells)
  BY <1>1, UnderWay DEF Types
<1>3. c.kind \in Single
  <2>1. CASE Finished(t, {"truncate", "zero", "zero_keep", "punch"} \cup NameKinds)
    BY <2>1 DEF Finished, NameKinds, Single
  <2>2. CASE c.at = "sized"
    BY <1>2, <2>2 DEF Within, Single
  <2> QED BY <2>1, <2>2 DEF emit_pending_event
<1>4. e.ino = c.ino /\ e.name = c.name /\ (Naming(e) => c.kind \in DataKinds)
  BY <1>2, <1>3, EventOfTyped DEF DataKinds, Allocs
<1>5. KeepsNames
  BY <1>1, <1>2, LeaveKeeps
<1>6. ring' = ring \/ ring' = Append(ring, e)
  BY <1>1 DEF Emit
<1> HIDE DEF e
<1> QED BY <1>1, <1>4, <1>5, <1>6, HookNames

LEMMA AllocateRetNames ==
  ASSUME Types, NamesInv, NEW t \in Threads, handle_vfs_fallocate_ret(t)
  PROVE  NamesInv'
<1> DEFINE c == calls[t]
<1>1. ~Idle(t) /\ Hook /\ ring' = ring
  BY DEF handle_vfs_fallocate_ret, Finished
<1>2. c \in Records /\ CallTypes
  BY <1>1, UnderWay DEF Types
<1>3. KeepsNames
  <2>1. CASE Leave(t)
    BY <1>2, <2>1, LeaveKeeps
  <2>2. CASE calls' = [calls EXCEPT ![t].at = "sized", ![t].len = Len(data[c.ino])]
    <3> DEFINE d == [c EXCEPT !.at = "sized", !.len = Len(data[c.ino])]
    <3>1. calls' = [calls EXCEPT ![t] = d]
      BY <1>2, <2>2 DEF CallTypes
    <3>2. d.kind = c.kind /\ d.ino = c.ino /\ d.name = c.name
      BY <1>2 DEF Records
    <3> HIDE DEF d
    <3> QED BY <1>1, <1>2, <3>1, <3>2, SetKeeps
  <2> QED BY <2>1, <2>2 DEF handle_vfs_fallocate_ret
<1>4. UNCHANGED <<dir, dentry, mmap_files, files, ring>>
  BY <1>1 DEF Hook, primary, user
<1> QED BY <1>3, <1>4, NamedSame, NotedSame, RingSame DEF NamesInv

(* A step that touches neither names, calls, the map nor the table.        *)
LEMMA OtherNames ==
  ASSUME Types, NamesInv, UNCHANGED <<dir, dentry, mmap_files, files, calls>>, MappedKnown'
  PROVE  NamesInv'
<1>1. KeepsNames
  BY DEF KeepsNames, Idle
<1> QED BY <1>1, NamedSame, NotedSame DEF NamesInv

-----------------------------------------------------------------------------
(* A call that changes names, as such, is not one on content.              *)
LEMMA NamedNoted ==
  ASSUME Types, NEW t \in Threads, NEW k \in NameKinds, NEW i, NEW n, NEW m,
         Named(t, Call(k, i, n, m, 0, 0, 1))
  PROVE  \A u \in Threads : ~Idle(u)' /\ calls'[u].kind \in DataKinds =>
           u # t /\ ~Idle(u) /\ calls'[u] = calls[u]
<1> DEFINE d == [Call(k, i, n, m, 0, 0, 1) EXCEPT !.at = "done"]
<1>1. d.kind = k
  BY DEF Call
<1>2. calls' = [calls EXCEPT ![t] = d]
  BY DEF Named
<1>3. k \notin DataKinds
  BY DEF NameKinds, Renames, DataKinds, Writes, Allocs
<1> HIDE DEF d
<1> QED BY <1>1, <1>2, <1>3 DEF Types, CallTypes, Idle

LEMMA UnlinkNames ==
  ASSUME Orderly, Types, NamesInv, NEW t \in Threads, vfs_unlink(t)
  PROVE  NamesInv'
<1>1. PICK n \in Names :
        /\ dir[n] # NoIno /\ MayUnname(dir[n])
        /\ dir' = [dir EXCEPT ![n] = NoIno]
        /\ Named(t, Call("unlink", dir[n], n, n, 0, 0, 1))
        /\ UNCHANGED <<data, dentry, mapped, dirty, mmap_files, ring, lost, user, sink>>
  BY DEF vfs_unlink
<1>2. /\ dir \in [Names -> Inodes \cup {NoIno}] /\ dentry \in [Inodes -> Names]
      /\ NoIno \notin Inodes /\ mmap_files \subseteq Inodes
  BY FileAssumption DEF Types, NameTypes, MapTypes
<1>3. NamedRight'
  BY <1>1, <1>2 DEF NamesInv, NamedRight
<1>4. ASSUME NEW i \in Inodes, Live(i), i # dir[n] PROVE Live(i)'
  BY <1>1, <1>2, <1>4 DEF Live
<1>5. NotedRight'
  <2> SUFFICES ASSUME NEW u \in Threads, ~Idle(u)', calls'[u].kind \in DataKinds
               PROVE  Live(calls[u].ino)' /\ calls'[u].name = dentry'[calls'[u].ino]
    BY DEF NotedRight
  <2>1. ~Idle(u) /\ calls'[u] = calls[u]
    BY <1>1, NamedNoted DEF NameKinds
  <2>2. calls[u].ino \in Inodes /\ Live(calls[u].ino) /\ calls[u].name = dentry[calls[u].ino]
    BY <2>1 DEF Types, CallTypes, Records, Idle, NamesInv, NotedRight
  <2>3. calls[u].ino # dir[n]
    BY <1>1, <2>1 DEF MayUnname, OnFile
  <2> QED BY <1>1, <1>4, <2>1, <2>2, <2>3 DEF Live
<1>6. ASSUME NEW i \in mmap_files
      PROVE  dir'[dentry'[i]] \in {i, NoIno} /\ \E k \in 0..Len(ring) : Known(i, k)
  BY <1>1, <1>2 DEF NamesInv, MappedKnown
<1>7. MappedKnown'
  BY <1>1, <1>6 DEF MappedKnown, Known, user
<1> QED BY <1>3, <1>5, <1>7 DEF NamesInv

(* Where the discipline of the application is needed: no call is under way *)
(* on a file that is renamed, and it is not mapped.  The old name is left  *)
(* to the file exchanged for it, if any.                                   *)
LEMMA RenameNames ==
  ASSUME Orderly, Types, NamesInv, NEW t \in Threads, vfs_rename(t)
  PROVE  NamesInv'
<1>1. PICK n \in Names, m \in Names, kind \in Renames :
        /\ n # m /\ dir[n] # NoIno /\ MayRename(dir[n], m) /\ (Rename(n, m) \/ Exchange(n, m))
        /\ Named(t, Call(kind, dir[n], n, m, 0, 0, 1))
        /\ UNCHANGED <<data, mapped, dirty, mmap_files, ring, lost, user, sink>>
  BY DEF vfs_rename
<1>2. /\ dir \in [Names -> Inodes \cup {NoIno}] /\ dentry \in [Inodes -> Names]
      /\ NoIno \notin Inodes /\ mmap_files = mapped /\ mapped \subseteq Inodes
  BY FileAssumption DEF Types, NameTypes, MapTypes
<1>3. PICK r, o :
        /\ r = dir[n] /\ o \in {NoIno, dir[m]}
        /\ dir' = [dir EXCEPT ![n] = o, ![m] = r]
        /\ \A i \in Inodes : dentry'[i] = IF i = r THEN m ELSE IF i = o THEN n ELSE dentry[i]
        /\ o # NoIno => MayRename(o, n)
  <2>1. CASE Rename(n, m)
    BY <1>1, <1>2, <2>1 DEF Rename
  <2>2. CASE Exchange(n, m)
    <3> DEFINE o == dir[m]
    <3>1. o \in Inodes /\ dir[n] \in Inodes /\ MayRename(o, n) /\ dentry[o] = m /\ dentry[dir[n]] = n
      BY <1>1, <1>2, <2>2 DEF Exchange, NamesInv, NamedRight
    <3>2. dir' = [dir EXCEPT ![n] = o, ![m] = dir[n]]
      BY <2>2 DEF Exchange
    <3>3. \A i \in Inodes : dentry'[i] = IF i = dir[n] THEN m ELSE IF i = o THEN n ELSE dentry[i]
      BY <1>1, <1>2, <2>2, <3>1 DEF Exchange
    <3> QED BY <3>1, <3>2, <3>3
  <2> QED BY <1>1, <2>1, <2>2
<1>4. /\ r \in Inodes /\ r \notin mapped /\ OnFile(r) = {} /\ dentry[r] = n
      /\ OnFile(dir[m]) = {} /\ \A i \in mapped : dentry[i] # m
      /\ o # NoIno => o \notin mapped /\ dentry[o] = m /\ \A i \in mapped : dentry[i] # n
  BY <1>1, <1>2, <1>3 DEF MayRename, NamesInv, NamedRight
<1>5. \A q \in Names : dir'[q] = IF q = m THEN r ELSE IF q = n THEN o ELSE dir[q]
  BY <1>1, <1>2, <1>3
<1>6. \A i \in Inodes : dentry'[i] = IF i = r THEN m ELSE IF i = o THEN n ELSE dentry[i]
  BY <1>3
<1>7. NamedRight'
  <2> SUFFICES ASSUME NEW q \in Names, dir'[q] # NoIno PROVE dentry'[dir'[q]] = q
    BY DEF NamedRight
  <2>1. CASE q = m
    BY <1>4, <1>5, <1>6, <2>1
  <2>2. CASE q = n /\ q # m
    <3>1. dir'[q] = o /\ o \in Inodes /\ o # r
      BY <1>1, <1>2, <1>3, <1>4, <1>5, <2>2
    <3> QED BY <1>6, <2>2, <3>1
  <2>3. CASE q # m /\ q # n
    <3>1. dir'[q] = dir[q] /\ dir[q] # NoIno
      BY <1>5, <2>3
    <3>2. dentry[dir[q]] = q /\ dir[q] \in Inodes
      BY <1>2, <3>1 DEF NamesInv, NamedRight
    <3>3. dir[q] # r /\ dir[q] # o
      BY <1>2, <1>4, <2>3, <3>1, <3>2
    <3> QED BY <1>6, <3>1, <3>2, <3>3
  <2> QED BY <2>1, <2>2, <2>3
<1>8. ASSUME NEW i \in Inodes, i # r, Live(i), i # dir[m]
      PROVE  Live(i)' /\ dentry'[i] = dentry[i]
  <2>1. dentry'[i] = dentry[i] /\ dentry[i] \in Names /\ dir[dentry[i]] = i
    BY <1>2, <1>3, <1>6, <1>8 DEF Live
  <2>2. dentry[i] # m /\ dentry[i] # n
    BY <1>3, <1>8, <2>1
  <2> QED BY <1>5, <2>1, <2>2 DEF Live
<1>9. NotedRight'
  <2> SUFFICES ASSUME NEW u \in Threads, ~Idle(u)', calls'[u].kind \in DataKinds
               PROVE  Live(calls[u].ino)' /\ calls'[u].name = dentry'[calls'[u].ino]
    BY DEF NotedRight
  <2>1. ~Idle(u) /\ calls'[u] = calls[u]
    BY <1>1, NamedNoted DEF NameKinds
  <2>2. calls[u].ino \in Inodes /\ Live(calls[u].ino) /\ calls[u].name = dentry[calls[u].ino]
    BY <2>1 DEF Types, CallTypes, Records, Idle, NamesInv, NotedRight
  <2>3. calls[u].ino # r /\ calls[u].ino # dir[m]
    BY <1>4, <2>1 DEF OnFile
  <2>4. Live(calls[u].ino)' /\ dentry'[calls[u].ino] = dentry[calls[u].ino]
    BY <1>8, <2>1, <2>2, <2>3 DEF Live
  <2> QED BY <2>1, <2>2, <2>4 DEF Live
<1>10. ASSUME NEW i \in mmap_files
       PROVE  /\ dentry'[i] = dentry[i] /\ dir'[dentry'[i]] \in {i, NoIno}
              /\ \E k \in 0..Len(ring) : Known(i, k)
  <2>1. /\ dentry'[i] = dentry[i] /\ dentry[i] \in Names /\ dentry[i] # m
        /\ o # NoIno => dentry[i] # n
    BY <1>2, <1>4, <1>6
  <2> QED BY <1>2, <1>5, <2>1 DEF NamesInv, MappedKnown
<1>11. MappedKnown'
  <2> SUFFICES ASSUME NEW i \in mmap_files'
               PROVE  dir'[dentry'[i]] \in {i, NoIno} /\ \E k \in 0..Len(ring') : Known(i, k)'
    BY DEF MappedKnown
  <2>1. mmap_files' = mmap_files /\ ring' = ring /\ files' = files
    BY <1>1 DEF user
  <2>2. PICK k \in 0..Len(ring) : Known(i, k)
    BY <1>10, <2>1
  <2>3. Known(i, k)'
    BY <1>10, <2>1, <2>2 DEF Known
  <2> QED BY <1>10, <2>1, <2>2, <2>3
<1> QED BY <1>7, <1>9, <1>11 DEF NamesInv

-----------------------------------------------------------------------------
(* A file that is mapped for the first time has the last word in the ring. *)
LEMMA MmapNames ==
  ASSUME Orderly, Types, NamesInv, NEW i \in Inodes, handle_security_mmap_file(i), MappingHeard
  PROVE  NamesInv'
<1> DEFINE c == Call("mmap", i, dentry[i], dentry[i], 0, 0, 1)
           e == Event("mmap", c)
<1>1. /\ mmap_files' = mmap_files \cup {i}
      /\ ring' = IF Room THEN Append(ring, e) ELSE ring
      /\ Live(i) /\ UNCHANGED <<dir, dentry, calls, files>>
  BY DEF handle_security_mmap_file, user, MayMap
<1>2. e.ino = i /\ e.name = dentry[i] /\ Naming(e)
  BY DEF Event, Call, Naming
<1>3. ring \in Seq(Events)
  BY DEF Types, RingTypes
<1> HIDE DEF e
<1>4. CASE i \in mmap_files
  <2>1. mmap_files' = mmap_files
    BY <1>1, <1>4
  <2>2. ring' = ring \/ ring' = Append(ring, e)
    BY <1>1
  <2>3. \A j \in mmap_files : Tells(e, j) => e.name = dentry[j]
    BY <1>2 DEF Tells
  <2>4. MappedKnown'
    BY <1>1, <2>1, <2>2, <2>3, RingAppended DEF NamesInv
  <2> QED BY <1>1, <2>1, <2>4, OtherNames
<1>5. CASE i \notin mmap_files
  <2>1. ring' = Append(ring, e)
    BY <1>1, <1>5 DEF MappingHeard
  <2>2. /\ Len(ring) \in Nat /\ Len(ring') = Len(ring) + 1 /\ ring'[Len(ring) + 1] = e
        /\ \A n \in 1..Len(ring) : ring'[n] = ring[n]
    BY <1>3, <2>1
  <2>3. PICK last \in Nat : last = Len(ring) + 1
    BY <2>2
  <2>4. Known(i, last)' /\ last \in 0..Len(ring')
    <3>1. last > 0 /\ last \in 0..Len(ring') /\ Tells(ring'[last], i)
      BY <1>2, <2>2, <2>3 DEF Tells
    <3>2. ASSUME NEW n \in 1..Len(ring'), n >= last PROVE ring'[n].name = dentry'[i]
      <4>1. n = last
        BY <2>2, <2>3, <3>2
      <4> QED BY <1>1, <1>2, <2>2, <2>3, <4>1
    <3> QED BY <3>1, <3>2 DEF Known, Tells, Naming
  <2>5. ASSUME NEW j \in mmap_files PROVE \E k \in 0..Len(ring') : Known(j, k)'
    <3>1. j # i /\ dentry'[j] = dentry[j] /\ files' = files /\ ~Tells(e, j)
      BY <1>1, <1>2, <1>5 DEF Tells
    <3>2. PICK k \in 0..Len(ring) : Known(j, k)
      BY DEF NamesInv, MappedKnown
    <3> QED BY <2>1, <3>1, <3>2, KnownAppended
  <2>6. MappedKnown'
    <3> SUFFICES ASSUME NEW j \in mmap_files'
                 PROVE  /\ dir'[dentry'[j]] \in {j, NoIno}
                        /\ \E k \in 0..Len(ring') : Known(j, k)'
      BY DEF MappedKnown
    <3>1. j = i \/ j \in mmap_files
      BY <1>1
    <3>2. CASE j = i
      BY <1>1, <2>4, <3>2 DEF Live
    <3>3. CASE j \in mmap_files
      BY <1>1, <2>5, <3>3 DEF NamesInv, MappedKnown
    <3> QED BY <3>1, <3>2, <3>3
  <2>7. KeepsNames
    BY <1>1 DEF KeepsNames, Idle
  <2> QED BY <1>1, <2>6, <2>7, NamedSame, NotedSame DEF NamesInv
<1> QED BY <1>4, <1>5

LEMMA StoreNames ==
  ASSUME Types, NamesInv, NEW i \in Inodes, Store(i)
  PROVE  NamesInv'
<1>1. UNCHANGED <<dir, dentry, mmap_files, files, calls, ring>>
  BY DEF Store, hooks, user
<1> QED BY <1>1, OtherNames, RingSame DEF NamesInv

LEMMA WritebackNames ==
  ASSUME Types, NamesInv, NEW page \in dirty, handle_folio_start_writeback(page)
  PROVE  NamesInv'
<1> DEFINE e == Written(page)
<1>1. UNCHANGED <<dir, dentry, mmap_files, files, calls>>
  BY DEF handle_folio_start_writeback, hooks, user
<1>2. ring' = ring \/ ring' = Append(ring, e)
  BY DEF handle_folio_start_writeback, Emit
<1>3. ~Naming(e)
  BY DEF Written, Event, Call, Naming
<1> HIDE DEF e
<1>4. MappedKnown'
  BY <1>1, <1>2, <1>3, RingAppended DEF NamesInv, Tells
<1> QED BY <1>1, <1>4, OtherNames

-----------------------------------------------------------------------------
(* The first event moves from the ring to the table.                       *)
LEMMA HandleEventNames ==
  ASSUME Types, NamesInv, handle_event
  PROVE  NamesInv'
<1> DEFINE e == Head(ring)
<1>1. /\ ring # <<>> /\ ring' = Tail(ring) /\ UNCHANGED <<dir, dentry, mmap_files, calls>>
      /\ \/ Naming(e) /\ files' = Set(files, e.ino, e.name)
         \/ ~Naming(e) /\ files' = files
  BY DEF handle_event, Naming, Remember, primary, hooks
<1>2. /\ Len(ring) \in Nat /\ Len(ring) >= 1 /\ e = ring[1] /\ Len(ring') = Len(ring) - 1
      /\ \A n \in 1..Len(ring') : n + 1 \in 1..Len(ring) /\ ring'[n] = ring[n + 1]
  BY <1>1, TailTyped DEF Types, RingTypes
<1> HIDE DEF e
<1>3. ASSUME NEW i \in mmap_files
      PROVE  \E k \in 0..Len(ring') : Known(i, k)'
  <2>1. PICK k \in 0..Len(ring) : Known(i, k)
    BY DEF NamesInv, MappedKnown
  <2>2. CASE k > 1
    <3>1. PICK h \in 1..Len(ring') : h + 1 = k
      <4>1. k - 1 \in 1..Len(ring') /\ (k - 1) + 1 = k
        BY <1>2, <2>2
      <4> QED BY <4>1
    <3>2. Tells(ring'[h], i)
      BY <1>2, <2>1, <2>2, <3>1 DEF Known
    <3>3. ASSUME NEW n \in 1..Len(ring'), n >= h, Tells(ring'[n], i)
          PROVE  ring'[n].name = dentry[i]
      <4>1. n + 1 \in 1..Len(ring) /\ n + 1 >= k /\ ring'[n] = ring[n + 1]
        BY <1>2, <3>1, <3>3
      <4> QED BY <2>1, <3>3, <4>1 DEF Known
    <3>4. h # 0 /\ h \in 0..Len(ring')
      BY <1>2
    <3>5. Known(i, h)'
      BY <1>1, <3>2, <3>3, <3>4 DEF Known, Tells, Naming
    <3> QED BY <3>4, <3>5
  <2>3. CASE k <= 1
    <3>1. i \in DOMAIN files' /\ files'[i] = dentry[i]
      <4>1. CASE Tells(e, i)
        <5>1. e.name = dentry[i]
          BY <1>2, <2>1, <2>3, <4>1 DEF Known
        <5> QED BY <1>1, <4>1, <5>1 DEF Tells, Set
      <4>2. CASE ~Tells(e, i)
        <5>1. k = 0
          BY <1>2, <2>1, <2>3, <4>2 DEF Known
        <5>2. i \in DOMAIN files /\ files[i] = dentry[i]
          BY <2>1, <5>1 DEF Known
        <5> QED BY <1>1, <4>2, <5>2 DEF Tells, Set
      <4> QED BY <4>1, <4>2
    <3>2. ASSUME NEW n \in 1..Len(ring'), Tells(ring'[n], i)
          PROVE  ring'[n].name = dentry[i]
      <4>1. n + 1 \in 1..Len(ring) /\ n + 1 >= k /\ ring'[n] = ring[n + 1]
        BY <1>2, <2>3
      <4> QED BY <2>1, <3>2, <4>1 DEF Known
    <3>3. Known(i, 0)'
      BY <1>1, <3>1, <3>2 DEF Known, Tells, Naming
    <3> QED BY <1>2, <3>3
  <2> QED BY <2>2, <2>3
<1>4. MappedKnown'
  BY <1>1, <1>3 DEF NamesInv, MappedKnown
<1>5. KeepsNames
  BY <1>1 DEF KeepsNames, Idle
<1> QED BY <1>1, <1>4, <1>5, NamedSame, NotedSame DEF NamesInv

LEMMA CaptureNames ==
  ASSUME Types, NamesInv, capture_and_send \/ send_batch
  PROVE  NamesInv'
<1>1. UNCHANGED <<dir, dentry, mmap_files, files, calls, ring>>
  BY DEF capture_and_send, send_batch, primary, hooks, user
<1> QED BY <1>1, OtherNames, RingSame DEF NamesInv

(* A flush writes into an empty ring, and pages tell no names.             *)
LEMMA SnapshotNames ==
  ASSUME Types, NamesInv, snapshot_mmap_files
  PROVE  NamesInv'
<1>1. ring = <<>> /\ UNCHANGED <<dir, dentry, mmap_files, files, calls>>
  BY DEF snapshot_mmap_files, hooks, user
<1>2. Len(ring') \in Nat /\ \A n \in 1..Len(ring') : ring'[n].op = "writeback"
  BY SnapshotTypes DEF Types, RingTypes
<1>3. ASSUME NEW i \in mmap_files PROVE Known(i, 0)'
  <2>1. i \in DOMAIN files /\ files[i] = dentry[i]
    BY <1>1 DEF NamesInv, MappedKnown, Known
  <2> QED BY <1>1, <1>2, <2>1 DEF Known, Tells, Naming
<1>4. 0 \in 0..Len(ring')
  BY <1>2
<1>5. MappedKnown'
  BY <1>1, <1>3, <1>4 DEF NamesInv, MappedKnown
<1> QED BY <1>1, <1>5, OtherNames

-----------------------------------------------------------------------------
LEMMA InitNames == Init => NamesInv
BY DEF Init, NamesInv, NamedRight, NotedRight, MappedKnown, Idle

LEMMA NextNames ==
  ASSUME Orderly, Types, NamesInv, [Next]_vars, [MappingHeard]_vars
  PROVE  NamesInv'
<1>1. ASSUME NEW t \in Threads,
             \/ Enter(t) \/ vfs_write(t) \/ do_truncate(t) \/ vfs_fallocate(t)
             \/ handle_vfs_write_ret(t) \/ writev_emit_seg(t)
             \/ emit_pending_event(t) \/ handle_vfs_fallocate_ret(t)
             \/ vfs_unlink(t) \/ vfs_rename(t)
      PROVE NamesInv'
  BY <1>1, EnterNames, EffectNames, ChunkNames, EmitEventNames, AllocateRetNames,
     UnlinkNames, RenameNames
<1>2. ASSUME NEW i \in Inodes, handle_security_mmap_file(i) PROVE NamesInv'
  <2>1. MappingHeard
    BY DEF vars, hooks, MappingHeard
  <2> QED BY <1>2, <2>1, MmapNames
<1>3. ASSUME NEW i \in Inodes, Store(i) PROVE NamesInv'
  BY <1>3, StoreNames
<1>4. ASSUME NEW page \in dirty, handle_folio_start_writeback(page) PROVE NamesInv'
  BY <1>4, WritebackNames
<1>5. CASE handle_event \/ capture_and_send \/ snapshot_mmap_files \/ send_batch
  BY <1>5, HandleEventNames, CaptureNames, SnapshotNames
<1>6. CASE UNCHANGED vars
  <2>1. UNCHANGED <<dir, dentry, mmap_files, files, calls, ring>>
    BY <1>6 DEF vars, primary, hooks, user
  <2> QED BY <2>1, OtherNames, RingSame DEF NamesInv
<1> QED BY <1>1, <1>2, <1>3, <1>4, <1>5, <1>6 DEF Next

(* With an application that keeps to the discipline, and as long as every  *)
(* new mapping finds room for its event in the ring (one that does not is  *)
(* dropped without a count), the capturer knows every mapped file that has *)
(* a name by its present one whenever the ring is empty, for any threads,  *)
(* files, names, sizes and calls, whatever renames and removals happened   *)
(* before the mapping, and however late the capturer is.                   *)
THEOREM PathsKept ==
  ASSUME Orderly
  PROVE  Spec /\ [][MappingHeard]_vars => []PathsCurrent
<1>1. Init => Types /\ NamesInv
  BY InitTypes, InitNames
<1>2. Types /\ NamesInv /\ [Next]_vars /\ [MappingHeard]_vars => (Types /\ NamesInv)'
  BY NextTypes, NextNames
<1>3. Types /\ NamesInv => PathsCurrent
  BY NamesSuffice
<1> QED BY <1>1, <1>2, <1>3, PTL DEF Spec
=============================================================================
