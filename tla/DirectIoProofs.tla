--------------------------- MODULE DirectIoProofs ---------------------------
(***************************************************************************)
(* Theorems about DirectIo: every variable keeps its type, no write is left*)
(* behind in the table of tentative writes, the backup goes through states *)
(* of the primary only and ends in its last, and a capture fails only for a*)
(* reason.                                                                 *)
(***************************************************************************)
EXTENDS DirectIo, ReplayProofs, FiniteSetTheorems

-----------------------------------------------------------------------------
(* Types, including those of what is under way.                            *)

Cell == {Zero} \cup 1..MaxOps
Events == [op : {"submit", "done", "complete", "abort", "write"},
           cookie : Cookies \cup {NoOp}, file : Files \cup {NoOp}, off : Nat,
           data : Seq(Cell), size : Nat, ret : Nat, truncated : BOOLEAN]
Job   == [cookie : Cookies, ib : Request, sent : Nat]
Segs  == Seq([off : Nat, data : Seq(Cell), truncated : BOOLEAN])
Entry == [segs : Segs, size : Nat, done : BOOLEAN, aborted : BOOLEAN, seen : BOOLEAN,
          order : Nat, res : Nat, file : Files \cup {NoOp}]

AppTypes ==
  /\ disk \in [Files -> Seq(Cell)] /\ count \in 0..MaxOps
  /\ iocb \in [Cookies -> Request \cup {NoOp}] /\ io \in [Cookies -> Request \cup {NoOp}]
HookTypes ==
  /\ pc \in [Threads -> {"idle", "issued", "refused", "staging", "aborting"}]
  /\ work \in [Threads -> Job \cup {NoOp}]
  /\ \A t \in Threads : pc[t] # "idle" => work[t] \in Job /\ iocb[work[t].cookie] \in Request
  /\ inflight \subseteq Cookies
RingTypes ==
  /\ ring \in Seq(Events) /\ Len(ring) <= RingSize /\ lost \in BOOLEAN
  /\ \A i \in 1..Len(ring) : ring[i].op # "write" => ring[i].cookie \in Cookies
TableTypes ==
  /\ dios \in [DOMAIN dios -> Entry] /\ DOMAIN dios \subseteq Cookies
  /\ next_completion_order \in Nat /\ next_commit_order \in Nat
  /\ next_commit_order <= next_completion_order
  /\ batch_error \in BOOLEAN
SinkTypes == daemon \in {"run", "failed"}

-----------------------------------------------------------------------------
(* The table: completed writes own the places from the next to commit to   *)
(* the next to be given, one each, and the first of them is not ready.     *)

Slots(d, lo, hi) ==
  /\ \A c \in DOMAIN d : d[c].seen => d[c].order \in lo..(hi - 1)
  /\ \A c, e \in DOMAIN d : d[c].seen /\ d[e].seen /\ d[c].order = d[e].order => c = e
  /\ \A k \in lo..(hi - 1) : \E c \in DOMAIN d : d[c].seen /\ d[c].order = k
Flushed(d, lo) == Ready(d, lo) = {}

Queue == Slots(dios, next_commit_order, next_completion_order)
         /\ Flushed(dios, next_commit_order)

-----------------------------------------------------------------------------
(* An iocb that one thread submits and the same thread reaps.              *)

OneWork ==
  \A t, u \in Threads :
    pc[t] # "idle" /\ pc[u] # "idle" /\ work[t].cookie = work[u].cookie => t = u
SameRequest ==
  /\ \A t \in Threads : pc[t] # "idle" => work[t].ib = iocb[work[t].cookie]
  /\ \A t \in Threads : pc[t] = "refused" => io[work[t].cookie] = NoOp
  /\ \A t \in Threads : pc[t] = "staging" => IsWrite(work[t].ib)
  /\ \A c \in Cookies : io[c] # NoOp => io[c] = iocb[c]

(* Some thread still owes the last event of the payload of c.              *)
Sending(c) ==
  \E t \in Threads :
    /\ pc[t] # "idle" /\ work[t].cookie = c
    /\ pc[t] \in {"staging", "aborting"} \/ (pc[t] = "issued" /\ IsWrite(work[t].ib))
(* The kernel still owes the completion of a write.                        *)
Flying(c) == io[c] # NoOp /\ IsWrite(io[c])

Clean == ~lost /\ ~batch_error /\ \A i \in 1..Len(ring) : ring[i].op # "abort"

Which(s, op, c) == {i \in 1..Len(s) : s[i].op = op /\ s[i].cookie = c}
Times(s, op, c) == Cardinality(Which(s, op, c))
One(b) == IF b THEN 1 ELSE 0
HasDone(d, c) == c \in DOMAIN d /\ d[c].done
HasSeen(d, c) == c \in DOMAIN d /\ d[c].seen

(* Halves of the writes of c that have come, or are on their way, go in    *)
(* pairs: a payload and a completion.                                      *)
Balanced ==
  Clean =>
    \A c \in Cookies :
      Times(ring, "done", c) + One(HasDone(dios, c)) + One(Sending(c))
        = Times(ring, "complete", c) + One(HasSeen(dios, c)) + One(Flying(c))
Registered == Clean => \A c \in Cookies : Flying(c) => c \in inflight
(* A payload that has begun to arrive has its end on the way.              *)
Claimed ==
  Clean =>
    /\ \A c \in DOMAIN dios :
         dios[c].done \/ Sending(c) \/ Which(ring, "done", c) # {}
    /\ \A i \in 1..Len(ring) : ring[i].op = "submit" =>
         \/ Sending(ring[i].cookie)
         \/ \E j \in Which(ring, "done", ring[i].cookie) : i < j

-----------------------------------------------------------------------------
(* Counting events in the ring.                                            *)

LEMMA WhichFinite ==
  ASSUME NEW s \in Seq(Events), NEW op, NEW c
  PROVE  IsFiniteSet(Which(s, op, c)) /\ Times(s, op, c) \in Nat
<1>1. Which(s, op, c) \in SUBSET (1..Len(s)) BY DEF Which
<1>2. IsFiniteSet(1..Len(s)) BY FS_Interval
<1>3. IsFiniteSet(Which(s, op, c)) BY <1>1, <1>2, FS_Subset
<1> QED BY <1>3, FS_CardinalityType DEF Times

LEMMA TimesAppend ==
  ASSUME NEW s \in Seq(Events), NEW e \in Events, NEW op, NEW c
  PROVE  Times(Append(s, e), op, c) = Times(s, op, c) + One(e.op = op /\ e.cookie = c)
<1> DEFINE w == Which(s, op, c)
           n == Len(s) + 1
<1>1. IsFiniteSet(w) /\ Cardinality(w) \in Nat BY WhichFinite DEF Times
<1>2. n \notin w BY DEF Which
<1>3. Which(Append(s, e), op, c) = IF e.op = op /\ e.cookie = c THEN w \cup {n} ELSE w
  <2>1. /\ Len(Append(s, e)) = n
        /\ \A i \in 1..n : Append(s, e)[i] = IF i = n THEN e ELSE s[i]
    OBVIOUS
  <2> QED BY <2>1 DEF Which
<1>4. Cardinality(w \cup {n}) = Cardinality(w) + 1
  <2> HIDE DEF w, n
  <2> QED BY <1>1, <1>2, FS_AddElement
<1>5. CASE e.op = op /\ e.cookie = c BY <1>3, <1>4, <1>5 DEF Times, One
<1>6. CASE ~(e.op = op /\ e.cookie = c) BY <1>1, <1>3, <1>6 DEF Times, One
<1> QED BY <1>5, <1>6

LEMMA TimesTail ==
  ASSUME NEW s \in Seq(Events), s # <<>>, NEW op, NEW c
  PROVE  Times(s, op, c)
           = Times(Tail(s), op, c) + One(Head(s).op = op /\ Head(s).cookie = c)
<1> DEFINE w == Which(s, op, c)
           v == Which(Tail(s), op, c)
           f == [i \in v |-> i + 1]
<1>1. /\ Tail(s) \in Seq(Events) /\ Len(s) \in Nat /\ Len(Tail(s)) = Len(s) - 1
      /\ \A i \in 1..Len(Tail(s)) : Tail(s)[i] = s[i + 1]
      /\ Len(s) >= 1 /\ Head(s) = s[1]
  OBVIOUS
<1>2. IsFiniteSet(w) /\ IsFiniteSet(v) /\ Cardinality(w) \in Nat /\ Cardinality(v) \in Nat
  BY <1>1, WhichFinite DEF Times
<1>3. f \in Bijection(v, w \ {1})
  <2>1. \A i \in v : i \in Nat /\ i + 1 \in w \ {1} BY <1>1 DEF Which
  <2>2. \A j \in w \ {1} : j - 1 \in v /\ (j - 1) + 1 = j BY <1>1 DEF Which
  <2>3. f \in [v -> w \ {1}] BY <2>1
  <2>4. \A i, j \in v : f[i] = f[j] => i = j BY <2>1
  <2>5. \A j \in w \ {1} : \E i \in v : f[i] = j BY <2>2
  <2> QED BY <2>3, <2>4, <2>5, Zenon DEF Bijection, Injection, Surjection, IsInjective
<1>4. Cardinality(w \ {1}) = Cardinality(v)
  <2> HIDE DEF w, v, f
  <2> QED BY <1>2, <1>3, FS_Bijection DEF ExistsBijection
<1>5. Cardinality(w \ {1}) = IF 1 \in w THEN Cardinality(w) - 1 ELSE Cardinality(w)
  <2> HIDE DEF w, v, f
  <2> QED BY <1>2, FS_RemoveElement
<1>6. 1 \in w <=> Head(s).op = op /\ Head(s).cookie = c BY <1>1 DEF Which
<1> QED BY <1>2, <1>4, <1>5, <1>6 DEF Times, One

-----------------------------------------------------------------------------
(* The table after a flush: a run of ready entries from lo on is removed.  *)

(* The places that dio_flush_completed commits.                            *)
Turns(d, lo, hi) == {k \in lo..hi : \A j \in lo..k : Ready(d, j) # {}}
At(d, k) == CHOOSE c \in Ready(d, k) : TRUE
Left(d, orders) == [c \in DOMAIN d \ {At(d, k) : k \in orders} |-> d[c]]

(* They are the first ones, without a gap, and the next is not ready.      *)
LEMMA TurnsInterval ==
  ASSUME NEW d, NEW lo \in Nat, NEW hi \in Nat
  PROVE  LET m == Cardinality(Turns(d, lo, hi))
         IN /\ m \in Nat /\ Turns(d, lo, hi) = lo..(lo + m - 1)
            /\ lo + m \notin Turns(d, lo, hi)
<1> DEFINE T == Turns(d, lo, hi)
           m == Cardinality(T)
           I == lo..(lo + m - 1)
<1>1. T \subseteq lo..hi /\ \A k \in T : \A j \in lo..k : j \in T BY DEF Turns
<1> HIDE DEF T
<1>2. IsFiniteSet(lo..hi) BY FS_Interval
<1>3. IsFiniteSet(T) /\ m \in Nat BY <1>1, <1>2, FS_Subset, FS_CardinalityType
<1> HIDE DEF m
<1>4. IsFiniteSet(I) /\ Cardinality(I) = m
  <2>1. lo + m - 1 \in Int BY <1>3
  <2>2. IsFiniteSet(I) /\ Cardinality(I) = IF lo > lo + m - 1 THEN 0 ELSE (lo + m - 1) - lo + 1
    BY <2>1, FS_Interval
  <2> QED BY <2>2, <1>3
<1>5. lo + m \notin T
  <2> SUFFICES ASSUME lo + m \in T PROVE FALSE OBVIOUS
  <2>1. lo..(lo + m) \in SUBSET T BY <1>1
  <2>2. Cardinality(lo..(lo + m)) = m + 1
    <3>1. lo + m \in Int BY <1>3
    <3>2. Cardinality(lo..(lo + m)) = IF lo > lo + m THEN 0 ELSE (lo + m) - lo + 1
      BY <3>1, FS_Interval
    <3> QED BY <3>2, <1>3
  <2>3. Cardinality(lo..(lo + m)) <= Cardinality(T) BY <2>1, <1>3, FS_Subset
  <2> QED BY <2>2, <2>3, <1>3 DEF m
<1>6. T \in SUBSET I
  <2> SUFFICES ASSUME NEW k \in T, ~(k < lo + m) PROVE FALSE BY <1>1, <1>3
  <2>1. lo + m \in lo..k BY <1>1, <1>3
  <2> QED BY <2>1, <1>1, <1>5
<1>7. T = I BY <1>3, <1>4, <1>6, FS_Subset DEF m
<1> QED BY <1>3, <1>5, <1>7 DEF T, m

(* What is left keeps the places that are left, and cannot be committed.   *)
LEMMA FlushSlots ==
  ASSUME NEW d, d \in [DOMAIN d -> Entry], NEW lo \in Nat, NEW hi \in Nat, NEW h \in Nat,
         lo <= hi, hi - 1 <= h, Slots(d, lo, hi),
         NEW m, m = Cardinality(Turns(d, lo, h)), NEW e, e = Left(d, Turns(d, lo, h))
  PROVE  /\ m \in Nat /\ lo + m <= hi
         /\ Slots(e, lo + m, hi) /\ Flushed(e, lo + m)
         /\ DOMAIN e \subseteq DOMAIN d /\ \A c \in DOMAIN e : e[c] = d[c]
         /\ \A c \in DOMAIN d : c \notin DOMAIN e => d[c].seen /\ d[c].done
<1> DEFINE T == Turns(d, lo, h)
<1>1. m \in Nat /\ T = lo..(lo + m - 1) /\ lo + m \notin T BY TurnsInterval
<1>2. \A k \in T : /\ k \in lo..h /\ At(d, k) \in DOMAIN d
                   /\ d[At(d, k)].seen /\ d[At(d, k)].done /\ d[At(d, k)].order = k
  <2> SUFFICES ASSUME NEW k \in T
               PROVE  k \in lo..h /\ At(d, k) \in Ready(d, k)
    BY DEF Ready
  <2>1. k \in lo..h /\ Ready(d, k) # {} BY DEF Turns
  <2>2. \E c : c \in Ready(d, k) BY <2>1
  <2>3. At(d, k) \in Ready(d, k) BY <2>2, Zenon DEF At
  <2> QED BY <2>1, <2>3
<1>3. Ready(d, lo + m) = {}
  <2>1. CASE lo + m <= h
    <3>1. \A k \in lo..h : k \in T <=> \A j \in lo..k : Ready(d, j) # {} BY DEF Turns
    <3> HIDE DEF T
    <3>2. lo + m \in lo..h BY <1>1, <2>1
    <3>3. PICK j \in lo..(lo + m) : Ready(d, j) = {} BY <1>1, <3>1, <3>2
    <3>4. j \notin lo..(lo + m - 1)
      <4> SUFFICES ASSUME j \in T PROVE FALSE BY <1>1
      <4>1. j \in lo..h /\ j \in lo..j BY <1>1, <3>2
      <4> QED BY <3>1, <3>3, <4>1
    <3>5. j = lo + m BY <1>1, <3>4
    <3> QED BY <3>3, <3>5
  <2>2. CASE ~(lo + m <= h)
    <3>1. lo + m > hi - 1 BY <1>1, <2>2
    <3> QED BY <1>1, <3>1 DEF Ready, Slots
  <2> QED BY <2>1, <2>2
<1> HIDE DEF T
<1>4. /\ DOMAIN e = DOMAIN d \ {At(d, k) : k \in T}
      /\ \A c \in DOMAIN e : e[c] = d[c]
  BY DEF Left, T
<1>5. lo + m <= hi
  <2> SUFFICES ASSUME m > 0 PROVE lo + m <= hi BY <1>1
  <2>1. lo + m - 1 \in T BY <1>1
  <2>2. lo + m - 1 \in lo..(hi - 1) BY <1>2, <2>1 DEF Slots
  <2> QED BY <1>1, <2>2
<1>6. \A c \in DOMAIN e : e[c].seen => e[c].order \in (lo + m)..(hi - 1)
  <2> SUFFICES ASSUME NEW c \in DOMAIN e, e[c].seen
               PROVE  d[c].order \in (lo + m)..(hi - 1)
    BY <1>4
  <2>1. c \in DOMAIN d /\ d[c].seen /\ d[c].order \in lo..(hi - 1) BY <1>4 DEF Slots
  <2>2. d[c].order \notin T
    <3> SUFFICES ASSUME d[c].order \in T PROVE FALSE OBVIOUS
    <3>1. At(d, d[c].order) = c BY <1>2, <2>1 DEF Slots
    <3> QED BY <3>1, <1>4
  <2> QED BY <1>1, <2>1, <2>2
<1>7. \A k \in (lo + m)..(hi - 1) : \E c \in DOMAIN e : e[c].seen /\ e[c].order = k
  <2> SUFFICES ASSUME NEW k \in (lo + m)..(hi - 1)
               PROVE  \E c \in DOMAIN e : e[c].seen /\ e[c].order = k
    OBVIOUS
  <2>1. k \in lo..(hi - 1) /\ k \notin T BY <1>1
  <2>2. PICK c \in DOMAIN d : d[c].seen /\ d[c].order = k BY <2>1 DEF Slots
  <2>3. c \in DOMAIN e
    <3> SUFFICES ASSUME NEW j \in T, c = At(d, j) PROVE FALSE BY <1>4, <2>2
    <3> QED BY <1>2, <2>1, <2>2
  <2> QED BY <1>4, <2>2, <2>3
<1>8. \A c, x \in DOMAIN e : e[c].seen /\ e[x].seen /\ e[c].order = e[x].order => c = x
  <2> SUFFICES ASSUME NEW c \in DOMAIN e, NEW x \in DOMAIN e,
                      e[c].seen /\ e[x].seen /\ e[c].order = e[x].order
               PROVE  c = x
    OBVIOUS
  <2>1. c \in DOMAIN d /\ x \in DOMAIN d /\ e[c] = d[c] /\ e[x] = d[x] BY <1>4
  <2> QED BY <2>1 DEF Slots
<1>9. Flushed(e, lo + m) BY <1>3, <1>4 DEF Flushed, Ready
<1>10. Slots(e, lo + m, hi) BY <1>6, <1>7, <1>8 DEF Slots
<1>11. \A c \in DOMAIN d : c \notin DOMAIN e => d[c].seen /\ d[c].done BY <1>2, <1>4
<1> QED BY <1>1, <1>4, <1>5, <1>9, <1>10, <1>11

(* The table with a new or changed entry.                                  *)
LEMMA PutEntry ==
  ASSUME NEW d, d \in [DOMAIN d -> Entry], NEW c, NEW n \in Entry
  PROVE  /\ Set(d, c, n) \in [DOMAIN d \cup {c} -> Entry]
         /\ DOMAIN Set(d, c, n) = DOMAIN d \cup {c}
         /\ Set(d, c, n)[c] = n
         /\ \A x \in DOMAIN d : x # c => Set(d, c, n)[x] = d[x]
BY DEF Set

-----------------------------------------------------------------------------
(* Types are kept.                                                         *)

Types == AppTypes /\ HookTypes /\ RingTypes /\ TableTypes /\ SinkTypes

LEMMA Bounds ==
  /\ Cells \in Nat /\ MaxLen \in Nat /\ CaptureLimit \in Nat /\ MaxOps \in Nat
  /\ RingSize \in Nat
BY DioAssumption

LEMMA RequestTyped ==
  ASSUME NEW op \in Request
  PROVE  /\ op.file \in Files /\ op.off \in 0..Cells /\ op.off \in Nat
         /\ op.len \in 1..MaxLen /\ op.len \in Nat /\ op.id \in 1..MaxOps /\ op # NoOp
BY NoOpAssumption, Bounds DEF Request

LEMMA RepeatTyped ==
  ASSUME NEW v \in Cell, NEW n \in Nat
  PROVE  Repeat(v, n) \in Seq(Cell)
BY DEF Repeat

LEMMA WriteTyped ==
  ASSUME NEW files \in [Files -> Seq(Cell)], NEW f \in Files, NEW o \in Nat,
         NEW x \in Seq(Cell)
  PROVE  Write(files, [file |-> f, off |-> o, data |-> x]) \in [Files -> Seq(Cell)]
<1> DEFINE n == Larger(Len(files[f]), o + Len(x))
<1>1. n \in Nat BY DEF Larger
<1>2. Overwrite(files[f], o, x) \in [1..n -> Cell]
  <2> SUFFICES ASSUME NEW k \in 1..n
               PROVE  (IF k > o /\ k <= o + Len(x) THEN x[k - o]
                       ELSE IF k <= Len(files[f]) THEN files[f][k] ELSE Zero) \in Cell
    BY DEF Overwrite
  <2>1. k > o /\ k <= o + Len(x) => x[k - o] \in Cell BY <1>1
  <2>2. k <= Len(files[f]) => files[f][k] \in Cell BY <1>1
  <2> QED BY <2>1, <2>2 DEF Cell
<1>3. Overwrite(files[f], o, x) \in Seq(Cell) BY <1>1, <1>2
<1> QED BY <1>3 DEF Write

LEMMA EmitTyped ==
  ASSUME RingTypes, NEW e \in Events, e.op # "write" => e.cookie \in Cookies, Emit(e)
  PROVE  RingTypes'
<1>1. CASE Len(ring) < RingSize
  <2>1. /\ ring' \in Seq(Events) /\ Len(ring') = Len(ring) + 1
        /\ \A i \in 1..Len(ring') : ring'[i] = IF i = Len(ring') THEN e ELSE ring[i]
    BY <1>1 DEF Emit, RingTypes
  <2>2. Len(ring') <= RingSize BY <1>1, <2>1, Bounds DEF RingTypes
  <2>3. lost' \in BOOLEAN BY <1>1 DEF Emit, RingTypes
  <2>4. \A i \in 1..Len(ring') : ring'[i].op # "write" => ring'[i].cookie \in Cookies
    BY <2>1 DEF RingTypes
  <2> QED BY <2>1, <2>2, <2>3, <2>4 DEF RingTypes
<1>2. CASE ~(Len(ring) < RingSize) BY <1>2 DEF Emit, RingTypes
<1> QED BY <1>1, <1>2

LEMMA EventTyped ==
  ASSUME NEW op \in {"submit", "done", "complete", "abort", "write"},
         NEW c \in Cookies \cup {NoOp}
  PROVE  Event(op, c) \in Events /\ Event(op, c).op = op /\ Event(op, c).cookie = c
BY DEF Event, Events

LEMMA CompleteEvent ==
  ASSUME NEW c \in Cookies, NEW res \in Nat, NEW fl \in Files \cup {NoOp}
  PROVE  LET e == [Event("complete", c) EXCEPT !.ret = res, !.file = fl]
         IN e \in Events /\ e.op = "complete" /\ e.cookie = c
<1> DEFINE n == Event("complete", c)
<1>1. n \in Events /\ n.op = "complete" /\ n.cookie = c BY EventTyped
<1> HIDE DEF n
<1>2. [n EXCEPT !.ret = res, !.file = fl] \in Events BY <1>1 DEF Events
<1>3. /\ [n EXCEPT !.ret = res, !.file = fl].op = "complete"
      /\ [n EXCEPT !.ret = res, !.file = fl].cookie = c
  BY <1>1 DEF Events
<1> QED BY <1>2, <1>3 DEF n

LEMMA SubmitTypes ==
  ASSUME Types, NEW t \in Threads, handle_io_submit_one(t)
  PROVE  Types'
<1> USE DEF Types
<1>1. PICK c \in Cookies, op \in Request, ok \in BOOLEAN :
        /\ pc[t] = "idle" /\ Reaped(c)
        /\ op.id = count + 1 /\ op.off + op.len <= Cells /\ Clear(CellsOf(op))
        /\ count' = count + 1
        /\ iocb' = [iocb EXCEPT ![c] = op]
        /\ IF Cardinality(inflight \cup {c}) <= DioMax
           THEN inflight' = inflight \cup {c} /\ UNCHANGED lost
           ELSE lost' = TRUE /\ UNCHANGED inflight
        /\ io' = IF ok THEN [io EXCEPT ![c] = op] ELSE io
        /\ pc' = [pc EXCEPT ![t] = IF ok THEN "issued" ELSE "refused"]
        /\ work' = [work EXCEPT ![t] = [cookie |-> c, ib |-> op, sent |-> 0]]
        /\ UNCHANGED <<disk, past, ring, user, sink>>
  BY DEF handle_io_submit_one
<1>2. AppTypes'
  <2>1. count' \in 0..MaxOps BY <1>1, RequestTyped, Bounds
  <2>2. disk' = disk BY <1>1
  <2>3. iocb' \in [Cookies -> Request \cup {NoOp}] BY <1>1 DEF AppTypes
  <2>4. io' \in [Cookies -> Request \cup {NoOp}] BY <1>1 DEF AppTypes
  <2> QED BY <2>1, <2>2, <2>3, <2>4 DEF AppTypes
<1>3. HookTypes'
  <2>1. pc' \in [Threads -> {"idle", "issued", "refused", "staging", "aborting"}]
    BY <1>1 DEF HookTypes
  <2>2. inflight' \subseteq Cookies /\ work' \in [Threads -> Job \cup {NoOp}]
    BY <1>1 DEF HookTypes, Job
  <2>3. ASSUME NEW u \in Threads, pc'[u] # "idle"
        PROVE  work'[u] \in Job /\ iocb'[work'[u].cookie] \in Request
    <3>1. CASE u = t
      <4>1. work'[u] = [cookie |-> c, ib |-> op, sent |-> 0] BY <1>1, <3>1 DEF HookTypes
      <4> QED BY <1>1, <4>1 DEF Job, AppTypes
    <3>2. CASE u # t
      <4>1. work'[u] = work[u] /\ pc[u] # "idle" BY <1>1, <2>3, <3>2 DEF HookTypes
      <4>2. work[u] \in Job /\ iocb[work[u].cookie] \in Request /\ work[u].cookie \in Cookies
        BY <4>1 DEF HookTypes, Job
      <4> QED BY <1>1, <4>1, <4>2 DEF AppTypes
    <3> QED BY <3>1, <3>2
  <2> QED BY <2>1, <2>2, <2>3 DEF HookTypes
<1>4. RingTypes' BY <1>1 DEF RingTypes
<1>5. TableTypes' /\ SinkTypes' BY <1>1 DEF TableTypes, SinkTypes, user, sink
<1> QED BY <1>2, <1>3, <1>4, <1>5

LEMMA CompleteTypes ==
  ASSUME Types, NEW c \in Cookies, handle_aio_complete_rw(c)
  PROVE  Types'
<1> USE DEF Types
<1>1. io[c] \in Request BY DEF handle_aio_complete_rw, AppTypes
<1>2. PICK res \in 0..io[c].len :
        /\ disk' = IF IsWrite(io[c])
                   THEN Write(disk, [file |-> io[c].file, off |-> io[c].off,
                                     data |-> Repeat(io[c].id, res)])
                   ELSE disk
        /\ IF c \in inflight /\ IsWrite(io[c]) THEN dio_emit_complete(c, io[c].file, res)
           ELSE UNCHANGED <<ring, lost>>
  BY DEF handle_aio_complete_rw
<1>3. res \in Nat BY <1>1, <1>2, RequestTyped
<1>4. AppTypes'
  <2>1. Repeat(io[c].id, res) \in Seq(Cell) BY <1>1, <1>3, RequestTyped, RepeatTyped DEF Cell
  <2>2. disk' \in [Files -> Seq(Cell)]
    BY <1>1, <1>2, <2>1, RequestTyped, WriteTyped DEF AppTypes
  <2> QED BY <2>2 DEF handle_aio_complete_rw, AppTypes
<1>5. HookTypes' BY DEF handle_aio_complete_rw, HookTypes
<1>6. RingTypes'
  <2>1. CASE c \in inflight /\ IsWrite(io[c])
    <3> DEFINE fl == IF io[c].file \in Captured THEN io[c].file ELSE NoOp
               e == [Event("complete", c) EXCEPT !.ret = res, !.file = fl]
    <3>1. fl \in Files \cup {NoOp} BY <1>1, RequestTyped
    <3> HIDE DEF fl
    <3>2. e \in Events /\ e.op = "complete" /\ e.cookie = c BY <1>3, <3>1, CompleteEvent
    <3>3. Emit(e) BY <1>2, <2>1 DEF dio_emit_complete, fl
    <3>4. RingTypes /\ e.op # "write" /\ e.cookie \in Cookies BY <3>2
    <3> HIDE DEF e
    <3> QED BY <3>2, <3>3, <3>4, EmitTyped
  <2>2. CASE ~(c \in inflight /\ IsWrite(io[c])) BY <1>2, <2>2 DEF RingTypes
  <2> QED BY <2>1, <2>2
<1>7. TableTypes' /\ SinkTypes' BY DEF handle_aio_complete_rw, TableTypes, SinkTypes, user, sink
<1> QED BY <1>4, <1>5, <1>6, <1>7

LEMMA SyncTypes ==
  ASSUME Types, NEW t \in Threads, SyncWrite(t)
  PROVE  Types'
<1> USE DEF Types
<1>1. PICK f \in Files, k \in 1..Cells :
        LET r == [file |-> f, off |-> k - 1, data |-> <<count + 1>>]
        IN /\ count < MaxOps
           /\ count' = count + 1
           /\ disk' = Write(disk, r)
           /\ IF f \in Captured
              THEN Emit([Event("write", NoOp) EXCEPT !.file = f, !.off = r.off, !.data = r.data])
              ELSE UNCHANGED <<ring, lost>>
           /\ UNCHANGED <<iocb, io, hooks, user, sink>>
  BY DEF SyncWrite
<1>2. count + 1 \in Cell /\ <<count + 1>> \in Seq(Cell) /\ k - 1 \in Nat
  <2>1. count + 1 \in Cell BY <1>1, Bounds DEF Cell, AppTypes
  <2> QED BY <2>1, Bounds
<1>3. AppTypes'
  <2>1. disk' \in [Files -> Seq(Cell)] BY <1>1, <1>2, WriteTyped DEF AppTypes
  <2>2. count' \in 0..MaxOps BY <1>1, Bounds DEF AppTypes
  <2> QED BY <1>1, <2>1, <2>2 DEF AppTypes
<1>4. HookTypes' /\ TableTypes' /\ SinkTypes'
  BY <1>1 DEF HookTypes, TableTypes, SinkTypes, hooks, user, sink
<1>5. RingTypes'
  <2> DEFINE e == [Event("write", NoOp) EXCEPT !.file = f, !.off = k - 1, !.data = <<count + 1>>]
  <2>1. e \in Events /\ e.op = "write" BY <1>2 DEF Event, Events
  <2>2. CASE f \in Captured
    <3>1. Emit(e) BY <1>1, <2>2
    <3> HIDE DEF e
    <3> QED BY <2>1, <3>1, EmitTyped
  <2>3. CASE f \notin Captured BY <1>1, <2>3 DEF RingTypes
  <2> QED BY <2>2, <2>3
<1> QED BY <1>3, <1>4, <1>5

-----------------------------------------------------------------------------
(* The fexit hook of io_submit_one.                                        *)

LEMMA JobTyped ==
  ASSUME Types, NEW t \in Threads, pc[t] # "idle"
  PROVE  /\ work[t] \in Job /\ work[t].cookie \in Cookies /\ work[t].ib \in Request
         /\ work[t].sent \in Nat /\ iocb[work[t].cookie] \in Request
BY DEF Types, HookTypes, Job

LEMMA HookMoves ==
  ASSUME Types, NEW t \in Threads, pc[t] # "idle", UNCHANGED iocb,
         NEW v \in {"idle", "issued", "refused", "staging", "aborting"},
         pc' = [pc EXCEPT ![t] = v],
         NEW w \in Job, w.cookie = work[t].cookie, work' = [work EXCEPT ![t] = w],
         inflight' \subseteq Cookies
  PROVE  HookTypes'
<1>1. \A u \in Threads : pc'[u] # "idle" =>
        work'[u] \in Job /\ iocb'[work'[u].cookie] \in Request
  <2> SUFFICES ASSUME NEW u \in Threads, pc'[u] # "idle"
               PROVE  work'[u] \in Job /\ iocb[work'[u].cookie] \in Request
    OBVIOUS
  <2>1. CASE u = t BY <2>1, JobTyped DEF Types, HookTypes
  <2>2. CASE u # t
    <3>1. pc[u] # "idle" /\ work'[u] = work[u] BY <2>2 DEF Types, HookTypes
    <3> QED BY <3>1, JobTyped
  <2> QED BY <2>1, <2>2
<1> QED BY <1>1 DEF Types, HookTypes

LEMMA HookLeaves ==
  ASSUME Types, NEW t \in Threads, pc[t] # "idle", UNCHANGED iocb, Leave(t),
         inflight' \subseteq Cookies
  PROVE  HookTypes'
<1>1. \A u \in Threads : pc'[u] # "idle" => pc[u] # "idle" BY DEF Leave, Types, HookTypes
<1> QED BY <1>1 DEF Types, HookTypes, Leave

LEMMA OthersTyped ==
  ASSUME Types, Hook
  PROVE  AppTypes' /\ TableTypes' /\ SinkTypes' /\ UNCHANGED iocb
BY DEF Types, Hook, app, user, sink, AppTypes, TableTypes, SinkTypes

LEMMA ExitTypes ==
  ASSUME Types, NEW t \in Threads, handle_io_submit_one_exit(t)
  PROVE  Types'
<1> DEFINE c == work[t].cookie
<1>1. Hook /\ UNCHANGED ring BY DEF handle_io_submit_one_exit
<1>2. pc[t] # "idle" BY DEF handle_io_submit_one_exit
<1>3. UNCHANGED lost \/ lost' = TRUE BY DEF handle_io_submit_one_exit
<1>4. RingTypes' BY <1>1, <1>3 DEF Types, RingTypes
<1>5. HookTypes'
  <2>1. CASE Forget(t) /\ Leave(t)
    BY <1>1, <1>2, <2>1, HookLeaves, OthersTyped DEF Forget, Types, HookTypes
  <2>2. CASE pc' = [pc EXCEPT ![t] = "staging"] /\ work' = [work EXCEPT ![t].ib = iocb[c]]
             /\ UNCHANGED inflight
    <3>1. [work[t] EXCEPT !.ib = iocb[c]] \in Job
          /\ [work[t] EXCEPT !.ib = iocb[c]].cookie = work[t].cookie
      BY <1>2, JobTyped DEF Job
    <3>2. work' = [work EXCEPT ![t] = [work[t] EXCEPT !.ib = iocb[c]]] BY <2>2
    <3> QED BY <1>1, <1>2, <2>2, <3>1, <3>2, HookMoves, OthersTyped DEF Types, HookTypes
  <2>3. CASE pc' = [pc EXCEPT ![t] = "aborting"] /\ UNCHANGED <<work, inflight>>
    <3>1. work' = [work EXCEPT ![t] = work[t]] BY <2>3 DEF Types, HookTypes
    <3> QED BY <1>1, <1>2, <2>3, <3>1, JobTyped, HookMoves, OthersTyped DEF Types, HookTypes
  <2> QED BY <2>1, <2>2, <2>3 DEF handle_io_submit_one_exit
<1> QED BY <1>1, <1>4, <1>5, OthersTyped DEF Types

(* The event of a segment.                                                 *)
Segment(w) ==
  LET n == IF w.ib.kind = "pwrite" THEN w.ib.len ELSE 1
  IN [Event("submit", w.cookie) EXCEPT
        !.off = w.ib.off + w.sent, !.data = Repeat(iocb[w.cookie].id, Least(n, CaptureLimit)),
        !.truncated = Least(n, CaptureLimit) < n]

LEMMA SegmentTyped ==
  ASSUME Types, NEW t \in Threads, pc[t] # "idle"
  PROVE  /\ Segment(work[t]) \in Events /\ Segment(work[t]).op = "submit"
         /\ Segment(work[t]).cookie = work[t].cookie
<1> DEFINE w == work[t]
           n == IF w.ib.kind = "pwrite" THEN w.ib.len ELSE 1
           o == w.ib.off + w.sent
           x == Repeat(iocb[w.cookie].id, Least(n, CaptureLimit))
           b == Least(n, CaptureLimit) < n
           e == Event("submit", w.cookie)
<1>1. n \in Nat /\ o \in Nat /\ b \in BOOLEAN BY JobTyped, RequestTyped
<1>2. Least(n, CaptureLimit) \in Nat BY <1>1, Bounds DEF Least
<1>3. x \in Seq(Cell) BY <1>2, JobTyped, RequestTyped, RepeatTyped DEF Cell
<1>4. e \in Events /\ e.op = "submit" /\ e.cookie = w.cookie BY JobTyped, EventTyped
<1> HIDE DEF n, o, x, b, e
<1>5. /\ [e EXCEPT !.off = o, !.data = x, !.truncated = b] \in Events
      /\ [e EXCEPT !.off = o, !.data = x, !.truncated = b].op = "submit"
      /\ [e EXCEPT !.off = o, !.data = x, !.truncated = b].cookie = w.cookie
  BY <1>1, <1>3, <1>4 DEF Events
<1> QED BY <1>5 DEF Segment, n, o, x, b, e

LEMMA EmitOneTypes ==
  ASSUME Types, NEW t \in Threads, dio_emit_one(t)
  PROVE  Types'
<1> DEFINE w == work[t]
           n == IF w.ib.kind = "pwrite" THEN w.ib.len ELSE 1
<1>1. pc[t] = "staging" /\ Hook /\ UNCHANGED inflight BY DEF dio_emit_one
<1>2. RingTypes'
  <2>1. CASE Emit(Segment(work[t]))
    BY <1>1, <2>1, SegmentTyped, JobTyped, EmitTyped DEF Types
  <2>2. CASE lost' = TRUE /\ UNCHANGED ring BY <2>2 DEF Types, RingTypes
  <2> QED BY <2>1, <2>2 DEF dio_emit_one, Segment
<1>3. n \in Nat BY <1>1, JobTyped, RequestTyped
<1>4. [w EXCEPT !.sent = w.sent + n] \in Job /\ [w EXCEPT !.sent = w.sent + n].cookie = w.cookie
  <2> HIDE DEF n
  <2> QED BY <1>1, <1>3, JobTyped DEF Job
<1>5. \/ pc' = pc /\ work' = [work EXCEPT ![t] = [w EXCEPT !.sent = w.sent + n]]
      \/ pc' = [pc EXCEPT ![t] = "aborting"] /\ work' = work
  <2>1. \/ pc' = [pc EXCEPT ![t] = "aborting"] /\ work' = work
        \/ pc' = pc /\ work' = [work EXCEPT ![t] = [w EXCEPT !.sent = w.sent + n]]
        \/ /\ pc' = [pc EXCEPT ![t] = "aborting"]
           /\ work' = [work EXCEPT ![t] = [w EXCEPT !.sent = w.sent]]
    BY DEF dio_emit_one, Types, HookTypes
  <2>2. [w EXCEPT !.sent = w.sent] = w /\ [work EXCEPT ![t] = w] = work
    BY <1>1, JobTyped DEF Types, HookTypes, Job
  <2> QED BY <2>1, <2>2
<1>6. HookTypes'
  <2>1. CASE pc' = pc /\ work' = [work EXCEPT ![t] = [w EXCEPT !.sent = w.sent + n]]
    <3>1. pc' = [pc EXCEPT ![t] = "staging"] BY <1>1, <2>1 DEF Types, HookTypes
    <3> HIDE DEF n
    <3> QED BY <1>1, <1>4, <2>1, <3>1, HookMoves, OthersTyped DEF Types, HookTypes
  <2>2. CASE pc' = [pc EXCEPT ![t] = "aborting"] /\ work' = work
    <3>1. work' = [work EXCEPT ![t] = work[t]] BY <2>2 DEF Types, HookTypes
    <3> QED BY <1>1, <2>2, <3>1, JobTyped, HookMoves, OthersTyped DEF Types, HookTypes
  <2> QED BY <1>5, <2>1, <2>2
<1> QED BY <1>1, <1>2, <1>6, OthersTyped DEF Types

LEMMA EmitDoneTypes ==
  ASSUME Types, NEW t \in Threads, EmitDone(t)
  PROVE  /\ Types' /\ [Event("done", work[t].cookie) EXCEPT !.size = work[t].sent] \in Events
         /\ [Event("done", work[t].cookie) EXCEPT !.size = work[t].sent].op = "done"
         /\ [Event("done", work[t].cookie) EXCEPT !.size = work[t].sent].cookie = work[t].cookie
<1> DEFINE n == Event("done", work[t].cookie)
           e == [n EXCEPT !.size = work[t].sent]
<1>1. pc[t] = "staging" /\ Hook /\ Leave(t) /\ Emit(e) /\ inflight' \subseteq inflight
  BY DEF EmitDone, Forget
<1>2. n \in Events /\ n.op = "done" /\ n.cookie = work[t].cookie
  BY <1>1, EventTyped, JobTyped
<1> HIDE DEF n
<1>3. e \in Events /\ e.op = "done" /\ e.cookie = work[t].cookie
  BY <1>1, <1>2, JobTyped DEF Events
<1>4. RingTypes'
  <2> HIDE DEF e
  <2> QED BY <1>1, <1>3, JobTyped, EmitTyped DEF Types
<1>5. HookTypes' BY <1>1, HookLeaves, OthersTyped DEF Types, HookTypes
<1> QED BY <1>1, <1>3, <1>4, <1>5, OthersTyped DEF Types, n

LEMMA EmitAbortTypes ==
  ASSUME Types, NEW t \in Threads, EmitAbort(t)
  PROVE  Types'
<1> DEFINE e == Event("abort", work[t].cookie)
<1>1. pc[t] = "aborting" /\ Hook /\ Leave(t) /\ Emit(e) /\ inflight' \subseteq inflight
  BY DEF EmitAbort, Forget
<1>2. e \in Events /\ e.cookie = work[t].cookie BY <1>1, EventTyped, JobTyped
<1>3. RingTypes'
  <2> HIDE DEF e
  <2> QED BY <1>1, <1>2, JobTyped, EmitTyped DEF Types
<1>4. HookTypes' BY <1>1, HookLeaves, OthersTyped DEF Types, HookTypes
<1> QED BY <1>1, <1>3, <1>4, OthersTyped DEF Types

-----------------------------------------------------------------------------
(* The capturer.                                                           *)

LEMMA GotEntry ==
  ASSUME Types, NEW c \in Cookies
  PROVE  /\ dio_get_or_create(c) \in Entry
         /\ c \in DOMAIN dios => dio_get_or_create(c) = dios[c]
         /\ c \notin DOMAIN dios =>
              /\ ~dio_get_or_create(c).seen /\ ~dio_get_or_create(c).done
              /\ ~dio_get_or_create(c).aborted
<1>1. NewEntry \in Entry /\ ~NewEntry.seen /\ ~NewEntry.done /\ ~NewEntry.aborted
  BY DEF NewEntry, Entry, Segs
<1>2. CASE c \in DOMAIN dios
  <2>1. dio_get_or_create(c) = dios[c] BY <1>2 DEF dio_get_or_create
  <2> QED BY <1>2, <2>1 DEF Types, TableTypes
<1>3. CASE c \notin DOMAIN dios
  <2>1. dio_get_or_create(c) = NewEntry BY <1>3 DEF dio_get_or_create
  <2> QED BY <1>1, <1>3, <2>1
<1> QED BY <1>2, <1>3

(* An entry that is changed, but not in its place.                         *)
SamePlace(d, c, n) ==
  \/ c \in DOMAIN d /\ n.seen = d[c].seen /\ n.order = d[c].order
  \/ c \notin DOMAIN d /\ ~n.seen

LEMMA SlotsKept ==
  ASSUME NEW d, d \in [DOMAIN d -> Entry], NEW c, NEW n \in Entry, SamePlace(d, c, n),
         NEW lo \in Nat, NEW hi \in Nat, Slots(d, lo, hi)
  PROVE  Slots(Set(d, c, n), lo, hi)
<1> DEFINE s == Set(d, c, n)
<1>1. /\ DOMAIN s = DOMAIN d \cup {c} /\ s[c] = n
      /\ \A x \in DOMAIN d : x # c => s[x] = d[x]
  BY DEF Set
<1> HIDE DEF s
<1>2. \A x \in DOMAIN s :
        s[x].seen => x \in DOMAIN d /\ d[x].seen /\ s[x].order = d[x].order
  BY <1>1 DEF SamePlace
<1>3. \A x \in DOMAIN d :
        d[x].seen => x \in DOMAIN s /\ s[x].seen /\ s[x].order = d[x].order
  BY <1>1 DEF SamePlace
<1>4. \A x \in DOMAIN s : s[x].seen => s[x].order \in lo..(hi - 1) BY <1>2 DEF Slots
<1>5. \A x, y \in DOMAIN s : s[x].seen /\ s[y].seen /\ s[x].order = s[y].order => x = y
  BY <1>2 DEF Slots
<1>6. \A k \in lo..(hi - 1) : \E x \in DOMAIN s : s[x].seen /\ s[x].order = k
  <2> SUFFICES ASSUME NEW k \in lo..(hi - 1)
               PROVE  \E x \in DOMAIN s : s[x].seen /\ s[x].order = k
    OBVIOUS
  <2>1. PICK x \in DOMAIN d : d[x].seen /\ d[x].order = k BY DEF Slots
  <2> QED BY <1>3, <2>1
<1> QED BY <1>4, <1>5, <1>6 DEF Slots, s

(* A completion takes the next place.                                      *)
LEMMA SlotsGrow ==
  ASSUME NEW d, d \in [DOMAIN d -> Entry], NEW c, NEW n \in Entry,
         c \in DOMAIN d => ~d[c].seen,
         NEW lo \in Nat, NEW hi \in Nat, lo <= hi, Slots(d, lo, hi), n.seen, n.order = hi
  PROVE  Slots(Set(d, c, n), lo, hi + 1)
<1> DEFINE s == Set(d, c, n)
<1>1. /\ DOMAIN s = DOMAIN d \cup {c} /\ s[c] = n
      /\ \A x \in DOMAIN d : x # c => s[x] = d[x]
  BY DEF Set
<1> HIDE DEF s
<1>2. \A x \in DOMAIN s :
        s[x].seen => \/ x = c /\ s[x].order = hi
                     \/ x # c /\ x \in DOMAIN d /\ d[x].seen /\ s[x].order = d[x].order
  BY <1>1
<1>3. \A x \in DOMAIN d : d[x].seen => d[x].order \in lo..(hi - 1) BY DEF Slots
<1>4. \A x \in DOMAIN s : s[x].seen => s[x].order \in lo..((hi + 1) - 1) BY <1>2, <1>3
<1>5. \A x, y \in DOMAIN s : s[x].seen /\ s[y].seen /\ s[x].order = s[y].order => x = y
  <2> SUFFICES ASSUME NEW x \in DOMAIN s, NEW y \in DOMAIN s,
                      s[x].seen /\ s[y].seen /\ s[x].order = s[y].order
               PROVE  x = y
    OBVIOUS
  <2>1. CASE x = c \/ y = c
    <3>1. ~(hi \in lo..(hi - 1)) OBVIOUS
    <3> QED BY <1>2, <1>3, <2>1, <3>1
  <2>2. CASE x # c /\ y # c BY <1>2, <2>2 DEF Slots
  <2> QED BY <2>1, <2>2
<1>6. \A k \in lo..((hi + 1) - 1) : \E x \in DOMAIN s : s[x].seen /\ s[x].order = k
  <2> SUFFICES ASSUME NEW k \in lo..((hi + 1) - 1)
               PROVE  \E x \in DOMAIN s : s[x].seen /\ s[x].order = k
    OBVIOUS
  <2>1. CASE k = hi BY <1>1, <2>1
  <2>2. CASE k # hi
    <3>1. k \in lo..(hi - 1) BY <2>2
    <3>2. PICK x \in DOMAIN d : d[x].seen /\ d[x].order = k BY <3>1 DEF Slots
    <3> QED BY <1>1, <3>2
  <2> QED BY <2>1, <2>2
<1> QED BY <1>4, <1>5, <1>6 DEF Slots, s

(* What it commits, entry by entry in the order of their places.           *)
Committed(d, n) == Records(d[At(d, next_commit_order + n - 1)])
Batched(d, m) ==
  LET commit[n \in 0..m] == IF n = 0 THEN batch ELSE commit[n - 1] \o Committed(d, n)
  IN commit[m]

LEMMA FlushNamed ==
  ASSUME NEW d, NEW failed, dio_flush_completed(d, failed),
         next_commit_order \in Nat, next_completion_order \in Nat,
         NEW T, T = Turns(d, next_commit_order, next_completion_order),
         NEW m, m = Cardinality(T)
  PROVE  /\ dios' = Left(d, T) /\ next_commit_order' = next_commit_order + m
         /\ batch' = Batched(d, m)
         /\ batch_error' = (batch_error \/ failed \/
              \E i \in 1..m : CommitFails(d[At(d, next_commit_order + i - 1)]))
<1> DEFINE turns == [i \in 1..m |-> next_commit_order + i - 1]
           at(i) == CHOOSE c \in Ready(d, turns[i]) : TRUE
<1>1. m \in Nat /\ T = next_commit_order..(next_commit_order + m - 1) BY TurnsInterval
<1>2. Len(turns) = m /\ DOMAIN turns = 1..m BY <1>1
<1>3. \A i \in 1..m : at(i) = At(d, next_commit_order + i - 1) BY DEF At
<1>4. Finish(d, turns, failed) BY DEF dio_flush_completed, Turns
<1> HIDE DEF turns
<1>5. /\ dios' = [c \in DOMAIN d \ {at(i) : i \in 1..m} |-> d[c]]
      /\ next_commit_order' = next_commit_order + m
      /\ batch_error' = (batch_error \/ failed \/ \E i \in 1..m : CommitFails(d[at(i)]))
      /\ batch' = LET commit[n \in 0..m] ==
                        IF n = 0 THEN batch ELSE commit[n - 1] \o Records(d[at(n)])
                  IN commit[m]
  BY <1>2, <1>4 DEF Finish
<1> HIDE DEF at
<1>6. {at(i) : i \in 1..m} = {At(d, k) : k \in T}
  <2> DEFINE I == next_commit_order..(next_commit_order + m - 1)
  <2>1. \A i \in 1..m : next_commit_order + i - 1 \in T
    <3>1. \A i \in 1..m : next_commit_order + i - 1 \in I BY <1>1
    <3> QED BY <1>1, <3>1, Zenon
  <2>2. \A k \in T : k - next_commit_order + 1 \in 1..m
                     /\ next_commit_order + (k - next_commit_order + 1) - 1 = k
    <3>1. \A k \in I : k - next_commit_order + 1 \in 1..m
                       /\ next_commit_order + (k - next_commit_order + 1) - 1 = k
      BY <1>1
    <3> QED BY <1>1, <3>1, Zenon
  <2>3. \A i \in 1..m : at(i) \in {At(d, k) : k \in T} BY <1>3, <2>1
  <2>4. \A k \in T : At(d, k) \in {at(i) : i \in 1..m}
    <3> SUFFICES ASSUME NEW k \in T PROVE \E i \in 1..m : At(d, k) = at(i) OBVIOUS
    <3>1. At(d, k) = at(k - next_commit_order + 1) BY <1>3, <2>2
    <3> QED BY <2>2, <3>1
  <2> QED BY <2>3, <2>4
<1>7. \A n \in 1..m : Records(d[at(n)]) = Committed(d, n) BY <1>3 DEF Committed
<1>8. batch' = Batched(d, m)
  <2> DEFINE F(f) == f = [n \in 0..m |-> IF n = 0 THEN batch ELSE f[n - 1] \o Records(d[at(n)])]
             G(f) == f = [n \in 0..m |-> IF n = 0 THEN batch ELSE f[n - 1] \o Committed(d, n)]
  <2>1. \A f : F(f) <=> G(f)
    <3> SUFFICES ASSUME NEW f PROVE F(f) <=> G(f) OBVIOUS
    <3>1. \A n \in 0..m : n # 0 => n \in 1..m BY <1>1
    <3>2. \A n \in 0..m :
            (IF n = 0 THEN batch ELSE f[n - 1] \o Records(d[at(n)]))
              = (IF n = 0 THEN batch ELSE f[n - 1] \o Committed(d, n))
      BY <1>7, <3>1, Zenon
    <3> QED BY <3>2, Zenon
  <2>2. (CHOOSE f : F(f)) = (CHOOSE f : G(f))
    <3> HIDE DEF F, G
    <3> QED BY <2>1, Zenon
  <2>3. batch' = (CHOOSE f : F(f))[m] BY <1>5
  <2>4. Batched(d, m) = (CHOOSE f : G(f))[m] BY DEF Batched
  <2> HIDE DEF F, G
  <2> QED BY <2>2, <2>3, <2>4
<1> QED BY <1>3, <1>5, <1>6, <1>8 DEF Left

(* What dio_flush_completed does to a table it was called on.              *)
LEMMA FlushTable ==
  ASSUME Types, NEW d, d \in [DOMAIN d -> Entry], DOMAIN d \subseteq Cookies,
         NEW failed \in BOOLEAN, dio_flush_completed(d, failed),
         NEW hi \in Nat, next_completion_order' = hi,
         next_commit_order <= hi, hi - 1 <= next_completion_order,
         Slots(d, next_commit_order, hi)
  PROVE  /\ TableTypes' /\ Queue' /\ (~batch_error' => ~batch_error /\ ~failed)
         /\ DOMAIN dios' \subseteq DOMAIN d /\ \A c \in DOMAIN dios' : dios'[c] = d[c]
         /\ \A c \in DOMAIN d : c \notin DOMAIN dios' => d[c].seen /\ d[c].done
<1> DEFINE T == Turns(d, next_commit_order, next_completion_order)
           m == Cardinality(T)
           e == Left(d, T)
<1>2. next_commit_order \in Nat /\ next_completion_order \in Nat /\ batch_error \in BOOLEAN
  BY DEF Types, TableTypes
<1>1. /\ dios' = e /\ next_commit_order' = next_commit_order + m
      /\ \E b \in BOOLEAN : batch_error' = (batch_error \/ failed \/ b)
  BY <1>2, FlushNamed
<1>3. /\ m \in Nat /\ next_commit_order + m <= hi
      /\ Slots(e, next_commit_order + m, hi) /\ Flushed(e, next_commit_order + m)
      /\ DOMAIN e \subseteq DOMAIN d /\ \A c \in DOMAIN e : e[c] = d[c]
      /\ \A c \in DOMAIN d : c \notin DOMAIN e => d[c].seen /\ d[c].done
  BY <1>2, FlushSlots
<1>4. e \in [DOMAIN e -> Entry]
  <2>1. \A c \in DOMAIN e : e[c] \in Entry BY <1>3
  <2>2. e = [c \in DOMAIN e |-> e[c]] BY DEF Left
  <2> QED BY <2>1, <2>2
<1> HIDE DEF T, m, e
<1>5. TableTypes' BY <1>1, <1>2, <1>3, <1>4 DEF TableTypes
<1>6. Queue' BY <1>1, <1>3 DEF Queue
<1>7. ~batch_error' => ~batch_error /\ ~failed BY <1>1
<1> QED BY <1>1, <1>3, <1>5, <1>6, <1>7

LEMMA HeadTyped ==
  ASSUME Types, ring # <<>>
  PROVE  LET e == Head(ring)
         IN e \in Events /\ (e.op # "write" => e.cookie \in Cookies)
BY DEF Types, RingTypes

(* A change of an entry that neither moves it nor makes it ready.          *)
LEMMA KeptTable ==
  ASSUME Types, Queue, NEW c \in Cookies, NEW n \in Entry, dios' = Put(c, n),
         SamePlace(dios, c, n), n.done => c \in DOMAIN dios /\ dios[c].done,
         UNCHANGED <<next_completion_order, next_commit_order>>, batch_error' \in BOOLEAN
  PROVE  TableTypes' /\ Queue'
<1>1. /\ dios' \in [DOMAIN dios' -> Entry] /\ DOMAIN dios' = DOMAIN dios \cup {c}
      /\ dios'[c] = n /\ \A x \in DOMAIN dios : x # c => dios'[x] = dios[x]
  <2>1. dios' = Set(dios, c, n) BY DEF Put
  <2>2. dios \in [DOMAIN dios -> Entry] BY DEF Types, TableTypes
  <2> QED BY <2>1, <2>2 DEF Set
<1>2. TableTypes' BY <1>1 DEF Types, TableTypes
<1>3. Slots(dios', next_commit_order, next_completion_order)
  BY SlotsKept DEF Put, Types, TableTypes, Queue
<1>4. Flushed(dios', next_commit_order)
  <2> SUFFICES ASSUME NEW x \in DOMAIN dios', dios'[x].seen,
                      dios'[x].order = next_commit_order, dios'[x].done
               PROVE  FALSE
    BY DEF Flushed, Ready
  <2>1. x \in DOMAIN dios /\ dios[x].seen /\ dios[x].order = next_commit_order /\ dios[x].done
    BY <1>1 DEF SamePlace
  <2> QED BY <2>1 DEF Queue, Flushed, Ready
<1> QED BY <1>2, <1>3, <1>4 DEF Queue

(* What a handler of a half of the write of c leaves of the entries d had. *)
Kept(d) ==
  /\ DOMAIN dios' \subseteq DOMAIN d /\ \A x \in DOMAIN dios' : dios'[x] = d[x]
  /\ \A x \in DOMAIN d : x \notin DOMAIN dios' => d[x].seen /\ d[x].done

(* A payload that ended makes the table flush.                             *)
LEMMA DoneTable ==
  ASSUME Types, Queue, NEW c \in Cookies, NEW n \in Entry, SamePlace(dios, c, n),
         NEW failed \in BOOLEAN, dio_flush_completed(Put(c, n), failed),
         UNCHANGED next_completion_order
  PROVE  TableTypes' /\ Queue' /\ Kept(Put(c, n)) /\ (~batch_error' => ~batch_error /\ ~failed)
<1> DEFINE d == Put(c, n)
<1>1. d \in [DOMAIN d -> Entry] /\ DOMAIN d \subseteq Cookies
  BY DEF Types, TableTypes, Put, Set
<1>2. Slots(d, next_commit_order, next_completion_order)
  BY SlotsKept DEF Put, Types, TableTypes, Queue
<1> HIDE DEF d
<1>3. next_completion_order \in Nat /\ next_commit_order <= next_completion_order
      /\ next_completion_order - 1 <= next_completion_order
  BY DEF Types, TableTypes
<1>4. dio_flush_completed(d, failed) BY DEF d
<1>5. TableTypes' /\ Queue' /\ Kept(d) /\ (~batch_error' => ~batch_error /\ ~failed)
  BY <1>1, <1>2, <1>3, <1>4, FlushTable DEF Kept
<1> QED BY <1>5 DEF d

(* So does a completion, which has taken the next place.                   *)
LEMMA SeenTable ==
  ASSUME Types, Queue, NEW c \in Cookies, NEW n \in Entry,
         c \in DOMAIN dios => ~dios[c].seen, n.seen, n.order = next_completion_order,
         dio_flush_completed(Put(c, n), FALSE),
         next_completion_order' = next_completion_order + 1
  PROVE  TableTypes' /\ Queue' /\ Kept(Put(c, n)) /\ (~batch_error' => ~batch_error)
<1> DEFINE d == Put(c, n)
           hi == next_completion_order + 1
<1>1. d \in [DOMAIN d -> Entry] /\ DOMAIN d \subseteq Cookies
  BY DEF Types, TableTypes, Put, Set
<1>2. Slots(d, next_commit_order, hi)
  BY SlotsGrow DEF Put, Types, TableTypes, Queue
<1>3. hi \in Nat /\ next_commit_order <= hi /\ hi - 1 <= next_completion_order
      /\ next_completion_order' = hi
  BY DEF Types, TableTypes
<1> HIDE DEF d, hi
<1>4. dio_flush_completed(d, FALSE) BY DEF d
<1>5. TableTypes' /\ Queue' /\ Kept(d) /\ (~batch_error' => ~batch_error)
  BY <1>1, <1>2, <1>3, <1>4, FlushTable DEF Kept
<1> QED BY <1>5 DEF d

LEMMA StageTable ==
  ASSUME Types, Queue, ring # <<>>, Head(ring).op = "submit", dio_stage_segment(Head(ring))
  PROVE  TableTypes' /\ Queue'
<1> DEFINE e == Head(ring)
           d == dio_get_or_create(e.cookie)
           s == [off |-> e.off, data |-> e.data, truncated |-> e.truncated]
           n == [d EXCEPT !.segs = Append(@, s)]
<1>1. e \in Events /\ e.cookie \in Cookies BY HeadTyped
<1> HIDE DEF e
<1>2. /\ d \in Entry /\ (e.cookie \in DOMAIN dios => d = dios[e.cookie])
      /\ (e.cookie \notin DOMAIN dios => ~d.seen /\ ~d.done /\ ~d.aborted)
  BY <1>1, GotEntry
<1>3. UNCHANGED <<next_completion_order, next_commit_order>>
  BY DEF dio_stage_segment, Refuse
<1>4. CASE d.done \/ d.aborted
  <2>1. dios' = Put(e.cookie, d) /\ batch_error' \in BOOLEAN
    BY <1>4 DEF dio_stage_segment, Refuse, e
  <2> HIDE DEF d
  <2> QED BY <1>1, <1>2, <1>3, <1>4, <2>1, KeptTable DEF SamePlace
<1>5. CASE ~(d.done \/ d.aborted)
  <2>1. dios' = Put(e.cookie, n) /\ batch_error' \in BOOLEAN
    BY <1>5 DEF dio_stage_segment, Types, TableTypes, e
  <2>2. n \in Entry /\ n.seen = d.seen /\ n.order = d.order /\ n.done = d.done
    <3>1. s \in [off : Nat, data : Seq(Cell), truncated : BOOLEAN] BY <1>1 DEF Events
    <3> HIDE DEF s, d
    <3>2. d.segs \in Segs BY <1>2 DEF Entry
    <3>3. Append(d.segs, s) \in Segs BY <3>1, <3>2 DEF Segs
    <3> QED BY <1>2, <3>3 DEF Entry
  <2> HIDE DEF d, n
  <2> QED BY <1>1, <1>2, <1>3, <1>5, <2>1, <2>2, KeptTable DEF SamePlace
<1> QED BY <1>4, <1>5

(* A handler that refuses an event leaves an entry that exists as it is.   *)
LEMMA RefuseTable ==
  ASSUME Types, Queue, NEW c \in Cookies, c \in DOMAIN dios,
         Refuse, dios' = Put(c, dio_get_or_create(c))
  PROVE  TableTypes' /\ Queue'
<1>1. dio_get_or_create(c) \in Entry /\ dio_get_or_create(c) = dios[c] BY GotEntry
<1>2. SamePlace(dios, c, dio_get_or_create(c)) BY <1>1 DEF SamePlace
<1>3. UNCHANGED <<next_completion_order, next_commit_order>> /\ batch_error' \in BOOLEAN
  BY DEF Refuse
<1> QED BY <1>1, <1>2, <1>3, KeptTable

LEMMA DoneEvent ==
  ASSUME Types, Queue, ring # <<>>, Head(ring).op = "done", dio_submit_done(Head(ring))
  PROVE  LET c == Head(ring).cookie
             n == [dio_get_or_create(c) EXCEPT !.done = TRUE, !.size = Head(ring).size]
         IN /\ TableTypes' /\ Queue'
            /\ \/ batch_error'
               \/ /\ ~HasDone(dios, c) /\ n.done /\ n.seen = dio_get_or_create(c).seen
                  /\ Kept(Put(c, n)) /\ (~batch_error' => ~batch_error)
<1> DEFINE e == Head(ring)
           c == e.cookie
           d == dio_get_or_create(c)
           n == [d EXCEPT !.done = TRUE, !.size = e.size]
<1>1. e \in Events /\ c \in Cookies BY HeadTyped
<1> HIDE DEF c
<1>2. /\ d \in Entry /\ (c \in DOMAIN dios => d = dios[c])
      /\ (c \notin DOMAIN dios => ~d.seen /\ ~d.done /\ ~d.aborted)
  BY <1>1, GotEntry
<1>3. CASE d.done \/ d.aborted
  <2>1. dios' = Put(c, d) /\ Refuse BY <1>3 DEF dio_submit_done, c
  <2> QED BY <1>1, <1>2, <1>3, <2>1, RefuseTable DEF Refuse, c
<1>4. CASE ~(d.done \/ d.aborted)
  <2>1. dio_flush_completed(Put(c, n), FALSE) /\ UNCHANGED next_completion_order
    BY <1>4 DEF dio_submit_done, c
  <2>2. n \in Entry /\ n.seen = d.seen /\ n.order = d.order /\ n.done
    <3> HIDE DEF d, e
    <3> QED BY <1>1, <1>2 DEF Entry, Events
  <2>3. SamePlace(dios, c, n)
    <3> HIDE DEF n, d
    <3> QED BY <1>2, <2>2 DEF SamePlace
  <2>4. TableTypes' /\ Queue' /\ Kept(Put(c, n)) /\ (~batch_error' => ~batch_error)
    <3> HIDE DEF n
    <3> QED BY <1>1, <2>1, <2>2, <2>3, DoneTable
  <2>5. ~HasDone(dios, c) BY <1>2, <1>4 DEF HasDone
  <2> QED BY <2>2, <2>4, <2>5 DEF c
<1> QED BY <1>3, <1>4

LEMMA CompleteEventHandled ==
  ASSUME Types, Queue, ring # <<>>, Head(ring).op = "complete", dio_note_completion(Head(ring))
  PROVE  LET c == Head(ring).cookie
             n == [dio_get_or_create(c) EXCEPT !.seen = TRUE, !.res = Head(ring).ret,
                                               !.file = Head(ring).file,
                                               !.order = next_completion_order]
         IN /\ TableTypes' /\ Queue'
            /\ \/ batch_error'
               \/ /\ ~HasSeen(dios, c) /\ n.seen /\ n.done = dio_get_or_create(c).done
                  /\ Kept(Put(c, n)) /\ (~batch_error' => ~batch_error)
<1> DEFINE e == Head(ring)
           c == e.cookie
           d == dio_get_or_create(c)
           n == [d EXCEPT !.seen = TRUE, !.res = e.ret, !.file = e.file,
                          !.order = next_completion_order]
<1>1. e \in Events /\ c \in Cookies BY HeadTyped
<1> HIDE DEF c
<1>2. /\ d \in Entry /\ (c \in DOMAIN dios => d = dios[c])
      /\ (c \notin DOMAIN dios => ~d.seen /\ ~d.done /\ ~d.aborted)
  BY <1>1, GotEntry
<1>3. CASE d.seen
  <2>1. dios' = Put(c, d) /\ Refuse BY <1>3 DEF dio_note_completion, c
  <2> QED BY <1>1, <1>2, <1>3, <2>1, RefuseTable DEF Refuse, c
<1>4. CASE ~d.seen
  <2>1. /\ dio_flush_completed(Put(c, n), FALSE)
        /\ next_completion_order' = next_completion_order + 1
    BY <1>4 DEF dio_note_completion, c
  <2>2. n \in Entry /\ n.seen /\ n.order = next_completion_order /\ n.done = d.done
    <3>1. next_completion_order \in Nat BY DEF Types, TableTypes
    <3> HIDE DEF d, e
    <3> QED BY <1>1, <1>2, <3>1 DEF Entry, Events
  <2>3. c \in DOMAIN dios => ~dios[c].seen BY <1>2, <1>4
  <2>4. TableTypes' /\ Queue' /\ Kept(Put(c, n)) /\ (~batch_error' => ~batch_error)
    <3> HIDE DEF n
    <3> QED BY <1>1, <2>1, <2>2, <2>3, SeenTable
  <2>5. ~HasSeen(dios, c) BY <2>3 DEF HasSeen
  <2> QED BY <2>2, <2>4, <2>5 DEF c
<1> QED BY <1>3, <1>4

LEMMA AbortEvent ==
  ASSUME Types, Queue, ring # <<>>, Head(ring).op = "abort", dio_abort(Head(ring))
  PROVE  TableTypes' /\ Queue' /\ batch_error'
<1> DEFINE e == Head(ring)
           c == e.cookie
           d == dio_get_or_create(c)
           n == [d EXCEPT !.aborted = TRUE, !.done = TRUE]
<1>1. e \in Events /\ c \in Cookies BY HeadTyped
<1> HIDE DEF c
<1>2. /\ d \in Entry /\ (c \in DOMAIN dios => d = dios[c])
      /\ (c \notin DOMAIN dios => ~d.seen /\ ~d.done /\ ~d.aborted)
  BY <1>1, GotEntry
<1>3. dio_flush_completed(Put(c, n), TRUE) /\ UNCHANGED next_completion_order
  BY DEF dio_abort, c
<1> HIDE DEF d
<1>4. n \in Entry /\ n.seen = d.seen /\ n.order = d.order BY <1>2 DEF Entry
<1> HIDE DEF n
<1>5. SamePlace(dios, c, n) BY <1>2, <1>4 DEF SamePlace
<1>6. TableTypes' /\ Queue' /\ (~batch_error' => ~batch_error /\ ~TRUE)
  BY <1>1, <1>3, <1>4, <1>5, DoneTable
<1> QED BY <1>6

LEMMA HandlerTypes ==
  ASSUME Types, Queue, handle_event
  PROVE  Types' /\ Queue'
<1> DEFINE e == Head(ring)
<1>1. ring # <<>> /\ ring' = Tail(ring) /\ UNCHANGED <<app, hooks, lost, sink>>
  BY DEF handle_event
<1>2. RingTypes'
  <2>1. /\ ring' \in Seq(Events) /\ Len(ring') = Len(ring) - 1 /\ Len(ring) \in Nat
        /\ \A i \in 1..Len(ring') : ring'[i] = ring[i + 1] /\ i + 1 \in 1..Len(ring)
    BY <1>1 DEF Types, RingTypes
  <2> QED BY <1>1, <2>1, Bounds DEF Types, RingTypes
<1>3. AppTypes' /\ HookTypes' /\ SinkTypes'
  BY <1>1 DEF Types, app, hooks, sink, AppTypes, HookTypes, SinkTypes
<1>4. TableTypes' /\ Queue'
  <2>1. CASE e.op = "submit" /\ dio_stage_segment(e) BY <1>1, <2>1, StageTable
  <2>2. CASE e.op = "done" /\ dio_submit_done(e) BY <1>1, <2>2, DoneEvent
  <2>3. CASE e.op = "complete" /\ dio_note_completion(e) BY <1>1, <2>3, CompleteEventHandled
  <2>4. CASE e.op = "abort" /\ dio_abort(e) BY <1>1, <2>4, AbortEvent
  <2>5. CASE e.op = "write" /\ HandleWrite(e)
    BY <2>5 DEF HandleWrite, Types, TableTypes, Queue, Flushed, Ready, Slots
  <2> QED BY <2>1, <2>2, <2>3, <2>4, <2>5 DEF handle_event
<1> QED BY <1>2, <1>3, <1>4 DEF Types

-----------------------------------------------------------------------------
LEMMA QueueKept ==
  ASSUME Queue, UNCHANGED <<dios, next_completion_order, next_commit_order>>
  PROVE  Queue'
BY DEF Queue, Flushed, Ready, Slots

LEMMA InitTypes ==
  ASSUME Init
  PROVE  Types /\ Queue
<1>1. AppTypes
  <2>1. Repeat(Zero, Cells) \in Seq(Cell) BY RepeatTyped, Bounds DEF Cell
  <2> QED BY <2>1, Bounds DEF Init, AppTypes
<1>2. HookTypes BY DEF Init, HookTypes
<1>3. RingTypes
  <2>1. ring = <<>> /\ lost = FALSE BY DEF Init
  <2>2. ring \in Seq(Events) /\ Len(ring) = 0 BY <2>1
  <2>3. RingSize >= 0 BY Bounds
  <2>4. \A i \in 1..Len(ring) : ring[i].op # "write" => ring[i].cookie \in Cookies BY <2>2
  <2> QED BY <2>1, <2>2, <2>3, <2>4 DEF RingTypes
<1>4. DOMAIN dios = {} /\ next_completion_order = 0 /\ next_commit_order = 0 BY DEF Init
<1>5. TableTypes
  <2>1. dios \in Seq(Entry) BY DEF Init
  <2>2. dios \in [1..Len(dios) -> Entry] /\ DOMAIN dios = 1..Len(dios) BY <2>1
  <2>3. dios \in [DOMAIN dios -> Entry] BY <2>2
  <2>4. DOMAIN dios \subseteq Cookies /\ batch_error \in BOOLEAN BY <1>4 DEF Init
  <2> QED BY <1>4, <2>3, <2>4 DEF TableTypes
<1>6. Queue BY <1>4 DEF Queue, Slots, Flushed, Ready
<1>7. SinkTypes BY DEF Init, SinkTypes
<1> QED BY <1>1, <1>2, <1>3, <1>5, <1>6, <1>7 DEF Types

LEMMA StepTypes ==
  ASSUME Types, Queue, [Next]_vars
  PROVE  Types' /\ Queue'
<1>1. CASE UNCHANGED vars
  <2>1. UNCHANGED <<disk, count, iocb, io, pc, work, inflight, ring, lost, dios,
                    next_completion_order, next_commit_order, batch_error, daemon>>
    BY <1>1 DEF vars, app, hooks, user, sink
  <2> QED BY <2>1, QueueKept DEF Types, AppTypes, HookTypes, RingTypes, TableTypes, SinkTypes
<1>2. ASSUME NEW t \in Threads, handle_io_submit_one(t) PROVE Types' /\ Queue'
  BY <1>2, SubmitTypes, QueueKept DEF handle_io_submit_one, user
<1>3. ASSUME NEW t \in Threads, SyncWrite(t) PROVE Types' /\ Queue'
  BY <1>3, SyncTypes, QueueKept DEF SyncWrite, user
<1>4. ASSUME NEW t \in Threads, InSubmit(t) PROVE Types' /\ Queue'
  <2>1. Hook
    BY <1>4 DEF InSubmit, handle_io_submit_one_exit, dio_emit_one, EmitDone, EmitAbort
  <2>2. Queue' BY <2>1, QueueKept DEF Hook, user
  <2> QED BY <1>4, <2>2, ExitTypes, EmitOneTypes, EmitDoneTypes, EmitAbortTypes DEF InSubmit
<1>5. ASSUME NEW c \in Cookies, handle_aio_complete_rw(c) PROVE Types' /\ Queue'
  BY <1>5, CompleteTypes, QueueKept DEF handle_aio_complete_rw, user
<1>6. CASE capture_and_send
  <2>1. UNCHANGED <<disk, count, iocb, io, pc, work, inflight, ring, lost, dios,
                    next_completion_order, next_commit_order, batch_error>>
        /\ daemon' \in {daemon, "failed"}
    BY <1>6 DEF capture_and_send, app, hooks
  <2> QED BY <2>1, QueueKept DEF Types, AppTypes, HookTypes, RingTypes, TableTypes, SinkTypes
<1> QED BY <1>1, <1>2, <1>3, <1>4, <1>5, <1>6, HandlerTypes DEF Next, Capturer

(* Every variable keeps its type, for any threads, iocbs, files, kinds of  *)
(* request and limits; the commit counter never passes the completion      *)
(* counter (dio_flush_completed, dio_note_completion).                     *)
THEOREM TypesKept == Spec => []TypeOK
<1>1. Init => Types /\ Queue BY InitTypes
<1>2. Types /\ Queue /\ [Next]_vars => Types' /\ Queue' BY StepTypes
<1>3. Types /\ Queue => TypeOK
  BY DEF Types, AppTypes, HookTypes, RingTypes, TableTypes, SinkTypes, TypeOK, Cell
<1> QED BY <1>1, <1>2, <1>3, PTL DEF Spec

-----------------------------------------------------------------------------
(* One user of an iocb at a time.                                          *)

Owners == OneWork /\ SameRequest

LEMMA OwnersKept ==
  ASSUME ~SharedReap, Types, Owners, [Next]_vars
  PROVE  Owners'
<1> USE DEF Owners
<1>1. CASE UNCHANGED <<pc, work, iocb, io>> BY <1>1 DEF OneWork, SameRequest
<1>2. ASSUME NEW t \in Threads, handle_io_submit_one(t) PROVE Owners'
  <2>1. PICK c \in Cookies, op \in Request, ok \in BOOLEAN :
          /\ pc[t] = "idle" /\ Reaped(c)
          /\ iocb' = [iocb EXCEPT ![c] = op]
          /\ io' = IF ok THEN [io EXCEPT ![c] = op] ELSE io
          /\ pc' = [pc EXCEPT ![t] = IF ok THEN "issued" ELSE "refused"]
          /\ work' = [work EXCEPT ![t] = [cookie |-> c, ib |-> op, sent |-> 0]]
    BY <1>2 DEF handle_io_submit_one
  <2>2. io[c] = NoOp /\ \A u \in Threads : pc[u] # "idle" => work[u].cookie # c
    BY <2>1 DEF Reaped, Work
  <2>3. /\ pc'[t] \in {"issued", "refused"} /\ (pc'[t] = "refused" <=> ~ok)
        /\ work'[t].cookie = c /\ work'[t].ib = op
    BY <2>1 DEF Types, HookTypes
  <2>4. \A u \in Threads : u # t => pc'[u] = pc[u] /\ work'[u] = work[u]
    BY <2>1 DEF Types, HookTypes
  <2>5. iocb'[c] = op /\ \A x \in Cookies : x # c => iocb'[x] = iocb[x] /\ io'[x] = io[x]
    BY <2>1 DEF Types, AppTypes
  <2>6. io'[c] = IF ok THEN op ELSE NoOp BY <2>1, <2>2 DEF Types, AppTypes
  <2>7. \A u \in Threads : pc[u] # "idle" => work[u].cookie \in Cookies BY JobTyped
  <2>8. OneWork' BY <2>1, <2>2, <2>3, <2>4 DEF OneWork
  <2>9. SameRequest'
    <3>1. ASSUME NEW u \in Threads
          PROVE  /\ pc'[u] # "idle" => work'[u].ib = iocb'[work'[u].cookie]
                 /\ pc'[u] = "refused" => io'[work'[u].cookie] = NoOp
                 /\ pc'[u] = "staging" => IsWrite(work'[u].ib)
      <4>1. CASE u = t BY <2>3, <2>5, <2>6, <4>1
      <4>2. CASE u # t
        BY <2>2, <2>4, <2>5, <2>7, <4>2 DEF SameRequest
      <4> QED BY <4>1, <4>2
    <3>2. \A x \in Cookies : io'[x] # NoOp => io'[x] = iocb'[x]
      BY <2>5, <2>6 DEF SameRequest
    <3> QED BY <3>1, <3>2 DEF SameRequest
  <2> QED BY <2>8, <2>9
<1>3. ASSUME NEW c \in Cookies, handle_aio_complete_rw(c) PROVE Owners'
  <2>1. UNCHANGED <<iocb, pc, work>> /\ io' = [io EXCEPT ![c] = NoOp]
    BY <1>3 DEF handle_aio_complete_rw
  <2>2. io'[c] = NoOp /\ \A x \in Cookies : x # c => io'[x] = io[x]
    BY <2>1 DEF Types, AppTypes
  <2>3. \A u \in Threads : pc[u] # "idle" => work[u].cookie \in Cookies BY JobTyped
  <2> QED BY <2>1, <2>2, <2>3 DEF OneWork, SameRequest
<1>4. ASSUME NEW t \in Threads, InSubmit(t) PROVE Owners'
  <2>1. UNCHANGED <<iocb, io>>
    BY <1>4 DEF InSubmit, handle_io_submit_one_exit, dio_emit_one, EmitDone, EmitAbort, Hook, app
  <2>2. \A u \in Threads : u # t => pc'[u] = pc[u] /\ work'[u] = work[u]
    BY <1>4 DEF InSubmit, handle_io_submit_one_exit, dio_emit_one, EmitDone, EmitAbort, Leave,
                Types, HookTypes
  <2>3. pc[t] # "idle"
    BY <1>4 DEF InSubmit, handle_io_submit_one_exit, dio_emit_one, EmitDone, EmitAbort
  <2>4. work[t].ib = iocb[work[t].cookie] BY <2>3 DEF SameRequest
  <2>5. /\ work'[t].cookie = work[t].cookie /\ work'[t].ib = work[t].ib
        /\ pc'[t] # "refused" /\ (pc'[t] = "staging" => IsWrite(work[t].ib))
    <3>1. CASE handle_io_submit_one_exit(t)
      BY <2>3, <2>4, <3>1, JobTyped
         DEF handle_io_submit_one_exit, Leave, Types, HookTypes, Job
    <3>2. CASE dio_emit_one(t)
      <4>1. pc[t] = "staging" /\ IsWrite(work[t].ib) BY <3>2 DEF dio_emit_one, SameRequest
      <4>2. pc'[t] \in {"staging", "aborting"} BY <3>2, <4>1 DEF dio_emit_one, Types, HookTypes
      <4>3. \/ work' = work
            \/ \E n : work' = [work EXCEPT ![t].sent = n]
        BY <3>2 DEF dio_emit_one
      <4>4. work'[t].cookie = work[t].cookie /\ work'[t].ib = work[t].ib
        BY <2>3, <4>3, JobTyped DEF Types, HookTypes, Job
      <4> QED BY <4>1, <4>2, <4>4
    <3>3. CASE EmitDone(t) \/ EmitAbort(t)
      BY <3>3 DEF EmitDone, EmitAbort, Leave, Types, HookTypes
    <3> QED BY <1>4, <3>1, <3>2, <3>3 DEF InSubmit
  <2>6. OneWork' BY <2>2, <2>3, <2>5 DEF OneWork
  <2>7. SameRequest' BY <2>1, <2>2, <2>4, <2>5 DEF SameRequest
  <2> QED BY <2>6, <2>7
<1>5. ASSUME NEW t \in Threads, SyncWrite(t) PROVE Owners'
  BY <1>1, <1>5 DEF SyncWrite, hooks
<1>6. CASE Capturer
  BY <1>1, <1>6 DEF Capturer, handle_event, capture_and_send, app, hooks
<1>7. CASE UNCHANGED vars BY <1>1, <1>7 DEF vars, app, hooks
<1> QED BY <1>2, <1>3, <1>4, <1>5, <1>6, <1>7 DEF Next

(* Who owes the end of a payload, step by step.                            *)
LEMMA SendingSame ==
  ASSUME NEW c, \A t \in Threads : pc'[t] = pc[t],
         \A t \in Threads : pc[t] # "idle" =>
           work'[t].cookie = work[t].cookie /\ work'[t].ib = work[t].ib
  PROVE  Sending(c)' <=> Sending(c)
BY DEF Sending

-----------------------------------------------------------------------------
(* Payloads and completions go in pairs.                                   *)

Halves == Balanced /\ Registered /\ Claimed

(* What is to be shown of a step.                                          *)
LEMMA HalvesStep ==
  ASSUME Clean' =>
           /\ \A c \in Cookies :
                /\ Times(ring', "done", c) + One(HasDone(dios', c)) + One(Sending(c)')
                     = Times(ring', "complete", c) + One(HasSeen(dios', c)) + One(Flying(c)')
                /\ Flying(c)' => c \in inflight'
           /\ \A c \in DOMAIN dios' :
                dios'[c].done \/ Sending(c)' \/ Which(ring', "done", c) # {}
           /\ \A i \in 1..Len(ring') : ring'[i].op = "submit" =>
                \/ \E c \in Cookies : c = ring'[i].cookie /\ Sending(c)'
                \/ \E j \in Which(ring', "done", ring'[i].cookie) : i < j
  PROVE  Halves'
<1>1. Balanced' BY DEF Balanced
<1>2. Registered' BY DEF Registered
<1>3. Claimed' BY DEF Claimed, Sending
<1> QED BY <1>1, <1>2, <1>3 DEF Halves

LEMMA HalvesNow ==
  ASSUME Types, Halves, Clean
  PROVE  /\ \A c \in Cookies :
              /\ Times(ring, "done", c) + One(HasDone(dios, c)) + One(Sending(c))
                   = Times(ring, "complete", c) + One(HasSeen(dios, c)) + One(Flying(c))
              /\ Flying(c) => c \in inflight
         /\ \A c \in DOMAIN dios : c \in Cookies /\
              (dios[c].done \/ Sending(c) \/ Which(ring, "done", c) # {})
         /\ \A i \in 1..Len(ring) : ring[i].op = "submit" =>
              /\ ring[i].cookie \in Cookies
              /\ \/ Sending(ring[i].cookie)
                 \/ \E j \in Which(ring, "done", ring[i].cookie) : i < j
         /\ \A c \in Cookies : Times(ring, "done", c) \in Nat /\ Times(ring, "complete", c) \in Nat
<1>1. ring \in Seq(Events) /\ DOMAIN dios \subseteq Cookies BY DEF Types, RingTypes, TableTypes
<1>2. \A c \in Cookies : Times(ring, "done", c) \in Nat /\ Times(ring, "complete", c) \in Nat
  BY <1>1, WhichFinite
<1>3. \A i \in 1..Len(ring) : ring[i].op = "submit" => ring[i].cookie \in Cookies
  BY DEF Types, RingTypes
<1> QED BY <1>1, <1>2, <1>3 DEF Halves, Balanced, Registered, Claimed

(* An event is written.                                                    *)
LEMMA EmitClean ==
  ASSUME Types, NEW e \in Events, Emit(e), Clean', UNCHANGED batch_error
  PROVE  /\ Clean /\ e.op # "abort" /\ Len(ring) < RingSize /\ ring' = Append(ring, e)
         /\ Len(ring') = Len(ring) + 1 /\ ring'[Len(ring')] = e
         /\ \A i \in 1..Len(ring) : ring'[i] = ring[i]
         /\ \A op, c : Times(ring', op, c) = Times(ring, op, c) + One(e.op = op /\ e.cookie = c)
         /\ \A op, c : Which(ring, op, c) \subseteq Which(ring', op, c)
<1>1. Len(ring) < RingSize /\ ring' = Append(ring, e) /\ ~lost BY DEF Emit, Clean
<1>2. ring \in Seq(Events) /\ Len(ring) \in Nat BY DEF Types, RingTypes
<1>3. /\ Len(ring') = Len(ring) + 1 /\ ring'[Len(ring')] = e
      /\ \A i \in 1..Len(ring) : ring'[i] = ring[i]
  BY <1>1, <1>2
<1>4. Clean /\ e.op # "abort"
  <2>1. \A i \in 1..Len(ring) : i \in 1..Len(ring') BY <1>2, <1>3
  <2>2. Len(ring') \in 1..Len(ring') BY <1>2, <1>3
  <2> QED BY <1>1, <1>3, <2>1, <2>2 DEF Clean
<1>5. \A op, c : Times(ring', op, c) = Times(ring, op, c) + One(e.op = op /\ e.cookie = c)
  BY <1>1, <1>2, TimesAppend
<1>6. \A op, c : Which(ring, op, c) \subseteq Which(ring', op, c)
  BY <1>2, <1>3 DEF Which
<1> QED BY <1>1, <1>3, <1>4, <1>5, <1>6

LEMMA SubmitHalves ==
  ASSUME ~SharedReap, Types, Owners, Halves, NEW t \in Threads, handle_io_submit_one(t)
  PROVE  Halves'
<1>1. PICK c \in Cookies, op \in Request, ok \in BOOLEAN :
        /\ pc[t] = "idle" /\ Reaped(c)
        /\ IF Cardinality(inflight \cup {c}) <= DioMax
           THEN inflight' = inflight \cup {c} /\ UNCHANGED lost
           ELSE lost' = TRUE /\ UNCHANGED inflight
        /\ io' = IF ok THEN [io EXCEPT ![c] = op] ELSE io
        /\ pc' = [pc EXCEPT ![t] = IF ok THEN "issued" ELSE "refused"]
        /\ work' = [work EXCEPT ![t] = [cookie |-> c, ib |-> op, sent |-> 0]]
        /\ UNCHANGED <<disk, past, ring, user, sink>>
  BY DEF handle_io_submit_one
<1>2. UNCHANGED <<ring, dios, batch_error>> BY <1>1 DEF user
<1>3. io[c] = NoOp /\ \A u \in Threads : pc[u] # "idle" => work[u].cookie # c
  BY <1>1 DEF Reaped, Work
<1>4. /\ pc'[t] \in {"issued", "refused"} /\ (pc'[t] = "issued" <=> ok)
      /\ work'[t].cookie = c /\ work'[t].ib = op
  BY <1>1 DEF Types, HookTypes
<1>5. \A u \in Threads : u # t => pc'[u] = pc[u] /\ work'[u] = work[u]
  BY <1>1 DEF Types, HookTypes
<1>6. io'[c] = (IF ok THEN op ELSE NoOp) /\ \A x \in Cookies : x # c => io'[x] = io[x]
  BY <1>1, <1>3 DEF Types, AppTypes
<1>7. ~Sending(c) /\ ~Flying(c) BY <1>3 DEF Sending, Flying
<1>8. Sending(c)' <=> ok /\ IsWrite(op) BY <1>3, <1>4, <1>5 DEF Sending
<1>9. Flying(c)' <=> ok /\ IsWrite(op) BY <1>6, RequestTyped DEF Flying
<1>10. \A x \in Cookies : x # c => (Sending(x)' <=> Sending(x)) /\ (Flying(x)' <=> Flying(x))
  BY <1>1, <1>4, <1>5, <1>6 DEF Sending, Flying
<1> SUFFICES ASSUME Clean'
             PROVE  /\ \A x \in Cookies :
                        /\ Times(ring, "done", x) + One(HasDone(dios, x)) + One(Sending(x)')
                             = Times(ring, "complete", x) + One(HasSeen(dios, x)) + One(Flying(x)')
                        /\ Flying(x)' => x \in inflight'
                    /\ \A x \in Cookies : Sending(x) => Sending(x)'
                    /\ Clean
  BY <1>2, HalvesStep, HalvesNow
<1>11. Clean /\ ~lost' BY <1>1, <1>2 DEF Clean
<1>12. inflight' = inflight \cup {c} BY <1>1, <1>11
<1>13. ASSUME NEW x \in Cookies
       PROVE  Times(ring, "done", x) + One(HasDone(dios, x)) + One(Sending(x)')
                = Times(ring, "complete", x) + One(HasSeen(dios, x)) + One(Flying(x)')
  <2>1. CASE x = c
    <3>1. /\ One(Sending(x)) = 0 /\ One(Flying(x)) = 0
          /\ One(Sending(x)') = One(Flying(x)') /\ One(Sending(x)') \in {0, 1}
      BY <1>7, <1>8, <1>9, <2>1 DEF One
    <3>2. One(HasDone(dios, x)) \in {0, 1} /\ One(HasSeen(dios, x)) \in {0, 1} BY DEF One
    <3> QED BY <1>11, <3>1, <3>2, HalvesNow
  <2>2. CASE x # c
    <3>1. One(Sending(x)') = One(Sending(x)) /\ One(Flying(x)') = One(Flying(x))
      BY <1>10, <2>2 DEF One
    <3> QED BY <1>11, <3>1, HalvesNow
  <2> QED BY <2>1, <2>2
<1>14. \A x \in Cookies : Flying(x)' => x \in inflight' BY <1>10, <1>11, <1>12, HalvesNow
<1>15. \A x \in Cookies : Sending(x) => Sending(x)' BY <1>7, <1>10
<1> QED BY <1>11, <1>13, <1>14, <1>15

LEMMA CompleteHalves ==
  ASSUME Types, Owners, Halves, NEW c \in Cookies, handle_aio_complete_rw(c)
  PROVE  Halves'
<1>1. PICK res \in 0..io[c].len :
        IF c \in inflight /\ IsWrite(io[c]) THEN dio_emit_complete(c, io[c].file, res)
        ELSE UNCHANGED <<ring, lost>>
  BY DEF handle_aio_complete_rw
<1>2. io[c] # NoOp /\ inflight' = inflight \ {c} /\ io' = [io EXCEPT ![c] = NoOp]
      /\ UNCHANGED <<pc, work, dios, batch_error>>
  BY DEF handle_aio_complete_rw, user
<1>3. ~Flying(c)' /\ \A x \in Cookies : x # c => (Flying(x)' <=> Flying(x))
  BY <1>2 DEF Flying, Types, AppTypes
<1>4. \A x \in Cookies : Sending(x)' <=> Sending(x) BY <1>2 DEF Sending
<1>5. res \in Nat /\ io[c].file \in Files
  BY <1>1, <1>2, RequestTyped DEF Types, AppTypes
<1>6. CASE Flying(c)
  <2> DEFINE fl == IF io[c].file \in Captured THEN io[c].file ELSE NoOp
             e == [Event("complete", c) EXCEPT !.ret = res, !.file = fl]
  <2>1. fl \in Files \cup {NoOp} BY <1>5
  <2>2. e \in Events /\ e.op = "complete" /\ e.cookie = c
    <3> HIDE DEF fl
    <3> QED BY <1>5, <2>1, CompleteEvent
  <2>3. c \in inflight => Emit(e) BY <1>1, <1>6 DEF Flying, dio_emit_complete
  <2> HIDE DEF e
  <2> SUFFICES ASSUME Clean'
               PROVE  /\ \A x \in Cookies :
                          Times(ring', "done", x) + One(HasDone(dios, x)) + One(Sending(x))
                            = Times(ring', "complete", x) + One(HasSeen(dios, x)) + One(Flying(x)')
                      /\ \A x \in Cookies : Flying(x)' => x \in inflight'
                      /\ \A x \in DOMAIN dios :
                           dios[x].done \/ Sending(x) \/ Which(ring', "done", x) # {}
                      /\ \A i \in 1..Len(ring') : ring'[i].op = "submit" =>
                           \/ \E x \in Cookies : x = ring'[i].cookie /\ Sending(x)
                           \/ \E j \in Which(ring', "done", ring'[i].cookie) : i < j
    BY <1>2, <1>4, HalvesStep DEF One, Types, TableTypes
  <2>4. Clean /\ c \in inflight
    <3>1. CASE c \in inflight BY <1>2, <2>2, <2>3, <3>1, EmitClean
    <3>2. CASE c \notin inflight
      <4>1. Clean BY <1>1, <1>2, <3>2 DEF Clean
      <4> QED BY <1>6, <4>1, HalvesNow
    <3> QED BY <3>1, <3>2
  <2>5. /\ Len(ring') = Len(ring) + 1 /\ ring'[Len(ring')] = e
        /\ \A i \in 1..Len(ring) : ring'[i] = ring[i]
        /\ \A op, x : Times(ring', op, x) = Times(ring, op, x) + One(e.op = op /\ e.cookie = x)
        /\ \A op, x : Which(ring, op, x) \subseteq Which(ring', op, x)
    BY <1>2, <2>2, <2>3, <2>4, EmitClean
  <2>6. ASSUME NEW x \in Cookies
        PROVE  Times(ring', "done", x) + One(HasDone(dios, x)) + One(Sending(x))
                 = Times(ring', "complete", x) + One(HasSeen(dios, x)) + One(Flying(x)')
    <3>1. Times(ring', "done", x) = Times(ring, "done", x)
          /\ Times(ring', "complete", x) = Times(ring, "complete", x) + One(c = x)
      BY <2>2, <2>4, <2>5, HalvesNow DEF One
    <3>2. One(c = x) + One(Flying(x)') = One(Flying(x)) BY <1>3, <1>6 DEF One
    <3>3. /\ One(HasDone(dios, x)) \in Nat /\ One(HasSeen(dios, x)) \in Nat
          /\ One(Sending(x)) \in Nat /\ One(Flying(x)) \in Nat
          /\ One(c = x) \in Nat /\ One(Flying(x)') \in Nat
      BY DEF One
    <3> QED BY <2>4, <3>1, <3>2, <3>3, HalvesNow
  <2>7. \A x \in Cookies : Flying(x)' => x \in inflight' BY <1>2, <1>3, <2>4, HalvesNow
  <2>8. \A i \in 1..Len(ring') : ring'[i].op = "submit" => i \in 1..Len(ring)
    BY <2>2, <2>5 DEF Types, RingTypes
  <2>9. \A i \in 1..Len(ring') : ring'[i].op = "submit" =>
          \/ \E x \in Cookies : x = ring'[i].cookie /\ Sending(x)
          \/ \E j \in Which(ring', "done", ring'[i].cookie) : i < j
    BY <2>4, <2>5, <2>8, HalvesNow
  <2>10. \A x \in DOMAIN dios : dios[x].done \/ Sending(x) \/ Which(ring', "done", x) # {}
    BY <2>4, <2>5, HalvesNow
  <2> QED BY <2>6, <2>7, <2>9, <2>10
<1>7. CASE ~Flying(c)
  <2>1. UNCHANGED <<ring, lost>> BY <1>1, <1>2, <1>7 DEF Flying
  <2>2. \A x \in Cookies : Flying(x)' <=> Flying(x) BY <1>3, <1>7
  <2>3. Clean' => Clean BY <1>2, <2>1 DEF Clean
  <2>4. \A x \in Cookies : Flying(x)' => x # c BY <1>3
  <2> QED BY <1>2, <1>4, <2>1, <2>2, <2>3, <2>4, HalvesStep, HalvesNow DEF One
<1> QED BY <1>6, <1>7

(* An event that is no half of a write.                                    *)
LEMMA OtherEvent ==
  ASSUME Types, Halves, NEW e \in Events, Emit(e), e.op \notin {"done", "complete"},
         e.op = "submit" => e.cookie \in Cookies /\ Sending(e.cookie)',
         UNCHANGED <<dios, batch_error, io, inflight>>,
         Clean' => \A x \in Cookies : Sending(x)' <=> Sending(x)
  PROVE  Halves'
<1> SUFFICES ASSUME Clean'
             PROVE  /\ \A x \in Cookies :
                        /\ Times(ring', "done", x) = Times(ring, "done", x)
                        /\ Times(ring', "complete", x) = Times(ring, "complete", x)
                    /\ Clean
                    /\ \A x \in Cookies : Sending(x)' <=> Sending(x)
                    /\ \A x \in DOMAIN dios :
                         dios[x].done \/ Sending(x) \/ Which(ring', "done", x) # {}
                    /\ \A i \in 1..Len(ring') : ring'[i].op = "submit" =>
                         \/ \E x \in Cookies : x = ring'[i].cookie /\ Sending(x)'
                         \/ \E j \in Which(ring', "done", ring'[i].cookie) : i < j
  <2>1. \A x \in Cookies : Flying(x)' <=> Flying(x) BY DEF Flying
  <2> QED BY <2>1, HalvesStep, HalvesNow DEF One
<1>1. /\ Clean /\ Len(ring') = Len(ring) + 1 /\ ring'[Len(ring')] = e
      /\ \A i \in 1..Len(ring) : ring'[i] = ring[i]
      /\ \A op, x : Times(ring', op, x) = Times(ring, op, x) + One(e.op = op /\ e.cookie = x)
      /\ \A op, x : Which(ring, op, x) \subseteq Which(ring', op, x)
  BY EmitClean
<1>2. \A x \in Cookies : /\ Times(ring', "done", x) = Times(ring, "done", x)
                         /\ Times(ring', "complete", x) = Times(ring, "complete", x)
  BY <1>1, HalvesNow DEF One
<1>3. \A x \in Cookies : Sending(x)' <=> Sending(x) OBVIOUS
<1>4. \A x \in DOMAIN dios : dios[x].done \/ Sending(x) \/ Which(ring', "done", x) # {}
  BY <1>1, HalvesNow
<1>5. ASSUME NEW i \in 1..Len(ring'), ring'[i].op = "submit"
      PROVE  \/ \E x \in Cookies : x = ring'[i].cookie /\ Sending(x)'
             \/ \E j \in Which(ring', "done", ring'[i].cookie) : i < j
  <2>1. CASE i = Len(ring') BY <1>1, <1>5, <2>1
  <2>2. CASE i # Len(ring')
    <3>1. i \in 1..Len(ring) BY <1>1, <2>2 DEF Types, RingTypes
    <3> QED BY <1>1, <1>3, <1>5, <3>1, HalvesNow
  <2> QED BY <2>1, <2>2
<1> QED BY <1>1, <1>2, <1>3, <1>4, <1>5

(* Nothing that the halves depend on has changed.                          *)
LEMMA NoEvent ==
  ASSUME Types, Halves, UNCHANGED <<ring, dios>>, Clean' => Clean,
         Clean' => \A x \in Cookies : Sending(x)' <=> Sending(x),
         Clean => \A x \in Cookies : (Flying(x)' <=> Flying(x)) /\ (Flying(x) => x \in inflight')
  PROVE  Halves'
BY HalvesStep, HalvesNow DEF One

LEMMA SyncHalves ==
  ASSUME Types, Halves, NEW t \in Threads, SyncWrite(t)
  PROVE  Halves'
<1>1. UNCHANGED <<iocb, io, hooks, user, sink>> BY DEF SyncWrite
<1>2. UNCHANGED <<dios, batch_error, io, inflight, pc, work>> BY <1>1 DEF hooks, user
<1>3. \A x \in Cookies : (Sending(x)' <=> Sending(x)) /\ (Flying(x)' <=> Flying(x))
  BY <1>2 DEF Sending, Flying
<1>4. PICK f \in Files, k \in 1..Cells :
        /\ count < MaxOps
        /\ IF f \in Captured
           THEN Emit([Event("write", NoOp) EXCEPT !.file = f, !.off = k - 1,
                                                  !.data = <<count + 1>>])
           ELSE UNCHANGED <<ring, lost>>
  BY DEF SyncWrite
<1>5. CASE f \in Captured
  <2> DEFINE e == [Event("write", NoOp) EXCEPT !.file = f, !.off = k - 1, !.data = <<count + 1>>]
  <2>1. count + 1 \in Cell BY <1>4, Bounds DEF Cell, Types, AppTypes
  <2>2. <<count + 1>> \in Seq(Cell) /\ k - 1 \in Nat BY <2>1, Bounds
  <2>3. e \in Events /\ e.op = "write" BY <2>2 DEF Event, Events
  <2>4. Emit(e) BY <1>4, <1>5
  <2> HIDE DEF e
  <2> QED BY <1>2, <1>3, <2>3, <2>4, OtherEvent
<1>6. CASE f \notin Captured
  <2>1. UNCHANGED <<ring, lost>> BY <1>4, <1>6
  <2>2. Clean' => Clean BY <1>2, <2>1 DEF Clean
  <2> QED BY <1>2, <1>3, <2>1, <2>2, NoEvent, HalvesNow
<1> QED BY <1>5, <1>6

LEMMA ExitHalves ==
  ASSUME Types, Owners, Halves, NEW t \in Threads, handle_io_submit_one_exit(t)
  PROVE  Halves'
<1> DEFINE c == work[t].cookie
<1>1. UNCHANGED <<io, dios, batch_error, ring, iocb>>
  BY DEF handle_io_submit_one_exit, Hook, app, user
<1>2. c \in Cookies /\ pc[t] # "idle" /\ work[t].ib = iocb[c]
  <2>1. pc[t] # "idle" BY DEF handle_io_submit_one_exit
  <2> QED BY <2>1, JobTyped DEF Owners, SameRequest
<1>3. \A x \in Cookies : Flying(x)' <=> Flying(x) BY <1>1 DEF Flying
<1>4. CASE lost' = TRUE
  <2>1. ~Clean' BY <1>4 DEF Clean
  <2> QED BY <2>1, HalvesStep
<1>5. CASE /\ pc[t] = "refused" \/ (pc[t] = "issued" /\ ~IsWrite(iocb[c]))
           /\ Forget(t) /\ Leave(t) /\ UNCHANGED lost
  <2>1. ~Flying(c) BY <1>2, <1>5 DEF Flying, Owners, SameRequest
  <2>2. inflight' = inflight \ {c} BY <1>5 DEF Forget
  <2>3. \A u \in Threads : u # t => pc'[u] = pc[u] /\ work'[u] = work[u]
    BY <1>5 DEF Leave, Types, HookTypes
  <2>4. pc'[t] = "idle" BY <1>5 DEF Leave, Types, HookTypes
  <2>5. ~(pc[t] \in {"staging", "aborting"} \/ (pc[t] = "issued" /\ IsWrite(work[t].ib)))
    BY <1>2, <1>5
  <2>6. \A x \in Cookies : Sending(x)' <=> Sending(x) BY <2>3, <2>4, <2>5 DEF Sending
  <2>7. Clean' => Clean BY <1>1, <1>5 DEF Clean
  <2> QED BY <1>1, <1>3, <2>1, <2>2, <2>6, <2>7, NoEvent, HalvesNow
<1>6. CASE /\ pc[t] = "issued" /\ IsWrite(iocb[c])
           /\ pc' = [pc EXCEPT ![t] = "staging"]
           /\ work' = [work EXCEPT ![t].ib = iocb[c]]
           /\ UNCHANGED <<inflight, lost>>
  <2>1. \A u \in Threads : u # t => pc'[u] = pc[u] /\ work'[u] = work[u]
    BY <1>6 DEF Types, HookTypes
  <2>2. pc'[t] = "staging" /\ work'[t].cookie = c
    BY <1>2, <1>6, JobTyped DEF Types, HookTypes, Job
  <2>3. \A x \in Cookies : Sending(x)' <=> Sending(x) BY <1>2, <1>6, <2>1, <2>2 DEF Sending
  <2>4. Clean' => Clean BY <1>1, <1>6 DEF Clean
  <2> QED BY <1>1, <1>3, <1>6, <2>3, <2>4, NoEvent, HalvesNow
<1> QED BY <1>4, <1>5, <1>6 DEF handle_io_submit_one_exit

LEMMA EmitOneHalves ==
  ASSUME Types, Owners, Halves, NEW t \in Threads, dio_emit_one(t)
  PROVE  Halves'
<1> DEFINE n == IF work[t].ib.kind = "pwrite" THEN work[t].ib.len ELSE 1
<1>1. pc[t] = "staging" /\ UNCHANGED <<io, dios, batch_error, iocb, inflight>>
  BY DEF dio_emit_one, Hook, app, user
<1>2. CASE lost' = TRUE
  <2>1. ~Clean' BY <1>2 DEF Clean
  <2> QED BY <2>1, HalvesStep
<1>3. CASE lost' # TRUE
  <2>1. Emit(Segment(work[t])) BY <1>3 DEF dio_emit_one, Segment
  <2>2. /\ pc' = pc \/ pc' = [pc EXCEPT ![t] = "aborting"]
        /\ \E k : work' = [work EXCEPT ![t].sent = k]
    BY <1>3 DEF dio_emit_one
  <2>3. \A u \in Threads : u # t => pc'[u] = pc[u] /\ work'[u] = work[u]
    BY <2>2 DEF Types, HookTypes
  <2>4. pc'[t] \in {"staging", "aborting"} /\ work'[t].cookie = work[t].cookie
    BY <1>1, <2>2, JobTyped DEF Types, HookTypes, Job
  <2>5. \A x \in Cookies : Sending(x)' <=> Sending(x) BY <1>1, <2>3, <2>4 DEF Sending
  <2>6. /\ Segment(work[t]) \in Events /\ Segment(work[t]).op = "submit"
        /\ Segment(work[t]).cookie = work[t].cookie /\ work[t].cookie \in Cookies
    BY <1>1, SegmentTyped, JobTyped
  <2>7. PICK e \in Events : e = Segment(work[t]) BY <2>6
  <2>8. Emit(e) /\ e.op = "submit" /\ e.cookie = work[t].cookie /\ e.cookie \in Cookies
    BY <2>1, <2>6, <2>7
  <2>9. Sending(e.cookie)' BY <2>4, <2>8 DEF Sending
  <2> QED BY <1>1, <2>5, <2>8, <2>9, OtherEvent
<1> QED BY <1>2, <1>3

LEMMA EmitDoneHalves ==
  ASSUME Types, Owners, Halves, NEW t \in Threads, EmitDone(t)
  PROVE  Halves'
<1>1. PICK e \in Events, c \in Cookies :
        /\ pc[t] = "staging" /\ UNCHANGED <<io, dios, batch_error, iocb>> /\ Leave(t)
        /\ Emit(e) /\ work[t].cookie = c /\ e.op = "done" /\ e.cookie = c
  <2> DEFINE m == [Event("done", work[t].cookie) EXCEPT !.size = work[t].sent]
  <2>1. pc[t] = "staging" /\ UNCHANGED <<io, dios, batch_error, iocb>> /\ Leave(t) /\ Emit(m)
    BY DEF EmitDone, Hook, app, user
  <2>2. m \in Events /\ m.op = "done" /\ m.cookie = work[t].cookie BY EmitDoneTypes
  <2>3. work[t].cookie \in Cookies BY <2>1, JobTyped
  <2> HIDE DEF m
  <2> QED BY <2>1, <2>2, <2>3
<1> SUFFICES ASSUME Clean'
             PROVE  /\ \A x \in Cookies :
                        /\ Times(ring', "done", x) + One(HasDone(dios, x)) + One(Sending(x)')
                             = Times(ring', "complete", x) + One(HasSeen(dios, x)) + One(Flying(x))
                        /\ Flying(x) => x \in inflight'
                    /\ \A x \in DOMAIN dios :
                         dios[x].done \/ Sending(x)' \/ Which(ring', "done", x) # {}
                    /\ \A i \in 1..Len(ring') : ring'[i].op = "submit" =>
                         \/ \E x \in Cookies : x = ring'[i].cookie /\ Sending(x)'
                         \/ \E j \in Which(ring', "done", ring'[i].cookie) : i < j
  <2>1. \A x \in Cookies : Flying(x)' <=> Flying(x) BY <1>1 DEF Flying
  <2> QED BY <1>1, <2>1, HalvesStep DEF One
<1>3. /\ Clean /\ Len(ring) < RingSize /\ Len(ring') = Len(ring) + 1 /\ ring'[Len(ring')] = e
      /\ \A i \in 1..Len(ring) : ring'[i] = ring[i]
      /\ \A op, x : Times(ring', op, x) = Times(ring, op, x) + One(e.op = op /\ e.cookie = x)
      /\ \A op, x : Which(ring, op, x) \subseteq Which(ring', op, x)
  BY <1>1, EmitClean
<1>4. inflight' = inflight BY <1>3 DEF EmitDone
<1>5. /\ \A u \in Threads : u # t => pc'[u] = pc[u] /\ work'[u] = work[u]
      /\ pc'[t] = "idle"
  BY <1>1 DEF Leave, Types, HookTypes
<1>6. Sending(c) BY <1>1 DEF Sending
<1>7. ~Sending(c)'
  <2> SUFFICES ASSUME NEW u \in Threads, pc'[u] # "idle", work'[u].cookie = c PROVE FALSE
    BY DEF Sending
  <2>1. u # t /\ pc[u] # "idle" /\ work[u].cookie = work[t].cookie BY <1>1, <1>5
  <2> QED BY <1>1, <2>1 DEF Owners, OneWork
<1>8. \A x \in Cookies : x # c => (Sending(x)' <=> Sending(x)) BY <1>1, <1>5 DEF Sending
<1>9. ASSUME NEW x \in Cookies
      PROVE  Times(ring', "done", x) + One(HasDone(dios, x)) + One(Sending(x)')
               = Times(ring', "complete", x) + One(HasSeen(dios, x)) + One(Flying(x))
  <2>1. Times(ring', "complete", x) = Times(ring, "complete", x)
        /\ Times(ring', "done", x) = Times(ring, "done", x) + One(c = x)
    BY <1>1, <1>3, HalvesNow DEF One
  <2>2. One(c = x) + One(Sending(x)') = One(Sending(x)) BY <1>6, <1>7, <1>8 DEF One
  <2>3. /\ One(HasDone(dios, x)) \in Nat /\ One(HasSeen(dios, x)) \in Nat
        /\ One(Sending(x)) \in Nat /\ One(Flying(x)) \in Nat
        /\ One(c = x) \in Nat /\ One(Sending(x)') \in Nat
    BY DEF One
  <2> QED BY <1>3, <2>1, <2>2, <2>3, HalvesNow
<1>10. Len(ring) \in Nat /\ Len(ring') \in Which(ring', "done", c)
  BY <1>1, <1>3 DEF Which, Types, RingTypes
<1>11. \A x \in DOMAIN dios : dios[x].done \/ Sending(x)' \/ Which(ring', "done", x) # {}
  BY <1>3, <1>8, <1>10, HalvesNow
<1>12. ASSUME NEW i \in 1..Len(ring'), ring'[i].op = "submit"
       PROVE  \/ \E x \in Cookies : x = ring'[i].cookie /\ Sending(x)'
              \/ \E j \in Which(ring', "done", ring'[i].cookie) : i < j
  <2>1. i \in 1..Len(ring) /\ i < Len(ring')
    <3>1. i # Len(ring') BY <1>1, <1>3, <1>12
    <3> QED BY <1>3, <1>10, <3>1
  <2>2. ring[i].op = "submit" /\ ring'[i] = ring[i] BY <1>3, <1>12, <2>1
  <2>3. CASE ring[i].cookie = c BY <1>10, <2>1, <2>2, <2>3
  <2>4. CASE ring[i].cookie # c BY <1>3, <1>8, <2>1, <2>2, <2>4, HalvesNow
  <2> QED BY <2>3, <2>4
<1>13. \A x \in Cookies : Flying(x) => x \in inflight' BY <1>3, <1>4, HalvesNow
<1> QED BY <1>9, <1>11, <1>12, <1>13

LEMMA EmitAbortHalves ==
  ASSUME Types, Halves, NEW t \in Threads, EmitAbort(t)
  PROVE  Halves'
<1> DEFINE e == Event("abort", work[t].cookie)
<1>1. pc[t] = "aborting" /\ Emit(e) /\ UNCHANGED batch_error
  BY DEF EmitAbort, Hook, user
<1>2. e \in Events /\ e.op = "abort" BY <1>1, JobTyped, EventTyped
<1> HIDE DEF e
<1>3. ~Clean' BY <1>1, <1>2, EmitClean
<1> QED BY <1>3, HalvesStep

(* The first event is taken out of the ring.                               *)
LEMMA TakeClean ==
  ASSUME Types, ring # <<>>, ring' = Tail(ring), ~lost, ~batch_error, Head(ring).op # "abort",
         Clean'
  PROVE  Clean
<1>1. \A i \in 1..Len(ring) : i # 1 => i - 1 \in 1..Len(ring') /\ ring'[i - 1] = ring[i]
  BY DEF Types, RingTypes
<1>2. ring[1] = Head(ring) BY DEF Types, RingTypes
<1> QED BY <1>1, <1>2 DEF Clean

LEMMA TakeCounts ==
  ASSUME Types, ring # <<>>, ring' = Tail(ring)
  PROVE  /\ \A op, c : /\ Times(ring', op, c) \in Nat
                       /\ Times(ring, op, c) = Times(ring', op, c)
                            + One(Head(ring).op = op /\ Head(ring).cookie = c)
         /\ \A op, c : \A j \in Which(ring, op, c) : j # 1 => j - 1 \in Which(ring', op, c)
         /\ \A op, c : 1 \in Which(ring, op, c) => Head(ring).op = op /\ Head(ring).cookie = c
         /\ \A i \in 1..Len(ring') : i + 1 \in 1..Len(ring) /\ ring'[i] = ring[i + 1]
<1>1. ring \in Seq(Events) /\ ring' \in Seq(Events) BY DEF Types, RingTypes
<1>2. \A op, c : Times(ring', op, c) \in Nat BY <1>1, WhichFinite
<1>3. \A op, c : Times(ring, op, c) = Times(ring', op, c)
                   + One(Head(ring).op = op /\ Head(ring).cookie = c)
  BY <1>1, TimesTail
<1>4. /\ Len(ring) \in Nat /\ Len(ring') = Len(ring) - 1
      /\ \A i \in 1..Len(ring') : i + 1 \in 1..Len(ring) /\ ring'[i] = ring[i + 1]
      /\ ring[1] = Head(ring)
  BY <1>1
<1>5. \A op, c : \A j \in Which(ring, op, c) : j # 1 => j - 1 \in Which(ring', op, c)
  <2> SUFFICES ASSUME NEW op, NEW c, NEW j \in Which(ring, op, c), j # 1
               PROVE  j - 1 \in Which(ring', op, c)
    OBVIOUS
  <2>1. j - 1 \in 1..Len(ring') /\ (j - 1) + 1 = j BY <1>4 DEF Which
  <2> QED BY <1>4, <2>1 DEF Which
<1>6. \A op, c : 1 \in Which(ring, op, c) => Head(ring).op = op /\ Head(ring).cookie = c
  BY <1>4 DEF Which
<1> QED BY <1>2, <1>3, <1>4, <1>5, <1>6

(* The handled event put a half into entry n of the table, which was then  *)
(* flushed: only pairs have left it.                                       *)
LEMMA KeptPairs ==
  ASSUME Types, NEW c \in Cookies, NEW n \in Entry, Kept(Put(c, n))
  PROVE  /\ \A x \in Cookies : x # c =>
              One(HasDone(dios', x)) + One(HasSeen(dios, x))
                = One(HasSeen(dios', x)) + One(HasDone(dios, x))
         /\ One(HasDone(dios', c)) + One(n.seen) = One(HasSeen(dios', c)) + One(n.done)
         /\ \A x \in DOMAIN dios' :
              \/ x = c /\ dios'[x].done = n.done
              \/ x # c /\ x \in DOMAIN dios /\ dios'[x].done = dios[x].done
<1> DEFINE d == Put(c, n)
<1>1. /\ DOMAIN d = DOMAIN dios \cup {c} /\ d[c] = n
      /\ \A x \in DOMAIN dios : x # c => d[x] = dios[x]
  BY DEF Put, Set
<1>2. /\ DOMAIN dios' \subseteq DOMAIN d /\ \A x \in DOMAIN dios' : dios'[x] = d[x]
      /\ \A x \in DOMAIN d : x \notin DOMAIN dios' => d[x].seen /\ d[x].done
  BY DEF Kept
<1> HIDE DEF d
<1>3. ASSUME NEW x \in Cookies, x # c
      PROVE  One(HasDone(dios', x)) + One(HasSeen(dios, x))
               = One(HasSeen(dios', x)) + One(HasDone(dios, x))
  <2>1. CASE x \in DOMAIN dios'
    <3>1. x \in DOMAIN dios /\ dios'[x] = dios[x] BY <1>1, <1>2, <1>3, <2>1
    <3>2. /\ HasDone(dios', x) <=> HasDone(dios, x)
          /\ HasSeen(dios', x) <=> HasSeen(dios, x)
      BY <2>1, <3>1 DEF HasDone, HasSeen
    <3> QED BY <3>2 DEF One
  <2>2. CASE x \in DOMAIN dios /\ x \notin DOMAIN dios'
    <3>1. dios[x].seen /\ dios[x].done BY <1>1, <1>2, <1>3, <2>2
    <3>2. /\ HasDone(dios, x) /\ HasSeen(dios, x) /\ ~HasDone(dios', x) /\ ~HasSeen(dios', x)
      BY <2>2, <3>1 DEF HasDone, HasSeen
    <3> QED BY <3>2 DEF One
  <2>3. CASE x \notin DOMAIN dios /\ x \notin DOMAIN dios'
    BY <2>3 DEF HasDone, HasSeen, One
  <2> QED BY <2>1, <2>2, <2>3
<1>4. One(HasDone(dios', c)) + One(n.seen) = One(HasSeen(dios', c)) + One(n.done)
  <2>1. CASE c \in DOMAIN dios'
    <3>1. (HasDone(dios', c) <=> n.done) /\ (HasSeen(dios', c) <=> n.seen)
      BY <1>1, <1>2, <2>1 DEF HasDone, HasSeen
    <3> QED BY <3>1 DEF One
  <2>2. CASE c \notin DOMAIN dios'
    <3>1. n.seen /\ n.done BY <1>1, <1>2, <2>2
    <3> QED BY <2>2, <3>1 DEF HasDone, HasSeen, One
  <2> QED BY <2>1, <2>2
<1>5. \A x \in DOMAIN dios' :
        \/ x = c /\ dios'[x].done = n.done
        \/ x # c /\ x \in DOMAIN dios /\ dios'[x].done = dios[x].done
  BY <1>1, <1>2
<1> QED BY <1>3, <1>4, <1>5

LEMMA HandlerHalves ==
  ASSUME Types, Queue, Halves, handle_event
  PROVE  Halves'
<1> DEFINE e == Head(ring)
<1>1. ring # <<>> /\ ring' = Tail(ring) /\ UNCHANGED <<pc, work, io, inflight, lost>>
  BY DEF handle_event, app, hooks
<1>2. \A x \in Cookies : (Sending(x)' <=> Sending(x)) /\ (Flying(x)' <=> Flying(x))
  BY <1>1 DEF Sending, Flying
<1>3. e \in Events /\ (e.op # "write" => e.cookie \in Cookies) BY <1>1, HeadTyped
<1>4. PICK h \in Events : h = e BY <1>3
<1>5. /\ \A op, c : /\ Times(ring', op, c) \in Nat
                    /\ Times(ring, op, c) = Times(ring', op, c) + One(h.op = op /\ h.cookie = c)
      /\ \A op, c : \A j \in Which(ring, op, c) : j # 1 => j - 1 \in Which(ring', op, c)
      /\ \A op, c : 1 \in Which(ring, op, c) => h.op = op /\ h.cookie = c
      /\ \A i \in 1..Len(ring') : i + 1 \in 1..Len(ring) /\ ring'[i] = ring[i + 1]
  BY <1>1, <1>4, TakeCounts
(* Submit events left in the ring have what they had.                      *)
<1>6. ASSUME Clean, NEW i \in 1..Len(ring'), ring'[i].op = "submit"
      PROVE  \/ \E c \in Cookies : c = ring'[i].cookie /\ Sending(c)'
             \/ \E j \in Which(ring', "done", ring'[i].cookie) : i < j
  <2>1. i + 1 \in 1..Len(ring) /\ ring[i + 1].op = "submit" /\ ring[i + 1].cookie = ring'[i].cookie
    BY <1>5, <1>6
  <2>2. CASE Sending(ring[i + 1].cookie) BY <1>2, <1>6, <2>1, <2>2, HalvesNow
  <2>3. CASE \E j \in Which(ring, "done", ring[i + 1].cookie) : i + 1 < j
    <3>1. PICK j \in Which(ring, "done", ring'[i].cookie) : i + 1 < j BY <2>1, <2>3
    <3>2. j \in Nat /\ i \in Nat /\ j # 1 BY <3>1 DEF Which
    <3>3. j - 1 \in Which(ring', "done", ring'[i].cookie) BY <1>5, <3>1, <3>2
    <3>4. i < j - 1 BY <3>1, <3>2
    <3> QED BY <3>3, <3>4
  <2> QED BY <1>6, <2>1, <2>2, <2>3, HalvesNow
<1>7. ASSUME Clean, NEW x \in Cookies, x \in DOMAIN dios, h.op = "done" => h.cookie # x
      PROVE  dios[x].done \/ Sending(x)' \/ Which(ring', "done", x) # {}
  <2>1. CASE Which(ring, "done", x) # {}
    <3>1. PICK j \in Which(ring, "done", x) : TRUE BY <2>1
    <3>2. j # 1 BY <1>5, <1>7, <3>1
    <3> QED BY <1>5, <3>1, <3>2
  <2> QED BY <1>2, <1>7, <2>1, HalvesNow
<1>8. ASSUME NEW x \in Cookies
      PROVE  /\ One(HasDone(dios, x)) \in Nat /\ One(HasSeen(dios, x)) \in Nat
             /\ One(HasDone(dios', x)) \in Nat /\ One(HasSeen(dios', x)) \in Nat
             /\ One(Sending(x)') = One(Sending(x)) /\ One(Flying(x)') = One(Flying(x))
             /\ One(Sending(x)) \in Nat /\ One(Flying(x)) \in Nat
  BY <1>2 DEF One
<1>9. CASE batch_error'
  <2>1. ~Clean' BY <1>9 DEF Clean
  <2> QED BY <2>1, HalvesStep
<1>10. CASE ~batch_error'
  <2> SUFFICES ASSUME Clean
               PROVE  /\ \A x \in Cookies :
                          Times(ring', "done", x) + One(HasDone(dios', x)) + One(Sending(x))
                            = Times(ring', "complete", x) + One(HasSeen(dios', x)) + One(Flying(x))
                      /\ \A x \in DOMAIN dios' : x \in Cookies /\
                           (dios'[x].done \/ Sending(x)' \/ Which(ring', "done", x) # {})
    <3>1. Clean' => Clean
      <4>1. CASE e.op = "abort"
        <5>1. batch_error' BY <1>1, <4>1, AbortEvent DEF handle_event
        <5> QED BY <1>10, <5>1
      <4>2. CASE e.op # "abort"
        <5>1. ~batch_error
          BY <1>1, <1>10, <4>2, DoneEvent, CompleteEventHandled
             DEF handle_event, dio_stage_segment, Refuse, HandleWrite
        <5> QED BY <1>1, <4>2, <5>1, TakeClean DEF Clean
      <4> QED BY <4>1, <4>2
    <3>2. \A x \in Cookies : Clean => (Flying(x)' => x \in inflight') BY <1>1, <1>2, HalvesNow
    <3> QED BY <1>6, <1>8, <3>1, <3>2, HalvesStep
  <2>1. CASE h.op = "submit" /\ dio_stage_segment(e)
    <3> DEFINE c == h.cookie
    <3>1. c \in Cookies BY <1>3, <1>4, <2>1
    <3>2. /\ ~HasDone(dios, c)
          /\ \E s : dios' = Put(c, [dio_get_or_create(c) EXCEPT !.segs = Append(@, s)])
      BY <1>4, <1>10, <2>1 DEF dio_stage_segment, Refuse, HasDone, dio_get_or_create
    <3>3. /\ dio_get_or_create(c) \in Entry
          /\ c \in DOMAIN dios => dio_get_or_create(c) = dios[c]
          /\ c \notin DOMAIN dios => ~dio_get_or_create(c).seen /\ ~dio_get_or_create(c).done
      BY <3>1, GotEntry
    <3>4. PICK n : /\ dios' = Put(c, n) /\ n.done = dio_get_or_create(c).done
                   /\ n.seen = dio_get_or_create(c).seen
      BY <3>2, <3>3 DEF Entry
    <3>5. /\ DOMAIN dios' = DOMAIN dios \cup {c} /\ dios'[c] = n
          /\ \A x \in DOMAIN dios : x # c => dios'[x] = dios[x]
      BY <3>4 DEF Put, Set
    <3>6. ASSUME NEW x \in Cookies
          PROVE  /\ HasDone(dios', x) <=> HasDone(dios, x)
                 /\ HasSeen(dios', x) <=> HasSeen(dios, x)
      <4>1. CASE x = c BY <3>3, <3>4, <3>5, <4>1 DEF HasDone, HasSeen
      <4>2. CASE x # c BY <3>5, <4>2 DEF HasDone, HasSeen
      <4> QED BY <4>1, <4>2
    <3>7. ASSUME NEW x \in Cookies
          PROVE  /\ One(HasDone(dios', x)) = One(HasDone(dios, x))
                 /\ One(HasSeen(dios', x)) = One(HasSeen(dios, x))
                 /\ Times(ring', "done", x) = Times(ring, "done", x)
                 /\ Times(ring', "complete", x) = Times(ring, "complete", x)
      BY <1>5, <2>1, <3>6 DEF One
    <3>8. ASSUME NEW x \in DOMAIN dios'
          PROVE  x \in Cookies /\ (dios'[x].done \/ Sending(x)' \/ Which(ring', "done", x) # {})
      <4>1. CASE x # c
        <5>1. x \in DOMAIN dios /\ dios'[x] = dios[x] /\ x \in Cookies
          BY <3>5, <3>8, <4>1 DEF Types, TableTypes
        <5> QED BY <1>7, <2>1, <5>1
      <4>2. CASE x = c
        <5>1. 1 \in 1..Len(ring) /\ ring[1] = h BY <1>1, <1>4 DEF Types, RingTypes
        <5>2. Sending(c) \/ \E j \in Which(ring, "done", c) : 1 < j
          BY <2>1, <5>1, HalvesNow
        <5>3. CASE Sending(c) BY <1>2, <3>1, <4>2, <5>3
        <5>4. CASE \E j \in Which(ring, "done", c) : 1 < j
          <6>1. PICK j \in Which(ring, "done", c) : j # 1 BY <5>4
          <6>2. j - 1 \in Which(ring', "done", c) BY <1>5, <6>1
          <6> QED BY <3>1, <4>2, <6>2
        <5> QED BY <5>2, <5>3, <5>4
      <4> QED BY <4>1, <4>2
    <3> QED BY <3>7, <3>8, HalvesNow
  <2>2. CASE h.op = "done" /\ dio_submit_done(e)
    <3> DEFINE d == dio_get_or_create(h.cookie)
    <3>1. PICK c \in Cookies : c = h.cookie BY <1>3, <1>4, <2>2
    <3>2. /\ d \in Entry /\ (c \in DOMAIN dios => d = dios[c])
          /\ c \notin DOMAIN dios => ~d.seen /\ ~d.done
      BY <3>1, GotEntry
    <3>3. PICK n \in Entry : ~HasDone(dios, c) /\ n.done /\ n.seen = d.seen /\ Kept(Put(c, n))
      <4> DEFINE n == [d EXCEPT !.done = TRUE, !.size = e.size]
      <4>1. n \in Entry
        <5> HIDE DEF d, e
        <5> QED BY <1>3, <3>2 DEF Entry, Events
      <4>2. ~HasDone(dios, c) /\ n.done /\ n.seen = d.seen /\ Kept(Put(c, n))
        BY <1>1, <1>4, <1>10, <2>2, <3>1, DoneEvent
      <4> HIDE DEF n
      <4> QED BY <4>1, <4>2
    <3>4. One(n.done) = 1 /\ One(HasDone(dios, c)) = 0 /\ One(n.seen) = One(HasSeen(dios, c))
      BY <3>2, <3>3 DEF One, HasSeen
    <3> HIDE DEF d
    <3>5. /\ \A x \in Cookies : x # c =>
               One(HasDone(dios', x)) + One(HasSeen(dios, x))
                 = One(HasSeen(dios', x)) + One(HasDone(dios, x))
          /\ One(HasDone(dios', c)) + One(n.seen) = One(HasSeen(dios', c)) + One(n.done)
          /\ \A x \in DOMAIN dios' :
               \/ x = c /\ dios'[x].done = n.done
               \/ x # c /\ x \in DOMAIN dios /\ dios'[x].done = dios[x].done
      BY <3>3, KeptPairs
    <3>6. ASSUME NEW x \in Cookies
          PROVE  Times(ring', "done", x) + One(HasDone(dios', x)) + One(Sending(x))
                   = Times(ring', "complete", x) + One(HasSeen(dios', x)) + One(Flying(x))
      <4>1. /\ Times(ring', "done", x) \in Nat /\ Times(ring', "complete", x) \in Nat
            /\ Times(ring, "complete", x) = Times(ring', "complete", x)
            /\ Times(ring, "done", x) = Times(ring', "done", x) + One(x = c)
        BY <1>5, <2>2, <3>1 DEF One
      <4>2. One(x = c) = IF x = c THEN 1 ELSE 0 BY DEF One
      <4>3. /\ One(HasDone(dios, x)) \in Nat /\ One(HasSeen(dios, x)) \in Nat
            /\ One(HasDone(dios', x)) \in Nat /\ One(HasSeen(dios', x)) \in Nat
            /\ One(Sending(x)) \in Nat /\ One(Flying(x)) \in Nat
        BY DEF One
      <4>4. Times(ring, "done", x) + One(HasDone(dios, x)) + One(Sending(x))
              = Times(ring, "complete", x) + One(HasSeen(dios, x)) + One(Flying(x))
        BY HalvesNow
      <4>5. CASE x = c BY <3>4, <3>5, <4>1, <4>2, <4>3, <4>4, <4>5
      <4>6. CASE x # c BY <3>5, <4>1, <4>2, <4>3, <4>4, <4>6
      <4> QED BY <4>5, <4>6
    <3>7. ASSUME NEW x \in DOMAIN dios'
          PROVE  x \in Cookies /\ (dios'[x].done \/ Sending(x)' \/ Which(ring', "done", x) # {})
      <4>1. CASE x = c /\ dios'[x].done = n.done BY <3>3, <4>1
      <4>2. CASE x # c /\ x \in DOMAIN dios /\ dios'[x].done = dios[x].done
        <5>1. x \in Cookies BY <4>2 DEF Types, TableTypes
        <5> QED BY <1>7, <3>1, <4>2, <5>1
      <4> QED BY <3>5, <3>7, <4>1, <4>2
    <3> QED BY <3>6, <3>7
  <2>3. CASE h.op = "complete" /\ dio_note_completion(e)
    <3> DEFINE d == dio_get_or_create(h.cookie)
    <3>1. PICK c \in Cookies : c = h.cookie BY <1>3, <1>4, <2>3
    <3>2. /\ d \in Entry /\ (c \in DOMAIN dios => d = dios[c])
          /\ c \notin DOMAIN dios => ~d.seen /\ ~d.done
      BY <3>1, GotEntry
    <3>3. PICK n \in Entry : ~HasSeen(dios, c) /\ n.seen /\ n.done = d.done /\ Kept(Put(c, n))
      <4> DEFINE n == [d EXCEPT !.seen = TRUE, !.res = e.ret, !.file = e.file,
                                !.order = next_completion_order]
      <4>1. n \in Entry
        <5>1. next_completion_order \in Nat BY DEF Types, TableTypes
        <5> HIDE DEF d, e
        <5> QED BY <1>3, <3>2, <5>1 DEF Entry, Events
      <4>2. ~HasSeen(dios, c) /\ n.seen /\ n.done = d.done /\ Kept(Put(c, n))
        BY <1>1, <1>4, <1>10, <2>3, <3>1, CompleteEventHandled
      <4> HIDE DEF n
      <4> QED BY <4>1, <4>2
    <3>4. One(n.seen) = 1 /\ One(HasSeen(dios, c)) = 0 /\ One(n.done) = One(HasDone(dios, c))
      BY <3>2, <3>3 DEF One, HasDone
    <3>5. n.done => HasDone(dios, c) BY <3>2, <3>3 DEF HasDone
    <3> HIDE DEF d
    <3>6. /\ \A x \in Cookies : x # c =>
               One(HasDone(dios', x)) + One(HasSeen(dios, x))
                 = One(HasSeen(dios', x)) + One(HasDone(dios, x))
          /\ One(HasDone(dios', c)) + One(n.seen) = One(HasSeen(dios', c)) + One(n.done)
          /\ \A x \in DOMAIN dios' :
               \/ x = c /\ dios'[x].done = n.done
               \/ x # c /\ x \in DOMAIN dios /\ dios'[x].done = dios[x].done
      BY <3>3, KeptPairs
    <3>7. \A x \in Cookies :
            /\ Times(ring', "done", x) \in Nat /\ Times(ring', "complete", x) \in Nat
            /\ Times(ring, "done", x) = Times(ring', "done", x)
            /\ Times(ring, "complete", x) = Times(ring', "complete", x) + One(x = c)
      BY <1>5, <2>3, <3>1 DEF One
    <3>8. ASSUME NEW x \in Cookies
          PROVE  Times(ring', "done", x) + One(HasDone(dios', x)) + One(Sending(x))
                   = Times(ring', "complete", x) + One(HasSeen(dios', x)) + One(Flying(x))
      <4>1. One(x = c) = IF x = c THEN 1 ELSE 0 BY DEF One
      <4>2. /\ One(HasDone(dios, x)) \in Nat /\ One(HasSeen(dios, x)) \in Nat
            /\ One(HasDone(dios', x)) \in Nat /\ One(HasSeen(dios', x)) \in Nat
            /\ One(Sending(x)) \in Nat /\ One(Flying(x)) \in Nat
        BY DEF One
      <4>3. Times(ring, "done", x) + One(HasDone(dios, x)) + One(Sending(x))
              = Times(ring, "complete", x) + One(HasSeen(dios, x)) + One(Flying(x))
        BY HalvesNow
      <4>4. CASE x = c BY <3>4, <3>6, <3>7, <4>1, <4>2, <4>3, <4>4
      <4>5. CASE x # c BY <3>6, <3>7, <4>1, <4>2, <4>3, <4>5
      <4> QED BY <4>4, <4>5
    (* A completion without its payload: by the balance, that is on its way. *)
    <3>9. ASSUME ~n.done
          PROVE  Sending(c) \/ Which(ring, "done", c) # {}
      <4>1. Times(ring, "done", c) + One(HasDone(dios, c)) + One(Sending(c))
              = Times(ring, "complete", c) + One(HasSeen(dios, c)) + One(Flying(c))
        BY HalvesNow
      <4>2. Times(ring, "complete", c) >= 1
        <5>1. One(c = c) = 1 BY DEF One
        <5> QED BY <3>7, <5>1
      <4>3. One(HasDone(dios, c)) = 0 BY <3>4, <3>9 DEF One
      <4>4. Times(ring, "done", c) + One(Sending(c)) >= 1
        <5>1. /\ Times(ring, "done", c) \in Nat /\ Times(ring, "complete", c) \in Nat
              /\ One(Sending(c)) \in Nat /\ One(Flying(c)) \in Nat
          BY HalvesNow DEF One
        <5> QED BY <3>4, <4>1, <4>2, <4>3, <5>1
      <4>5. CASE Sending(c) BY <4>5
      <4>6. CASE ~Sending(c)
        <5>1. Times(ring, "done", c) # 0 BY <3>7, <4>4, <4>6 DEF One
        <5> QED BY <5>1, FS_EmptySet DEF Times
      <4> QED BY <4>5, <4>6
    <3>10. ASSUME NEW x \in DOMAIN dios'
           PROVE  x \in Cookies /\ (dios'[x].done \/ Sending(x)' \/ Which(ring', "done", x) # {})
      <4>1. CASE x = c /\ dios'[x].done = n.done
        <5>1. CASE n.done BY <4>1, <5>1
        <5>2. CASE ~n.done /\ Sending(c) BY <1>2, <4>1, <5>2
        <5>3. CASE ~n.done /\ Which(ring, "done", c) # {}
          <6>1. PICK j \in Which(ring, "done", c) : TRUE BY <5>3
          <6>2. j # 1 BY <1>5, <2>3, <6>1
          <6>3. j - 1 \in Which(ring', "done", c) BY <1>5, <6>1, <6>2
          <6> QED BY <4>1, <6>3
        <5> QED BY <3>9, <5>1, <5>2, <5>3
      <4>2. CASE x # c /\ x \in DOMAIN dios /\ dios'[x].done = dios[x].done
        <5>1. x \in Cookies BY <4>2 DEF Types, TableTypes
        <5> QED BY <1>7, <2>3, <4>2, <5>1
      <4> QED BY <3>6, <3>10, <4>1, <4>2
    <3> QED BY <3>8, <3>10
  <2>4. CASE h.op = "abort" /\ dio_abort(e)
    <3>1. batch_error' BY <1>1, <1>4, <2>4, AbortEvent
    <3> QED BY <1>10, <3>1
  <2>5. CASE h.op = "write" /\ HandleWrite(e)
    <3>1. dios' = dios BY <2>5 DEF HandleWrite
    <3>2. \A x \in Cookies : /\ Times(ring', "done", x) = Times(ring, "done", x)
                             /\ Times(ring', "complete", x) = Times(ring, "complete", x)
      BY <1>5, <2>5 DEF One
    <3>3. \A x \in DOMAIN dios : x \in Cookies BY DEF Types, TableTypes
    <3> QED BY <1>7, <2>5, <3>1, <3>2, <3>3, HalvesNow
  <2> QED BY <1>4, <2>1, <2>2, <2>3, <2>4, <2>5 DEF handle_event
<1> QED BY <1>9, <1>10

-----------------------------------------------------------------------------
LEMMA HalvesKept ==
  ASSUME ~SharedReap, Types, Queue, Owners, Halves, [Next]_vars
  PROVE  Halves'
<1>1. ASSUME UNCHANGED <<pc, work, io, inflight, ring, dios, lost, batch_error>> PROVE Halves'
  <2>1. \A x \in Cookies : (Sending(x)' <=> Sending(x)) /\ (Flying(x)' <=> Flying(x))
    BY <1>1 DEF Sending, Flying
  <2>2. Clean' => Clean BY <1>1 DEF Clean
  <2> QED BY <1>1, <2>1, <2>2, NoEvent, HalvesNow
<1>2. ASSUME NEW t \in Threads, InSubmit(t) PROVE Halves'
  BY <1>2, ExitHalves, EmitOneHalves, EmitDoneHalves, EmitAbortHalves DEF InSubmit
<1>3. CASE capture_and_send BY <1>1, <1>3 DEF capture_and_send, app, hooks
<1>4. CASE UNCHANGED vars BY <1>1, <1>4 DEF vars, app, hooks, user
<1> QED BY <1>2, <1>3, <1>4, SubmitHalves, SyncHalves, CompleteHalves, HandlerHalves
        DEF Next, Capturer

LEMMA InitHalves ==
  ASSUME Init
  PROVE  Owners /\ Halves
<1>1. Owners BY DEF Init, Owners, OneWork, SameRequest
<1>2. /\ ring = <<>> /\ DOMAIN dios = {} /\ \A t \in Threads : pc[t] = "idle"
      /\ \A c \in Cookies : io[c] = NoOp
  BY DEF Init
<1>3. \A op, c : Which(ring, op, c) = {} BY <1>2 DEF Which
<1>4. \A op, c : Times(ring, op, c) = 0 BY <1>3, FS_EmptySet DEF Times
<1>5. \A c \in Cookies : ~Sending(c) /\ ~Flying(c) /\ ~HasDone(dios, c) /\ ~HasSeen(dios, c)
  BY <1>2 DEF Sending, Flying, HasDone, HasSeen
<1>6. Balanced BY <1>4, <1>5 DEF Balanced, One
<1>7. Registered BY <1>5 DEF Registered
<1>8. Claimed
  <2>1. Len(ring) = 0 BY <1>2
  <2> QED BY <1>2, <2>1 DEF Claimed
<1> QED BY <1>1, <1>6, <1>7, <1>8 DEF Halves

(* With nothing under way, every entry of the table is complete, and the   *)
(* one whose turn it is would have been committed.                         *)
LEMMA TableEmpty ==
  ASSUME Types, Queue, Halves
  PROVE  NothingStranded
<1> SUFFICES ASSUME Healthy, Quiet, ring = <<>> PROVE dios = <<>> BY DEF NothingStranded
<1>1. Len(ring) = 0 OBVIOUS
<1>2. Clean BY <1>1 DEF Healthy, Clean
<1>3. \A c \in Cookies : ~Sending(c) /\ ~Flying(c) BY DEF Quiet, Sending, Flying
<1>4. \A op, c : Which(ring, op, c) = {} BY <1>1 DEF Which
<1>5. \A op, c : Times(ring, op, c) = 0 BY <1>4, FS_EmptySet DEF Times
<1>6. ASSUME NEW c \in DOMAIN dios PROVE dios[c].done /\ dios[c].seen
  <2>1. c \in Cookies /\ dios[c].done BY <1>2, <1>3, <1>4, HalvesNow
  <2>2. One(HasDone(dios, c)) = One(HasSeen(dios, c))
    BY <1>2, <1>3, <1>5, <2>1, HalvesNow DEF One
  <2>3. HasDone(dios, c) BY <2>1 DEF HasDone
  <2>4. HasSeen(dios, c) BY <2>2, <2>3 DEF One
  <2> QED BY <2>1, <2>4 DEF HasSeen
<1>7. DOMAIN dios = {}
  <2> SUFFICES ASSUME NEW c \in DOMAIN dios PROVE FALSE OBVIOUS
  <2> DEFINE lo == next_commit_order
             hi == next_completion_order
  <2>1. lo \in Nat /\ hi \in Nat BY DEF Types, TableTypes
  <2>2. dios[c].order \in lo..(hi - 1) BY <1>6 DEF Queue, Slots
  <2>3. lo \in lo..(hi - 1) BY <2>1, <2>2
  <2>4. PICK x \in DOMAIN dios : dios[x].seen /\ dios[x].order = lo BY <2>3 DEF Queue, Slots
  <2>5. x \in Ready(dios, lo) BY <1>6, <2>4 DEF Ready
  <2> QED BY <2>5 DEF Queue, Flushed
<1>8. dios \in Seq(Entry) /\ Len(dios) = 0
  <2>1. dios \in [1..0 -> Entry] BY <1>7 DEF Types, TableTypes
  <2> QED BY <2>1
<1> QED BY <1>8

(* No write waits in the table for a half that has come or will not come:  *)
(* whatever order done, abort and complete arrive in, the last of them     *)
(* makes the table flush (dio_submit_done, dio_note_completion, dio_abort).*)
(* It relies on a thread reaping only what it has submitted itself.        *)
THEOREM NoneLeftBehind ==
  ASSUME ~SharedReap
  PROVE  Spec => []NothingStranded
<1> DEFINE Inv == Types /\ Queue /\ Owners /\ Halves
<1>1. Init => Inv BY InitTypes, InitHalves
<1>2. Inv /\ [Next]_vars => Inv' BY StepTypes, OwnersKept, HalvesKept
<1>3. Inv => NothingStranded BY TableEmpty
<1> QED BY <1>1, <1>2, <1>3, PTL DEF Spec

-----------------------------------------------------------------------------
(* The log: every event written so far, each with the number of its write  *)
(* and a number of its own: a segment's place in the payload, or the place *)
(* of a completion or of a write(2) among what has changed the files.      *)

Logged == [ev : Events, id : Nat, num : Nat]
Alone == \A t, u \in Threads : t = u
InTurn == SyncWrites => Alone

Within(log, n, op, g) == \E i \in 1..n : log[i].ev.op = op /\ log[i].id = g
Has(log, op, g) == Within(log, Len(log), op, g)

(* The segments of a request.                                              *)
Parts(r) == IF r.kind = "pwrite" THEN 1 ELSE r.len
Part(r, k) ==
  IF r.kind = "pwrite"
  THEN [off |-> r.off, data |-> Repeat(r.id, r.len), truncated |-> FALSE]
  ELSE [off |-> r.off + k - 1, data |-> Repeat(r.id, 1), truncated |-> FALSE]
Cut(r, n) == IF r.kind = "pwrite" THEN (IF n = 0 THEN 0 ELSE r.len) ELSE n
SegmentOf(e) == [off |-> e.off, data |-> e.data, truncated |-> e.truncated]

(* Every write has a number; mate is its iocb, req its request.            *)
Numbers(mate, req) ==
  /\ mate \in [Nat -> Cookies \cup {NoOp}] /\ req \in [Nat -> Request \cup {NoOp}]
  /\ \A g \in 1..count : mate[g] \in Cookies =>
       req[g] \in Request /\ req[g].id = g /\ req[g].off + req[g].len <= Cells
       /\ iocb[mate[g]] \in Request /\ g <= iocb[mate[g]].id
  /\ \A c \in Cookies : iocb[c] # NoOp =>
       iocb[c].id \in 1..count /\ mate[iocb[c].id] = c /\ req[iocb[c].id] = iocb[c]

Entries(log, mate) ==
  /\ log \in Seq(Logged)
  /\ \A i \in 1..Len(log) :
       /\ log[i].ev.op # "abort" /\ log[i].id \in 1..count
       /\ mate[log[i].id] = log[i].ev.cookie
       /\ log[i].ev.op = "write" <=> log[i].ev.cookie = NoOp

(* The events of one iocb come write by write.                             *)
InOrder(log, mate) ==
  /\ \A i, j \in 1..Len(log) :
       i < j /\ log[i].ev.cookie = log[j].ev.cookie => log[i].id <= log[j].id
  /\ \A i \in 1..Len(log), g \in 1..count : \A j \in 1..Len(log) :
       log[i].ev.op = "complete" /\ mate[g] = log[i].ev.cookie /\ log[i].id < g
         /\ g <= log[j].id => i < j
  /\ Alone =>
       /\ \A i, j \in 1..Len(log) :
            i < j /\ log[j].ev.op # "complete" => log[i].id <= log[j].id
       /\ \A t \in Threads : pc[t] # "idle" => iocb[work[t].cookie].id = count

(* A write has one done and one complete, or they are owed.                *)
Once(log) ==
  /\ \A i, j \in 1..Len(log) :
       log[i].id = log[j].id /\ log[i].ev.op = log[j].ev.op
         /\ log[i].ev.op \in {"done", "complete"} => i = j
  /\ \A c \in Cookies : Sending(c) => ~Has(log, "done", iocb[c].id)
  /\ \A c \in Cookies : Flying(c) => ~Has(log, "complete", iocb[c].id)
Owed(log) ==
  /\ \A i \in 1..Len(log) : log[i].ev.op # "write" =>
       LET g == log[i].id   c == log[i].ev.cookie
       IN /\ Has(log, "done", g) \/ (Sending(c) /\ iocb[c].id = g)
          /\ Has(log, "complete", g) \/ (Flying(c) /\ iocb[c].id = g)
  /\ \A c \in Cookies :
       /\ Sending(c) => Flying(c) \/ Has(log, "complete", iocb[c].id)
       /\ Flying(c) => Sending(c) \/ Has(log, "done", iocb[c].id)

(* The payload of a write, in order and before its done.                   *)
Placed(log, req, i) ==
  LET g == log[i].id
  IN /\ log[i].num >= 1
     /\ \A k \in 1..log[i].num : \E j \in 1..i :
          log[j].ev.op = "submit" /\ log[j].id = g /\ log[j].num = k
     /\ ~log[i].ev.truncated =>
          log[i].num <= Parts(req[g]) /\ SegmentOf(log[i].ev) = Part(req[g], log[i].num)
     /\ log[i].ev.truncated => ~Has(log, "done", g)
     /\ \A j \in 1..Len(log) : log[j].id = g =>
          /\ log[j].ev.op = "submit" /\ i < j => log[i].num < log[j].num
          /\ log[j].ev.op = "done" => i < j
Whole(log, req, i) ==
  /\ log[i].ev.size = req[log[i].id].len
  /\ \A k \in 1..Parts(req[log[i].id]) : \E j \in 1..Len(log) :
       log[j].ev.op = "submit" /\ log[j].id = log[i].id /\ log[j].num = k
Payload(log, req) ==
  /\ \A i \in 1..Len(log) : log[i].ev.op = "submit" => Placed(log, req, i)
  /\ \A i \in 1..Len(log) : log[i].ev.op = "done" => Whole(log, req, i)

(* How far a hook has got with it: n segments.                             *)
Reached(log, w, n) ==
  /\ w.sent = Cut(w.ib, n)
  /\ \A i \in 1..Len(log) : log[i].ev.op = "submit" /\ log[i].id = w.ib.id =>
       ~log[i].ev.truncated /\ log[i].num <= n
  /\ \A k \in 1..n : \E i \in 1..Len(log) :
       log[i].ev.op = "submit" /\ log[i].id = w.ib.id /\ log[i].num = k
Sent(log) ==
  \A t \in Threads : pc[t] \in {"issued", "staging"} =>
    \E n \in 0..Parts(work[t].ib) :
      (pc[t] = "issued" => n = 0) /\ Reached(log, work[t], n)

(* What the files have been: each completion and each write(2) has changed *)
(* them once.                                                              *)
IsEffect(e) == e.ev.op \in {"complete", "write"}
Change(e, req) ==
  IF e.ev.op = "write" THEN [file |-> e.ev.file, off |-> e.ev.off, data |-> e.ev.data]
  ELSE [file |-> e.ev.file, off |-> req[e.id].off, data |-> Repeat(e.id, e.ev.ret)]
Changed(files, e, req) ==
  IF e.ev.file \in Captured THEN Write(files, Change(e, req)) ELSE files
Effects(log, req, content, top) ==
  /\ top \in Nat
  /\ \A i \in 1..Len(log) : IsEffect(log[i]) =>
       /\ log[i].num \in 0..(top - 1)
       /\ \A j \in 1..Len(log) : IsEffect(log[j]) /\ i < j => log[i].num < log[j].num
       /\ content[log[i].num + 1] = Changed(content[log[i].num], log[i], req)
       /\ log[i].ev.op = "complete" =>
            log[i].ev.ret \in 0..req[log[i].id].len /\ log[i].ev.file \in Captured \cup {NoOp}
       /\ log[i].ev.op = "write" => log[i].ev.file \in Captured
  /\ \A n \in 0..(top - 1) : \E i \in 1..Len(log) : IsEffect(log[i]) /\ log[i].num = n
  /\ content[top] = View(disk) /\ \A n \in 0..top : content[n] \in past

-----------------------------------------------------------------------------
(* What the capturer has handled of it: h events.                          *)

Waiting(log, h) ==
  /\ h \in Nat /\ Len(log) = h + Len(ring)
  /\ \A i \in 1..Len(ring) : ring[i] = log[h + i].ev

(* An entry of the table says of its write g what the first h events do.   *)
Knows(e, g, log, h, s) ==
  /\ ~e.aborted
  /\ e.done <=> Within(log, h, "done", g)
  /\ e.seen <=> Within(log, h, "complete", g)
  /\ \A k \in 1..Len(e.segs) : \E i \in 1..h :
       log[i].ev.op = "submit" /\ log[i].id = g /\ log[i].num = k
  /\ \A i \in 1..h : log[i].id = g =>
       /\ log[i].ev.op = "submit" =>
            /\ log[i].num \in 1..Len(e.segs)
            /\ ~log[i].ev.truncated => e.segs[log[i].num] = SegmentOf(log[i].ev)
       /\ log[i].ev.op = "done" => e.size = log[i].ev.size
       /\ log[i].ev.op = "complete" =>
            (InTurn => e.order + s = log[i].num) /\ e.res = log[i].ev.ret /\ e.file = log[i].ev.file

Tells(e, g, log, h, s) == Knows(e, g, log, h, s) /\ \E i \in 1..h : log[i].id = g

(* own: the write an entry of the table belongs to; s: write(2)s handled.  *)
Told(d, own, log, mate, h, s) ==
  /\ own \in [Cookies -> Nat]
  /\ \A c \in DOMAIN d : mate[own[c]] = c /\ Tells(d[c], own[c], log, h, s)
  /\ \A i \in 1..h : log[i].ev.op # "write" =>
       \/ log[i].ev.cookie \in DOMAIN d /\ own[log[i].ev.cookie] = log[i].id
       \/ Within(log, h, "done", log[i].id) /\ Within(log, h, "complete", log[i].id)

Counted(log, h, s, top) ==
  /\ s \in Nat /\ next_completion_order + s <= top
  /\ \A i \in 1..Len(log) :
       IsEffect(log[i]) => (i <= h <=> log[i].num < next_completion_order + s)
Filed(content, s) ==
  InTurn => content[next_commit_order + s] = Written(backup, batch)

Emitted(log, mate, req, content, top) ==
  /\ Numbers(mate, req) /\ Entries(log, mate) /\ InOrder(log, mate)
  /\ Once(log) /\ Owed(log) /\ Payload(log, req) /\ Sent(log)
  /\ Effects(log, req, content, top) /\ \A c \in Cookies : Flying(c) => c \in inflight
Handled(log, mate, content, top, h, own, s) ==
  /\ Waiting(log, h) /\ Told(dios, own, log, mate, h, s)
  /\ Counted(log, h, s, top) /\ Filed(content, s)
Story ==
  \E log, mate, req, content, top, h, own, s :
    /\ Emitted(log, mate, req, content, top)
    /\ Handled(log, mate, content, top, h, own, s)

-----------------------------------------------------------------------------
(* A longer log.                                                           *)

Extends(x, log) ==
  /\ x \in Seq(Logged) /\ Len(log) <= Len(x)
  /\ \A i \in 1..Len(log) : x[i] = log[i]

OneMore(x, log, e) ==
  /\ Extends(x, log) /\ Len(log) \in Nat /\ Len(x) = Len(log) + 1
  /\ x[Len(log) + 1] = e
  /\ \A i \in 1..Len(x) : i \in 1..Len(log) \/ i = Len(log) + 1
  /\ \A i \in 1..Len(log) : i \in 1..Len(x) /\ x[i] = log[i]
  /\ Len(log) + 1 \in 1..Len(x)

LEMMA LogAppend ==
  ASSUME NEW log \in Seq(Logged), NEW e \in Logged
  PROVE  \E x : OneMore(x, log, e)
<1> DEFINE x == Append(log, e)
<1>1. /\ x \in Seq(Logged) /\ Len(log) \in Nat /\ Len(x) = Len(log) + 1
      /\ x[Len(log) + 1] = e /\ \A i \in 1..Len(log) : x[i] = log[i]
  OBVIOUS
<1> HIDE DEF x
<1>2. OneMore(x, log, e) BY <1>1 DEF OneMore, Extends
<1> QED BY <1>2

LEMMA HasAppend ==
  ASSUME NEW log, NEW e, NEW x, OneMore(x, log, e), NEW op, NEW g
  PROVE  Has(x, op, g) <=> Has(log, op, g) \/ (e.ev.op = op /\ e.id = g)
<1> DEFINE N == Len(log)
           M == Len(x)
<1>1. /\ x[N + 1] = e
      /\ \A i \in 1..M : i \in 1..N \/ i = N + 1
      /\ \A i \in 1..N : i \in 1..M /\ x[i] = log[i]
      /\ N + 1 \in 1..M
  BY DEF OneMore
<1> HIDE DEF N, M
<1>2. Has(x, op, g) <=> \E i \in 1..M : x[i].ev.op = op /\ x[i].id = g
  BY DEF Has, Within, M
<1>3. Has(log, op, g) <=> \E i \in 1..N : log[i].ev.op = op /\ log[i].id = g
  BY DEF Has, Within, N
<1> QED BY <1>1, <1>2, <1>3, Zenon

LEMMA TellsSame ==
  ASSUME NEW log, NEW x, NEW h, \A i \in 1..h : x[i] = log[i],
         NEW e, NEW g, NEW s, Tells(e, g, log, h, s)
  PROVE  Tells(e, g, x, h, s)
<1> USE DEF Knows
<1>1. \A op : Within(x, h, op, g) <=> Within(log, h, op, g) BY DEF Within
<1>2. /\ ~e.aborted /\ \E i \in 1..h : x[i].id = g
      /\ e.done <=> Within(x, h, "done", g)
      /\ e.seen <=> Within(x, h, "complete", g)
  BY <1>1 DEF Tells
<1>3. \A k \in 1..Len(e.segs) : \E i \in 1..h :
        x[i].ev.op = "submit" /\ x[i].id = g /\ x[i].num = k
  BY DEF Tells
<1>4. \A i \in 1..h : x[i].id = g =>
        /\ x[i].ev.op = "submit" =>
             /\ x[i].num \in 1..Len(e.segs)
             /\ ~x[i].ev.truncated => e.segs[x[i].num] = SegmentOf(x[i].ev)
        /\ x[i].ev.op = "done" => e.size = x[i].ev.size
        /\ x[i].ev.op = "complete" =>
             (InTurn => e.order + s = x[i].num) /\ e.res = x[i].ev.ret /\ e.file = x[i].ev.file
  BY DEF Tells
<1> QED BY <1>2, <1>3, <1>4 DEF Tells

(* The table knows as much of a longer log.                                *)
LEMMA HandledKept ==
  ASSUME NEW log \in Seq(Logged), NEW x, Extends(x, log),
         NEW mate, NEW mate2, \A g \in 1..count : mate2[g] = mate[g],
         \A i \in 1..Len(log) : log[i].id \in 1..count,
         NEW content, NEW content2, NEW top \in Nat, NEW top2 \in Nat, top <= top2,
         \A n \in 0..top : content2[n] = content[n],
         NEW h, NEW own, NEW s, Handled(log, mate, content, top, h, own, s),
         Types, UNCHANGED <<user, sink>>,
         Len(x) = h + Len(ring'), \A i \in 1..Len(ring') : ring'[i] = x[h + i].ev,
         \A i \in 1..Len(x) : i > Len(log) /\ IsEffect(x[i]) => x[i].num >= top
  PROVE  Handled(x, mate2, content2, top2, h, own, s)'
<1>1. UNCHANGED <<dios, next_completion_order, next_commit_order, batch, backup>>
  BY DEF user, sink
<1>2. /\ h \in Nat /\ Len(log) \in Nat /\ Len(ring) \in Nat /\ Len(log) = h + Len(ring)
      /\ Len(x) \in Nat /\ Len(log) <= Len(x)
      /\ \A i \in 1..Len(log) : x[i] = log[i]
  BY DEF Handled, Waiting, Extends, Types, RingTypes
<1>3. h <= Len(log) /\ \A i \in 1..h : i \in 1..Len(log) /\ x[i] = log[i] BY <1>2
<1>4. Waiting(x, h)' BY <1>2 DEF Waiting
<1>5. /\ s \in Nat /\ next_completion_order \in Nat /\ next_commit_order \in Nat
      /\ next_completion_order + s <= top /\ next_commit_order <= next_completion_order
  BY DEF Handled, Counted, Types, TableTypes
<1>6. Filed(content2, s)'
  <2>1. next_commit_order + s \in 0..top BY <1>5
  <2> QED BY <1>1, <2>1 DEF Handled, Filed
<1>7. Counted(x, h, s, top2)'
  <2>1. ASSUME NEW i \in 1..Len(x), IsEffect(x[i])
        PROVE  i <= h <=> x[i].num < next_completion_order + s
    <3>1. CASE i \in 1..Len(log)
      <4>1. IsEffect(log[i]) /\ x[i].num = log[i].num BY <1>2, <2>1, <3>1
      <4> QED BY <3>1, <4>1 DEF Handled, Counted
    <3>2. CASE i \notin 1..Len(log)
      <4>1. i > Len(log) BY <1>2, <3>2
      <4>2. x[i].num >= top BY <2>1, <4>1
      <4>3. x[i] \in Logged BY DEF Extends
      <4>4. x[i].num \in Nat BY <4>3 DEF Logged
      <4> QED BY <1>3, <1>2, <1>5, <4>1, <4>2, <4>4
    <3> QED BY <3>1, <3>2
  <2>2. s \in Nat /\ next_completion_order + s <= top2 BY <1>5
  <2> QED BY <1>1, <2>1, <2>2 DEF Counted
<1>8. Told(dios, own, x, mate2, h, s)
  <2>1. \A op, g : Within(x, h, op, g) <=> Within(log, h, op, g) BY <1>3 DEF Within
  <2>2. \A i \in 1..h : log[i].id \in 1..count BY <1>3
  <2>3. Told(dios, own, log, mate, h, s) BY DEF Handled
  <2>4. ASSUME NEW c \in DOMAIN dios
        PROVE  mate2[own[c]] = c
    <3>1. PICK i \in 1..h : log[i].id = own[c] BY <2>3 DEF Told, Tells
    <3>2. own[c] \in 1..count BY <2>2, <3>1
    <3> QED BY <2>3, <3>2 DEF Told
  <2>5. \A c \in DOMAIN dios : Tells(dios[c], own[c], x, h, s)
    <3>1. \A c \in DOMAIN dios : Tells(dios[c], own[c], log, h, s) BY <2>3 DEF Told
    <3> QED BY <1>3, <3>1, TellsSame
  <2>6. \A i \in 1..h : x[i].ev.op # "write" =>
          \/ x[i].ev.cookie \in DOMAIN dios /\ own[x[i].ev.cookie] = x[i].id
          \/ Within(x, h, "done", x[i].id) /\ Within(x, h, "complete", x[i].id)
    BY <1>3, <2>1, <2>3 DEF Told
  <2> QED BY <2>3, <2>4, <2>5, <2>6 DEF Told
<1> QED BY <1>1, <1>4, <1>6, <1>7, <1>8 DEF Handled, Told

-----------------------------------------------------------------------------
(* One more event of a write that is under way.                            *)

LEMMA NoOpApart == NoOp \notin Request /\ NoOp \notin Cookies /\ NoOp \notin Files
BY NoOpAssumption

LEMMA EntryCookie ==
  ASSUME NEW log, NEW mate, Entries(log, mate)
  PROVE  \A i \in 1..Len(log) :
           /\ log[i] \in Logged /\ log[i].ev \in Events /\ log[i].id \in 1..count
           /\ log[i].num \in Nat
           /\ log[i].ev.op # "write" => log[i].ev.cookie \in Cookies
           /\ mate[log[i].id] = log[i].ev.cookie
           /\ log[i].ev.op \in {"submit", "done", "complete", "write"}
<1> SUFFICES ASSUME NEW i \in 1..Len(log)
             PROVE  /\ log[i] \in Logged /\ log[i].ev \in Events /\ log[i].id \in 1..count
                    /\ log[i].num \in Nat
                    /\ log[i].ev.op # "write" => log[i].ev.cookie \in Cookies
                    /\ mate[log[i].id] = log[i].ev.cookie
                    /\ log[i].ev.op \in {"submit", "done", "complete", "write"}
  OBVIOUS
<1>1. log[i] \in Logged BY DEF Entries
<1>2. log[i].ev \in Events /\ log[i].num \in Nat BY <1>1 DEF Logged
<1>3. log[i].ev.cookie \in Cookies \cup {NoOp}
      /\ log[i].ev.op \in {"submit", "done", "complete", "abort", "write"}
  BY <1>2 DEF Events
<1> QED BY <1>1, <1>2, <1>3 DEF Entries

LEMMA Latest ==
  ASSUME NEW log, NEW mate, NEW req, Types, Numbers(mate, req), Entries(log, mate),
         NEW c \in Cookies, iocb[c] # NoOp
  PROVE  /\ iocb[c].id \in 1..count /\ count \in Nat /\ count <= MaxOps
         /\ mate[iocb[c].id] = c /\ req[iocb[c].id] = iocb[c] /\ iocb[c] \in Request
         /\ \A i \in 1..Len(log) : log[i].ev.cookie = c => log[i].id <= iocb[c].id
         /\ \A g \in 1..count : mate[g] = c => g <= iocb[c].id
<1>1. count \in Nat /\ count <= MaxOps /\ iocb[c] \in Request BY Bounds DEF Types, AppTypes
<1>2. iocb[c].id \in 1..count /\ mate[iocb[c].id] = c /\ req[iocb[c].id] = iocb[c]
  BY DEF Numbers
<1>3. \A g \in 1..count : mate[g] = c => g <= iocb[c].id BY DEF Numbers
<1>4. \A i \in 1..Len(log) : log[i].ev.cookie = c => log[i].id <= iocb[c].id
  BY <1>3 DEF Entries
<1> QED BY <1>1, <1>2, <1>3, <1>4

LEMMA NumbersKept ==
  ASSUME NEW mate, NEW req, Numbers(mate, req), UNCHANGED <<iocb, count>>
  PROVE  Numbers(mate, req)'
BY DEF Numbers

(* The hooks at work stay at work on the same iocb, or leave.              *)
SameWork == \A t \in Threads :
              pc'[t] # "idle" => pc[t] # "idle" /\ work'[t].cookie = work[t].cookie

LEMMA AioAppend ==
  ASSUME NEW log, NEW mate, NEW req, Types, Numbers(mate, req), Entries(log, mate),
         InOrder(log, mate), NEW c \in Cookies, iocb[c] # NoOp,
         NEW e \in Logged, e.ev.cookie = c, e.id = iocb[c].id,
         e.ev.op \in {"submit", "done", "complete"},
         Alone => e.ev.op = "complete" \/ e.id = count,
         UNCHANGED <<iocb, count>>, SameWork, NEW x, OneMore(x, log, e)
  PROVE  /\ Extends(x, log) /\ Entries(x, mate)' /\ InOrder(x, mate)'
         /\ Numbers(mate, req)'
<1> DEFINE N == Len(log)
<1>2. /\ Extends(x, log) /\ N \in Nat /\ Len(x) = N + 1 /\ x[N + 1] = e
      /\ \A i \in 1..Len(x) : i \in 1..N \/ i = N + 1
      /\ \A i \in 1..N : i \in 1..Len(x) /\ x[i] = log[i]
      /\ N + 1 \in 1..Len(x)
  BY DEF OneMore
<1> HIDE DEF N
<1>3. /\ iocb[c].id \in 1..count /\ count \in Nat
      /\ mate[iocb[c].id] = c /\ req[iocb[c].id] = iocb[c] /\ iocb[c] \in Request
      /\ \A i \in 1..N : log[i].ev.cookie = c => log[i].id <= iocb[c].id
      /\ \A g \in 1..count : mate[g] = c => g <= iocb[c].id
  BY Latest DEF N
<1>4. Entries(x, mate)'
  <2>1. \A i \in 1..Len(x) :
          /\ x[i].ev.op # "abort" /\ x[i].id \in 1..count
          /\ mate[x[i].id] = x[i].ev.cookie
          /\ x[i].ev.op = "write" <=> x[i].ev.cookie = NoOp
    <3> SUFFICES ASSUME NEW i \in 1..Len(x)
                 PROVE  /\ x[i].ev.op # "abort" /\ x[i].id \in 1..count
                        /\ mate[x[i].id] = x[i].ev.cookie
                        /\ x[i].ev.op = "write" <=> x[i].ev.cookie = NoOp
      OBVIOUS
    <3>1. CASE i \in 1..N BY <1>2, <3>1 DEF Entries, N
    <3>2. CASE i = N + 1 BY <1>2, <1>3, <3>2, NoOpApart
    <3> QED BY <1>2, <3>1, <3>2
  <2>2. x \in Seq(Logged) BY <1>2 DEF Extends
  <2> QED BY <2>1, <2>2 DEF Entries
<1>5. \A i \in 1..N : log[i].id \in 1..count /\ mate[log[i].id] = log[i].ev.cookie
  BY DEF Entries, N
<1>6. InOrder(x, mate)'
  <2>1. ASSUME NEW i \in 1..Len(x), NEW j \in 1..Len(x),
               i < j, x[i].ev.cookie = x[j].ev.cookie
        PROVE  x[i].id <= x[j].id
    <3>1. i \in 1..N BY <1>2, <2>1
    <3>2. CASE j \in 1..N BY <1>2, <2>1, <3>1, <3>2 DEF InOrder, N
    <3>3. CASE j = N + 1 BY <1>2, <1>3, <2>1, <3>1, <3>3
    <3> QED BY <1>2, <3>2, <3>3
  <2>2. ASSUME NEW i \in 1..Len(x), NEW g \in 1..count, NEW j \in 1..Len(x),
               x[i].ev.op = "complete", mate[g] = x[i].ev.cookie, x[i].id < g, g <= x[j].id
        PROVE  i < j
    <3>1. i \in 1..N
      <4> SUFFICES ASSUME i = N + 1 PROVE FALSE BY <1>2
      <4>1. mate[g] = c /\ iocb[c].id < g BY <1>2, <2>2
      <4>2. g <= iocb[c].id BY <1>3, <4>1
      <4> QED BY <1>3, <4>1, <4>2
    <3>2. CASE j \in 1..N BY <1>2, <2>2, <3>1, <3>2 DEF InOrder, N
    <3>3. CASE j = N + 1 BY <1>2, <3>1, <3>3
    <3> QED BY <1>2, <3>2, <3>3
  <2>3. ASSUME Alone, NEW i \in 1..Len(x), NEW j \in 1..Len(x), i < j, x[j].ev.op # "complete"
        PROVE  x[i].id <= x[j].id
    <3>1. i \in 1..N BY <1>2, <2>3
    <3>2. CASE j \in 1..N BY <1>2, <2>3, <3>1, <3>2 DEF InOrder, N
    <3>3. CASE j = N + 1
      <4>1. e.id = count BY <1>2, <2>3, <3>3
      <4>2. log[i].id \in 1..count /\ x[i] = log[i] BY <1>2, <1>5, <3>1
      <4> QED BY <1>2, <1>3, <3>3, <4>1, <4>2
    <3> QED BY <1>2, <3>2, <3>3
  <2>4. Alone => \A t \in Threads : pc'[t] # "idle" => iocb'[work'[t].cookie].id = count'
    BY DEF InOrder, SameWork
  <2> QED BY <2>1, <2>2, <2>3, <2>4 DEF InOrder, Alone
<1> QED BY <1>2, <1>4, <1>6, NumbersKept

LEMMA OnceAppend ==
  ASSUME NEW log, Once(log), Owed(log), NEW e, NEW x, OneMore(x, log, e),
         \A i \in 1..Len(log) : log[i].ev.op # "write" => log[i].ev.cookie \in Cookies,
         NEW c \in Cookies, e.id = iocb[c].id, e.ev.cookie = c, UNCHANGED iocb,
         \A b \in Cookies : b # c /\ (Sending(b) \/ Flying(b)) => iocb[b].id # iocb[c].id,
         \A b \in Cookies : Sending(b)' <=> Sending(b) /\ ~(b = c /\ e.ev.op = "done"),
         \A b \in Cookies : Flying(b)' <=> Flying(b) /\ ~(b = c /\ e.ev.op = "complete"),
         \/ e.ev.op = "submit" /\ Sending(c)
         \/ e.ev.op = "done" /\ Sending(c)
         \/ e.ev.op = "complete" /\ Flying(c)
  PROVE  Once(x)' /\ Owed(x)'
<1> DEFINE N == Len(log)
           M == Len(x)
           g == iocb[c].id
<1>1. /\ x[N + 1] = e /\ N \in Nat
      /\ \A i \in 1..M : i \in 1..N \/ i = N + 1
      /\ \A i \in 1..N : i \in 1..M /\ x[i] = log[i]
      /\ N + 1 \in 1..M
  BY DEF OneMore
<1>2. \A op, q : Has(x, op, q) <=> Has(log, op, q) \/ (e.ev.op = op /\ e.id = q)
  BY HasAppend
<1>3. \A op : Has(log, op, g) <=> \E i \in 1..N : log[i].ev.op = op /\ log[i].id = g
  BY DEF Has, Within
<1>4. /\ \A i, j \in 1..N :
           log[i].id = log[j].id /\ log[i].ev.op = log[j].ev.op
             /\ log[i].ev.op \in {"done", "complete"} => i = j
      /\ \A b \in Cookies : Sending(b) => ~Has(log, "done", iocb[b].id)
      /\ \A b \in Cookies : Flying(b) => ~Has(log, "complete", iocb[b].id)
  BY DEF Once
<1>5. /\ \A i \in 1..N : log[i].ev.op # "write" =>
           /\ \/ Has(log, "done", log[i].id)
              \/ Sending(log[i].ev.cookie) /\ iocb[log[i].ev.cookie].id = log[i].id
           /\ \/ Has(log, "complete", log[i].id)
              \/ Flying(log[i].ev.cookie) /\ iocb[log[i].ev.cookie].id = log[i].id
      /\ \A b \in Cookies : Sending(b) => Flying(b) \/ Has(log, "complete", iocb[b].id)
      /\ \A b \in Cookies : Flying(b) => Sending(b) \/ Has(log, "done", iocb[b].id)
  BY DEF Owed
<1> HIDE DEF N, M, g
<1>6. Once(x)'
  <2>1. ASSUME NEW i \in 1..M, NEW j \in 1..M, x[i].id = x[j].id, x[i].ev.op = x[j].ev.op,
               x[i].ev.op \in {"done", "complete"}
        PROVE  i = j
    <3>1. CASE i \in 1..N /\ j \in 1..N BY <1>1, <1>4, <2>1, <3>1
    <3>2. CASE i = N + 1 /\ j \in 1..N
      <4>1. Has(log, e.ev.op, g) BY <1>1, <1>3, <2>1, <3>2 DEF g
      <4> QED BY <1>1, <1>4, <2>1, <3>2, <4>1 DEF g
    <3>3. CASE j = N + 1 /\ i \in 1..N
      <4>1. Has(log, e.ev.op, g) BY <1>1, <1>3, <2>1, <3>3 DEF g
      <4> QED BY <1>1, <1>4, <2>1, <3>3, <4>1 DEF g
    <3> QED BY <1>1, <3>1, <3>2, <3>3
  <2>2. ASSUME NEW b \in Cookies, Sending(b)' PROVE ~Has(x, "done", iocb[b].id)
    <3>1. Sending(b) /\ ~(b = c /\ e.ev.op = "done") BY <2>2
    <3> QED BY <1>2, <1>4, <3>1
  <2>3. ASSUME NEW b \in Cookies, Flying(b)' PROVE ~Has(x, "complete", iocb[b].id)
    <3>1. Flying(b) /\ ~(b = c /\ e.ev.op = "complete") BY <2>3
    <3> QED BY <1>2, <1>4, <3>1
  <2> QED BY <2>1, <2>2, <2>3 DEF Once, M
<1>7. Owed(x)'
  <2>1. ASSUME NEW b \in Cookies
        PROVE  /\ Sending(b)' => Flying(b)' \/ Has(x, "complete", iocb[b].id)
               /\ Flying(b)' => Sending(b)' \/ Has(x, "done", iocb[b].id)
    BY <1>2, <1>5
  <2>2. ASSUME NEW i \in 1..M, x[i].ev.op # "write"
        PROVE  /\ \/ Has(x, "done", x[i].id)
                  \/ Sending(x[i].ev.cookie)' /\ iocb[x[i].ev.cookie].id = x[i].id
               /\ \/ Has(x, "complete", x[i].id)
                  \/ Flying(x[i].ev.cookie)' /\ iocb[x[i].ev.cookie].id = x[i].id
    <3>1. CASE i \in 1..N
      <4>1. x[i] = log[i] BY <1>1, <3>1
      <4>2. x[i].ev.cookie \in Cookies BY <1>1, <2>2, <3>1 DEF N
      <4> QED BY <1>2, <1>5, <2>2, <3>1, <4>1, <4>2
    <3>2. CASE i = N + 1
      <4>1. x[i].id = iocb[c].id /\ x[i].ev.cookie = c BY <1>1, <3>2
      <4> QED BY <1>2, <1>5, <4>1
    <3> QED BY <1>1, <3>1, <3>2
  <2> QED BY <2>1, <2>2 DEF Owed, M
<1> QED BY <1>6, <1>7

(* The payloads in the log do not change with an event that is no part of  *)
(* one, nor with a new number.                                             *)
LEMMA PayloadSame ==
  ASSUME NEW log, NEW req, NEW req2, Payload(log, req),
         \A i \in 1..Len(log) : req2[log[i].id] = req[log[i].id]
  PROVE  Payload(log, req2)
<1>1. ASSUME NEW i \in 1..Len(log), Placed(log, req, i) PROVE Placed(log, req2, i)
  BY <1>1 DEF Placed
<1>2. ASSUME NEW i \in 1..Len(log), Whole(log, req, i) PROVE Whole(log, req2, i)
  BY <1>2 DEF Whole
<1> QED BY <1>1, <1>2 DEF Payload

LEMMA PayloadOther ==
  ASSUME NEW log, NEW req, Payload(log, req), NEW e, NEW x, OneMore(x, log, e),
         e.ev.op \in {"complete", "write"}
  PROVE  Payload(x, req)
<1> DEFINE N == Len(log)
           M == Len(x)
<1>1. /\ x[N + 1] = e /\ N \in Nat
      /\ \A i \in 1..M : i \in 1..N \/ i = N + 1
      /\ \A i \in 1..N : i \in 1..M /\ x[i] = log[i]
      /\ \A i \in 1..N : \A j \in 1..i : j \in 1..N
  BY DEF OneMore
<1>2. \A q : Has(x, "done", q) <=> Has(log, "done", q) BY HasAppend
<1>3. \A i \in 1..M : x[i].ev.op \in {"submit", "done"} => i \in 1..N BY <1>1
<1>4. ASSUME NEW i \in 1..M, x[i].ev.op = "submit" PROVE Placed(x, req, i)
  <2>1. i \in 1..N /\ x[i] = log[i] /\ Placed(log, req, i) BY <1>1, <1>3, <1>4 DEF Payload
  <2>2. \A k \in 1..x[i].num : \E j \in 1..i :
          x[j].ev.op = "submit" /\ x[j].id = x[i].id /\ x[j].num = k
    BY <1>1, <2>1 DEF Placed
  <2>3. \A j \in 1..M : x[j].id = x[i].id =>
          /\ x[j].ev.op = "submit" /\ i < j => x[i].num < x[j].num
          /\ x[j].ev.op = "done" => i < j
    BY <1>1, <1>3, <2>1 DEF Placed
  <2>4. /\ x[i].num >= 1
        /\ ~x[i].ev.truncated =>
             x[i].num <= Parts(req[x[i].id]) /\ SegmentOf(x[i].ev) = Part(req[x[i].id], x[i].num)
        /\ x[i].ev.truncated => ~Has(x, "done", x[i].id)
    BY <1>2, <2>1 DEF Placed
  <2> QED BY <2>2, <2>3, <2>4 DEF Placed
<1>5. ASSUME NEW i \in 1..M, x[i].ev.op = "done" PROVE Whole(x, req, i)
  <2>1. i \in 1..N /\ x[i] = log[i] /\ Whole(log, req, i) BY <1>1, <1>3, <1>5 DEF Payload
  <2> QED BY <1>1, <2>1 DEF Whole
<1> QED BY <1>4, <1>5 DEF Payload

(* e is the segment that follows the first n of its write.                 *)
NextPart(log, req, e, n) ==
  /\ e.ev.op = "submit" /\ ~Has(log, "done", e.id) /\ e.num = n + 1
  /\ \A i \in 1..Len(log) : log[i].ev.op = "submit" /\ log[i].id = e.id => log[i].num <= n
  /\ \A i \in 1..Len(log) : log[i].num \in Nat
  /\ \A k \in 1..n : \E i \in 1..Len(log) :
       log[i].ev.op = "submit" /\ log[i].id = e.id /\ log[i].num = k
  /\ ~e.ev.truncated =>
       n + 1 <= Parts(req[e.id]) /\ SegmentOf(e.ev) = Part(req[e.id], n + 1)

LEMMA PayloadSubmit ==
  ASSUME NEW log, NEW req, Payload(log, req), NEW e, NEW x, OneMore(x, log, e),
         NEW n \in Nat, NextPart(log, req, e, n)
  PROVE  Payload(x, req)
<1> DEFINE N == Len(log)
           M == Len(x)
<1> USE DEF NextPart
<1>1. /\ x[N + 1] = e /\ N \in Nat /\ M = N + 1
      /\ \A i \in 1..M : i \in 1..N \/ i = N + 1
      /\ \A i \in 1..N : i \in 1..M /\ x[i] = log[i]
      /\ \A i \in 1..N : \A j \in 1..i : j \in 1..N
  BY DEF OneMore
<1>2. \A q : Has(x, "done", q) <=> Has(log, "done", q) BY HasAppend
<1>3. \A i \in 1..N : log[i].id = e.id => log[i].ev.op # "done"
  BY DEF Has, Within
<1>4. ASSUME NEW i \in 1..M, x[i].ev.op = "submit" PROVE Placed(x, req, i)
  <2>1. CASE i \in 1..N
    <3>1. x[i] = log[i] /\ Placed(log, req, i) BY <1>1, <1>4, <2>1 DEF Payload
    <3>2. \A k \in 1..x[i].num : \E j \in 1..i :
            x[j].ev.op = "submit" /\ x[j].id = x[i].id /\ x[j].num = k
      <4> SUFFICES ASSUME NEW k \in 1..x[i].num
                   PROVE  \E j \in 1..i : x[j].ev.op = "submit" /\ x[j].id = x[i].id /\ x[j].num = k
        OBVIOUS
      <4>1. PICK j \in 1..i : log[j].ev.op = "submit" /\ log[j].id = log[i].id /\ log[j].num = k
        BY <3>1 DEF Placed
      <4>2. j \in 1..N /\ x[j] = log[j] BY <1>1, <2>1
      <4> QED BY <3>1, <4>1, <4>2
    <3>3. ASSUME NEW j \in 1..M, x[j].id = x[i].id
          PROVE  /\ x[j].ev.op = "submit" /\ i < j => x[i].num < x[j].num
                 /\ x[j].ev.op = "done" => i < j
      <4>1. CASE j \in 1..N BY <1>1, <2>1, <3>1, <3>3, <4>1 DEF Placed
      <4>2. CASE j = N + 1
        <5>1. x[j] = e /\ log[i].id = e.id /\ log[i].ev.op = "submit"
          BY <1>1, <1>4, <2>1, <3>1, <3>3, <4>2
        <5>2. log[i].num <= n /\ log[i].num \in Nat BY <2>1, <5>1
        <5> QED BY <3>1, <5>1, <5>2
      <4> QED BY <1>1, <4>1, <4>2
    <3>4. /\ x[i].num >= 1
          /\ ~x[i].ev.truncated =>
               x[i].num <= Parts(req[x[i].id]) /\ SegmentOf(x[i].ev) = Part(req[x[i].id], x[i].num)
          /\ x[i].ev.truncated => ~Has(x, "done", x[i].id)
      BY <1>2, <3>1 DEF Placed
    <3> QED BY <3>2, <3>3, <3>4 DEF Placed, M
  <2>2. CASE i = N + 1
    <3>1. x[i] = e BY <1>1, <2>2
    <3>2. ASSUME NEW k \in 1..x[i].num
          PROVE  \E j \in 1..i : x[j].ev.op = "submit" /\ x[j].id = x[i].id /\ x[j].num = k
      <4>1. CASE k \in 1..n
        <5>1. PICK j \in 1..N : log[j].ev.op = "submit" /\ log[j].id = e.id /\ log[j].num = k
          BY <4>1
        <5>2. j \in 1..i /\ x[j] = log[j] BY <1>1, <2>2
        <5> QED BY <3>1, <5>1, <5>2
      <4>2. CASE k \notin 1..n
        <5>1. k = n + 1 BY <3>1, <4>2
        <5>2. i \in 1..i BY <1>1, <2>2
        <5> QED BY <1>4, <3>1, <5>1, <5>2
      <4> QED BY <4>1, <4>2
    <3>3. \A j \in 1..M : x[j].id = x[i].id =>
            /\ x[j].ev.op = "submit" /\ i < j => x[i].num < x[j].num
            /\ x[j].ev.op = "done" => i < j
      <4>1. \A j \in 1..M : ~(i < j) BY <1>1, <2>2
      <4>2. \A j \in 1..M : x[j].id = x[i].id => x[j].ev.op # "done" BY <1>1, <1>3, <1>4, <2>2, <3>1
      <4> QED BY <4>1, <4>2
    <3>4. /\ x[i].num >= 1
          /\ ~x[i].ev.truncated =>
               x[i].num <= Parts(req[x[i].id]) /\ SegmentOf(x[i].ev) = Part(req[x[i].id], x[i].num)
          /\ x[i].ev.truncated => ~Has(x, "done", x[i].id)
      BY <1>2, <3>1
    <3> QED BY <3>2, <3>3, <3>4 DEF Placed, M
  <2> QED BY <1>1, <2>1, <2>2
<1>5. ASSUME NEW i \in 1..M, x[i].ev.op = "done" PROVE Whole(x, req, i)
  <2>1. i \in 1..N /\ x[i] = log[i] BY <1>1, <1>5
  <2>2. Whole(log, req, i) BY <1>5, <2>1 DEF Payload
  <2>3. ASSUME NEW k \in 1..Parts(req[x[i].id])
        PROVE  \E j \in 1..M : x[j].ev.op = "submit" /\ x[j].id = x[i].id /\ x[j].num = k
    <3>1. PICK j \in 1..N : log[j].ev.op = "submit" /\ log[j].id = log[i].id /\ log[j].num = k
      BY <2>1, <2>2, <2>3 DEF Whole
    <3>2. j \in 1..M /\ x[j] = log[j] BY <1>1
    <3> QED BY <2>1, <3>1, <3>2
  <2>4. x[i].ev.size = req[x[i].id].len BY <2>1, <2>2 DEF Whole
  <2> HIDE DEF N
  <2> QED BY <2>3, <2>4 DEF Whole, M
<1> QED BY <1>4, <1>5 DEF Payload, M

LEMMA PayloadDone ==
  ASSUME NEW log, NEW req, Payload(log, req), NEW e, NEW x, OneMore(x, log, e),
         e.ev.op = "done", e.ev.size = req[e.id].len,
         \A i \in 1..Len(log) :
           log[i].ev.op = "submit" /\ log[i].id = e.id => ~log[i].ev.truncated,
         \A k \in 1..Parts(req[e.id]) : \E i \in 1..Len(log) :
           log[i].ev.op = "submit" /\ log[i].id = e.id /\ log[i].num = k
  PROVE  Payload(x, req)
<1> DEFINE N == Len(log)
           M == Len(x)
<1>1. /\ x[N + 1] = e /\ N \in Nat /\ M = N + 1
      /\ \A i \in 1..M : i \in 1..N \/ i = N + 1
      /\ \A i \in 1..N : i \in 1..M /\ x[i] = log[i]
      /\ \A i \in 1..N : \A j \in 1..i : j \in 1..N
  BY DEF OneMore
<1>2. \A q : Has(x, "done", q) <=> Has(log, "done", q) \/ e.id = q BY HasAppend
<1>3. \A i \in 1..M : x[i].ev.op = "submit" => i \in 1..N BY <1>1
<1>4. ASSUME NEW i \in 1..M, x[i].ev.op = "submit" PROVE Placed(x, req, i)
  <2>1. i \in 1..N /\ x[i] = log[i] /\ Placed(log, req, i) BY <1>1, <1>3, <1>4 DEF Payload
  <2>2. \A k \in 1..x[i].num : \E j \in 1..i :
          x[j].ev.op = "submit" /\ x[j].id = x[i].id /\ x[j].num = k
    BY <1>1, <2>1 DEF Placed
  <2>3. ASSUME NEW j \in 1..M, x[j].id = x[i].id
        PROVE  /\ x[j].ev.op = "submit" /\ i < j => x[i].num < x[j].num
               /\ x[j].ev.op = "done" => i < j
    <3>1. CASE j \in 1..N BY <1>1, <2>1, <2>3, <3>1 DEF Placed
    <3>2. CASE j = N + 1 BY <1>1, <2>1, <3>2
    <3> QED BY <1>1, <3>1, <3>2
  <2>4. /\ x[i].num >= 1
        /\ ~x[i].ev.truncated =>
             x[i].num <= Parts(req[x[i].id]) /\ SegmentOf(x[i].ev) = Part(req[x[i].id], x[i].num)
        /\ x[i].ev.truncated => ~Has(x, "done", x[i].id)
    BY <1>2, <1>4, <2>1 DEF Placed
  <2> QED BY <2>2, <2>3, <2>4 DEF Placed, M
<1>5. ASSUME NEW i \in 1..M, x[i].ev.op = "done" PROVE Whole(x, req, i)
  <2>1. CASE i \in 1..N
    <3>1. x[i] = log[i] /\ Whole(log, req, i) BY <1>1, <1>5, <2>1 DEF Payload
    <3> QED BY <1>1, <3>1 DEF Whole
  <2>2. CASE i = N + 1 BY <1>1, <2>2 DEF Whole
  <2> QED BY <1>1, <2>1, <2>2
<1> QED BY <1>4, <1>5 DEF Payload, M

LEMMA ReachedKept ==
  ASSUME NEW log, NEW w, NEW n, Reached(log, w, n), NEW e, NEW x, OneMore(x, log, e),
         e.ev.op # "submit" \/ e.id # w.ib.id
  PROVE  Reached(x, w, n)
<1> DEFINE N == Len(log)
           M == Len(x)
<1>1. /\ x[N + 1] = e
      /\ \A i \in 1..M : i \in 1..N \/ i = N + 1
      /\ \A i \in 1..N : i \in 1..M /\ x[i] = log[i]
  BY DEF OneMore
<1>2. \A i \in 1..M : x[i].ev.op = "submit" /\ x[i].id = w.ib.id => i \in 1..N BY <1>1
<1> QED BY <1>1, <1>2 DEF Reached

-----------------------------------------------------------------------------
(* What has changed the files.                                             *)

LEMMA EffectsKept ==
  ASSUME NEW log, NEW req, NEW content, NEW top, Effects(log, req, content, top),
         NEW x, \A i \in 1..Len(log) : i \in 1..Len(x) /\ x[i] = log[i],
         \A i \in 1..Len(x) : IsEffect(x[i]) => i \in 1..Len(log),
         NEW req2, \A i \in 1..Len(log) : req2[log[i].id] = req[log[i].id],
         View(disk') = View(disk), past \subseteq past'
  PROVE  Effects(x, req2, content, top)'
<1> DEFINE N == Len(log)
           M == Len(x)
<1>1. /\ \A i \in 1..N : i \in 1..M /\ x[i] = log[i]
      /\ \A i \in 1..M : IsEffect(x[i]) => i \in 1..N
  OBVIOUS
<1>2. ASSUME NEW i \in 1..M, IsEffect(x[i])
      PROVE  /\ x[i].num \in 0..(top - 1)
             /\ \A j \in 1..M : IsEffect(x[j]) /\ i < j => x[i].num < x[j].num
             /\ content[x[i].num + 1] = Changed(content[x[i].num], x[i], req2)
             /\ x[i].ev.op = "complete" =>
                  x[i].ev.ret \in 0..req2[x[i].id].len /\ x[i].ev.file \in Captured \cup {NoOp}
             /\ x[i].ev.op = "write" => x[i].ev.file \in Captured
  <2>1. i \in 1..N /\ x[i] = log[i] /\ IsEffect(log[i]) BY <1>1, <1>2
  <2>2. req2[log[i].id] = req[log[i].id] BY <2>1
  <2>3. Changed(content[log[i].num], log[i], req2) = Changed(content[log[i].num], log[i], req)
    BY <2>2 DEF Changed, Change
  <2>4. /\ log[i].num \in 0..(top - 1)
        /\ \A j \in 1..N : IsEffect(log[j]) /\ i < j => log[i].num < log[j].num
        /\ content[log[i].num + 1] = Changed(content[log[i].num], log[i], req)
        /\ log[i].ev.op = "complete" =>
             log[i].ev.ret \in 0..req[log[i].id].len /\ log[i].ev.file \in Captured \cup {NoOp}
        /\ log[i].ev.op = "write" => log[i].ev.file \in Captured
    BY <2>1 DEF Effects
  <2>5. \A j \in 1..M : IsEffect(x[j]) /\ i < j => x[i].num < x[j].num BY <1>1, <2>1, <2>4
  <2> QED BY <2>1, <2>2, <2>3, <2>4, <2>5
<1>3. \A n \in 0..(top - 1) : \E i \in 1..M : IsEffect(x[i]) /\ x[i].num = n
  BY <1>1 DEF Effects
<1>4. top \in Nat /\ content[top] = View(disk)' /\ \A n \in 0..top : content[n] \in past'
  BY DEF Effects, View
<1> QED BY <1>2, <1>3, <1>4 DEF Effects

LEMMA EffectAppend ==
  ASSUME NEW log, NEW req, NEW content, NEW top, Effects(log, req, content, top),
         NEW e, NEW x, OneMore(x, log, e), IsEffect(e), e.num = top,
         NEW content2, \A n \in 0..top : content2[n] = content[n],
         content2[top + 1] = View(disk'), NEW req2,
         \A i \in 1..Len(log) : req2[log[i].id] = req[log[i].id],
         View(disk') = Changed(View(disk), e, req2), past' = past \cup {View(disk')},
         e.ev.op = "complete" =>
           e.ev.ret \in 0..req2[e.id].len /\ e.ev.file \in Captured \cup {NoOp},
         e.ev.op = "write" => e.ev.file \in Captured
  PROVE  Effects(x, req2, content2, top + 1)'
<1> DEFINE N == Len(log)
           M == Len(x)
<1>1. /\ x[N + 1] = e /\ N \in Nat /\ M = N + 1
      /\ \A i \in 1..M : i \in 1..N \/ i = N + 1
      /\ \A i \in 1..N : i \in 1..M /\ x[i] = log[i]
      /\ N + 1 \in 1..M
  BY DEF OneMore
<1>2. top \in Nat /\ content[top] = View(disk) /\ \A n \in 0..top : content[n] \in past
  BY DEF Effects
<1>3. ASSUME NEW i \in 1..M, IsEffect(x[i])
      PROVE  /\ x[i].num \in 0..((top + 1) - 1)
             /\ \A j \in 1..M : IsEffect(x[j]) /\ i < j => x[i].num < x[j].num
             /\ content2[x[i].num + 1] = Changed(content2[x[i].num], x[i], req2)
             /\ x[i].ev.op = "complete" =>
                  x[i].ev.ret \in 0..req2[x[i].id].len /\ x[i].ev.file \in Captured \cup {NoOp}
             /\ x[i].ev.op = "write" => x[i].ev.file \in Captured
  <2>1. CASE i \in 1..N
    <3>1. x[i] = log[i] /\ IsEffect(log[i]) BY <1>1, <1>3, <2>1
    <3>2. req2[log[i].id] = req[log[i].id] BY <2>1
    <3>3. Changed(content[log[i].num], log[i], req2) = Changed(content[log[i].num], log[i], req)
      BY <3>2 DEF Changed, Change
    <3>4. /\ log[i].num \in 0..(top - 1)
          /\ \A j \in 1..N : IsEffect(log[j]) /\ i < j => log[i].num < log[j].num
          /\ content[log[i].num + 1] = Changed(content[log[i].num], log[i], req)
          /\ log[i].ev.op = "complete" =>
               log[i].ev.ret \in 0..req[log[i].id].len /\ log[i].ev.file \in Captured \cup {NoOp}
          /\ log[i].ev.op = "write" => log[i].ev.file \in Captured
      BY <2>1, <3>1 DEF Effects
    <3>5. /\ log[i].num \in 0..top /\ log[i].num + 1 \in 0..top /\ log[i].num < top
          /\ log[i].num \in 0..((top + 1) - 1)
      BY <1>2, <3>4
    <3>6. \A j \in 1..M : IsEffect(x[j]) /\ i < j => x[i].num < x[j].num
      BY <1>1, <3>1, <3>4, <3>5
    <3>7. content2[x[i].num + 1] = Changed(content2[x[i].num], x[i], req2)
      BY <3>1, <3>3, <3>4, <3>5
    <3> QED BY <3>1, <3>2, <3>4, <3>5, <3>6, <3>7
  <2>2. CASE i = N + 1
    <3>1. x[i] = e BY <1>1, <2>2
    <3>2. \A j \in 1..M : ~(i < j) BY <1>1, <2>2
    <3>3. top \in 0..top /\ top \in 0..((top + 1) - 1) BY <1>2
    <3>4. content2[top] = View(disk) BY <1>2, <3>3
    <3> QED BY <3>1, <3>2, <3>3, <3>4
  <2> QED BY <1>1, <2>1, <2>2
<1>4. \A n \in 0..((top + 1) - 1) : \E i \in 1..M : IsEffect(x[i]) /\ x[i].num = n
  <2> SUFFICES ASSUME NEW n \in 0..((top + 1) - 1)
               PROVE  \E i \in 1..M : IsEffect(x[i]) /\ x[i].num = n
    OBVIOUS
  <2>1. CASE n = top BY <1>1, <2>1
  <2>2. CASE n # top
    <3>1. n \in 0..(top - 1) BY <1>2, <2>2
    <3>2. PICK i \in 1..N : IsEffect(log[i]) /\ log[i].num = n BY <3>1 DEF Effects
    <3> QED BY <1>1, <3>2
  <2> QED BY <2>1, <2>2
<1>5. \A n \in 0..(top + 1) : content2[n] \in past'
  <2> SUFFICES ASSUME NEW n \in 0..(top + 1) PROVE content2[n] \in past' OBVIOUS
  <2>1. CASE n = top + 1 BY <2>1
  <2>2. CASE n # top + 1
    <3>1. n \in 0..top BY <1>2, <2>2
    <3> QED BY <1>2, <3>1
  <2> QED BY <2>1, <2>2
<1>6. top + 1 \in Nat /\ content2[top + 1] = View(disk)' BY <1>2 DEF View
<1> QED BY <1>3, <1>4, <1>5, <1>6 DEF Effects

-----------------------------------------------------------------------------
(* What an event that is written does to the story.                        *)

LEMMA Described ==
  ASSUME Types, Owners, NEW b \in Cookies, Sending(b) \/ Flying(b)
  PROVE  iocb[b] \in Request /\ iocb[b] # NoOp
<1>1. iocb[b] # NoOp
  <2>1. CASE Sending(b)
    <3>1. PICK t \in Threads : pc[t] # "idle" /\ work[t].cookie = b BY <2>1 DEF Sending
    <3> QED BY <3>1, JobTyped, NoOpApart
  <2>2. CASE Flying(b) BY <2>2 DEF Flying, Owners, SameRequest
  <2> QED BY <2>1, <2>2
<1> QED BY <1>1 DEF Types, AppTypes

LEMMA Different ==
  ASSUME NEW mate, NEW req, Numbers(mate, req), NEW b \in Cookies, NEW c \in Cookies, b # c,
         iocb[b] # NoOp, iocb[c] # NoOp
  PROVE  iocb[b].id # iocb[c].id
BY DEF Numbers

LEMMA RingNext ==
  ASSUME Types, NEW log, NEW h, Waiting(log, h), NEW e, NEW x, OneMore(x, log, e),
         e.ev \in Events, ring' = Append(ring, e.ev)
  PROVE  Len(x) = h + Len(ring') /\ \A i \in 1..Len(ring') : ring'[i] = x[h + i].ev
<1>1. ring \in Seq(Events) /\ Len(ring) \in Nat BY DEF Types, RingTypes
<1>2. /\ Len(ring') = Len(ring) + 1 /\ ring'[Len(ring) + 1] = e.ev
      /\ \A i \in 1..Len(ring) : ring'[i] = ring[i]
  BY <1>1
<1>3. /\ h \in Nat /\ Len(log) = h + Len(ring)
      /\ \A i \in 1..Len(ring) : ring[i] = log[h + i].ev
  BY DEF Waiting
<1>4. /\ Len(x) = Len(log) + 1 /\ x[Len(log) + 1] = e
      /\ \A i \in 1..Len(log) : x[i] = log[i]
  BY DEF OneMore
<1>5. ASSUME NEW i \in 1..Len(ring') PROVE ring'[i] = x[h + i].ev
  <2>1. CASE i = Len(ring) + 1
    <3>1. h + i = Len(log) + 1 BY <1>1, <1>3, <2>1
    <3> QED BY <1>2, <1>4, <2>1, <3>1
  <2>2. CASE i # Len(ring) + 1
    <3>1. i \in 1..Len(ring) /\ h + i \in 1..Len(log) BY <1>1, <1>2, <1>3, <2>2
    <3> QED BY <1>2, <1>3, <1>4, <3>1
  <2> QED BY <2>1, <2>2
<1> QED BY <1>1, <1>2, <1>3, <1>4, <1>5

(* An event that a fexit hook writes.                                      *)
LEMMA HookStory ==
  ASSUME Types, Owners, NEW log, NEW mate, NEW req, NEW content, NEW top, NEW h, NEW own, NEW s,
         Emitted(log, mate, req, content, top), Handled(log, mate, content, top, h, own, s),
         Hook, NEW c \in Cookies, Sending(c),
         NEW e \in Logged, e.ev.op \in {"submit", "done"}, e.ev.cookie = c, e.id = iocb[c].id,
         Alone => e.id = count,
         NEW x, OneMore(x, log, e), ring' = Append(ring, e.ev), SameWork,
         \A b \in Cookies : Sending(b)' <=> Sending(b) /\ ~(b = c /\ e.ev.op = "done"),
         inflight' = inflight, Payload(x, req), Sent(x)'
  PROVE  Story'
<1>1. UNCHANGED <<disk, past, count, iocb, io, user, sink>> BY DEF Hook, app
<1>2. /\ Numbers(mate, req) /\ Entries(log, mate) /\ InOrder(log, mate)
      /\ Once(log) /\ Owed(log) /\ Effects(log, req, content, top)
      /\ \A b \in Cookies : Flying(b) => b \in inflight
  BY DEF Emitted
<1>3. iocb[c] # NoOp BY Described
<1>4. Extends(x, log) /\ Entries(x, mate)' /\ InOrder(x, mate)' /\ Numbers(mate, req)'
  BY <1>1, <1>2, <1>3, AioAppend
<1>5. \A b \in Cookies : Flying(b)' <=> Flying(b) BY <1>1 DEF Flying
<1>6. Once(x)' /\ Owed(x)'
  <2>1. \A i \in 1..Len(log) : log[i].ev.op # "write" => log[i].ev.cookie \in Cookies
    BY <1>2, EntryCookie
  <2>2. \A b \in Cookies : b # c /\ (Sending(b) \/ Flying(b)) => iocb[b].id # iocb[c].id
    BY <1>2, <1>3, Described, Different
  <2> QED BY <1>1, <1>2, <1>5, <2>1, <2>2, OnceAppend
<1>7. /\ \A i \in 1..Len(log) : i \in 1..Len(x) /\ x[i] = log[i]
      /\ \A i \in 1..Len(x) : IsEffect(x[i]) => i \in 1..Len(log)
  BY DEF OneMore, IsEffect
<1>8. Effects(x, req, content, top)'
  <2>1. View(disk') = View(disk) /\ past \subseteq past' BY <1>1
  <2> QED BY <1>2, <1>7, <2>1, EffectsKept
<1>9. Emitted(x, mate, req, content, top)'
  BY <1>1, <1>2, <1>4, <1>5, <1>6, <1>8 DEF Emitted, Payload, Placed, Whole
<1>10. Handled(x, mate, content, top, h, own, s)'
  <2>1. log \in Seq(Logged) /\ top \in Nat BY <1>2 DEF Entries, Effects
  <2>2. \A i \in 1..Len(log) : log[i].id \in 1..count BY <1>2 DEF Entries
  <2>3. Len(x) = h + Len(ring') /\ \A i \in 1..Len(ring') : ring'[i] = x[h + i].ev
    BY RingNext DEF Handled, Logged
  <2>4. Len(log) \in Nat BY <2>1
  <2>5. \A i \in 1..Len(x) : i > Len(log) /\ IsEffect(x[i]) => x[i].num >= top
    BY <1>7, <2>4
  <2>6. top <= top BY <2>1
  <2>7. Extends(x, log) /\ UNCHANGED <<user, sink>> BY <1>1, <1>4
  <2> QED BY <2>1, <2>2, <2>3, <2>5, <2>6, <2>7, HandledKept
<1> QED BY <1>9, <1>10 DEF Story

(* The parts of a request that is under way are not those of another.      *)
LEMMA Apart ==
  ASSUME Types, Owners, NEW mate, NEW req, Numbers(mate, req),
         NEW t \in Threads, NEW u \in Threads, t # u, pc[t] # "idle", pc[u] # "idle"
  PROVE  work[u].ib.id # iocb[work[t].cookie].id
<1>1. work[t].cookie # work[u].cookie BY DEF Owners, OneWork
<1>2. /\ work[t].cookie \in Cookies /\ iocb[work[t].cookie] \in Request
      /\ work[u].cookie \in Cookies /\ iocb[work[u].cookie] \in Request
  BY JobTyped
<1>3. work[u].ib = iocb[work[u].cookie] BY DEF Owners, SameRequest
<1> QED BY <1>1, <1>2, <1>3, Different, NoOpApart

LEMMA EmitOneStory ==
  ASSUME Types, Owners, Clean => Story, NEW t \in Threads, dio_emit_one(t), Clean'
  PROVE  Story'
<1> DEFINE w == work[t]
           c == w.cookie
           k == IF w.ib.kind = "pwrite" THEN w.ib.len ELSE 1
<1>1. pc[t] = "staging" /\ Hook /\ UNCHANGED <<iocb, inflight, batch_error>> /\ w.sent < w.ib.len
  BY DEF dio_emit_one, Hook, app, user
<1>2. lost' # TRUE BY DEF Clean
<1>3. /\ Emit(Segment(w))
      /\ \/ /\ Least(k, CaptureLimit) = k /\ pc' = pc /\ work' = [work EXCEPT ![t].sent = @ + k]
         \/ pc' = [pc EXCEPT ![t] = "aborting"] /\ work' = [work EXCEPT ![t].sent = @]
  BY <1>2 DEF dio_emit_one, Segment
<1>4. /\ c \in Cookies /\ w \in Job /\ w.ib \in Request /\ w.sent \in Nat /\ iocb[c] \in Request
      /\ w.ib = iocb[c] /\ IsWrite(w.ib)
  BY <1>1, JobTyped DEF Owners, SameRequest
<1>5. /\ w.ib.len \in Nat /\ w.ib.off \in Nat /\ k \in Nat /\ k >= 1 /\ w.ib.len >= 1
      /\ iocb[c].id \in Nat /\ iocb[c] # NoOp
  BY <1>4, RequestTyped
<1>6. /\ Segment(w) \in Events /\ Segment(w).op = "submit" /\ Segment(w).cookie = c
      /\ Segment(w).off = w.ib.off + w.sent
      /\ Segment(w).data = Repeat(iocb[c].id, Least(k, CaptureLimit))
      /\ Segment(w).truncated = (Least(k, CaptureLimit) < k)
  BY <1>1, SegmentTyped DEF Segment, Event
<1>7. Clean /\ ring' = Append(ring, Segment(w)) BY <1>1, <1>3, <1>6, EmitClean
<1>8. PICK log, mate, req, content, top, h, own, s :
        Emitted(log, mate, req, content, top) /\ Handled(log, mate, content, top, h, own, s)
  BY <1>7 DEF Story
<1>9. /\ Numbers(mate, req) /\ Entries(log, mate) /\ InOrder(log, mate)
      /\ Once(log) /\ Payload(log, req) /\ Sent(log)
  BY <1>8 DEF Emitted
<1>10. /\ \A u \in Threads : u # t => pc'[u] = pc[u] /\ work'[u] = work[u]
       /\ pc'[t] \in {"staging", "aborting"}
       /\ work'[t].cookie = c /\ work'[t].ib = w.ib
       /\ pc'[t] = "staging" => Least(k, CaptureLimit) = k /\ work'[t].sent = w.sent + k
  <2> HIDE DEF k
  <2>1. \/ pc' = pc
        \/ pc' = [pc EXCEPT ![t] = "aborting"]
    BY <1>3
  <2>2. \/ work' = [work EXCEPT ![t] = [w EXCEPT !.sent = w.sent + k]]
        \/ work' = [work EXCEPT ![t] = [w EXCEPT !.sent = w.sent]]
    BY <1>3
  <2>3. \A u \in Threads : u # t => pc'[u] = pc[u] /\ work'[u] = work[u]
    BY <2>1, <2>2 DEF Types, HookTypes
  <2>4. pc'[t] \in {"staging", "aborting"} BY <1>1, <2>1 DEF Types, HookTypes
  <2>5. work'[t].cookie = c /\ work'[t].ib = w.ib BY <1>4, <2>2 DEF Types, HookTypes, Job
  <2>6. pc'[t] = "staging" => Least(k, CaptureLimit) = k /\ work'[t].sent = w.sent + k
    <3>1. CASE Least(k, CaptureLimit) = k /\ work' = [work EXCEPT ![t] = [w EXCEPT !.sent = w.sent + k]]
      BY <1>4, <3>1 DEF Types, HookTypes, Job
    <3>2. CASE pc' = [pc EXCEPT ![t] = "aborting"] BY <3>2 DEF Types, HookTypes
    <3> QED BY <1>3, <3>1, <3>2
  <2> QED BY <2>3, <2>4, <2>5, <2>6
<1>11. Sending(c) /\ \A b \in Cookies : Sending(b)' <=> Sending(b)
  BY <1>1, <1>10 DEF Sending
<1>12. PICK n \in 0..Parts(w.ib) : Reached(log, w, n) BY <1>1, <1>9 DEF Sent
<1>13. n \in Nat /\ n + 1 <= Parts(w.ib) /\ (w.ib.kind = "pwrite" => n = 0) /\ w.sent = Cut(w.ib, n)
  <2>1. n \in Nat BY <1>5, <1>12 DEF Parts
  <2>2. w.sent = Cut(w.ib, n) BY <1>12 DEF Reached
  <2> QED BY <1>1, <1>5, <1>12, <2>1, <2>2 DEF Parts, Cut
<1> DEFINE g == iocb[c].id
           e == [ev |-> Segment(w), id |-> g, num |-> n + 1]
<1>14. e \in Logged /\ e.ev = Segment(w) /\ e.id = g /\ e.num = n + 1 BY <1>5, <1>6, <1>13 DEF Logged
<1>15. req[g] = w.ib BY <1>4, <1>5, <1>9 DEF Numbers
<1> HIDE DEF e
<1>16. PICK x : OneMore(x, log, e)
  <2>1. log \in Seq(Logged) BY <1>9 DEF Entries
  <2> QED BY <1>14, <2>1, LogAppend
<1>17. SameWork
  <2>1. \A u \in Threads : pc'[u] # "idle" => pc[u] # "idle" /\ work'[u].cookie = work[u].cookie
    BY <1>1, <1>10
  <2> QED BY <2>1 DEF SameWork
<1>18. Alone => e.id = count BY <1>1, <1>9, <1>14 DEF InOrder
<1>19. /\ \A i \in 1..Len(log) : log[i].ev.op = "submit" /\ log[i].id = g =>
            ~log[i].ev.truncated /\ log[i].num <= n
       /\ \A j \in 1..n : \E i \in 1..Len(log) :
            log[i].ev.op = "submit" /\ log[i].id = g /\ log[i].num = j
  BY <1>4, <1>12 DEF Reached
<1>20. Payload(x, req)
  <2>1. ~Has(log, "done", e.id) BY <1>4, <1>9, <1>11, <1>14 DEF Once
  <2>2. \A i \in 1..Len(log) : log[i].num \in Nat BY <1>9, EntryCookie
  <2>3. ~e.ev.truncated => SegmentOf(e.ev) = Part(req[e.id], n + 1)
    <3>1. SUFFICES ASSUME ~(Least(k, CaptureLimit) < k)
                   PROVE  SegmentOf(Segment(w)) = Part(w.ib, n + 1)
      BY <1>6, <1>14, <1>15
    <3>2. Least(k, CaptureLimit) = k BY <1>5, <3>1, Bounds DEF Least
    <3>3. /\ Segment(w).off = w.ib.off + Cut(w.ib, n)
          /\ Segment(w).data = Repeat(w.ib.id, k) /\ Segment(w).truncated = FALSE
      <4> HIDE DEF k
      <4>1. Segment(w).truncated = FALSE
        <5>1. Segment(w).truncated \in BOOLEAN BY <1>6 DEF Events
        <5>2. ~Segment(w).truncated BY <1>6, <3>1, Zenon
        <5> QED BY <5>1, <5>2
      <4> QED BY <1>4, <1>6, <1>13, <3>2, <4>1
    <3>4. CASE w.ib.kind = "pwrite"
      <4>1. w.ib.off + Cut(w.ib, n) = w.ib.off /\ k = w.ib.len BY <1>5, <1>13, <3>4 DEF Cut
      <4>2. Segment(w).off = w.ib.off /\ Segment(w).data = Repeat(w.ib.id, w.ib.len)
        BY <3>3, <4>1
      <4> QED BY <3>3, <3>4, <4>2 DEF SegmentOf, Part
    <3>5. CASE w.ib.kind # "pwrite"
      <4>1. w.ib.off + Cut(w.ib, n) = w.ib.off + (n + 1) - 1 /\ k = 1
        BY <1>5, <1>13, <3>5 DEF Cut
      <4>2. /\ Segment(w).off = w.ib.off + (n + 1) - 1
            /\ Segment(w).data = Repeat(w.ib.id, 1)
        BY <3>3, <4>1
      <4> QED BY <3>3, <3>5, <4>2 DEF SegmentOf, Part
    <3> QED BY <3>4, <3>5
  <2>4. e.ev.op = "submit" BY <1>6, <1>14
  <2>5. n + 1 <= Parts(req[e.id]) BY <1>13, <1>14, <1>15
  <2>6. /\ \A i \in 1..Len(log) : log[i].ev.op = "submit" /\ log[i].id = e.id => log[i].num <= n
        /\ \A j \in 1..n : \E i \in 1..Len(log) :
             log[i].ev.op = "submit" /\ log[i].id = e.id /\ log[i].num = j
        /\ e.num = n + 1
    BY <1>14, <1>19
  <2>7. ~e.ev.truncated =>
          n + 1 <= Parts(req[e.id]) /\ SegmentOf(e.ev) = Part(req[e.id], n + 1)
    BY <2>3, <2>5
  <2> HIDE DEF w, k, g, c
  <2>8. NextPart(log, req, e, n) BY <2>1, <2>2, <2>4, <2>6, <2>7 DEF NextPart
  <2>9. n \in Nat /\ Payload(log, req) BY <1>9, <1>13
  <2> QED BY <1>16, <2>8, <2>9, PayloadSubmit
<1>21. Sent(x)'
  <2> SUFFICES ASSUME NEW u \in Threads, pc'[u] \in {"issued", "staging"}
               PROVE  \E m \in 0..Parts(work'[u].ib) :
                        (pc'[u] = "issued" => m = 0) /\ Reached(x, work'[u], m)
    BY DEF Sent, Reached, Cut, Parts
  <2>1. CASE u # t
    <3>1. work'[u] = work[u] /\ pc'[u] = pc[u] /\ pc[u] # "idle" BY <1>10, <2>1
    <3>2. work[u].ib.id # g BY <1>1, <1>9, <2>1, <3>1, Apart
    <3>3. PICK m \in 0..Parts(work[u].ib) :
            (pc[u] = "issued" => m = 0) /\ Reached(log, work[u], m)
      BY <1>9, <3>1 DEF Sent
    <3>4. Reached(x, work[u], m) BY <1>14, <1>16, <3>2, <3>3, ReachedKept
    <3> QED BY <3>1, <3>3, <3>4
  <2>2. CASE u = t
    <3>1. /\ pc'[t] = "staging" /\ Least(k, CaptureLimit) = k /\ work'[t].sent = w.sent + k
          /\ work'[t].ib = w.ib
      BY <1>10, <2>2
    <3>2. work'[t].sent = Cut(work'[t].ib, n + 1) BY <1>5, <1>13, <3>1 DEF Cut
    <3>3. \A i \in 1..Len(x) : x[i].ev.op = "submit" /\ x[i].id = work'[t].ib.id =>
            ~x[i].ev.truncated /\ x[i].num <= n + 1
      <4> SUFFICES ASSUME NEW i \in 1..Len(x), x[i].ev.op = "submit", x[i].id = g
                   PROVE  ~x[i].ev.truncated /\ x[i].num <= n + 1
        BY <1>4, <3>1
      <4>1. CASE i \in 1..Len(log)
        <5>1. x[i] = log[i] BY <1>16, <4>1 DEF OneMore
        <5>2. ~log[i].ev.truncated /\ log[i].num <= n BY <1>19, <4>1, <5>1
        <5>3. log[i].num \in Nat BY <1>9, <4>1, EntryCookie
        <5> QED BY <1>13, <5>1, <5>2, <5>3
      <4>2. CASE i = Len(log) + 1
        <5>1. x[i] = e BY <1>16, <4>2 DEF OneMore
        <5>2. ~(Least(k, CaptureLimit) < k) BY <1>5, <3>1
        <5>3. ~e.ev.truncated BY <1>6, <1>14, <5>2, Zenon
        <5> QED BY <1>13, <1>14, <5>1, <5>3
      <4> QED BY <1>16, <4>1, <4>2 DEF OneMore
    <3>4. \A j \in 1..(n + 1) : \E i \in 1..Len(x) :
            x[i].ev.op = "submit" /\ x[i].id = work'[t].ib.id /\ x[i].num = j
      <4> SUFFICES ASSUME NEW j \in 1..(n + 1)
                   PROVE  \E i \in 1..Len(x) : x[i].ev.op = "submit" /\ x[i].id = g /\ x[i].num = j
        BY <1>4, <3>1
      <4>1. CASE j \in 1..n
        <5>1. PICK i \in 1..Len(log) : log[i].ev.op = "submit" /\ log[i].id = g /\ log[i].num = j
          BY <1>19, <4>1
        <5>2. i \in 1..Len(x) /\ x[i] = log[i] BY <1>16 DEF OneMore
        <5> QED BY <5>1, <5>2
      <4>2. CASE j \notin 1..n
        <5>1. j = n + 1 BY <1>13, <4>2
        <5>2. Len(log) + 1 \in 1..Len(x) /\ x[Len(log) + 1] = e BY <1>16 DEF OneMore
        <5> QED BY <1>6, <1>14, <5>1, <5>2
      <4> QED BY <4>1, <4>2
    <3>5. n + 1 \in 0..Parts(work'[t].ib) BY <1>5, <1>13, <3>1 DEF Parts
    <3>6. Reached(x, work'[t], n + 1) BY <3>2, <3>3, <3>4 DEF Reached
    <3> QED BY <2>2, <3>1, <3>5, <3>6
  <2> QED BY <2>1, <2>2
<1>22. e.ev.op \in {"submit", "done"} /\ e.ev.op # "done" /\ e.ev.cookie = c /\ ring' = Append(ring, e.ev)
  BY <1>6, <1>7, <1>14
<1> HIDE DEF c, w, k
<1> QED BY <1>1, <1>4, <1>8, <1>11, <1>14, <1>16, <1>17, <1>18, <1>20, <1>21, <1>22, HookStory

LEMMA EmitDoneStory ==
  ASSUME Types, Owners, Clean => Story, NEW t \in Threads, EmitDone(t), Clean'
  PROVE  Story'
<1> DEFINE w == work[t]
           c == w.cookie
           m == [Event("done", c) EXCEPT !.size = w.sent]
<1>1. /\ pc[t] = "staging" /\ Hook /\ UNCHANGED <<iocb, batch_error>> /\ w.sent = w.ib.len
      /\ Emit(m) /\ Leave(t)
  BY DEF EmitDone, Hook, app, user
<1>2. /\ c \in Cookies /\ w.ib \in Request /\ iocb[c] \in Request /\ w.ib = iocb[c] /\ IsWrite(w.ib)
  BY <1>1, JobTyped DEF Owners, SameRequest
<1>3. /\ w.ib.len \in Nat /\ w.ib.len >= 1 /\ iocb[c].id \in Nat /\ iocb[c] # NoOp
  BY <1>2, RequestTyped
<1>4. m \in Events /\ m.op = "done" /\ m.cookie = c /\ m.size = w.sent
  <2>1. m.size = w.sent BY DEF Event
  <2> QED BY <2>1, EmitDoneTypes
<1> HIDE DEF m
<1>5. Clean /\ ring' = Append(ring, m) /\ Len(ring) < RingSize BY <1>1, <1>4, EmitClean
<1>6. inflight' = inflight BY <1>5 DEF EmitDone
<1>7. PICK log, mate, req, content, top, h, own, s :
        Emitted(log, mate, req, content, top) /\ Handled(log, mate, content, top, h, own, s)
  BY <1>5 DEF Story
<1>8. /\ Numbers(mate, req) /\ Entries(log, mate) /\ InOrder(log, mate)
      /\ Once(log) /\ Payload(log, req) /\ Sent(log)
  BY <1>7 DEF Emitted
<1>9. /\ \A u \in Threads : u # t => pc'[u] = pc[u]
      /\ pc'[t] = "idle" /\ work' = work
  BY <1>1 DEF Leave, Types, HookTypes
<1>10. Sending(c) BY <1>1 DEF Sending
<1>11. \A b \in Cookies : Sending(b)' <=> Sending(b) /\ ~(b = c)
  <2>1. \A u \in Threads : pc'[u] # "idle" => work'[u].cookie # c
    <3> SUFFICES ASSUME NEW u \in Threads, pc'[u] # "idle", work'[u].cookie = c PROVE FALSE
      OBVIOUS
    <3>1. u # t /\ pc[u] # "idle" /\ work[u].cookie = work[t].cookie BY <1>9
    <3> QED BY <1>1, <3>1 DEF Owners, OneWork
  <2>2. \A b \in Cookies : b # c => (Sending(b)' <=> Sending(b)) BY <1>1, <1>9 DEF Sending
  <2>3. \A b \in Cookies : b = c => ~Sending(b)' BY <2>1 DEF Sending
  <2> HIDE DEF c
  <2> QED BY <2>2, <2>3, Zenon
<1>12. PICK n \in 0..Parts(w.ib) : Reached(log, w, n) BY <1>1, <1>8 DEF Sent
<1>13. n = Parts(w.ib)
  <2>1. n \in Nat BY <1>3, <1>12 DEF Parts
  <2>2. w.sent = Cut(w.ib, n) BY <1>12 DEF Reached
  <2> QED BY <1>1, <1>3, <1>12, <2>1, <2>2 DEF Parts, Cut
<1> DEFINE g == iocb[c].id
           e == [ev |-> m, id |-> g, num |-> 0]
<1>14. e \in Logged /\ e.ev = m /\ e.id = g BY <1>3, <1>4 DEF Logged
<1>15. req[g] = w.ib BY <1>2, <1>3, <1>8 DEF Numbers
<1> HIDE DEF e
<1>16. PICK x : OneMore(x, log, e)
  <2>1. log \in Seq(Logged) BY <1>8 DEF Entries
  <2> QED BY <1>14, <2>1, LogAppend
<1>17. SameWork
  <2>1. \A u \in Threads : pc'[u] # "idle" => pc[u] # "idle" /\ work'[u].cookie = work[u].cookie
    BY <1>1, <1>9
  <2> QED BY <2>1 DEF SameWork
<1>18. Alone => e.id = count BY <1>1, <1>8, <1>14 DEF InOrder
<1>19. Payload(x, req)
  <2>1. /\ \A i \in 1..Len(log) : log[i].ev.op = "submit" /\ log[i].id = g => ~log[i].ev.truncated
        /\ \A j \in 1..n : \E i \in 1..Len(log) :
             log[i].ev.op = "submit" /\ log[i].id = g /\ log[i].num = j
    BY <1>2, <1>12 DEF Reached
  <2>2. e.ev.op = "done" /\ e.ev.size = req[e.id].len BY <1>1, <1>4, <1>14, <1>15
  <2>3. /\ \A i \in 1..Len(log) : log[i].ev.op = "submit" /\ log[i].id = e.id => ~log[i].ev.truncated
        /\ \A j \in 1..Parts(req[e.id]) : \E i \in 1..Len(log) :
             log[i].ev.op = "submit" /\ log[i].id = e.id /\ log[i].num = j
    BY <1>13, <1>14, <1>15, <2>1
  <2> QED BY <1>8, <1>16, <2>2, <2>3, PayloadDone
<1>20. Sent(x)'
  <2> SUFFICES ASSUME NEW u \in Threads, pc'[u] \in {"issued", "staging"}
               PROVE  \E k \in 0..Parts(work'[u].ib) :
                        (pc'[u] = "issued" => k = 0) /\ Reached(x, work'[u], k)
    BY DEF Sent, Reached, Cut, Parts
  <2>1. u # t /\ work'[u] = work[u] /\ pc'[u] = pc[u] BY <1>9
  <2>2. PICK k \in 0..Parts(work[u].ib) :
          (pc[u] = "issued" => k = 0) /\ Reached(log, work[u], k)
    BY <1>8, <2>1 DEF Sent
  <2>3. Reached(x, work[u], k) BY <1>4, <1>14, <1>16, <2>2, ReachedKept
  <2> QED BY <2>1, <2>2, <2>3
<1>21. e.ev.op = "done" /\ e.ev.cookie = c /\ ring' = Append(ring, e.ev) BY <1>4, <1>5, <1>14
<1> HIDE DEF c, w
<1> QED BY <1>1, <1>2, <1>6, <1>7, <1>10, <1>11, <1>14, <1>16, <1>17, <1>18, <1>19, <1>20, <1>21,
           HookStory

(* A new request: it has a number that no event bears.                     *)
LEMMA ExtendsSelf ==
  ASSUME NEW log \in Seq(Logged)
  PROVE  Extends(log, log)
BY DEF Extends

LEMMA SubmitStory ==
  ASSUME ~SharedReap, Types, Owners, Clean => Story, NEW t \in Threads,
         handle_io_submit_one(t), Clean'
  PROVE  Story'
<1>1. PICK c \in Cookies, op \in Request, ok \in BOOLEAN :
        /\ pc[t] = "idle" /\ Reaped(c) /\ op.id = count + 1 /\ count' = count + 1
        /\ op.off + op.len <= Cells
        /\ iocb' = [iocb EXCEPT ![c] = op]
        /\ IF Cardinality(inflight \cup {c}) <= DioMax
           THEN inflight' = inflight \cup {c} /\ UNCHANGED lost
           ELSE lost' = TRUE /\ UNCHANGED inflight
        /\ io' = IF ok THEN [io EXCEPT ![c] = op] ELSE io
        /\ pc' = [pc EXCEPT ![t] = IF ok THEN "issued" ELSE "refused"]
        /\ work' = [work EXCEPT ![t] = [cookie |-> c, ib |-> op, sent |-> 0]]
        /\ UNCHANGED <<disk, past, ring, user, sink>>
  BY DEF handle_io_submit_one
<1>2. UNCHANGED <<ring, batch_error, user, sink, disk, past>> BY <1>1 DEF user
<1>3. io[c] = NoOp /\ \A u \in Threads : pc[u] # "idle" => work[u].cookie # c
  BY <1>1 DEF Reaped, Work
<1>4. /\ pc'[t] \in {"issued", "refused"} /\ (pc'[t] = "issued" <=> ok)
      /\ work'[t] = [cookie |-> c, ib |-> op, sent |-> 0]
  BY <1>1 DEF Types, HookTypes
<1>5. \A u \in Threads : u # t => pc'[u] = pc[u] /\ work'[u] = work[u]
  BY <1>1 DEF Types, HookTypes
<1>6. io'[c] = (IF ok THEN op ELSE NoOp) /\ \A b \in Cookies : b # c => io'[b] = io[b]
  BY <1>1, <1>3 DEF Types, AppTypes
<1>7. iocb'[c] = op /\ op # NoOp /\ \A b \in Cookies : b # c => iocb'[b] = iocb[b]
  BY <1>1, NoOpApart DEF Types, AppTypes
<1>8. ~Sending(c) /\ ~Flying(c) BY <1>3 DEF Sending, Flying
<1>9. Sending(c)' <=> Flying(c)'
  <2>1. Sending(c)' <=> ok /\ IsWrite(op)
    <3>1. \A u \in Threads : pc'[u] # "idle" /\ work'[u].cookie = c => u = t BY <1>3, <1>5
    <3> QED BY <1>4, <3>1 DEF Sending
  <2>2. Flying(c)' <=> ok /\ IsWrite(op) BY <1>6, <1>7 DEF Flying
  <2> QED BY <2>1, <2>2
<1>10. \A b \in Cookies : b # c => (Sending(b)' <=> Sending(b)) /\ (Flying(b)' <=> Flying(b))
  <2>1. \A b \in Cookies : b # c => (Sending(b)' <=> Sending(b))
    BY <1>1, <1>4, <1>5 DEF Sending
  <2>2. \A b \in Cookies : b # c => (Flying(b)' <=> Flying(b)) BY <1>6 DEF Flying
  <2> QED BY <2>1, <2>2
<1>11. ~lost' /\ Clean BY <1>1, <1>2 DEF Clean
<1>12. inflight' = inflight \cup {c} BY <1>1, <1>11
<1>13. PICK log, mate, req, content, top, h, own, s :
         Emitted(log, mate, req, content, top) /\ Handled(log, mate, content, top, h, own, s)
  BY <1>11 DEF Story
<1>14. /\ Numbers(mate, req) /\ Entries(log, mate) /\ InOrder(log, mate)
       /\ Once(log) /\ Owed(log) /\ Payload(log, req) /\ Sent(log)
       /\ Effects(log, req, content, top) /\ \A b \in Cookies : Flying(b) => b \in inflight
  BY <1>13 DEF Emitted
<1>15. PICK new \in Nat : new = count + 1 /\ count \in Nat /\ count' = new
  BY <1>1, Bounds DEF Types, AppTypes
<1>16. PICK mate2, req2 :
         /\ mate2 \in [Nat -> Cookies \cup {NoOp}] /\ req2 \in [Nat -> Request \cup {NoOp}]
         /\ mate2[new] = c /\ req2[new] = op
         /\ \A g \in 1..count : g \in 1..new /\ g < new /\ mate2[g] = mate[g] /\ req2[g] = req[g]
         /\ \A g \in 1..new : g = new \/ g \in 1..count
         /\ new \in 1..new
  <2> DEFINE m == [mate EXCEPT ![new] = c]
             r == [req EXCEPT ![new] = op]
  <2>1. /\ m \in [Nat -> Cookies \cup {NoOp}] /\ r \in [Nat -> Request \cup {NoOp}]
        /\ m[new] = c /\ r[new] = op
        /\ \A g \in 1..count : g \in 1..new /\ g < new /\ m[g] = mate[g] /\ r[g] = req[g]
        /\ \A g \in 1..new : g = new \/ g \in 1..count
        /\ new \in 1..new
    BY <1>14, <1>15 DEF Numbers
  <2> HIDE DEF m, r
  <2> QED BY <2>1
<1>17. \A i \in 1..Len(log) :
         /\ log[i] \in Logged /\ log[i].id \in 1..count /\ log[i].id \in 1..new /\ log[i].id # new
         /\ log[i].id < new /\ mate2[log[i].id] = mate[log[i].id] /\ req2[log[i].id] = req[log[i].id]
         /\ (log[i].ev.op # "write" => log[i].ev.cookie \in Cookies)
  <2>1. \A i \in 1..Len(log) : log[i] \in Logged /\ log[i].id \in 1..count BY <1>14, EntryCookie
  <2>2. \A i \in 1..Len(log) : log[i].ev.op # "write" => log[i].ev.cookie \in Cookies
    BY <1>14, EntryCookie
  <2>3. \A g \in 1..count : g # new BY <1>15, <1>16
  <2> QED BY <1>16, <2>1, <2>2, <2>3
<1>18. Numbers(mate2, req2)'
  <2>1. ASSUME NEW g \in 1..new, mate2[g] \in Cookies
        PROVE  req2[g] \in Request /\ req2[g].id = g /\ req2[g].off + req2[g].len <= Cells
               /\ iocb'[mate2[g]] \in Request /\ g <= iocb'[mate2[g]].id
    <3>1. CASE g = new BY <1>1, <1>7, <1>15, <1>16, <3>1
    <3>2. CASE g \in 1..count
      <4>1. mate2[g] = mate[g] /\ req2[g] = req[g] /\ g < new BY <1>16, <3>2
      <4>2. req[g] \in Request /\ req[g].id = g /\ req[g].off + req[g].len <= Cells
            /\ iocb[mate[g]] \in Request /\ g <= iocb[mate[g]].id
        BY <1>14, <2>1, <3>2, <4>1 DEF Numbers
      <4>3. CASE mate[g] = c
        <5>1. iocb'[mate2[g]] = op /\ op.id = new BY <1>1, <1>7, <1>15, <4>1, <4>3
        <5> QED BY <1>1, <1>15, <4>1, <4>2, <5>1
      <4>4. CASE mate[g] # c BY <1>7, <2>1, <4>1, <4>2, <4>4
      <4> QED BY <4>3, <4>4
    <3> QED BY <1>16, <3>1, <3>2
  <2>2. ASSUME NEW b \in Cookies, iocb'[b] # NoOp
        PROVE  iocb'[b].id \in 1..new /\ mate2[iocb'[b].id] = b /\ req2[iocb'[b].id] = iocb'[b]
    <3>1. CASE b = c BY <1>1, <1>7, <1>15, <1>16, <3>1
    <3>2. CASE b # c
      <4>1. iocb'[b] = iocb[b] BY <1>7, <3>2
      <4>2. iocb[b].id \in 1..count /\ mate[iocb[b].id] = b /\ req[iocb[b].id] = iocb[b]
        BY <1>14, <2>2, <4>1 DEF Numbers
      <4> QED BY <1>16, <4>1, <4>2
    <3> QED BY <3>1, <3>2
  <2> QED BY <1>15, <1>16, <2>1, <2>2 DEF Numbers
<1>19. Entries(log, mate2)' BY <1>14, <1>15, <1>17 DEF Entries
<1>20. InOrder(log, mate2)'
  <2>1. \A i, j \in 1..Len(log) :
          i < j /\ log[i].ev.cookie = log[j].ev.cookie => log[i].id <= log[j].id
    BY <1>14 DEF InOrder
  <2>2. ASSUME NEW i \in 1..Len(log), NEW g \in 1..new, NEW j \in 1..Len(log),
               log[i].ev.op = "complete", mate2[g] = log[i].ev.cookie, log[i].id < g,
               g <= log[j].id
        PROVE  i < j
    <3>1. g # new BY <1>15, <1>17, <2>2
    <3>2. g \in 1..count /\ mate2[g] = mate[g] BY <1>16, <3>1
    <3> QED BY <1>14, <2>2, <3>2 DEF InOrder
  <2>3. Alone => /\ \A i, j \in 1..Len(log) :
                      i < j /\ log[j].ev.op # "complete" => log[i].id <= log[j].id
                 /\ \A u \in Threads : pc'[u] # "idle" => iocb'[work'[u].cookie].id = count'
    <3>1. Alone => \A u \in Threads : u = t BY DEF Alone
    <3>2. iocb'[work'[t].cookie].id = count' BY <1>1, <1>4, <1>7
    <3> QED BY <1>14, <3>1, <3>2 DEF InOrder
  <2> QED BY <1>15, <2>1, <2>2, <2>3 DEF InOrder, Alone
<1>21. Once(log)'
  <2>1. ASSUME NEW b \in Cookies
        PROVE  /\ Sending(b)' => ~Has(log, "done", iocb'[b].id)
               /\ Flying(b)' => ~Has(log, "complete", iocb'[b].id)
    <3>1. CASE b = c
      <4>1. iocb'[b].id = new BY <1>1, <1>7, <1>15, <3>1
      <4> QED BY <1>17, <4>1 DEF Has, Within
    <3>2. CASE b # c BY <1>7, <1>10, <1>14, <3>2 DEF Once
    <3> QED BY <3>1, <3>2
  <2>2. \A i, j \in 1..Len(log) :
          log[i].id = log[j].id /\ log[i].ev.op = log[j].ev.op
            /\ log[i].ev.op \in {"done", "complete"} => i = j
    BY <1>14 DEF Once
  <2> QED BY <2>1, <2>2 DEF Once, Has, Within
<1>22. Owed(log)'
  <2>1. ASSUME NEW i \in 1..Len(log), log[i].ev.op # "write"
        PROVE  /\ \/ Has(log, "done", log[i].id)
                  \/ Sending(log[i].ev.cookie)' /\ iocb'[log[i].ev.cookie].id = log[i].id
               /\ \/ Has(log, "complete", log[i].id)
                  \/ Flying(log[i].ev.cookie)' /\ iocb'[log[i].ev.cookie].id = log[i].id
    <3>1. log[i].ev.cookie \in Cookies BY <1>17, <2>1
    <3>2. /\ Has(log, "done", log[i].id)
             \/ (Sending(log[i].ev.cookie) /\ iocb[log[i].ev.cookie].id = log[i].id)
          /\ Has(log, "complete", log[i].id)
             \/ (Flying(log[i].ev.cookie) /\ iocb[log[i].ev.cookie].id = log[i].id)
      BY <1>14, <2>1 DEF Owed
    <3> QED BY <1>7, <1>8, <1>10, <3>1, <3>2
  <2>2. ASSUME NEW b \in Cookies
        PROVE  /\ Sending(b)' => Flying(b)' \/ Has(log, "complete", iocb'[b].id)
               /\ Flying(b)' => Sending(b)' \/ Has(log, "done", iocb'[b].id)
    BY <1>7, <1>9, <1>10, <1>14 DEF Owed
  <2> QED BY <2>1, <2>2 DEF Owed, Has, Within
<1>23. Payload(log, req2)
  BY <1>14, <1>17, PayloadSame
<1>24. Sent(log)'
  <2> SUFFICES ASSUME NEW u \in Threads, pc'[u] \in {"issued", "staging"}
               PROVE  \E m \in 0..Parts(work'[u].ib) :
                        (pc'[u] = "issued" => m = 0) /\ Reached(log, work'[u], m)
    BY DEF Sent, Reached, Cut, Parts
  <2>1. CASE u # t BY <1>5, <1>14, <2>1 DEF Sent
  <2>2. CASE u = t
    <3>1. work'[t].sent = 0 /\ work'[t].ib = op BY <1>4
    <3>2. 0 \in 0..Parts(op) BY RequestTyped DEF Parts
    <3>3. Reached(log, work'[t], 0) BY <1>1, <1>15, <1>17, <3>1 DEF Reached, Cut
    <3> QED BY <2>2, <3>1, <3>2, <3>3
  <2> QED BY <2>1, <2>2
<1>25. Effects(log, req2, content, top)'
  <2>1. View(disk') = View(disk) /\ past \subseteq past' BY <1>2
  <2> QED BY <1>14, <1>17, <2>1, EffectsKept
<1>26. Emitted(log, mate2, req2, content, top)'
  <2>1. \A b \in Cookies : Flying(b)' => b \in inflight' BY <1>10, <1>12, <1>14
  <2> QED BY <1>18, <1>19, <1>20, <1>21, <1>22, <1>23, <1>24, <1>25, <2>1
       DEF Emitted, Payload, Placed, Whole
<1>27. Handled(log, mate2, content, top, h, own, s)'
  <2>1. log \in Seq(Logged) /\ top \in Nat /\ top <= top /\ Len(log) \in Nat
    BY <1>14 DEF Entries, Effects
  <2>2. /\ \A g \in 1..count : mate2[g] = mate[g]
        /\ \A i \in 1..Len(log) : log[i].id \in 1..count
    BY <1>16, <1>17
  <2>3. Len(log) = h + Len(ring') /\ \A i \in 1..Len(ring') : ring'[i] = log[h + i].ev
    BY <1>2, <1>13 DEF Handled, Waiting
  <2>4. Extends(log, log) BY <2>1, ExtendsSelf
  <2>5. \A i \in 1..Len(log) : i > Len(log) /\ IsEffect(log[i]) => log[i].num >= top BY <2>1
  <2> QED BY <1>2, <1>13, <2>1, <2>2, <2>3, <2>4, <2>5, HandledKept
<1> QED BY <1>26, <1>27 DEF Story

(* A step that writes no event and starts no write.                        *)
LEMMA SilentStory ==
  ASSUME Types, NEW log, NEW mate, NEW req, NEW content, NEW top, NEW h, NEW own, NEW s,
         Emitted(log, mate, req, content, top), Handled(log, mate, content, top, h, own, s),
         UNCHANGED <<iocb, count, ring, user, sink>>, SameWork, Sent(log)',
         \A b \in Cookies : Sending(b)' <=> Sending(b),
         \A b \in Cookies : Flying(b)' <=> Flying(b),
         \A b \in Cookies : Flying(b)' => b \in inflight',
         View(disk') = View(disk), past \subseteq past'
  PROVE  Story'
<1>1. /\ Numbers(mate, req) /\ Entries(log, mate) /\ InOrder(log, mate)
      /\ Once(log) /\ Owed(log) /\ Payload(log, req) /\ Effects(log, req, content, top)
  BY DEF Emitted
<1>2. Numbers(mate, req)' BY <1>1, NumbersKept
<1>3. Entries(log, mate)' BY <1>1 DEF Entries
<1>4. InOrder(log, mate)'
  <2>1. Alone => \A t \in Threads : pc'[t] # "idle" => iocb'[work'[t].cookie].id = count'
    BY <1>1 DEF InOrder, SameWork
  <2> QED BY <1>1, <2>1 DEF InOrder, Alone
<1>5. Once(log)' BY <1>1 DEF Once, Has, Within
<1>6. Owed(log)'
  <2>1. \A i \in 1..Len(log) : log[i].ev.op # "write" => log[i].ev.cookie \in Cookies
    BY <1>1, EntryCookie
  <2> QED BY <1>1, <2>1 DEF Owed, Has, Within
<1>7. Effects(log, req, content, top)' BY <1>1, EffectsKept
<1>8. Emitted(log, mate, req, content, top)'
  BY <1>1, <1>2, <1>3, <1>4, <1>5, <1>6, <1>7 DEF Emitted, Payload, Placed, Whole
<1>9. Handled(log, mate, content, top, h, own, s)'
  <2>1. log \in Seq(Logged) /\ top \in Nat /\ top <= top /\ Len(log) \in Nat
    BY <1>1 DEF Entries, Effects
  <2>2. \A i \in 1..Len(log) : log[i].id \in 1..count BY <1>1 DEF Entries
  <2>3. Len(log) = h + Len(ring') /\ \A i \in 1..Len(ring') : ring'[i] = log[h + i].ev
    BY DEF Handled, Waiting
  <2>4. Extends(log, log) BY <2>1, ExtendsSelf
  <2>5. \A i \in 1..Len(log) : i > Len(log) /\ IsEffect(log[i]) => log[i].num >= top BY <2>1
  <2> QED BY <2>1, <2>2, <2>3, <2>4, <2>5, HandledKept
<1> QED BY <1>8, <1>9 DEF Story

LEMMA ExitStory ==
  ASSUME Types, Owners, Clean => Story, NEW t \in Threads, handle_io_submit_one_exit(t), Clean'
  PROVE  Story'
<1>1. UNCHANGED <<iocb, io, count, ring, user, sink, batch_error, disk, past>>
  BY DEF handle_io_submit_one_exit, Hook, app, user
<1>2. PICK c \in Cookies : work[t].cookie = c /\ pc[t] # "idle" /\ work[t].ib = iocb[c]
  <2>1. pc[t] # "idle" BY DEF handle_io_submit_one_exit
  <2> QED BY <2>1, JobTyped DEF Owners, SameRequest
<1>3. \A x \in Cookies : Flying(x)' <=> Flying(x) BY <1>1 DEF Flying
<1>4. lost' # TRUE BY DEF Clean
<1>5. \/ /\ pc[t] = "refused" \/ (pc[t] = "issued" /\ ~IsWrite(iocb[c]))
         /\ inflight' = inflight \ {c} /\ Leave(t) /\ UNCHANGED lost
      \/ /\ pc[t] = "issued" /\ IsWrite(iocb[c])
         /\ pc' = [pc EXCEPT ![t] = "staging"] /\ work' = [work EXCEPT ![t].ib = iocb[c]]
         /\ UNCHANGED <<inflight, lost>>
  BY <1>2, <1>4 DEF handle_io_submit_one_exit, Forget
<1>6. /\ \A u \in Threads : u # t => pc'[u] = pc[u] /\ work'[u] = work[u]
      /\ work'[t].cookie = c /\ work'[t].ib = work[t].ib /\ work'[t].sent = work[t].sent
      /\ \/ pc'[t] = "idle" /\ ~Sending(c)
         \/ pc'[t] = "staging" /\ pc[t] = "issued" /\ Sending(c)
  <2>1. CASE Leave(t) /\ (pc[t] = "refused" \/ (pc[t] = "issued" /\ ~IsWrite(iocb[c])))
    <3>1. work' = work /\ pc'[t] = "idle" /\ \A u \in Threads : u # t => pc'[u] = pc[u]
      BY <2>1 DEF Leave, Types, HookTypes
    <3>2. ~Sending(c)
      <4> SUFFICES ASSUME NEW u \in Threads, pc[u] # "idle", work[u].cookie = c,
                          pc[u] \in {"staging", "aborting"} \/ (pc[u] = "issued" /\ IsWrite(work[u].ib))
                   PROVE  FALSE
        BY DEF Sending
      <4>1. u = t BY <1>2 DEF Owners, OneWork
      <4> QED BY <1>2, <2>1, <4>1
    <3> QED BY <1>2, <3>1, <3>2
  <2>2. CASE /\ pc[t] = "issued" /\ IsWrite(iocb[c]) /\ pc' = [pc EXCEPT ![t] = "staging"]
             /\ work' = [work EXCEPT ![t].ib = iocb[c]]
    <3>1. work[t] \in Job BY <1>2, JobTyped
    <3>2. \A u \in Threads : u # t => pc'[u] = pc[u] /\ work'[u] = work[u]
      BY <2>2 DEF Types, HookTypes
    <3>3. /\ work'[t].cookie = c /\ work'[t].ib = work[t].ib /\ work'[t].sent = work[t].sent
          /\ pc'[t] = "staging"
      BY <1>2, <2>2, <3>1 DEF Types, HookTypes, Job
    <3>4. Sending(c) BY <1>2, <2>2 DEF Sending
    <3> QED BY <2>2, <3>2, <3>3, <3>4
  <2> QED BY <1>5, <2>1, <2>2
<1>7. \A x \in Cookies : Sending(x)' <=> Sending(x)
  <2> SUFFICES ASSUME NEW x \in Cookies PROVE Sending(x)' <=> Sending(x) OBVIOUS
  <2>1. CASE x = c
    <3>1. \A u \in Threads : pc[u] # "idle" /\ work[u].cookie = c => u = t
      BY <1>2 DEF Owners, OneWork
    <3>2. \A u \in Threads : pc'[u] # "idle" /\ work'[u].cookie = c => u = t BY <1>6, <3>1
    <3> QED BY <1>6, <2>1, <3>1, <3>2 DEF Sending
  <2>2. CASE x # c BY <1>2, <1>6, <2>2 DEF Sending
  <2> QED BY <2>1, <2>2
<1>8. Clean BY <1>1, <1>5 DEF Clean
<1>9. PICK log, mate, req, content, top, h, own, s :
        Emitted(log, mate, req, content, top) /\ Handled(log, mate, content, top, h, own, s)
  BY <1>8 DEF Story
<1>10. Sent(log) /\ \A b \in Cookies : Flying(b) => b \in inflight BY <1>9 DEF Emitted
<1>11. SameWork BY <1>2, <1>6 DEF SameWork
<1>12. \A b \in Cookies : Flying(b)' => b \in inflight'
  <2>1. CASE inflight' = inflight BY <1>3, <1>10, <2>1
  <2>2. CASE inflight' = inflight \ {c} /\ ~Flying(c) BY <1>3, <1>10, <2>2
  <2>3. pc[t] = "refused" => ~Flying(c) BY <1>2 DEF Flying, Owners, SameRequest
  <2>4. ~IsWrite(iocb[c]) => ~Flying(c) BY DEF Flying, Owners, SameRequest
  <2> QED BY <1>5, <2>1, <2>2, <2>3, <2>4
<1>13. Sent(log)'
  <2> SUFFICES ASSUME NEW u \in Threads, pc'[u] \in {"issued", "staging"}
               PROVE  \E m \in 0..Parts(work'[u].ib) :
                        (pc'[u] = "issued" => m = 0) /\ Reached(log, work'[u], m)
    BY DEF Sent, Reached, Cut, Parts
  <2>1. PICK m \in 0..Parts(work[u].ib) :
          (pc[u] = "issued" => m = 0) /\ Reached(log, work[u], m)
    BY <1>6, <1>10 DEF Sent
  <2>2. work'[u].ib = work[u].ib /\ work'[u].sent = work[u].sent BY <1>6
  <2>3. Reached(log, work'[u], m) BY <2>1, <2>2 DEF Reached
  <2>4. pc'[u] = "issued" => pc[u] = "issued" BY <1>6
  <2> QED BY <2>1, <2>2, <2>3, <2>4
<1>14. View(disk') = View(disk) /\ past \subseteq past' BY <1>1
<1> QED BY <1>1, <1>3, <1>7, <1>9, <1>11, <1>12, <1>13, <1>14, SilentStory

LEMMA ViewWrite ==
  ASSUME Types, NEW r
  PROVE  /\ r.file \in Captured => View(Write(disk, r)) = Write(View(disk), r)
         /\ r.file \notin Captured => View(Write(disk, r)) = View(disk)
<1>1. Captured \subseteq Files BY DioAssumption
<1>2. DOMAIN disk = Files BY DEF Types, AppTypes
<1> QED BY <1>1, <1>2 DEF View, Write

(* The content that a change of the files adds.                            *)
LEMMA ContentGrows ==
  ASSUME NEW content, NEW top \in Nat, NEW v
  PROVE  \E content2 : content2[top + 1] = v /\ \A n \in 0..top : content2[n] = content[n]
<1> DEFINE f == [n \in 0..(top + 1) |-> IF n = top + 1 THEN v ELSE content[n]]
<1>1. f[top + 1] = v /\ \A n \in 0..top : f[n] = content[n] OBVIOUS
<1> HIDE DEF f
<1> QED BY <1>1

LEMMA CompleteStory ==
  ASSUME Types, Owners, Clean => Story, NEW c \in Cookies, handle_aio_complete_rw(c), Clean'
  PROVE  Story'
<1>1. PICK res \in 0..io[c].len :
        /\ disk' = IF IsWrite(io[c])
                   THEN Write(disk, [file |-> io[c].file, off |-> io[c].off,
                                     data |-> Repeat(io[c].id, res)])
                   ELSE disk
        /\ IF c \in inflight /\ IsWrite(io[c]) THEN dio_emit_complete(c, io[c].file, res)
           ELSE UNCHANGED <<ring, lost>>
  BY DEF handle_aio_complete_rw
<1>2. /\ io[c] # NoOp /\ past' = past \cup {View(disk')}
      /\ inflight' = inflight \ {c} /\ io' = [io EXCEPT ![c] = NoOp]
      /\ UNCHANGED <<count, iocb, pc, work, user, sink, batch_error>>
  BY DEF handle_aio_complete_rw, user
<1>3. ~Flying(c)' /\ \A x \in Cookies : x # c => (Flying(x)' <=> Flying(x))
  BY <1>2 DEF Flying, Types, AppTypes
<1>4. (\A x \in Cookies : Sending(x)' <=> Sending(x)) /\ SameWork
  BY <1>2 DEF Sending, SameWork
<1>5. /\ io[c] \in Request /\ io[c] = iocb[c] /\ io[c].file \in Files /\ io[c].len \in Nat
      /\ io[c].id \in Nat /\ res \in Nat
  BY <1>1, <1>2, RequestTyped DEF Types, AppTypes, Owners, SameRequest
<1>6. CASE ~Flying(c)
  <2>1. ~IsWrite(io[c]) /\ UNCHANGED <<ring, lost, disk>> BY <1>1, <1>2, <1>6 DEF Flying
  <2>2. Clean BY <1>2, <2>1 DEF Clean
  <2>3. PICK log, mate, req, content, top, h, own, s :
          Emitted(log, mate, req, content, top) /\ Handled(log, mate, content, top, h, own, s)
    BY <2>2 DEF Story
  <2>4. Sent(log) /\ \A b \in Cookies : Flying(b) => b \in inflight BY <2>3 DEF Emitted
  <2>5. Sent(log)' BY <1>2, <2>4 DEF Sent, Reached
  <2>6. View(disk') = View(disk) /\ past \subseteq past' BY <1>2, <2>1
  <2>7. \A b \in Cookies : (Flying(b)' <=> Flying(b)) /\ (Flying(b)' => b \in inflight')
    BY <1>2, <1>3, <1>6, <2>4
  <2> QED BY <1>2, <1>4, <2>1, <2>3, <2>5, <2>6, <2>7, SilentStory
<1>7. CASE Flying(c)
  <2> DEFINE fl == IF io[c].file \in Captured THEN io[c].file ELSE NoOp
             ev == [Event("complete", c) EXCEPT !.ret = res, !.file = fl]
  <2>1. fl \in Files \cup {NoOp} BY <1>5
  <2>2. ev \in Events /\ ev.op = "complete" /\ ev.cookie = c /\ ev.ret = res /\ ev.file = fl
    <3>1. ev.ret = res /\ ev.file = fl BY DEF Event
    <3> HIDE DEF fl
    <3>2. res \in Nat BY <1>5
    <3>3. ev \in Events /\ ev.op = "complete" /\ ev.cookie = c BY <2>1, <3>2, CompleteEvent
    <3> QED BY <3>1, <3>3
  <2>3. c \in inflight => Emit(ev) BY <1>1, <1>7 DEF Flying, dio_emit_complete
  <2> HIDE DEF ev
  <2>4. Clean /\ c \in inflight
    <3>1. CASE c \in inflight BY <1>2, <2>2, <2>3, <3>1, EmitClean
    <3>2. CASE c \notin inflight
      <4>1. Clean BY <1>1, <1>2, <3>2 DEF Clean
      <4> QED BY <1>7, <4>1 DEF Story, Emitted
    <3> QED BY <3>1, <3>2
  <2>5. ring' = Append(ring, ev) BY <1>2, <2>2, <2>3, <2>4, EmitClean
  <2>6. PICK log, mate, req, content, top, h, own, s :
          Emitted(log, mate, req, content, top) /\ Handled(log, mate, content, top, h, own, s)
    BY <2>4 DEF Story
  <2>7. /\ Numbers(mate, req) /\ Entries(log, mate) /\ InOrder(log, mate)
        /\ Once(log) /\ Owed(log) /\ Payload(log, req) /\ Sent(log)
        /\ Effects(log, req, content, top) /\ \A b \in Cookies : Flying(b) => b \in inflight
    BY <2>6 DEF Emitted
  <2>8. top \in Nat /\ log \in Seq(Logged) /\ Len(log) \in Nat BY <2>7 DEF Effects, Entries
  <2>9. PICK e \in Logged : e.ev = ev /\ e.id = iocb[c].id /\ e.num = top
    <3>1. [ev |-> ev, id |-> iocb[c].id, num |-> top] \in Logged BY <1>5, <2>2, <2>8 DEF Logged
    <3> QED BY <3>1
  <2>10. PICK x : OneMore(x, log, e) BY <2>8, LogAppend
  <2>11. PICK content2 :
           content2[top + 1] = View(disk') /\ \A n \in 0..top : content2[n] = content[n]
    BY <2>8, ContentGrows
  <2>12. Extends(x, log) /\ Entries(x, mate)' /\ InOrder(x, mate)' /\ Numbers(mate, req)'
    BY <1>2, <1>4, <1>5, <2>2, <2>7, <2>9, <2>10, NoOpApart, AioAppend
  <2>13. Once(x)' /\ Owed(x)'
    <3>1. \A i \in 1..Len(log) : log[i].ev.op # "write" => log[i].ev.cookie \in Cookies
      BY <2>7, EntryCookie
    <3>2. \A b \in Cookies : b # c /\ (Sending(b) \/ Flying(b)) => iocb[b].id # iocb[c].id
      BY <1>2, <1>5, <2>7, Described, Different
    <3>3. e.ev.op = "complete" BY <2>2, <2>9
    <3>4. \A b \in Cookies : Sending(b)' <=> Sending(b) /\ ~(b = c /\ e.ev.op = "done")
      BY <1>4, <3>3
    <3>5. \A b \in Cookies : Flying(b)' <=> Flying(b) /\ ~(b = c /\ e.ev.op = "complete")
      BY <1>3, <3>3
    <3>6. e.ev.cookie = c /\ UNCHANGED iocb BY <1>2, <2>2, <2>9
    <3> QED BY <1>7, <2>7, <2>9, <2>10, <3>1, <3>2, <3>3, <3>4, <3>5, <3>6, OnceAppend
  <2>14. Payload(x, req) BY <2>2, <2>7, <2>9, <2>10, PayloadOther
  <2>15. Sent(x)'
    <3> SUFFICES ASSUME NEW u \in Threads, pc[u] \in {"issued", "staging"}
                 PROVE  \E m \in 0..Parts(work[u].ib) :
                          (pc[u] = "issued" => m = 0) /\ Reached(x, work[u], m)
      BY <1>2 DEF Sent, Reached
    <3>1. PICK m \in 0..Parts(work[u].ib) :
            (pc[u] = "issued" => m = 0) /\ Reached(log, work[u], m)
      BY <2>7 DEF Sent
    <3>2. Reached(x, work[u], m) BY <2>2, <2>9, <2>10, <3>1, ReachedKept
    <3> QED BY <3>1, <3>2
  <2>16. req[iocb[c].id] = io[c] BY <1>2, <1>5, <2>7 DEF Numbers
  <2>17. IsEffect(e) BY <2>2, <2>9 DEF IsEffect
  <2>18. View(disk') = Changed(View(disk), e, req)
    <3> DEFINE r == [file |-> io[c].file, off |-> io[c].off, data |-> Repeat(io[c].id, res)]
    <3>1. disk' = Write(disk, r) BY <1>1, <1>7 DEF Flying
    <3>2. CASE io[c].file \in Captured
      <4>1. Change(e, req) = r BY <1>5, <2>2, <2>9, <2>16, <3>2 DEF Change
      <4>2. View(disk') = Write(View(disk), r) BY <3>1, <3>2, ViewWrite
      <4>3. e.ev.file \in Captured BY <2>2, <2>9, <3>2
      <4> QED BY <4>1, <4>2, <4>3 DEF Changed
    <3>3. CASE io[c].file \notin Captured
      <4>1. e.ev.file = NoOp /\ NoOp \notin Captured
        BY <2>2, <2>9, <3>3, NoOpApart, DioAssumption
      <4>2. View(disk') = View(disk) BY <3>1, <3>3, ViewWrite
      <4> QED BY <4>1, <4>2 DEF Changed
    <3> QED BY <3>2, <3>3
  <2>19. Effects(x, req, content2, top + 1)'
    <3>1. e.ev.ret \in 0..req[e.id].len /\ e.ev.file \in Captured \cup {NoOp}
      BY <1>1, <2>2, <2>9, <2>16
    <3>2. e.ev.op # "write" BY <2>2, <2>9
    <3> QED BY <1>2, <2>7, <2>9, <2>10, <2>11, <2>17, <2>18, <3>1, <3>2, EffectAppend
  <2>20. Emitted(x, mate, req, content2, top + 1)'
    <3>1. \A b \in Cookies : Flying(b)' => b \in inflight' BY <1>2, <1>3, <2>7
    <3> QED BY <2>12, <2>13, <2>14, <2>15, <2>19, <3>1 DEF Emitted, Payload, Placed, Whole
  <2>21. Handled(x, mate, content2, top + 1, h, own, s)'
    <3>1. /\ top + 1 \in Nat /\ top <= top + 1 BY <2>8
    <3>2. \A i \in 1..Len(log) : log[i].id \in 1..count BY <2>7 DEF Entries
    <3>3. Len(x) = h + Len(ring') /\ \A i \in 1..Len(ring') : ring'[i] = x[h + i].ev
      BY <2>2, <2>5, <2>6, <2>9, <2>10, RingNext DEF Handled
    <3>4. \A i \in 1..Len(x) : i > Len(log) /\ IsEffect(x[i]) => x[i].num >= top
      BY <2>8, <2>9, <2>10 DEF OneMore
    <3> QED BY <1>2, <2>6, <2>8, <2>11, <2>12, <3>1, <3>2, <3>3, <3>4, HandledKept
  <2> QED BY <2>20, <2>21 DEF Story
<1> QED BY <1>6, <1>7

(* A write(2) has a number too.                                            *)
LEMMA SyncStory ==
  ASSUME Types, Owners, Clean => Story, NEW t \in Threads, SyncWrite(t), Clean'
  PROVE  Story'
<1>1. PICK f \in Files, k \in 1..Cells :
        /\ pc[t] = "idle" /\ count < MaxOps /\ count' = count + 1
        /\ disk' = Write(disk, [file |-> f, off |-> k - 1, data |-> <<count + 1>>])
        /\ past' = past \cup {View(disk')}
        /\ IF f \in Captured
           THEN Emit([Event("write", NoOp) EXCEPT !.file = f, !.off = k - 1,
                                                  !.data = <<count + 1>>])
           ELSE UNCHANGED <<ring, lost>>
        /\ UNCHANGED <<iocb, io, hooks, user, sink>>
  BY DEF SyncWrite
<1>2. UNCHANGED <<iocb, io, pc, work, inflight, dios, batch_error, user, sink>>
  BY <1>1 DEF hooks, user
<1>3. \A b \in Cookies : (Sending(b)' <=> Sending(b)) /\ (Flying(b)' <=> Flying(b))
  BY <1>2 DEF Sending, Flying
<1>4. PICK new \in Nat : new = count + 1 /\ count \in Nat /\ count' = new /\ new \in 1..MaxOps
  BY <1>1, Bounds DEF Types, AppTypes
<1>5. PICK ev \in Events : /\ ev.op = "write" /\ ev.cookie = NoOp
                           /\ ev.file = f /\ ev.off = k - 1 /\ ev.data = <<new>>
                           /\ f \in Captured => Emit(ev)
  <2> DEFINE m == [Event("write", NoOp) EXCEPT !.file = f, !.off = k - 1, !.data = <<count + 1>>]
  <2>1. <<count + 1>> \in Seq(Cell) /\ k - 1 \in Nat BY <1>4, Bounds DEF Cell
  <2>2. m \in Events BY <2>1 DEF Event, Events
  <2>3. /\ m.op = "write" /\ m.cookie = NoOp /\ m.file = f /\ m.off = k - 1
        /\ m.data = <<count + 1>>
    BY DEF Event
  <2>4. f \in Captured => Emit(m) BY <1>1
  <2> HIDE DEF m
  <2> QED BY <1>4, <2>2, <2>3, <2>4
<1>6. Clean
  <2>1. CASE f \in Captured BY <1>2, <1>5, <2>1, EmitClean
  <2>2. CASE f \notin Captured BY <1>1, <1>2, <2>2 DEF Clean
  <2> QED BY <2>1, <2>2
<1>7. PICK log, mate, req, content, top, h, own, s :
        Emitted(log, mate, req, content, top) /\ Handled(log, mate, content, top, h, own, s)
  BY <1>6 DEF Story
<1>8. /\ Numbers(mate, req) /\ Entries(log, mate) /\ InOrder(log, mate)
      /\ Once(log) /\ Owed(log) /\ Payload(log, req) /\ Sent(log)
      /\ Effects(log, req, content, top) /\ \A b \in Cookies : Flying(b) => b \in inflight
  BY <1>7 DEF Emitted
<1>9. top \in Nat /\ log \in Seq(Logged) /\ Len(log) \in Nat BY <1>8 DEF Effects, Entries
<1>10. PICK mate2 :
         /\ mate2 \in [Nat -> Cookies \cup {NoOp}] /\ mate2[new] = NoOp
         /\ \A g \in 1..count : g \in 1..new /\ g < new /\ mate2[g] = mate[g]
         /\ \A g \in 1..new : g = new \/ g \in 1..count
         /\ new \in 1..new
  <2> DEFINE m == [mate EXCEPT ![new] = NoOp]
  <2>1. /\ m \in [Nat -> Cookies \cup {NoOp}] /\ m[new] = NoOp
        /\ \A g \in 1..count : g \in 1..new /\ g < new /\ m[g] = mate[g]
        /\ \A g \in 1..new : g = new \/ g \in 1..count
        /\ new \in 1..new
    BY <1>4, <1>8 DEF Numbers
  <2> HIDE DEF m
  <2> QED BY <2>1
<1>11. \A i \in 1..Len(log) :
         /\ log[i].id \in 1..count /\ log[i].id \in 1..new /\ log[i].id < new
         /\ mate2[log[i].id] = mate[log[i].id] /\ mate[log[i].id] = log[i].ev.cookie
         /\ (log[i].ev.op # "write" => log[i].ev.cookie \in Cookies)
         /\ log[i].ev.op # "abort" /\ (log[i].ev.op = "write" <=> log[i].ev.cookie = NoOp)
  BY <1>8, <1>10, EntryCookie DEF Entries
<1>12. Numbers(mate2, req)'
  <2>1. ASSUME NEW g \in 1..new, mate2[g] \in Cookies
        PROVE  req[g] \in Request /\ req[g].id = g /\ req[g].off + req[g].len <= Cells
               /\ iocb[mate2[g]] \in Request /\ g <= iocb[mate2[g]].id
    <3>1. g \in 1..count BY <1>10, <2>1, NoOpApart
    <3> QED BY <1>8, <1>10, <2>1, <3>1 DEF Numbers
  <2>2. ASSUME NEW b \in Cookies, iocb[b] # NoOp
        PROVE  iocb[b].id \in 1..new /\ mate2[iocb[b].id] = b /\ req[iocb[b].id] = iocb[b]
    BY <1>8, <1>10, <2>2 DEF Numbers
  <2> QED BY <1>2, <1>4, <1>8, <1>10, <2>1, <2>2 DEF Numbers
<1>13. Alone => \A u \in Threads : pc'[u] # "idle" => iocb'[work'[u].cookie].id = count'
  BY <1>1, <1>2 DEF Alone
<1>14. CASE f \notin Captured
  <2>1. UNCHANGED <<ring, lost>> BY <1>1, <1>14
  <2>2. View(disk') = View(disk) /\ past \subseteq past' BY <1>1, <1>14, ViewWrite
  <2>3. Entries(log, mate2)' BY <1>4, <1>9, <1>11 DEF Entries
  <2>4. InOrder(log, mate2)'
    <3>1. ASSUME NEW i \in 1..Len(log), NEW g \in 1..new, NEW j \in 1..Len(log),
                 log[i].ev.op = "complete", mate2[g] = log[i].ev.cookie, log[i].id < g,
                 g <= log[j].id
          PROVE  i < j
      <4>1. g # new BY <1>4, <1>11, <3>1
      <4>2. g \in 1..count /\ mate2[g] = mate[g] BY <1>10, <4>1
      <4> QED BY <1>8, <3>1, <4>2 DEF InOrder
    <3> QED BY <1>4, <1>8, <1>13, <3>1 DEF InOrder, Alone
  <2>5. Once(log)' BY <1>2, <1>3, <1>8 DEF Once, Has, Within
  <2>6. Owed(log)' BY <1>2, <1>3, <1>8, <1>11 DEF Owed, Has, Within
  <2>7. Effects(log, req, content, top)' BY <1>8, <2>2, EffectsKept
  <2>8. Sent(log)' BY <1>2, <1>8 DEF Sent, Reached
  <2>9. Emitted(log, mate2, req, content, top)'
    <3>1. \A b \in Cookies : Flying(b)' => b \in inflight' BY <1>2, <1>3, <1>8
    <3> QED BY <1>8, <1>12, <2>3, <2>4, <2>5, <2>6, <2>7, <2>8, <3>1
         DEF Emitted, Payload, Placed, Whole
  <2>10. Handled(log, mate2, content, top, h, own, s)'
    <3>1. top <= top /\ Extends(log, log) BY <1>9, ExtendsSelf
    <3>2. Len(log) = h + Len(ring') /\ \A i \in 1..Len(ring') : ring'[i] = log[h + i].ev
      BY <1>7, <2>1 DEF Handled, Waiting
    <3>3. \A i \in 1..Len(log) : i > Len(log) /\ IsEffect(log[i]) => log[i].num >= top BY <1>9
    <3>4. /\ \A g \in 1..count : mate2[g] = mate[g]
          /\ \A i \in 1..Len(log) : log[i].id \in 1..count
      BY <1>10, <1>11
    <3> QED BY <1>2, <1>7, <1>9, <3>1, <3>2, <3>3, <3>4, HandledKept
  <2> QED BY <2>9, <2>10 DEF Story
<1>15. CASE f \in Captured
  <2>1. ring' = Append(ring, ev) BY <1>2, <1>5, <1>15, EmitClean
  <2>2. PICK e \in Logged : e.ev = ev /\ e.id = new /\ e.num = top
    <3>1. [ev |-> ev, id |-> new, num |-> top] \in Logged BY <1>9 DEF Logged
    <3> QED BY <3>1
  <2>3. PICK x : OneMore(x, log, e) BY <1>9, LogAppend
  <2>4. /\ x[Len(log) + 1] = e /\ Len(x) = Len(log) + 1
        /\ \A i \in 1..Len(x) : i \in 1..Len(log) \/ i = Len(log) + 1
        /\ \A i \in 1..Len(log) : i \in 1..Len(x) /\ x[i] = log[i]
        /\ Extends(x, log) /\ x \in Seq(Logged)
    BY <2>3 DEF OneMore, Extends
  <2>5. PICK content2 :
          content2[top + 1] = View(disk') /\ \A n \in 0..top : content2[n] = content[n]
    BY <1>9, ContentGrows
  <2>6. Entries(x, mate2)'
    <3>1. \A i \in 1..Len(x) :
            /\ x[i].ev.op # "abort" /\ x[i].id \in 1..new /\ mate2[x[i].id] = x[i].ev.cookie
            /\ x[i].ev.op = "write" <=> x[i].ev.cookie = NoOp
      <4> SUFFICES ASSUME NEW i \in 1..Len(x)
                   PROVE  /\ x[i].ev.op # "abort" /\ x[i].id \in 1..new
                          /\ mate2[x[i].id] = x[i].ev.cookie
                          /\ x[i].ev.op = "write" <=> x[i].ev.cookie = NoOp
        OBVIOUS
      <4>1. CASE i \in 1..Len(log) BY <1>11, <2>4, <4>1
      <4>2. CASE i = Len(log) + 1 BY <1>5, <1>10, <2>2, <2>4, <4>2
      <4> QED BY <2>4, <4>1, <4>2
    <3> QED BY <1>4, <2>4, <3>1 DEF Entries
  <2>7. InOrder(x, mate2)'
    <3>1. ASSUME NEW i \in 1..Len(x), NEW g \in 1..new, NEW j \in 1..Len(x),
                 x[i].ev.op = "complete", mate2[g] = x[i].ev.cookie, x[i].id < g,
                 g <= x[j].id
          PROVE  i < j
      <4>1. i \in 1..Len(log) /\ x[i] = log[i] BY <1>5, <2>2, <2>4, <3>1
      <4>2. g \in 1..count /\ mate2[g] = mate[g]
        <5>1. log[i].ev.cookie \in Cookies BY <1>11, <3>1, <4>1
        <5>2. g # new BY <1>10, <3>1, <4>1, <5>1, NoOpApart
        <5> QED BY <1>10, <5>2
      <4>3. CASE j \in 1..Len(log) BY <1>8, <2>4, <3>1, <4>1, <4>2, <4>3 DEF InOrder
      <4>4. CASE j = Len(log) + 1 BY <1>9, <4>1, <4>4
      <4> QED BY <2>4, <4>3, <4>4
    <3>2. ASSUME NEW i \in 1..Len(x), NEW j \in 1..Len(x), i < j
          PROVE  /\ x[i].ev.cookie = x[j].ev.cookie => x[i].id <= x[j].id
                 /\ Alone /\ x[j].ev.op # "complete" => x[i].id <= x[j].id
      <4>1. i \in 1..Len(log) /\ x[i] = log[i] BY <1>9, <2>4, <3>2
      <4>2. CASE j \in 1..Len(log) BY <1>8, <2>4, <3>2, <4>1, <4>2 DEF InOrder
      <4>3. CASE j = Len(log) + 1
        <5>1. x[j].id = new /\ log[i].id < new /\ log[i].id \in 1..count
          BY <1>11, <2>2, <2>4, <4>1, <4>3
        <5> QED BY <1>4, <4>1, <5>1
      <4> QED BY <2>4, <4>2, <4>3
    <3> QED BY <1>4, <1>13, <3>1, <3>2 DEF InOrder, Alone
  <2>8. \A op, g : op # "write" => (Has(x, op, g) <=> Has(log, op, g))
    BY <1>5, <2>2, <2>3, HasAppend
  <2>9. Once(x)'
    <3>1. ASSUME NEW i \in 1..Len(x), NEW j \in 1..Len(x), x[i].id = x[j].id,
                 x[i].ev.op = x[j].ev.op, x[i].ev.op \in {"done", "complete"}
          PROVE  i = j
      <4>1. i \in 1..Len(log) /\ j \in 1..Len(log) BY <1>5, <2>2, <2>4, <3>1
      <4> QED BY <1>8, <2>4, <3>1, <4>1 DEF Once
    <3>2. \A b \in Cookies : /\ Sending(b) => ~Has(x, "done", iocb[b].id)
                             /\ Flying(b) => ~Has(x, "complete", iocb[b].id)
      BY <1>8, <2>8 DEF Once
    <3> QED BY <1>2, <1>3, <3>1, <3>2 DEF Once, Has, Within
  <2>10. Owed(x)'
    <3>1. ASSUME NEW i \in 1..Len(x), x[i].ev.op # "write"
          PROVE  /\ x[i].ev.cookie \in Cookies
                 /\ \/ Has(x, "done", x[i].id)
                    \/ Sending(x[i].ev.cookie) /\ iocb[x[i].ev.cookie].id = x[i].id
                 /\ \/ Has(x, "complete", x[i].id)
                    \/ Flying(x[i].ev.cookie) /\ iocb[x[i].ev.cookie].id = x[i].id
      <4>1. i \in 1..Len(log) /\ x[i] = log[i] BY <1>5, <2>2, <2>4, <3>1
      <4> QED BY <1>8, <1>11, <2>8, <3>1, <4>1 DEF Owed
    <3>2. \A b \in Cookies :
            /\ Sending(b) => Flying(b) \/ Has(x, "complete", iocb[b].id)
            /\ Flying(b) => Sending(b) \/ Has(x, "done", iocb[b].id)
      BY <1>8, <2>8 DEF Owed
    <3> QED BY <1>2, <1>3, <3>1, <3>2 DEF Owed, Has, Within
  <2>11. Payload(x, req) BY <1>5, <1>8, <2>2, <2>3, PayloadOther
  <2>12. Sent(x)'
    <3> SUFFICES ASSUME NEW u \in Threads, pc[u] \in {"issued", "staging"}
                 PROVE  \E m \in 0..Parts(work[u].ib) :
                          (pc[u] = "issued" => m = 0) /\ Reached(x, work[u], m)
      BY <1>2 DEF Sent, Reached
    <3>1. PICK m \in 0..Parts(work[u].ib) :
            (pc[u] = "issued" => m = 0) /\ Reached(log, work[u], m)
      BY <1>8 DEF Sent
    <3>2. Reached(x, work[u], m) BY <1>5, <2>2, <2>3, <3>1, ReachedKept
    <3> QED BY <3>1, <3>2
  <2>13. Effects(x, req, content2, top + 1)'
    <3>1. IsEffect(e) /\ e.ev.op = "write" /\ e.ev.file \in Captured
      BY <1>5, <1>15, <2>2 DEF IsEffect
    <3>2. View(disk') = Changed(View(disk), e, req)
      <4> DEFINE r == [file |-> f, off |-> k - 1, data |-> <<count + 1>>]
      <4>1. Change(e, req) = r BY <1>4, <1>5, <2>2 DEF Change
      <4>2. View(disk') = Write(View(disk), r) BY <1>1, <1>15, ViewWrite
      <4> QED BY <3>1, <4>1, <4>2 DEF Changed
    <3>3. e.ev.op # "complete" BY <3>1
    <3> QED BY <1>1, <1>8, <2>2, <2>3, <2>5, <3>1, <3>2, <3>3, EffectAppend
  <2>14. Emitted(x, mate2, req, content2, top + 1)'
    <3>1. \A b \in Cookies : Flying(b)' => b \in inflight' BY <1>2, <1>3, <1>8
    <3> QED BY <1>12, <2>6, <2>7, <2>9, <2>10, <2>11, <2>12, <2>13, <3>1
         DEF Emitted, Payload, Placed, Whole
  <2>15. Handled(x, mate2, content2, top + 1, h, own, s)'
    <3>1. /\ top + 1 \in Nat /\ top <= top + 1 BY <1>9
    <3>2. Len(x) = h + Len(ring') /\ \A i \in 1..Len(ring') : ring'[i] = x[h + i].ev
      BY <1>7, <2>1, <2>2, <2>3, RingNext DEF Handled
    <3>3. \A i \in 1..Len(x) : i > Len(log) /\ IsEffect(x[i]) => x[i].num >= top
      BY <1>9, <2>2, <2>4
    <3>4. /\ \A g \in 1..count : mate2[g] = mate[g]
          /\ \A i \in 1..Len(log) : log[i].id \in 1..count
      BY <1>10, <1>11
    <3> QED BY <1>2, <1>7, <1>9, <2>4, <2>5, <3>1, <3>2, <3>3, <3>4, HandledKept
  <2> QED BY <2>14, <2>15 DEF Story
<1> QED BY <1>14, <1>15

-----------------------------------------------------------------------------
(* A function defined step by step.                                        *)

Chained(f, a, m, F) == f = [n \in 0..m |-> IF n = 0 THEN a ELSE F[<<f[n - 1], n>>]]

LEMMA ChainExists ==
  ASSUME NEW S, NEW a \in S, NEW m \in Nat, NEW F, F \in [S \X (1..m) -> S]
  PROVE  \E f \in [0..m -> S] : Chained(f, a, m, F)
<1> DEFINE
  Upto(f, k) == f \in [0..k -> S] /\ Chained(f, a, k, F)
  T == {k \in Nat : k <= m => \E f : Upto(f, k)}
<1>1. 0 \in T
  <2> DEFINE f == [n \in 0..0 |-> a]
  <2>1. Upto(f, 0) BY DEF Chained
  <2> QED BY <2>1
<1>2. ASSUME NEW k \in T PROVE k + 1 \in T
  <2>1. k \in Nat OBVIOUS
  <2> SUFFICES ASSUME k + 1 <= m PROVE \E f : Upto(f, k + 1) BY <2>1
  <2>2. PICK f : Upto(f, k) BY <2>1
  <2>3. k \in 0..k /\ f[k] \in S /\ k + 1 \in 1..m BY <2>1, <2>2
  <2>4. PICK v \in S : v = F[<<f[k], k + 1>>] BY <2>3
  <2> DEFINE g == [n \in 0..(k + 1) |-> IF n = k + 1 THEN v ELSE f[n]]
  <2>5. (\A n \in 0..k : g[n] = f[n]) /\ g[k + 1] = v BY <2>1
  <2>6. g \in [0..(k + 1) -> S]
    <3>1. \A n \in 0..(k + 1) : n # k + 1 => n \in 0..k BY <2>1
    <3>2. \A n \in 0..k : f[n] \in S BY <2>2
    <3> QED BY <3>1, <3>2
  <2>7. ASSUME NEW n \in 0..(k + 1)
        PROVE  g[n] = IF n = 0 THEN a ELSE F[<<g[n - 1], n>>]
    <3>1. CASE n = k + 1
      <4>1. n # 0 /\ n - 1 = k BY <2>1, <3>1
      <4> HIDE DEF g
      <4> QED BY <2>3, <2>4, <2>5, <3>1, <4>1
    <3>2. CASE n # k + 1
      <4>1. n \in 0..k /\ (n # 0 => n - 1 \in 0..k) BY <2>1, <3>2
      <4>2. f[n] = IF n = 0 THEN a ELSE F[<<f[n - 1], n>>] BY <2>2, <4>1 DEF Chained
      <4> HIDE DEF g
      <4> QED BY <2>5, <4>1, <4>2
    <3> QED BY <3>1, <3>2
  <2>8. g = [n \in 0..(k + 1) |-> g[n]] OBVIOUS
  <2> HIDE DEF g
  <2>9. Chained(g, a, k + 1, F) BY <2>7, <2>8 DEF Chained
  <2> QED BY <2>6, <2>9
<1> HIDE DEF T
<1>3. T \in SUBSET Nat BY DEF T
<1>4. T = Nat BY <1>1, <1>2, <1>3, SetInduction
<1>5. \E f : Upto(f, m) BY <1>4 DEF T
<1> QED BY <1>5

-----------------------------------------------------------------------------
(* Records that are written, one after the other.                          *)

Record == [file : Files \cup {NoOp}, off : Nat, data : Seq(Cell)]
Contents == [Captured -> Seq(Cell)]
Sized == [Captured -> [1..Cells -> Cell]]

LEMMA SizedContents ==
  /\ Sized \subseteq Contents
  /\ \A files \in Sized, f \in Captured : files[f] \in [1..Cells -> Cell] /\ Len(files[f]) = Cells
<1>1. \A x \in [1..Cells -> Cell] : x \in Seq(Cell) /\ Len(x) = Cells BY Bounds
<1> QED BY <1>1 DEF Sized, Contents

LEMMA OverwriteTyped ==
  ASSUME NEW x \in Seq(Cell), NEW o \in Nat, NEW y \in Seq(Cell)
  PROVE  Overwrite(x, o, y) \in Seq(Cell)
<1> DEFINE n == Larger(Len(x), o + Len(y))
<1>1. n \in Nat BY DEF Larger
<1>2. Overwrite(x, o, y) \in [1..n -> Cell]
  <2> SUFFICES ASSUME NEW k \in 1..n
               PROVE  (IF k > o /\ k <= o + Len(y) THEN y[k - o]
                       ELSE IF k <= Len(x) THEN x[k] ELSE Zero) \in Cell
    BY DEF Overwrite
  <2>1. k > o /\ k <= o + Len(y) => y[k - o] \in Cell BY <1>1
  <2>2. k <= Len(x) => x[k] \in Cell BY <1>1
  <2> QED BY <2>1, <2>2 DEF Cell
<1> QED BY <1>1, <1>2

LEMMA WriteContents ==
  ASSUME NEW files \in Contents, NEW r \in Record
  PROVE  Write(files, r) \in Contents
<1>1. r.off \in Nat /\ r.data \in Seq(Cell) BY DEF Record
<1>2. \A f \in Captured : Overwrite(files[f], r.off, r.data) \in Seq(Cell)
  BY <1>1, OverwriteTyped DEF Contents
<1> QED BY <1>2 DEF Write, Contents

(* What a function that applies them step by step ends with.               *)
InTurnBy(f, files, recs) ==
  f[0] = files /\ \A n \in 1..Len(recs) : f[n] = Write(f[n - 1], recs[n])

LEMMA WrittenSteps ==
  ASSUME NEW files \in Contents, NEW recs \in Seq(Record)
  PROVE  \E f \in [0..Len(recs) -> Contents] :
           InTurnBy(f, files, recs) /\ Written(files, recs) = f[Len(recs)]
<1> DEFINE m == Len(recs)
           F == [p \in Contents \X (1..m) |-> Write(p[1], recs[p[2]])]
           Def(f) == f = [n \in 0..m |-> IF n = 0 THEN files ELSE Write(f[n - 1], recs[n])]
           Good(f) == f \in [0..m -> Contents] /\ InTurnBy(f, files, recs)
<1>1. m \in Nat /\ \A n \in 1..m : recs[n] \in Record OBVIOUS
<1>2. F \in [Contents \X (1..m) -> Contents]
  <2>1. \A p \in Contents \X (1..m) : p[1] \in Contents /\ recs[p[2]] \in Record BY <1>1
  <2>2. \A p \in Contents \X (1..m) : Write(p[1], recs[p[2]]) \in Contents
    BY <2>1, WriteContents
  <2> QED BY <2>2
<1>3. \A x \in Contents, n \in 1..m : F[<<x, n>>] = Write(x, recs[n]) OBVIOUS
<1> HIDE DEF F
<1>4. PICK f \in [0..m -> Contents] : Chained(f, files, m, F) BY <1>1, <1>2, ChainExists
<1>5. \A n \in 1..m : n - 1 \in 0..m /\ n # 0 /\ n \in 0..m BY <1>1
<1>6. ASSUME NEW n \in 0..m
      PROVE  f[n] = IF n = 0 THEN files ELSE Write(f[n - 1], recs[n])
  <2>1. f[n] = IF n = 0 THEN files ELSE F[<<f[n - 1], n>>] BY <1>4 DEF Chained
  <2>2. n # 0 => n \in 1..m /\ f[n - 1] \in Contents BY <1>1, <1>4
  <2> QED BY <1>3, <2>1, <2>2
<1>7. Def(f)
  <2>1. f = [n \in 0..m |-> f[n]] BY <1>4
  <2> QED BY <1>6, <2>1
<1>8. Def(CHOOSE g : Def(g))
  <2> HIDE DEF Def
  <2> QED BY <1>7
<1> DEFINE g == CHOOSE g : Def(g)
<1>9. Written(files, recs) = g[m] BY DEF Written
<1> HIDE DEF g
<1>10. Def(g) BY <1>8 DEF g
<1>11. ASSUME NEW n \in 0..m
       PROVE g[n] = IF n = 0 THEN files ELSE Write(g[n - 1], recs[n])
  BY <1>10
<1> DEFINE T == {n \in Nat : n <= m => g[n] = f[n]}
<1>12. 0 \in T BY <1>1, <1>6, <1>11
<1>13. ASSUME NEW n \in T PROVE n + 1 \in T
  <2> SUFFICES ASSUME n + 1 <= m PROVE g[n + 1] = f[n + 1] OBVIOUS
  <2>1. n \in Nat /\ n + 1 \in 0..m /\ n + 1 # 0 /\ (n + 1) - 1 = n /\ g[n] = f[n] BY <1>1
  <2> HIDE DEF T, Def
  <2> QED BY <1>6, <1>11, <2>1
<1>14. T = Nat
  <2>1. T \in SUBSET Nat OBVIOUS
  <2> HIDE DEF T
  <2> QED BY <1>12, <1>13, <2>1, SetInduction
<1>15. g[m] = f[m] BY <1>1, <1>14
<1>16. InTurnBy(f, files, recs)
  <2>1. 0 \in 0..m BY <1>1
  <2>2. f[0] = files BY <1>6, <2>1
  <2>3. \A n \in 1..m : f[n] = Write(f[n - 1], recs[n]) BY <1>5, <1>6
  <2> QED BY <2>2, <2>3 DEF InTurnBy
<1> QED BY <1>4, <1>9, <1>15, <1>16

LEMMA WrittenBy ==
  ASSUME NEW files \in Contents, NEW recs \in Seq(Record), NEW f, InTurnBy(f, files, recs)
  PROVE  Written(files, recs) = f[Len(recs)] /\ Written(files, recs) \in Contents
<1>1. PICK g \in [0..Len(recs) -> Contents] :
        InTurnBy(g, files, recs) /\ Written(files, recs) = g[Len(recs)]
  BY WrittenSteps
<1> DEFINE m == Len(recs)
           T == {n \in Nat : n <= m => g[n] = f[n]}
<1>2. m \in Nat OBVIOUS
<1>3. 0 \in T BY <1>1 DEF InTurnBy
<1>4. ASSUME NEW n \in T PROVE n + 1 \in T
  <2> SUFFICES ASSUME n + 1 <= m PROVE g[n + 1] = f[n + 1] OBVIOUS
  <2>1. n \in Nat /\ n + 1 \in 1..m /\ (n + 1) - 1 = n /\ g[n] = f[n] BY <1>2
  <2> HIDE DEF T
  <2> QED BY <1>1, <2>1 DEF InTurnBy
<1>5. T = Nat
  <2>1. T \in SUBSET Nat OBVIOUS
  <2> HIDE DEF T
  <2> QED BY <1>3, <1>4, <2>1, SetInduction
<1>6. g[m] = f[m] BY <1>2, <1>5
<1> QED BY <1>1, <1>2, <1>6

LEMMA WrittenNone ==
  ASSUME NEW files \in Contents
  PROVE  Written(files, <<>>) = files
<1>1. <<>> \in Seq(Record) /\ Len(<<>>) = 0 OBVIOUS
<1>2. InTurnBy([n \in {0} |-> files], files, <<>>) BY <1>1 DEF InTurnBy
<1>3. Written(files, <<>>) = [n \in {0} |-> files][Len(<<>>)] BY <1>1, <1>2, WrittenBy
<1> QED BY <1>1, <1>3

LEMMA WrittenMore ==
  ASSUME NEW files \in Contents, NEW recs \in Seq(Record), NEW r \in Record
  PROVE  Written(files, Append(recs, r)) = Write(Written(files, recs), r)
<1>1. PICK x \in Seq(Record) : x = Append(recs, r)
  <2>1. Append(recs, r) \in Seq(Record) OBVIOUS
  <2> QED BY <2>1
<1>2. /\ Len(recs) \in Nat /\ Len(x) = Len(recs) + 1 /\ x[Len(recs) + 1] = r
      /\ \A k \in 1..Len(recs) : x[k] = recs[k]
  BY <1>1
<1>3. PICK f : InTurnBy(f, files, recs) /\ Written(files, recs) = f[Len(recs)] BY WrittenSteps
<1> DEFINE m == Len(recs)
<1> HIDE DEF m
<1>4. PICK g : (\A n \in 0..m : g[n] = f[n]) /\ g[m + 1] = Write(f[m], r)
  <2> DEFINE h == [n \in 0..(m + 1) |-> IF n = m + 1 THEN Write(f[m], r) ELSE f[n]]
  <2>1. (\A n \in 0..m : h[n] = f[n]) /\ h[m + 1] = Write(f[m], r) BY <1>2 DEF m
  <2> HIDE DEF h
  <2> QED BY <2>1
<1>5. InTurnBy(g, files, x)
  <2>1. m \in Nat /\ 0 \in 0..m BY <1>2 DEF m
  <2>2. g[0] = files BY <1>3, <1>4, <2>1 DEF InTurnBy
  <2>3. ASSUME NEW n \in 1..Len(x) PROVE g[n] = Write(g[n - 1], x[n])
    <3>1. CASE n = m + 1
      <4>1. n - 1 = m /\ m \in 0..m BY <2>1, <3>1
      <4> QED BY <1>2, <1>4, <3>1, <4>1 DEF m
    <3>2. CASE n # m + 1
      <4>1. n \in 1..m /\ n \in 0..m /\ n - 1 \in 0..m BY <1>2, <2>1, <3>2 DEF m
      <4>2. f[n] = Write(f[n - 1], recs[n]) BY <1>3, <4>1 DEF InTurnBy, m
      <4>3. x[n] = recs[n] BY <1>2, <4>1 DEF m
      <4> QED BY <1>4, <4>1, <4>2, <4>3
    <3> QED BY <3>1, <3>2
  <2> QED BY <2>2, <2>3 DEF InTurnBy
<1>6. Written(files, x) = g[Len(x)] BY <1>5, WrittenBy
<1> QED BY <1>1, <1>2, <1>3, <1>4, <1>6 DEF m

LEMMA WrittenBoth ==
  ASSUME NEW files \in Contents, NEW b \in Seq(Record), NEW c \in Seq(Record)
  PROVE  Written(files, b \o c) = Written(Written(files, b), c)
<1>1. PICK x \in Seq(Record) : x = b \o c
  <2>1. b \o c \in Seq(Record) OBVIOUS
  <2> QED BY <2>1
<1>2. PICK m \in Nat, l \in Nat : m = Len(b) /\ l = Len(c) OBVIOUS
<1>3. /\ Len(x) = m + l /\ \A k \in 1..m : x[k] = b[k]
      /\ \A k \in 1..l : x[m + k] = c[k]
  BY <1>1, <1>2
<1>4. PICK f : InTurnBy(f, files, b) /\ Written(files, b) = f[m] BY <1>2, WrittenSteps
<1>5. Written(files, b) \in Contents BY <1>4, WrittenBy
<1>6. PICK g : InTurnBy(g, f[m], c) /\ Written(f[m], c) = g[l] BY <1>2, <1>4, <1>5, WrittenSteps
<1>7. PICK h : (\A n \in 0..m : h[n] = f[n]) /\ \A n \in 0..l : h[m + n] = g[n]
  <2> DEFINE q == [n \in 0..(m + l) |-> IF n <= m THEN f[n] ELSE g[n - m]]
  <2>1. \A n \in 0..m : q[n] = f[n] OBVIOUS
  <2>2. ASSUME NEW n \in 0..l PROVE q[m + n] = g[n]
    <3>1. m + n \in 0..(m + l) /\ (m + n) - m = n OBVIOUS
    <3>2. g[0] = f[m] BY <1>6 DEF InTurnBy
    <3>3. CASE n = 0 BY <3>1, <3>2, <3>3
    <3>4. CASE n # 0
      <4>1. ~(m + n <= m) BY <3>4
      <4> QED BY <3>1, <4>1
    <3> QED BY <3>3, <3>4
  <2> HIDE DEF q
  <2> QED BY <2>1, <2>2
<1>8. InTurnBy(h, files, x)
  <2>1. h[0] = files
    <3>1. 0 \in 0..m OBVIOUS
    <3> QED BY <1>4, <1>7, <3>1 DEF InTurnBy
  <2>2. ASSUME NEW n \in 1..Len(x) PROVE h[n] = Write(h[n - 1], x[n])
    <3>1. CASE n <= m
      <4>1. n \in 1..m /\ n \in 0..m /\ n - 1 \in 0..m BY <3>1
      <4>2. f[n] = Write(f[n - 1], b[n]) BY <1>2, <1>4, <4>1 DEF InTurnBy
      <4> QED BY <1>3, <1>7, <4>1, <4>2
    <3>2. CASE ~(n <= m)
      <4>1. PICK k \in 1..l : n = m + k
        <5>1. n - m \in 1..l /\ n = m + (n - m) BY <1>3, <3>2
        <5> QED BY <5>1
      <4>2. k \in 0..l /\ k - 1 \in 0..l /\ n - 1 = m + (k - 1) BY <4>1
      <4>3. g[k] = Write(g[k - 1], c[k]) BY <1>2, <1>6, <4>1 DEF InTurnBy
      <4> QED BY <1>3, <1>7, <4>1, <4>2, <4>3
    <3> QED BY <3>1, <3>2
  <2> QED BY <2>1, <2>2 DEF InTurnBy
<1>9. Written(files, x) = h[m + l] BY <1>3, <1>8, WrittenBy
<1>10. l \in 0..l OBVIOUS
<1> QED BY <1>1, <1>4, <1>6, <1>7, <1>9, <1>10

-----------------------------------------------------------------------------
(* What an entry is committed as, segment by segment.                      *)

SegmentType == [off : Nat, data : Seq(Cell), truncated : BOOLEAN]
Takes == [left : Nat, records : Seq(Record), cut : BOOLEAN]
Take(e, out, s) ==
  LET k == Least(Len(s.data), out.left)
  IN IF k = 0 THEN out
     ELSE [left |-> out.left - k, cut |-> out.cut \/ s.truncated,
           records |-> Append(out.records, [file |-> e.file, off |-> s.off,
                                            data |-> SubSeq(s.data, 1, k)])]
TakenBy(f, e) ==
  /\ f[0] = [left |-> e.res, records |-> <<>>, cut |-> FALSE]
  /\ \A n \in 1..Len(e.segs) : f[n] = Take(e, f[n - 1], e.segs[n])

LEMMA TakeTyped ==
  ASSUME NEW e \in Entry, NEW out \in Takes, NEW s \in SegmentType
  PROVE  Take(e, out, s) \in Takes
<1> DEFINE k == Least(Len(s.data), out.left)
           r == [file |-> e.file, off |-> s.off, data |-> SubSeq(s.data, 1, k)]
<1>1. /\ e.file \in Files \cup {NoOp} /\ s.off \in Nat /\ s.data \in Seq(Cell)
      /\ s.truncated \in BOOLEAN /\ out.left \in Nat /\ out.records \in Seq(Record)
      /\ out.cut \in BOOLEAN
  BY DEF Entry, SegmentType, Takes
<1>2. k \in Nat /\ k <= out.left /\ k <= Len(s.data) /\ out.left - k \in Nat
  BY <1>1 DEF Least
<1> HIDE DEF k
<1>3. SubSeq(s.data, 1, k) \in Seq(Cell) BY <1>1, <1>2
<1>4. r \in Record BY <1>1, <1>3 DEF Record
<1> HIDE DEF r
<1>5. Append(out.records, r) \in Seq(Record) BY <1>1, <1>4
<1>6. (out.cut \/ s.truncated) \in BOOLEAN OBVIOUS
<1>7. [left |-> out.left - k, cut |-> out.cut \/ s.truncated,
       records |-> Append(out.records, r)] \in Takes
  BY <1>2, <1>5, <1>6 DEF Takes
<1>8. Take(e, out, s) = IF k = 0 THEN out
                        ELSE [left |-> out.left - k, cut |-> out.cut \/ s.truncated,
                              records |-> Append(out.records, r)]
  BY DEF Take, k, r
<1> QED BY <1>7, <1>8

LEMMA TakenSteps ==
  ASSUME NEW e \in Entry
  PROVE  \E f \in [0..Len(e.segs) -> Takes] : TakenBy(f, e) /\ Taken(e) = f[Len(e.segs)]
<1> DEFINE m == Len(e.segs)
           a == [left |-> e.res, records |-> <<>>, cut |-> FALSE]
           F == [p \in Takes \X (1..m) |-> Take(e, p[1], e.segs[p[2]])]
           Def(f) == f = [n \in 0..m |-> IF n = 0 THEN a ELSE Take(e, f[n - 1], e.segs[n])]
<1>1. e.segs \in Seq(SegmentType) /\ e.res \in Nat BY DEF Entry, Segs, SegmentType
<1>2. m \in Nat /\ \A n \in 1..m : e.segs[n] \in SegmentType BY <1>1
<1>3. a \in Takes BY <1>1 DEF Takes
<1>4. F \in [Takes \X (1..m) -> Takes]
  <2>1. \A p \in Takes \X (1..m) : p[1] \in Takes /\ e.segs[p[2]] \in SegmentType BY <1>2
  <2>2. \A p \in Takes \X (1..m) : Take(e, p[1], e.segs[p[2]]) \in Takes BY <2>1, TakeTyped
  <2> QED BY <2>2
<1>5. \A x \in Takes, n \in 1..m : F[<<x, n>>] = Take(e, x, e.segs[n]) OBVIOUS
<1> HIDE DEF F, a
<1>6. \E f \in [0..m -> Takes] : Def(f)
  <2>1. PICK f \in [0..m -> Takes] : Chained(f, a, m, F) BY <1>2, <1>3, <1>4, ChainExists
  <2>2. ASSUME NEW n \in 0..m
        PROVE  f[n] = IF n = 0 THEN a ELSE Take(e, f[n - 1], e.segs[n])
    <3>1. f[n] = IF n = 0 THEN a ELSE F[<<f[n - 1], n>>] BY <2>1 DEF Chained
    <3>2. n # 0 => n \in 1..m /\ f[n - 1] \in Takes BY <1>2, <2>1
    <3> QED BY <1>5, <3>1, <3>2
  <2>3. f = [n \in 0..m |-> f[n]] BY <2>1
  <2> QED BY <2>2, <2>3
<1>7. Def(CHOOSE g : Def(g))
  <2> HIDE DEF Def
  <2> QED BY <1>6
<1> DEFINE g == CHOOSE g : Def(g)
<1>8. Taken(e) = g[m]
  <2> DEFINE Raw(f) == f = [n \in 0..m |->
        IF n = 0 THEN [left |-> e.res, records |-> <<>>, cut |-> FALSE]
        ELSE LET out == f[n - 1]
                 s   == e.segs[n]
                 k   == Least(Len(s.data), out.left)
             IN IF k = 0 THEN out
                ELSE [left |-> out.left - k, cut |-> out.cut \/ s.truncated,
                      records |-> Append(out.records, [file |-> e.file, off |-> s.off,
                                                       data |-> SubSeq(s.data, 1, k)])]]
  <2>1. Taken(e) = (CHOOSE f : Raw(f))[m] BY DEF Taken
  <2>2. \A f : Raw(f) <=> Def(f) BY DEF Take, a
  <2>3. (CHOOSE f : Raw(f)) = (CHOOSE f : Def(f))
    <3> HIDE DEF Raw, Def
    <3> QED BY <2>2, Zenon
  <2> QED BY <2>1, <2>3
<1> HIDE DEF g
<1>9. Def(g) BY <1>7 DEF g
<1>10. ASSUME NEW n \in 0..m
       PROVE g[n] = IF n = 0 THEN a ELSE Take(e, g[n - 1], e.segs[n])
  BY <1>9
<1>11. TakenBy(g, e)
  <2>1. 0 \in 0..m /\ \A n \in 1..m : n \in 0..m /\ n # 0 BY <1>2
  <2>2. g[0] = a BY <1>10, <2>1
  <2>3. \A n \in 1..m : g[n] = Take(e, g[n - 1], e.segs[n]) BY <1>10, <2>1
  <2> QED BY <2>2, <2>3 DEF TakenBy, a
<1>12. g \in [0..m -> Takes]
  <2> DEFINE T == {n \in Nat : n <= m => g[n] \in Takes}
  <2>1. 0 \in T
    <3>1. g[0] = a BY <1>11 DEF TakenBy, a
    <3> QED BY <1>3, <3>1
  <2>2. ASSUME NEW n \in T PROVE n + 1 \in T
    <3> SUFFICES ASSUME n + 1 <= m PROVE g[n + 1] \in Takes OBVIOUS
    <3>1. n \in Nat /\ n + 1 \in 1..m /\ (n + 1) - 1 = n /\ g[n] \in Takes BY <1>2
    <3>2. g[n + 1] = Take(e, g[n], e.segs[n + 1]) BY <1>11, <3>1 DEF TakenBy
    <3> QED BY <1>2, <3>1, <3>2, TakeTyped
  <2>3. T = Nat
    <3>1. T \in SUBSET Nat OBVIOUS
    <3> HIDE DEF T
    <3> QED BY <2>1, <2>2, <3>1, SetInduction
  <2>4. \A n \in 0..m : g[n] \in Takes BY <1>2, <2>3
  <2>5. g = [n \in 0..m |-> g[n]] BY <1>9
  <2> QED BY <2>4, <2>5
<1> QED BY <1>8, <1>11, <1>12

(* The number of cells that were staged.                                   *)
StagedBy(f, segs) ==
  f[0] = 0 /\ \A n \in 1..Len(segs) : f[n] = f[n - 1] + Len(segs[n].data)

LEMMA StagedSteps ==
  ASSUME NEW segs \in Segs
  PROVE  \E f \in [0..Len(segs) -> Nat] : StagedBy(f, segs) /\ Staged(segs) = f[Len(segs)]
<1> DEFINE m == Len(segs)
           F == [p \in Nat \X (1..m) |-> p[1] + Len(segs[p[2]].data)]
           Def(f) == f = [n \in 0..m |-> IF n = 0 THEN 0 ELSE f[n - 1] + Len(segs[n].data)]
<1>1. segs \in Seq(SegmentType) BY DEF Segs, SegmentType
<1>2. m \in Nat /\ \A n \in 1..m : segs[n].data \in Seq(Cell) /\ Len(segs[n].data) \in Nat
  <2>1. m \in Nat /\ \A n \in 1..m : segs[n] \in SegmentType BY <1>1
  <2>2. \A s \in SegmentType : s.data \in Seq(Cell) /\ Len(s.data) \in Nat BY DEF SegmentType
  <2> QED BY <2>1, <2>2, Zenon
<1>3. F \in [Nat \X (1..m) -> Nat]
  <2>1. \A p \in Nat \X (1..m) : p[1] \in Nat /\ Len(segs[p[2]].data) \in Nat BY <1>2
  <2>2. \A p \in Nat \X (1..m) : p[1] + Len(segs[p[2]].data) \in Nat BY <2>1
  <2> QED BY <2>2
<1>4. \A x \in Nat, n \in 1..m : F[<<x, n>>] = x + Len(segs[n].data) OBVIOUS
<1> HIDE DEF F
<1>5. \E f \in [0..m -> Nat] : Def(f)
  <2>1. PICK f \in [0..m -> Nat] : Chained(f, 0, m, F) BY <1>2, <1>3, ChainExists
  <2>2. ASSUME NEW n \in 0..m
        PROVE  f[n] = IF n = 0 THEN 0 ELSE f[n - 1] + Len(segs[n].data)
    <3>1. f[n] = IF n = 0 THEN 0 ELSE F[<<f[n - 1], n>>] BY <2>1 DEF Chained
    <3>2. n # 0 => n \in 1..m /\ f[n - 1] \in Nat
      <4>1. n # 0 => n \in 1..m /\ n - 1 \in 0..m BY <1>2
      <4> QED BY <2>1, <4>1
    <3> QED BY <1>4, <3>1, <3>2
  <2>3. f = [n \in 0..m |-> f[n]] BY <2>1
  <2> QED BY <2>2, <2>3
<1>6. Def(CHOOSE g : Def(g))
  <2> HIDE DEF Def
  <2> QED BY <1>5
<1> DEFINE g == CHOOSE g : Def(g)
<1>7. Staged(segs) = g[m] BY DEF Staged
<1> HIDE DEF g
<1>8. Def(g) BY <1>6 DEF g
<1>9. ASSUME NEW n \in 0..m
      PROVE g[n] = IF n = 0 THEN 0 ELSE g[n - 1] + Len(segs[n].data)
  BY <1>8
<1>10. StagedBy(g, segs)
  <2>1. 0 \in 0..m /\ \A n \in 1..m : n \in 0..m /\ n # 0 BY <1>2
  <2> HIDE DEF Def
  <2> QED BY <1>9, <2>1 DEF StagedBy
<1>11. g \in [0..m -> Nat]
  <2> DEFINE T == {n \in Nat : n <= m => g[n] \in Nat}
  <2>1. 0 \in T BY <1>10 DEF StagedBy
  <2>2. ASSUME NEW n \in T PROVE n + 1 \in T
    <3> SUFFICES ASSUME n + 1 <= m PROVE g[n + 1] \in Nat OBVIOUS
    <3>1. n \in Nat /\ n + 1 \in 1..m /\ (n + 1) - 1 = n /\ g[n] \in Nat BY <1>2
    <3>2. g[n + 1] = g[n] + Len(segs[n + 1].data) BY <1>10, <3>1 DEF StagedBy
    <3> QED BY <1>2, <3>1, <3>2
  <2>3. T = Nat
    <3>1. T \in SUBSET Nat OBVIOUS
    <3> HIDE DEF T
    <3> QED BY <2>1, <2>2, <3>1, SetInduction
  <2>4. \A n \in 0..m : g[n] \in Nat BY <1>2, <2>3
  <2>5. g = [n \in 0..m |-> g[n]] BY <1>8
  <2> QED BY <2>4, <2>5
<1> QED BY <1>7, <1>10, <1>11

(* The records of the entries that are committed.                          *)
BatchedBy(f, d, m) ==
  f[0] = batch /\ \A n \in 1..m : f[n] = f[n - 1] \o Committed(d, n)

LEMMA BatchedSteps ==
  ASSUME NEW d, NEW m \in Nat, batch \in Seq(Record),
         \A n \in 1..m : Committed(d, n) \in Seq(Record)
  PROVE  \E f \in [0..m -> Seq(Record)] : BatchedBy(f, d, m) /\ Batched(d, m) = f[m]
<1> DEFINE S == Seq(Record)
           F == [p \in S \X (1..m) |-> p[1] \o Committed(d, p[2])]
           Def(f) == f = [n \in 0..m |-> IF n = 0 THEN batch ELSE f[n - 1] \o Committed(d, n)]
<1>1. \A x \in S, y \in S : x \o y \in S OBVIOUS
<1>2. batch \in S /\ \A n \in 1..m : Committed(d, n) \in S OBVIOUS
<1> HIDE DEF S
<1>3. F \in [S \X (1..m) -> S]
  <2>1. \A p \in S \X (1..m) : p[1] \in S /\ Committed(d, p[2]) \in S BY <1>2
  <2>2. \A p \in S \X (1..m) : p[1] \o Committed(d, p[2]) \in S BY <1>1, <2>1
  <2> QED BY <2>2
<1>4. \A x \in S, n \in 1..m : F[<<x, n>>] = x \o Committed(d, n) OBVIOUS
<1> HIDE DEF F
<1>5. \E f \in [0..m -> S] : Def(f)
  <2>1. PICK f \in [0..m -> S] : Chained(f, batch, m, F) BY <1>2, <1>3, ChainExists
  <2>2. ASSUME NEW n \in 0..m
        PROVE  f[n] = IF n = 0 THEN batch ELSE f[n - 1] \o Committed(d, n)
    <3>1. f[n] = IF n = 0 THEN batch ELSE F[<<f[n - 1], n>>] BY <2>1 DEF Chained
    <3>2. n # 0 => n \in 1..m /\ f[n - 1] \in S BY <2>1
    <3> QED BY <1>4, <3>1, <3>2
  <2>3. f = [n \in 0..m |-> f[n]] BY <2>1
  <2> QED BY <2>2, <2>3
<1>6. Def(CHOOSE g : Def(g))
  <2> HIDE DEF Def
  <2> QED BY <1>5
<1> DEFINE g == CHOOSE g : Def(g)
<1>7. Batched(d, m) = g[m] BY DEF Batched
<1> HIDE DEF g
<1>8. Def(g) BY <1>6 DEF g
<1>9. ASSUME NEW n \in 0..m
      PROVE g[n] = IF n = 0 THEN batch ELSE g[n - 1] \o Committed(d, n)
  BY <1>8
<1>10. BatchedBy(g, d, m)
  <2>1. 0 \in 0..m /\ \A n \in 1..m : n \in 0..m /\ n # 0 OBVIOUS
  <2> HIDE DEF Def
  <2> QED BY <1>9, <2>1 DEF BatchedBy
<1>11. g \in [0..m -> S]
  <2> DEFINE T == {n \in Nat : n <= m => g[n] \in S}
  <2>1. 0 \in T BY <1>2, <1>10 DEF BatchedBy
  <2>2. ASSUME NEW n \in T PROVE n + 1 \in T
    <3> SUFFICES ASSUME n + 1 <= m PROVE g[n + 1] \in S OBVIOUS
    <3>1. n \in Nat /\ n + 1 \in 1..m /\ (n + 1) - 1 = n /\ g[n] \in S OBVIOUS
    <3>2. g[n + 1] = g[n] \o Committed(d, n + 1) BY <1>10, <3>1 DEF BatchedBy
    <3> QED BY <1>1, <1>2, <3>1, <3>2
  <2>3. T = Nat
    <3>1. T \in SUBSET Nat OBVIOUS
    <3> HIDE DEF T
    <3> QED BY <2>1, <2>2, <3>1, SetInduction
  <2>4. \A n \in 0..m : g[n] \in S BY <2>3
  <2>5. g = [n \in 0..m |-> g[n]] BY <1>8
  <2> QED BY <2>4, <2>5
<1> QED BY <1>7, <1>10, <1>11 DEF S

LEMMA RecordsTyped ==
  ASSUME NEW e \in Entry
  PROVE  Records(e) \in Seq(Record) /\ Taken(e) \in Takes
<1>1. Taken(e) \in Takes
  <2>1. PICK f \in [0..Len(e.segs) -> Takes] : Taken(e) = f[Len(e.segs)] BY TakenSteps
  <2>2. Len(e.segs) \in Nat BY DEF Entry, Segs
  <2> QED BY <2>1, <2>2
<1>2. Taken(e).records \in Seq(Record) BY <1>1 DEF Takes
<1>3. <<>> \in Seq(Record) OBVIOUS
<1> QED BY <1>1, <1>2, <1>3 DEF Records

-----------------------------------------------------------------------------
(* A payload that is all there is committed as the write it was.           *)

LEMMA RepeatParts ==
  ASSUME NEW v \in Cell, NEW n \in Nat
  PROVE  /\ Repeat(v, n) \in Seq(Cell) /\ Len(Repeat(v, n)) = n
         /\ \A k \in 1..n : Repeat(v, n)[k] = v
         /\ \A k \in 0..n : SubSeq(Repeat(v, n), 1, k) = Repeat(v, k)
<1>1. Repeat(v, n) \in Seq(Cell) /\ Len(Repeat(v, n)) = n /\ \A k \in 1..n : Repeat(v, n)[k] = v
  BY DEF Repeat
<1>2. ASSUME NEW k \in 0..n PROVE SubSeq(Repeat(v, n), 1, k) = Repeat(v, k)
  <2>1. PICK x \in Seq(Cell) : x = Repeat(v, n) BY <1>1
  <2>2. Len(x) = n /\ \A j \in 1..n : x[j] = v BY <1>1, <2>1
  <2>3. SubSeq(x, 1, k) = [j \in 1..k |-> x[j]] BY <2>2
  <2>4. \A j \in 1..k : x[j] = v BY <2>2
  <2>5. SubSeq(x, 1, k) = [j \in 1..k |-> v] BY <2>3, <2>4
  <2> QED BY <2>1, <2>5 DEF Repeat
<1> QED BY <1>1, <1>2

LEMMA WriteNothing ==
  ASSUME NEW files \in Sized, NEW f \in Captured, NEW o \in Nat, o <= Cells, NEW v
  PROVE  Write(files, [file |-> f, off |-> o, data |-> Repeat(v, 0)]) = files
<1>1. files[f] \in [1..Cells -> Cell] /\ Len(files[f]) = Cells BY SizedContents
<1>2. Len(Repeat(v, 0)) = 0 BY DEF Repeat
<1>3. Overwrite(files[f], o, Repeat(v, 0)) = files[f]
  <2>1. Larger(Len(files[f]), o + 0) = Cells BY <1>1, Bounds DEF Larger
  <2>2. Overwrite(files[f], o, Repeat(v, 0)) = [k \in 1..Cells |-> files[f][k]]
    BY <1>1, <1>2, <2>1, Bounds DEF Overwrite
  <2> QED BY <1>1, <2>2
<1> QED BY <1>3 DEF Write, Sized

Covered(x, o, n, v, m) ==
  \E w \in [1..Cells -> Cell] :
    /\ w = Overwrite(x, o, Repeat(v, n))
    /\ \A k \in 1..Cells : w[k] = IF k > o /\ k <= m THEN v ELSE x[k]

LEMMA OverwriteSized ==
  ASSUME NEW x \in [1..Cells -> Cell], NEW o \in Nat, NEW n \in Nat, NEW v \in Cell,
         NEW m, m = o + n, m <= Cells
  PROVE  Covered(x, o, n, v, m)
<1>1. Len(x) = Cells BY Bounds
<1>2. Len(Repeat(v, n)) = n /\ \A k \in 1..n : Repeat(v, n)[k] = v BY DEF Repeat
<1> DEFINE w == [k \in 1..Cells |-> IF k > o /\ k <= m THEN v ELSE x[k]]
<1>3. Overwrite(x, o, Repeat(v, n)) = w
  <2>1. Larger(Len(x), o + Len(Repeat(v, n))) = Cells BY <1>1, <1>2, Bounds DEF Larger
  <2>2. ASSUME NEW k \in 1..Cells
        PROVE  (IF k > o /\ k <= o + n THEN Repeat(v, n)[k - o]
                ELSE IF k <= Cells THEN x[k] ELSE Zero)
                 = IF k > o /\ k <= m THEN v ELSE x[k]
    <3>1. CASE k > o /\ k <= o + n
      <4>1. k - o \in 1..n BY <3>1, Bounds
      <4> QED BY <1>2, <3>1, <4>1
    <3>2. CASE ~(k > o /\ k <= o + n) BY <3>2, Bounds
    <3> QED BY <3>1, <3>2
  <2>3. Overwrite(x, o, Repeat(v, n))
          = [k \in 1..Cells |-> IF k > o /\ k <= o + n THEN Repeat(v, n)[k - o]
                                ELSE IF k <= Cells THEN x[k] ELSE Zero]
    BY <1>1, <1>2, <2>1 DEF Overwrite
  <2> QED BY <2>2, <2>3
<1>4. w \in [1..Cells -> Cell] /\ \A k \in 1..Cells : w[k] = IF k > o /\ k <= m THEN v ELSE x[k]
  OBVIOUS
<1> HIDE DEF w
<1> QED BY <1>3, <1>4 DEF Covered

LEMMA WriteSized ==
  ASSUME NEW files \in Sized, NEW f \in Captured, NEW o \in Nat, NEW n \in Nat, NEW v \in Cell,
         o + n <= Cells
  PROVE  Write(files, [file |-> f, off |-> o, data |-> Repeat(v, n)]) \in Sized
<1>1. files[f] \in [1..Cells -> Cell] BY SizedContents
<1>2. PICK m : m = o + n OBVIOUS
<1>3. PICK w \in [1..Cells -> Cell] : w = Overwrite(files[f], o, Repeat(v, n))
  <2>1. Covered(files[f], o, n, v, m) BY <1>1, <1>2, OverwriteSized
  <2> QED BY <2>1 DEF Covered
<1>4. Write(files, [file |-> f, off |-> o, data |-> Repeat(v, n)]) = [files EXCEPT ![f] = w]
  BY <1>3 DEF Write
<1>5. [files EXCEPT ![f] = w] \in Sized BY DEF Sized
<1> QED BY <1>4, <1>5

LEMMA WriteTwice ==
  ASSUME NEW files \in Sized, NEW f \in Captured, NEW o \in Nat, NEW a \in Nat, NEW b \in Nat,
         NEW v \in Cell, o + a + b <= Cells
  PROVE  Write(Write(files, [file |-> f, off |-> o, data |-> Repeat(v, a)]),
               [file |-> f, off |-> o + a, data |-> Repeat(v, b)])
           = Write(files, [file |-> f, off |-> o, data |-> Repeat(v, a + b)])
<1> DEFINE r == [file |-> f, off |-> o, data |-> Repeat(v, a)]
           r2 == [file |-> f, off |-> o + a, data |-> Repeat(v, b)]
           r3 == [file |-> f, off |-> o, data |-> Repeat(v, a + b)]
<1>1. PICK p \in Nat, q \in Nat, c \in Nat :
         p = o + a /\ q = o + c /\ q = p + b /\ c = a + b /\ p <= Cells /\ q <= Cells
  <2>1. /\ o + a \in Nat /\ o + (a + b) \in Nat /\ a + b \in Nat
        /\ o + (a + b) = (o + a) + b /\ o + a <= Cells /\ o + (a + b) <= Cells
    BY Bounds
  <2> QED BY <2>1
<1>2. files[f] \in [1..Cells -> Cell] BY SizedContents
<1>3. PICK x \in [1..Cells -> Cell] :
        /\ x = Overwrite(files[f], o, Repeat(v, a))
        /\ \A k \in 1..Cells : x[k] = IF k > o /\ k <= p THEN v ELSE files[f][k]
  <2>1. Covered(files[f], o, a, v, p) BY <1>1, <1>2, OverwriteSized
  <2> QED BY <2>1 DEF Covered
<1>4. PICK y \in [1..Cells -> Cell] :
        /\ y = Overwrite(x, p, Repeat(v, b))
        /\ \A k \in 1..Cells : y[k] = IF k > p /\ k <= q THEN v ELSE x[k]
  <2>1. Covered(x, p, b, v, q) BY <1>1, OverwriteSized
  <2> QED BY <2>1 DEF Covered
<1>5. PICK z \in [1..Cells -> Cell] :
        /\ z = Overwrite(files[f], o, Repeat(v, c))
        /\ \A k \in 1..Cells : z[k] = IF k > o /\ k <= q THEN v ELSE files[f][k]
  <2>1. Covered(files[f], o, c, v, q) BY <1>1, <1>2, OverwriteSized
  <2> QED BY <2>1 DEF Covered
<1>6. y = z
  <2>1. ASSUME NEW k \in 1..Cells PROVE y[k] = z[k]
    <3>1. k \in Int /\ p >= o /\ q >= p BY <1>1, Bounds
    <3> QED BY <1>3, <1>4, <1>5, <3>1
  <2>2. y = [k \in 1..Cells |-> y[k]] /\ z = [k \in 1..Cells |-> z[k]] OBVIOUS
  <2> QED BY <2>1, <2>2, Zenon
<1>7. Write(files, r) = [files EXCEPT ![f] = x] BY <1>3 DEF Write
<1>8. PICK g \in Sized : g = [files EXCEPT ![f] = x] /\ g[f] = x
  <2>1. [files EXCEPT ![f] = x] \in Sized /\ [files EXCEPT ![f] = x][f] = x BY DEF Sized
  <2> QED BY <2>1
<1>9. Write(g, r2) = [g EXCEPT ![f] = y] BY <1>1, <1>4, <1>8 DEF Write
<1>10. Write(files, r3) = [files EXCEPT ![f] = y] BY <1>1, <1>5, <1>6 DEF Write
<1>11. [g EXCEPT ![f] = y] = [files EXCEPT ![f] = y] BY <1>8 DEF Sized
<1> QED BY <1>7, <1>8, <1>9, <1>10, <1>11

(* A part covers the cells from one cut to the next.                       *)
LEMMA PartCut ==
  ASSUME NEW r \in Request, NEW n \in Nat, n < Parts(r)
  PROVE  \E a, b \in Nat :
           /\ a = Cut(r, n) /\ a + b = Cut(r, n + 1) /\ a + b <= r.len
           /\ Part(r, n + 1) = [off |-> r.off + a, data |-> Repeat(r.id, b), truncated |-> FALSE]
<1>1. r.len \in Nat /\ r.off \in Nat BY RequestTyped
<1>2. CASE r.kind = "pwrite"
  <2>1. n = 0 BY <1>2 DEF Parts
  <2>2. Cut(r, n) = 0 /\ Cut(r, n + 1) = r.len BY <1>2, <2>1 DEF Cut
  <2>3. Part(r, n + 1) = [off |-> r.off, data |-> Repeat(r.id, r.len), truncated |-> FALSE]
    BY <1>2 DEF Part
  <2>4. r.off + 0 = r.off /\ 0 + r.len = r.len /\ r.len <= r.len BY <1>1
  <2>5. 0 \in Nat /\ r.len \in Nat BY <1>1
  <2> QED BY <2>2, <2>3, <2>4, <2>5
<1>3. CASE r.kind # "pwrite"
  <2>1. Cut(r, n) = n /\ Cut(r, n + 1) = n + 1 /\ n + 1 <= r.len
    BY <1>1, <1>3 DEF Cut, Parts
  <2>2. Part(r, n + 1) = [off |-> r.off + (n + 1) - 1, data |-> Repeat(r.id, 1), truncated |-> FALSE]
    BY <1>3 DEF Part
  <2>3. r.off + (n + 1) - 1 = r.off + n BY <1>1
  <2>4. 1 \in Nat OBVIOUS
  <2> QED BY <2>1, <2>2, <2>3, <2>4
<1> QED BY <1>2, <1>3

Full(e, r) == Len(e.segs) = Parts(r) /\ \A k \in 1..Parts(r) : e.segs[k] = Part(r, k)

LEMMA FullStaged ==
  ASSUME NEW r \in Request, NEW e \in Entry, Full(e, r)
  PROVE  Staged(e.segs) = r.len
<1> DEFINE m == Parts(r)
<1>1. r.len \in Nat /\ r.len >= 1 /\ r.id \in Cell /\ m \in Nat /\ m >= 1 /\ Len(e.segs) = m
  BY RequestTyped DEF Parts, Cell, Full
<1>2. e.segs \in Segs BY DEF Entry
<1>3. PICK f \in [0..m -> Nat] : StagedBy(f, e.segs) /\ Staged(e.segs) = f[m]
  BY <1>1, <1>2, StagedSteps
<1> HIDE DEF m
<1> DEFINE T == {n \in Nat : n <= m => f[n] = Cut(r, n)}
<1>4. 0 \in T BY <1>3 DEF StagedBy, Cut
<1>5. ASSUME NEW n \in T PROVE n + 1 \in T
  <2> SUFFICES ASSUME n + 1 <= m PROVE f[n + 1] = Cut(r, n + 1) OBVIOUS
  <2>1. n \in Nat /\ n < m /\ n + 1 \in 1..m /\ (n + 1) - 1 = n /\ f[n] = Cut(r, n) BY <1>1
  <2>2. f[n + 1] = f[n] + Len(e.segs[n + 1].data) BY <1>1, <1>3, <2>1 DEF StagedBy
  <2>3. PICK a \in Nat, b \in Nat :
          /\ a = Cut(r, n) /\ a + b = Cut(r, n + 1)
          /\ Part(r, n + 1) = [off |-> r.off + a, data |-> Repeat(r.id, b), truncated |-> FALSE]
    BY <2>1, PartCut DEF m
  <2>4. e.segs[n + 1] = Part(r, n + 1) BY <2>1 DEF Full, m
  <2>5. Len(e.segs[n + 1].data) = b BY <1>1, <2>3, <2>4, RepeatParts
  <2> QED BY <2>1, <2>2, <2>3, <2>5
<1>6. T = Nat
  <2>1. T \in SUBSET Nat OBVIOUS
  <2> HIDE DEF T
  <2> QED BY <1>4, <1>5, <2>1, SetInduction
<1>7. f[m] = Cut(r, m) BY <1>1, <1>6
<1>8. Cut(r, m) = r.len BY <1>1 DEF Cut, Parts, m
<1> QED BY <1>3, <1>7, <1>8

LEMMA FullTaken ==
  ASSUME NEW r \in Request, r.off + r.len <= Cells, NEW e \in Entry, Full(e, r),
         e.res \in 0..r.len
  PROVE  /\ Taken(e).left = 0 /\ ~Taken(e).cut
         /\ \A files \in Sized : e.file \in Captured =>
              Written(files, Taken(e).records)
                = Write(files, [file |-> e.file, off |-> r.off, data |-> Repeat(r.id, e.res)])
<1> DEFINE m == Parts(r)
           R(n) == [file |-> e.file, off |-> r.off, data |-> Repeat(r.id, Least(Cut(r, n), e.res))]
           P(out, n) ==
             /\ out.left = e.res - Least(Cut(r, n), e.res) /\ out.cut = FALSE
             /\ \A files \in Sized : e.file \in Captured =>
                  Written(files, out.records) = Write(files, R(n))
<1>1. /\ r.len \in Nat /\ r.len >= 1 /\ r.id \in Cell /\ r.off \in Nat /\ m \in Nat /\ m >= 1
      /\ Len(e.segs) = m /\ e.res \in Nat
  BY RequestTyped DEF Parts, Cell, Full
<1>2. PICK f \in [0..m -> Takes] : TakenBy(f, e) /\ Taken(e) = f[m]
  BY <1>1, TakenSteps
<1> HIDE DEF m
<1> DEFINE T == {n \in Nat : n <= m => P(f[n], n)}
<1>3. 0 \in T
  <2>1. f[0] = [left |-> e.res, records |-> <<>>, cut |-> FALSE] BY <1>2 DEF TakenBy
  <2>2. Least(Cut(r, 0), e.res) = 0 BY <1>1 DEF Cut, Least
  <2>3. ASSUME NEW files \in Sized, e.file \in Captured
        PROVE  Written(files, <<>>) = Write(files, R(0))
    <3>1. files \in Contents BY SizedContents
    <3>2. R(0) = [file |-> e.file, off |-> r.off, data |-> Repeat(r.id, 0)] BY <2>2
    <3>3. r.off <= Cells BY <1>1, Bounds
    <3>4. Write(files, R(0)) = files BY <1>1, <2>3, <3>2, <3>3, WriteNothing
    <3> QED BY <3>1, <3>4, WrittenNone
  <2> QED BY <1>1, <2>1, <2>2, <2>3
<1>4. ASSUME NEW n \in T PROVE n + 1 \in T
  <2> HIDE DEF P
  <2>12. n \in Nat OBVIOUS
  <2> SUFFICES ASSUME n + 1 <= m PROVE P(f[n + 1], n + 1) BY <2>12
  <2>1. n \in Nat /\ n < m /\ n + 1 \in 1..m /\ (n + 1) - 1 = n /\ P(f[n], n) /\ n \in 0..m
    BY <1>1
  <2>2. PICK a \in Nat, b \in Nat :
          /\ a = Cut(r, n) /\ a + b = Cut(r, n + 1) /\ a + b <= r.len
          /\ Part(r, n + 1) = [off |-> r.off + a, data |-> Repeat(r.id, b), truncated |-> FALSE]
    BY <2>1, PartCut DEF m
  <2>3. PICK out \in Takes : out = f[n] BY <1>2, <2>1
  <2>4. e.segs[n + 1] = Part(r, n + 1) BY <2>1 DEF Full, m
  <2>5. PICK s : /\ s = e.segs[n + 1] /\ s.off = r.off + a /\ s.data = Repeat(r.id, b)
                 /\ s.truncated = FALSE /\ Len(s.data) = b
    <3>1. e.segs[n + 1].data = Repeat(r.id, b) /\ e.segs[n + 1].off = r.off + a
          /\ e.segs[n + 1].truncated = FALSE
      BY <2>2, <2>4
    <3>2. Len(Repeat(r.id, b)) = b BY <1>1, RepeatParts
    <3> QED BY <3>1, <3>2
  <2>6. f[n + 1] = Take(e, out, s) BY <1>1, <1>2, <2>1, <2>3, <2>5 DEF TakenBy
  <2> DEFINE l == Least(a, e.res)
             k == Least(b, out.left)
  <2>7. out.left = e.res - l /\ out.cut = FALSE BY <2>1, <2>2, <2>3 DEF P
  <2>8. /\ l \in Nat /\ k \in Nat /\ k <= b /\ Least(a + b, e.res) = l + k
        /\ out.left - k = e.res - (l + k) /\ (k # 0 => l = a) /\ l + k <= r.len
        /\ r.off + l + k <= Cells
    <3>1. l = (IF a < e.res THEN a ELSE e.res) /\ l \in Nat /\ l <= e.res BY <1>1 DEF Least
    <3>2. k = (IF b < e.res - l THEN b ELSE e.res - l) BY <2>7 DEF Least
    <3>3. Least(a + b, e.res) = IF a + b < e.res THEN a + b ELSE e.res BY DEF Least
    <3> HIDE DEF l, k
    <3>4. k \in Nat /\ k <= b /\ (k # 0 => l = a) /\ l + k <= e.res BY <1>1, <3>1, <3>2
    <3>5. Least(a + b, e.res) = l + k BY <1>1, <3>1, <3>2, <3>3
    <3>6. out.left - k = e.res - (l + k) BY <1>1, <2>7, <3>1, <3>4
    <3>7. l + k <= r.len /\ r.off + l + k <= Cells
      <4>1. e.res <= r.len BY <1>1
      <4>2. l \in Nat /\ k \in Nat /\ l + k <= e.res BY <3>1, <3>4
      <4>3. l + k <= r.len BY <1>1, <4>1, <4>2
      <4>4. \A i, j, o, c \in Nat : i <= j /\ o + j <= c => o + i <= c OBVIOUS
      <4>5. r.off + (l + k) <= Cells
        <5>1. l + k \in Nat BY <4>2
        <5> QED BY <1>1, <4>3, <4>4, <5>1, Bounds
      <4> QED BY <1>1, <4>2, <4>3, <4>5
    <3> QED BY <3>1, <3>4, <3>5, <3>6, <3>7
  <2>9. ASSUME NEW files \in Sized, e.file \in Captured
        PROVE  Written(files, out.records)
                 = Write(files, [file |-> e.file, off |-> r.off, data |-> Repeat(r.id, l)])
    BY <2>1, <2>2, <2>3, <2>9 DEF P
  <2> HIDE DEF l, k, T
  <2>10. CASE k = 0
    <3>1. f[n + 1] = out BY <2>5, <2>6, <2>10 DEF Take, k
    <3>2. Least(Cut(r, n + 1), e.res) = l BY <2>2, <2>8, <2>10
    <3> QED BY <2>7, <2>9, <3>1, <3>2 DEF P
  <2>11. CASE k # 0
    <3> DEFINE q == [file |-> e.file, off |-> r.off + a, data |-> Repeat(r.id, k)]
    <3>1. SubSeq(s.data, 1, k) = Repeat(r.id, k)
      <4>1. k \in 0..b BY <2>8
      <4>2. SubSeq(Repeat(r.id, b), 1, k) = Repeat(r.id, k) BY <1>1, <4>1, RepeatParts
      <4> QED BY <2>5, <4>2
    <3>2. f[n + 1] = [left |-> out.left - k, cut |-> out.cut \/ s.truncated,
                      records |-> Append(out.records, q)]
      BY <2>5, <2>6, <2>11, <3>1 DEF Take, k
    <3>3. Least(Cut(r, n + 1), e.res) = l + k BY <2>2, <2>8
    <3>4. ASSUME NEW files \in Sized, e.file \in Captured
          PROVE  Written(files, Append(out.records, q)) = Write(files, R(n + 1))
      <4>1. files \in Contents /\ out.records \in Seq(Record) BY SizedContents DEF Takes
      <4>2. q \in Record
        <5>1. e.file \in Files \cup {NoOp} BY DEF Entry
        <5>2. Repeat(r.id, k) \in Seq(Cell) BY <1>1, <2>8, RepeatParts
        <5>3. r.off + a \in Nat BY <1>1
        <5> QED BY <5>1, <5>2, <5>3 DEF Record
      <4>3. Written(files, Append(out.records, q)) = Write(Written(files, out.records), q)
        BY <4>1, <4>2, WrittenMore
      <4>4. l = a BY <2>8, <2>11
      <4>5. Write(Write(files, [file |-> e.file, off |-> r.off, data |-> Repeat(r.id, l)]), q)
              = Write(files, [file |-> e.file, off |-> r.off, data |-> Repeat(r.id, l + k)])
        BY <1>1, <2>8, <3>4, <4>4, WriteTwice
      <4>6. R(n + 1) = [file |-> e.file, off |-> r.off, data |-> Repeat(r.id, l + k)] BY <3>3
      <4> QED BY <2>9, <3>4, <4>3, <4>5, <4>6
    <3>5. f[n + 1].left = e.res - (l + k) /\ f[n + 1].cut = FALSE
          /\ f[n + 1].records = Append(out.records, q)
      <4>1. (out.cut \/ s.truncated) = FALSE BY <2>5, <2>7
      <4>2. out.left - k = e.res - (l + k) BY <2>8
      <4>3. PICK z \in Seq(Record) : z = Append(out.records, q)
        <5>1. out.records \in Seq(Record) /\ e.file \in Files \cup {NoOp} BY DEF Takes, Entry
        <5>2. Repeat(r.id, k) \in Seq(Cell) BY <1>1, <2>8, RepeatParts
        <5>3. r.off + a \in Nat BY <1>1
        <5>4. q \in Record BY <5>1, <5>2, <5>3 DEF Record
        <5> HIDE DEF q
        <5>5. Append(out.records, q) \in Seq(Record) BY <5>1, <5>4
        <5> QED BY <5>5
      <4> HIDE DEF q
      <4>4. f[n + 1] = [left |-> e.res - (l + k), cut |-> FALSE, records |-> z]
        BY <3>2, <4>1, <4>2, <4>3, Zenon
      <4> QED BY <4>3, <4>4
    <3> QED BY <3>3, <3>4, <3>5 DEF P
  <2> QED BY <2>10, <2>11
<1>5. T = Nat
  <2>1. T \in SUBSET Nat OBVIOUS
  <2> HIDE DEF T
  <2> QED BY <1>3, <1>4, <2>1, SetInduction
<1>6. P(f[m], m) BY <1>1, <1>5
<1>7. Least(Cut(r, m), e.res) = e.res BY <1>1 DEF Cut, Parts, Least, m
<1> QED BY <1>1, <1>2, <1>6, <1>7

-----------------------------------------------------------------------------
(* The event that is handled next.                                         *)

(* e is the h + 1st event.                                                 *)
Next1(log, h, e) ==
  /\ h \in Nat /\ h + 1 \in 1..Len(log) /\ Len(log) \in Nat /\ log[h + 1] = e
  /\ \A i \in 1..h : i \in 1..Len(log) /\ i \in 1..(h + 1) /\ i # h + 1
  /\ \A i \in 1..(h + 1) : i \in 1..h \/ i = h + 1
  /\ h + 1 \in 1..(h + 1)

LEMMA HeadEvent ==
  ASSUME Types, NEW log \in Seq(Logged), NEW h, Waiting(log, h), ring # <<>>
  PROVE  Next1(log, h, log[h + 1]) /\ log[h + 1].ev = Head(ring) /\ log[h + 1] \in Logged
<1>1. ring \in Seq(Events) BY DEF Types, RingTypes
<1>2. Len(ring) \in Nat /\ Len(ring) >= 1 /\ Head(ring) = ring[1] /\ 1 \in 1..Len(ring) BY <1>1
<1>3. h \in Nat /\ Len(log) = h + Len(ring) /\ \A i \in 1..Len(ring) : ring[i] = log[h + i].ev
  BY DEF Waiting
<1>4. Next1(log, h, log[h + 1]) BY <1>2, <1>3 DEF Next1
<1>5. log[h + 1] \in Logged BY <1>4 DEF Next1
<1> QED BY <1>2, <1>3, <1>4, <1>5

LEMMA WaitingNext ==
  ASSUME Types, NEW log, NEW h, Waiting(log, h), ring # <<>>, ring' = Tail(ring)
  PROVE  Waiting(log, h + 1)'
<1>1. ring \in Seq(Events) BY DEF Types, RingTypes
<1>2. /\ Len(ring) \in Nat /\ Len(ring) >= 1 /\ Len(ring') = Len(ring) - 1
      /\ \A i \in 1..Len(ring') : ring'[i] = ring[i + 1] /\ i + 1 \in 1..Len(ring)
  BY <1>1
<1>3. h \in Nat /\ Len(log) = h + Len(ring) /\ \A i \in 1..Len(ring) : ring[i] = log[h + i].ev
  BY DEF Waiting
<1>4. h + 1 \in Nat /\ Len(log) = (h + 1) + Len(ring') BY <1>2, <1>3
<1>5. ASSUME NEW i \in 1..Len(ring') PROVE ring'[i] = log[(h + 1) + i].ev
  <2>1. h + (i + 1) = (h + 1) + i BY <1>3
  <2> QED BY <1>2, <1>3, <2>1
<1> QED BY <1>4, <1>5 DEF Waiting

LEMMA EmittedKept ==
  ASSUME NEW log, NEW mate, NEW req, NEW content, NEW top,
         Emitted(log, mate, req, content, top), UNCHANGED <<app, hooks>>
  PROVE  Emitted(log, mate, req, content, top)'
<1>1. UNCHANGED <<disk, past, count, iocb, io, pc, work, inflight>> BY DEF app, hooks
<1>2. \A c \in Cookies : (Sending(c)' <=> Sending(c)) /\ (Flying(c)' <=> Flying(c))
  BY <1>1 DEF Sending, Flying
<1>3. /\ Numbers(mate, req) /\ Entries(log, mate) /\ InOrder(log, mate)
      /\ Once(log) /\ Owed(log) /\ Payload(log, req) /\ Sent(log)
      /\ Effects(log, req, content, top) /\ \A b \in Cookies : Flying(b) => b \in inflight
  BY DEF Emitted
<1>4. Numbers(mate, req)' BY <1>1, <1>3, NumbersKept
<1>5. Entries(log, mate)' BY <1>1, <1>3 DEF Entries
<1>6. InOrder(log, mate)' BY <1>1, <1>3 DEF InOrder, Alone
<1>7. Once(log)' BY <1>1, <1>2, <1>3 DEF Once, Has, Within
<1>8. Owed(log)'
  <2>1. \A i \in 1..Len(log) : log[i].ev.op # "write" => log[i].ev.cookie \in Cookies
    BY <1>3, EntryCookie
  <2> QED BY <1>1, <1>2, <1>3, <2>1 DEF Owed, Has, Within
<1>9. Sent(log)' BY <1>1, <1>3 DEF Sent, Reached
<1>10. Effects(log, req, content, top)'
  <2>1. View(disk') = View(disk) /\ past \subseteq past' BY <1>1
  <2> QED BY <1>3, <2>1, EffectsKept
<1>11. \A b \in Cookies : Flying(b)' => b \in inflight' BY <1>1, <1>2, <1>3
<1> QED BY <1>3, <1>4, <1>5, <1>6, <1>7, <1>8, <1>9, <1>10, <1>11
    DEF Emitted, Payload, Placed, Whole

(* An entry that stays from an earlier write is complete.                  *)
LEMMA OwnEntry ==
  ASSUME Types, NEW log, NEW mate, NEW req, NEW h, NEW own, NEW s, NEW e,
         Numbers(mate, req), Entries(log, mate), InOrder(log, mate), Owed(log),
         Told(dios, own, log, mate, h, s), Next1(log, h, e), e.ev.op # "write",
         NEW c \in Cookies, c = e.ev.cookie, c \in DOMAIN dios, own[c] # e.id
  PROVE  own[c] < e.id /\ dios[c].done /\ dios[c].seen
<1>1. /\ \A i \in 1..Len(log) :
           /\ log[i] \in Logged /\ log[i].ev \in Events /\ log[i].id \in 1..count
           /\ log[i].num \in Nat /\ (log[i].ev.op # "write" => log[i].ev.cookie \in Cookies)
           /\ mate[log[i].id] = log[i].ev.cookie
           /\ log[i].ev.op \in {"submit", "done", "complete", "write"}
  BY EntryCookie
<1>2. count \in Nat /\ e.id \in 1..count /\ mate[e.id] = c /\ e.id \in Nat
  BY <1>1, Bounds DEF Next1, Types, AppTypes
<1>3. mate[own[c]] = c /\ Tells(dios[c], own[c], log, h, s) BY DEF Told
<1>4. PICK i \in 1..h : log[i].id = own[c] BY <1>3 DEF Tells
<1>5. i \in 1..Len(log) /\ i < h + 1 /\ own[c] \in 1..count /\ log[i].ev.cookie = c
  BY <1>1, <1>3, <1>4 DEF Next1
<1>6. own[c] < e.id
  <2>1. log[i].id <= log[h + 1].id BY <1>5 DEF InOrder, Next1
  <2> QED BY <1>2, <1>4, <1>5, <2>1 DEF Next1
<1>7. e.id <= iocb[c].id /\ iocb[c] \in Request /\ iocb[c].id \in Nat
  BY <1>2, RequestTyped DEF Numbers
<1>8. ~(iocb[c].id = own[c]) BY <1>2, <1>5, <1>6, <1>7
<1>9. log[i].ev.op # "write"
  <2>1. log[i].ev.op = "write" => log[i].ev.cookie = NoOp BY <1>5 DEF Entries
  <2> QED BY <1>5, <2>1, NoOpApart
<1>10. Has(log, "done", own[c]) /\ Has(log, "complete", own[c])
  BY <1>4, <1>5, <1>8, <1>9 DEF Owed
<1>11. ASSUME NEW op, Has(log, op, own[c]) PROVE Within(log, h, op, own[c])
  <2>1. PICK j \in 1..Len(log) : log[j].ev.op = op /\ log[j].id = own[c]
    BY <1>11 DEF Has, Within
  <2>2. log[j].ev.cookie = c BY <1>1, <1>3, <2>1
  <2>3. ~(h + 1 <= j)
    <3> SUFFICES ASSUME h + 1 <= j PROVE FALSE OBVIOUS
    <3>1. CASE h + 1 = j BY <1>2, <1>6, <2>1, <3>1 DEF Next1
    <3>2. CASE h + 1 # j
      <4>1. h + 1 < j /\ h + 1 \in 1..Len(log) /\ log[h + 1] = e BY <3>2 DEF Next1
      <4>2. e.id <= own[c] BY <2>1, <2>2, <4>1 DEF InOrder
      <4> QED BY <1>2, <1>5, <1>6, <4>2
    <3> QED BY <3>1, <3>2
  <2>4. j \in 1..h BY <2>3 DEF Next1
  <2> QED BY <2>1, <2>4 DEF Within
<1> QED BY <1>3, <1>6, <1>10, <1>11 DEF Tells, Knows

(* Nothing has been heard of a write without an entry.                     *)
LEMMA FreshEntry ==
  ASSUME NEW log, NEW mate, NEW req, NEW h, NEW own, NEW s, NEW e,
         Entries(log, mate), Once(log), Payload(log, req),
         Told(dios, own, log, mate, h, s), Next1(log, h, e),
         e.ev.op \in {"submit", "done", "complete"},
         NEW c \in Cookies, c = e.ev.cookie, c \notin DOMAIN dios
  PROVE  \A i \in 1..h : log[i].id # e.id
<1> SUFFICES ASSUME NEW i \in 1..h, log[i].id = e.id PROVE FALSE OBVIOUS
<1>1. i \in 1..Len(log) /\ h + 1 \in 1..Len(log) /\ log[h + 1] = e BY DEF Next1
<1>2. log[i].ev.cookie = c
  <2>1. \A j \in 1..Len(log) : mate[log[j].id] = log[j].ev.cookie BY DEF Entries
  <2> QED BY <1>1, <2>1
<1>3. log[i].ev.op # "write"
  <2>1. log[i].ev.op = "write" => log[i].ev.cookie = NoOp BY <1>1 DEF Entries
  <2> QED BY <1>2, <2>1, NoOpApart
<1>4. Within(log, h, "done", e.id) /\ Within(log, h, "complete", e.id)
  BY <1>2, <1>3 DEF Told
<1>5. ASSUME NEW op, op \in {"done", "complete"}, e.ev.op = op PROVE FALSE
  <2>1. PICK j \in 1..h : log[j].ev.op = op /\ log[j].id = e.id BY <1>4, <1>5 DEF Within
  <2>2. j \in 1..Len(log) /\ j # h + 1 BY DEF Next1
  <2> QED BY <1>1, <1>5, <2>1, <2>2 DEF Once
<1>6. CASE e.ev.op = "submit"
  <2>1. PICK j \in 1..h : log[j].ev.op = "done" /\ log[j].id = e.id BY <1>4 DEF Within
  <2>2. j \in 1..Len(log) /\ ~(h + 1 < j) BY <2>1 DEF Next1
  <2>3. Placed(log, req, h + 1) BY <1>1, <1>6 DEF Payload
  <2> QED BY <1>1, <2>1, <2>2, <2>3 DEF Placed
<1> QED BY <1>5, <1>6

(* What the table knows of the write of the next event.                    *)
LEMMA GotKnows ==
  ASSUME Types, NEW log, NEW mate, NEW req, NEW h, NEW own, NEW s, NEW e,
         Entries(log, mate), Once(log), Payload(log, req),
         Told(dios, own, log, mate, h, s), Next1(log, h, e),
         e.ev.op \in {"submit", "done", "complete"},
         NEW c \in Cookies, c = e.ev.cookie, c \in DOMAIN dios => own[c] = e.id
  PROVE  /\ dio_get_or_create(c) \in Entry /\ Knows(dio_get_or_create(c), e.id, log, h, s)
         /\ mate[e.id] = c
<1>1. mate[e.id] = c BY DEF Entries, Next1
<1>2. dio_get_or_create(c) \in Entry BY GotEntry
<1>3. CASE c \in DOMAIN dios
  <2>1. dio_get_or_create(c) = dios[c] BY <1>3 DEF dio_get_or_create
  <2> QED BY <1>1, <1>2, <1>3, <2>1 DEF Told, Tells
<1>4. CASE c \notin DOMAIN dios
  <2>1. dio_get_or_create(c) = NewEntry BY <1>4 DEF dio_get_or_create
  <2>2. \A i \in 1..h : log[i].id # e.id BY <1>4, FreshEntry
  <2>3. /\ ~NewEntry.aborted /\ NewEntry.segs = <<>> /\ ~NewEntry.done /\ ~NewEntry.seen
        /\ Len(NewEntry.segs) = 0
    BY DEF NewEntry
  <2>4. Knows(NewEntry, e.id, log, h, s) BY <2>2, <2>3 DEF Knows, Within
  <2> QED BY <1>1, <1>2, <2>1, <2>4
<1> QED BY <1>3, <1>4

-----------------------------------------------------------------------------
(* The sizes of what is replayed, and where a write(2) in the ring is from.*)

Fits ==
  /\ \A c \in Cookies : io[c] # NoOp => io[c].off + io[c].len <= Cells
  /\ View(disk) \in Sized /\ past \subseteq Sized
  /\ \A i \in 1..Len(ring) : ring[i].op = "write" => SyncWrites
  /\ batch \in Seq(Record) /\ backup \in Contents

LEMMA FitsSame ==
  ASSUME Fits, UNCHANGED <<disk, past, io, ring, batch, backup>>
  PROVE  Fits'
BY DEF Fits

(* An event is written that is of an iocb, or of a thread that may.        *)
LEMMA FitsEmit ==
  ASSUME Types, Fits, NEW e \in Events, Emit(e), e.op = "write" => SyncWrites
  PROVE  \A i \in 1..Len(ring') : ring'[i].op = "write" => SyncWrites
<1>1. ring \in Seq(Events) BY DEF Types, RingTypes
<1>2. CASE Len(ring) < RingSize
  <2>1. ring' = Append(ring, e) BY <1>2 DEF Emit
  <2>2. \A i \in 1..Len(ring') : (i \in 1..Len(ring) /\ ring'[i] = ring[i]) \/ ring'[i] = e
    BY <1>1, <2>1
  <2> QED BY <2>2 DEF Fits
<1>3. CASE ~(Len(ring) < RingSize)
  <2>1. ring' = ring BY <1>3 DEF Emit
  <2> QED BY <2>1 DEF Fits
<1> QED BY <1>2, <1>3

LEMMA FitsCompletion ==
  ASSUME Types, Fits, NEW c \in Cookies, handle_aio_complete_rw(c)
  PROVE  Fits'
<1>1. PICK res \in 0..io[c].len :
        /\ disk' = IF IsWrite(io[c])
                   THEN Write(disk, [file |-> io[c].file, off |-> io[c].off,
                                     data |-> Repeat(io[c].id, res)])
                   ELSE disk
        /\ IF c \in inflight /\ IsWrite(io[c]) THEN dio_emit_complete(c, io[c].file, res)
           ELSE UNCHANGED <<ring, lost>>
  BY DEF handle_aio_complete_rw
<1>2. /\ io[c] # NoOp /\ past' = past \cup {View(disk')} /\ io' = [io EXCEPT ![c] = NoOp]
      /\ UNCHANGED <<batch, backup>>
  BY DEF handle_aio_complete_rw, user, sink
<1>3. /\ io[c] \in Request /\ io[c].file \in Files /\ io[c].off \in Nat /\ io[c].len \in Nat
      /\ io[c].id \in Cell /\ res \in Nat /\ res <= io[c].len
  BY <1>1, <1>2, RequestTyped DEF Types, AppTypes, Cell
<1>4. io[c].off + res <= Cells
  <2>1. io[c].off + io[c].len <= Cells BY <1>2 DEF Fits
  <2> QED BY <1>3, <2>1, Bounds
<1>5. View(disk') \in Sized
  <2> DEFINE r == [file |-> io[c].file, off |-> io[c].off, data |-> Repeat(io[c].id, res)]
  <2>1. CASE disk' = disk BY <2>1 DEF Fits
  <2>2. CASE disk' = Write(disk, r)
    <3>1. CASE io[c].file \in Captured
      <4>1. View(disk') = Write(View(disk), r) BY <2>2, <3>1, ViewWrite
      <4>2. Write(View(disk), r) \in Sized BY <1>3, <1>4, <3>1, WriteSized DEF Fits
      <4> QED BY <4>1, <4>2
    <3>2. CASE io[c].file \notin Captured
      <4>1. View(disk') = View(disk) BY <2>2, <3>2, ViewWrite
      <4> QED BY <4>1 DEF Fits
    <3> QED BY <3>1, <3>2
  <2> QED BY <1>1, <2>1, <2>2
<1>6. \A i \in 1..Len(ring') : ring'[i].op = "write" => SyncWrites
  <2> DEFINE fl == IF io[c].file \in Captured THEN io[c].file ELSE NoOp
             ev == [Event("complete", c) EXCEPT !.ret = res, !.file = fl]
  <2>1. fl \in Files \cup {NoOp} BY <1>3
  <2>2. ev \in Events /\ ev.op = "complete"
    <3> HIDE DEF fl
    <3> QED BY <1>3, <2>1, CompleteEvent
  <2>3. CASE c \in inflight /\ IsWrite(io[c])
    <3>1. Emit(ev) BY <1>1, <2>3 DEF dio_emit_complete
    <3> HIDE DEF ev
    <3> QED BY <2>2, <3>1, FitsEmit
  <2>4. CASE ~(c \in inflight /\ IsWrite(io[c])) BY <1>1, <2>4 DEF Fits
  <2> QED BY <2>3, <2>4
<1>7. \A b \in Cookies : io'[b] # NoOp => io'[b].off + io'[b].len <= Cells
  BY <1>2 DEF Fits, Types, AppTypes
<1> QED BY <1>2, <1>5, <1>6, <1>7 DEF Fits

LEMMA FitsSync ==
  ASSUME Types, Fits, NEW t \in Threads, SyncWrite(t)
  PROVE  Fits'
<1>1. PICK f \in Files, k \in 1..Cells :
        LET r == [file |-> f, off |-> k - 1, data |-> <<count + 1>>]
        IN /\ SyncWrites /\ count < MaxOps
           /\ disk' = Write(disk, r)
           /\ past' = past \cup {View(disk')}
           /\ IF f \in Captured
              THEN Emit([Event("write", NoOp) EXCEPT !.file = f, !.off = r.off, !.data = r.data])
              ELSE UNCHANGED <<ring, lost>>
           /\ UNCHANGED <<iocb, io, hooks, user, sink>>
  BY DEF SyncWrite
<1>2. count + 1 \in Cell /\ k - 1 \in Nat /\ (k - 1) + 1 <= Cells
  BY <1>1, Bounds DEF Types, AppTypes, Cell
<1>3. UNCHANGED <<batch, backup>> BY <1>1 DEF user, sink
<1>4. View(disk') \in Sized
  <2>1. PICK r : r = [file |-> f, off |-> k - 1, data |-> Repeat(count + 1, 1)] OBVIOUS
  <2>2. disk' = Write(disk, r)
    <3>1. Repeat(count + 1, 1) = <<count + 1>> BY DEF Repeat
    <3> QED BY <1>1, <2>1, <3>1
  <2>3. CASE f \in Captured
    <3>1. View(disk') = Write(View(disk), r) BY <2>1, <2>2, <2>3, ViewWrite
    <3>2. Write(View(disk), r) \in Sized BY <1>2, <2>1, <2>3, WriteSized DEF Fits
    <3> QED BY <3>1, <3>2
  <2>4. CASE f \notin Captured
    <3>1. View(disk') = View(disk) BY <2>1, <2>2, <2>4, ViewWrite
    <3> QED BY <3>1 DEF Fits
  <2> QED BY <2>3, <2>4
<1>5. \A i \in 1..Len(ring') : ring'[i].op = "write" => SyncWrites BY <1>1
<1> QED BY <1>1, <1>3, <1>4, <1>5 DEF Fits

(* The entries that a flush commits.                                       *)
LEMMA FlushReady ==
  ASSUME NEW d, NEW lo \in Nat, NEW hi \in Nat, NEW m, m = Cardinality(Turns(d, lo, hi))
  PROVE  /\ m \in Nat /\ Turns(d, lo, hi) = lo..(lo + m - 1)
         /\ \A j \in 1..m : At(d, lo + j - 1) \in Ready(d, lo + j - 1)
<1>1. m \in Nat /\ Turns(d, lo, hi) = lo..(lo + m - 1) BY TurnsInterval
<1>2. ASSUME NEW j \in 1..m PROVE At(d, lo + j - 1) \in Ready(d, lo + j - 1)
  <2>1. PICK k : k = lo + j - 1 OBVIOUS
  <2>2. k \in lo..(lo + m - 1) /\ k \in lo..k BY <1>1, <2>1
  <2>3. k \in Turns(d, lo, hi) BY <1>1, <2>2
  <2>4. Ready(d, k) # {} BY <2>2, <2>3 DEF Turns
  <2>5. At(d, k) \in Ready(d, k) BY <2>4 DEF At
  <2> QED BY <2>1, <2>5
<1> QED BY <1>1, <1>2

LEMMA FlushBatch ==
  ASSUME Types, Fits, NEW d, d \in [DOMAIN d -> Entry], NEW failed,
         dio_flush_completed(d, failed)
  PROVE  batch' \in Seq(Record)
<1>1. next_commit_order \in Nat /\ next_completion_order \in Nat BY DEF Types, TableTypes
<1>2. PICK m : m = Cardinality(Turns(d, next_commit_order, next_completion_order)) OBVIOUS
<1>3. batch' = Batched(d, m) BY <1>1, <1>2, FlushNamed
<1>4. /\ m \in Nat
      /\ \A j \in 1..m : At(d, next_commit_order + j - 1) \in Ready(d, next_commit_order + j - 1)
  BY <1>1, <1>2, FlushReady
<1>5. ASSUME NEW j \in 1..m PROVE Committed(d, j) \in Seq(Record)
  <2>1. At(d, next_commit_order + j - 1) \in DOMAIN d BY <1>4 DEF Ready
  <2>2. d[At(d, next_commit_order + j - 1)] \in Entry BY <2>1
  <2> QED BY <2>2, RecordsTyped DEF Committed
<1>6. batch \in Seq(Record) BY DEF Fits
<1>7. PICK f \in [0..m -> Seq(Record)] : BatchedBy(f, d, m) /\ Batched(d, m) = f[m]
  BY <1>4, <1>5, <1>6, BatchedSteps
<1>8. m \in 0..m BY <1>4
<1> QED BY <1>3, <1>7, <1>8

LEMMA FitsHandler ==
  ASSUME Types, Queue, Fits, handle_event
  PROVE  Fits'
<1> DEFINE e == Head(ring)
           c == e.cookie
           d == dio_get_or_create(c)
<1>1. ring # <<>> /\ ring' = Tail(ring) /\ UNCHANGED <<disk, past, io, backup>>
  BY DEF handle_event, app, sink
<1>2. e \in Events /\ (e.op # "write" => c \in Cookies /\ d \in Entry)
  BY <1>1, HeadTyped, GotEntry
<1>3. dios \in [DOMAIN dios -> Entry] /\ next_completion_order \in Nat BY DEF Types, TableTypes
<1>4. ASSUME NEW n \in Entry, NEW failed, dio_flush_completed(Put(c, n), failed)
      PROVE  batch' \in Seq(Record)
  <2>1. PICK x : x = Put(c, n) OBVIOUS
  <2>2. x \in [DOMAIN dios \cup {c} -> Entry] /\ DOMAIN x = DOMAIN dios \cup {c}
    <3> HIDE DEF c
    <3> QED BY <1>3, <2>1, PutEntry DEF Put
  <2>3. x \in [DOMAIN x -> Entry] BY <2>2
  <2> QED BY <1>4, <2>1, <2>3, FlushBatch
<1>5. batch \in Seq(Record) BY DEF Fits
<1>6. batch' \in Seq(Record)
  <2>1. CASE e.op = "submit" /\ dio_stage_segment(e)
    BY <1>5, <2>1 DEF dio_stage_segment, Refuse
  <2>2. CASE e.op = "done" /\ dio_submit_done(e)
    <3>1. CASE d.done \/ d.aborted BY <1>5, <2>2, <3>1 DEF dio_submit_done, Refuse
    <3>2. CASE ~(d.done \/ d.aborted)
      <4>1. dio_flush_completed(Put(c, [d EXCEPT !.done = TRUE, !.size = e.size]), FALSE)
        BY <2>2, <3>2 DEF dio_submit_done
      <4>2. [d EXCEPT !.done = TRUE, !.size = e.size] \in Entry
        <5>1. d \in Entry /\ e \in Events BY <1>2, <2>2
        <5> HIDE DEF d, e
        <5> QED BY <5>1 DEF Entry, Events
      <4> QED BY <1>4, <4>1, <4>2
    <3> QED BY <3>1, <3>2
  <2>3. CASE e.op = "complete" /\ dio_note_completion(e)
    <3>1. CASE d.seen BY <1>5, <2>3, <3>1 DEF dio_note_completion, Refuse
    <3>2. CASE ~d.seen
      <4>1. dio_flush_completed(
              Put(c, [d EXCEPT !.seen = TRUE, !.res = e.ret, !.file = e.file,
                               !.order = next_completion_order]), FALSE)
        BY <2>3, <3>2 DEF dio_note_completion
      <4>2. [d EXCEPT !.seen = TRUE, !.res = e.ret, !.file = e.file,
                      !.order = next_completion_order] \in Entry
        <5>1. d \in Entry /\ e \in Events BY <1>2, <2>3
        <5> HIDE DEF d, e
        <5> QED BY <1>3, <5>1 DEF Entry, Events
      <4> QED BY <1>4, <4>1, <4>2
    <3> QED BY <3>1, <3>2
  <2>4. CASE e.op = "abort" /\ dio_abort(e)
    <3>1. dio_flush_completed(Put(c, [d EXCEPT !.aborted = TRUE, !.done = TRUE]), TRUE)
      BY <2>4 DEF dio_abort
    <3>2. [d EXCEPT !.aborted = TRUE, !.done = TRUE] \in Entry
      <4>1. d \in Entry BY <1>2, <2>4
      <4> HIDE DEF d
      <4> QED BY <4>1 DEF Entry
    <3> QED BY <1>4, <3>1, <3>2
  <2>5. CASE e.op = "write" /\ HandleWrite(e)
    <3>1. batch' = Append(batch, [file |-> e.file, off |-> e.off, data |-> e.data])
      BY <2>5 DEF HandleWrite
    <3>2. [file |-> e.file, off |-> e.off, data |-> e.data] \in Record
      <4> HIDE DEF e
      <4> QED BY <1>2 DEF Events, Record
    <3> HIDE DEF e
    <3> QED BY <1>5, <3>1, <3>2
  <2> QED BY <2>1, <2>2, <2>3, <2>4, <2>5 DEF handle_event
<1>7. \A i \in 1..Len(ring') : ring'[i].op = "write" => SyncWrites
  <2>1. ring \in Seq(Events) BY DEF Types, RingTypes
  <2>2. \A i \in 1..Len(ring') : i + 1 \in 1..Len(ring) /\ ring'[i] = ring[i + 1]
    BY <1>1, <2>1
  <2> QED BY <2>2 DEF Fits
<1> HIDE DEF e, c, d
<1> QED BY <1>1, <1>6, <1>7 DEF Fits

LEMMA FitsStep ==
  ASSUME Types, Queue, Fits, [Next]_vars
  PROVE  Fits'
<1>1. CASE UNCHANGED vars BY <1>1, FitsSame DEF vars, app, user, sink
<1>2. ASSUME NEW t \in Threads, handle_io_submit_one(t) PROVE Fits'
  <2>1. PICK c \in Cookies, op \in Request, ok \in BOOLEAN :
          /\ op.off + op.len <= Cells
          /\ io' = IF ok THEN [io EXCEPT ![c] = op] ELSE io
          /\ UNCHANGED <<disk, past, ring, user, sink>>
    BY <1>2 DEF handle_io_submit_one
  <2>2. \A b \in Cookies : io'[b] # NoOp => io'[b].off + io'[b].len <= Cells
    BY <2>1 DEF Fits, Types, AppTypes
  <2> QED BY <2>1, <2>2 DEF Fits, user, sink
<1>3. ASSUME NEW t \in Threads, InSubmit(t) PROVE Fits'
  <2>1. UNCHANGED <<disk, past, io, batch, backup>>
    BY <1>3 DEF InSubmit, handle_io_submit_one_exit, dio_emit_one, EmitDone, EmitAbort, Hook,
                app, user, sink
  <2>2. ASSUME NEW e \in Events, Emit(e), e.op # "write" PROVE Fits'
    BY <2>1, <2>2, FitsEmit DEF Fits
  <2>3. CASE handle_io_submit_one_exit(t)
    BY <2>1, <2>3, FitsSame DEF handle_io_submit_one_exit
  <2>4. CASE dio_emit_one(t)
    <3>1. pc[t] # "idle" BY <2>4 DEF dio_emit_one
    <3>2. CASE Emit(Segment(work[t])) BY <2>2, <3>1, <3>2, SegmentTyped
    <3>3. CASE UNCHANGED ring BY <2>1, <3>3, FitsSame
    <3> QED BY <2>4, <3>2, <3>3 DEF dio_emit_one, Segment
  <2>5. CASE EmitDone(t)
    <3>1. PICK e : e = [Event("done", work[t].cookie) EXCEPT !.size = work[t].sent] OBVIOUS
    <3>2. e \in Events /\ e.op = "done" BY <2>5, <3>1, EmitDoneTypes
    <3>3. Emit(e) BY <2>5, <3>1 DEF EmitDone
    <3> QED BY <2>2, <3>2, <3>3
  <2>6. CASE EmitAbort(t)
    <3>1. pc[t] # "idle" BY <2>6 DEF EmitAbort
    <3>2. PICK e : e = Event("abort", work[t].cookie) OBVIOUS
    <3>3. e \in Events /\ e.op = "abort" BY <3>1, <3>2, JobTyped, EventTyped
    <3>4. Emit(e) BY <2>6, <3>2 DEF EmitAbort
    <3> QED BY <2>2, <3>3, <3>4
  <2> QED BY <1>3, <2>3, <2>4, <2>5, <2>6 DEF InSubmit
<1>4. CASE capture_and_send
  <2>1. UNCHANGED <<disk, past, io, ring>> BY <1>4 DEF capture_and_send, app
  <2>2. CASE lost \/ batch_error BY <1>4, <2>1, <2>2, FitsSame DEF capture_and_send
  <2>3. CASE ~(lost \/ batch_error)
    <3>1. backup' = Written(backup, batch) /\ batch' = <<>> BY <1>4, <2>3 DEF capture_and_send
    <3>2. PICK f \in [0..Len(batch) -> Contents] :
            InTurnBy(f, backup, batch) /\ Written(backup, batch) = f[Len(batch)]
      BY WrittenSteps DEF Fits
    <3>3. Len(batch) \in 0..Len(batch) BY DEF Fits
    <3>4. backup' \in Contents /\ batch' \in Seq(Record) BY <3>1, <3>2, <3>3
    <3> QED BY <2>1, <3>4 DEF Fits
  <2> QED BY <2>2, <2>3
<1> QED BY <1>1, <1>2, <1>3, <1>4, FitsCompletion, FitsSync, FitsHandler DEF Next, Capturer

LEMMA FitsInit ==
  ASSUME Init
  PROVE  Fits /\ backup \in past
<1>1. /\ disk = [f \in Files |-> Repeat(Zero, Cells)] /\ past = {View(disk)} /\ batch = <<>>
      /\ backup = View(disk) /\ ring = <<>> /\ io = [c \in Cookies |-> NoOp]
  BY DEF Init
<1>2. Captured \subseteq Files /\ Cells \in Nat /\ Zero \in Cell BY DioAssumption, Bounds DEF Cell
<1>3. View(disk) \in Sized
  <2>1. Repeat(Zero, Cells) \in [1..Cells -> Cell] BY <1>2 DEF Repeat
  <2> QED BY <1>1, <1>2, <2>1 DEF View, Sized
<1>4. Len(ring) = 0 BY <1>1
<1> QED BY <1>1, <1>3, <1>4, SizedContents DEF Fits

-----------------------------------------------------------------------------
(* What the entry knows once the event is handled.                         *)

LEMMA WithinNext ==
  ASSUME NEW log, NEW h, NEW e, Next1(log, h, e), NEW op, NEW g
  PROVE  Within(log, h + 1, op, g) <=> Within(log, h, op, g) \/ (e.ev.op = op /\ e.id = g)
<1>1. /\ log[h + 1] = e /\ h + 1 \in 1..(h + 1)
      /\ \A i \in 1..h : i \in 1..(h + 1)
      /\ \A i \in 1..(h + 1) : i \in 1..h \/ i = h + 1
  BY DEF Next1
<1> QED BY <1>1, Zenon DEF Within

(* A payload is staged in order, up to its end.                            *)
LEMMA StagedNext ==
  ASSUME NEW log, NEW mate, NEW req, Entries(log, mate), Payload(log, req),
         NEW h, NEW e, Next1(log, h, e), e.ev.op = "submit",
         NEW d \in Entry, NEW s, Knows(d, e.id, log, h, s)
  PROVE  ~d.done /\ e.num = Len(d.segs) + 1
<1>1. Placed(log, req, h + 1) /\ h + 1 \in 1..Len(log) /\ log[h + 1] = e BY DEF Payload, Next1
<1>2. \A i \in 1..Len(log) : log[i].num \in Nat BY EntryCookie
<1>3. e.num \in Nat /\ e.num >= 1 BY <1>1, <1>2 DEF Placed
<1>4. d.segs \in Segs /\ Len(d.segs) \in Nat BY DEF Entry, Segs
<1>5. ~d.done
  <2> SUFFICES ASSUME d.done PROVE FALSE OBVIOUS
  <2>1. PICK j \in 1..h : log[j].ev.op = "done" /\ log[j].id = e.id BY DEF Knows, Within
  <2>2. j \in 1..Len(log) /\ ~(h + 1 < j) BY <2>1 DEF Next1
  <2> QED BY <1>1, <2>1, <2>2 DEF Placed
<1>6. \A k \in 1..Len(d.segs) : k < e.num
  <2> SUFFICES ASSUME NEW k \in 1..Len(d.segs) PROVE k < e.num OBVIOUS
  <2>1. PICK i \in 1..h : log[i].ev.op = "submit" /\ log[i].id = e.id /\ log[i].num = k
    BY DEF Knows
  <2>2. i \in 1..Len(log) /\ i < h + 1 BY <2>1 DEF Next1
  <2>3. Placed(log, req, i) BY <2>1, <2>2 DEF Payload
  <2> QED BY <1>1, <2>1, <2>2, <2>3 DEF Placed
<1>7. ~(Len(d.segs) + 1 < e.num)
  <2> SUFFICES ASSUME Len(d.segs) + 1 < e.num PROVE FALSE OBVIOUS
  <2>1. Len(d.segs) + 1 \in 1..e.num BY <1>3, <1>4
  <2>2. PICK j \in 1..(h + 1) :
          log[j].ev.op = "submit" /\ log[j].id = e.id /\ log[j].num = Len(d.segs) + 1
    BY <1>1, <2>1 DEF Placed
  <2>3. j # h + 1 BY <1>1, <1>4, <2>2, <1>3
  <2>4. j \in 1..h BY <2>2, <2>3 DEF Next1
  <2>5. log[j].num \in 1..Len(d.segs) BY <2>2, <2>4 DEF Knows
  <2> QED BY <1>4, <2>2, <2>5
<1>8. Len(d.segs) < e.num
  <2>1. CASE Len(d.segs) = 0 BY <1>3, <2>1
  <2>2. CASE Len(d.segs) # 0
    <3>1. Len(d.segs) \in 1..Len(d.segs) BY <1>4, <2>2
    <3> QED BY <1>6, <3>1
  <2> QED BY <2>1, <2>2
<1> QED BY <1>3, <1>4, <1>5, <1>7, <1>8

LEMMA KnowsSubmit ==
  ASSUME NEW log, NEW mate, NEW req, Entries(log, mate), Payload(log, req),
         NEW h, NEW e, Next1(log, h, e), e.ev.op = "submit",
         NEW d \in Entry, NEW s, Knows(d, e.id, log, h, s),
         NEW n, n = [d EXCEPT !.segs = Append(@, SegmentOf(e.ev))]
  PROVE  Knows(n, e.id, log, h + 1, s) /\ n \in Entry
<1>1. e.num = Len(d.segs) + 1 BY StagedNext
<1>2. SegmentOf(e.ev) \in [off : Nat, data : Seq(Cell), truncated : BOOLEAN]
  <2>1. e \in Logged BY EntryCookie DEF Next1
  <2> QED BY <2>1 DEF Logged, Events, SegmentOf
<1>3. PICK q : q = SegmentOf(e.ev) OBVIOUS
<1>4. PICK segs \in Segs :
        /\ segs = Append(d.segs, q) /\ Len(segs) = Len(d.segs) + 1 /\ Len(d.segs) \in Nat
        /\ segs[Len(d.segs) + 1] = q
        /\ \A k \in 1..Len(d.segs) : segs[k] = d.segs[k]
  <2>1. PICK S : S = [off : Nat, data : Seq(Cell), truncated : BOOLEAN] OBVIOUS
  <2>2. d.segs \in Seq(S) /\ q \in S BY <1>2, <1>3, <2>1 DEF Entry, Segs
  <2>3. /\ Append(d.segs, q) \in Seq(S) /\ Len(Append(d.segs, q)) = Len(d.segs) + 1
        /\ Len(d.segs) \in Nat /\ Append(d.segs, q)[Len(d.segs) + 1] = q
        /\ \A k \in 1..Len(d.segs) : Append(d.segs, q)[k] = d.segs[k]
    BY <2>2
  <2>4. Append(d.segs, q) \in Segs BY <2>1, <2>3 DEF Segs
  <2> QED BY <2>3, <2>4
<1>5. n \in Entry /\ n = [d EXCEPT !.segs = segs] BY <1>3, <1>4 DEF Entry
<1>6. /\ n.segs = segs /\ n.done = d.done /\ n.seen = d.seen /\ n.aborted = d.aborted
      /\ n.size = d.size /\ n.order = d.order /\ n.res = d.res /\ n.file = d.file
  BY <1>5 DEF Entry
<1>7. /\ n.done <=> Within(log, h + 1, "done", e.id)
      /\ n.seen <=> Within(log, h + 1, "complete", e.id)
      /\ ~n.aborted
  BY <1>6, WithinNext DEF Knows
<1>8. \A k \in 1..Len(n.segs) : \E i \in 1..(h + 1) :
        log[i].ev.op = "submit" /\ log[i].id = e.id /\ log[i].num = k
  <2> SUFFICES ASSUME NEW k \in 1..Len(n.segs)
               PROVE  \E i \in 1..(h + 1) :
                        log[i].ev.op = "submit" /\ log[i].id = e.id /\ log[i].num = k
    OBVIOUS
  <2>1. CASE k \in 1..Len(d.segs)
    <3>1. PICK i \in 1..h : log[i].ev.op = "submit" /\ log[i].id = e.id /\ log[i].num = k
      BY <2>1 DEF Knows
    <3> QED BY <3>1 DEF Next1
  <2>2. CASE k \notin 1..Len(d.segs)
    <3>1. k = e.num BY <1>1, <1>4, <1>6, <2>2
    <3> QED BY <3>1 DEF Next1
  <2> QED BY <2>1, <2>2
<1>9. ASSUME NEW i \in 1..(h + 1), log[i].id = e.id
      PROVE  /\ log[i].ev.op = "submit" =>
                  /\ log[i].num \in 1..Len(n.segs)
                  /\ ~log[i].ev.truncated => n.segs[log[i].num] = SegmentOf(log[i].ev)
             /\ log[i].ev.op = "done" => n.size = log[i].ev.size
             /\ log[i].ev.op = "complete" =>
                  /\ InTurn => n.order + s = log[i].num
                  /\ n.res = log[i].ev.ret /\ n.file = log[i].ev.file
  <2>1. CASE i \in 1..h
    <3>1. /\ log[i].ev.op = "submit" =>
               /\ log[i].num \in 1..Len(d.segs)
               /\ ~log[i].ev.truncated => d.segs[log[i].num] = SegmentOf(log[i].ev)
          /\ log[i].ev.op = "done" => d.size = log[i].ev.size
          /\ log[i].ev.op = "complete" =>
               /\ InTurn => d.order + s = log[i].num
               /\ d.res = log[i].ev.ret /\ d.file = log[i].ev.file
      BY <1>9, <2>1 DEF Knows
    <3>2. \A k \in 1..Len(d.segs) : k \in 1..Len(segs) BY <1>4
    <3> QED BY <1>4, <1>6, <3>1, <3>2
  <2>2. CASE i \notin 1..h
    <3>1. log[i] = e BY <2>2 DEF Next1
    <3>2. e.num \in 1..Len(segs) /\ segs[e.num] = SegmentOf(e.ev) BY <1>1, <1>3, <1>4
    <3> QED BY <1>6, <3>1, <3>2
  <2> QED BY <2>1, <2>2
<1> QED BY <1>5, <1>7, <1>8, <1>9 DEF Knows

(* The done, or the complete, that is handled is the only one.             *)
LEMMA OnceNext ==
  ASSUME NEW log, Once(log), NEW h, NEW e, Next1(log, h, e), NEW op \in {"done", "complete"},
         e.ev.op = op
  PROVE  ~Within(log, h, op, e.id)
<1> SUFFICES ASSUME Within(log, h, op, e.id) PROVE FALSE OBVIOUS
<1>1. PICK j \in 1..h : log[j].ev.op = op /\ log[j].id = e.id BY DEF Within
<1>2. j \in 1..Len(log) /\ j # h + 1 /\ h + 1 \in 1..Len(log) /\ log[h + 1] = e BY DEF Next1
<1> QED BY <1>1, <1>2 DEF Once

Ended(d, size) == [d EXCEPT !.done = TRUE, !.size = size]
Completed(d, ev, k) ==
  [d EXCEPT !.seen = TRUE, !.res = ev.ret, !.file = ev.file, !.order = k]

LEMMA KnowsDone ==
  ASSUME NEW log, NEW mate, Entries(log, mate), Once(log),
         NEW h, NEW e, Next1(log, h, e), e.ev.op = "done",
         NEW d \in Entry, NEW s, Knows(d, e.id, log, h, s),
         NEW n, n = Ended(d, e.ev.size)
  PROVE  Knows(n, e.id, log, h + 1, s) /\ n \in Entry /\ ~d.done
<1>1. ~Within(log, h, "done", e.id) BY OnceNext
<1>2. ~d.done BY <1>1 DEF Knows
<1>3. e \in Logged /\ e.ev.size \in Nat
  <2>1. e \in Logged BY EntryCookie DEF Next1
  <2> QED BY <2>1 DEF Logged, Events
<1>4. n \in Entry BY <1>3 DEF Entry, Ended
<1>5. /\ n.segs = d.segs /\ n.done = TRUE /\ n.seen = d.seen /\ n.aborted = d.aborted
      /\ n.size = e.ev.size /\ n.order = d.order /\ n.res = d.res /\ n.file = d.file
  BY DEF Entry, Ended
<1>6. /\ n.done <=> Within(log, h + 1, "done", e.id)
      /\ n.seen <=> Within(log, h + 1, "complete", e.id)
      /\ ~n.aborted
  BY <1>5, WithinNext DEF Knows
<1>7. \A k \in 1..Len(n.segs) : \E i \in 1..(h + 1) :
        log[i].ev.op = "submit" /\ log[i].id = e.id /\ log[i].num = k
  <2>1. \A k \in 1..Len(d.segs) : \E i \in 1..h :
          log[i].ev.op = "submit" /\ log[i].id = e.id /\ log[i].num = k
    BY DEF Knows
  <2>2. \A i \in 1..h : i \in 1..(h + 1) BY DEF Next1
  <2> QED BY <1>5, <2>1, <2>2
<1>8. ASSUME NEW i \in 1..(h + 1), log[i].id = e.id
      PROVE  /\ log[i].ev.op = "submit" =>
                  /\ log[i].num \in 1..Len(n.segs)
                  /\ ~log[i].ev.truncated => n.segs[log[i].num] = SegmentOf(log[i].ev)
             /\ log[i].ev.op = "done" => n.size = log[i].ev.size
             /\ log[i].ev.op = "complete" =>
                  /\ InTurn => n.order + s = log[i].num
                  /\ n.res = log[i].ev.ret /\ n.file = log[i].ev.file
  <2>1. CASE i \in 1..h
    <3>1. log[i].ev.op # "done" BY <1>1, <1>8, <2>1 DEF Within
    <3> QED BY <1>5, <1>8, <2>1, <3>1 DEF Knows
  <2>2. CASE i \notin 1..h
    <3>1. log[i] = e BY <2>2 DEF Next1
    <3> QED BY <1>5, <3>1
  <2> QED BY <2>1, <2>2
<1> QED BY <1>2, <1>4, <1>6, <1>7, <1>8 DEF Knows

(* A change of the files is handled when its turn has come.                *)
LEMMA TurnNext ==
  ASSUME NEW log, NEW mate, NEW req, NEW content, NEW top, Entries(log, mate),
         Effects(log, req, content, top), NEW h, NEW e, Next1(log, h, e), IsEffect(e),
         NEW s, Counted(log, h, s, top), next_completion_order \in Nat
  PROVE  /\ e.num = next_completion_order + s /\ e.num \in 0..(top - 1) /\ s \in Nat
         /\ top \in Nat
         /\ \A i \in 1..Len(log) :
              IsEffect(log[i]) => (i <= h + 1 <=> log[i].num < next_completion_order + s + 1)
<1>1. /\ s \in Nat /\ top \in Nat /\ h \in Nat /\ h + 1 \in 1..Len(log) /\ log[h + 1] = e
      /\ Len(log) \in Nat
  BY DEF Counted, Effects, Next1
<1>2. PICK k : k = next_completion_order + s OBVIOUS
<1>3. k \in Nat BY <1>1, <1>2
<1>4. e.num \in 0..(top - 1) BY <1>1 DEF Effects
<1>5. ~(e.num < k)
  <2>1. ~(h + 1 <= h) BY <1>1
  <2> QED BY <1>1, <1>2, <2>1 DEF Counted
<1>6. ~(k < e.num)
  <2> SUFFICES ASSUME k < e.num PROVE FALSE OBVIOUS
  <2>1. k \in 0..(top - 1) BY <1>1, <1>3, <1>4
  <2>2. PICK i \in 1..Len(log) : IsEffect(log[i]) /\ log[i].num = k BY <2>1 DEF Effects
  <2>3. ~(i <= h) BY <1>2, <1>3, <2>2 DEF Counted
  <2>4. h + 1 < i
    <3>1. i # h + 1 BY <1>1, <1>3, <1>4, <2>2
    <3> QED BY <1>1, <2>3, <3>1
  <2>5. e.num < log[i].num BY <1>1, <2>2, <2>4 DEF Effects
  <2> QED BY <1>3, <1>4, <2>2, <2>5
<1>7. e.num = k BY <1>3, <1>4, <1>5, <1>6
<1>8. ASSUME NEW i \in 1..Len(log), IsEffect(log[i])
      PROVE  i <= h + 1 <=> log[i].num < k + 1
  <2>1. log[i].num \in 0..(top - 1) BY <1>8 DEF Effects
  <2>2. i <= h <=> log[i].num < k BY <1>2, <1>8 DEF Counted
  <2>3. h + 1 < i => e.num < log[i].num BY <1>1, <1>8 DEF Effects
  <2>4. i = h + 1 => log[i].num = k BY <1>1, <1>7
  <2>5. i \in Nat /\ log[i].num \in Nat BY <1>1, <2>1
  <2> QED BY <1>1, <1>3, <1>7, <2>2, <2>3, <2>4, <2>5
<1> QED BY <1>1, <1>2, <1>4, <1>7, <1>8

LEMMA KnowsComplete ==
  ASSUME NEW log, NEW mate, NEW req, NEW content, NEW top, Entries(log, mate), Once(log),
         Effects(log, req, content, top),
         NEW h, NEW e, Next1(log, h, e), e.ev.op = "complete",
         NEW s, Counted(log, h, s, top), next_completion_order \in Nat,
         NEW d \in Entry, Knows(d, e.id, log, h, s),
         NEW n, n = Completed(d, e.ev, next_completion_order)
  PROVE  Knows(n, e.id, log, h + 1, s) /\ n \in Entry /\ ~d.seen
<1>1. ~Within(log, h, "complete", e.id) BY OnceNext
<1>2. ~d.seen BY <1>1 DEF Knows
<1>3. e.ev.ret \in Nat /\ e.ev.file \in Files \cup {NoOp}
  <2>1. e \in Logged BY EntryCookie DEF Next1
  <2> QED BY <2>1 DEF Logged, Events
<1>4. n \in Entry BY <1>3 DEF Entry, Completed
<1>5. /\ n.segs = d.segs /\ n.done = d.done /\ n.seen = TRUE /\ n.aborted = d.aborted
      /\ n.size = d.size /\ n.order = next_completion_order /\ n.res = e.ev.ret
      /\ n.file = e.ev.file
  BY DEF Entry, Completed
<1>6. /\ n.done <=> Within(log, h + 1, "done", e.id)
      /\ n.seen <=> Within(log, h + 1, "complete", e.id)
      /\ ~n.aborted
  BY <1>5, WithinNext DEF Knows
<1>7. \A k \in 1..Len(n.segs) : \E i \in 1..(h + 1) :
        log[i].ev.op = "submit" /\ log[i].id = e.id /\ log[i].num = k
  <2>1. \A k \in 1..Len(d.segs) : \E i \in 1..h :
          log[i].ev.op = "submit" /\ log[i].id = e.id /\ log[i].num = k
    BY DEF Knows
  <2>2. \A i \in 1..h : i \in 1..(h + 1) BY DEF Next1
  <2> QED BY <1>5, <2>1, <2>2
<1>8. ASSUME NEW i \in 1..(h + 1), log[i].id = e.id
      PROVE  /\ log[i].ev.op = "submit" =>
                  /\ log[i].num \in 1..Len(n.segs)
                  /\ ~log[i].ev.truncated => n.segs[log[i].num] = SegmentOf(log[i].ev)
             /\ log[i].ev.op = "done" => n.size = log[i].ev.size
             /\ log[i].ev.op = "complete" =>
                  /\ InTurn => n.order + s = log[i].num
                  /\ n.res = log[i].ev.ret /\ n.file = log[i].ev.file
  <2>1. CASE i \in 1..h
    <3>1. log[i].ev.op # "complete" BY <1>1, <1>8, <2>1 DEF Within
    <3> QED BY <1>5, <1>8, <2>1, <3>1 DEF Knows
  <2>2. CASE i \notin 1..h
    <3>1. log[i] = e BY <2>2 DEF Next1
    <3>2. e.num = next_completion_order + s
      <4>1. IsEffect(e) BY DEF IsEffect
      <4> QED BY <4>1, TurnNext
    <3> QED BY <1>5, <3>1, <3>2
  <2> QED BY <2>1, <2>2
<1> QED BY <1>2, <1>4, <1>6, <1>7, <1>8 DEF Knows

-----------------------------------------------------------------------------
(* What the table tells once the event is handled.                         *)

LEMMA TellsOther ==
  ASSUME NEW log, NEW h, NEW e, Next1(log, h, e), NEW d, NEW g, e.id # g, NEW s,
         Tells(d, g, log, h, s)
  PROVE  Tells(d, g, log, h + 1, s)
<1>1. /\ \A i \in 1..h : i \in 1..(h + 1)
      /\ \A i \in 1..(h + 1) : log[i].id = g => i \in 1..h
  BY DEF Next1
<1>2. Knows(d, g, log, h, s) /\ \E i \in 1..h : log[i].id = g BY DEF Tells
<1>3. \A op : Within(log, h + 1, op, g) <=> Within(log, h, op, g) BY <1>1 DEF Within
<1>4. \A k \in 1..Len(d.segs) : \E i \in 1..(h + 1) :
        log[i].ev.op = "submit" /\ log[i].id = g /\ log[i].num = k
  BY <1>1, <1>2 DEF Knows
<1>5. Knows(d, g, log, h + 1, s) BY <1>1, <1>2, <1>3, <1>4 DEF Knows
<1> QED BY <1>1, <1>2, <1>5 DEF Tells

LEMMA PutThere ==
  ASSUME Types, NEW c, NEW n \in Entry, NEW d, d = Put(c, n)
  PROVE  /\ d \in [DOMAIN d -> Entry] /\ DOMAIN d = DOMAIN dios \cup {c} /\ d[c] = n
         /\ \A x \in DOMAIN dios : x # c => d[x] = dios[x]
<1>1. dios \in [DOMAIN dios -> Entry] BY DEF Types, TableTypes
<1>2. d = [x \in DOMAIN dios \cup {c} |-> IF x = c THEN n ELSE dios[x]] BY DEF Put, Set
<1>3. DOMAIN d = DOMAIN dios \cup {c} /\ d[c] = n /\ \A x \in DOMAIN dios : x # c => d[x] = dios[x]
  BY <1>2
<1>4. d \in [DOMAIN d -> Entry] BY <1>1, <1>2
<1> QED BY <1>3, <1>4

LEMMA ToldPut ==
  ASSUME Types, NEW log, NEW mate, Entries(log, mate), NEW h, NEW own, NEW s,
         Told(dios, own, log, mate, h, s), NEW e, Next1(log, h, e), e.ev.op # "write",
         NEW c \in Cookies, c = e.ev.cookie, c \in DOMAIN dios => own[c] = e.id,
         NEW n \in Entry, Knows(n, e.id, log, h + 1, s)
  PROVE  Told(Put(c, n), [own EXCEPT ![c] = e.id], log, mate, h + 1, s)
<1>1. PICK own2 : own2 = [own EXCEPT ![c] = e.id] OBVIOUS
<1>2. PICK d : d = Put(c, n) OBVIOUS
<1>3. /\ DOMAIN d = DOMAIN dios \cup {c} /\ d[c] = n
      /\ \A x \in DOMAIN dios : x # c => d[x] = dios[x]
  BY <1>2 DEF Put, Set
<1>4. mate[e.id] = c /\ e.id \in Nat /\ e \in Logged BY EntryCookie DEF Next1, Logged
<1>5. own \in [Cookies -> Nat] /\ DOMAIN dios \subseteq Cookies BY DEF Told, Types, TableTypes
<1>6. own2 \in [Cookies -> Nat] /\ own2[c] = e.id /\ \A x \in Cookies : x # c => own2[x] = own[x]
  BY <1>1, <1>4, <1>5
<1>7. Tells(d[c], own2[c], log, h + 1, s) /\ mate[own2[c]] = c
  <2>1. h + 1 \in 1..(h + 1) /\ log[h + 1] = e BY DEF Next1
  <2> QED BY <1>3, <1>4, <1>6, <2>1 DEF Tells
<1>8. ASSUME NEW x \in DOMAIN d, x # c
      PROVE  Tells(d[x], own2[x], log, h + 1, s) /\ mate[own2[x]] = x
  <2>1. x \in DOMAIN dios /\ d[x] = dios[x] /\ own2[x] = own[x] BY <1>3, <1>5, <1>6, <1>8
  <2>2. Tells(dios[x], own[x], log, h, s) /\ mate[own[x]] = x BY <2>1 DEF Told
  <2>3. e.id # own[x] BY <1>4, <1>8, <2>2
  <2>4. Tells(dios[x], own[x], log, h + 1, s) BY <2>2, <2>3, TellsOther
  <2> QED BY <2>1, <2>2, <2>4
<1>9. ASSUME NEW i \in 1..(h + 1), log[i].ev.op # "write"
      PROVE  \/ log[i].ev.cookie \in DOMAIN d /\ own2[log[i].ev.cookie] = log[i].id
             \/ Within(log, h + 1, "done", log[i].id) /\ Within(log, h + 1, "complete", log[i].id)
  <2>1. CASE i \in 1..h
    <3>1. CASE log[i].ev.cookie \in DOMAIN dios /\ own[log[i].ev.cookie] = log[i].id
      BY <1>3, <1>5, <1>6, <3>1
    <3>2. CASE Within(log, h, "done", log[i].id) /\ Within(log, h, "complete", log[i].id)
      BY <3>2, WithinNext
    <3> QED BY <1>9, <2>1, <3>1, <3>2 DEF Told
  <2>2. CASE i \notin 1..h
    <3>1. log[i] = e BY <2>2 DEF Next1
    <3> QED BY <1>3, <1>6, <3>1
  <2> QED BY <2>1, <2>2
<1>10. \A x \in DOMAIN d : mate[own2[x]] = x /\ Tells(d[x], own2[x], log, h + 1, s)
  BY <1>7, <1>8
<1>11. Told(d, own2, log, mate, h + 1, s) BY <1>6, <1>9, <1>10 DEF Told
<1> QED BY <1>1, <1>2, <1>11

(* Only writes of which both halves have come leave the table.             *)
LEMMA ToldKept ==
  ASSUME NEW d, NEW own, NEW log, NEW mate, NEW h, NEW s, Told(d, own, log, mate, h, s), Kept(d)
  PROVE  Told(dios', own, log, mate, h, s)
<1>1. \A x \in DOMAIN dios' : x \in DOMAIN d /\ dios'[x] = d[x] BY DEF Kept
<1>2. ASSUME NEW i \in 1..h, log[i].ev.op # "write"
      PROVE  \/ log[i].ev.cookie \in DOMAIN dios' /\ own[log[i].ev.cookie] = log[i].id
             \/ Within(log, h, "done", log[i].id) /\ Within(log, h, "complete", log[i].id)
  <2>1. CASE /\ log[i].ev.cookie \in DOMAIN d /\ own[log[i].ev.cookie] = log[i].id
             /\ log[i].ev.cookie \notin DOMAIN dios'
    <3>1. PICK x : x = log[i].ev.cookie OBVIOUS
    <3>2. d[x].seen /\ d[x].done BY <2>1, <3>1 DEF Kept
    <3>3. Knows(d[x], log[i].id, log, h, s) BY <2>1, <3>1 DEF Told, Tells
    <3> QED BY <3>2, <3>3 DEF Knows
  <2> QED BY <1>2, <2>1 DEF Told
<1> QED BY <1>1, <1>2 DEF Told

-----------------------------------------------------------------------------
(* A write whose halves have both come is committed as what it was.        *)

Promised(e, log, req, content, h, s) ==
  /\ ~CommitFails(e)
  /\ InTurn => content[e.order + s + 1] = Written(content[e.order + s], Records(e))

LEMMA CommitOne ==
  ASSUME Fits, NEW log, NEW mate, NEW req, NEW content, NEW top,
         Numbers(mate, req), Entries(log, mate), Payload(log, req),
         Effects(log, req, content, top), NEW h, h <= Len(log), h \in Nat,
         NEW e \in Entry, NEW g, NEW s, Tells(e, g, log, h, s), e.done, e.seen,
         mate[g] \in Cookies
  PROVE  Promised(e, log, req, content, h, s)
<1> DEFINE r == req[g]
<1>1. /\ Len(log) \in Nat /\ \A i \in 1..h : i \in 1..Len(log)
      /\ \A i \in 1..Len(log) : log[i].id \in 1..count /\ log[i].ev \in Events
  <2>1. log \in Seq(Logged) BY DEF Entries
  <2> QED BY <2>1, EntryCookie
<1>2. PICK i \in 1..h : log[i].ev.op = "done" /\ log[i].id = g BY DEF Tells, Knows, Within
<1>3. PICK l \in 1..h : log[l].ev.op = "complete" /\ log[l].id = g BY DEF Tells, Knows, Within
<1>4. r \in Request /\ r.id = g /\ r.off + r.len <= Cells /\ g \in 1..count
  BY <1>1, <1>2 DEF Numbers
<1>5. /\ e.size = log[i].ev.size /\ e.res = log[l].ev.ret /\ e.file = log[l].ev.file
      /\ InTurn => e.order + s = log[l].num
  BY <1>2, <1>3 DEF Tells, Knows
<1>6. Whole(log, req, i) BY <1>1, <1>2 DEF Payload
<1>7. e.size = r.len BY <1>2, <1>5, <1>6 DEF Whole
<1>8. ASSUME NEW j \in 1..Len(log), log[j].ev.op = "submit", log[j].id = g
      PROVE  /\ log[j].num \in 1..Len(e.segs) /\ log[j].num <= Parts(r)
             /\ e.segs[log[j].num] = Part(r, log[j].num)
  <2>1. Placed(log, req, j) BY <1>8 DEF Payload
  <2>2. i \in 1..Len(log) BY <1>1
  <2>3. j < i BY <1>2, <1>8, <2>1, <2>2 DEF Placed
  <2>4. Has(log, "done", g) BY <1>2, <2>2 DEF Has, Within
  <2>5. ~log[j].ev.truncated /\ log[j].num <= Parts(r)
        /\ SegmentOf(log[j].ev) = Part(r, log[j].num)
    BY <1>8, <2>1, <2>4 DEF Placed
  <2>6. j \in 1..h BY <2>3
  <2>7. log[j].num \in 1..Len(e.segs) /\ e.segs[log[j].num] = SegmentOf(log[j].ev)
    BY <1>8, <2>5, <2>6 DEF Tells, Knows
  <2> QED BY <2>5, <2>7
<1>9. Parts(r) \in Nat \ {0} /\ Len(e.segs) \in Nat
  <2>1. Len(e.segs) \in Nat BY DEF Entry, Segs
  <2>2. r.len \in 1..MaxLen BY <1>4, RequestTyped
  <2> HIDE DEF r
  <2> QED BY <2>1, <2>2 DEF Parts
<1>10. \A k \in 1..Parts(r) : k \in 1..Len(e.segs) /\ e.segs[k] = Part(r, k)
  <2> SUFFICES ASSUME NEW k \in 1..Parts(r)
               PROVE  k \in 1..Len(e.segs) /\ e.segs[k] = Part(r, k)
    OBVIOUS
  <2>1. PICK j \in 1..Len(log) : log[j].ev.op = "submit" /\ log[j].id = g /\ log[j].num = k
    BY <1>2, <1>6 DEF Whole
  <2> QED BY <1>8, <2>1
<1>11. \A k \in 1..Len(e.segs) : k <= Parts(r)
  <2> SUFFICES ASSUME NEW k \in 1..Len(e.segs) PROVE k <= Parts(r) OBVIOUS
  <2>1. PICK j \in 1..h : log[j].ev.op = "submit" /\ log[j].id = g /\ log[j].num = k
    BY DEF Tells, Knows
  <2> QED BY <1>1, <1>8, <2>1
<1>12. Full(e, r)
  <2>1. Parts(r) \in 1..Parts(r) BY <1>9
  <2>2. Parts(r) <= Len(e.segs) BY <1>10, <2>1
  <2>3. Len(e.segs) \in 1..Len(e.segs) BY <1>9, <2>2
  <2>4. Len(e.segs) <= Parts(r) BY <1>11, <2>3
  <2>5. Len(e.segs) = Parts(r) BY <1>9, <2>2, <2>4
  <2> QED BY <1>10, <2>5 DEF Full
<1>13. Staged(e.segs) = e.size BY <1>4, <1>7, <1>12, FullStaged
<1>14. IsEffect(log[l]) /\ l \in 1..Len(log) BY <1>1, <1>3 DEF IsEffect
<1>15. e.res \in 0..r.len /\ e.file \in Captured \cup {NoOp}
  BY <1>3, <1>5, <1>14 DEF Effects
<1>16. /\ Taken(e).left = 0 /\ ~Taken(e).cut
       /\ \A files \in Sized : e.file \in Captured =>
            Written(files, Taken(e).records)
              = Write(files, [file |-> e.file, off |-> r.off, data |-> Repeat(r.id, e.res)])
  BY <1>4, <1>12, <1>15, FullTaken
<1>17. ~CommitFails(e) /\ ~e.aborted BY <1>13, <1>16 DEF CommitFails, Tells, Knows
<1>18. ASSUME InTurn
       PROVE  content[e.order + s + 1] = Written(content[e.order + s], Records(e))
  <2>1. PICK k : k = log[l].num OBVIOUS
  <2>2. k = e.order + s BY <1>5, <1>18, <2>1
  <2>3. k \in 0..(top - 1) /\ top \in Nat /\ content[k + 1] = Changed(content[k], log[l], req)
    BY <1>14, <2>1 DEF Effects
  <2>4. content[k] \in Sized
    <3>1. k \in 0..top BY <2>3
    <3> QED BY <3>1 DEF Effects, Fits
  <2>5. CASE e.file = NoOp
    <3>1. Records(e) = <<>> BY <2>5 DEF Records
    <3>2. log[l].ev.file \notin Captured
      BY <1>5, <2>5, NoOpApart, DioAssumption
    <3>3. content[k + 1] = content[k] BY <2>3, <3>2 DEF Changed
    <3>4. Written(content[k], <<>>) = content[k] BY <2>4, SizedContents, WrittenNone
    <3> QED BY <2>2, <3>1, <3>3, <3>4
  <2>6. CASE e.file \in Captured
    <3>1. e.file # NoOp BY <2>6, NoOpApart, DioAssumption
    <3>2. Records(e) = Taken(e).records BY <1>13, <1>17, <3>1 DEF Records
    <3>3. Change(log[l], req) = [file |-> e.file, off |-> r.off, data |-> Repeat(r.id, e.res)]
      BY <1>3, <1>4, <1>5 DEF Change
    <3>4. content[k + 1] = Write(content[k], Change(log[l], req))
      BY <1>5, <2>3, <2>6 DEF Changed
    <3>5. Written(content[k], Taken(e).records)
            = Write(content[k], [file |-> e.file, off |-> r.off, data |-> Repeat(r.id, e.res)])
      BY <1>16, <2>4, <2>6
    <3> QED BY <2>2, <3>2, <3>3, <3>4, <3>5
  <2> QED BY <1>15, <2>5, <2>6
<1> QED BY <1>17, <1>18 DEF Promised

(* A flush commits the writes in the order of the changes they have made.  *)
LEMMA FlushFiled ==
  ASSUME Types, Fits, NEW log, NEW mate, NEW req, NEW content, NEW top,
         Numbers(mate, req), Entries(log, mate), Payload(log, req),
         Effects(log, req, content, top), NEW h, h <= Len(log), h \in Nat,
         NEW d, d \in [DOMAIN d -> Entry], DOMAIN d \subseteq Cookies,
         NEW own, NEW s, s \in Nat, Told(d, own, log, mate, h, s), Filed(content, s),
         dio_flush_completed(d, FALSE), UNCHANGED backup
  PROVE  batch_error' = batch_error /\ Filed(content, s)'
<1>1. next_commit_order \in Nat /\ next_completion_order \in Nat /\ batch_error \in BOOLEAN
  BY DEF Types, TableTypes
<1>2. PICK m : m = Cardinality(Turns(d, next_commit_order, next_completion_order)) OBVIOUS
<1>3. /\ next_commit_order' = next_commit_order + m /\ batch' = Batched(d, m)
      /\ batch_error' = (batch_error \/ FALSE \/
           \E i \in 1..m : CommitFails(d[At(d, next_commit_order + i - 1)]))
  BY <1>1, <1>2, FlushNamed
<1>4. /\ m \in Nat
      /\ \A j \in 1..m : At(d, next_commit_order + j - 1) \in Ready(d, next_commit_order + j - 1)
  BY <1>1, <1>2, FlushReady
<1>5. ASSUME NEW j \in 1..m
      PROVE  LET x == d[At(d, next_commit_order + j - 1)]
             IN /\ x \in Entry /\ x.order = next_commit_order + j - 1
                /\ Promised(x, log, req, content, h, s)
  <2>1. PICK a : a = At(d, next_commit_order + j - 1) OBVIOUS
  <2>2. a \in DOMAIN d /\ d[a].seen /\ d[a].done /\ d[a].order = next_commit_order + j - 1
    BY <1>4, <2>1 DEF Ready
  <2>3. d[a] \in Entry /\ mate[own[a]] \in Cookies /\ Tells(d[a], own[a], log, h, s)
    BY <2>2 DEF Told
  <2>4. Promised(d[a], log, req, content, h, s) BY <2>2, <2>3, CommitOne
  <2> QED BY <2>1, <2>2, <2>3, <2>4
<1>6. \A j \in 1..m : ~CommitFails(d[At(d, next_commit_order + j - 1)])
  BY <1>5 DEF Promised
<1>7. batch_error' = batch_error BY <1>1, <1>3, <1>6
<1>8. ASSUME InTurn
      PROVE  content[next_commit_order + m + s] = Written(backup, batch')
  <2>1. batch \in Seq(Record) /\ backup \in Contents BY DEF Fits
  <2>2. \A j \in 1..m : Committed(d, j) \in Seq(Record)
    BY <1>5, RecordsTyped DEF Committed
  <2>3. PICK f \in [0..m -> Seq(Record)] : BatchedBy(f, d, m) /\ Batched(d, m) = f[m]
    BY <1>4, <2>1, <2>2, BatchedSteps
  <2> DEFINE P(j) == j <= m => content[next_commit_order + j + s] = Written(backup, f[j])
             S == {j \in Nat : P(j)}
  <2>4. 0 \in S
    <3>1. content[next_commit_order + s] = Written(backup, batch) BY <1>8 DEF Filed
    <3>2. f[0] = batch BY <2>3 DEF BatchedBy
    <3>3. next_commit_order + 0 + s = next_commit_order + s BY <1>1
    <3> QED BY <3>1, <3>2, <3>3
  <2>5. ASSUME NEW j \in S PROVE j + 1 \in S
    <3>1. CASE ~(j + 1 <= m) BY <3>1
    <3>2. CASE j + 1 <= m
      <4>1. PICK i : i = j + 1 OBVIOUS
      <4>2. i \in 1..m /\ j \in 0..m /\ j \in Nat /\ j <= m /\ i - 1 = j BY <1>4, <3>2, <4>1
      <4>3. content[next_commit_order + j + s] = Written(backup, f[j]) BY <4>2
      <4>4. PICK x : x = d[At(d, next_commit_order + i - 1)] OBVIOUS
      <4>5. x.order = next_commit_order + i - 1 /\ Promised(x, log, req, content, h, s)
        BY <1>5, <4>2, <4>4
      <4>6. content[x.order + s + 1] = Written(content[x.order + s], Records(x))
        BY <1>8, <4>5 DEF Promised
      <4>7. x.order + s = next_commit_order + j + s
            /\ x.order + s + 1 = next_commit_order + (j + 1) + s
        BY <1>1, <4>1, <4>2, <4>5
      <4>8. f[i] = f[i - 1] \o Committed(d, i) /\ Committed(d, i) = Records(x)
        BY <2>3, <4>2, <4>4 DEF BatchedBy, Committed
      <4>9. Written(backup, f[i]) = Written(Written(backup, f[j]), Records(x))
        <5>1. f[j] \in Seq(Record) /\ Records(x) \in Seq(Record) BY <2>2, <2>3, <4>2, <4>8
        <5> QED BY <2>1, <4>2, <4>8, <5>1, WrittenBoth
      <4>10. content[next_commit_order + (j + 1) + s] = Written(backup, f[j + 1])
        BY <4>1, <4>3, <4>6, <4>7, <4>9
      <4> QED BY <4>2, <4>10
    <3> QED BY <3>1, <3>2
  <2> HIDE DEF P
  <2>6. S = Nat
    <3>1. S \in SUBSET Nat OBVIOUS
    <3> HIDE DEF S
    <3> QED BY <2>4, <2>5, <3>1, SetInduction
  <2>7. P(m) BY <1>4, <2>6
  <2>8. content[next_commit_order + m + s] = Written(backup, f[m]) BY <1>4, <2>7 DEF P
  <2> QED BY <1>3, <2>3, <2>8
<1> QED BY <1>3, <1>7, <1>8 DEF Filed

-----------------------------------------------------------------------------
(* One event is handled.                                                   *)

LEMMA CountedSame ==
  ASSUME NEW log, NEW h, NEW e, Next1(log, h, e), ~IsEffect(e), NEW s, NEW top,
         Counted(log, h, s, top), UNCHANGED next_completion_order
  PROVE  Counted(log, h + 1, s, top)'
<1>1. s \in Nat /\ next_completion_order + s <= top /\ h \in Nat /\ log[h + 1] = e
      /\ Len(log) \in Nat
  BY DEF Counted, Next1
<1>2. ASSUME NEW i \in 1..Len(log), IsEffect(log[i])
      PROVE  i <= h + 1 <=> log[i].num < next_completion_order + s
  <2>1. i # h + 1 BY <1>1, <1>2
  <2>2. i <= h + 1 <=> i <= h BY <1>1, <2>1
  <2>3. i <= h <=> log[i].num < next_completion_order + s BY <1>2 DEF Counted
  <2> QED BY <2>2, <2>3
<1> QED BY <1>1, <1>2 DEF Counted

LEMMA SubmitHandled ==
  ASSUME Types, NEW log, NEW mate, NEW req, NEW content, NEW top, NEW h, NEW own, NEW s,
         Emitted(log, mate, req, content, top), Handled(log, mate, content, top, h, own, s),
         NEW e, Next1(log, h, e), e.ev.op = "submit", dio_stage_segment(e.ev),
         NEW c \in Cookies, c = e.ev.cookie, c \in DOMAIN dios => own[c] = e.id,
         UNCHANGED backup
  PROVE  /\ batch_error' = batch_error
         /\ Told(dios', [own EXCEPT ![c] = e.id], log, mate, h + 1, s)
         /\ Counted(log, h + 1, s, top)' /\ Filed(content, s)'
<1>1. PICK d : d = dio_get_or_create(c) OBVIOUS
<1>2. /\ Entries(log, mate) /\ Payload(log, req) /\ Once(log)
      /\ Told(dios, own, log, mate, h, s) /\ Counted(log, h, s, top) /\ Filed(content, s)
  BY DEF Emitted, Handled
<1>3. d \in Entry /\ Knows(d, e.id, log, h, s) BY <1>1, <1>2, GotKnows
<1>4. PICK n : n = [d EXCEPT !.segs = Append(@, SegmentOf(e.ev))] OBVIOUS
<1>5. Knows(n, e.id, log, h + 1, s) /\ n \in Entry BY <1>2, <1>3, <1>4, KnowsSubmit
<1>6. ~d.done /\ ~d.aborted
  <2>1. ~d.done BY <1>2, <1>3, StagedNext
  <2> QED BY <1>3, <2>1 DEF Knows
<1>7. /\ dios' = Put(c, n)
      /\ UNCHANGED <<next_completion_order, next_commit_order, batch, batch_error>>
  BY <1>1, <1>4, <1>6 DEF dio_stage_segment, SegmentOf
<1>8. Told(dios', [own EXCEPT ![c] = e.id], log, mate, h + 1, s)
  <2>1. Told(Put(c, n), [own EXCEPT ![c] = e.id], log, mate, h + 1, s)
    BY <1>2, <1>5, ToldPut
  <2> QED BY <1>7, <2>1
<1>9. Counted(log, h + 1, s, top)'
  <2>1. ~IsEffect(e) BY DEF IsEffect
  <2> QED BY <1>2, <1>7, <2>1, CountedSame
<1>10. Filed(content, s)' BY <1>2, <1>7 DEF Filed
<1> QED BY <1>7, <1>8, <1>9, <1>10

LEMMA DoneHandled ==
  ASSUME Types, Queue, Fits,
         NEW log, NEW mate, NEW req, NEW content, NEW top, NEW h, NEW own, NEW s,
         Emitted(log, mate, req, content, top), Handled(log, mate, content, top, h, own, s),
         NEW e, Next1(log, h, e), e.ev.op = "done", dio_submit_done(e.ev),
         NEW c \in Cookies, c = e.ev.cookie, c \in DOMAIN dios => own[c] = e.id,
         UNCHANGED backup
  PROVE  /\ batch_error' = batch_error
         /\ Told(dios', [own EXCEPT ![c] = e.id], log, mate, h + 1, s)
         /\ Counted(log, h + 1, s, top)' /\ Filed(content, s)'
<1>1. PICK d : d = dio_get_or_create(c) OBVIOUS
<1>2. /\ Numbers(mate, req) /\ Entries(log, mate) /\ Payload(log, req) /\ Once(log)
      /\ Effects(log, req, content, top)
      /\ Told(dios, own, log, mate, h, s) /\ Counted(log, h, s, top) /\ Filed(content, s)
  BY DEF Emitted, Handled
<1>3. d \in Entry /\ Knows(d, e.id, log, h, s) BY <1>1, <1>2, GotKnows
<1>4. PICK n : n = Ended(d, e.ev.size) OBVIOUS
<1>5. Knows(n, e.id, log, h + 1, s) /\ n \in Entry /\ ~d.done BY <1>2, <1>3, <1>4, KnowsDone
<1>6. ~d.aborted BY <1>3 DEF Knows
<1>7. dio_flush_completed(Put(c, n), FALSE) /\ UNCHANGED next_completion_order
  BY <1>1, <1>4, <1>5, <1>6 DEF dio_submit_done, Ended
<1>8. SamePlace(dios, c, n)
  <2>1. n.seen = d.seen /\ n.order = d.order BY <1>3, <1>4 DEF Entry, Ended
  <2>2. /\ c \in DOMAIN dios => d = dios[c]
        /\ c \notin DOMAIN dios => ~d.seen
    BY <1>1, GotEntry
  <2> QED BY <2>1, <2>2 DEF SamePlace
<1>9. PICK x : x = Put(c, n) OBVIOUS
<1>10. Kept(x) BY <1>5, <1>7, <1>8, <1>9, DoneTable
<1>11. PICK own2 : own2 = [own EXCEPT ![c] = e.id] OBVIOUS
<1>12. Told(x, own2, log, mate, h + 1, s) BY <1>2, <1>5, <1>9, <1>11, ToldPut
<1>13. Told(dios', own2, log, mate, h + 1, s) BY <1>10, <1>12, ToldKept
<1>14. batch_error' = batch_error /\ Filed(content, s)'
  <2>1. x \in [DOMAIN x -> Entry] /\ DOMAIN x \subseteq Cookies
    <3>1. x = [y \in DOMAIN dios \cup {c} |-> IF y = c THEN n ELSE dios[y]]
      BY <1>9 DEF Put, Set
    <3> QED BY <1>5, <3>1 DEF Types, TableTypes
  <2>2. h + 1 <= Len(log) /\ h + 1 \in Nat /\ s \in Nat BY <1>2 DEF Next1, Counted
  <2>3. dio_flush_completed(x, FALSE) BY <1>7, <1>9
  <2> QED BY <1>2, <1>12, <2>1, <2>2, <2>3, FlushFiled
<1>15. Counted(log, h + 1, s, top)'
  <2>1. ~IsEffect(e) BY DEF IsEffect
  <2> QED BY <1>2, <1>7, <2>1, CountedSame
<1> QED BY <1>11, <1>13, <1>14, <1>15

LEMMA CompleteHandled ==
  ASSUME Types, Queue, Fits,
         NEW log, NEW mate, NEW req, NEW content, NEW top, NEW h, NEW own, NEW s,
         Emitted(log, mate, req, content, top), Handled(log, mate, content, top, h, own, s),
         NEW e, Next1(log, h, e), e.ev.op = "complete", dio_note_completion(e.ev),
         NEW c \in Cookies, c = e.ev.cookie, c \in DOMAIN dios => own[c] = e.id,
         UNCHANGED backup
  PROVE  /\ batch_error' = batch_error
         /\ Told(dios', [own EXCEPT ![c] = e.id], log, mate, h + 1, s)
         /\ Counted(log, h + 1, s, top)' /\ Filed(content, s)'
<1>1. PICK d : d = dio_get_or_create(c) OBVIOUS
<1>2. /\ Numbers(mate, req) /\ Entries(log, mate) /\ Payload(log, req) /\ Once(log)
      /\ Effects(log, req, content, top)
      /\ Told(dios, own, log, mate, h, s) /\ Counted(log, h, s, top) /\ Filed(content, s)
      /\ next_completion_order \in Nat
  BY DEF Emitted, Handled, Types, TableTypes
<1>3. d \in Entry /\ Knows(d, e.id, log, h, s) BY <1>1, <1>2, GotKnows
<1>4. PICK n : n = Completed(d, e.ev, next_completion_order) OBVIOUS
<1>5. Knows(n, e.id, log, h + 1, s) /\ n \in Entry /\ ~d.seen
  BY <1>2, <1>3, <1>4, KnowsComplete
<1>6. /\ dio_flush_completed(Put(c, n), FALSE)
      /\ next_completion_order' = next_completion_order + 1
  BY <1>1, <1>4, <1>5 DEF dio_note_completion, Completed
<1>7. n.seen /\ n.order = next_completion_order BY <1>3, <1>4 DEF Entry, Completed
<1>8. c \in DOMAIN dios => ~dios[c].seen
  <2>1. c \in DOMAIN dios => d = dios[c] BY <1>1, GotEntry
  <2> QED BY <1>5, <2>1
<1>9. PICK x : x = Put(c, n) OBVIOUS
<1>10. Kept(x) BY <1>5, <1>6, <1>7, <1>8, <1>9, SeenTable
<1>11. PICK own2 : own2 = [own EXCEPT ![c] = e.id] OBVIOUS
<1>12. Told(x, own2, log, mate, h + 1, s) BY <1>2, <1>5, <1>9, <1>11, ToldPut
<1>13. Told(dios', own2, log, mate, h + 1, s) BY <1>10, <1>12, ToldKept
<1>14. batch_error' = batch_error /\ Filed(content, s)'
  <2>1. x \in [DOMAIN x -> Entry] /\ DOMAIN x \subseteq Cookies
    <3>1. x = [y \in DOMAIN dios \cup {c} |-> IF y = c THEN n ELSE dios[y]]
      BY <1>9 DEF Put, Set
    <3> QED BY <1>5, <3>1 DEF Types, TableTypes
  <2>2. h + 1 <= Len(log) /\ h + 1 \in Nat /\ s \in Nat BY <1>2 DEF Next1, Counted
  <2>3. dio_flush_completed(x, FALSE) BY <1>6, <1>9
  <2> QED BY <1>2, <1>12, <2>1, <2>2, <2>3, FlushFiled
<1>15. Counted(log, h + 1, s, top)'
  <2>1. IsEffect(e) BY DEF IsEffect
  <2>2. /\ e.num = next_completion_order + s /\ e.num \in 0..(top - 1) /\ s \in Nat
        /\ top \in Nat
        /\ \A i \in 1..Len(log) :
             IsEffect(log[i]) => (i <= h + 1 <=> log[i].num < next_completion_order + s + 1)
    BY <1>2, <2>1, TurnNext
  <2>3. next_completion_order' + s = next_completion_order + s + 1 BY <1>2, <1>6, <2>2
  <2>4. next_completion_order' + s <= top BY <1>2, <2>2, <2>3
  <2> QED BY <2>2, <2>3, <2>4 DEF Counted
<1> QED BY <1>11, <1>13, <1>14, <1>15

(* When the writes of one thread are in the ring in the order in which they*)
(* were made, a write(2) is handled after all that completed before it has *)
(* been committed.                                                         *)
LEMMA NoneWaits ==
  ASSUME Types, Queue, NEW log, NEW mate, NEW req, NEW content, NEW top,
         NEW h, NEW own, NEW s,
         Emitted(log, mate, req, content, top), Handled(log, mate, content, top, h, own, s),
         NEW e, Next1(log, h, e), e.ev.op = "write", Alone
  PROVE  /\ next_commit_order = next_completion_order
         /\ \A c \in DOMAIN dios : ~dios[c].seen
<1>1. /\ Numbers(mate, req) /\ Entries(log, mate) /\ InOrder(log, mate) /\ Owed(log)
      /\ Told(dios, own, log, mate, h, s)
  BY DEF Emitted, Handled
<1>2. /\ next_commit_order \in Nat /\ next_completion_order \in Nat
      /\ next_commit_order <= next_completion_order /\ DOMAIN dios \subseteq Cookies
      /\ count \in Nat
  BY Bounds DEF Types, TableTypes, AppTypes
<1>3. /\ e.id \in 1..count /\ mate[e.id] = NoOp
      /\ \A i \in 1..Len(log) : log[i].id \in 1..count
  BY <1>1 DEF Entries, Next1
<1>4. ASSUME NEW c \in DOMAIN dios PROVE dios[c].done
  <2>1. c \in Cookies /\ c # NoOp BY <1>2, NoOpApart
  <2>2. mate[own[c]] = c /\ Knows(dios[c], own[c], log, h, s) /\ \E i \in 1..h : log[i].id = own[c]
    BY <1>1 DEF Told, Tells
  <2>3. PICK i \in 1..h : log[i].id = own[c] BY <2>2
  <2>4. i \in 1..Len(log) /\ i < h + 1 /\ h + 1 \in 1..Len(log) /\ log[h + 1] = e
    BY DEF Next1
  <2>5. own[c] <= e.id
    <3>1. log[i].id <= log[h + 1].id BY <1>1, <2>4 DEF InOrder
    <3> QED BY <2>3, <2>4, <3>1
  <2>6. own[c] # e.id BY <1>3, <2>1, <2>2
  <2>7. own[c] < e.id /\ e.id <= count /\ own[c] \in 1..count /\ e.id \in Nat
    BY <1>2, <1>3, <2>3, <2>4, <2>5, <2>6
  <2>8. log[i].ev.op # "write" /\ log[i].ev.cookie = c
    <3>1. log[i].ev.cookie = c BY <1>1, <2>2, <2>3, <2>4 DEF Entries
    <3> QED BY <1>1, <2>1, <2>4, <3>1 DEF Entries
  <2>9. CASE Has(log, "done", own[c])
    <3>1. PICK j \in 1..Len(log) : log[j].ev.op = "done" /\ log[j].id = own[c]
      BY <2>9 DEF Has, Within
    <3>2. ~(h + 1 < j)
      <4>1. h + 1 < j => e.id <= own[c] BY <1>1, <2>4, <3>1 DEF InOrder
      <4> QED BY <1>3, <2>7, <4>1, <1>2
    <3>3. j # h + 1 BY <2>4, <3>1
    <3>4. j \in 1..h BY <3>2, <3>3 DEF Next1
    <3> QED BY <2>2, <3>1, <3>4 DEF Knows, Within
  <2>10. CASE Sending(c) /\ iocb[c].id = own[c]
    <3>1. PICK t \in Threads : pc[t] # "idle" /\ work[t].cookie = c BY <2>10 DEF Sending
    <3>2. iocb[c].id = count BY <1>1, <3>1 DEF InOrder
    <3> QED BY <1>2, <2>7, <2>10, <3>2
  <2> QED BY <1>1, <2>3, <2>4, <2>8, <2>9, <2>10 DEF Owed
<1>5. next_commit_order = next_completion_order
  <2> SUFFICES ASSUME next_commit_order < next_completion_order PROVE FALSE
    BY <1>2
  <2>1. next_commit_order \in next_commit_order..(next_completion_order - 1) BY <1>2
  <2>2. PICK c \in DOMAIN dios : dios[c].seen /\ dios[c].order = next_commit_order
    BY <2>1 DEF Queue, Slots
  <2>3. c \in Ready(dios, next_commit_order) BY <1>4, <2>2 DEF Ready
  <2> QED BY <2>3 DEF Queue, Flushed
<1>6. ASSUME NEW c \in DOMAIN dios, dios[c].seen PROVE FALSE
  <2>1. dios[c].order \in next_commit_order..(next_completion_order - 1)
    BY <1>6 DEF Queue, Slots
  <2> QED BY <1>2, <1>5, <2>1
<1> QED BY <1>5, <1>6

LEMMA WriteHandled ==
  ASSUME Types, Queue, Fits,
         NEW log, NEW mate, NEW req, NEW content, NEW top, NEW h, NEW own, NEW s,
         Emitted(log, mate, req, content, top), Handled(log, mate, content, top, h, own, s),
         NEW e, Next1(log, h, e), e.ev.op = "write", HandleWrite(e.ev),
         InTurn => Alone, UNCHANGED backup
  PROVE  /\ Told(dios', own, log, mate, h + 1, s + 1)
         /\ Counted(log, h + 1, s + 1, top)' /\ Filed(content, s + 1)'
<1>1. /\ Entries(log, mate) /\ Effects(log, req, content, top)
      /\ Told(dios, own, log, mate, h, s) /\ Counted(log, h, s, top) /\ Filed(content, s)
      /\ next_completion_order \in Nat
  BY DEF Emitted, Handled, Types, TableTypes
<1>2. /\ dios' = dios /\ UNCHANGED <<next_completion_order, next_commit_order>>
      /\ batch' = Append(batch, Change(e, req))
  BY DEF HandleWrite, Change
<1>3. IsEffect(e) BY DEF IsEffect
<1>4. /\ e.num = next_completion_order + s /\ e.num \in 0..(top - 1) /\ s \in Nat /\ top \in Nat
      /\ \A i \in 1..Len(log) :
           IsEffect(log[i]) => (i <= h + 1 <=> log[i].num < next_completion_order + s + 1)
  BY <1>1, <1>3, TurnNext
<1>5. next_completion_order + s + 1 = next_completion_order + (s + 1) /\ s + 1 \in Nat
      /\ next_completion_order + (s + 1) <= top
  BY <1>1, <1>4
<1>6. Counted(log, h + 1, s + 1, top)' BY <1>2, <1>4, <1>5 DEF Counted
<1>7. InTurn => /\ next_commit_order = next_completion_order
                /\ \A c \in DOMAIN dios : ~dios[c].seen
  BY NoneWaits
<1>8. Told(dios, own, log, mate, h + 1, s + 1)
  <2>1. ASSUME NEW c \in DOMAIN dios
        PROVE  mate[own[c]] = c /\ Tells(dios[c], own[c], log, h + 1, s + 1)
    <3>1. /\ mate[own[c]] = c /\ Knows(dios[c], own[c], log, h, s)
          /\ \E i \in 1..h : log[i].id = own[c]
      BY <1>1 DEF Told, Tells
    <3>2. \A op : op # "write" =>
            (Within(log, h + 1, op, own[c]) <=> Within(log, h, op, own[c]))
      BY WithinNext
    <3>3. \A i \in 1..h : i \in 1..(h + 1) BY DEF Next1
    <3>4. \A k \in 1..Len(dios[c].segs) : \E i \in 1..(h + 1) :
            log[i].ev.op = "submit" /\ log[i].id = own[c] /\ log[i].num = k
      BY <3>1, <3>3 DEF Knows
    <3>5. ASSUME NEW i \in 1..(h + 1), log[i].id = own[c]
          PROVE  /\ log[i].ev.op = "submit" =>
                      /\ log[i].num \in 1..Len(dios[c].segs)
                      /\ ~log[i].ev.truncated => dios[c].segs[log[i].num] = SegmentOf(log[i].ev)
                 /\ log[i].ev.op = "done" => dios[c].size = log[i].ev.size
                 /\ log[i].ev.op = "complete" =>
                      /\ InTurn => dios[c].order + (s + 1) = log[i].num
                      /\ dios[c].res = log[i].ev.ret /\ dios[c].file = log[i].ev.file
      <4>1. CASE i \in 1..h
        <5>1. log[i].ev.op = "complete" => Within(log, h, "complete", own[c])
          BY <3>5, <4>1 DEF Within
        <5>2. log[i].ev.op = "complete" => ~InTurn BY <1>7, <3>1, <5>1 DEF Knows
        <5> QED BY <3>1, <3>5, <4>1, <5>2 DEF Knows
      <4>2. CASE i \notin 1..h
        <5>1. log[i] = e BY <4>2 DEF Next1
        <5> QED BY <5>1
      <4> QED BY <4>1, <4>2
    <3>6. Knows(dios[c], own[c], log, h + 1, s + 1)
      BY <3>1, <3>2, <3>4, <3>5 DEF Knows
    <3> QED BY <3>1, <3>3, <3>6 DEF Tells
  <2>2. ASSUME NEW i \in 1..(h + 1), log[i].ev.op # "write"
        PROVE  \/ log[i].ev.cookie \in DOMAIN dios /\ own[log[i].ev.cookie] = log[i].id
               \/ /\ Within(log, h + 1, "done", log[i].id)
                  /\ Within(log, h + 1, "complete", log[i].id)
    <3>1. i \in 1..h BY <2>2 DEF Next1
    <3>2. \/ log[i].ev.cookie \in DOMAIN dios /\ own[log[i].ev.cookie] = log[i].id
          \/ Within(log, h, "done", log[i].id) /\ Within(log, h, "complete", log[i].id)
      BY <1>1, <2>2, <3>1 DEF Told
    <3> QED BY <3>2, WithinNext
  <2> QED BY <1>1, <2>1, <2>2 DEF Told
<1>9. ASSUME InTurn
      PROVE  content[next_commit_order + (s + 1)] = Written(backup, batch')
  <2>1. e.num = next_commit_order + s /\ next_commit_order + (s + 1) = e.num + 1
    BY <1>1, <1>4, <1>7, <1>9
  <2>2. content[e.num] = Written(backup, batch) BY <1>1, <1>9, <2>1 DEF Filed
  <2>3. content[e.num + 1] = Changed(content[e.num], e, req) /\ e.ev.file \in Captured
    BY <1>1, <1>3 DEF Effects, Next1
  <2>4. content[e.num + 1] = Write(content[e.num], Change(e, req)) BY <2>3 DEF Changed
  <2>5. Change(e, req) \in Record
    <3>1. e \in Logged BY <1>1, EntryCookie DEF Next1
    <3>2. e.ev \in Events BY <3>1 DEF Logged
    <3>3. Change(e, req) = [file |-> e.ev.file, off |-> e.ev.off, data |-> e.ev.data]
      BY DEF Change
    <3> QED BY <3>2, <3>3 DEF Events, Record
  <2>6. Written(backup, batch') = Write(Written(backup, batch), Change(e, req))
    BY <1>2, <2>5, WrittenMore DEF Fits
  <2> QED BY <2>1, <2>2, <2>4, <2>6
<1> QED BY <1>2, <1>6, <1>8, <1>9 DEF Filed

LEMMA EventHandled ==
  ASSUME Types, Queue, Fits,
         NEW log, NEW mate, NEW req, NEW content, NEW top, NEW h, NEW own, NEW s,
         Emitted(log, mate, req, content, top), Handled(log, mate, content, top, h, own, s),
         NEW e, Next1(log, h, e), e.ev = Head(ring), handle_event,
         e.ev.op # "write" /\ e.ev.cookie \in DOMAIN dios => own[e.ev.cookie] = e.id
  PROVE  batch_error' = batch_error /\ Story'
<1>1. ring # <<>> /\ ring' = Tail(ring) /\ UNCHANGED <<app, hooks>> /\ UNCHANGED backup
  BY DEF handle_event, sink
<1>2. Entries(log, mate) /\ Waiting(log, h) BY DEF Emitted, Handled
<1>3. Emitted(log, mate, req, content, top)' BY <1>1, EmittedKept
<1>4. Waiting(log, h + 1)' BY <1>1, <1>2, WaitingNext
<1>5. /\ h + 1 \in 1..Len(log) /\ log[h + 1] = e /\ e.ev.op # "abort"
      /\ (e.ev.op # "write" => e.ev.cookie \in Cookies)
  BY <1>2, EntryCookie DEF Next1, Entries
<1>6. ASSUME NEW own2, NEW s2, Told(dios', own2, log, mate, h + 1, s2),
             Counted(log, h + 1, s2, top)', Filed(content, s2)'
      PROVE  Story'
  <2>1. Told(dios, own2, log, mate, h + 1, s2)' BY <1>6 DEF Told
  <2>2. Handled(log, mate, content, top, h + 1, own2, s2)' BY <1>4, <1>6, <2>1 DEF Handled
  <2> QED BY <1>3, <2>2 DEF Story
<1>7. CASE e.ev.op # "write"
  <2>1. PICK c \in Cookies : c = e.ev.cookie BY <1>5, <1>7
  <2>2. c \in DOMAIN dios => own[c] = e.id BY <1>7, <2>1
  <2> DEFINE Good == /\ batch_error' = batch_error
                     /\ Told(dios', [own EXCEPT ![c] = e.id], log, mate, h + 1, s)
                     /\ Counted(log, h + 1, s, top)' /\ Filed(content, s)'
  <2>3. CASE e.ev.op = "submit" /\ dio_stage_segment(e.ev)
    <3>1. Good BY <1>1, <2>1, <2>2, <2>3, SubmitHandled
    <3> QED BY <1>6, <3>1
  <2>4. CASE e.ev.op = "done" /\ dio_submit_done(e.ev)
    <3>1. Good BY <1>1, <2>1, <2>2, <2>4, DoneHandled
    <3> QED BY <1>6, <3>1
  <2>5. CASE e.ev.op = "complete" /\ dio_note_completion(e.ev)
    <3>1. Good BY <1>1, <2>1, <2>2, <2>5, CompleteHandled
    <3> QED BY <1>6, <3>1
  <2> QED BY <1>5, <1>7, <2>3, <2>4, <2>5 DEF handle_event
<1>8. CASE e.ev.op = "write"
  <2>1. HandleWrite(e.ev) BY <1>8 DEF handle_event
  <2>2. InTurn => Alone
    <3>1. 1 \in 1..Len(ring) /\ Head(ring) = ring[1]
      <4>1. ring \in Seq(Events) BY DEF Types, RingTypes
      <4> QED BY <1>1, <4>1
    <3>2. SyncWrites BY <1>8, <3>1 DEF Fits
    <3> QED BY <3>2 DEF InTurn
  <2>3. batch_error' = batch_error BY <2>1 DEF HandleWrite
  <2> QED BY <1>1, <1>6, <1>8, <2>1, <2>2, <2>3, WriteHandled
<1> QED BY <1>7, <1>8

(* A handler does not take an error back.                                  *)
LEMMA ErrorStays ==
  ASSUME Types, Queue, handle_event, ~batch_error'
  PROVE  ~batch_error /\ Head(ring).op # "abort"
<1>1. ring # <<>> BY DEF handle_event
<1> DEFINE e == Head(ring)
<1>2. CASE e.op = "submit" /\ dio_stage_segment(e) BY <1>2 DEF dio_stage_segment, Refuse
<1>3. CASE e.op = "done" /\ dio_submit_done(e) BY <1>1, <1>3, DoneEvent
<1>4. CASE e.op = "complete" /\ dio_note_completion(e) BY <1>1, <1>4, CompleteEventHandled
<1>5. CASE e.op = "abort" /\ dio_abort(e) BY <1>1, <1>5, AbortEvent
<1>6. CASE e.op = "write" /\ HandleWrite(e) BY <1>6 DEF HandleWrite
<1> QED BY <1>2, <1>3, <1>4, <1>5, <1>6 DEF handle_event

(* A write of an iocb is not taken for an earlier one of it: what would be *)
(* is refused.                                                             *)
LEMMA HandlerStory ==
  ASSUME Types, Queue, Fits, Clean => Story, handle_event, Clean'
  PROVE  Story'
<1>1. ring # <<>> /\ ring' = Tail(ring) /\ UNCHANGED lost BY DEF handle_event
<1>2. ~batch_error' /\ ~lost BY <1>1 DEF Clean
<1>3. Clean BY <1>1, <1>2, ErrorStays, TakeClean
<1>4. PICK log, mate, req, content, top, h, own, s :
        Emitted(log, mate, req, content, top) /\ Handled(log, mate, content, top, h, own, s)
  BY <1>3 DEF Story
<1>5. /\ Numbers(mate, req) /\ Entries(log, mate) /\ InOrder(log, mate) /\ Owed(log)
      /\ log \in Seq(Logged) /\ Waiting(log, h) /\ Told(dios, own, log, mate, h, s)
  BY <1>4 DEF Emitted, Handled, Entries
<1>6. PICK e : e = log[h + 1] OBVIOUS
<1>7. Next1(log, h, e) /\ e.ev = Head(ring) BY <1>1, <1>5, <1>6, HeadEvent
<1>8. /\ e.ev.op # "abort" /\ e.ev.op \in {"submit", "done", "complete", "write"}
      /\ (e.ev.op # "write" => e.ev.cookie \in Cookies)
  BY <1>5, <1>7, EntryCookie DEF Next1, Entries
<1>9. ASSUME e.ev.op # "write", e.ev.cookie \in DOMAIN dios, own[e.ev.cookie] # e.id
      PROVE  FALSE
  <2>1. PICK c \in Cookies : c = e.ev.cookie BY <1>8, <1>9
  <2>2. dios[c].done /\ dios[c].seen BY <1>5, <1>7, <1>9, <2>1, OwnEntry
  <2>3. dio_get_or_create(c) = dios[c] BY <1>9, <2>1 DEF dio_get_or_create
  <2>4. CASE dio_stage_segment(e.ev) BY <1>2, <2>1, <2>2, <2>3, <2>4 DEF dio_stage_segment, Refuse
  <2>5. CASE dio_submit_done(e.ev) BY <1>2, <2>1, <2>2, <2>3, <2>5 DEF dio_submit_done, Refuse
  <2>6. CASE dio_note_completion(e.ev)
    BY <1>2, <2>1, <2>2, <2>3, <2>6 DEF dio_note_completion, Refuse
  <2> QED BY <1>7, <1>8, <1>9, <2>4, <2>5, <2>6 DEF handle_event
<1> QED BY <1>4, <1>7, <1>9, EventHandled

(* A harvest that is sent is one more content of the files on the backup.  *)
LEMMA SinkStory ==
  ASSUME Types, Fits, Clean => Story, capture_and_send, Clean'
  PROVE  Story' /\ (InTurn => backup' \in past')
<1>1. ring = <<>> /\ UNCHANGED <<app, hooks, ring, lost, dios, next_completion_order,
                                 next_commit_order, batch_error>>
  BY DEF capture_and_send
<1>2. Clean /\ ~lost /\ ~batch_error BY <1>1 DEF Clean
<1>3. backup' = Written(backup, batch) /\ batch' = <<>> BY <1>2 DEF capture_and_send
<1>4. PICK log, mate, req, content, top, h, own, s :
        Emitted(log, mate, req, content, top) /\ Handled(log, mate, content, top, h, own, s)
  BY <1>2 DEF Story
<1>5. /\ Waiting(log, h) /\ Told(dios, own, log, mate, h, s) /\ Counted(log, h, s, top)
      /\ Filed(content, s)
  BY <1>4 DEF Handled
<1>6. Emitted(log, mate, req, content, top)' BY <1>1, <1>4, EmittedKept
<1>7. Written(backup', batch') = backup'
  <2>1. PICK f \in [0..Len(batch) -> Contents] :
          InTurnBy(f, backup, batch) /\ Written(backup, batch) = f[Len(batch)]
    BY WrittenSteps DEF Fits
  <2>2. Len(batch) \in 0..Len(batch) BY DEF Fits
  <2>3. backup' \in Contents BY <1>3, <2>1, <2>2
  <2> QED BY <1>3, <2>3, WrittenNone
<1>8. InTurn => content[next_commit_order + s] = backup' BY <1>3, <1>5 DEF Filed
<1>9. Filed(content, s)' BY <1>1, <1>7, <1>8 DEF Filed
<1>10. Waiting(log, h)' BY <1>1, <1>5 DEF Waiting
<1>11. Counted(log, h, s, top)' BY <1>1, <1>5 DEF Counted
<1>12. Told(dios, own, log, mate, h, s)' BY <1>1, <1>5 DEF Told
<1>13. Story' BY <1>6, <1>9, <1>10, <1>11, <1>12 DEF Handled, Story
<1>14. ASSUME InTurn PROVE backup' \in past'
  <2>1. next_commit_order + s \in 0..top
    <3>1. /\ s \in Nat /\ next_completion_order + s <= top /\ next_commit_order \in Nat
          /\ next_completion_order \in Nat /\ next_commit_order <= next_completion_order
          /\ top \in Nat
      BY <1>4, <1>5 DEF Counted, Types, TableTypes, Emitted, Effects
    <3> QED BY <3>1
  <2>2. content[next_commit_order + s] \in past BY <1>4, <2>1 DEF Emitted, Effects
  <2>3. past' = past BY <1>1 DEF app
  <2> QED BY <1>8, <1>14, <2>2, <2>3
<1> QED BY <1>13, <1>14

LEMMA InitStory ==
  ASSUME Init
  PROVE  Story
<1>1. /\ ring = <<>> /\ dios = <<>> /\ count = 0 /\ next_completion_order = 0
      /\ next_commit_order = 0 /\ batch = <<>> /\ backup = View(disk) /\ past = {View(disk)}
      /\ iocb = [c \in Cookies |-> NoOp] /\ io = iocb /\ pc = [t \in Threads |-> "idle"]
  BY DEF Init
<1>2. PICK log : log = <<>> OBVIOUS
<1>3. PICK mate, req, content, own :
        /\ mate = [g \in Nat |-> NoOp] /\ req = [g \in Nat |-> NoOp]
        /\ content = [n \in Nat |-> View(disk)] /\ own = [c \in Cookies |-> 0]
  OBVIOUS
<1>4. log \in Seq(Logged) /\ Len(log) = 0 /\ Len(ring) = 0 /\ DOMAIN dios = {}
  BY <1>1, <1>2
<1>5. Numbers(mate, req)
  <2>1. /\ mate \in [Nat -> Cookies \cup {NoOp}] /\ req \in [Nat -> Request \cup {NoOp}]
    BY <1>3
  <2>2. \A g \in 1..count : FALSE BY <1>1
  <2>3. \A c \in Cookies : iocb[c] = NoOp BY <1>1
  <2> QED BY <2>1, <2>2, <2>3 DEF Numbers
<1>6. \A i \in 1..Len(log) : FALSE BY <1>4
<1>7. \A c \in Cookies : ~Sending(c) /\ ~Flying(c) BY <1>1 DEF Sending, Flying
<1>8. Emitted(log, mate, req, content, 0)
  <2>1. Entries(log, mate) BY <1>4, <1>6 DEF Entries
  <2>2. InOrder(log, mate) BY <1>1, <1>6 DEF InOrder
  <2>3. Once(log) /\ Owed(log) BY <1>6, <1>7 DEF Once, Owed
  <2>4. Payload(log, req) BY <1>6 DEF Payload
  <2>5. Sent(log) BY <1>1 DEF Sent
  <2>6. Effects(log, req, content, 0)
    <3>1. content[0] = View(disk) BY <1>3
    <3>2. \A n \in 0..0 : n = 0 OBVIOUS
    <3>3. \A n \in 0..(0 - 1) : FALSE OBVIOUS
    <3> QED BY <1>1, <1>6, <3>1, <3>2, <3>3 DEF Effects
  <2> QED BY <1>5, <1>7, <2>1, <2>2, <2>3, <2>4, <2>5, <2>6 DEF Emitted
<1>9. Handled(log, mate, content, 0, 0, own, 0)
  <2>1. Waiting(log, 0)
    <3>1. \A i \in 1..Len(ring) : FALSE BY <1>4
    <3> QED BY <1>4, <3>1 DEF Waiting
  <2>2. Told(dios, own, log, mate, 0, 0)
    <3>1. \A i \in 1..0 : FALSE OBVIOUS
    <3>2. own \in [Cookies -> Nat] BY <1>3
    <3> QED BY <1>4, <3>1, <3>2 DEF Told
  <2>3. Counted(log, 0, 0, 0) BY <1>1, <1>6 DEF Counted
  <2>4. Filed(content, 0)
    <3>1. View(disk) \in Contents BY FitsInit, SizedContents DEF Fits
    <3>2. Written(View(disk), <<>>) = View(disk) BY <3>1, WrittenNone
    <3> QED BY <1>1, <1>3, <3>2 DEF Filed
  <2> QED BY <2>1, <2>2, <2>3, <2>4 DEF Handled
<1> QED BY <1>8, <1>9 DEF Story

-----------------------------------------------------------------------------
(* Every step keeps the story.                                             *)

LEMMA StoryKept ==
  ASSUME ~SharedReap, Types, Queue, Owners, Fits, Clean => Story, [Next]_vars, Clean'
  PROVE  Story'
<1>1. CASE UNCHANGED vars
  <2>1. UNCHANGED <<disk, past, count, iocb, io, pc, work, inflight, ring, lost, batch_error,
                    user, sink>>
    BY <1>1 DEF vars, app, hooks, user
  <2>2. Clean BY <2>1 DEF Clean
  <2>3. PICK log, mate, req, content, top, h, own, s :
          Emitted(log, mate, req, content, top) /\ Handled(log, mate, content, top, h, own, s)
    BY <2>2 DEF Story
  <2>4. Sent(log) /\ \A b \in Cookies : Flying(b) => b \in inflight BY <2>3 DEF Emitted
  <2>5. Sent(log)' /\ SameWork BY <2>1, <2>4 DEF Sent, Reached, SameWork
  <2>6. \A b \in Cookies : (Sending(b)' <=> Sending(b)) /\ (Flying(b)' <=> Flying(b))
    BY <2>1 DEF Sending, Flying
  <2>7. \A b \in Cookies : Flying(b)' => b \in inflight' BY <2>1, <2>4, <2>6
  <2>8. View(disk') = View(disk) /\ past \subseteq past' BY <2>1
  <2> QED BY <2>1, <2>3, <2>5, <2>6, <2>7, <2>8, SilentStory
<1>2. ASSUME NEW t \in Threads, EmitAbort(t) PROVE FALSE
  <2>1. pc[t] # "idle" /\ UNCHANGED batch_error BY <1>2 DEF EmitAbort, Hook, user
  <2>2. PICK e : e = Event("abort", work[t].cookie) OBVIOUS
  <2>3. e \in Events /\ e.op = "abort" BY <2>1, <2>2, JobTyped, EventTyped
  <2>4. Emit(e) BY <1>2, <2>2 DEF EmitAbort
  <2> QED BY <2>1, <2>3, <2>4, EmitClean
<1>3. ASSUME NEW t \in Threads,
             handle_io_submit_one(t) \/ SyncWrite(t) \/ InSubmit(t)
      PROVE  Story'
  BY <1>2, <1>3, SubmitStory, SyncStory, ExitStory, EmitOneStory, EmitDoneStory DEF InSubmit
<1>4. ASSUME NEW c \in Cookies, handle_aio_complete_rw(c) PROVE Story' BY <1>4, CompleteStory
<1>5. CASE handle_event BY <1>5, HandlerStory
<1>6. CASE capture_and_send BY <1>6, SinkStory
<1> QED BY <1>1, <1>3, <1>4, <1>5, <1>6 DEF Next, Capturer

LEMMA BackupKept ==
  ASSUME InTurn, Types, Fits, Clean => Story, backup \in past, [Next]_vars
  PROVE  backup' \in past'
<1>1. CASE capture_and_send /\ ~(lost \/ batch_error)
  <2>1. ring = <<>> /\ UNCHANGED <<ring, lost, batch_error>> BY <1>1 DEF capture_and_send
  <2>2. Clean' BY <1>1, <2>1 DEF Clean
  <2> QED BY <1>1, <2>2, SinkStory
<1>2. CASE capture_and_send /\ (lost \/ batch_error) BY <1>2 DEF capture_and_send, app
<1>3. CASE UNCHANGED vars BY <1>3 DEF vars, app, sink
<1>4. ASSUME NEW t \in Threads, handle_io_submit_one(t) PROVE backup' \in past'
  BY <1>4 DEF handle_io_submit_one, sink
<1>5. ASSUME NEW t \in Threads, SyncWrite(t) PROVE backup' \in past'
  BY <1>5 DEF SyncWrite, sink
<1>6. ASSUME NEW t \in Threads, InSubmit(t) PROVE backup' \in past'
  BY <1>6 DEF InSubmit, handle_io_submit_one_exit, dio_emit_one, EmitDone, EmitAbort, Hook,
              app, sink
<1>7. ASSUME NEW c \in Cookies, handle_aio_complete_rw(c) PROVE backup' \in past'
  BY <1>7 DEF handle_aio_complete_rw, sink
<1>8. CASE handle_event BY <1>8 DEF handle_event, app, sink
<1> QED BY <1>1, <1>2, <1>3, <1>4, <1>5, <1>6, <1>7, <1>8 DEF Next, Capturer

Faithful == Types /\ Queue /\ Owners /\ Halves /\ Fits /\ (Clean => Story)

LEMMA TrueInit == Init => Faithful
BY InitTypes, InitHalves, FitsInit, InitStory DEF Faithful

LEMMA TrueStep ==
  ASSUME ~SharedReap, Faithful, [Next]_vars
  PROVE  Faithful'
BY StepTypes, OwnersKept, HalvesKept, FitsStep, StoryKept DEF Faithful

(* The backup is always a state the captured files have been in: what an   *)
(* AIO write relied on is there before it (dio_flush_completed commits in  *)
(* the order of completion), for any threads, iocbs, files and limits.  It *)
(* relies on a thread reaping only what it has submitted, and on there     *)
(* being one thread if there are write(2)s as well.                        *)
THEOREM WritesInOrder ==
  ASSUME ~SharedReap, SyncWrites => \A t, u \in Threads : t = u
  PROVE  Spec => []WriteOrder
<1>1. InTurn BY DEF InTurn, Alone
<1>2. Init => Faithful /\ WriteOrder BY TrueInit, FitsInit DEF WriteOrder
<1>3. Faithful /\ WriteOrder /\ [Next]_vars => Faithful' /\ WriteOrder'
  BY <1>1, TrueStep, BackupKept DEF Faithful, WriteOrder
<1> QED BY <1>2, <1>3, PTL DEF Spec

(* With nothing under way the backup is the last content there was.        *)
LEMMA BackupEqual ==
  ASSUME InTurn, Faithful
  PROVE  FailClosed
<1> SUFFICES ASSUME Healthy, Quiet, ring = <<>>, batch = <<>> PROVE backup = View(disk)
  BY DEF FailClosed
<1>1. Clean BY DEF Clean, Healthy
<1>2. PICK log, mate, req, content, top, h, own, s :
        Emitted(log, mate, req, content, top) /\ Handled(log, mate, content, top, h, own, s)
  BY <1>1 DEF Story, Faithful
<1>3. /\ log \in Seq(Logged) /\ Effects(log, req, content, top)
      /\ Waiting(log, h) /\ Counted(log, h, s, top) /\ Filed(content, s)
  BY <1>2 DEF Emitted, Handled, Entries
<1>4. dios = <<>> BY TableEmpty DEF Faithful, NothingStranded
<1>5. /\ next_commit_order \in Nat /\ next_completion_order \in Nat
      /\ next_commit_order <= next_completion_order
  BY DEF Faithful, Types, TableTypes
<1>6. next_commit_order = next_completion_order
  <2> SUFFICES ASSUME next_commit_order < next_completion_order PROVE FALSE BY <1>5
  <2>1. next_commit_order \in next_commit_order..(next_completion_order - 1) BY <1>5
  <2>2. PICK c \in DOMAIN dios : dios[c].seen BY <2>1 DEF Faithful, Queue, Slots
  <2>3. DOMAIN dios = {} BY <1>4
  <2> QED BY <2>2, <2>3
<1>7. /\ h \in Nat /\ Len(log) = h /\ s \in Nat /\ top \in Nat
      /\ next_completion_order + s <= top
  BY <1>3 DEF Waiting, Counted, Effects
<1>8. next_completion_order + s = top
  <2> SUFFICES ASSUME next_completion_order + s < top PROVE FALSE BY <1>5, <1>7
  <2>1. PICK k : k = next_completion_order + s OBVIOUS
  <2>2. k \in 0..(top - 1) BY <1>5, <1>7, <2>1
  <2>3. PICK i \in 1..Len(log) : IsEffect(log[i]) /\ log[i].num = k BY <1>3, <2>2 DEF Effects
  <2>4. log[i].num < k BY <1>3, <1>7, <2>1, <2>3 DEF Counted
  <2> QED BY <2>2, <2>3, <2>4
<1>9. Written(backup, batch) = backup BY WrittenNone DEF Faithful, Fits
<1> QED BY <1>3, <1>6, <1>8, <1>9 DEF Filed, Effects

(* When nothing is under way and nothing is left to deliver, a capture that*)
(* has reported no loss has made the backup equal to the primary: no AIO   *)
(* write was dropped, cut, doubled or taken for another (dio_commit,       *)
(* dio_flush_completed), however the iocbs were reused.                    *)
THEOREM QuietIsEqual ==
  ASSUME ~SharedReap, SyncWrites => \A t, u \in Threads : t = u
  PROVE  Spec => []FailClosed
<1>1. InTurn BY DEF InTurn, Alone
<1>2. Init => Faithful BY TrueInit
<1>3. Faithful /\ [Next]_vars => Faithful' BY TrueStep
<1>4. Faithful => FailClosed BY <1>1, BackupEqual
<1> QED BY <1>2, <1>3, <1>4, PTL DEF Spec

-----------------------------------------------------------------------------
(* One thread: no capture fails without a reason.                          *)

(* An iocb that is used again has left the table: an entry that stays is   *)
(* held back by the payload of a write that is younger, and completed      *)
(* before it.                                                              *)
LEMMA OwnAlone ==
  ASSUME Types, Queue, Alone, NEW log, NEW mate, NEW req, NEW content, NEW top,
         NEW h, NEW own, NEW s,
         Emitted(log, mate, req, content, top), Handled(log, mate, content, top, h, own, s),
         NEW e, Next1(log, h, e), e.ev.op # "write",
         NEW c \in Cookies, c = e.ev.cookie, c \in DOMAIN dios
  PROVE  own[c] = e.id
<1> SUFFICES ASSUME own[c] # e.id PROVE FALSE OBVIOUS
<1>1. /\ Numbers(mate, req) /\ Entries(log, mate) /\ InOrder(log, mate) /\ Owed(log)
      /\ Effects(log, req, content, top) /\ Told(dios, own, log, mate, h, s)
  BY DEF Emitted, Handled
<1>2. own[c] < e.id /\ dios[c].done /\ dios[c].seen BY <1>1, OwnEntry
<1>3. /\ next_commit_order \in Nat /\ next_completion_order \in Nat
      /\ DOMAIN dios \subseteq Cookies /\ dios \in [DOMAIN dios -> Entry] /\ count \in Nat
  BY Bounds DEF Types, TableTypes, AppTypes
<1>4. dios[c].order \in next_commit_order..(next_completion_order - 1)
  BY <1>2 DEF Queue, Slots
<1>5. PICK b \in DOMAIN dios : dios[b].seen /\ dios[b].order = next_commit_order
  <2>1. next_commit_order \in next_commit_order..(next_completion_order - 1) BY <1>3, <1>4
  <2> QED BY <2>1 DEF Queue, Slots
<1>6. ~dios[b].done /\ b # c
  <2>1. dios[b].done => b \in Ready(dios, next_commit_order) BY <1>5 DEF Ready
  <2>2. ~dios[b].done BY <2>1 DEF Queue, Flushed
  <2> QED BY <1>2, <2>2
<1>7. dios[b].order < dios[c].order
  <2>1. dios[b].order # dios[c].order BY <1>2, <1>5, <1>6 DEF Queue, Slots
  <2> QED BY <1>3, <1>4, <1>5, <2>1
<1>8. /\ mate[own[b]] = b /\ Knows(dios[b], own[b], log, h, s)
      /\ mate[own[c]] = c /\ Knows(dios[c], own[c], log, h, s)
  BY <1>1, <1>5 DEF Told, Tells
<1>9. PICK i \in 1..h : log[i].ev.op = "complete" /\ log[i].id = own[b]
  BY <1>5, <1>8 DEF Knows, Within
<1>10. PICK l \in 1..h : log[l].ev.op = "complete" /\ log[l].id = own[c]
  BY <1>2, <1>8 DEF Knows, Within
<1>11. /\ i \in 1..Len(log) /\ l \in 1..Len(log) /\ h + 1 \in 1..Len(log) /\ log[h + 1] = e
       /\ i < h + 1 /\ h \in Nat
  BY DEF Next1
<1>12. /\ own[b] \in 1..count /\ own[c] \in 1..count /\ e.id \in 1..count /\ mate[e.id] = c
       /\ log[i].ev.cookie = b /\ log[l].ev.cookie = c
  BY <1>1, <1>8, <1>9, <1>10, <1>11, EntryCookie
<1>13. own[b] # e.id BY <1>6, <1>8, <1>12
<1>14. e.id < own[b]
  <2>1. Has(log, "done", own[b]) \/ (Sending(b) /\ iocb[b].id = own[b])
    <3>1. log[i].ev.op # "write" BY <1>9
    <3> QED BY <1>1, <1>9, <1>11, <1>12, <3>1 DEF Owed
  <2>2. CASE Has(log, "done", own[b])
    <3>1. PICK j \in 1..Len(log) : log[j].ev.op = "done" /\ log[j].id = own[b]
      BY <2>2 DEF Has, Within
    <3>2. ~(j \in 1..h) BY <1>6, <1>8, <3>1 DEF Knows, Within
    <3>3. j # h + 1 BY <1>11, <1>13, <3>1
    <3>4. h + 1 < j BY <1>11, <3>2, <3>3
    <3>5. e.id <= own[b]
      <4>1. log[h + 1].id <= log[j].id BY <1>1, <1>11, <3>1, <3>4 DEF InOrder
      <4> QED BY <1>11, <3>1, <4>1
    <3> QED BY <1>3, <1>12, <1>13, <3>5
  <2>3. CASE Sending(b) /\ iocb[b].id = own[b]
    <3>1. PICK t \in Threads : pc[t] # "idle" /\ work[t].cookie = b BY <2>3 DEF Sending
    <3>2. iocb[b].id = count BY <1>1, <3>1 DEF InOrder
    <3> QED BY <1>3, <1>12, <1>13, <2>3, <3>2
  <2> QED BY <2>1, <2>2, <2>3
<1>15. l < i
  <2>1. e.id <= log[i].id BY <1>3, <1>9, <1>12, <1>14
  <2>2. log[l].id < e.id BY <1>2, <1>10
  <2> QED BY <1>1, <1>10, <1>11, <1>12, <2>1, <2>2 DEF InOrder
<1>16. InTurn BY DEF InTurn
<1>17. dios[b].order + s = log[i].num /\ dios[c].order + s = log[l].num
  BY <1>8, <1>9, <1>10, <1>16 DEF Knows
<1>18. log[l].num < log[i].num
  BY <1>1, <1>9, <1>10, <1>11, <1>15 DEF Effects, IsEffect
<1>19. s \in Nat BY DEF Handled, Counted
<1> QED BY <1>3, <1>4, <1>5, <1>7, <1>17, <1>18, <1>19

Unfailing ==
  ~lost /\ MaxLen <= CaptureLimit => Clean /\ \A t \in Threads : pc[t] # "aborting"

LEMMA EmitUnfailing ==
  ASSUME Types, Clean, NEW e \in Events, e.op # "abort", Emit(e), ~lost', UNCHANGED batch_error
  PROVE  Clean' /\ Len(ring) < RingSize
<1>1. Len(ring) < RingSize /\ ring' = Append(ring, e) BY DEF Emit
<1>2. ring \in Seq(Events) BY DEF Types, RingTypes
<1>3. \A i \in 1..Len(ring') : (i \in 1..Len(ring) /\ ring'[i] = ring[i]) \/ ring'[i] = e
  BY <1>1, <1>2
<1> QED BY <1>1, <1>3 DEF Clean

LEMMA EventUnfailing ==
  ASSUME Alone, Types, Queue, Fits, Story, Clean, handle_event
  PROVE  Clean'
<1>1. ring # <<>> /\ ring' = Tail(ring) /\ UNCHANGED lost BY DEF handle_event
<1>2. PICK log, mate, req, content, top, h, own, s :
        Emitted(log, mate, req, content, top) /\ Handled(log, mate, content, top, h, own, s)
  BY DEF Story
<1>3. Entries(log, mate) /\ log \in Seq(Logged) /\ Waiting(log, h)
  BY <1>2 DEF Emitted, Handled, Entries
<1>4. PICK e : e = log[h + 1] OBVIOUS
<1>5. Next1(log, h, e) /\ e.ev = Head(ring) BY <1>1, <1>3, <1>4, HeadEvent
<1>6. ASSUME e.ev.op # "write", e.ev.cookie \in DOMAIN dios
      PROVE  own[e.ev.cookie] = e.id
  <2>1. e.ev.cookie \in Cookies BY <1>3, <1>5, <1>6, EntryCookie DEF Next1
  <2>2. PICK c \in Cookies : c = e.ev.cookie BY <2>1
  <2> QED BY <1>2, <1>5, <1>6, <2>2, OwnAlone
<1>7. batch_error' = batch_error BY <1>2, <1>5, <1>6, EventHandled
<1>8. ring \in Seq(Events) BY DEF Types, RingTypes
<1>9. \A i \in 1..Len(ring') : i + 1 \in 1..Len(ring) /\ ring'[i] = ring[i + 1] BY <1>1, <1>8
<1> QED BY <1>1, <1>7, <1>9 DEF Clean

LEMMA UnfailingKept ==
  ASSUME Alone, Faithful, Unfailing, [Next]_vars
  PROVE  Unfailing'
<1> SUFFICES ASSUME ~lost', MaxLen <= CaptureLimit
             PROVE  Clean' /\ \A t \in Threads : pc'[t] # "aborting"
  BY DEF Unfailing
<1> USE DEF Faithful
<1>1. CASE UNCHANGED vars
  BY <1>1 DEF vars, hooks, user, Unfailing, Clean
<1>2. ASSUME NEW t \in Threads, handle_io_submit_one(t)
      PROVE  Clean' /\ \A u \in Threads : pc'[u] # "aborting"
  <2>1. PICK v \in {"issued", "refused"} : pc' = [pc EXCEPT ![t] = v]
    BY <1>2 DEF handle_io_submit_one
  <2>2. ~lost /\ UNCHANGED <<ring, batch_error>> BY <1>2 DEF handle_io_submit_one, user
  <2>3. \A u \in Threads : pc'[u] = v \/ pc'[u] = pc[u] BY <2>1 DEF Types, HookTypes
  <2> QED BY <2>1, <2>2, <2>3 DEF Unfailing, Clean
<1>3. ASSUME NEW t \in Threads, SyncWrite(t)
      PROVE  Clean' /\ \A u \in Threads : pc'[u] # "aborting"
  <2>1. PICK f \in Files, k \in 1..Cells :
          /\ count < MaxOps
          /\ IF f \in Captured
             THEN Emit([Event("write", NoOp) EXCEPT !.file = f, !.off = k - 1,
                                                    !.data = <<count + 1>>])
             ELSE UNCHANGED <<ring, lost>>
          /\ UNCHANGED <<iocb, io, hooks, user, sink>>
    BY <1>3 DEF SyncWrite
  <2>2. PICK ev : ev = [Event("write", NoOp) EXCEPT !.file = f, !.off = k - 1,
                                                    !.data = <<count + 1>>]
    OBVIOUS
  <2>3. ev \in Events /\ ev.op = "write"
    <3>1. count + 1 \in Cell BY <2>1, Bounds DEF Types, AppTypes, Cell
    <3>2. <<count + 1>> \in Seq(Cell) /\ k - 1 \in Nat BY <3>1, Bounds
    <3> QED BY <2>2, <3>2 DEF Event, Events
  <2>4. UNCHANGED <<pc, batch_error>> BY <2>1 DEF hooks, user
  <2>5. CASE f \in Captured
    <3>1. Emit(ev) BY <2>1, <2>2, <2>5
    <3>2. ~lost BY <3>1 DEF Emit
    <3> QED BY <2>3, <2>4, <3>1, <3>2, EmitUnfailing DEF Unfailing
  <2>6. CASE f \notin Captured BY <2>1, <2>4, <2>6 DEF Unfailing, Clean
  <2> QED BY <2>5, <2>6
<1>4. ASSUME NEW t \in Threads, InSubmit(t)
      PROVE  Clean' /\ \A u \in Threads : pc'[u] # "aborting"
  <2>1. UNCHANGED batch_error
    BY <1>4 DEF InSubmit, handle_io_submit_one_exit, dio_emit_one, EmitDone, EmitAbort, Hook, user
  <2>2. ASSUME NEW v, v # "aborting", pc' = [pc EXCEPT ![t] = v] \/ pc' = pc, ~lost
        PROVE  \A u \in Threads : pc'[u] # "aborting"
    BY <2>2 DEF Unfailing, Types, HookTypes
  <2>3. ASSUME NEW e \in Events, e.op # "abort", Emit(e) PROVE Clean' /\ ~lost /\ Len(ring) < RingSize
    <3>1. ~lost BY <2>3 DEF Emit
    <3> QED BY <2>1, <2>3, <3>1, EmitUnfailing DEF Unfailing
  <2>4. CASE handle_io_submit_one_exit(t)
    <3>1. PICK v \in {"idle", "staging", "aborting"} :
            /\ pc' = [pc EXCEPT ![t] = v] /\ UNCHANGED ring
            /\ UNCHANGED lost \/ lost' = TRUE
            /\ v = "aborting" => lost' = TRUE
      BY <2>4 DEF handle_io_submit_one_exit, Leave
    <3>2. v # "aborting" /\ ~lost BY <3>1
    <3>3. Clean' BY <2>1, <3>1, <3>2 DEF Unfailing, Clean
    <3> QED BY <2>2, <3>1, <3>2, <3>3
  <2>5. CASE dio_emit_one(t)
    <3>1. pc[t] # "idle" BY <2>5 DEF dio_emit_one
    <3>2. work[t].ib \in Request /\ Segment(work[t]) \in Events /\ Segment(work[t]).op = "submit"
      BY <3>1, JobTyped, SegmentTyped
    <3> DEFINE n == IF work[t].ib.kind = "pwrite" THEN work[t].ib.len ELSE 1
    <3>3. Emit(Segment(work[t])) BY <2>5 DEF dio_emit_one, Segment
    <3>4. Clean' /\ ~lost /\ Len(ring) < RingSize BY <2>3, <3>2, <3>3
    <3>5. Least(n, CaptureLimit) = n
      <4>1. work[t].ib.len \in 1..MaxLen BY <3>2, RequestTyped
      <4> QED BY <4>1, Bounds DEF Least
    <3>6. pc' = pc
      <4> HIDE DEF n
      <4>1. \/ pc' = IF Least(n, CaptureLimit) = n /\ Len(ring) < RingSize
                     THEN pc ELSE [pc EXCEPT ![t] = "aborting"]
            \/ lost' = TRUE
        BY <2>5 DEF dio_emit_one, n
      <4> QED BY <3>4, <3>5, <4>1
    <3> QED BY <3>4, <3>6 DEF Unfailing
  <2>6. CASE EmitDone(t)
    <3>1. PICK e : e = [Event("done", work[t].cookie) EXCEPT !.size = work[t].sent] OBVIOUS
    <3>2. e \in Events /\ e.op = "done" BY <2>6, <3>1, EmitDoneTypes
    <3>3. Emit(e) /\ pc' = [pc EXCEPT ![t] = "idle"] BY <2>6, <3>1 DEF EmitDone, Leave
    <3> QED BY <2>2, <2>3, <3>2, <3>3
  <2>7. CASE EmitAbort(t)
    <3>1. lost => lost' BY <2>7 DEF EmitAbort, Emit
    <3>2. pc[t] = "aborting" BY <2>7 DEF EmitAbort
    <3> QED BY <3>1, <3>2 DEF Unfailing
  <2> QED BY <1>4, <2>4, <2>5, <2>6, <2>7 DEF InSubmit
<1>5. ASSUME NEW c \in Cookies, handle_aio_complete_rw(c)
      PROVE  Clean' /\ \A u \in Threads : pc'[u] # "aborting"
  <2>1. PICK res \in 0..io[c].len :
          IF c \in inflight /\ IsWrite(io[c]) THEN dio_emit_complete(c, io[c].file, res)
          ELSE UNCHANGED <<ring, lost>>
    BY <1>5 DEF handle_aio_complete_rw
  <2>2. io[c] \in Request /\ UNCHANGED <<pc, batch_error>>
    BY <1>5 DEF handle_aio_complete_rw, Types, AppTypes, user
  <2>3. CASE c \in inflight /\ IsWrite(io[c])
    <3>1. PICK fl : fl = IF io[c].file \in Captured THEN io[c].file ELSE NoOp OBVIOUS
    <3>2. fl \in Files \cup {NoOp} /\ res \in Nat BY <2>1, <2>2, <3>1, RequestTyped
    <3> DEFINE ev == [Event("complete", c) EXCEPT !.ret = res, !.file = fl]
    <3>3. ev \in Events /\ ev.op = "complete" BY <3>2, CompleteEvent
    <3>4. Emit(ev) BY <2>1, <2>3, <3>1 DEF dio_emit_complete
    <3> HIDE DEF ev
    <3>5. ev \in Events /\ ev.op # "abort" /\ Emit(ev) BY <3>3, <3>4
    <3>6. ~lost BY <3>5 DEF Emit
    <3> QED BY <2>2, <3>5, <3>6, EmitUnfailing DEF Unfailing
  <2>4. CASE ~(c \in inflight /\ IsWrite(io[c])) BY <2>1, <2>2, <2>4 DEF Unfailing, Clean
  <2> QED BY <2>3, <2>4
<1>6. CASE handle_event
  <2>1. UNCHANGED <<lost, pc>> BY <1>6 DEF handle_event, hooks
  <2>2. Clean BY <2>1 DEF Unfailing
  <2> QED BY <1>6, <2>1, <2>2, EventUnfailing DEF Unfailing
<1>7. CASE capture_and_send
  BY <1>7 DEF capture_and_send, hooks, Unfailing, Clean
<1> QED BY <1>1, <1>2, <1>3, <1>4, <1>5, <1>6, <1>7 DEF Next, Capturer

(* With one thread a capture fails only if an event or a read was lost, or *)
(* a segment is longer than an event: no payload that is all there is found*)
(* short, and the use of an iocb again is never taken for a duplicate      *)
(* (dio_stage_segment, dio_submit_done, dio_note_completion, dio_commit).  *)
THEOREM FailsForReason ==
  ASSUME ~SharedReap, \A t, u \in Threads : t = u
  PROVE  Spec => []NoFalseAlarm
<1>1. Alone BY DEF Alone
<1>2. Init => Faithful /\ Unfailing
  <2>1. Init => Clean /\ \A t \in Threads : pc[t] # "aborting" BY DEF Init, Clean
  <2> QED BY <2>1, TrueInit DEF Unfailing
<1>3. Faithful /\ Unfailing /\ [Next]_vars => Faithful' /\ Unfailing'
  BY <1>1, TrueStep, UnfailingKept
<1>4. Faithful /\ Unfailing => NoFalseAlarm
  BY Bounds DEF Unfailing, NoFalseAlarm, Clean
<1> QED BY <1>2, <1>3, <1>4, PTL DEF Spec
=============================================================================
