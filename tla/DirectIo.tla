------------------------------ MODULE DirectIo ------------------------------
(***************************************************************************)
(* The capture of native AIO writes (io_submit), which never pass through  *)
(* vfs_write: the hooks on io_submit_one and aio_complete_rw, the table of *)
(* tentative writes in statediff_vfs.c that pairs what they report, and the*)
(* backup the committed writes are replayed on.                            *)
(*                                                                         *)
(* A write is known by its cookie, the address of the user's iocb.  Its    *)
(* payload is read by the fexit hook of io_submit_one, its result reported *)
(* by the fentry hook of aio_complete_rw, on any CPU and in either order.  *)
(* An iocb and its buffer belong to the application again once the write   *)
(* has been reaped.  A write fills its cells with its own number.          *)
(***************************************************************************)
EXTENDS Replay, Integers, FiniteSets

CONSTANTS
  Threads,      \* threads of the application
  Cookies,      \* addresses of its iocbs
  Files,        \* its files, of equal and constant size
  Captured,     \* those in the captured directory
  Cells,        \* number of cells of a file
  MaxLen,       \* cells of the longest request
  Kinds,        \* the submissions the application makes
  SyncWrites,   \* TRUE if it also uses write(2)
  SharedReap,   \* TRUE if a thread may reap what another submitted
  CaptureLimit, \* cells of a segment that fit in an event (4 MiB)
  Faults,       \* TRUE if a read of user memory may fail in a hook
  RingSize,     \* events the ring buffer holds
  DioMax,       \* entries dio_inflight holds (8192)
  NoOp,         \* no request, no iocb, no file
  MaxOps        \* bound: writes and reads started

ASSUME DioAssumption ==
  /\ Captured \subseteq Files /\ Kinds \subseteq {"pwrite", "pwritev", "pread"}
  /\ SyncWrites \in BOOLEAN /\ SharedReap \in BOOLEAN /\ Faults \in BOOLEAN
  /\ {Cells, MaxLen, CaptureLimit, RingSize, DioMax, MaxOps} \subseteq Nat

VARIABLES
  disk,        \* the primary's files
  past,        \* ghost: every content the captured files have had
  count,       \* ghost: writes and reads started, the number of the last
  iocb,        \* user memory: the request that each iocb describes
  io,          \* the kernel's copy of a request, until it completes
  pc,          \* "idle", or where a thread is in io_submit
  work,        \* what the fexit hook of a thread is working on
  inflight,    \* BPF map dio_inflight
  ring, lost,  \* BPF ring buffer; a loss counter is not zero
  dios,        \* rt->dios.entries: cookie -> tentative write
  next_completion_order, next_commit_order,
  batch, batch_error,
  daemon, backup

app   == <<disk, past, count, iocb, io>>
hooks == <<pc, work, inflight>>
user  == <<dios, next_completion_order, next_commit_order, batch, batch_error>>
sink  == <<daemon, backup>>
vars  == <<app, hooks, ring, lost, user, sink>>

Repeat(v, n) == [k \in 1..n |-> v]
CellsOf(op) == {<<op.file, k>> : k \in (op.off + 1)..(op.off + op.len)}
Least(m, n) == IF m < n THEN m ELSE n
View(files) == [f \in Captured |-> files[f]]

Request == [kind : Kinds, file : Files, off : 0..Cells, len : 1..MaxLen, id : 1..MaxOps]
IsWrite(op) == op.kind # "pread"

ASSUME NoOpAssumption == NoOp \notin Request \cup Cookies \cup Files

Work(t, c) == pc[t] # "idle" /\ work[t].cookie = c

(* Reaped: the application knows that the last use of the iocb is over.    *)
Reaped(c) == io[c] = NoOp /\ (SharedReap \/ \A t \in Threads : ~Work(t, c))

(* The application starts no write over cells of one that is under way.    *)
Clear(cells) ==
  \A c \in Cookies : iocb[c] # NoOp /\ ~Reaped(c) => cells \cap CellsOf(iocb[c]) = {}

Write(files, r) == [files EXCEPT ![r.file] = Overwrite(@, r.off, r.data)]
Written(files, records) ==
  LET after[n \in 0..Len(records)] ==
        IF n = 0 THEN files ELSE Write(after[n - 1], records[n])
  IN after[Len(records)]

-----------------------------------------------------------------------------
(* The application and the kernel.                                         *)

Event(op, c) == [op |-> op, cookie |-> c, file |-> NoOp, off |-> 0, data |-> <<>>,
                 size |-> 0, ret |-> 0, truncated |-> FALSE]

Emit(e) ==
  IF Len(ring) < RingSize THEN ring' = Append(ring, e) /\ UNCHANGED lost
  ELSE lost' = TRUE /\ UNCHANGED ring

(* The fentry hook registers the cookie, then the kernel imports the iocb  *)
(* and starts the request, or refuses it (ok is FALSE: ret < 0).           *)
handle_io_submit_one(t) ==
  \E c \in Cookies, op \in Request, ok \in BOOLEAN :
    /\ pc[t] = "idle" /\ Reaped(c)
    /\ op.id = count + 1 /\ op.off + op.len <= Cells /\ Clear(CellsOf(op))
    /\ count' = count + 1
    /\ iocb' = [iocb EXCEPT ![c] = op]
    /\ IF Cardinality(inflight \cup {c}) <= DioMax
       THEN inflight' = inflight \cup {c} /\ UNCHANGED lost
       ELSE lost' = TRUE /\ UNCHANGED inflight
    /\ io' = IF ok THEN [io EXCEPT ![c] = op] ELSE io
    /\ pc' = [pc EXCEPT ![t] = IF ok THEN "issued" ELSE "refused"]
    /\ work' = [work EXCEPT ![t] = [cookie |-> c, ib |-> op, sent |-> 0]]
    /\ UNCHANGED <<disk, past, ring, user, sink>>

(* dio_emit_complete names the file only if its directory is tracked.      *)
dio_emit_complete(c, file, res) ==
  Emit([Event("complete", c) EXCEPT !.ret = res,
                                    !.file = IF file \in Captured THEN file ELSE NoOp])

(* The device is done with a request: res cells were transferred, 0 stands *)
(* for an error too.  The hook runs before the application can tell.       *)
handle_aio_complete_rw(c) ==
  /\ io[c] # NoOp
  /\ \E res \in 0..io[c].len :
       /\ disk' = IF IsWrite(io[c])
                  THEN Write(disk, [file |-> io[c].file, off |-> io[c].off,
                                    data |-> Repeat(io[c].id, res)])
                  ELSE disk
       /\ IF c \in inflight /\ IsWrite(io[c]) THEN dio_emit_complete(c, io[c].file, res)
          ELSE UNCHANGED <<ring, lost>>
  /\ past' = past \cup {View(disk')}
  /\ inflight' = inflight \ {c}
  /\ io' = [io EXCEPT ![c] = NoOp]
  /\ UNCHANGED <<count, iocb, pc, work, user, sink>>

(* write(2) of one cell: the hooks around vfs_write report it at once.     *)
SyncWrite(t) ==
  \E f \in Files, k \in 1..Cells :
    LET r == [file |-> f, off |-> k - 1, data |-> <<count + 1>>]
    IN /\ SyncWrites /\ pc[t] = "idle" /\ count < MaxOps /\ Clear({<<f, k>>})
       /\ count' = count + 1
       /\ disk' = Write(disk, r)
       /\ past' = past \cup {View(disk')}
       /\ IF f \in Captured
          THEN Emit([Event("write", NoOp) EXCEPT !.file = f, !.off = r.off, !.data = r.data])
          ELSE UNCHANGED <<ring, lost>>
       /\ UNCHANGED <<iocb, io, hooks, user, sink>>

-----------------------------------------------------------------------------
(* The fexit hook of io_submit_one.                                        *)

Hook == UNCHANGED <<app, user, sink>>
Leave(t) == pc' = [pc EXCEPT ![t] = "idle"] /\ UNCHANGED work
Forget(t) == inflight' = inflight \ {work[t].cookie}

(* It reads the iocb as it is by now.  A refused request and a read leave  *)
(* nothing behind; a failed read of the iocb aborts.                       *)
handle_io_submit_one_exit(t) ==
  LET c == work[t].cookie
  IN /\ Hook /\ UNCHANGED ring
     /\ \/ /\ pc[t] = "refused"
           /\ Forget(t) /\ Leave(t) /\ UNCHANGED lost
        \/ /\ pc[t] = "issued" /\ ~IsWrite(iocb[c])
           /\ Forget(t) /\ Leave(t) /\ UNCHANGED lost
        \/ /\ pc[t] = "issued" /\ IsWrite(iocb[c])
           /\ pc' = [pc EXCEPT ![t] = "staging"]
           /\ work' = [work EXCEPT ![t].ib = iocb[c]]
           /\ UNCHANGED <<inflight, lost>>
        \/ /\ pc[t] = "issued" /\ Faults
           /\ pc' = [pc EXCEPT ![t] = "aborting"] /\ lost' = TRUE
           /\ UNCHANGED <<work, inflight>>

(* dio_emit_one: the next segment, with the bytes the buffer holds by now. *)
(* A PWRITE is one segment, a PWRITEV one per cell.  What does not fit in  *)
(* an event is cut and aborts the capture of the write.                    *)
dio_emit_one(t) ==
  LET w     == work[t]
      n     == IF w.ib.kind = "pwrite" THEN w.ib.len ELSE 1
      chunk == Least(n, CaptureLimit)
      seg   == [Event("submit", w.cookie) EXCEPT
                  !.off = w.ib.off + w.sent, !.data = Repeat(iocb[w.cookie].id, chunk),
                  !.truncated = chunk < n]
      whole == chunk = n /\ Len(ring) < RingSize
  IN /\ pc[t] = "staging" /\ w.sent < w.ib.len
     /\ Hook /\ UNCHANGED inflight
     /\ \/ /\ Emit(seg)
           /\ pc' = IF whole THEN pc ELSE [pc EXCEPT ![t] = "aborting"]
           /\ work' = [work EXCEPT ![t].sent = IF whole THEN @ + n ELSE @]
        \/ /\ Faults
           /\ lost' = TRUE /\ pc' = [pc EXCEPT ![t] = "aborting"]
           /\ UNCHANGED <<ring, work>>

EmitDone(t) ==
  /\ pc[t] = "staging" /\ work[t].sent = work[t].ib.len
  /\ Emit([Event("done", work[t].cookie) EXCEPT !.size = work[t].sent])
  /\ IF Len(ring) < RingSize THEN UNCHANGED inflight ELSE Forget(t)
  /\ Leave(t) /\ Hook

EmitAbort(t) ==
  /\ pc[t] = "aborting"
  /\ Forget(t) /\ Emit(Event("abort", work[t].cookie))
  /\ Leave(t) /\ Hook

-----------------------------------------------------------------------------
(* The capturer: the table of tentative writes.                            *)

NewEntry == [segs |-> <<>>, size |-> 0, done |-> FALSE, aborted |-> FALSE,
             seen |-> FALSE, order |-> 0, res |-> 0, file |-> NoOp]
dio_get_or_create(c) == IF c \in DOMAIN dios THEN dios[c] ELSE NewEntry
Put(c, e) == Set(dios, c, e)

Staged(segs) ==
  LET sum[n \in 0..Len(segs)] == IF n = 0 THEN 0 ELSE sum[n - 1] + Len(segs[n].data)
  IN sum[Len(segs)]

(* dio_commit: its loop makes the first res cells of what was staged WRITE *)
(* records.                                                                *)
Taken(e) ==
  LET take[n \in 0..Len(e.segs)] ==
        IF n = 0 THEN [left |-> e.res, records |-> <<>>, cut |-> FALSE]
        ELSE LET out == take[n - 1]
                 s   == e.segs[n]
                 k   == Least(Len(s.data), out.left)
             IN IF k = 0 THEN out
                ELSE [left |-> out.left - k, cut |-> out.cut \/ s.truncated,
                      records |-> Append(out.records, [file |-> e.file, off |-> s.off,
                                                       data |-> SubSeq(s.data, 1, k)])]
  IN take[Len(e.segs)]

RecordsWhole(e) ==   \* mutant: the result of the write is ignored
  IF e.aborted \/ Staged(e.segs) # e.size \/ e.file = NoOp THEN <<>>
  ELSE [i \in 1..Len(e.segs) |->
          [file |-> e.file, off |-> e.segs[i].off, data |-> e.segs[i].data]]

Records(e) ==
  IF e.aborted \/ Staged(e.segs) # e.size \/ e.file = NoOp THEN <<>> ELSE Taken(e).records

CommitFails(e) ==
  /\ ~e.aborted
  /\ \/ Staged(e.segs) # e.size
     \/ e.file # NoOp /\ (Taken(e).left > 0 \/ Taken(e).cut)

(* dio_flush_completed: the completed writes are committed in the order in *)
(* which they completed, up to the first whose payload is not all there.   *)
Ready(d, k) == {c \in DOMAIN d : d[c].seen /\ d[c].order = k /\ d[c].done}
FinishKeeps(d, turns, failed) ==   \* mutant: a committed entry is not removed
  LET entry(i) == d[CHOOSE c \in Ready(d, turns[i]) : TRUE]
  IN /\ dios' = d
     /\ batch' = batch \o FlattenSeq([i \in DOMAIN turns |-> Records(entry(i))])
     /\ batch_error' = (batch_error \/ failed)
     /\ next_commit_order' = next_commit_order + Len(turns)

Finish(d, turns, failed) ==
  LET at(i) == CHOOSE c \in Ready(d, turns[i]) : TRUE
      commit[n \in 0..Len(turns)] ==
        IF n = 0 THEN batch ELSE commit[n - 1] \o Records(d[at(n)])
  IN /\ dios' = [c \in DOMAIN d \ {at(i) : i \in DOMAIN turns} |-> d[c]]
     /\ batch' = commit[Len(turns)]
     /\ batch_error' = (batch_error \/ failed \/ \E i \in DOMAIN turns : CommitFails(d[at(i)]))
     /\ next_commit_order' = next_commit_order + Len(turns)

CommitAnyOrder(d, failed) ==   \* mutant: a write is committed when it can be
  Finish(d, SetToSortSeq({k \in 0..next_completion_order : Ready(d, k) # {}}, <), failed)

dio_flush_completed(d, failed) ==
  LET ready == {k \in next_commit_order..next_completion_order :
                  \A j \in next_commit_order..k : Ready(d, j) # {}}
  IN Finish(d, [i \in 1..Cardinality(ready) |-> next_commit_order + i - 1], failed)

Refuse == /\ batch_error' = TRUE
          /\ UNCHANGED <<batch, next_completion_order, next_commit_order>>

dio_stage_segment(e) ==
  LET d == dio_get_or_create(e.cookie)
      s == [off |-> e.off, data |-> e.data, truncated |-> e.truncated]
  IN IF d.done \/ d.aborted THEN Refuse /\ dios' = Put(e.cookie, d)
     ELSE /\ dios' = Put(e.cookie, [d EXCEPT !.segs = Append(@, s)])
          /\ UNCHANGED <<next_completion_order, next_commit_order, batch, batch_error>>

DoneNoFlush(e) ==   \* mutant: only a completion makes the table flush
  LET d == dio_get_or_create(e.cookie)
  IN IF d.done \/ d.aborted THEN Refuse /\ dios' = Put(e.cookie, d)
     ELSE /\ dios' = Put(e.cookie, [d EXCEPT !.done = TRUE, !.size = e.size])
          /\ UNCHANGED <<next_completion_order, next_commit_order, batch, batch_error>>

dio_submit_done(e) ==
  LET d == dio_get_or_create(e.cookie)
  IN IF d.done \/ d.aborted THEN Refuse /\ dios' = Put(e.cookie, d)
     ELSE /\ dio_flush_completed(Put(e.cookie, [d EXCEPT !.done = TRUE, !.size = e.size]),
                                 FALSE)
          /\ UNCHANGED next_completion_order

NoteSameOrder(e) ==   \* mutant: the completion counter does not advance
  LET d == dio_get_or_create(e.cookie)
  IN IF d.seen THEN Refuse /\ dios' = Put(e.cookie, d)
     ELSE /\ dio_flush_completed(
               Put(e.cookie, [d EXCEPT !.seen = TRUE, !.res = e.ret, !.file = e.file,
                                       !.order = next_completion_order]),
               FALSE)
          /\ UNCHANGED next_completion_order

dio_note_completion(e) ==
  LET d == dio_get_or_create(e.cookie)
  IN IF d.seen THEN Refuse /\ dios' = Put(e.cookie, d)
     ELSE /\ dio_flush_completed(
               Put(e.cookie, [d EXCEPT !.seen = TRUE, !.res = e.ret, !.file = e.file,
                                       !.order = next_completion_order]),
               FALSE)
          /\ next_completion_order' = next_completion_order + 1

dio_abort(e) ==
  /\ dio_flush_completed(
       Put(e.cookie, [dio_get_or_create(e.cookie) EXCEPT !.aborted = TRUE, !.done = TRUE]),
       TRUE)
  /\ UNCHANGED next_completion_order

HandleWrite(e) ==
  /\ batch' = Append(batch, [file |-> e.file, off |-> e.off, data |-> e.data])
  /\ UNCHANGED <<dios, next_completion_order, next_commit_order, batch_error>>

handle_event ==
  LET e == Head(ring)
  IN /\ ring # <<>>
     /\ \/ e.op = "submit"   /\ dio_stage_segment(e)
        \/ e.op = "done"     /\ dio_submit_done(e)
        \/ e.op = "complete" /\ dio_note_completion(e)
        \/ e.op = "abort"    /\ dio_abort(e)
        \/ e.op = "write"    /\ HandleWrite(e)
     /\ ring' = Tail(ring)
     /\ UNCHANGED <<app, hooks, lost, sink>>

(* A harvest: the ring is drained, then a capture that lost something is   *)
(* answered with an error and ends the capturer, and any other batch is    *)
(* applied on the backup.                                                  *)
capture_and_send ==
  /\ ring = <<>> /\ (lost \/ batch_error \/ batch # <<>>)
  /\ IF lost \/ batch_error
     THEN daemon' = "failed" /\ UNCHANGED <<batch, backup>>
     ELSE /\ backup' = Written(backup, batch)
          /\ batch' = <<>>
          /\ UNCHANGED daemon
  /\ UNCHANGED <<app, hooks, ring, lost, dios, next_completion_order, next_commit_order,
                 batch_error>>

-----------------------------------------------------------------------------
Init ==
  /\ disk = [f \in Files |-> Repeat(Zero, Cells)]
  /\ past = {View(disk)} /\ count = 0
  /\ iocb = [c \in Cookies |-> NoOp] /\ io = iocb
  /\ pc = [t \in Threads |-> "idle"]
  /\ work = [t \in Threads |-> NoOp]
  /\ inflight = {}
  /\ ring = <<>> /\ lost = FALSE
  /\ dios = <<>> /\ next_completion_order = 0 /\ next_commit_order = 0
  /\ batch = <<>> /\ batch_error = FALSE
  /\ daemon = "run" /\ backup = View(disk)

InSubmit(t) ==
  handle_io_submit_one_exit(t) \/ dio_emit_one(t) \/ EmitDone(t) \/ EmitAbort(t)
Capturer == handle_event \/ capture_and_send

Next ==
  /\ daemon = "run"
  /\ \/ \E t \in Threads : handle_io_submit_one(t) \/ SyncWrite(t) \/ InSubmit(t)
     \/ \E c \in Cookies : handle_aio_complete_rw(c)
     \/ Capturer

Spec == Init /\ [][Next]_vars

-----------------------------------------------------------------------------
TypeOK ==
  /\ disk \in [Files -> Seq({Zero} \cup 1..MaxOps)] /\ count \in 0..MaxOps
  /\ iocb \in [Cookies -> Request \cup {NoOp}] /\ io \in [Cookies -> Request \cup {NoOp}]
  /\ pc \in [Threads -> {"idle", "issued", "refused", "staging", "aborting"}]
  /\ inflight \subseteq Cookies /\ Len(ring) <= RingSize /\ lost \in BOOLEAN
  /\ DOMAIN dios \subseteq Cookies /\ next_commit_order <= next_completion_order
  /\ batch_error \in BOOLEAN /\ daemon \in {"run", "failed"}

Healthy == ~lost /\ ~batch_error /\ daemon = "run"
Quiet == (\A t \in Threads : pc[t] = "idle") /\ \A c \in Cookies : io[c] = NoOp

(* When nothing is under way and nothing is left to deliver, a capture that*)
(* has reported no loss has made the backup equal to the primary.          *)
FailClosed == Healthy /\ Quiet /\ ring = <<>> /\ batch = <<>> => backup = View(disk)

(* No write waits in the table for a half that has arrived already, or for *)
(* one that will not come: whichever of done, abort and complete is last,  *)
(* it makes the table flush as far as it can.                              *)
NothingStranded == Healthy /\ Quiet /\ ring = <<>> => dios = <<>>

(* A capture fails only for a reason: an event or a read was lost, or a    *)
(* segment is longer than an event can hold.  Reusing an iocb is no reason *)
(* (dio_stage_segment refuses what it takes for a duplicate).              *)
NoFalseAlarm == batch_error => lost \/ MaxLen > CaptureLimit

(* The backup is always a state the primary has been in: a database's later*)
(* write is never there without the earlier one it relied on (writes are   *)
(* committed in completion order, dio_flush_completed).                    *)
WriteOrder == backup \in past
=============================================================================
