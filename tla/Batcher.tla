------------------------------- MODULE Batcher ------------------------------
(***************************************************************************)
(* The write batcher of the todo service (batcher.go).  Every request is a *)
(* handler's call of Submit, in a goroutine of its own; one goroutine runs *)
(* loop; another may call Stop, once.  A select takes any case that is     *)
(* ready, and the window's timer may fire at any time.                     *)
(*                                                                         *)
(* The database is external.  A call of WriteParameterized executes the    *)
(* statements of a batch one by one, outside a transaction: each succeeds  *)
(* or fails on its own, and the call as a whole may fail at any point, or  *)
(* return fewer results than statements.  It executes nothing once it has  *)
(* returned.                                                               *)
(***************************************************************************)
EXTENDS Naturals, Sequences, FiniteSets

CONSTANTS
  Requests,     \* calls of Submit
  Capacity,     \* of reqCh
  MaxBatches    \* the sizes to choose from for New

ASSUME BatcherAssumption == Capacity \in Nat \ {0} /\ MaxBatches \subseteq Nat \ {0}

VARIABLES
  maxBatch,   \* b.maxBatch
  submits,    \* request -> where its Submit is, or what it has returned
  response,   \* request -> its response channel: "none" if empty
  reqCh,      \* channel of requests
  stopper,    \* where the call of Stop is; stopCh is closed once it began
  at,         \* where loop is
  leaving,    \* loop has seen stopCh closed
  batch,      \* the requests of the batch
  tried,      \* statements of it that the database has dealt with
  good,       \* those that succeeded
  answers,    \* what the call returned, as one answer per request
  log         \* statements executed so far, in this order

channels == <<reqCh, response>>
database == <<tried, good, log>>
vars == <<maxBatch, submits, channels, stopper, at, leaving, batch, database, answers>>

Closed == stopper # "idle"

-----------------------------------------------------------------------------
(* Submit: its select takes the channel if there is room, and gives up if  *)
(* stopCh is closed; then it waits for the answer.                         *)

SubmitUnbounded(r) ==   \* mutant: the channel has no limit
  /\ submits[r] = "new" /\ submits' = [submits EXCEPT ![r] = "accepted"]
  /\ reqCh' = Append(reqCh, r)
  /\ UNCHANGED <<maxBatch, response, stopper, at, leaving, batch, database, answers>>

Submit(r) ==
  /\ submits[r] = "new" /\ Len(reqCh) < Capacity
  /\ submits' = [submits EXCEPT ![r] = "accepted"]
  /\ reqCh' = Append(reqCh, r)
  /\ UNCHANGED <<maxBatch, response, stopper, at, leaving, batch, database, answers>>

SubmitStopped(r) ==
  /\ submits[r] = "new" /\ Closed
  /\ submits' = [submits EXCEPT ![r] = "refused"]
  /\ UNCHANGED <<maxBatch, channels, stopper, at, leaving, batch, database, answers>>

SubmitReturns(r) ==
  /\ submits[r] = "accepted" /\ response[r] # "none"
  /\ submits' = [submits EXCEPT ![r] = response[r]]
  /\ response' = [response EXCEPT ![r] = "none"]
  /\ UNCHANGED <<maxBatch, reqCh, stopper, at, leaving, batch, database, answers>>

(* Stop closes stopCh and waits until loop has closed done.                *)
Stop ==
  /\ stopper = "idle" /\ stopper' = "waiting"
  /\ UNCHANGED <<maxBatch, submits, channels, at, leaving, batch, database, answers>>

StopReturns ==
  /\ stopper = "waiting" /\ at = "done" /\ stopper' = "stopped"
  /\ UNCHANGED <<maxBatch, submits, channels, at, leaving, batch, database, answers>>

-----------------------------------------------------------------------------
(* loop *)

Loop == UNCHANGED <<maxBatch, submits, response, stopper>>
Take(next) == reqCh # <<>> /\ reqCh' = Tail(reqCh) /\ at' = next

(* The select that waits for the first request of a batch.                 *)
first ==
  /\ at = "first" /\ Loop /\ UNCHANGED <<database, answers>>
  /\ \/ Take("collect") /\ batch' = <<Head(reqCh)>> /\ UNCHANGED leaving
     \/ Closed /\ at' = "drain" /\ leaving' = TRUE /\ UNCHANGED <<reqCh, batch>>

(* More requests, until the batch is full, the window is over or stopCh is *)
(* closed; then flush.                                                     *)
collectStopped ==   \* mutant: the batch is dropped when stopCh is closed
  /\ at = "collect" /\ Loop /\ UNCHANGED <<database, answers>>
  /\ \/ /\ Len(batch) < maxBatch
        /\ \/ Take("collect") /\ batch' = Append(batch, Head(reqCh)) /\ UNCHANGED leaving
           \/ at' = "flush" /\ UNCHANGED <<reqCh, batch, leaving>>
           \/ Closed /\ at' = "drain" /\ leaving' = TRUE /\ batch' = <<>> /\ UNCHANGED reqCh
     \/ Len(batch) = maxBatch /\ at' = "flush" /\ UNCHANGED <<reqCh, batch, leaving>>

collect ==
  /\ at = "collect" /\ Loop /\ UNCHANGED <<database, answers>>
  /\ \/ /\ Len(batch) < maxBatch
        /\ \/ Take("collect") /\ batch' = Append(batch, Head(reqCh)) /\ UNCHANGED leaving
           \/ at' = "flush" /\ UNCHANGED <<reqCh, batch, leaving>>
           \/ Closed /\ at' = "flush" /\ leaving' = TRUE /\ UNCHANGED <<reqCh, batch>>
     \/ Len(batch) = maxBatch /\ at' = "flush" /\ UNCHANGED <<reqCh, batch, leaving>>

(* flush: the database executes the statements, ...                        *)
WriteParameterized ==
  /\ at = "flush" /\ tried < Len(batch) /\ tried' = tried + 1
  /\ \/ good' = good \cup {tried'} /\ log' = Append(log, batch[tried'])
     \/ UNCHANGED <<good, log>>
  /\ Loop /\ UNCHANGED <<reqCh, at, leaving, batch, answers>>

(* ... the call returns an error or results for the first n statements,    *)
AnswersByCall(n) == [k \in 1..Len(batch) |->   \* mutant: an error of one statement is not looked at
                       IF k <= n THEN "ok" ELSE "error"]
Answers(n) == [k \in 1..Len(batch) |-> IF k <= n /\ k \in good THEN "ok" ELSE "error"]

flush ==
  /\ at = "flush" /\ at' = "answer"
  /\ \/ answers' = Answers(0)
     \/ tried = Len(batch) /\ \E n \in 1..tried : answers' = Answers(n)
  /\ Loop /\ UNCHANGED <<reqCh, leaving, batch, database>>

(* ... and every request is answered in turn.                              *)
respond ==
  LET r == Head(batch)
  IN /\ at = "answer" /\ batch # <<>>
     /\ response' = [response EXCEPT ![r] = Head(answers)]
     /\ batch' = Tail(batch) /\ answers' = Tail(answers)
     /\ UNCHANGED <<maxBatch, submits, reqCh, stopper, at, leaving, database>>

answered ==
  /\ at = "answer" /\ batch = <<>>
  /\ at' = (IF leaving THEN "drain" ELSE "first")
  /\ tried' = 0 /\ good' = {}
  /\ Loop /\ UNCHANGED <<reqCh, leaving, batch, log, answers>>

(* drain: what is left in the channel, one by one, until it is empty.      *)
drainWaits ==   \* mutant: without the default case
  /\ at = "drain" /\ Loop /\ UNCHANGED <<leaving, database, answers>>
  /\ Take("flush") /\ batch' = <<Head(reqCh)>>

drain ==
  /\ at = "drain" /\ Loop /\ UNCHANGED <<leaving, database, answers>>
  /\ \/ Take("flush") /\ batch' = <<Head(reqCh)>>
     \/ reqCh = <<>> /\ at' = "done" /\ UNCHANGED <<reqCh, batch>>

-----------------------------------------------------------------------------
Init ==
  /\ maxBatch \in MaxBatches
  /\ submits = [r \in Requests |-> "new"] /\ response = [r \in Requests |-> "none"]
  /\ reqCh = <<>> /\ stopper = "idle" /\ at = "first" /\ leaving = FALSE
  /\ batch = <<>> /\ tried = 0 /\ good = {} /\ answers = <<>> /\ log = <<>>

loop == first \/ collect \/ WriteParameterized \/ flush \/ respond \/ answered \/ drain

Next ==
  \/ \E r \in Requests : Submit(r) \/ SubmitStopped(r) \/ SubmitReturns(r)
  \/ Stop \/ StopReturns \/ loop

Spec == Init /\ [][Next]_vars

(* Goroutines that can run do, the window ends, and a call of the database *)
(* returns.  Nobody has to call Submit or Stop.                            *)
FairSpec ==
  /\ Spec /\ WF_vars(loop) /\ WF_vars(StopReturns)
  /\ \A r \in Requests : WF_vars(SubmitReturns(r))

-----------------------------------------------------------------------------
Answered == {"ok", "error"}

TypeOK ==
  /\ maxBatch \in MaxBatches
  /\ submits \in [Requests -> {"new", "accepted", "refused"} \cup Answered]
  /\ response \in [Requests -> {"none"} \cup Answered]
  /\ reqCh \in Seq(Requests) /\ Len(reqCh) <= Capacity
  /\ stopper \in {"idle", "waiting", "stopped"} /\ leaving \in BOOLEAN
  /\ at \in {"first", "collect", "flush", "answer", "drain", "done"}
  /\ batch \in Seq(Requests) /\ Len(batch) <= maxBatch
  /\ tried \in 0..maxBatch /\ good \subseteq 1..tried
  /\ answers \in Seq(Answered) /\ log \in Seq(Requests)

(* The batcher implements the queue that WriteService describes: writes    *)
(* leave it in the order they were accepted in, whatever batch they get    *)
(* into and also while the service stops; none is executed or answered     *)
(* twice; the result of one write never answers another.                   *)
Untried == IF at = "answer" THEN <<>> ELSE SubSeq(batch, tried + 1, Len(batch))
Service == INSTANCE WriteService WITH status <- submits, queue <- Untried \o reqCh, log <- log
ServesWrites == Service!Spec

(* A write that was accepted before the service began to stop is answered: *)
(* it does not stay behind in the channel or in a batch that is given up.  *)
AcceptedAnswered ==
  \A r \in Requests : submits[r] = "accepted" /\ ~Closed ~> submits[r] \in Answered

(* Stop returns, whatever the loop was doing when stopCh was closed.       *)
StopEnds == stopper = "waiting" ~> stopper = "stopped"
=============================================================================
