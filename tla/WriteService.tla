---------------------------- MODULE WriteService ----------------------------
(***************************************************************************)
(* What the batcher promises to the handlers that submit writes: a queue   *)
(* in front of the database.  A write that is accepted leaves the queue in *)
(* its turn, executed or given up, and is answered after that; only a      *)
(* write that was executed is answered with success.                       *)
(***************************************************************************)
EXTENDS Sequences, Naturals

CONSTANT Requests

VARIABLES
  status,   \* request -> what its caller knows of it
  queue,    \* accepted, and not yet executed or given up
  log       \* executed, in this order

vars == <<status, queue, log>>

Elements(s) == {s[k] : k \in DOMAIN s}

Accept(r) ==
  /\ status[r] = "new" /\ status' = [status EXCEPT ![r] = "accepted"]
  /\ queue' = Append(queue, r) /\ UNCHANGED log

Refuse(r) ==
  /\ status[r] = "new" /\ status' = [status EXCEPT ![r] = "refused"]
  /\ UNCHANGED <<queue, log>>

Execute ==
  /\ queue # <<>> /\ queue' = Tail(queue)
  /\ log' = Append(log, Head(queue)) /\ UNCHANGED status

GiveUp ==
  \E n \in 1..Len(queue) :
    /\ queue' = SubSeq(queue, n + 1, Len(queue))
    /\ UNCHANGED <<status, log>>

Answer(r) ==
  /\ status[r] = "accepted" /\ r \notin Elements(queue)
  /\ \/ r \in Elements(log) /\ status' = [status EXCEPT ![r] = "ok"]
     \/ status' = [status EXCEPT ![r] = "error"]
  /\ UNCHANGED <<queue, log>>

Init == status = [r \in Requests |-> "new"] /\ queue = <<>> /\ log = <<>>

Next ==
  \/ \E r \in Requests : Accept(r) \/ Refuse(r) \/ Answer(r)
  \/ Execute \/ GiveUp

Spec == Init /\ [][Next]_vars
=============================================================================
