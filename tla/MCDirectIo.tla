----------------------------- MODULE MCDirectIo -----------------------------
(***************************************************************************)
(* Small instances of DirectIo for TLC.                                    *)
(***************************************************************************)
EXTENDS DirectIo, TLC

CONSTANTS c1, c2, t1, t2, f, g

Symmetric == Permutations({c1, c2}) \cup Permutations({t1, t2})

(* Narrow: the search for the head-of-line delay follows only histories    *)
(* without a loss, a refused request or a short write.                     *)
Narrow ==
  /\ Healthy /\ \A t \in Threads : pc[t] # "refused"
  /\ \A i \in 1..Len(ring) : ring[i].op = "complete" => ring[i].ret = MaxLen
=============================================================================
