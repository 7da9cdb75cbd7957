------------------------------ MODULE Handover ------------------------------
(***************************************************************************)
(* What the capturer promises to its recorder: whatever happens to harvests*)
(* and connections, the changes handed over so far are the first changes   *)
(* made, each of them once and in order.                                   *)
(***************************************************************************)
EXTENDS Naturals, Sequences

CONSTANT Changes

VARIABLES
  log,    \* the changes made to the captured directory
  taken   \* those that complete harvests have handed over

vars == <<log, taken>>

Init == log = <<>> /\ taken = <<>>

Change == \E c \in Changes : log' = Append(log, c) /\ UNCHANGED taken

Take == \E n \in Len(taken)..Len(log) : taken' = SubSeq(log, 1, n) /\ UNCHANGED log

Next == Change \/ Take

Spec == Init /\ [][Next]_vars
=============================================================================
