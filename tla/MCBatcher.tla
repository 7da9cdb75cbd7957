------------------------------ MODULE MCBatcher -----------------------------
(***************************************************************************)
(* A small instance of Batcher for TLC: more requests than a batch and the *)
(* channel hold, batches of one and of several.                            *)
(***************************************************************************)
EXTENDS Batcher
=============================================================================
