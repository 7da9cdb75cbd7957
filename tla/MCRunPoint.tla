----------------------------- MODULE MCRunPoint -----------------------------
(***************************************************************************)
(* Small instances of RunPoint for TLC.                                    *)
(***************************************************************************)
EXTENDS RunPoint

CONSTANTS x, y
=============================================================================
