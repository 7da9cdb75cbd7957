----------------------------- MODULE MCFileData -----------------------------
(***************************************************************************)
(* Small instances of FileData for TLC.                                    *)
(***************************************************************************)
EXTENDS FileData, TLC

CONSTANTS t1, t2, f1, f2, a, b

(* Call after call, beyond the limits of an event and of the ring.         *)
Limits == [kinds |-> DataKinds, alone |-> TRUE, ops |-> 2, cells |-> 3, len |-> 3,
           ring |-> 2, faults |-> TRUE]

(* Two threads, with every operation but mappings.                         *)
Calls == [kinds |-> DataKinds \cup NameKinds, alone |-> FALSE, ops |-> 3, cells |-> 2,
          len |-> 1, ring |-> 3, faults |-> FALSE]

(* Call after call, with mapped files.                                     *)
Mappings == [kinds |-> {"write", "truncate", "unlink", "rename", "exchange", "mmap", "store"},
             alone |-> TRUE, ops |-> 3, cells |-> 2, len |-> 1, ring |-> 4, faults |-> FALSE]

(* Mapped files that are renamed.                                          *)
MappedRenames == [Mappings EXCEPT !.kinds = {"rename", "mmap", "store"}]
Renamed == {MappedRenames}

Orders == {Limits, Calls, Mappings}

Alike == Permutations({t1, t2}) \cup Permutations({f1, f2}) \cup Permutations({a, b})
=============================================================================
