--------------------------- MODULE MCTrackedTree ---------------------------
(***************************************************************************)
(* Small instances of TrackedTree for TLC.                                 *)
(***************************************************************************)
EXTENDS TrackedTree

CONSTANTS root, ext, i1, i2, i3, i4, i5, a, b

D(i) == [ino |-> i, dir |-> TRUE]
F(i) == [ino |-> i, dir |-> FALSE]

(* The captured directory alone, and with one subdirectory in it.          *)
OneDir == (<<>> :> D(root)) @@ (<<a>> :> D(i1))
Inside == {<<>> :> D(root), OneDir}

(* Two levels of directories with a file at each, for two threads that     *)
(* move and remove what is there.                                          *)
Populated == OneDir @@ (<<a, b>> :> D(i2)) @@ (<<b>> :> F(i3)) @@ (<<a, a>> :> F(i4))
Deep == {Populated}

(* A directory with a subdirectory and a file, and a file outside the tree. *)
Boundary == {OneDir @@ (<<a, b>> :> D(i2)) @@ (<<a, a>> :> F(i4))
                    @@ (<<ext>> :> D(ext)) @@ (<<ext, a>> :> F(i3))}

FreshInodes == Permutations({i2, i3, i4, i5})
AlikeThreads == Permutations(Threads)
=============================================================================
