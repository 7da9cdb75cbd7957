-------------------------- MODULE FileContentProofs --------------------------
(***************************************************************************)
(* That the backup gets the content of the files, and that it refuses no   *)
(* batch but for its length or an exchange in it, for any number of        *)
(* threads, files and names, any sizes and limits, if the application      *)
(* keeps to the discipline.                                                *)
(***************************************************************************)
EXTENDS FileDataProofs, ReplayProofs

-----------------------------------------------------------------------------
(* Content, cell by cell: beyond its end a file reads as zeros.            *)

Places     == Nat \ {0}
CellValues == Nat \cup {Zero}
Val(content, k) == IF k <= Len(content) THEN content[k] ELSE Zero

LEMMA OverwriteCells ==
  ASSUME NEW S, Zero \in S, NEW old \in Seq(S), NEW off \in Nat, NEW src \in Seq(S), NEW k \in Places
  PROVE  Val(Overwrite(old, off, src), k)
           = IF off < k /\ k <= off + Len(src) THEN src[k - off] ELSE Val(old, k)
<1> DEFINE n == Larger(Len(old), off + Len(src))
           new == Overwrite(old, off, src)
<1>1. new \in Seq(S) /\ Len(new) = n
  BY OverwriteTyped
<1>2. n \in Nat /\ Len(old) \in Nat /\ Len(src) \in Nat /\ n >= Len(old) /\ n >= off + Len(src)
  BY DEF Larger
<1>3. new = [j \in 1..n |-> IF j > off /\ j <= off + Len(src) THEN src[j - off]
                            ELSE IF j <= Len(old) THEN old[j] ELSE Zero]
  BY DEF Overwrite
<1>4. k \in Nat /\ k >= 1
  BY DEF Places
<1> HIDE DEF n, new
<1>5. CASE k <= n
  <2>1. k \in 1..n
    BY <1>2, <1>4, <1>5
  <2>2. new[k] = IF k > off /\ k <= off + Len(src) THEN src[k - off]
                 ELSE IF k <= Len(old) THEN old[k] ELSE Zero
    BY <1>3, <2>1
  <2> QED BY <1>1, <1>2, <1>4, <1>5, <2>2 DEF Val, new
<1>6. CASE ~(k <= n)
  BY <1>1, <1>2, <1>4, <1>6 DEF Val, new
<1> QED BY <1>5, <1>6

LEMMA ResizeCells ==
  ASSUME NEW S, Zero \in S, NEW old \in Seq(S), NEW n \in Nat, NEW k \in Places
  PROVE  Val(Resize(old, n), k) = IF k <= n THEN Val(old, k) ELSE Zero
<1> DEFINE new == Resize(old, n)
<1>1. new \in Seq(S) /\ Len(new) = n
  BY ResizeTyped
<1>2. new = [j \in 1..n |-> IF j <= Len(old) THEN old[j] ELSE Zero]
  BY DEF Resize
<1>3. k \in Nat /\ k >= 1
  BY DEF Places
<1> HIDE DEF new
<1>4. CASE k <= n
  <2>1. k \in 1..n
    BY <1>3, <1>4
  <2>2. new[k] = IF k <= Len(old) THEN old[k] ELSE Zero
    BY <1>2, <2>1
  <2> QED BY <1>1, <1>4, <2>2 DEF Val, new
<1>5. CASE ~(k <= n)
  BY <1>1, <1>5 DEF Val, new
<1> QED BY <1>4, <1>5

LEMMA ZeroRangeCells ==
  ASSUME NEW S, Zero \in S, NEW old \in Seq(S), NEW off \in Nat, NEW n \in Nat,
         NEW keep \in BOOLEAN
  PROVE  /\ ZeroRange(old, off, n, keep) \in Seq(S)
         /\ Len(ZeroRange(old, off, n, keep)) = IF keep THEN Len(old) ELSE Larger(Len(old), off + n)
         /\ \A k \in Places : Val(ZeroRange(old, off, n, keep), k)
                                = IF off < k /\ k <= off + n THEN Zero ELSE Val(old, k)
<1> DEFINE z == [k \in 1..Len(old) |-> IF k > off /\ k <= off + n THEN Zero ELSE old[k]]
           new == ZeroRange(old, off, n, keep)
<1>1. z \in Seq(S) /\ Len(z) = Len(old) /\ Len(old) \in Nat /\ off + n \in Nat
  OBVIOUS
<1>2. ASSUME NEW k \in Places
      PROVE  Val(z, k) = IF off < k /\ k <= off + n THEN Zero ELSE Val(old, k)
  <2>1. k \in Nat /\ k >= 1
    BY DEF Places
  <2>2. CASE k <= Len(old)
    <3>1. k \in 1..Len(old)
      BY <1>1, <2>1, <2>2
    <3>2. z[k] = IF k > off /\ k <= off + n THEN Zero ELSE old[k]
      BY <3>1
    <3> HIDE DEF z
    <3> QED BY <1>1, <2>2, <3>2 DEF Val
  <2>3. CASE ~(k <= Len(old))
    <3> HIDE DEF z
    <3> QED BY <1>1, <2>3 DEF Val
  <2> QED BY <2>2, <2>3
<1>3. new = IF ~keep /\ off + n > Len(old) THEN Resize(z, off + n) ELSE z
  BY DEF ZeroRange
<1> HIDE DEF z, new
<1>4. CASE ~keep /\ off + n > Len(old)
  <2>1. Resize(z, off + n) \in Seq(S) /\ Len(Resize(z, off + n)) = off + n
    BY <1>1, ResizeTyped
  <2>2. Larger(Len(old), off + n) = off + n
    BY <1>1, <1>4 DEF Larger
  <2>3. ASSUME NEW k \in Places
        PROVE  Val(new, k) = IF off < k /\ k <= off + n THEN Zero ELSE Val(old, k)
    <3>1. Val(new, k) = IF k <= off + n THEN Val(z, k) ELSE Zero
      BY <1>1, <1>3, <1>4, ResizeCells
    <3>2. k > off + n => Val(old, k) = Zero
      BY <1>1, <1>4 DEF Val, Places
    <3> QED BY <1>1, <1>2, <3>1, <3>2 DEF Places
  <2> QED BY <1>3, <1>4, <2>1, <2>2, <2>3 DEF new
<1>5. CASE ~(~keep /\ off + n > Len(old))
  <2>1. ~keep => Larger(Len(old), off + n) = Len(old)
    BY <1>1, <1>5 DEF Larger
  <2> QED BY <1>1, <1>2, <1>3, <1>5, <2>1 DEF new
<1> QED BY <1>4, <1>5

(* Two contents of one length with the same cells are the same.            *)
LEMMA SameCells ==
  ASSUME NEW S, NEW T, NEW b \in Seq(S), NEW c \in Seq(T), Len(b) = Len(c),
         \A k \in Places : Val(b, k) = Val(c, k)
  PROVE  b = c
<1>1. ASSUME NEW k \in 1..Len(b) PROVE b[k] = c[k]
  BY DEF Val, Places
<1> QED BY <1>1

-----------------------------------------------------------------------------
(* The files of a directory by name: those that are there, how long they   *)
(* are, and their cells.                                                   *)

Tables == [has : SUBSET Names, len : [Names -> Nat], cell : [Names -> [Places -> CellValues]]]

(* A name that is not there stands for an empty file, which is what an     *)
(* operation on content makes of it, and nothing is beyond the end.        *)
Tidy(T) == \A n \in Names : /\ n \notin T.has => T.len[n] = 0
                            /\ \A k \in Places : k > T.len[n] => T.cell[n][k] = Zero

(* A copy of the directory that holds what the table says.                 *)
Shows(fs, T) ==
  /\ fs = [p \in DOMAIN fs |-> fs[p]]
  /\ \A p : p \in DOMAIN fs <=> p = <<>> \/ \E n \in T.has : p = <<n>>
  /\ fs[<<>>] = Dir
  /\ \A n \in T.has : /\ fs[<<n>>] \in Seq(CellValues) /\ Len(fs[<<n>>]) = T.len[n]
                      /\ \A k \in Places : Val(fs[<<n>>], k) = T.cell[n][k]

(* What a record does to content, cell by cell.                            *)
OnContent(e) == e.op \in {"write", "truncate", "zero"}
OnNames(e)   == e.op \in {"unlink", "rename"}

Fills(e, k) ==
  CASE e.op = "write"    -> e.off < k /\ k <= e.off + Len(e.data)
    [] e.op = "truncate" -> k > e.size
    [] OTHER             -> e.off < k /\ k <= e.off + e.size
Filled(e, k) == IF e.op = "write" THEN e.data[k - e.off] ELSE Zero
Grown(e, n) ==
  CASE e.op = "write"    -> Larger(n, e.off + Len(e.data))
    [] e.op = "truncate" -> e.size
    [] OTHER             -> IF e.keep THEN n ELSE Larger(n, e.off + e.size)

Blank == [k \in Places |-> Zero]

(* The table after the record of an event has been applied.                *)
Edited(T, e) ==
  [has  |-> T.has \cup {e.name},
   len  |-> [n \in Names |-> IF n = e.name THEN Grown(e, T.len[e.name]) ELSE T.len[n]],
   cell |-> [n \in Names |-> IF n = e.name
               THEN [k \in Places |-> IF Fills(e, k) THEN Filled(e, k) ELSE T.cell[e.name][k]]
               ELSE T.cell[n]]]
Removed(T, e) ==
  [has  |-> T.has \ {e.name},
   len  |-> [n \in Names |-> IF n = e.name THEN 0 ELSE T.len[n]],
   cell |-> [n \in Names |-> IF n = e.name THEN Blank ELSE T.cell[n]]]
Moved(T, e) ==
  [has  |-> (T.has \ {e.name}) \cup {e.nname},
   len  |-> [n \in Names |-> IF n = e.nname THEN T.len[e.name]
                             ELSE IF n = e.name THEN 0 ELSE T.len[n]],
   cell |-> [n \in Names |-> IF n = e.nname THEN T.cell[e.name]
                             ELSE IF n = e.name THEN Blank ELSE T.cell[n]]]
After(T, e) == IF OnContent(e) THEN Edited(T, e)
               ELSE IF e.op = "unlink" THEN Removed(T, e)
               ELSE IF e.op = "rename" THEN Moved(T, e) ELSE T

(* The record can be applied: nothing fails but a rename of a missing      *)
(* file, one that must not replace a file and would, and an exchange.      *)
Applies(T, e) == e.op = "rename" => /\ e.flags # "exchange" /\ e.name \in T.has
                                    /\ e.flags = "noreplace" => e.nname \notin T.has

(* Events as they are in the ring; that of a page has no name.             *)
EventRight(e) ==
  /\ e.op \in Ops /\ e.ino \in Inodes
  /\ e.off \in Nat /\ e.size \in Nat /\ e.keep \in BOOLEAN /\ e.data \in Seq(CellValues)
  /\ e.op # "writeback" => e.name \in Names /\ e.nname \in Names
  /\ e.op = "zero" => e.size >= 1
  /\ e.op = "rename" => e.name # e.nname
  /\ e.flags \in {"none", "noreplace", "exchange"}

LEMMA GrownTyped ==
  ASSUME NEW e, EventRight(e), OnContent(e), NEW n \in Nat
  PROVE  Grown(e, n) \in Nat /\ \A k \in Places :
           /\ Fills(e, k) => Filled(e, k) \in CellValues
           /\ n < k /\ Grown(e, n) < k /\ Fills(e, k) => Filled(e, k) = Zero
<1> USE DEF EventRight, OnContent, Places
<1>1. CASE e.op = "write"
  <2>1. ASSUME NEW k \in Places, Fills(e, k) PROVE k - e.off \in 1..Len(e.data)
    BY <1>1, <2>1 DEF Fills
  <2>2. Grown(e, n) = Larger(n, e.off + Len(e.data)) /\ Len(e.data) \in Nat
    BY <1>1 DEF Grown
  <2>3. \A k \in Places : Fills(e, k) => k <= e.off + Len(e.data)
    BY <1>1 DEF Fills
  <2> QED BY <1>1, <2>1, <2>2, <2>3 DEF Filled, Larger
<1>2. CASE e.op = "truncate"
  BY <1>2 DEF Grown, Filled, CellValues
<1>3. CASE e.op = "zero"
  BY <1>3 DEF Grown, Filled, CellValues, Larger
<1> QED BY <1>1, <1>2, <1>3

LEMMA AfterTyped ==
  ASSUME NEW T \in Tables, Tidy(T), NEW e, EventRight(e)
  PROVE  After(T, e) \in Tables /\ Tidy(After(T, e))
<1> DEFINE U == After(T, e)
<1>0. /\ T.has \subseteq Names /\ T.len \in [Names -> Nat] /\ T.cell \in [Names -> [Places -> CellValues]]
      /\ Blank \in [Places -> CellValues] /\ \A k \in Places : Blank[k] = Zero
  BY DEF Tables, Blank, CellValues
<1>1. CASE OnContent(e)
  <2> DEFINE c == [k \in Places |-> IF Fills(e, k) THEN Filled(e, k) ELSE T.cell[e.name][k]]
             l == Grown(e, T.len[e.name])
             len == [n \in Names |-> IF n = e.name THEN l ELSE T.len[n]]
             cell == [n \in Names |-> IF n = e.name THEN c ELSE T.cell[n]]
  <2>1. e.name \in Names /\ e.op # "unlink" /\ e.op # "rename"
    BY <1>1 DEF EventRight, OnContent
  <2>2. l \in Nat /\ c \in [Places -> CellValues]
    BY <1>0, <1>1, <2>1, GrownTyped
  <2>3. U = [has |-> T.has \cup {e.name}, len |-> len, cell |-> cell]
    BY <1>1 DEF After, Edited
  <2>4. ASSUME NEW k \in Places, k > l PROVE c[k] = Zero
    <3>1. \A j \in Places : Fills(e, j) => Filled(e, j) \in CellValues
      BY <1>0, <1>1, <2>1, GrownTyped
    <3>2. Fills(e, k) => Filled(e, k) = Zero
      <4>1. CASE e.op = "write"
        BY <1>0, <1>1, <2>1, <2>4, <4>1 DEF Fills, Grown, Larger, Places, EventRight
      <4>2. CASE e.op # "write"
        BY <4>2 DEF Filled
      <4> QED BY <4>1, <4>2
    <3>3. ~Fills(e, k) => k > T.len[e.name]
      <4>1. e.off \in Nat /\ e.size \in Nat /\ Len(e.data) \in Nat /\ T.len[e.name] \in Nat /\ k \in Nat
        BY <1>0, <2>1 DEF EventRight, Places
      <4> QED BY <1>1, <2>4, <4>1 DEF Fills, Grown, Larger, OnContent
    <3> QED BY <1>0, <2>1, <3>2, <3>3 DEF Tidy
  <2> HIDE DEF c, l
  <2>5. len \in [Names -> Nat] /\ cell \in [Names -> [Places -> CellValues]]
    BY <1>0, <2>1, <2>2
  <2>6. U \in Tables
    BY <1>0, <2>1, <2>3, <2>5 DEF Tables
  <2>7. Tidy(U)
    BY <1>0, <2>1, <2>3, <2>4 DEF Tidy
  <2> QED BY <2>6, <2>7
<1>2. CASE e.op = "unlink"
  <2> DEFINE len == [n \in Names |-> IF n = e.name THEN 0 ELSE T.len[n]]
             cell == [n \in Names |-> IF n = e.name THEN Blank ELSE T.cell[n]]
  <2>1. U = [has |-> T.has \ {e.name}, len |-> len, cell |-> cell]
    BY <1>2 DEF After, OnContent, Removed
  <2>2. len \in [Names -> Nat] /\ cell \in [Names -> [Places -> CellValues]]
    BY <1>0
  <2>3. U \in Tables
    BY <1>0, <2>1, <2>2 DEF Tables
  <2>4. Tidy(U)
    BY <1>0, <2>1 DEF Tidy
  <2> QED BY <2>3, <2>4
<1>3. CASE e.op = "rename"
  <2> DEFINE len == [n \in Names |-> IF n = e.nname THEN T.len[e.name]
                                     ELSE IF n = e.name THEN 0 ELSE T.len[n]]
             cell == [n \in Names |-> IF n = e.nname THEN T.cell[e.name]
                                      ELSE IF n = e.name THEN Blank ELSE T.cell[n]]
  <2>1. U = [has |-> (T.has \ {e.name}) \cup {e.nname}, len |-> len, cell |-> cell]
    BY <1>3 DEF After, OnContent, Moved
  <2>0. e.name \in Names /\ e.nname \in Names
    BY <1>3 DEF EventRight
  <2>2. len \in [Names -> Nat] /\ cell \in [Names -> [Places -> CellValues]]
    BY <1>0, <2>0
  <2>3. U \in Tables
    BY <1>0, <2>0, <2>1, <2>2 DEF Tables
  <2>4. Tidy(U)
    BY <1>0, <2>0, <2>1 DEF Tidy
  <2> QED BY <2>3, <2>4
<1>4. CASE ~OnContent(e) /\ e.op # "unlink" /\ e.op # "rename"
  BY <1>4 DEF After
<1> QED BY <1>1, <1>2, <1>3, <1>4

(* What After says name by name and cell by cell.                          *)
LEMMA EditedPoints ==
  ASSUME NEW T \in Tables, NEW e, OnContent(e)
  PROVE  /\ After(T, e).has = T.has \cup {e.name}
         /\ \A n \in Names : n # e.name =>
              After(T, e).len[n] = T.len[n] /\ After(T, e).cell[n] = T.cell[n]
         /\ e.name \in Names =>
              /\ After(T, e).len[e.name] = Grown(e, T.len[e.name])
              /\ \A k \in Places : After(T, e).cell[e.name][k]
                   = IF Fills(e, k) THEN Filled(e, k) ELSE T.cell[e.name][k]
BY DEF After, Edited

LEMMA RemovedPoints ==
  ASSUME NEW T \in Tables, NEW e, e.op = "unlink"
  PROVE  /\ After(T, e).has = T.has \ {e.name}
         /\ \A n \in Names : n # e.name =>
              After(T, e).len[n] = T.len[n] /\ After(T, e).cell[n] = T.cell[n]
BY DEF After, Removed, OnContent

LEMMA MovedPoints ==
  ASSUME NEW T \in Tables, NEW e, e.op = "rename", e.name \in Names, e.nname \in Names
  PROVE  /\ After(T, e).has = (T.has \ {e.name}) \cup {e.nname}
         /\ \A n \in Names : n # e.name /\ n # e.nname =>
              After(T, e).len[n] = T.len[n] /\ After(T, e).cell[n] = T.cell[n]
         /\ After(T, e).len[e.nname] = T.len[e.name]
         /\ After(T, e).cell[e.nname] = T.cell[e.name]
BY DEF After, Moved, OnContent

LEMMA SamePoints ==
  ASSUME NEW T, NEW e, ~OnContent(e), ~OnNames(e)
  PROVE  After(T, e) = T
BY DEF After, OnNames

-----------------------------------------------------------------------------
(* Replaying the record of an event on a copy that shows a table gives one *)
(* that shows the table after the event.                                   *)

(* The paths of a flat directory.                                          *)
LEMMA FlatPaths ==
  ASSUME NEW n \in Names, NEW m \in Names
  PROVE  /\ <<n>> \in Seq(Names) /\ <<>> \in Seq(Names) /\ <<n>> # <<>>
         /\ <<n>> = <<m>> => n = m
         /\ ParentsOf(<<n>>) = {}
         /\ IsPrefix(<<n>>, <<m>>) <=> n = m
         /\ ~IsPrefix(<<n>>, <<>>)
<1> DEFINE p == <<n>>
           q == <<m>>
           root == <<>>
<1>1. /\ p \in Seq(Names) /\ q \in Seq(Names) /\ root \in Seq(Names)
      /\ Len(p) = 1 /\ Len(q) = 1 /\ p[1] = n /\ q[1] = m /\ Len(root) = 0
  OBVIOUS
<1>2. ParentsOf(p) = {}
  <2>1. 1..(Len(p) - 1) = {}
    BY <1>1
  <2> HIDE DEF p
  <2> QED BY <2>1 DEF ParentsOf
<1>3. IsPrefix(p, q) <=> n = m
  <2>1. IsPrefix(p, q) <=> Len(p) <= Len(q) /\ \A k \in 1..Len(p) : p[k] = q[k]
    <3> HIDE DEF p, q
    <3> QED BY <1>1, PrefixPoints
  <2>2. \A k \in 1..Len(p) : k = 1
    BY <1>1
  <2> QED BY <1>1, <2>1, <2>2
<1>4. ~IsPrefix(p, root)
  <2>1. IsPrefix(p, root) <=> Len(p) <= Len(root) /\ \A k \in 1..Len(p) : p[k] = root[k]
    <3>1. p \in Seq(Names) /\ root \in Seq(Names)
      BY <1>1
    <3> HIDE DEF p, root
    <3> QED BY <3>1, PrefixPoints
  <2> QED BY <1>1, <2>1
<1> QED BY <1>1, <1>2, <1>3, <1>4

LEMMA ShownPaths ==
  ASSUME NEW T \in Tables, NEW fs, Shows(fs, T), NEW n \in Names
  PROVE  /\ DOMAIN fs \subseteq Seq(Names)
         /\ <<n>> \in DOMAIN fs <=> n \in T.has
         /\ ~IsDirAt(fs, <<n>>) /\ WithParents(fs, <<n>>) = fs /\ ~Blocked(fs, <<n>>)
<1>1. T.has \subseteq Names
  BY DEF Tables
<1>2. DOMAIN fs \subseteq Seq(Names)
  <2> SUFFICES ASSUME NEW p \in DOMAIN fs PROVE p \in Seq(Names)
    OBVIOUS
  <2>1. p = <<>> \/ \E m \in T.has : p = <<m>>
    BY DEF Shows
  <2>2. CASE p = <<>>
    BY <2>2
  <2>3. CASE \E m \in T.has : p = <<m>>
    <3>1. PICK m \in Names : p = <<m>>
      BY <1>1, <2>3
    <3> QED BY <3>1
  <2> QED BY <2>1, <2>2, <2>3
<1>3. <<n>> \in DOMAIN fs <=> n \in T.has
  <2>1. \A m \in T.has : <<n>> = <<m>> => n = m
    BY <1>1, FlatPaths
  <2> QED BY <2>1, FlatPaths DEF Shows
<1>4. ~IsDirAt(fs, <<n>>)
  BY <1>3, FileAssumption DEF IsDirAt, Shows, CellValues
<1>5. ParentsThere(fs, <<n>>)
  BY FlatPaths DEF ParentsThere
<1>6. WithParents(fs, <<n>>) = fs /\ ~Blocked(fs, <<n>>)
  BY <1>5, NothingToMake DEF Shows
<1> QED BY <1>2, <1>3, <1>4, <1>6

(* The content an operation finds under a name.                            *)
LEMMA ShownContent ==
  ASSUME NEW T \in Tables, Tidy(T), NEW fs, Shows(fs, T), NEW n \in Names
  PROVE  /\ ContentAt(fs, <<n>>) \in Seq(CellValues) /\ Len(ContentAt(fs, <<n>>)) = T.len[n]
         /\ \A k \in Places : Val(ContentAt(fs, <<n>>), k) = T.cell[n][k]
<1>1. <<n>> \in DOMAIN fs <=> n \in T.has
  BY ShownPaths
<1>2. CASE n \in T.has
  BY <1>1, <1>2 DEF ContentAt, Shows
<1>3. CASE n \notin T.has
  <2> DEFINE none == <<>>
  <2>1. ContentAt(fs, <<n>>) = none
    BY <1>1, <1>3 DEF ContentAt
  <2>2. none \in Seq(CellValues) /\ Len(none) = 0 /\ T.len[n] = 0
    BY <1>3 DEF Tidy
  <2>3. ASSUME NEW k \in Places PROVE Val(none, k) = Zero /\ T.cell[n][k] = Zero
    <3>1. k > 0
      BY DEF Places
    <3> QED BY <1>3, <2>2, <3>1 DEF Val, Tidy, Places
  <2> QED BY <2>1, <2>2, <2>3
<1> QED BY <1>2, <1>3

(* A file gets another content.                                            *)
LEMMA SetShown ==
  ASSUME NEW T \in Tables, NEW fs, Shows(fs, T), NEW U, NEW n \in Names,
         NEW new \in Seq(CellValues),
         U.has = T.has \cup {n}, Len(new) = U.len[n],
         \A k \in Places : Val(new, k) = U.cell[n][k],
         \A m \in Names : m # n => U.len[m] = T.len[m] /\ U.cell[m] = T.cell[m]
  PROVE  Shows(Set(fs, <<n>>, new), U)
<1> DEFINE g == Set(fs, <<n>>, new)
           path == <<n>>
<1>0. T.has \subseteq Names /\ path # <<>>
  BY FlatPaths DEF Tables
<1>1. g = [p \in DOMAIN fs \cup {path} |-> IF p = path THEN new ELSE fs[p]]
  BY DEF Set
<1>2. g = [p \in DOMAIN g |-> g[p]] /\ DOMAIN g = DOMAIN fs \cup {path} /\ g[path] = new
      /\ \A p \in DOMAIN fs : p # path => g[p] = fs[p]
  BY <1>1
<1> HIDE DEF g
<1>3. \A p : p \in DOMAIN g <=> p = <<>> \/ \E m \in U.has : p = <<m>>
  BY <1>2 DEF Shows
<1>4. g[<<>>] = Dir
  BY <1>0, <1>2 DEF Shows
<1>5. ASSUME NEW m \in U.has
      PROVE  /\ g[<<m>>] \in Seq(CellValues) /\ Len(g[<<m>>]) = U.len[m]
             /\ \A k \in Places : Val(g[<<m>>], k) = U.cell[m][k]
  <2>1. CASE m = n
    BY <1>2, <2>1
  <2>2. CASE m # n
    <3>1. m \in T.has /\ m \in Names /\ <<m>> # path
      BY <1>0, <2>2, FlatPaths
    <3>2. g[<<m>>] = fs[<<m>>]
      BY <1>2, <3>1, ShownPaths
    <3>3. /\ fs[<<m>>] \in Seq(CellValues) /\ Len(fs[<<m>>]) = T.len[m]
          /\ \A k \in Places : Val(fs[<<m>>], k) = T.cell[m][k]
      BY <3>1 DEF Shows
    <3>4. U.len[m] = T.len[m] /\ U.cell[m] = T.cell[m]
      BY <2>2, <3>1
    <3> QED BY <3>2, <3>3, <3>4
  <2> QED BY <2>1, <2>2
<1> QED BY <1>2, <1>3, <1>4, <1>5 DEF Shows, g

LEMMA ContentShown ==
  ASSUME NEW T \in Tables, Tidy(T), NEW fs, Shows(fs, T), NEW e, EventRight(e), OnContent(e)
  PROVE  /\ ApplyRecord(fs, Record(e, e.op)).ok
         /\ Shows(ApplyRecord(fs, Record(e, e.op)).fs, After(T, e))
<1> DEFINE r == Record(e, e.op)
           n == e.name
           old == ContentAt(fs, <<n>>)
<1>1. /\ r.op = e.op /\ r.path = <<n>> /\ r.off = e.off /\ r.size = e.size
      /\ r.data = e.data /\ r.keep = e.keep
  BY DEF Record
<1>2. /\ n \in Names /\ e.off \in Nat /\ e.size \in Nat /\ e.data \in Seq(CellValues)
      /\ e.keep \in BOOLEAN /\ Zero \in CellValues
  BY DEF EventRight, OnContent, CellValues
<1>3. /\ old \in Seq(CellValues) /\ Len(old) = T.len[n]
      /\ \A k \in Places : Val(old, k) = T.cell[n][k]
  BY <1>2, ShownContent
<1>4. CanOpen(fs, <<n>>) /\ \A c : Modify(fs, <<n>>, c) = Done(Set(fs, <<n>>, c))
  BY <1>2, ShownPaths DEF CanOpen, Modify
<1> HIDE DEF r, old
<1>5. PICK new \in Seq(CellValues) :
        /\ ApplyRecord(fs, r) = Done(Set(fs, <<n>>, new))
        /\ Len(new) = Grown(e, T.len[n])
        /\ \A k \in Places : Val(new, k) = IF Fills(e, k) THEN Filled(e, k) ELSE T.cell[n][k]
  <2>1. CASE e.op = "write"
    <3> DEFINE new == Overwrite(old, e.off, e.data)
    <3>1. ApplyRecord(fs, r) = Modify(fs, <<n>>, new)
      BY <1>1, <1>4, <2>1 DEF ApplyRecord, apply_write, old
    <3>2. new \in Seq(CellValues) /\ Len(new) = Larger(Len(old), e.off + Len(e.data))
      BY <1>2, <1>3, OverwriteTyped
    <3>3. ASSUME NEW k \in Places
          PROVE  Val(new, k) = IF e.off < k /\ k <= e.off + Len(e.data) THEN e.data[k - e.off]
                               ELSE Val(old, k)
      BY <1>2, <1>3, OverwriteCells
    <3> HIDE DEF new
    <3> QED BY <1>3, <1>4, <2>1, <3>1, <3>2, <3>3 DEF Grown, Fills, Filled
  <2>2. CASE e.op = "truncate"
    <3> DEFINE new == Resize(old, e.size)
    <3>1. ApplyRecord(fs, r) = Modify(fs, <<n>>, new)
      BY <1>1, <1>4, <2>2 DEF ApplyRecord, apply_truncate, old
    <3>2. new \in Seq(CellValues) /\ Len(new) = e.size
      BY <1>2, <1>3, ResizeTyped
    <3>3. ASSUME NEW k \in Places
          PROVE  Val(new, k) = IF k > e.size THEN Zero ELSE Val(old, k)
      <4>1. Val(new, k) = IF k <= e.size THEN Val(old, k) ELSE Zero
        BY <1>2, <1>3, ResizeCells
      <4> QED BY <1>2, <4>1 DEF Places
    <3> HIDE DEF new
    <3> QED BY <1>3, <1>4, <2>2, <3>1, <3>2, <3>3 DEF Grown, Fills, Filled
  <2>3. CASE e.op = "zero"
    <3> DEFINE new == ZeroRange(old, e.off, e.size, e.keep)
    <3>1. ApplyRecord(fs, r) = Modify(fs, <<n>>, new)
      BY <1>1, <1>4, <2>3 DEF ApplyRecord, apply_zero_range, old, EventRight
    <3>2. /\ new \in Seq(CellValues)
          /\ Len(new) = IF e.keep THEN Len(old) ELSE Larger(Len(old), e.off + e.size)
          /\ \A k \in Places : Val(new, k) = IF e.off < k /\ k <= e.off + e.size THEN Zero
                                             ELSE Val(old, k)
      BY <1>2, <1>3, ZeroRangeCells
    <3> HIDE DEF new
    <3> QED BY <1>3, <1>4, <2>3, <3>1, <3>2 DEF Grown, Fills, Filled
  <2> QED BY <2>1, <2>2, <2>3 DEF OnContent
<1>6. Shows(Set(fs, <<n>>, new), After(T, e))
  <2> DEFINE U == After(T, e)
  <2>1. /\ U.has = T.has \cup {n} /\ Len(new) = U.len[n]
        /\ \A k \in Places : Val(new, k) = U.cell[n][k]
        /\ \A m \in Names : m # n => U.len[m] = T.len[m] /\ U.cell[m] = T.cell[m]
    BY <1>2, <1>5, EditedPoints
  <2> HIDE DEF U, n
  <2>2. Shows(Set(fs, <<n>>, new), U)
    BY <1>2, <2>1, SetShown
  <2> QED BY <2>2 DEF U
<1> QED BY <1>5, <1>6 DEF Done, r

LEMMA UnlinkShown ==
  ASSUME NEW T \in Tables, NEW fs, Shows(fs, T), NEW e, EventRight(e), e.op = "unlink"
  PROVE  /\ ApplyRecord(fs, Record(e, e.op)).ok
         /\ Shows(ApplyRecord(fs, Record(e, e.op)).fs, After(T, e))
<1> DEFINE r == Record(e, e.op)
           n == e.name
           g == Drop(fs, <<n>>)
           U == After(T, e)
<1>1. r.op = "unlink" /\ r.path = <<n>> /\ n \in Names
  BY DEF Record, EventRight
<1>2. ApplyRecord(fs, r) = Done(g)
  BY <1>1, ShownPaths DEF ApplyRecord, apply_unlink
<1>3. /\ U.has = T.has \ {n} /\ T.has \subseteq Names
      /\ \A m \in Names : m # n => U.len[m] = T.len[m] /\ U.cell[m] = T.cell[m]
  BY RemovedPoints DEF Tables
<1>4. g = [p \in DOMAIN fs \ {<<n>>} |-> fs[p]]
  BY DEF Drop
<1>5. g = [p \in DOMAIN g |-> g[p]] /\ DOMAIN g = DOMAIN fs \ {<<n>>}
      /\ \A p \in DOMAIN g : g[p] = fs[p]
  BY <1>4
<1> HIDE DEF g, U, r, n
<1>6. \A m \in U.has : m \in T.has /\ m \in Names /\ m # n /\ <<m>> # <<n>> /\ <<m>> \in DOMAIN fs
  BY <1>1, <1>3, FlatPaths, ShownPaths
<1>7. ASSUME NEW p PROVE p \in DOMAIN g <=> p = <<>> \/ \E m \in U.has : p = <<m>>
  <2>1. p \in DOMAIN fs <=> p = <<>> \/ \E m \in T.has : p = <<m>>
    BY DEF Shows
  <2>2. <<n>> # <<>>
    OBVIOUS
  <2> QED BY <1>3, <1>5, <1>6, <2>1, <2>2
<1>8. g[<<>>] = Dir
  BY <1>5, <1>7 DEF Shows
<1>9. ASSUME NEW m \in U.has
      PROVE  /\ g[<<m>>] \in Seq(CellValues) /\ Len(g[<<m>>]) = U.len[m]
             /\ \A k \in Places : Val(g[<<m>>], k) = U.cell[m][k]
  <2>1. g[<<m>>] = fs[<<m>>] /\ m \in T.has /\ U.len[m] = T.len[m] /\ U.cell[m] = T.cell[m]
    BY <1>3, <1>5, <1>6
  <2>2. /\ fs[<<m>>] \in Seq(CellValues) /\ Len(fs[<<m>>]) = T.len[m]
        /\ \A k \in Places : Val(fs[<<m>>], k) = T.cell[m][k]
    BY <2>1 DEF Shows
  <2> QED BY <2>1, <2>2
<1>10. Shows(g, U)
  BY <1>5, <1>7, <1>8, <1>9 DEF Shows
<1> QED BY <1>2, <1>10 DEF Done, r, U

LEMMA RenameShown ==
  ASSUME NEW T \in Tables, NEW fs, Shows(fs, T), NEW e, EventRight(e), e.op = "rename",
         Applies(T, e)
  PROVE  /\ ApplyRecord(fs, Record(e, e.op)).ok
         /\ Shows(ApplyRecord(fs, Record(e, e.op)).fs, After(T, e))
<1> DEFINE r   == Record(e, e.op)
           n   == e.name
           x   == e.nname
           old == <<n>>
           new == <<x>>
           h   == MoveSubtree(fs, old, new)
           U   == After(T, e)
<1>1. r.op = "rename" /\ r.path = old /\ r.npath = new /\ r.flags = e.flags
  BY DEF Record
<1>2. /\ n \in Names /\ x \in Names /\ n # x /\ n \in T.has /\ T.has \subseteq Names
      /\ e.flags = "none" \/ (e.flags = "noreplace" /\ x \notin T.has)
  BY DEF EventRight, Applies, Tables
<1>3. /\ old \in Seq(Names) /\ new \in Seq(Names) /\ old # new /\ old # <<>> /\ new # <<>>
      /\ ~IsPrefix(old, new) /\ DOMAIN fs \subseteq Seq(Names) /\ old \in DOMAIN fs
  BY <1>2, FlatPaths, ShownPaths
<1>4. /\ U.has = (T.has \ {n}) \cup {x}
      /\ \A m \in Names : m # n /\ m # x => U.len[m] = T.len[m] /\ U.cell[m] = T.cell[m]
      /\ U.len[x] = T.len[n] /\ U.cell[x] = T.cell[n]
  BY <1>2, MovedPoints
<1> HIDE DEF r, old, new, h, U, n, x
<1>5. ASSUME NEW m \in Names
      PROVE  /\ IsPrefix(old, <<m>>) <=> m = n
             /\ IsPrefix(new, <<m>>) <=> m = x
             /\ ~IsPrefix(old, <<>>) /\ ~IsPrefix(new, <<>>)
             /\ <<m>> = new => m = x
             /\ <<m>> = old => m = n
             /\ <<m>> \in DOMAIN fs <=> m \in T.has
  BY <1>2, FlatPaths, ShownPaths DEF old, new
<1>6. ASSUME NEW p \in DOMAIN fs PROVE p = <<>> \/ \E m \in T.has : p = <<m>>
  BY DEF Shows
<1>7. Empty(fs, new)
  BY <1>2, <1>5, <1>6 DEF Empty, new
<1>8. ApplyRecord(fs, r) = Done(h)
  <2>1. ParentsThere(fs, new)
    BY <1>2, FlatPaths DEF ParentsThere, new
  <2>2. fs[old] # Dir /\ (new \in DOMAIN fs => fs[new] # Dir)
    BY <1>2, <1>3, ShownPaths DEF IsDirAt, old, new
  <2>3. fs = [p \in DOMAIN fs |-> fs[p]]
    BY DEF Shows
  <2>4. r.flags = "none" \/ (r.flags = "noreplace" /\ new \notin DOMAIN fs)
    BY <1>1, <1>2, <1>5 DEF new
  <2> QED BY <1>1, <1>3, <1>7, <2>1, <2>2, <2>3, <2>4, RenameApplied DEF h
<1>9. /\ h = [q \in DOMAIN h |-> h[q]]
      /\ \A q \in DOMAIN h :
           \/ q \in DOMAIN fs /\ ~IsPrefix(old, q) /\ q # new
           \/ \E m \in DOMAIN fs : IsPrefix(old, m) /\ q = Rebase(m, old, new)
      /\ \A q \in DOMAIN fs : ~IsPrefix(old, q) /\ q # new => q \in DOMAIN h /\ h[q] = fs[q]
      /\ \A m \in DOMAIN fs : IsPrefix(old, m) =>
           Rebase(m, old, new) \in DOMAIN h /\ h[Rebase(m, old, new)] = fs[m]
  <2>1. h = MoveSubtree(fs, old, new)
    BY DEF h
  <2> QED BY <1>3, <1>7, <2>1, MoveParts
<1>10. Rebase(old, old, new) = new
  BY <1>3, RebaseSelf
<1>11. IsPrefix(old, old) /\ \A m \in DOMAIN fs : IsPrefix(old, m) => m = old
  BY <1>2, <1>5, <1>6 DEF old
<1>12. new \in DOMAIN h /\ h[new] = fs[old]
  BY <1>3, <1>9, <1>10, <1>11
<1>13. ASSUME NEW m \in T.has, m # n, m # x
       PROVE  <<m>> \in DOMAIN h /\ h[<<m>>] = fs[<<m>>]
  BY <1>2, <1>5, <1>9, <1>13
<1>14. <<>> \in DOMAIN h /\ h[<<>>] = Dir
  BY <1>2, <1>3, <1>5, <1>9 DEF Shows
<1>15. ASSUME NEW p PROVE p \in DOMAIN h <=> p = <<>> \/ \E m \in U.has : p = <<m>>
  <2>1. ASSUME p \in DOMAIN h PROVE p = <<>> \/ \E m \in U.has : p = <<m>>
    <3>1. CASE p \in DOMAIN fs /\ ~IsPrefix(old, p) /\ p # new
      <4>1. p = <<>> \/ \E m \in T.has : p = <<m>>
        BY <1>6, <3>1
      <4>2. ASSUME NEW m \in T.has, p = <<m>> PROVE m \in U.has
        BY <1>2, <1>4, <1>5, <3>1, <4>2
      <4> QED BY <4>1, <4>2
    <3>2. CASE ~(p \in DOMAIN fs /\ ~IsPrefix(old, p) /\ p # new)
      <4>1. PICK m \in DOMAIN fs : IsPrefix(old, m) /\ p = Rebase(m, old, new)
        BY <1>9, <2>1, <3>2
      <4>2. p = new
        BY <1>10, <1>11, <4>1
      <4> QED BY <1>4, <4>2 DEF new
    <3> QED BY <3>1, <3>2
  <2>2. ASSUME NEW m \in U.has PROVE <<m>> \in DOMAIN h
    <3>1. CASE m = x
      BY <1>12, <3>1 DEF new
    <3>2. CASE m # x
      BY <1>4, <1>13, <3>2
    <3> QED BY <3>1, <3>2
  <2> QED BY <1>14, <2>1, <2>2
<1>16. ASSUME NEW m \in U.has
       PROVE  /\ h[<<m>>] \in Seq(CellValues) /\ Len(h[<<m>>]) = U.len[m]
              /\ \A k \in Places : Val(h[<<m>>], k) = U.cell[m][k]
  <2>1. ASSUME NEW l \in T.has
        PROVE  /\ fs[<<l>>] \in Seq(CellValues) /\ Len(fs[<<l>>]) = T.len[l]
               /\ \A k \in Places : Val(fs[<<l>>], k) = T.cell[l][k]
    BY DEF Shows
  <2>2. CASE m = x
    <3>1. h[<<m>>] = fs[<<n>>] /\ U.len[m] = T.len[n] /\ U.cell[m] = T.cell[n]
      BY <1>4, <1>12, <2>2 DEF new, old
    <3> QED BY <1>2, <2>1, <3>1
  <2>3. CASE m # x
    <3>1. /\ m \in T.has /\ h[<<m>>] = fs[<<m>>]
          /\ U.len[m] = T.len[m] /\ U.cell[m] = T.cell[m]
      BY <1>2, <1>4, <1>13, <2>3
    <3> QED BY <2>1, <3>1
  <2> QED BY <2>2, <2>3
<1>17. Shows(h, U)
  BY <1>9, <1>14, <1>15, <1>16 DEF Shows
<1> QED BY <1>8, <1>17 DEF Done, r, U

(* Any event of the ring that becomes a record.                            *)
LEMMA RecordShown ==
  ASSUME NEW T \in Tables, Tidy(T), NEW fs, Shows(fs, T), NEW e, EventRight(e),
         OnContent(e) \/ OnNames(e), Applies(T, e)
  PROVE  /\ ApplyRecord(fs, Record(e, e.op)).ok
         /\ Shows(ApplyRecord(fs, Record(e, e.op)).fs, After(T, e))
BY ContentShown, UnlinkShown, RenameShown DEF OnNames

-----------------------------------------------------------------------------
(* A page that is read late: its value goes into the table before the      *)
(* events still in the ring.  Each of them leaves the value alone, or puts *)
(* its own in its place.                                                   *)

(* An event that gives cell k of name n a value.                           *)
Covers(e, n, k) == OnContent(e) /\ e.name = n /\ Fills(e, k)
Shortens(e, n, k) == e.op = "truncate" /\ e.name = n /\ e.size < k

(* Cell k of name x is v if fresh, and the file reaches to it if longer.   *)
Patch(T, x, k, v, fresh, longer) ==
  [has  |-> T.has \cup {x},
   len  |-> [n \in Names |-> IF n = x /\ longer THEN Larger(T.len[x], k) ELSE T.len[n]],
   cell |-> [n \in Names |-> IF n = x /\ fresh
               THEN [j \in Places |-> IF j = k THEN v ELSE T.cell[x][j]] ELSE T.cell[n]]]

LEMMA TablesSame ==
  ASSUME NEW T \in Tables, NEW U \in Tables, T.has = U.has,
         \A n \in Names : T.len[n] = U.len[n],
         \A n \in Names, k \in Places : T.cell[n][k] = U.cell[n][k]
  PROVE  T = U
<1>1. T.len = U.len
  BY DEF Tables
<1>2. \A n \in Names : T.cell[n] = U.cell[n]
  BY DEF Tables
<1>3. T.cell = U.cell
  BY <1>2 DEF Tables
<1> QED BY <1>1, <1>3 DEF Tables

LEMMA PatchTyped ==
  ASSUME NEW T \in Tables, Tidy(T), NEW x \in Names, NEW k \in Places, NEW v \in CellValues,
         NEW fresh \in BOOLEAN, NEW longer \in BOOLEAN, fresh => longer
  PROVE  LET P == Patch(T, x, k, v, fresh, longer)
         IN P \in Tables /\ Tidy(P)
<1> DEFINE P == Patch(T, x, k, v, fresh, longer)
           c == [j \in Places |-> IF j = k THEN v ELSE T.cell[x][j]]
           len == [n \in Names |-> IF n = x /\ longer THEN Larger(T.len[x], k) ELSE T.len[n]]
           cell == [n \in Names |-> IF n = x /\ fresh THEN c ELSE T.cell[n]]
<1>0. /\ T.has \subseteq Names /\ T.len \in [Names -> Nat] /\ T.cell \in [Names -> [Places -> CellValues]]
      /\ k \in Nat /\ k >= 1
  BY DEF Tables, Places
<1>1. c \in [Places -> CellValues]
  BY <1>0
<1>2. Larger(T.len[x], k) \in Nat /\ Larger(T.len[x], k) >= k /\ Larger(T.len[x], k) >= T.len[x]
  BY <1>0 DEF Larger
<1>3. P = [has |-> T.has \cup {x}, len |-> len, cell |-> cell]
  BY DEF Patch
<1> HIDE DEF c
<1>4. len \in [Names -> Nat] /\ cell \in [Names -> [Places -> CellValues]]
  BY <1>0, <1>1, <1>2
<1>5. P \in Tables
  BY <1>0, <1>3, <1>4 DEF Tables
<1>6. Tidy(P)
  <2> SUFFICES ASSUME NEW n \in Names
               PROVE  /\ n \notin P.has => P.len[n] = 0
                      /\ \A j \in Places : j > P.len[n] => P.cell[n][j] = Zero
    BY DEF Tidy
  <2>1. /\ n \notin T.has => T.len[n] = 0
        /\ \A j \in Places : j > T.len[n] => T.cell[n][j] = Zero
    BY DEF Tidy
  <2> HIDE DEF P
  <2>2. /\ P.has = T.has \cup {x}
        /\ n # x => P.len[n] = T.len[n] /\ P.cell[n] = T.cell[n]
        /\ P.len[x] = IF longer THEN Larger(T.len[x], k) ELSE T.len[x]
        /\ \A j \in Places : P.cell[x][j] = IF fresh /\ j = k THEN v ELSE T.cell[x][j]
    BY DEF P, Patch
  <2>3. CASE n # x
    BY <2>1, <2>2, <2>3
  <2>4. CASE n = x
    <3>1. ASSUME NEW j \in Places, j > P.len[x] PROVE P.cell[x][j] = Zero
      <4>1. j \in Nat /\ T.len[x] \in Nat
        BY <1>0 DEF Places
      <4>2. j > T.len[x] /\ ~(fresh /\ j = k)
        BY <1>0, <1>2, <2>2, <3>1, <4>1
      <4> QED BY <2>1, <2>2, <2>4, <4>2
    <3> QED BY <2>2, <2>4, <3>1
  <2> QED BY <2>3, <2>4
<1> QED BY <1>5, <1>6

(* A patch and an event change places.                                     *)
LEMMA PatchStep ==
  ASSUME NEW T \in Tables, Tidy(T), NEW x \in Names, NEW k \in Places, NEW v \in CellValues,
         NEW fresh \in BOOLEAN, NEW longer \in BOOLEAN, fresh => longer,
         NEW e, EventRight(e), Applies(T, e), OnNames(e) => x # e.name /\ x # e.nname
  PROVE  LET P == Patch(T, x, k, v, fresh, longer)
             f == fresh /\ ~Covers(e, x, k)
             l == longer /\ ~Shortens(e, x, k)
         IN Applies(P, e) /\ After(P, e) = Patch(After(T, e), x, k, v, f, l)
<1> DEFINE P == Patch(T, x, k, v, fresh, longer)
           f == fresh /\ ~Covers(e, x, k)
           l == longer /\ ~Shortens(e, x, k)
           A == After(T, e)
           U == After(P, e)
           V == Patch(A, x, k, v, f, l)
<1>0. /\ T.has \subseteq Names /\ T.len \in [Names -> Nat] /\ k \in Nat /\ k >= 1
      /\ e.off \in Nat /\ e.size \in Nat /\ e.data \in Seq(CellValues)
      /\ Len(e.data) \in Nat /\ e.keep \in BOOLEAN
      /\ (e.op # "writeback" => e.name \in Names /\ e.nname \in Names)
  BY DEF Tables, Places, EventRight
<1>1. P \in Tables /\ Tidy(P)
  BY PatchTyped
<1>2. f \in BOOLEAN /\ l \in BOOLEAN /\ (f => l)
  BY <1>0 DEF Covers, Shortens, Fills, OnContent
<1>3. A \in Tables /\ Tidy(A) /\ U \in Tables
  BY <1>1, AfterTyped
<1>4. V \in Tables
  BY <1>2, <1>3, PatchTyped
<1>5. /\ P.has = T.has \cup {x}
      /\ \A n \in Names : n # x => P.len[n] = T.len[n] /\ P.cell[n] = T.cell[n]
      /\ P.len[x] = IF longer THEN Larger(T.len[x], k) ELSE T.len[x]
      /\ \A j \in Places : P.cell[x][j] = IF fresh /\ j = k THEN v ELSE T.cell[x][j]
  BY DEF Patch
<1> HIDE DEF P
<1>6. /\ V.has = A.has \cup {x}
      /\ \A n \in Names : n # x => V.len[n] = A.len[n] /\ V.cell[n] = A.cell[n]
      /\ V.len[x] = IF l THEN Larger(A.len[x], k) ELSE A.len[x]
      /\ \A j \in Places : V.cell[x][j] = IF f /\ j = k THEN v ELSE A.cell[x][j]
  <2> HIDE DEF f, l, A
  <2> QED BY DEF V, Patch
<1>7. Applies(P, e)
  BY <1>5 DEF Applies, OnNames
<1> HIDE DEF U, V, A
<1>8. CASE OnContent(e)
  <2>0. e.name \in Names /\ e.op # "writeback"
    BY <1>0, <1>8 DEF OnContent
  <2>1. /\ A.has = T.has \cup {e.name}
        /\ \A n \in Names : n # e.name => A.len[n] = T.len[n] /\ A.cell[n] = T.cell[n]
        /\ A.len[e.name] = Grown(e, T.len[e.name])
        /\ \A j \in Places : A.cell[e.name][j]
             = IF Fills(e, j) THEN Filled(e, j) ELSE T.cell[e.name][j]
    BY <1>8, <2>0, EditedPoints DEF A
  <2>2. /\ U.has = P.has \cup {e.name}
        /\ \A n \in Names : n # e.name => U.len[n] = P.len[n] /\ U.cell[n] = P.cell[n]
        /\ U.len[e.name] = Grown(e, P.len[e.name])
        /\ \A j \in Places : U.cell[e.name][j]
             = IF Fills(e, j) THEN Filled(e, j) ELSE P.cell[e.name][j]
    BY <1>1, <1>8, <2>0, EditedPoints DEF U
  <2>3. U.has = V.has
    BY <1>5, <1>6, <2>1, <2>2
  <2>4. CASE e.name # x
    <3>1. f = fresh /\ l = longer
      BY <2>4 DEF Covers, Shortens
    <3>2. \A n \in Names : U.len[n] = V.len[n]
      BY <1>5, <1>6, <2>0, <2>1, <2>2, <2>4, <3>1
    <3>3. ASSUME NEW n \in Names, NEW j \in Places PROVE U.cell[n][j] = V.cell[n][j]
      <4>1. CASE n = x
        BY <1>5, <1>6, <2>0, <2>1, <2>2, <2>4, <3>1, <4>1
      <4>2. CASE n # x
        <5>1. V.cell[n] = A.cell[n] /\ P.cell[n] = T.cell[n]
          BY <1>5, <1>6, <4>2
        <5>2. CASE n = e.name
          BY <2>1, <2>2, <5>1, <5>2
        <5>3. CASE n # e.name
          BY <2>1, <2>2, <5>1, <5>3
        <5> QED BY <5>2, <5>3
      <4> QED BY <4>1, <4>2
    <3> QED BY <1>3, <1>4, <1>7, <2>3, <3>2, <3>3, TablesSame DEF U, V, A, P
  <2>5. CASE e.name = x
    <3>1. Grown(e, P.len[x]) = IF l THEN Larger(A.len[x], k) ELSE A.len[x]
      <4>1. A.len[x] = Grown(e, T.len[x]) /\ T.len[x] \in Nat
        BY <1>0, <2>1, <2>5
      <4>2. CASE e.op = "truncate"
        <5>1. Grown(e, P.len[x]) = e.size /\ A.len[x] = e.size
          BY <4>1, <4>2 DEF Grown
        <5>2. l => e.size >= k
          BY <1>0, <2>5, <4>2 DEF Shortens
        <5> QED BY <1>0, <5>1, <5>2 DEF Larger
      <4>3. CASE e.op # "truncate"
        <5>1. l = longer
          BY <4>3 DEF Shortens
        <5>2. CASE e.op = "write"
          BY <1>0, <1>5, <4>1, <5>1, <5>2 DEF Grown, Larger
        <5>3. CASE e.op = "zero"
          <6>1. \A n : Grown(e, n) = IF e.keep THEN n ELSE Larger(n, e.off + e.size)
            BY <5>3 DEF Grown
          <6>2. CASE e.keep
            BY <1>5, <4>1, <5>1, <6>1, <6>2
          <6>3. CASE ~e.keep
            BY <1>0, <1>5, <4>1, <5>1, <6>1, <6>3 DEF Larger
          <6> QED BY <6>2, <6>3
        <5> QED BY <1>8, <4>3, <5>2, <5>3 DEF OnContent
      <4> QED BY <4>2, <4>3
    <3>2. ASSUME NEW n \in Names PROVE U.len[n] = V.len[n]
      BY <1>5, <1>6, <2>1, <2>2, <2>5, <3>1
    <3>3. f = (fresh /\ ~Fills(e, k))
      BY <1>8, <2>5 DEF Covers
    <3>4. ASSUME NEW n \in Names, NEW j \in Places PROVE U.cell[n][j] = V.cell[n][j]
      <4>1. CASE n = x
        BY <1>5, <1>6, <2>1, <2>2, <2>5, <3>3, <4>1
      <4>2. CASE n # x
        BY <1>5, <1>6, <2>1, <2>2, <2>5, <4>2
      <4> QED BY <4>1, <4>2
    <3> QED BY <1>3, <1>4, <1>7, <2>3, <3>2, <3>4, TablesSame DEF U, V, A, P
  <2> QED BY <2>4, <2>5
<1>9. CASE ~OnContent(e)
  <2>0. f = fresh /\ l = longer
    BY <1>9 DEF Covers, Shortens, OnContent
  <2>1. CASE e.op = "unlink"
    <3>1. e.name \in Names /\ x # e.name
      BY <1>0, <2>1 DEF OnNames
    <3>2. A.has = T.has \ {e.name} /\ U.has = P.has \ {e.name}
      BY <1>1, <2>1, RemovedPoints DEF A, U
    <3>3. /\ A.len = [n \in Names |-> IF n = e.name THEN 0 ELSE T.len[n]]
          /\ U.len = [n \in Names |-> IF n = e.name THEN 0 ELSE P.len[n]]
          /\ A.cell = [n \in Names |-> IF n = e.name THEN Blank ELSE T.cell[n]]
          /\ U.cell = [n \in Names |-> IF n = e.name THEN Blank ELSE P.cell[n]]
      BY <2>1 DEF A, U, After, OnContent, Removed
    <3>4. U.has = V.has
      BY <1>5, <1>6, <3>1, <3>2
    <3>5. \A n \in Names : U.len[n] = V.len[n]
      BY <1>5, <1>6, <2>0, <3>1, <3>3
    <3>6. ASSUME NEW n \in Names, NEW j \in Places PROVE U.cell[n][j] = V.cell[n][j]
      <4>1. CASE n = x
        BY <1>5, <1>6, <2>0, <3>1, <3>3, <4>1
      <4>2. CASE n # x
        BY <1>5, <1>6, <2>0, <3>1, <3>3, <4>2
      <4> QED BY <4>1, <4>2
    <3> QED BY <1>3, <1>4, <1>7, <3>4, <3>5, <3>6, TablesSame DEF U, V, A, P
  <2>2. CASE e.op = "rename"
    <3>1. e.name \in Names /\ e.nname \in Names /\ x # e.name /\ x # e.nname
      BY <1>0, <2>2 DEF OnNames
    <3>2. A.has = (T.has \ {e.name}) \cup {e.nname} /\ U.has = (P.has \ {e.name}) \cup {e.nname}
      BY <1>1, <2>2, <3>1, MovedPoints DEF A, U
    <3>3. /\ A.len = [n \in Names |-> IF n = e.nname THEN T.len[e.name]
                                      ELSE IF n = e.name THEN 0 ELSE T.len[n]]
          /\ U.len = [n \in Names |-> IF n = e.nname THEN P.len[e.name]
                                      ELSE IF n = e.name THEN 0 ELSE P.len[n]]
          /\ A.cell = [n \in Names |-> IF n = e.nname THEN T.cell[e.name]
                                       ELSE IF n = e.name THEN Blank ELSE T.cell[n]]
          /\ U.cell = [n \in Names |-> IF n = e.nname THEN P.cell[e.name]
                                       ELSE IF n = e.name THEN Blank ELSE P.cell[n]]
      BY <2>2 DEF A, U, After, OnContent, Moved
    <3>4. U.has = V.has
      BY <1>5, <1>6, <3>1, <3>2
    <3>5. \A n \in Names : U.len[n] = V.len[n]
      BY <1>5, <1>6, <2>0, <3>1, <3>3
    <3>6. ASSUME NEW n \in Names, NEW j \in Places PROVE U.cell[n][j] = V.cell[n][j]
      <4>1. CASE n = x
        BY <1>5, <1>6, <2>0, <3>1, <3>3, <4>1
      <4>2. CASE n # x
        BY <1>5, <1>6, <2>0, <3>1, <3>3, <4>2
      <4> QED BY <4>1, <4>2
    <3> QED BY <1>3, <1>4, <1>7, <3>4, <3>5, <3>6, TablesSame DEF U, V, A, P
  <2>3. CASE e.op # "unlink" /\ e.op # "rename"
    <3>1. A = T /\ U = P
      BY <1>9, <2>3 DEF A, U, After
    <3> QED BY <1>7, <2>0, <3>1 DEF U, V, A, P
  <2> QED BY <2>1, <2>2, <2>3
<1> QED BY <1>8, <1>9

-----------------------------------------------------------------------------
(* What the events r make of a copy of the directory: C holds the tables   *)
(* on the way, F is the last.  A page that was written back and a mapping  *)
(* change no table.                                                        *)

Chained(C, r) ==
  /\ C \in [0..Len(r) -> Tables] /\ \A q \in 0..Len(r) : Tidy(C[q])
  /\ \A q \in 1..Len(r) : Applies(C[q - 1], r[q]) /\ C[q] = After(C[q - 1], r[q])
Leads(fs, r, F) == \E C : Chained(C, r) /\ Shows(fs, C[0]) /\ F = C[Len(r)]

LEMMA LeadsTyped ==
  ASSUME NEW S, NEW r \in Seq(S), NEW fs, NEW F, Leads(fs, r, F)
  PROVE  F \in Tables /\ Tidy(F)
<1>1. PICK C : Chained(C, r) /\ F = C[Len(r)]
  BY DEF Leads
<1>2. Len(r) \in 0..Len(r)
  OBVIOUS
<1> QED BY <1>1, <1>2 DEF Chained

LEMMA LeadsNothing ==
  ASSUME NEW fs, NEW F
  PROVE  Leads(fs, <<>>, F) <=> F \in Tables /\ Tidy(F) /\ Shows(fs, F)
<1> DEFINE r == <<>>
<1>1. Len(r) = 0 /\ 0..0 = {0} /\ 1..0 = {}
  OBVIOUS
<1> HIDE DEF r
<1>2. ASSUME Leads(fs, r, F) PROVE F \in Tables /\ Tidy(F) /\ Shows(fs, F)
  BY <1>1, <1>2 DEF Leads, Chained
<1>3. ASSUME F \in Tables, Tidy(F), Shows(fs, F) PROVE Leads(fs, r, F)
  <2> DEFINE C == [q \in 0..0 |-> F]
  <2>1. C \in [0..0 -> Tables] /\ C[0] = F
    BY <1>3
  <2> HIDE DEF C
  <2>2. Chained(C, r)
    BY <1>1, <1>3, <2>1 DEF Chained
  <2> QED BY <1>1, <1>3, <2>1, <2>2 DEF Leads
<1> QED BY <1>2, <1>3 DEF r

LEMMA LeadsAppended ==
  ASSUME NEW S, NEW r \in Seq(S), NEW e, EventRight(e), NEW fs, NEW F, Leads(fs, r, F),
         Applies(F, e)
  PROVE  Leads(fs, Append(r, e), After(F, e))
<1>1. PICK C : Chained(C, r) /\ Shows(fs, C[0]) /\ F = C[Len(r)]
  BY DEF Leads
<1>2. PICK n \in Nat : n = Len(r)
  OBVIOUS
<1> DEFINE U == After(F, e)
           D == [q \in 0..(n + 1) |-> IF q = n + 1 THEN U ELSE C[q]]
           s == Append(r, e)
<1>3. F \in Tables /\ Tidy(F)
  BY LeadsTyped
<1>4. U \in Tables /\ Tidy(U)
  BY <1>3, AfterTyped
<1>5. Len(s) = n + 1 /\ s[n + 1] = e /\ \A q \in 1..n : s[q] = r[q]
  BY <1>2
<1>6. U = After(F, e)
  OBVIOUS
<1>7. C \in [0..n -> Tables] /\ \A q \in 0..n : Tidy(C[q])
  BY <1>1, <1>2 DEF Chained
<1> HIDE DEF U, s
<1>8. D \in [0..(n + 1) -> Tables]
  BY <1>4, <1>7
<1>9. D[n + 1] = U /\ \A q \in 0..n : D[q] = C[q]
  OBVIOUS
<1> HIDE DEF D
<1>10. \A q \in 0..(n + 1) : Tidy(D[q])
  <2> SUFFICES ASSUME NEW q \in 0..(n + 1) PROVE Tidy(D[q])
    OBVIOUS
  <2>1. q = n + 1 \/ q \in 0..n
    OBVIOUS
  <2> QED BY <1>4, <1>7, <1>9, <2>1
<1>11. ASSUME NEW q \in 1..(n + 1)
       PROVE  Applies(D[q - 1], s[q]) /\ D[q] = After(D[q - 1], s[q])
  <2>1. CASE q = n + 1
    <3>1. q - 1 = n /\ n \in 0..n
      BY <2>1
    <3> QED BY <1>1, <1>2, <1>5, <1>6, <1>9, <2>1, <3>1
  <2>2. CASE q # n + 1
    <3>1. q \in 1..n /\ q - 1 \in 0..n /\ q \in 0..n
      BY <2>2
    <3> QED BY <1>1, <1>2, <1>5, <1>9, <3>1 DEF Chained
  <2> QED BY <2>1, <2>2
<1>12. Chained(D, s)
  BY <1>5, <1>8, <1>10, <1>11 DEF Chained
<1>13. Shows(fs, D[0]) /\ U = D[Len(s)]
  BY <1>1, <1>5, <1>9
<1> QED BY <1>12, <1>13 DEF Leads, U, s

(* Pages written back into an empty ring.                                  *)
LEMMA LeadsPages ==
  ASSUME NEW S, NEW r \in Seq(S), \A q \in 1..Len(r) : r[q].op = "writeback",
         NEW fs, NEW F, Leads(fs, <<>>, F)
  PROVE  Leads(fs, r, F)
<1>1. F \in Tables /\ Tidy(F) /\ Shows(fs, F)
  BY LeadsNothing
<1>2. PICK n \in Nat : n = Len(r)
  OBVIOUS
<1> DEFINE C == [q \in 0..n |-> F]
<1>3. C \in [0..n -> Tables] /\ \A q \in 0..n : C[q] = F
  BY <1>1
<1> HIDE DEF C
<1>4. ASSUME NEW q \in 1..n PROVE Applies(C[q - 1], r[q]) /\ C[q] = After(C[q - 1], r[q])
  <2>1. q - 1 \in 0..n /\ q \in 0..n
    OBVIOUS
  <2>2. After(F, r[q]) = F /\ Applies(F, r[q])
    BY <1>2, SamePoints DEF OnContent, OnNames, Applies
  <2> QED BY <1>3, <2>1, <2>2
<1>5. Chained(C, r)
  BY <1>1, <1>2, <1>3, <1>4 DEF Chained
<1> QED BY <1>1, <1>2, <1>3, <1>5 DEF Leads

(* The first event is taken off.                                           *)
LEMMA ChainTail ==
  ASSUME NEW S, NEW r \in Seq(S), r # <<>>, NEW C, Chained(C, r)
  PROVE  \E D : /\ Chained(D, Tail(r)) /\ D[0] = C[1] /\ D[Len(Tail(r))] = C[Len(r)]
                /\ \A q \in 0..Len(Tail(r)) : D[q] = C[q + 1]
<1>1. PICK n \in Nat : n + 1 = Len(r)
  <2>1. Len(r) - 1 \in Nat /\ (Len(r) - 1) + 1 = Len(r)
    OBVIOUS
  <2> QED BY <2>1
<1> DEFINE s == Tail(r)
           D == [q \in 0..n |-> C[q + 1]]
<1>2. Len(s) = n /\ \A q \in 1..n : s[q] = r[q + 1]
  BY <1>1
<1>3. \A q \in 0..n : D[q] = C[q + 1] /\ q + 1 \in 0..Len(r) /\ q + 1 \in 1..Len(r)
  BY <1>1
<1>4. D \in [0..n -> Tables] /\ \A q \in 0..n : Tidy(D[q])
  BY <1>1, <1>3 DEF Chained
<1> HIDE DEF D, s
<1>5. ASSUME NEW q \in 1..n PROVE Applies(D[q - 1], s[q]) /\ D[q] = After(D[q - 1], s[q])
  <2>1. /\ q - 1 \in 0..n /\ q \in 0..n /\ (q - 1) + 1 = q /\ (q + 1) - 1 = q
        /\ q + 1 \in 1..Len(r)
    BY <1>1
  <2>2. D[q - 1] = C[q] /\ D[q] = C[q + 1]
    BY <1>3, <2>1
  <2>3. Applies(C[(q + 1) - 1], r[q + 1]) /\ C[q + 1] = After(C[(q + 1) - 1], r[q + 1])
    BY <2>1 DEF Chained
  <2> QED BY <1>2, <2>1, <2>2, <2>3
<1>6. Chained(D, s)
  BY <1>2, <1>4, <1>5 DEF Chained
<1>7. D[0] = C[1] /\ D[n] = C[n + 1]
  BY <1>3
<1> QED BY <1>1, <1>2, <1>3, <1>6, <1>7 DEF s

LEMMA LeadsTail ==
  ASSUME NEW S, NEW r \in Seq(S), r # <<>>, \A q \in 1..Len(r) : EventRight(r[q]),
         NEW fs, NEW F, Leads(fs, r, F)
  PROVE  LET e == Head(r)
             out == ApplyRecord(fs, Record(e, e.op))
         IN IF OnContent(e) \/ OnNames(e) THEN out.ok /\ Leads(out.fs, Tail(r), F)
            ELSE Leads(fs, Tail(r), F)
<1> DEFINE e == Head(r)
           out == ApplyRecord(fs, Record(e, e.op))
<1>1. PICK C : Chained(C, r) /\ Shows(fs, C[0]) /\ F = C[Len(r)]
  BY DEF Leads
<1>2. e = r[1] /\ 1 \in 1..Len(r) /\ 0 \in 0..Len(r) /\ 1 - 1 = 0
  OBVIOUS
<1>3. /\ Applies(C[0], e) /\ C[1] = After(C[0], e) /\ C[0] \in Tables /\ Tidy(C[0])
      /\ EventRight(e)
  BY <1>1, <1>2 DEF Chained
<1>4. PICK D : Chained(D, Tail(r)) /\ D[0] = C[1] /\ D[Len(Tail(r))] = C[Len(r)]
  BY <1>1, ChainTail
<1> HIDE DEF e
<1>5. CASE OnContent(e) \/ OnNames(e)
  <2>1. out.ok /\ Shows(out.fs, C[1])
    BY <1>1, <1>3, <1>5, RecordShown
  <2> QED BY <1>1, <1>4, <1>5, <2>1 DEF Leads, e
<1>6. CASE ~(OnContent(e) \/ OnNames(e))
  <2>1. C[1] = C[0]
    BY <1>3, <1>6, SamePoints
  <2> QED BY <1>1, <1>4, <1>6, <2>1 DEF Leads, e
<1> QED BY <1>5, <1>6 DEF e

(* A page that was written back is read: cell k of name x gets the value v *)
(* before the events that follow.  If none of them covers the cell, it has *)
(* the value at the end.                                                   *)
LEMMA LeadsPatched ==
  ASSUME NEW S, NEW r \in Seq(S), r # <<>>, \A q \in 1..Len(r) : EventRight(r[q]),
         NEW fs, NEW F, Leads(fs, r, F), ~OnContent(Head(r)), ~OnNames(Head(r)),
         NEW w, EventRight(w), w.op = "write", NEW k \in Places, NEW v \in CellValues,
         w.off = k - 1, w.data = <<v>>,
         \A q \in 1..Len(r) : OnNames(r[q]) => w.name \notin {r[q].name, r[q].nname}
  PROVE  LET out == ApplyRecord(fs, Record(w, "write"))
         IN /\ out.ok
            /\ \E fresh, longer \in BOOLEAN :
                 /\ fresh => longer
                 /\ ~fresh => \E q \in 1..Len(r) : Covers(r[q], w.name, k)
                 /\ Leads(out.fs, Tail(r), Patch(F, w.name, k, v, fresh, longer))
<1> DEFINE e == Head(r)
           x == w.name
           out == ApplyRecord(fs, Record(w, "write"))
<1>1. PICK C : Chained(C, r) /\ Shows(fs, C[0]) /\ F = C[Len(r)]
  BY DEF Leads
<1>2. e = r[1] /\ 1 \in 1..Len(r) /\ 0 \in 0..Len(r) /\ 1 - 1 = 0
  OBVIOUS
<1>3. C[1] = After(C[0], e) /\ C[0] \in Tables /\ Tidy(C[0]) /\ C[1] = C[0]
  <2>1. C[1] = After(C[0], e) /\ C[0] \in Tables /\ Tidy(C[0])
    BY <1>1, <1>2 DEF Chained
  <2> QED BY <2>1, SamePoints
<1>4. PICK B : /\ Chained(B, Tail(r)) /\ B[0] = C[1] /\ B[Len(Tail(r))] = C[Len(r)]
  BY <1>1, ChainTail
<1>5. x \in Names /\ k \in Nat /\ k >= 1 /\ OnContent(w)
  BY DEF EventRight, OnContent, Places
<1>6. out.ok /\ Shows(out.fs, Patch(C[0], x, k, v, TRUE, TRUE))
  <2> DEFINE T == C[0]
             U == After(T, w)
             P == Patch(T, x, k, v, TRUE, TRUE)
  <2>1. out.ok /\ Shows(out.fs, U)
    <3>1. T \in Tables /\ Tidy(T) /\ Shows(fs, T) /\ Applies(T, w)
      BY <1>1, <1>3 DEF Applies
    <3> HIDE DEF T
    <3>2. /\ ApplyRecord(fs, Record(w, w.op)).ok
          /\ Shows(ApplyRecord(fs, Record(w, w.op)).fs, After(T, w))
      BY <1>5, <3>1, RecordShown
    <3> QED BY <3>2
  <2>2. T \in Tables /\ Tidy(T)
    BY <1>3
  <2> HIDE DEF T
  <2>3. U \in Tables /\ P \in Tables
    BY <1>5, <2>2, AfterTyped, PatchTyped
  <2>4. /\ U.has = T.has \cup {x}
        /\ \A n \in Names : n # x => U.len[n] = T.len[n] /\ U.cell[n] = T.cell[n]
        /\ U.len[x] = Grown(w, T.len[x])
        /\ \A j \in Places : U.cell[x][j] = IF Fills(w, j) THEN Filled(w, j) ELSE T.cell[x][j]
    BY <1>5, <2>2, EditedPoints
  <2>5. /\ P.has = T.has \cup {x}
        /\ \A n \in Names : n # x => P.len[n] = T.len[n] /\ P.cell[n] = T.cell[n]
        /\ P.len[x] = Larger(T.len[x], k)
        /\ \A j \in Places : P.cell[x][j] = IF j = k THEN v ELSE T.cell[x][j]
    BY <1>5 DEF Patch
  <2> HIDE DEF U, P
  <2>6. Len(w.data) = 1 /\ w.data[1] = v
    OBVIOUS
  <2>7. Grown(w, T.len[x]) = Larger(T.len[x], k)
    BY <1>5, <2>6 DEF Grown
  <2>8. ASSUME NEW j \in Places
        PROVE  (Fills(w, j) <=> j = k) /\ (j = k => Filled(w, j) = v)
    <3>1. j \in Nat
      BY DEF Places
    <3>2. Fills(w, j) <=> k - 1 < j /\ j <= (k - 1) + 1
      BY <2>6 DEF Fills
    <3>3. ASSUME j = k PROVE Filled(w, j) = v
      <4>1. Filled(w, j) = w.data[k - (k - 1)] /\ k - (k - 1) = 1
        BY <1>5, <3>3 DEF Filled
      <4> QED BY <2>6, <4>1
    <3> QED BY <1>5, <3>1, <3>2, <3>3
  <2>9. ASSUME NEW n \in Names, NEW j \in Places PROVE U.cell[n][j] = P.cell[n][j]
    BY <2>4, <2>5, <2>8
  <2>10. \A n \in Names : U.len[n] = P.len[n]
    BY <2>4, <2>5, <2>7
  <2>11. U.has = P.has
    BY <2>4, <2>5
  <2>12. U = P
    BY <2>3, <2>9, <2>10, <2>11, TablesSame
  <2> QED BY <2>1, <2>12 DEF P, T
<1> DEFINE s == Tail(r)
<1>7. PICK n \in Nat : n = Len(s) /\ n + 1 = Len(r) /\ \A q \in 1..n : s[q] = r[q + 1]
  <2>1. Len(s) \in Nat /\ Len(s) + 1 = Len(r) /\ \A q \in 1..Len(s) : s[q] = r[q + 1]
    OBVIOUS
  <2> HIDE DEF s
  <2> QED BY <2>1
<1> DEFINE fresh(q) == \A p \in 1..q : ~Covers(s[p], x, k)
           longer(q) == \A p \in 1..q : ~Shortens(s[p], x, k)
           D == [q \in 0..n |-> Patch(B[q], x, k, v, fresh(q), longer(q))]
<1>8. \A q \in 1..n : EventRight(s[q]) /\ (OnNames(s[q]) => x \notin {s[q].name, s[q].nname})
  <2>1. \A q \in 1..n : q + 1 \in 1..Len(r)
    BY <1>7
  <2> HIDE DEF s
  <2> QED BY <1>7, <2>1
<1> HIDE DEF s, out
<1>9. ASSUME NEW q \in 0..n
      PROVE  /\ fresh(q) \in BOOLEAN /\ longer(q) \in BOOLEAN /\ (fresh(q) => longer(q))
             /\ D[q] = Patch(B[q], x, k, v, fresh(q), longer(q))
             /\ B[q] \in Tables /\ Tidy(B[q]) /\ D[q] \in Tables /\ Tidy(D[q])
  <2>1. fresh(q) \in BOOLEAN /\ longer(q) \in BOOLEAN
    OBVIOUS
  <2>2. ASSUME NEW p \in 1..q, Shortens(s[p], x, k) PROVE Covers(s[p], x, k)
    BY <2>2 DEF Shortens, Covers, OnContent, Fills
  <2>3. fresh(q) => longer(q)
    BY <2>2
  <2>4. B[q] \in Tables /\ Tidy(B[q])
    BY <1>4, <1>7 DEF Chained, s
  <2>5. D[q] = Patch(B[q], x, k, v, fresh(q), longer(q))
    OBVIOUS
  <2> HIDE DEF fresh, longer, D
  <2>6. D[q] \in Tables /\ Tidy(D[q])
    BY <1>5, <2>1, <2>3, <2>4, <2>5, PatchTyped
  <2> QED BY <2>1, <2>3, <2>4, <2>5, <2>6
<1>10. D \in [0..n -> Tables]
  BY <1>9
<1>11. ASSUME NEW q \in 1..n
       PROVE  /\ fresh(q) <=> fresh(q - 1) /\ ~Covers(s[q], x, k)
              /\ longer(q) <=> longer(q - 1) /\ ~Shortens(s[q], x, k)
  <2>1. 1..q = 1..(q - 1) \cup {q}
    OBVIOUS
  <2> QED BY <2>1
<1>12. D[0] = Patch(C[0], x, k, v, TRUE, TRUE)
  <2>1. D[0] = Patch(B[0], x, k, v, fresh(0), longer(0))
    <3>1. 0 \in 0..n
      OBVIOUS
    <3> HIDE DEF D, fresh, longer
    <3> QED BY <1>9, <3>1
  <2>2. fresh(0) = TRUE /\ longer(0) = TRUE
    OBVIOUS
  <2> HIDE DEF D, fresh, longer
  <2> QED BY <1>3, <1>4, <2>1, <2>2
<1> HIDE DEF D, fresh, longer
<1>13. ASSUME NEW q \in 1..n PROVE Applies(D[q - 1], s[q]) /\ D[q] = After(D[q - 1], s[q])
  <2>1. q - 1 \in 0..n /\ q \in 0..n
    OBVIOUS
  <2>2. Applies(B[q - 1], s[q]) /\ B[q] = After(B[q - 1], s[q])
    BY <1>4, <1>7 DEF Chained, s
  <2> DEFINE T == B[q - 1]
             f == fresh(q - 1)
             l == longer(q - 1)
             e2 == s[q]
             P == Patch(T, x, k, v, f, l)
  <2>3. /\ T \in Tables /\ Tidy(T) /\ f \in BOOLEAN /\ l \in BOOLEAN /\ (f => l)
        /\ D[q - 1] = P
    BY <1>9, <2>1
  <2>4. EventRight(e2) /\ Applies(T, e2) /\ (OnNames(e2) => x # e2.name /\ x # e2.nname)
    BY <1>8, <2>2
  <2>5. /\ D[q] = Patch(After(T, e2), x, k, v, fresh(q), longer(q))
        /\ fresh(q) = (f /\ ~Covers(e2, x, k)) /\ longer(q) = (l /\ ~Shortens(e2, x, k))
    <3>1. fresh(q) \in BOOLEAN /\ longer(q) \in BOOLEAN
      BY <1>9, <2>1
    <3> QED BY <1>9, <1>11, <2>1, <2>2, <3>1
  <2> HIDE DEF T, f, l, e2, P
  <2>6. /\ Applies(Patch(T, x, k, v, f, l), e2)
        /\ After(Patch(T, x, k, v, f, l), e2)
             = Patch(After(T, e2), x, k, v, f /\ ~Covers(e2, x, k), l /\ ~Shortens(e2, x, k))
    BY <1>5, <2>3, <2>4, PatchStep
  <2> QED BY <2>3, <2>5, <2>6 DEF P, e2
<1>14. Chained(D, s)
  BY <1>7, <1>9, <1>10, <1>13 DEF Chained
<1>15. /\ n \in 0..n /\ D[n] = Patch(F, x, k, v, fresh(n), longer(n))
       /\ fresh(n) \in BOOLEAN /\ longer(n) \in BOOLEAN /\ (fresh(n) => longer(n))
  <2>1. n \in 0..n /\ B[n] = F
    BY <1>1, <1>4, <1>7 DEF s
  <2> QED BY <1>9, <2>1
<1>16. Leads(out.fs, s, Patch(F, x, k, v, fresh(n), longer(n)))
  <2>1. Shows(out.fs, D[0])
    BY <1>6, <1>12
  <2> QED BY <1>7, <1>14, <1>15, <2>1 DEF Leads
<1>17. ~fresh(n) => \E q \in 1..Len(r) : Covers(r[q], x, k)
  <2> SUFFICES ASSUME ~fresh(n) PROVE \E q \in 1..Len(r) : Covers(r[q], x, k)
    OBVIOUS
  <2>1. PICK p \in 1..n : Covers(s[p], x, k)
    BY DEF fresh
  <2>2. p + 1 \in 1..Len(r) /\ Covers(r[p + 1], x, k)
    BY <1>7, <2>1
  <2> QED BY <2>2
<1> QED BY <1>6, <1>15, <1>16, <1>17 DEF s, out

-----------------------------------------------------------------------------
(* The invariant.  The table that the batch and the events in the ring     *)
(* lead to is the directory, but for what is still to come.                *)

(* The cells of a call whose events are still to come, the size being that *)
(* of the file; and the size that a copy of size n will have got by then.  *)
Unsent(c, size) ==
  CASE c.kind \in Writes -> {k \in Places : c.end - c.ret + c.sent < k /\ k <= c.end}
    [] c.kind \in {"truncate", "alloc"} -> {k \in Places : k > size}
    [] c.kind \in {"zero", "zero_keep", "punch"} -> {k \in Places : c.off < k /\ k <= c.off + c.len}
    [] OTHER -> {}
Grows(c, n, size) ==
  CASE c.kind \in Writes /\ c.sent < c.ret -> Larger(n, c.end)
    [] c.kind \in {"truncate", "alloc"} -> size
    [] c.kind = "zero" -> Larger(n, c.off + c.len)
    [] OTHER -> n

(* A call that ends in a loss.                                             *)
Doomed(c) == c.kind = "collapse" \/ (c.kind = "writev" /\ c.sent > c.ret)

(* What a call knows fits the content of its file, and the cells it has    *)
(* still to report are as it made them.                                    *)
SizeRight(c, old) ==
  /\ c.kind \in {"zero", "zero_keep", "punch"} => c.len >= 1
  /\ c.at # "entered" =>
       /\ c.kind \in Writes =>
            /\ 1 <= c.ret /\ c.ret <= c.end /\ c.end <= Len(old)
            /\ c.kind # "append" => c.end - c.ret = c.off /\ c.ret <= c.len
       /\ c.kind = "truncate" \/ c.at = "sized" => c.len = Len(old)
       /\ c.kind = "zero" => c.off + c.len <= Len(old)
       /\ \A k \in Unsent(c, Len(old)) : Val(old, k) = IF c.kind \in Writes THEN c.id ELSE Zero
SizesRight == \A t \in Threads : ~Idle(t) => SizeRight(calls[t], data[calls[t].ino])

(* A name that a call is about to report as gone is gone, or, after an     *)
(* exchange, is the other file's; neither file is mapped.                  *)
NameRight(c) ==
  c.kind \in NameKinds =>
    /\ c.at = "done" /\ dir[c.name] \notin mapped
    /\ c.kind # "exchange" => dir[c.name] = NoIno
    /\ c.kind = "unlink" => c.nname = c.name
    /\ c.kind \in Renames => /\ c.name # c.nname /\ c.ino \notin mapped
                             /\ dir[c.nname] = c.ino
NamesGone == \A t \in Threads : ~Idle(t) => NameRight(calls[t])

(* The discipline, call by call.                                           *)
Apart == \A t, u \in Threads : t # u /\ ~Idle(t) /\ ~Idle(u) =>
  /\ calls[t].ino = calls[u].ino => Together(calls[t], calls[u])
  /\ ~(calls[t].kind \in NameKinds /\ calls[u].kind \in NameKinds)

CallsRight == SizesRight /\ NamesGone /\ Apart

(* Events are as they should be; a page of a file comes when the path of   *)
(* the file is known, and no change of its name comes after it.            *)
RingRight == \A q \in 1..Len(ring) :
  EventRight(ring[q]) /\ (ring[q].op = "writeback" => ring[q].ino \in mapped)
PagesRight == \A p \in 1..Len(ring) : ring[p].op = "writeback" =>
  /\ \E k \in 0..Len(ring) : k < p /\ Known(ring[p].ino, k)
  /\ Live(ring[p].ino) => \A q \in p..Len(ring) : OnNames(ring[q]) =>
        dentry[ring[p].ino] \notin {ring[q].name, ring[q].nname}

(* A call that has done its work on file i; a cell that its event will     *)
(* give its value; a cell that a page still to be written back or read     *)
(* will.                                                                   *)
Pending(t, i) == ~Idle(t) /\ calls[t].ino = i /\ calls[t].at # "entered"
Owed(i, k)    == \E t \in Threads : Pending(t, i) /\ k \in Unsent(calls[t], Len(data[i]))
Stale(i, k)   == i \in mapped /\
  \/ <<i, k>> \in dirty
  \/ \E p \in 1..Len(ring) :
       /\ ring[p].op = "writeback" /\ ring[p].ino = i /\ ring[p].off + 1 = k
       /\ \A q \in p..Len(ring) : ~Covers(ring[q], dentry[i], k)

Sound(i)       == \A t \in Threads : Pending(t, i) => ~Doomed(calls[t])
LenRight(n, i) == \/ n = Len(data[i])
                  \/ \E t \in Threads : Pending(t, i) /\ Grows(calls[t], n, Len(data[i])) = Len(data[i])
Right(T, i, s) == Sound(i) =>
  /\ LenRight(T.len[s], i)
  /\ \A k \in Places : T.cell[s][k] = Val(data[i], k) \/ Owed(i, k) \/ Stale(i, k)

(* The table has a file under its name, or, while the event of its rename  *)
(* is to come, under its former name.  It says nothing of the two files of *)
(* an exchange whose event is to come.                                     *)
Plain == Renames \ {"exchange"}
Renaming(t, i) == ~Idle(t) /\ calls[t].kind \in Plain /\ calls[t].ino = i
Swapping(i) == \E t \in Threads : /\ ~Idle(t) /\ calls[t].kind = "exchange"
                                  /\ i \in {calls[t].ino, dir[calls[t].name]}
Source(i, s) == Live(i) /\ ~Swapping(i) /\
  (\/ \E t \in Threads : Renaming(t, i) /\ s = calls[t].name
   \/ s = dentry[i] /\ \A t \in Threads : ~Renaming(t, i))

Changing(n) == \E t \in Threads : /\ ~Idle(t) /\ calls[t].kind \in NameKinds
                                  /\ n \in {calls[t].name, calls[t].nname}
NamesFollow(T) ==
  /\ \A n \in Names : ~Changing(n) => (n \in T.has <=> dir[n] # NoIno)
  /\ \A t \in Threads : ~Idle(t) /\ calls[t].kind \in Plain =>
       /\ calls[t].name \in T.has
       /\ calls[t].kind = "noreplace" => calls[t].nname \notin T.has
Follows(T) == NamesFollow(T) /\ \A i \in Inodes, s \in Names : Source(i, s) => Right(T, i, s)

(* An exchange is on its way to the backup, which refuses it, or a batch   *)
(* was refused.                                                            *)
Swap(e) == e.op = "rename" /\ e.flags = "exchange"
Refusing == \/ daemon = "broken" \/ WithExchange(batch)
            \/ \E q \in 1..Len(ring) : Swap(ring[q])

(* The batch can be replayed, and the table it leads to with the ring      *)
(* follows the directory, unless the harvest will end in an error.         *)
Ahead == ~lost /\ ~batch_error /\ ~Refusing =>
  /\ Replayed(backup, batch).ok
  /\ \E F : Leads(Replayed(backup, batch).fs, ring, F) /\ Follows(F)
Batched == \E S : batch \in Seq(S)

(* After a harvest began and as long as nothing is done, the flush leaves  *)
(* no page behind; without mappings there are no pages.                    *)
Clean ==
  /\ mapped # {} => Mmap
  /\ asked => AllIdle /\ (daemon = "flushed" => \A page \in dirty : page[1] \in mapped => ~Live(page[1]))
Served == delivered => AllIdle /\ backup = View

ContentInv == /\ CallsRight /\ RingRight /\ PagesRight
              /\ Ahead /\ Batched /\ Clean /\ Served

-----------------------------------------------------------------------------
(* What a step leaves as it was.                                           *)

LEMMA UnsentCases ==
  ASSUME NEW c, NEW size
  PROVE  /\ c.kind \in Writes => \A k : k \in Unsent(c, size) <=>
              k \in Places /\ c.end - c.ret + c.sent < k /\ k <= c.end
         /\ c.kind \in {"truncate", "alloc"} => \A k : k \in Unsent(c, size) <=> k \in Places /\ k > size
         /\ c.kind \in {"zero", "zero_keep", "punch"} => \A k : k \in Unsent(c, size) <=>
              k \in Places /\ c.off < k /\ k <= c.off + c.len
         /\ c.kind \in {"collapse"} \cup NameKinds => Unsent(c, size) = {}
<1>1. CASE c.kind \in Writes
  BY <1>1 DEF Unsent, Writes, NameKinds, Renames
<1>2. CASE c.kind \in {"truncate", "alloc"}
  BY <1>2 DEF Unsent, Writes, NameKinds, Renames
<1>3. CASE c.kind \in {"zero", "zero_keep", "punch"}
  BY <1>3 DEF Unsent, Writes, NameKinds, Renames
<1>4. CASE c.kind \in {"collapse"} \cup NameKinds
  BY <1>4 DEF Unsent, Writes, NameKinds, Renames
<1> QED BY <1>1, <1>2, <1>3, <1>4 DEF Writes, NameKinds, Renames

LEMMA GrowsCases ==
  ASSUME NEW c, NEW n, NEW size
  PROVE  /\ c.kind \in Writes =>
              Grows(c, n, size) = IF c.sent < c.ret THEN Larger(n, c.end) ELSE n
         /\ c.kind \in {"truncate", "alloc"} => Grows(c, n, size) = size
         /\ c.kind = "zero" => Grows(c, n, size) = Larger(n, c.off + c.len)
         /\ c.kind \in {"zero_keep", "punch", "collapse"} \cup NameKinds => Grows(c, n, size) = n
<1>1. CASE c.kind \in Writes /\ c.sent < c.ret
  BY <1>1 DEF Grows, Writes, NameKinds, Renames
<1>2. CASE c.kind \in Writes /\ ~(c.sent < c.ret)
  BY <1>2 DEF Grows, Writes, NameKinds, Renames
<1>3. CASE c.kind \in {"truncate", "alloc"}
  BY <1>3 DEF Grows, Writes, NameKinds, Renames
<1>4. CASE c.kind = "zero"
  BY <1>4 DEF Grows, Writes, NameKinds, Renames
<1>5. CASE c.kind \in {"zero_keep", "punch", "collapse"} \cup NameKinds
  BY <1>5 DEF Grows, Writes, NameKinds, Renames
<1> QED BY <1>1, <1>2, <1>3, <1>4, <1>5 DEF Writes, NameKinds, Renames

LEMMA StaleKept ==
  ASSUME ring \in Seq(Events), NEW i, NEW k, Stale(i, k), mapped \subseteq mapped',
         dentry'[i] = dentry[i], <<i, k>> \in dirty => <<i, k>> \in dirty', NEW e,
         ring' = ring \/ (ring' = Append(ring, e) /\ ~Covers(e, dentry[i], k))
  PROVE  Stale(i, k)'
<1>1. i \in mapped'
  BY DEF Stale
<1>2. CASE <<i, k>> \in dirty
  BY <1>1, <1>2 DEF Stale
<1>3. CASE <<i, k>> \notin dirty
  <2>1. PICK p \in 1..Len(ring) :
          /\ ring[p].op = "writeback" /\ ring[p].ino = i /\ ring[p].off + 1 = k
          /\ \A q \in p..Len(ring) : ~Covers(ring[q], dentry[i], k)
    BY <1>3 DEF Stale
  <2>2. CASE ring' = ring
    BY <1>1, <2>1, <2>2 DEF Stale, Covers, OnContent, Fills
  <2>3. CASE ring' = Append(ring, e) /\ ~Covers(e, dentry[i], k)
    <3>1. /\ Len(ring) \in Nat /\ Len(ring') = Len(ring) + 1 /\ ring'[Len(ring) + 1] = e
          /\ \A q \in 1..Len(ring) : ring'[q] = ring[q]
      BY <2>3
    <3>2. p \in 1..Len(ring') /\ ring'[p] = ring[p]
      BY <3>1
    <3>3. ASSUME NEW q \in p..Len(ring') PROVE ~Covers(ring'[q], dentry'[i], k)
      <4>1. CASE q = Len(ring) + 1
        BY <2>3, <3>1, <4>1
      <4>2. CASE q # Len(ring) + 1
        <5>1. q \in p..Len(ring) /\ q \in 1..Len(ring)
          BY <3>1, <4>2
        <5> QED BY <2>1, <3>1, <5>1
      <4> QED BY <4>1, <4>2
    <3> QED BY <1>1, <2>1, <3>2, <3>3 DEF Stale, Covers, OnContent, Fills
  <2> QED BY <2>2, <2>3
<1> QED BY <1>2, <1>3

(* A file whose content is left alone, and so are the calls on it.         *)
LEMMA RightSame ==
  ASSUME NEW i, NEW T, NEW U, NEW s, NEW r, Right(T, i, s), data'[i] = data[i],
         U.len[r] = T.len[s], U.cell[r] = T.cell[s],
         \A t \in Threads : Pending(t, i) /\ calls[t].kind \notin NameKinds =>
           Pending(t, i)' /\ calls'[t] = calls[t],
         \A k \in Places : Stale(i, k) => Stale(i, k)'
  PROVE  Right(U, i, r)'
<1> SUFFICES ASSUME Sound(i)'
             PROVE  /\ LenRight(U.len[r], i)'
                    /\ \A k \in Places : U.cell[r][k] = Val(data'[i], k) \/ Owed(i, k)' \/ Stale(i, k)'
  BY DEF Right
<1>1. Sound(i)
  <2> SUFFICES ASSUME NEW t \in Threads, Pending(t, i) PROVE ~Doomed(calls[t])
    BY DEF Sound
  <2>1. CASE calls[t].kind \in NameKinds
    BY <2>1 DEF Doomed, NameKinds, Renames
  <2>2. CASE calls[t].kind \notin NameKinds
    BY <2>2 DEF Sound, Doomed
  <2> QED BY <2>1, <2>2
<1>2. /\ LenRight(T.len[s], i)
      /\ \A k \in Places : T.cell[s][k] = Val(data[i], k) \/ Owed(i, k) \/ Stale(i, k)
  BY <1>1 DEF Right
<1>3. LenRight(U.len[r], i)'
  <2>1. CASE T.len[s] = Len(data[i])
    BY <2>1 DEF LenRight
  <2>2. CASE T.len[s] # Len(data[i])
    <3>1. PICK t \in Threads :
            Pending(t, i) /\ Grows(calls[t], T.len[s], Len(data[i])) = Len(data[i])
      BY <1>2, <2>2 DEF LenRight
    <3>2. Pending(t, i)' /\ calls'[t] = calls[t]
      BY <2>2, <3>1, GrowsCases
    <3>3. (Grows(calls[t], T.len[s], Len(data[i])) = Len(data[i]))'
      BY <3>1, <3>2 DEF Grows
    <3> QED BY <3>2, <3>3 DEF LenRight, Grows
  <2> QED BY <2>1, <2>2
<1>4. ASSUME NEW k \in Places
      PROVE  U.cell[r][k] = Val(data'[i], k) \/ Owed(i, k)' \/ Stale(i, k)'
  <2>1. ASSUME Owed(i, k) PROVE Owed(i, k)'
    <3>1. PICK t \in Threads : Pending(t, i) /\ k \in Unsent(calls[t], Len(data[i]))
      BY <2>1 DEF Owed
    <3>2. Pending(t, i)' /\ calls'[t] = calls[t]
      BY <3>1, UnsentCases
    <3>3. (k \in Unsent(calls[t], Len(data[i])))'
      BY <3>1, <3>2 DEF Unsent
    <3> QED BY <3>2, <3>3 DEF Owed, Unsent
  <2> QED BY <1>2, <2>1
<1> QED BY <1>3, <1>4

(* A step that leaves calls, names and content as they are.                *)
LEMMA FollowsSame ==
  ASSUME NEW T, Follows(T), UNCHANGED <<calls, dir, dentry, data>>,
         \A i \in Inodes, k \in Places : Live(i) /\ Stale(i, k) => Stale(i, k)'
  PROVE  Follows(T)'
<1>1. NamesFollow(T)'
  <2>1. \A n : Changing(n)' <=> Changing(n)
    BY DEF Changing, Idle
  <2> QED BY <2>1 DEF Follows, NamesFollow, Idle
<1>2. ASSUME NEW i \in Inodes, NEW s \in Names, Source(i, s)' PROVE Right(T, i, s)'
  <2>1. Source(i, s)
    BY <1>2 DEF Source, Live, Renaming, Swapping, Idle
  <2>2. Right(T, i, s) /\ Live(i)
    BY <2>1 DEF Follows, Source
  <2>3. \A t \in Threads : Pending(t, i) => Pending(t, i)' /\ calls'[t] = calls[t]
    BY DEF Pending, Idle
  <2> QED BY <2>2, <2>3, RightSame
<1> QED BY <1>1, <1>2 DEF Follows

(* A step of a call on the content of file i, which ends or goes on: the   *)
(* other files are as right as they were.                                  *)
LEMMA FollowsContent ==
  ASSUME Types, NamesInv, CallsRight, NEW t \in Threads, ~Idle(t), calls[t].kind \in DataKinds,
         NEW i, i = calls[t].ino, UNCHANGED <<dir, dentry, mapped>>,
         \A u \in Threads : u # t => calls'[u] = calls[u],
         ~Idle(t)' => calls'[t].ino = i /\ calls'[t].kind = calls[t].kind,
         \A j \in Inodes : j # i => data'[j] = data[j] /\ \A k : <<j, k>> \in dirty => <<j, k>> \in dirty',
         NEW T \in Tables, Follows(T), NEW U, NEW e,
         \/ U = T /\ ring' = ring
         \/ U = After(T, e) /\ OnContent(e) /\ e.name = dentry[i] /\ ring' = Append(ring, e),
         Right(T, i, dentry[i]) => Right(U, i, dentry[i])'
  PROVE  Follows(U)'
<1> DEFINE x == dentry[i]
<1>0. /\ i \in Inodes /\ dir \in [Names -> Inodes \cup {NoIno}] /\ dentry \in [Inodes -> Names]
      /\ ring \in Seq(Events) /\ NoIno \notin Inodes /\ x \in Names
      /\ calls \in [Threads -> Records \cup {NoCall}]
  BY FileAssumption DEF Types, CallTypes, NameTypes, RingTypes, Idle, Records
<1>1. Live(i) /\ dir[x] = i
  BY DEF NamesInv, NotedRight, Live
<1>2. /\ \A n \in Names : n # x => U.len[n] = T.len[n] /\ U.cell[n] = T.cell[n]
      /\ U.has = T.has \/ U.has = T.has \cup {x}
  <2>1. CASE U = T
    BY <2>1
  <2>2. CASE U = After(T, e) /\ OnContent(e) /\ e.name = dentry[i]
    BY <2>2, EditedPoints
  <2> QED BY <2>1, <2>2
<1>3. \A u \in Threads : u # t => (Idle(u)' <=> Idle(u))
  BY DEF Idle
<1>4. calls[t].kind \notin NameKinds
  BY DEF DataKinds, NameKinds, Renames, Writes, Allocs
<1>5. \A n : Changing(n)' <=> Changing(n)
  BY <1>3, <1>4 DEF Changing
<1>6. /\ \A u \in Threads : \A j : Renaming(u, j)' <=> Renaming(u, j)
      /\ \A j : Swapping(j) => Swapping(j)'
  BY <1>3, <1>4 DEF Renaming, Swapping, Plain, NameKinds, Renames
<1>7. \A u \in Threads : \A j : Renaming(u, j) => calls'[u] = calls[u]
  BY <1>4 DEF Renaming, Plain, NameKinds, Renames
<1>8. \A u \in Threads : ~Renaming(u, i)
  BY <1>4 DEF Renaming, Plain, CallsRight, Apart, Together, Writes, NameKinds, Renames
<1>9. NamesFollow(U)'
  <2>1. ASSUME NEW n \in Names, ~Changing(n)' PROVE n \in U.has <=> dir'[n] # NoIno
    <3>1. n \in T.has <=> dir[n] # NoIno
      BY <1>5, <2>1 DEF Follows, NamesFollow
    <3> QED BY <1>0, <1>1, <1>2, <3>1
  <2>2. ASSUME NEW u \in Threads, ~Idle(u)', calls'[u].kind \in Plain
        PROVE  /\ calls'[u].name \in U.has
               /\ calls'[u].kind = "noreplace" => calls'[u].nname \notin U.has
    <3>1. u # t
      BY <1>4, <2>2 DEF Plain, NameKinds
    <3>2. ~Idle(u) /\ calls'[u] = calls[u]
      BY <1>3, <2>2, <3>1
    <3>3. /\ calls[u].name \in T.has
          /\ calls[u].kind = "noreplace" => calls[u].nname \notin T.has
      BY <2>2, <3>2 DEF Follows, NamesFollow
    <3>4. dir[calls[u].nname] = calls[u].ino
      BY <2>2, <3>2 DEF CallsRight, NamesGone, NameRight, Plain, NameKinds
    <3>5. calls[u].ino # i
      BY <1>8, <2>2, <3>2 DEF Renaming
    <3> QED BY <1>1, <1>2, <3>2, <3>3, <3>4, <3>5
  <2> QED BY <2>1, <2>2 DEF NamesFollow
<1>10. ASSUME NEW j \in Inodes, NEW s \in Names, Source(j, s)' PROVE Right(U, j, s)'
  <2>1. Source(j, s)
    BY <1>6, <1>7, <1>10 DEF Source, Live
  <2>2. Right(T, j, s)
    BY <2>1 DEF Follows
  <2>3. CASE j = i
    BY <1>8, <2>1, <2>2, <2>3 DEF Source
  <2>4. CASE j # i
    <3>1. Live(j) /\ dir[dentry[j]] = j /\ dentry[j] # x
      BY <1>1, <2>1, <2>4 DEF Source, Live
    <3>2. s # x
      <4>1. CASE s = dentry[j]
        BY <3>1, <4>1
      <4>2. CASE s # dentry[j]
        <5>1. PICK u \in Threads : Renaming(u, j) /\ s = calls[u].name
          BY <2>1, <4>2 DEF Source
        <5>2. dir[s] = NoIno
          BY <5>1 DEF Renaming, Plain, CallsRight, NamesGone, NameRight, NameKinds, Renames
        <5> QED BY <1>0, <1>1, <5>2
      <4> QED BY <4>1, <4>2
    <3>3. U.len[s] = T.len[s] /\ U.cell[s] = T.cell[s]
      BY <1>2, <3>2
    <3>4. \A u \in Threads : Pending(u, j) => Pending(u, j)' /\ calls'[u] = calls[u]
      BY <1>3, <2>4 DEF Pending
    <3>5. ASSUME NEW k \in Places, Stale(j, k) PROVE Stale(j, k)'
      <4>1. ring' = ring \/ (ring' = Append(ring, e) /\ ~Covers(e, dentry[j], k))
        BY <3>1 DEF Covers
      <4>2. <<j, k>> \in dirty => <<j, k>> \in dirty'
        BY <2>4
      <4> QED BY <1>0, <3>5, <4>1, <4>2, StaleKept
    <3>6. data'[j] = data[j]
      BY <2>4
    <3> QED BY <2>2, <3>3, <3>4, <3>5, <3>6, RightSame
  <2> QED BY <2>3, <2>4
<1> QED BY <1>9, <1>10 DEF Follows

-----------------------------------------------------------------------------
(* The part of a call inside the kernel: what it changes it will report.   *)

LEMMA DataCells ==
  ASSUME Types, NEW i \in Inodes
  PROVE  data[i] \in Seq(CellValues) /\ Len(data[i]) \in Nat /\ Zero \in CellValues
<1>1. Cells \subseteq CellValues /\ Zero \in CellValues
  BY SetupTyped DEF Types, Cells, CellValues
<1>2. data[i] \in Seq(Cells)
  BY DEF Types, DataTypes
<1> QED BY <1>1, <1>2

LEMMA CallFacts ==
  ASSUME Types, NEW t \in Threads, ~Idle(t)
  PROVE  /\ calls[t] \in Records /\ calls[t].ino \in Inodes /\ calls[t].off \in Nat
         /\ calls[t].len \in Nat /\ calls[t].end \in Nat /\ calls[t].ret \in Nat
         /\ calls[t].sent \in Nat /\ calls[t].id \in Nat /\ calls[t].seg \in Nat
         /\ calls[t].name \in Names /\ calls[t].nname \in Names
         /\ calls[t].at = "entered" => calls[t].sent = 0
         /\ calls[t].at = "sized" => calls[t].kind = "alloc"
         /\ calls[t].kind \in {"write", "append"} => calls[t].sent <= calls[t].ret
         /\ calls[t].at \in {"entered", "done", "sized"}
BY UnderWay DEF Types, Records, Within

(* A write lands within the cells it was called for.                       *)
LEMMA WithinCells ==
  ASSUME NEW off \in Nat, NEW len \in Nat, NEW end \in Nat, NEW ret \in Nat, NEW sent \in Nat,
         NEW k \in Nat, end - ret = off, ret <= len, end - ret + sent < k, k <= end
  PROVE  off < k /\ k <= off + len
OBVIOUS

(* Writes of two calls are to different places.                            *)
LEMMA WritesApart ==
  ASSUME Types, CallsRight, NEW t \in Threads, ~Idle(t), calls[t].at = "entered",
         calls[t].kind \in Writes, NEW u \in Threads, u # t, Pending(u, calls[t].ino),
         NEW n \in Nat, n <= calls[t].len,
         NEW pos, pos = IF calls[t].kind = "append" THEN Len(data[calls[t].ino]) ELSE calls[t].off
  PROVE  /\ calls[u].kind \in Writes /\ calls[u].end <= Len(data[calls[t].ino])
         /\ \A k \in Unsent(calls[u], Len(data[calls[t].ino])) : ~(pos < k /\ k <= pos + n)
<1> DEFINE c == calls[t]
           d == calls[u]
           old == data[c.ino]
<1>1. ~Idle(u) /\ d.ino = c.ino /\ d.at # "entered"
  BY DEF Pending
<1>2. Together(c, d)
  BY <1>1 DEF CallsRight, Apart
<1>3. d.kind \in Writes
  BY <1>2 DEF Together, Writes
<1>4. /\ 1 <= d.ret /\ d.ret <= d.end /\ d.end <= Len(old)
      /\ d.kind # "append" => d.end - d.ret = d.off /\ d.ret <= d.len
  BY <1>1, <1>3 DEF CallsRight, SizesRight, SizeRight
<1>5. /\ c.off \in Nat /\ c.len \in Nat /\ d.off \in Nat /\ d.len \in Nat
      /\ d.end \in Nat /\ d.ret \in Nat /\ d.sent \in Nat /\ Len(old) \in Nat
  BY <1>1, CallFacts, DataCells
<1>6. ASSUME NEW k \in Unsent(d, Len(old)) PROVE ~(pos < k /\ k <= pos + n)
  <2>1. k \in Nat /\ d.end - d.ret + d.sent < k /\ k <= d.end
    BY <1>3, <1>6, UnsentCases DEF Places
  <2>2. CASE c.kind = "append"
    BY <1>4, <1>5, <2>1, <2>2
  <2>3. CASE c.kind # "append"
    <3>1. {c.kind, d.kind} \subseteq {"write", "writev"} /\ CellsOf(c) \cap CellsOf(d) = {}
      BY <1>2, <2>3 DEF Together
    <3>2. k \in CellsOf(d)
      <4>1. d.kind # "append"
        BY <3>1
      <4>2. d.end - d.ret = d.off /\ d.ret <= d.len
        BY <1>4, <4>1
      <4>3. d.off < k /\ k <= d.off + d.len
        BY <1>5, <2>1, <4>2, WithinCells
      <4> QED BY <1>5, <2>1, <4>3 DEF CellsOf
    <3>3. pos < k /\ k <= pos + n => k \in CellsOf(c)
      BY <1>5, <2>1, <2>3 DEF CellsOf
    <3> QED BY <3>1, <3>2, <3>3
  <2> QED BY <2>2, <2>3
<1> QED BY <1>3, <1>4, <1>6

LEMMA WriteRight ==
  ASSUME Types, CallsRight, NEW t \in Threads, ~Idle(t), calls[t].at = "entered",
         calls[t].kind \in Writes, NEW i, i = calls[t].ino, NEW n \in Nat, 1 <= n, n <= calls[t].len,
         NEW pos, pos = IF calls[t].kind = "append" THEN Len(data[calls[t].ino]) ELSE calls[t].off,
         data' = [data EXCEPT ![i] = Overwrite(data[i], pos, Repeat(calls[t].id, n))],
         NEW d, calls' = [calls EXCEPT ![t] = d], d # NoCall, d.kind = calls[t].kind,
         d.ino = i, d.at = "done", d.end = pos + n, d.ret = n, d.sent = calls[t].sent,
         d.id = calls[t].id, d.off = calls[t].off, d.len = calls[t].len,
         UNCHANGED <<dir, dentry, mapped, ring>>, dirty \subseteq dirty'
  PROVE  /\ SizesRight'
         /\ \A T \in Tables, s \in Names :
              Right(T, i, s) => Right(T, i, s)'
<1> DEFINE c == calls[t]
           old == data[i]
           new == Overwrite(old, pos, Repeat(c.id, n))
<1>0. /\ i \in Inodes /\ c.sent = 0 /\ c.off \in Nat /\ c.len \in Nat /\ c.id \in Nat
      /\ old \in Seq(CellValues) /\ Len(old) \in Nat /\ Zero \in CellValues
      /\ data \in [Inodes -> Seq(Cells)] /\ calls \in [Threads -> Records \cup {NoCall}]
      /\ ring \in Seq(Events)
  BY CallFacts, DataCells DEF Types, DataTypes, CallTypes, RingTypes
<1>1. pos \in Nat
  BY <1>0
<1>2. /\ data'[i] = new /\ \A j \in Inodes : j # i => data'[j] = data[j]
      /\ calls'[t] = d /\ \A u \in Threads : u # t => calls'[u] = calls[u]
  BY <1>0
<1>3. /\ Len(new) = Larger(Len(old), pos + n) /\ Len(new) \in Nat
      /\ Len(new) >= Len(old) /\ Len(new) >= pos + n
      /\ \A k \in Places : Val(new, k) = IF pos < k /\ k <= pos + n THEN c.id ELSE Val(old, k)
  <2> DEFINE src == Repeat(c.id, n)
  <2>1. src \in Seq(CellValues) /\ Len(src) = n /\ \A k \in 1..n : src[k] = c.id
    <3>1. c.id \in CellValues
      BY <1>0 DEF CellValues
    <3> QED BY <3>1, RepeatTyped
  <2>0. old \in Seq(CellValues) /\ Zero \in CellValues /\ pos \in Nat /\ Len(old) \in Nat
    BY <1>0, <1>1
  <2> HIDE DEF src, old, c
  <2>2. Len(Overwrite(old, pos, src)) = Larger(Len(old), pos + n)
    <3>1. Len(Overwrite(old, pos, src)) = Larger(Len(old), pos + Len(src))
      BY ONLY <2>0, <2>1, OverwriteTyped
    <3> QED BY <2>1, <3>1
  <2>3. ASSUME NEW k \in Places
        PROVE  Val(Overwrite(old, pos, src), k)
                 = IF pos < k /\ k <= pos + n THEN c.id ELSE Val(old, k)
    <3>1. Val(Overwrite(old, pos, src), k)
            = IF pos < k /\ k <= pos + n THEN src[k - pos] ELSE Val(old, k)
      <4>1. Val(Overwrite(old, pos, src), k)
              = IF pos < k /\ k <= pos + Len(src) THEN src[k - pos] ELSE Val(old, k)
        <5>1. k \in Places
          OBVIOUS
        <5> QED BY ONLY <2>0, <2>1, <5>1, OverwriteCells
      <4> QED BY <2>1, <4>1
    <3>2. pos < k /\ k <= pos + n => k - pos \in 1..n
      BY <1>1 DEF Places
    <3> QED BY <2>1, <3>1, <3>2
  <2> QED BY <1>0, <1>1, <2>2, <2>3 DEF src, Larger
<1>4. ASSUME NEW u \in Threads, u # t, Pending(u, i)
      PROVE  /\ calls[u].kind \in Writes /\ calls[u].end <= Len(old)
             /\ \A k \in Unsent(calls[u], Len(old)) : ~(pos < k /\ k <= pos + n)
  BY <1>4, WritesApart
<1> HIDE DEF new, old
<1>5. SizesRight'
  <2> SUFFICES ASSUME NEW u \in Threads, ~Idle(u)'
               PROVE  SizeRight(calls'[u], data'[calls'[u].ino])
    BY DEF SizesRight, SizeRight, Unsent, Val
  <2>1. CASE u = t
    <3>1. ASSUME NEW k \in Unsent(d, Len(new)) PROVE Val(new, k) = c.id
      <4>1. k \in Places /\ pos < k /\ k <= pos + n
        <5>1. k \in Places /\ d.end - d.ret + d.sent < k /\ k <= d.end
          BY <3>1, UnsentCases
        <5> QED BY <1>0, <1>1, <5>1 DEF Places
      <4> QED BY <1>3, <4>1
    <3>2. SizeRight(d, new)
      BY <1>0, <1>1, <1>3, <3>1 DEF SizeRight, Writes
    <3> QED BY <1>2, <2>1, <3>2
  <2>2. CASE u # t
    <3>1. calls'[u] = calls[u] /\ ~Idle(u) /\ calls[u].ino \in Inodes
      BY <1>2, <2>2, CallFacts DEF Idle
    <3>2. SizeRight(calls[u], data[calls[u].ino])
      BY <3>1 DEF CallsRight, SizesRight
    <3>3. CASE calls[u].ino # i
      BY <1>2, <3>1, <3>2, <3>3
    <3>4. CASE calls[u].ino = i
      <4>1. calls[u].kind \in Writes
        <5>1. Together(c, calls[u])
          BY <2>2, <3>1, <3>4 DEF CallsRight, Apart
        <5> QED BY <5>1 DEF Together, Writes
      <4>2. CASE calls[u].at = "entered"
        BY <1>2, <3>1, <3>4, <4>1, <4>2 DEF SizeRight, Writes
      <4>3. CASE calls[u].at # "entered"
        <5>1. Pending(u, i)
          BY <3>1, <3>4, <4>3 DEF Pending
        <5>2. Unsent(calls[u], Len(new)) = Unsent(calls[u], Len(old))
          BY <4>1 DEF Unsent
        <5>3. ASSUME NEW k \in Unsent(calls[u], Len(new)) PROVE Val(new, k) = calls[u].id
          <6>1. k \in Places
            BY <4>1, <5>3 DEF Unsent
          <6>2. Val(old, k) = calls[u].id
            BY <3>2, <3>4, <4>1, <4>3, <5>2, <5>3 DEF SizeRight, old
          <6> QED BY <1>3, <1>4, <2>2, <5>1, <5>2, <5>3, <6>1, <6>2
        <5>4. /\ 1 <= calls[u].ret /\ calls[u].ret <= calls[u].end /\ calls[u].end <= Len(old)
              /\ calls[u].kind # "append" =>
                   calls[u].end - calls[u].ret = calls[u].off /\ calls[u].ret <= calls[u].len
          BY <3>2, <3>4, <4>1, <4>3 DEF SizeRight, old
        <5>5. calls[u].at # "sized" /\ calls[u].end \in Nat
          BY <3>1, <4>1, CallFacts DEF Writes
        <5>6. SizeRight(calls[u], new)
          BY <1>0, <1>3, <4>1, <4>3, <5>3, <5>4, <5>5 DEF SizeRight, Writes
        <5> QED BY <1>2, <3>1, <3>4, <5>6
      <4> QED BY <4>2, <4>3
    <3> QED BY <3>3, <3>4
  <2> QED BY <2>1, <2>2
<1>6. ASSUME NEW T \in Tables, NEW s \in Names, Right(T, i, s) PROVE Right(T, i, s)'
  <2> SUFFICES ASSUME Sound(i)'
               PROVE  /\ LenRight(T.len[s], i)'
                      /\ \A k \in Places : T.cell[s][k] = Val(data'[i], k) \/ Owed(i, k)' \/ Stale(i, k)'
    BY <1>6 DEF Right
  <2>1. \A u \in Threads : u # t => (Pending(u, i)' <=> Pending(u, i))
    BY <1>2 DEF Pending, Idle
  <2>2. ~Pending(t, i) /\ Pending(t, i)'
    BY <1>2 DEF Pending, Idle
  <2>3. Sound(i)
    BY <1>2, <2>1, <2>2 DEF Sound, Doomed
  <2>4. /\ LenRight(T.len[s], i) /\ T.len[s] \in Nat
        /\ \A k \in Places : T.cell[s][k] = Val(old, k) \/ Owed(i, k) \/ Stale(i, k)
    BY <1>6, <2>3 DEF Right, Tables, old
  <2>5. LenRight(T.len[s], i)'
    <3>1. CASE T.len[s] = Len(old) /\ Len(new) = Len(old)
      BY <1>2, <3>1 DEF LenRight
    <3>2. CASE T.len[s] # Len(old)
      <4>1. PICK u \in Threads :
              Pending(u, i) /\ Grows(calls[u], T.len[s], Len(old)) = Len(old)
        BY <2>4, <3>2 DEF LenRight, old
      <4>2. u # t /\ Pending(u, i)' /\ calls'[u] = calls[u] /\ calls[u].kind \in Writes
        BY <1>2, <1>4, <2>1, <2>2, <4>1
      <4>3. \A size : Grows(calls[u], T.len[s], size)
                        = IF calls[u].sent < calls[u].ret THEN Larger(T.len[s], calls[u].end)
                          ELSE T.len[s]
        BY <4>2 DEF Grows, Writes
      <4>4. calls[u].end \in Nat /\ T.len[s] <= Len(old)
        <5>1. calls[u].end \in Nat
          BY <4>1, CallFacts DEF Pending
        <5> QED BY <2>4, <4>1, <4>3, <5>1 DEF Larger
      <4>5. CASE Len(new) = Len(old)
        BY <1>2, <4>1, <4>2, <4>3, <4>5 DEF LenRight, Grows
      <4>6. CASE Len(new) # Len(old)
        <5>1. Len(new) = pos + n /\ Len(new) > Len(old)
          BY <1>0, <1>1, <1>3, <4>6 DEF Larger
        <5>2. Grows(d, T.len[s], Len(new)) = Len(new)
          <6>1. Grows(d, T.len[s], Len(new)) = Larger(T.len[s], pos + n)
            BY <1>0, GrowsCases
          <6>2. T.len[s] <= pos + n
            BY <1>0, <1>1, <2>4, <4>4, <5>1
          <6> QED BY <1>1, <2>4, <5>1, <6>1, <6>2 DEF Larger
        <5> QED BY <1>2, <2>2, <5>2 DEF LenRight, Grows
      <4> QED BY <4>5, <4>6
    <3>3. CASE T.len[s] = Len(old) /\ Len(new) # Len(old)
      <4>1. Len(new) = pos + n /\ Len(new) > Len(old)
        BY <1>0, <1>1, <1>3, <3>3 DEF Larger
      <4>2. Grows(d, T.len[s], Len(new)) = Len(new)
        BY <1>0, <1>1, <2>4, <3>3, <4>1, GrowsCases DEF Larger
      <4> QED BY <1>2, <2>2, <4>2 DEF LenRight, Grows
    <3> QED BY <3>1, <3>2, <3>3
  <2>6. ASSUME NEW k \in Places
        PROVE  T.cell[s][k] = Val(data'[i], k) \/ Owed(i, k)' \/ Stale(i, k)'
    <3>1. CASE pos < k /\ k <= pos + n
      <4>1. k \in Unsent(d, Len(new))
        <5>1. d.end - d.ret + d.sent < k /\ k <= d.end
          BY <1>0, <1>1, <3>1 DEF Places
        <5> QED BY <5>1, UnsentCases
      <4> QED BY <1>2, <2>2, <4>1 DEF Owed, Unsent
    <3>2. CASE ~(pos < k /\ k <= pos + n)
      <4>1. Val(data'[i], k) = Val(old, k)
        BY <1>2, <1>3, <3>2
      <4>2. ASSUME Owed(i, k) PROVE Owed(i, k)'
        <5>1. PICK u \in Threads : Pending(u, i) /\ k \in Unsent(calls[u], Len(old))
          BY <4>2 DEF Owed, old
        <5>2. u # t /\ Pending(u, i)' /\ calls'[u] = calls[u] /\ calls[u].kind \in Writes
          BY <1>2, <1>4, <2>1, <2>2, <5>1
        <5>3. k \in Unsent(calls[u], Len(new))
          BY <5>1, <5>2, UnsentCases
        <5> QED BY <1>2, <5>2, <5>3 DEF Owed, Unsent
      <4>3. ASSUME Stale(i, k) PROVE Stale(i, k)'
        BY <1>0, <4>3, StaleKept
      <4> QED BY <2>4, <4>1, <4>2, <4>3
    <3> QED BY <3>1, <3>2
  <2> QED BY <2>5, <2>6
<1> QED BY <1>5, <1>6

(* A call that is not a write has its file to itself.                      *)
LEMMA AloneOnFile ==
  ASSUME CallsRight, NEW t \in Threads, ~Idle(t), calls[t].kind \notin Writes
  PROVE  \A u \in Threads : u # t /\ ~Idle(u) => calls[u].ino # calls[t].ino
BY DEF CallsRight, Apart, Together, Writes

(* What such a call does to the content is what it will report: cells that *)
(* it leaves unset read as zeros, and the others keep their values.        *)
LEMMA ExclusiveRight ==
  ASSUME Types, CallsRight, NEW t \in Threads, ~Idle(t), calls[t].at = "entered",
         calls[t].kind \in Allocs \cup {"truncate"}, NEW i, i = calls[t].ino, NEW new \in Seq(CellValues),
         data' = [data EXCEPT ![i] = new],
         NEW d, calls' = [calls EXCEPT ![t] = d], d # NoCall, d = [calls[t] EXCEPT !.at = "done"],
         UNCHANGED <<dir, dentry, mapped, ring>>,
         d.kind # "collapse" =>
           /\ \A k \in Unsent(d, Len(new)) : Val(new, k) = Zero
           /\ \A k \in Places : k \notin Unsent(d, Len(new)) =>
                /\ Val(new, k) = Val(data[i], k)
                /\ <<i, k>> \in dirty => <<i, k>> \in dirty'
           /\ Grows(d, Len(data[i]), Len(new)) = Len(new),
         d.kind = "truncate" => d.len = Len(new),
         d.kind = "zero" => d.off + d.len <= Len(new)
  PROVE  /\ SizesRight'
         /\ \A T \in Tables, s \in Names :
              Right(T, i, s) => Right(T, i, s)'
<1> DEFINE c == calls[t]
           old == data[i]
<1>0. /\ i \in Inodes /\ data \in [Inodes -> Seq(Cells)] /\ c \in Records
      /\ calls \in [Threads -> Records \cup {NoCall}] /\ ring \in Seq(Events)
  BY CallFacts DEF Types, DataTypes, CallTypes, RingTypes
<1>1. /\ d.kind = c.kind /\ d.ino = i /\ d.at = "done" /\ d.len = c.len /\ d.off = c.off
      /\ d.sent = c.sent
  BY <1>0 DEF Records
<1>2. /\ data'[i] = new /\ \A j \in Inodes : j # i => data'[j] = data[j]
      /\ calls'[t] = d /\ \A u \in Threads : u # t => calls'[u] = calls[u]
  BY <1>0
<1>3. c.kind \notin Writes /\ \A u \in Threads : u # t /\ ~Idle(u) => calls[u].ino # i
  <2>1. c.kind \notin Writes
    BY DEF Writes, Allocs
  <2> QED BY <2>1, AloneOnFile
<1>4. SizesRight'
  <2> SUFFICES ASSUME NEW u \in Threads, ~Idle(u)'
               PROVE  SizeRight(calls'[u], data'[calls'[u].ino])
    BY DEF SizesRight, SizeRight, Unsent, Val
  <2>1. CASE u = t
    <3>1. ASSUME NEW k \in Unsent(d, Len(new)) PROVE Val(new, k) = Zero
      <4>1. CASE d.kind = "collapse"
        BY <3>1, <4>1, UnsentCases
      <4>2. CASE d.kind # "collapse"
        BY <3>1, <4>2
      <4> QED BY <4>1, <4>2
    <3>2. SizeRight(c, old)
      BY DEF CallsRight, SizesRight
    <3>3. d.kind \in {"zero", "zero_keep", "punch"} => d.len >= 1
      BY <1>1, <3>2 DEF SizeRight
    <3>4. SizeRight(d, new)
      BY <1>1, <1>3, <3>1, <3>3 DEF SizeRight
    <3> QED BY <1>1, <1>2, <2>1, <3>4
  <2>2. CASE u # t
    <3>1. calls'[u] = calls[u] /\ ~Idle(u) /\ calls[u].ino \in Inodes
      BY <1>2, <2>2, CallFacts DEF Idle
    <3>2. SizeRight(calls[u], data[calls[u].ino]) /\ calls[u].ino # i
      BY <1>3, <2>2, <3>1 DEF CallsRight, SizesRight
    <3> QED BY <1>2, <3>1, <3>2
  <2> QED BY <2>1, <2>2
<1>5. ASSUME NEW T \in Tables, NEW s \in Names, Right(T, i, s) PROVE Right(T, i, s)'
  <2>1. Pending(t, i)' /\ \A u \in Threads : ~Pending(u, i)
    BY <1>1, <1>2, <1>3 DEF Pending, Idle
  <2> SUFFICES ASSUME Sound(i)'
               PROVE  /\ LenRight(T.len[s], i)'
                      /\ \A k \in Places : T.cell[s][k] = Val(data'[i], k) \/ Owed(i, k)' \/ Stale(i, k)'
    BY <1>5 DEF Right
  <2>2. d.kind # "collapse"
    BY <1>2, <2>1 DEF Sound, Doomed
  <2>3. /\ T.len[s] = Len(old)
        /\ \A k \in Places : T.cell[s][k] = Val(old, k) \/ Stale(i, k)
    BY <1>5, <2>1 DEF Right, Sound, LenRight, Owed
  <2>4. LenRight(T.len[s], i)'
    BY <1>2, <2>1, <2>2, <2>3 DEF LenRight, Grows
  <2>5. ASSUME NEW k \in Places
        PROVE  T.cell[s][k] = Val(data'[i], k) \/ Owed(i, k)' \/ Stale(i, k)'
    <3>1. CASE k \in Unsent(d, Len(new))
      BY <1>2, <2>1, <3>1 DEF Owed, Unsent
    <3>2. CASE k \notin Unsent(d, Len(new))
      <4>1. Val(new, k) = Val(old, k) /\ (<<i, k>> \in dirty => <<i, k>> \in dirty')
        BY <2>2, <3>2
      <4>2. ASSUME Stale(i, k) PROVE Stale(i, k)'
        BY <1>0, <4>1, <4>2, StaleKept
      <4> QED BY <1>2, <2>3, <4>1, <4>2
    <3> QED BY <3>1, <3>2
  <2> QED BY <2>4, <2>5
<1> QED BY <1>4, <1>5

-----------------------------------------------------------------------------
(* How a step keeps the parts of the invariant.                            *)

LEMMA AheadSame ==
  ASSUME Types, Ahead, UNCHANGED <<ring, lost, batch, batch_error, backup>>,
         daemon = "broken" => daemon' = "broken",
         \A T \in Tables : Follows(T) => Follows(T)'
  PROVE  Ahead'
<1> SUFFICES ASSUME ~lost', ~batch_error', ~Refusing'
             PROVE  /\ Replayed(backup', batch').ok
                    /\ \E F : Leads(Replayed(backup', batch').fs, ring', F) /\ Follows(F)'
  BY DEF Ahead
<1>0. ~Refusing
  BY DEF Refusing, WithExchange, Swap
<1>1. PICK F : Leads(Replayed(backup, batch).fs, ring, F) /\ Follows(F)
  BY <1>0 DEF Ahead
<1>2. F \in Tables
  BY <1>1, LeadsTyped DEF Types, RingTypes
<1> QED BY <1>0, <1>1, <1>2 DEF Ahead

LEMMA AheadAppended ==
  ASSUME Types, Ahead, NEW e, EventRight(e), ring' = Append(ring, e), lost => lost',
         UNCHANGED <<batch, batch_error, backup>>, daemon = "broken" => daemon' = "broken",
         \A T \in Tables : Follows(T) /\ ~lost' => Applies(T, e) /\ Follows(After(T, e))'
  PROVE  Ahead'
<1> SUFFICES ASSUME ~lost', ~batch_error', ~Refusing'
             PROVE  /\ Replayed(backup', batch').ok
                    /\ \E F : Leads(Replayed(backup', batch').fs, ring', F) /\ Follows(F)'
  BY DEF Ahead
<1>0. ~Refusing
  <2>1. ring \in Seq(Events)
    BY DEF Types, RingTypes
  <2>2. \A q \in 1..Len(ring) : q \in 1..Len(ring') /\ ring'[q] = ring[q]
    BY <2>1
  <2> QED BY <2>2 DEF Refusing, WithExchange, Swap
<1>1. PICK F : Leads(Replayed(backup, batch).fs, ring, F) /\ Follows(F)
  BY <1>0 DEF Ahead
<1>2. F \in Tables /\ ring \in Seq(Events)
  BY <1>1, LeadsTyped DEF Types, RingTypes
<1>3. Applies(F, e) /\ Follows(After(F, e))'
  BY <1>1, <1>2
<1>4. Leads(Replayed(backup, batch).fs, ring', After(F, e))
  BY <1>1, <1>2, <1>3, LeadsAppended
<1> QED BY <1>0, <1>3, <1>4 DEF Ahead

LEMMA AheadLost ==
  ASSUME lost' \/ batch_error' \/ Refusing'
  PROVE  Ahead'
BY DEF Ahead

LEMMA RingKept ==
  ASSUME Types, RingRight, mapped \subseteq mapped', NEW e,
         \/ ring' = ring
         \/ /\ ring' = Append(ring, e) /\ EventRight(e)
            /\ e.op = "writeback" => e.ino \in mapped'
  PROVE  RingRight'
<1>1. ring \in Seq(Events)
  BY DEF Types, RingTypes
<1>2. CASE ring' = ring
  BY <1>2 DEF RingRight
<1>3. CASE ring' = Append(ring, e) /\ EventRight(e) /\ (e.op = "writeback" => e.ino \in mapped')
  <2>1. /\ Len(ring) \in Nat /\ Len(ring') = Len(ring) + 1 /\ ring'[Len(ring) + 1] = e
        /\ \A q \in 1..Len(ring) : ring'[q] = ring[q]
    BY <1>1, <1>3
  <2> SUFFICES ASSUME NEW q \in 1..Len(ring')
               PROVE  EventRight(ring'[q]) /\ (ring'[q].op = "writeback" => ring'[q].ino \in mapped')
    BY DEF RingRight, EventRight
  <2>2. q \in 1..Len(ring) \/ q = Len(ring) + 1
    BY <2>1
  <2> QED BY <1>3, <2>1, <2>2 DEF RingRight
<1> QED BY <1>2, <1>3

LEMMA PagesKept ==
  ASSUME Types, NamesInv, RingRight, PagesRight, UNCHANGED files,
         \A j \in mapped : dentry'[j] = dentry[j] /\ (Live(j)' => Live(j)), NEW e,
         \/ ring' = ring
         \/ /\ ring' = Append(ring, e)
            /\ \A j \in mapped : Tells(e, j) => e.name = dentry[j]
            /\ OnNames(e) => \A j \in mapped : Live(j) => dentry[j] \notin {e.name, e.nname}
            /\ e.op = "writeback" => e.ino \in mapped
  PROVE  PagesRight'
<1>0. ring \in Seq(Events) /\ mmap_files = mapped
  BY DEF Types, RingTypes, MapTypes
<1> DEFINE new == ring' = Append(ring, e)
<1>1. ASSUME NEW j \in mapped, NEW k \in 0..Len(ring), Known(j, k)
      PROVE  Known(j, k)' /\ k \in 0..Len(ring')
  <2>1. CASE ring' = ring
    BY <1>1, <2>1 DEF Known
  <2>2. CASE ring' # ring
    BY <1>1, <2>2, KnownAppended
  <2> QED BY <2>1, <2>2
<1> SUFFICES ASSUME NEW p \in 1..Len(ring'), ring'[p].op = "writeback", NEW j, j = ring'[p].ino
             PROVE  /\ \E k \in 0..Len(ring') : k < p /\ Known(j, k)'
                    /\ Live(j)' => \A q \in p..Len(ring') : OnNames(ring'[q]) =>
                         dentry'[j] \notin {ring'[q].name, ring'[q].nname}
  BY DEF PagesRight, Known, Tells, Naming, OnNames, Live
<1>2. CASE p \in 1..Len(ring) /\ ring'[p] = ring[p]
  <2>1. j \in mapped /\ ring[p].op = "writeback" /\ j = ring[p].ino
    BY <1>2 DEF RingRight
  <2>2. PICK k \in 0..Len(ring) : k < p /\ Known(j, k)
    BY <1>2, <2>1 DEF PagesRight
  <2>3. Known(j, k)' /\ k \in 0..Len(ring')
    BY <1>1, <2>1, <2>2
  <2>4. ASSUME Live(j)', NEW q \in p..Len(ring'), OnNames(ring'[q])
        PROVE  dentry'[j] \notin {ring'[q].name, ring'[q].nname}
    <3>1. Live(j) /\ dentry'[j] = dentry[j]
      BY <2>1, <2>4
    <3>2. \A m \in p..Len(ring) : OnNames(ring[m]) => dentry[j] \notin {ring[m].name, ring[m].nname}
      BY <1>2, <2>1, <3>1 DEF PagesRight
    <3>3. CASE ring' = ring
      BY <2>4, <3>1, <3>2, <3>3
    <3>4. CASE ring' # ring
      <4>1. /\ new /\ Len(ring) \in Nat /\ Len(ring') = Len(ring) + 1 /\ ring'[Len(ring) + 1] = e
            /\ \A m \in 1..Len(ring) : ring'[m] = ring[m]
        BY <1>0, <3>4
      <4>2. CASE q = Len(ring) + 1
        BY <2>1, <2>4, <3>1, <3>4, <4>1, <4>2
      <4>3. CASE q # Len(ring) + 1
        <5>1. q \in p..Len(ring) /\ ring'[q] = ring[q]
          BY <4>1, <4>3
        <5> QED BY <2>4, <3>1, <3>2, <5>1
      <4> QED BY <4>2, <4>3
    <3> QED BY <3>3, <3>4
  <2> QED BY <2>2, <2>3, <2>4
<1>3. CASE ~(p \in 1..Len(ring) /\ ring'[p] = ring[p])
  <2>1. new /\ Len(ring) \in Nat /\ Len(ring') = Len(ring) + 1 /\ p = Len(ring) + 1 /\ ring'[p] = e
    BY <1>0, <1>3
  <2>2. j \in mapped /\ ring' # ring
    <3>1. ring' # ring
      BY <2>1
    <3> QED BY <2>1, <3>1
  <2>3. PICK k \in 0..Len(ring) : Known(j, k)
    BY <1>0, <2>2 DEF NamesInv, MappedKnown
  <2>4. Known(j, k)' /\ k \in 0..Len(ring') /\ k < p
    BY <1>1, <2>1, <2>2, <2>3
  <2>5. ASSUME NEW q \in p..Len(ring') PROVE ~OnNames(ring'[q])
    <3>1. q = p
      BY <2>1
    <3> QED BY <3>1 DEF OnNames
  <2> QED BY <2>4, <2>5
<1> QED BY <1>2, <1>3

LEMMA ApartKept ==
  ASSUME Apart,
         \A u \in Threads : ~Idle(u)' =>
           /\ ~Idle(u) /\ calls'[u].kind = calls[u].kind /\ calls'[u].ino = calls[u].ino
           /\ calls[u].kind \in Writes => calls'[u].off = calls[u].off /\ calls'[u].len = calls[u].len
  PROVE  Apart'
<1> SUFFICES ASSUME NEW t \in Threads, NEW u \in Threads, t # u, ~Idle(t)', ~Idle(u)'
             PROVE  /\ calls'[t].ino = calls'[u].ino => Together(calls'[t], calls'[u])
                    /\ ~(calls'[t].kind \in NameKinds /\ calls'[u].kind \in NameKinds)
  BY DEF Apart, Together, CellsOf
<1>1. ~Idle(t) /\ ~Idle(u)
  OBVIOUS
<1>2. /\ calls[t].ino = calls[u].ino => Together(calls[t], calls[u])
      /\ ~(calls[t].kind \in NameKinds /\ calls[u].kind \in NameKinds)
  BY <1>1 DEF Apart
<1>3. ASSUME Together(calls[t], calls[u]) PROVE Together(calls'[t], calls'[u])
  <2>1. CASE calls[t].kind = "append" /\ calls[u].kind = "append"
    BY <2>1 DEF Together
  <2>2. CASE {calls[t].kind, calls[u].kind} \subseteq {"write", "writev"}
    <3>1. CellsOf(calls'[t]) = CellsOf(calls[t]) /\ CellsOf(calls'[u]) = CellsOf(calls[u])
      BY <2>2 DEF CellsOf, Writes
    <3> QED BY <1>3, <2>2, <3>1 DEF Together
  <2> QED BY <1>3, <2>1, <2>2 DEF Together
<1> QED BY <1>2, <1>3

LEMMA NamesGoneKept ==
  ASSUME NamesGone, UNCHANGED dir,
         \A u \in Threads : ~Idle(u)' /\ calls'[u].kind \in NameKinds =>
           /\ ~Idle(u) /\ calls'[u] = calls[u]
           /\ \A j \in {calls[u].ino, dir[calls[u].name]} : j \in mapped' => j \in mapped
  PROVE  NamesGone'
<1> SUFFICES ASSUME NEW u \in Threads, ~Idle(u)', calls'[u].kind \in NameKinds
             PROVE  NameRight(calls[u])'
  BY DEF NamesGone, NameRight
<1>1. ~Idle(u) /\ NameRight(calls[u])
  BY DEF NamesGone
<1> QED BY <1>1 DEF NameRight

LEMMA SizesKept ==
  ASSUME Types, SizesRight,
         \A u \in Threads : ~Idle(u)' =>
           ~Idle(u) /\ calls'[u] = calls[u] /\ data'[calls[u].ino] = data[calls[u].ino]
  PROVE  SizesRight'
<1> SUFFICES ASSUME NEW u \in Threads, ~Idle(u)'
             PROVE  SizeRight(calls'[u], data'[calls'[u].ino])
  BY DEF SizesRight, SizeRight, Unsent, Val
<1> QED BY DEF SizesRight

(* While a call is under way no harvest is one that nothing happens after. *)
LEMMA BusyKept ==
  ASSUME ContentInv, NEW t \in Threads, ~Idle(t), UNCHANGED <<app, mapped>>
  PROVE  Clean' /\ Served'
<1>1. asked' = asked /\ delivered' = delivered /\ setup' = setup /\ mapped' = mapped
  BY DEF app
<1>2. ~asked /\ ~delivered
  BY DEF ContentInv, Clean, Served, AllIdle
<1> QED BY <1>1, <1>2 DEF ContentInv, Clean, Served, Mmap

(* A step of a call on content inside the kernel.                          *)
LEMMA KernelStep ==
  ASSUME Types, NamesInv, ContentInv, NEW t \in Threads, ~Idle(t), calls[t].kind \in DataKinds,
         Work, NEW i, i = calls[t].ino, NEW d, calls' = [calls EXCEPT ![t] = d],
         \/ d = NoCall
         \/ /\ d.kind = calls[t].kind /\ d.ino = calls[t].ino
            /\ d.off = calls[t].off /\ d.len = calls[t].len,
         \A j \in Inodes : j # i =>
           data'[j] = data[j] /\ \A k : <<j, k>> \in dirty => <<j, k>> \in dirty',
         SizesRight',
         \A T \in Tables, s \in Names : Right(T, i, s) => Right(T, i, s)'
  PROVE  ContentInv'
<1>1. /\ UNCHANGED <<app, dir, dentry, mapped, mmap_files, ring, lost, files, batch, batch_error,
                   backup, daemon>>
      /\ calls \in [Threads -> Records \cup {NoCall}] /\ i \in Inodes
      /\ dentry \in [Inodes -> Names]
  BY CallFacts DEF Work, user, sink, Types, CallTypes, NameTypes
<1>2. calls'[t] = d /\ \A u \in Threads : u # t => calls'[u] = calls[u] /\ (Idle(u)' <=> Idle(u))
  BY <1>1 DEF Idle
<1>3. calls[t].kind \notin NameKinds
  BY DEF DataKinds, NameKinds, Renames, Writes, Allocs
<1>4. /\ SizesRight /\ NamesGone /\ Apart /\ CallsRight /\ RingRight /\ PagesRight
      /\ Ahead /\ Batched
  BY DEF ContentInv, CallsRight
<1>5. ~Idle(t)' => d.kind = calls[t].kind /\ d.ino = i /\ d.off = calls[t].off /\ d.len = calls[t].len
  BY <1>2 DEF Idle
<1>6. NamesGone'
  <2>1. \A u \in Threads : ~Idle(u)' /\ calls'[u].kind \in NameKinds =>
          ~Idle(u) /\ calls'[u] = calls[u] /\ mapped' = mapped
    BY <1>1, <1>2, <1>3, <1>5
  <2> QED BY <1>1, <1>4, <2>1, NamesGoneKept
<1>7. Apart'
  <2>1. \A u \in Threads : ~Idle(u)' =>
          /\ ~Idle(u) /\ calls'[u].kind = calls[u].kind /\ calls'[u].ino = calls[u].ino
          /\ calls[u].kind \in Writes => calls'[u].off = calls[u].off /\ calls'[u].len = calls[u].len
    BY <1>2, <1>5
  <2> QED BY <1>4, <2>1, ApartKept
<1>8. RingRight'
  BY <1>1, <1>4, RingKept
<1>9. PagesRight'
  <2>1. \A j \in mapped : dentry'[j] = dentry[j] /\ (Live(j)' => Live(j))
    BY <1>1 DEF Live
  <2> QED BY <1>1, <1>4, <2>1, PagesKept
<1>10. ASSUME NEW T \in Tables, Follows(T) PROVE Follows(T)'
  <2>1. Right(T, i, dentry[i]) => Right(T, i, dentry[i])'
    <3>1. PICK s \in Names : s = dentry[i] /\ s = dentry'[i]
      BY <1>1
    <3>2. Right(T, i, s) => Right(T, i, s)'
      OBVIOUS
    <3> QED BY <3>1, <3>2 DEF Right
  <2>3. \A u \in Threads : u # t => calls'[u] = calls[u]
    BY <1>2
  <2>4. ~Idle(t)' => calls'[t].ino = i /\ calls'[t].kind = calls[t].kind
    BY <1>2, <1>5
  <2>5. T = T /\ ring' = ring
    BY <1>1
  <2>6. UNCHANGED <<dir, dentry, mapped>>
    BY <1>1
  <2> QED BY <1>4, <1>10, <2>1, <2>3, <2>4, <2>5, <2>6, FollowsContent
<1>11. Ahead'
  BY <1>1, <1>4, <1>10, AheadSame
<1>12. Batched' /\ Clean' /\ Served'
  BY <1>1, <1>4, BusyKept DEF Batched
<1> QED BY <1>6, <1>7, <1>8, <1>9, <1>11, <1>12 DEF ContentInv, CallsRight

(* A call that fails before it has done anything.                          *)
LEMMA FailedRight ==
  ASSUME Types, SizesRight, NEW t \in Threads, ~Idle(t), calls[t].at = "entered", Leave(t),
         UNCHANGED <<data, dirty, dentry, mapped, ring>>
  PROVE  /\ SizesRight'
         /\ \A i, T, s : Right(T, i, s) => Right(T, i, s)'
<1>1. /\ calls' = [calls EXCEPT ![t] = NoCall] /\ calls \in [Threads -> Records \cup {NoCall}]
      /\ ring \in Seq(Events)
  BY DEF Leave, Types, CallTypes, RingTypes
<1>2. /\ Idle(t)'
      /\ \A u \in Threads : u # t => calls'[u] = calls[u] /\ (Idle(u)' <=> Idle(u))
  BY <1>1 DEF Idle
<1>3. SizesRight'
  <2>1. \A u \in Threads : ~Idle(u)' =>
          ~Idle(u) /\ calls'[u] = calls[u] /\ data'[calls[u].ino] = data[calls[u].ino]
    BY <1>2
  <2> QED BY <2>1, SizesKept
<1>4. ASSUME NEW i, NEW T, NEW s, Right(T, i, s) PROVE Right(T, i, s)'
  <2>1. \A u \in Threads : Pending(u, i) => Pending(u, i)' /\ calls'[u] = calls[u]
    BY <1>2 DEF Pending
  <2>2. \A k \in Places : Stale(i, k) => Stale(i, k)'
    BY DEF Stale, Covers, OnContent, Fills
  <2> QED BY <1>4, <2>1, <2>2, RightSame
<1> QED BY <1>3, <1>4

LEMMA WriteContent ==
  ASSUME Types, NamesInv, ContentInv, NEW t \in Threads, vfs_write(t)
  PROVE  ContentInv'
<1> DEFINE c == calls[t]
           pos == IF c.kind = "append" THEN Len(data[c.ino]) ELSE c.off
<1>1. PICK i : i = c.ino
  OBVIOUS
<1>2. ~Idle(t) /\ c.at = "entered" /\ c.kind \in Writes /\ Work
  BY DEF vfs_write
<1>3. PICK n \in 0..c.len :
        IF n = 0 THEN Leave(t) /\ UNCHANGED <<data, dirty>>
        ELSE /\ data' = [data EXCEPT ![c.ino] = Overwrite(@, pos, Repeat(c.id, n))]
             /\ dirty' = Touch(c.ino, (pos + 1)..(pos + n))
             /\ calls' = [calls EXCEPT ![t].at = "done", ![t].end = pos + n, ![t].ret = n]
  BY DEF vfs_write
<1>4. UNCHANGED <<dir, dentry, mapped, ring>> /\ SizesRight /\ CallsRight /\ c.kind \in DataKinds
  BY <1>2 DEF Work, ContentInv, CallsRight, DataKinds
<1>5. CASE n = 0
  <2>1. Leave(t) /\ UNCHANGED <<data, dirty>>
    BY <1>3, <1>5
  <2>2. SizesRight' /\ \A T \in Tables, s \in Names : Right(T, i, s) => Right(T, i, s)'
    BY <1>2, <1>4, <2>1, FailedRight
  <2>3. \A j \in Inodes : data'[j] = data[j] /\ \A k : <<j, k>> \in dirty => <<j, k>> \in dirty'
    BY <2>1
  <2>4. calls' = [calls EXCEPT ![t] = NoCall]
    BY <2>1 DEF Leave
  <2> QED BY <1>1, <1>2, <1>4, <2>2, <2>3, <2>4, KernelStep
<1>6. CASE n # 0
  <2> DEFINE d == [c EXCEPT !.at = "done", !.end = pos + n, !.ret = n]
  <2>0. c \in Records /\ c.off \in Nat /\ c.len \in Nat /\ i \in Inodes
    BY <1>1, <1>2, CallFacts
  <2>1. n \in Nat /\ pos + n \in Nat /\ NoCall # d
    <3>1. pos \in Nat /\ n \in Nat
      BY <1>1, <2>0, DataCells
    <3> HIDE DEF c, pos
    <3>2. pos + n \in Nat
      BY <3>1
    <3>3. d \in Records
      BY ONLY <2>0, <3>1, <3>2 DEF Records
    <3> HIDE DEF d
    <3> QED BY <3>1, <3>2, <3>3, FileAssumption
  <2>2. /\ d.kind = c.kind /\ d.ino = i /\ d.at = "done" /\ d.end = pos + n /\ d.ret = n
        /\ d.sent = c.sent /\ d.id = c.id /\ d.off = c.off /\ d.len = c.len
    BY <1>1, <2>0 DEF Records
  <2>3. /\ data' = [data EXCEPT ![i] = Overwrite(data[i], pos, Repeat(c.id, n))]
        /\ calls' = [calls EXCEPT ![t] = d] /\ dirty \subseteq dirty'
        /\ dirty' = Touch(i, (pos + 1)..(pos + n))
    BY <1>1, <1>3, <1>6 DEF Touch
  <2>4. n \in Nat /\ 1 <= n /\ n <= c.len
    BY <1>6, <2>0, <2>1
  <2> HIDE DEF d, pos
  <2>5. SizesRight' /\ \A T \in Tables, s \in Names : Right(T, i, s) => Right(T, i, s)'
    BY <1>1, <1>2, <1>4, <2>1, <2>2, <2>3, <2>4, WriteRight DEF pos
  <2>6. \A j \in Inodes : j # i =>
          data'[j] = data[j] /\ \A k : <<j, k>> \in dirty => <<j, k>> \in dirty'
    BY <2>3 DEF Types, DataTypes
  <2> QED BY <1>1, <1>2, <1>4, <2>2, <2>3, <2>5, <2>6, KernelStep
<1> QED BY <1>5, <1>6

(* A call that is not a write has done its work.                           *)
LEMMA ExclusiveStep ==
  ASSUME Types, NamesInv, ContentInv, NEW t \in Threads, ~Idle(t), calls[t].at = "entered",
         calls[t].kind \in Allocs \cup {"truncate"}, Work, NEW new \in Seq(CellValues),
         data' = [data EXCEPT ![calls[t].ino] = new],
         calls' = [calls EXCEPT ![t].at = "done"],
         \A j \in Inodes : j # calls[t].ino => \A k : <<j, k>> \in dirty => <<j, k>> \in dirty',
         calls[t].kind # "collapse" =>
           /\ \A k \in Unsent(calls[t], Len(new)) : Val(new, k) = Zero
           /\ \A k \in Places : k \notin Unsent(calls[t], Len(new)) =>
                /\ Val(new, k) = Val(data[calls[t].ino], k)
                /\ <<calls[t].ino, k>> \in dirty => <<calls[t].ino, k>> \in dirty'
           /\ Grows(calls[t], Len(data[calls[t].ino]), Len(new)) = Len(new),
         calls[t].kind = "truncate" => calls[t].len = Len(new),
         calls[t].kind = "zero" => calls[t].off + calls[t].len <= Len(new)
  PROVE  ContentInv'
<1> DEFINE c == calls[t]
           d == [c EXCEPT !.at = "done"]
<1>1. PICK i : i = c.ino
  OBVIOUS
<1>2. c \in Records /\ i \in Inodes
  BY <1>1, CallFacts
<1>3. d \in Records /\ d # NoCall
  <2>1. d \in Records
    BY <1>2 DEF Records
  <2> HIDE DEF d
  <2> QED BY <2>1, FileAssumption
<1>4. d.kind = c.kind /\ d.ino = i /\ d.off = c.off /\ d.len = c.len
  BY <1>1, <1>2 DEF Records
<1>5. \A size : Unsent(d, size) = Unsent(c, size)
  BY <1>4 DEF Unsent, Allocs, Writes
<1>6. \A m, size : Grows(d, m, size) = Grows(c, m, size)
  BY <1>4 DEF Grows, Allocs, Writes
<1>7. /\ UNCHANGED <<dir, dentry, mapped, ring>> /\ CallsRight /\ c.kind \in DataKinds
      /\ calls' = [calls EXCEPT ![t] = d]
  BY DEF Work, ContentInv, DataKinds
<1>8. /\ data' = [data EXCEPT ![i] = new]
      /\ \A j \in Inodes : j # i => \A k : <<j, k>> \in dirty => <<j, k>> \in dirty'
  BY <1>1
<1>9. /\ d.kind # "collapse" =>
           /\ \A k \in Unsent(d, Len(new)) : Val(new, k) = Zero
           /\ \A k \in Places : k \notin Unsent(d, Len(new)) =>
                /\ Val(new, k) = Val(data[i], k)
                /\ <<i, k>> \in dirty => <<i, k>> \in dirty'
           /\ Grows(d, Len(data[i]), Len(new)) = Len(new)
      /\ d.kind = "truncate" => d.len = Len(new)
      /\ d.kind = "zero" => d.off + d.len <= Len(new)
  BY <1>1, <1>4, <1>5, <1>6
<1>10. d = [c EXCEPT !.at = "done"]
  OBVIOUS
<1> HIDE DEF d
<1>11. SizesRight' /\ \A T \in Tables, s \in Names : Right(T, i, s) => Right(T, i, s)'
  <2>1. /\ ~Idle(t) /\ c.at = "entered" /\ c.kind \in Allocs \cup {"truncate"} /\ Types
        /\ new \in Seq(CellValues)
    OBVIOUS
  <2> QED BY ONLY <1>1, <1>3, <1>7, <1>8, <1>9, <1>10, <2>1, ExclusiveRight
<1>12. \A j \in Inodes : j # i => data'[j] = data[j] /\ \A k : <<j, k>> \in dirty => <<j, k>> \in dirty'
  BY <1>8 DEF Types, DataTypes
<1>13. ~Idle(t) /\ Types /\ NamesInv /\ ContentInv /\ Work
  OBVIOUS
<1> QED BY ONLY <1>1, <1>4, <1>7, <1>11, <1>12, <1>13, KernelStep

(* A call that fails in the kernel.                                        *)
LEMMA FailedStep ==
  ASSUME Types, NamesInv, ContentInv, NEW t \in Threads, ~Idle(t), calls[t].at = "entered",
         calls[t].kind \in DataKinds, Work, Leave(t), UNCHANGED <<data, dirty>>
  PROVE  ContentInv'
<1>1. PICK i : i = calls[t].ino
  OBVIOUS
<1>2. UNCHANGED <<dir, dentry, mapped, ring>> /\ SizesRight
  BY DEF Work, ContentInv, CallsRight
<1>3. SizesRight' /\ \A T \in Tables, s \in Names : Right(T, i, s) => Right(T, i, s)'
  BY <1>2, FailedRight
<1>4. \A j \in Inodes : data'[j] = data[j] /\ \A k : <<j, k>> \in dirty => <<j, k>> \in dirty'
  OBVIOUS
<1>5. calls' = [calls EXCEPT ![t] = NoCall]
  BY DEF Leave
<1> QED BY <1>1, <1>3, <1>4, <1>5, KernelStep

LEMMA TruncateContent ==
  ASSUME Types, NamesInv, ContentInv, NEW t \in Threads, do_truncate(t)
  PROVE  ContentInv'
<1> DEFINE c == calls[t]
           i == c.ino
           old == data[i]
           new == Resize(old, c.len)
<1>1. /\ ~Idle(t) /\ c.at = "entered" /\ c.kind = "truncate" /\ Work
      /\ c.kind \in Allocs \cup {"truncate"} /\ c.kind \in DataKinds
  BY DEF do_truncate, DataKinds
<1>2. CASE Leave(t) /\ UNCHANGED <<data, dirty>>
  BY <1>1, <1>2, FailedStep
<1>3. CASE /\ data' = [data EXCEPT ![c.ino] = Resize(@, c.len)]
           /\ dirty' = dirty \ Pages(c.ino, (c.len + 1)..setup.cells)
           /\ calls' = [calls EXCEPT ![t].at = "done"]
  <2>1. i \in Inodes /\ c.len \in Nat /\ old \in Seq(CellValues) /\ Zero \in CellValues
    BY <1>1, CallFacts, DataCells
  <2>2. new \in Seq(CellValues) /\ Len(new) = c.len
    BY <2>1, ResizeTyped
  <2>3. ASSUME NEW k \in Unsent(c, Len(new)) PROVE Val(new, k) = Zero
    BY <1>1, <2>1, <2>2, <2>3, UnsentCases DEF Val, Places
  <2>4. ASSUME NEW k \in Places, k \notin Unsent(c, Len(new))
        PROVE  /\ Val(new, k) = Val(old, k)
               /\ <<i, k>> \in dirty => <<i, k>> \in dirty'
    <3>1. k <= c.len /\ k \in Nat
      BY <1>1, <2>1, <2>2, <2>4, UnsentCases DEF Places
    <3>2. Val(new, k) = Val(old, k)
      BY <2>1, <3>1, ResizeCells
    <3>3. <<i, k>> \notin Pages(i, (c.len + 1)..setup.cells)
      BY <2>1, <3>1 DEF Pages
    <3> QED BY <1>3, <3>2, <3>3
  <2>5. Grows(c, Len(old), Len(new)) = Len(new)
    BY <1>1, GrowsCases
  <2>6. data' = [data EXCEPT ![c.ino] = new]
    BY <1>3
  <2>7. \A j \in Inodes : j # i => \A k : <<j, k>> \in dirty => <<j, k>> \in dirty'
    BY <1>3 DEF Pages
  <2> HIDE DEF new
  <2> QED BY <1>1, <1>3, <2>2, <2>3, <2>4, <2>5, <2>6, <2>7, ExclusiveStep
<1> QED BY <1>2, <1>3 DEF do_truncate

LEMMA AllocateContent ==
  ASSUME Types, NamesInv, ContentInv, NEW t \in Threads, vfs_fallocate(t)
  PROVE  ContentInv'
<1> DEFINE c == calls[t]
           i == c.ino
           old == data[i]
           new == Allocated(c, old)
<1>1. /\ ~Idle(t) /\ c.at = "entered" /\ c.kind \in Allocs /\ Work
      /\ c.kind \in Allocs \cup {"truncate"} /\ c.kind \in DataKinds
  BY DEF vfs_fallocate, DataKinds
<1>2. CASE Leave(t) /\ UNCHANGED <<data, dirty>>
  BY <1>1, <1>2, FailedStep
<1>3. CASE /\ c.kind = "collapse" => c.off + c.len < Len(data[c.ino])
           /\ data' = [data EXCEPT ![c.ino] = Allocated(c, @)]
           /\ dirty' = IF c.kind = "alloc" THEN dirty ELSE dirty \ Pages(c.ino, CellsOf(c))
           /\ calls' = [calls EXCEPT ![t].at = "done"]
  <2>1. /\ c \in Records /\ i \in Inodes /\ c.off \in Nat /\ c.len \in Nat /\ c.off + c.len \in Nat
        /\ old \in Seq(CellValues) /\ Zero \in CellValues /\ Len(old) \in Nat
    BY <1>1, CallFacts, DataCells
  <2>2. new \in Seq(CellValues)
    <3>1. PICK room \in Nat : Len(old) <= room /\ c.off + c.len <= room
      <4>1. Larger(Len(old), c.off + c.len) \in Nat
            /\ Len(old) <= Larger(Len(old), c.off + c.len)
            /\ c.off + c.len <= Larger(Len(old), c.off + c.len)
        BY <2>1 DEF Larger
      <4> QED BY <4>1
    <3> HIDE DEF c, i, old
    <3> QED BY <1>1, <1>3, <2>1, <3>1, AllocatedTyped DEF i, old
  <2>3. data' = [data EXCEPT ![c.ino] = new]
    BY <1>3
  <2>4. \A j \in Inodes : j # i => \A k : <<j, k>> \in dirty => <<j, k>> \in dirty'
    BY <1>3 DEF Pages
  <2>5. ASSUME NEW k, k \notin CellsOf(c) \/ c.kind = "alloc", <<i, k>> \in dirty
        PROVE  <<i, k>> \in dirty'
    BY <1>3, <2>5 DEF Pages
  <2>6. \A k \in Places : k \in CellsOf(c) <=> c.off < k /\ k <= c.off + c.len
    BY <2>1 DEF CellsOf, Places
  <2>7. CASE c.kind = "alloc"
    <3>1. new = Resize(old, Larger(Len(old), c.off + c.len))
      BY <2>7 DEF Allocated
    <3>2. Larger(Len(old), c.off + c.len) \in Nat
      BY <2>1 DEF Larger
    <3>3. Len(new) = Larger(Len(old), c.off + c.len)
      BY <2>1, <3>1, <3>2, ResizeTyped
    <3>4. ASSUME NEW k \in Unsent(c, Len(new)) PROVE Val(new, k) = Zero
      <4>1. k \in Nat /\ k > Len(new)
        BY <2>7, <3>4, UnsentCases DEF Places
      <4> QED BY <3>2, <3>3, <4>1 DEF Val
    <3>5. ASSUME NEW k \in Places, k \notin Unsent(c, Len(new))
          PROVE  Val(new, k) = Val(old, k) /\ (<<i, k>> \in dirty => <<i, k>> \in dirty')
      <4>1. k <= Len(new)
        BY <2>7, <3>2, <3>3, <3>5, UnsentCases DEF Places
      <4>2. Val(new, k) = Val(old, k)
        BY <2>1, <3>1, <3>2, <3>3, <4>1, ResizeCells
      <4> QED BY <2>5, <2>7, <4>2
    <3>6. Grows(c, Len(old), Len(new)) = Len(new)
      BY <2>7, GrowsCases
    <3> HIDE DEF new
    <3> QED BY <1>1, <1>3, <2>2, <2>3, <2>4, <2>7, <3>4, <3>5, <3>6, ExclusiveStep
  <2>8. CASE c.kind \in {"zero", "zero_keep", "punch"}
    <3>1. PICK keep \in BOOLEAN : keep <=> c.kind # "zero"
      OBVIOUS
    <3>2. new = ZeroRange(old, c.off, c.len, keep)
      BY <2>8, <3>1 DEF Allocated
    <3>3. /\ Len(new) = IF keep THEN Len(old) ELSE Larger(Len(old), c.off + c.len)
          /\ \A k \in Places : Val(new, k) = IF c.off < k /\ k <= c.off + c.len THEN Zero ELSE Val(old, k)
      <4> HIDE DEF c, i, old, new
      <4>0. keep \in BOOLEAN
        BY <3>1
      <4>1. old \in Seq(CellValues) /\ Zero \in CellValues /\ c.off \in Nat /\ c.len \in Nat
        BY <2>1
      <4>2. /\ ZeroRange(old, c.off, c.len, keep) \in Seq(CellValues)
            /\ Len(ZeroRange(old, c.off, c.len, keep))
                 = IF keep THEN Len(old) ELSE Larger(Len(old), c.off + c.len)
            /\ \A k \in Places : Val(ZeroRange(old, c.off, c.len, keep), k)
                                   = IF c.off < k /\ k <= c.off + c.len THEN Zero ELSE Val(old, k)
        BY ONLY <4>1, <4>0, ZeroRangeCells
      <4> QED BY <3>2, <4>2
    <3>4. ASSUME NEW k \in Unsent(c, Len(new)) PROVE Val(new, k) = Zero
      <4>1. k \in Places /\ c.off < k /\ k <= c.off + c.len
        BY <2>8, <3>4, UnsentCases
      <4> QED BY <3>3, <4>1
    <3>5. ASSUME NEW k \in Places, k \notin Unsent(c, Len(new))
          PROVE  Val(new, k) = Val(old, k) /\ (<<i, k>> \in dirty => <<i, k>> \in dirty')
      <4>1. ~(c.off < k /\ k <= c.off + c.len)
        BY <2>8, <3>5, UnsentCases
      <4>2. Val(new, k) = Val(old, k)
        BY <3>3, <4>1
      <4> QED BY <2>5, <2>6, <4>1, <4>2
    <3>6. Grows(c, Len(old), Len(new)) = Len(new)
      BY <2>8, <3>1, <3>3, GrowsCases
    <3>7. c.kind = "zero" => c.off + c.len <= Len(new)
      <4> HIDE DEF c, i, old, new
      <4>1. Larger(Len(old), c.off + c.len) >= c.off + c.len
        BY <2>1 DEF Larger
      <4> QED BY <3>1, <3>3, <4>1
    <3> HIDE DEF new
    <3> QED BY <1>1, <1>3, <2>2, <2>3, <2>4, <2>8, <3>4, <3>5, <3>6, <3>7, ExclusiveStep
  <2>9. CASE c.kind = "collapse"
    <3> HIDE DEF new
    <3> QED BY <1>1, <1>3, <2>2, <2>3, <2>4, <2>9, ExclusiveStep
  <2> QED BY <1>1, <2>7, <2>8, <2>9 DEF Allocs
<1> QED BY <1>2, <1>3 DEF vfs_fallocate

-----------------------------------------------------------------------------
(* The fexit hooks of a call on content: an event gives the copy what the  *)
(* call owes it.                                                           *)

LEMMA HookStep ==
  ASSUME Types, NamesInv, ContentInv, NEW t \in Threads, ~Idle(t), calls[t].kind \in DataKinds,
         Hook, NEW i, i = calls[t].ino, NEW d, calls' = [calls EXCEPT ![t] = d],
         \/ d = NoCall
         \/ /\ d.kind = calls[t].kind /\ d.ino = i
            /\ calls[t].kind \in Writes => d.off = calls[t].off /\ d.len = calls[t].len,
         SizesRight', lost => lost', NEW e,
         \/ ring' = ring
         \/ /\ ring' = Append(ring, e) /\ EventRight(e) /\ OnContent(e)
            /\ e.name = calls[t].name /\ e.ino = i,
         \/ lost'
         \/ ring' = ring /\ lost' = lost /\ \A T \in Tables, s \in Names : Right(T, i, s) => Right(T, i, s)'
         \/ /\ ring' = Append(ring, e)
            /\ \A T \in Tables, s \in Names :
                 s = dentry[i] /\ Right(T, i, s) => Right(After(T, e), i, s)'
  PROVE  ContentInv'
<1>1. /\ UNCHANGED <<app, data, dir, dentry, mapped, dirty, mmap_files, files, batch, batch_error,
                   backup, daemon>>
      /\ calls \in [Threads -> Records \cup {NoCall}] /\ i \in Inodes
      /\ dentry \in [Inodes -> Names]
  BY CallFacts DEF Hook, primary, user, sink, Types, CallTypes, NameTypes
<1>2. calls'[t] = d /\ \A u \in Threads : u # t => calls'[u] = calls[u] /\ (Idle(u)' <=> Idle(u))
  BY <1>1 DEF Idle
<1>3. calls[t].kind \notin NameKinds
  BY DEF DataKinds, NameKinds, Renames, Writes, Allocs
<1>4. /\ SizesRight /\ NamesGone /\ Apart /\ CallsRight /\ RingRight /\ PagesRight
      /\ Ahead /\ Batched
  BY DEF ContentInv, CallsRight
<1>5. ~Idle(t)' => /\ d.kind = calls[t].kind /\ d.ino = i
                   /\ calls[t].kind \in Writes => d.off = calls[t].off /\ d.len = calls[t].len
  BY <1>2 DEF Idle
<1>6. NamesGone'
  <2>1. \A u \in Threads : ~Idle(u)' /\ calls'[u].kind \in NameKinds =>
          ~Idle(u) /\ calls'[u] = calls[u] /\ mapped' = mapped
    BY <1>1, <1>2, <1>3, <1>5
  <2> QED BY <1>1, <1>4, <2>1, NamesGoneKept
<1>7. Apart'
  <2>1. \A u \in Threads : ~Idle(u)' =>
          /\ ~Idle(u) /\ calls'[u].kind = calls[u].kind /\ calls'[u].ino = calls[u].ino
          /\ calls[u].kind \in Writes => calls'[u].off = calls[u].off /\ calls'[u].len = calls[u].len
    BY <1>2, <1>5
  <2> QED BY <1>4, <2>1, ApartKept
<1>8. calls[t].name = dentry[i]
  BY DEF NamesInv, NotedRight
<1>9. OnContent(e) => ~OnNames(e) /\ e.op # "writeback"
  BY DEF OnContent, OnNames
<1>10. RingRight'
  BY <1>1, <1>4, <1>9, RingKept
<1>11. PagesRight'
  <2>1. \A j \in mapped : dentry'[j] = dentry[j] /\ (Live(j)' => Live(j))
    BY <1>1 DEF Live
  <2>2. ring' # ring => \A j \in mapped : Tells(e, j) => e.name = dentry[j]
    BY <1>8 DEF Tells
  <2>3. UNCHANGED files
    BY <1>1
  <2>4. CASE ring' = ring
    BY <1>4, <2>1, <2>3, <2>4, PagesKept
  <2>5. CASE ring' # ring
    BY <1>4, <1>9, <2>1, <2>2, <2>3, <2>5, PagesKept
  <2> QED BY <2>4, <2>5
<1>12. PICK s \in Names : s = dentry[i] /\ s = dentry'[i]
  BY <1>1
<1>13. /\ \A u \in Threads : u # t => calls'[u] = calls[u]
       /\ ~Idle(t)' => calls'[t].ino = i /\ calls'[t].kind = calls[t].kind
       /\ \A j \in Inodes : j # i => data'[j] = data[j] /\ \A k : <<j, k>> \in dirty => <<j, k>> \in dirty'
       /\ UNCHANGED <<dir, dentry, mapped>>
  BY <1>1, <1>2, <1>5
<1>14. CASE lost'
  <2>1. Ahead'
    BY <1>14, AheadLost
  <2> QED BY <1>1, <1>4, <1>6, <1>7, <1>10, <1>11, <2>1, BusyKept DEF ContentInv, CallsRight, Batched
<1>15. CASE ring' = ring /\ lost' = lost /\ \A T \in Tables, r \in Names : Right(T, i, r) => Right(T, i, r)'
  <2>1. ASSUME NEW T \in Tables, Follows(T) PROVE Follows(T)'
    <3>1. Right(T, i, s) => Right(T, i, s)'
      BY <1>15
    <3>2. Right(T, i, dentry[i]) => Right(T, i, dentry[i])'
      BY <1>12, <3>1 DEF Right
    <3>3. T = T /\ ring' = ring
      BY <1>15
    <3> QED BY <1>4, <1>13, <2>1, <3>2, <3>3, FollowsContent
  <2>2. Ahead'
    BY <1>1, <1>4, <1>15, <2>1, AheadSame
  <2> QED BY <1>1, <1>4, <1>6, <1>7, <1>10, <1>11, <2>2, BusyKept DEF ContentInv, CallsRight, Batched
<1>16. CASE /\ ring' = Append(ring, e) /\ ring' # ring
            /\ \A T \in Tables, r \in Names :
                 r = dentry[i] /\ Right(T, i, r) => Right(After(T, e), i, r)'
  <2>1. EventRight(e) /\ OnContent(e) /\ e.name = dentry[i]
    BY <1>8, <1>16
  <2>2. ASSUME NEW T \in Tables, Follows(T) PROVE Applies(T, e) /\ Follows(After(T, e))'
    <3>1. Right(T, i, s) => Right(After(T, e), i, s)'
      BY <1>12, <1>16
    <3>2. PICK U : U = After(T, e)
      OBVIOUS
    <3>3. Right(T, i, dentry[i]) => Right(U, i, dentry[i])'
      BY <1>12, <3>1, <3>2 DEF Right
    <3>4. U = After(T, e) /\ OnContent(e) /\ e.name = dentry[i] /\ ring' = Append(ring, e)
      BY <1>16, <2>1, <3>2
    <3>5. Follows(U)'
      BY <1>4, <1>13, <2>2, <3>3, <3>4, FollowsContent
    <3> QED BY <2>1, <3>2, <3>5 DEF Applies, OnContent
  <2>3. Ahead'
    BY <1>1, <1>4, <1>16, <2>1, <2>2, AheadAppended
  <2> QED BY <1>1, <1>4, <1>6, <1>7, <1>10, <1>11, <2>3, BusyKept DEF ContentInv, CallsRight, Batched
<1>17. ring' = Append(ring, e) => ring' # ring
  <2>1. ring \in Seq(Events)
    BY DEF Types, RingTypes
  <2> QED BY <2>1
<1> QED BY <1>14, <1>15, <1>16, <1>17

(* A chunk of a write, or a segment of a writev: the cells it brings are   *)
(* those the call owed.                                                    *)
LEMMA ChunkRight ==
  ASSUME Types, CallsRight, NEW t \in Threads, ~Idle(t), calls[t].at = "done",
         calls[t].kind \in Writes, NEW i, i = calls[t].ino, NEW n \in Nat, NEW e,
         EventRight(e), e.op = "write", e.name = dentry[i], Len(e.data) = n,
         e.off = calls[t].end - calls[t].ret + calls[t].sent,
         \A k \in 1..n : e.data[k] = calls[t].id,
         NEW d, calls' = [calls EXCEPT ![t] = d],
         \/ d = NoCall /\ calls[t].sent + n = calls[t].ret
         \/ /\ d # NoCall /\ d = [calls[t] EXCEPT !.sent = calls[t].sent + n]
            /\ calls[t].sent + n <= calls[t].ret \/ calls[t].kind = "writev",
         UNCHANGED <<data, dirty, dentry, mapped>>, ring' = Append(ring, e)
  PROVE  \A T \in Tables, s \in Names :
           s = dentry[i] /\ Right(T, i, s) => Right(After(T, e), i, s)'
<1> DEFINE c == calls[t]
           old == data[i]
           size == Len(old)
           a == c.end - c.ret + c.sent + n
<1>0. /\ i \in Inodes /\ c \in Records /\ c.end \in Nat /\ c.ret \in Nat /\ c.sent \in Nat /\ c.id \in Nat
      /\ old \in Seq(CellValues) /\ size \in Nat
      /\ calls \in [Threads -> Records \cup {NoCall}] /\ ring \in Seq(Events)
  BY CallFacts, DataCells DEF Types, CallTypes, RingTypes
<1>1. /\ 1 <= c.ret /\ c.ret <= c.end /\ c.end <= size
      /\ \A k \in Unsent(c, size) : Val(old, k) = c.id
  BY DEF CallsRight, SizesRight, SizeRight
<1>2. /\ calls'[t] = d
      /\ \A u \in Threads : u # t => calls'[u] = calls[u] /\ (Idle(u)' <=> Idle(u))
  BY <1>0 DEF Idle
<1>3. /\ \A u \in Threads : u # t => (Pending(u, i)' <=> Pending(u, i))
      /\ Pending(t, i)
      /\ Pending(t, i)' <=> d # NoCall
  <2>1. d # NoCall => d.ino = i /\ d.at = "done"
    BY <1>0 DEF Records
  <2> QED BY <1>2, <2>1 DEF Pending, Idle
<1>4. d # NoCall => /\ d.kind = c.kind /\ d.end = c.end /\ d.ret = c.ret /\ d.sent = c.sent + n
  BY <1>0 DEF Records
<1> SUFFICES ASSUME NEW T \in Tables, NEW s \in Names, s = dentry[i], Right(T, i, s), Sound(i)'
             PROVE  /\ LenRight(After(T, e).len[s], i)'
                    /\ \A k \in Places :
                         After(T, e).cell[s][k] = Val(data'[i], k) \/ Owed(i, k)' \/ Stale(i, k)'
  BY DEF Right
<1>5. c.sent + n <= c.ret
  <2>1. CASE d = NoCall
    BY <1>0, <2>1
  <2>2. CASE d # NoCall
    <3>1. ~Doomed(d)
      BY <1>2, <1>3, <2>2 DEF Sound
    <3> QED BY <1>0, <1>4, <2>2, <3>1 DEF Doomed
  <2> QED BY <2>1, <2>2
<1>6. a \in Nat /\ a <= c.end /\ a <= size /\ (a = c.end <=> c.sent + n = c.ret)
  <2> HIDE DEF c, size
  <2>1. /\ c.end \in Nat /\ c.ret \in Nat /\ c.sent \in Nat /\ size \in Nat
        /\ c.sent + n <= c.ret /\ c.ret <= c.end /\ c.end <= size
    BY <1>0, <1>1, <1>5
  <2> QED BY ONLY n \in Nat, <2>1
<1>7. d = NoCall => a = c.end
  BY <1>0, <1>6
<1>8. Sound(i)
  <2> SUFFICES ASSUME NEW u \in Threads, Pending(u, i) PROVE ~Doomed(calls[u])
    BY DEF Sound
  <2>1. CASE u = t
    BY <1>0, <1>5, <2>1 DEF Doomed, Writes
  <2>2. CASE u # t
    <3>1. Pending(u, i)' /\ calls'[u] = calls[u]
      BY <1>2, <1>3, <2>2
    <3>2. ~Doomed(calls'[u])
      BY <3>1 DEF Sound, Doomed
    <3> QED BY <3>1, <3>2
  <2> QED BY <2>1, <2>2
<1>9. /\ LenRight(T.len[s], i)
      /\ \A k \in Places : T.cell[s][k] = Val(old, k) \/ Owed(i, k) \/ Stale(i, k)
  BY <1>8 DEF Right
<1>10. /\ After(T, e).len[s] = Larger(T.len[s], a)
       /\ \A k \in Places : After(T, e).cell[s][k]
            = IF e.off < k /\ k <= a THEN e.data[k - e.off] ELSE T.cell[s][k]
  <2>1. OnContent(e) /\ s = e.name /\ e.off + Len(e.data) = a
    BY DEF OnContent
  <2>2. \A m : Grown(e, m) = Larger(m, a)
    BY <2>1 DEF Grown
  <2>3. \A k : /\ Fills(e, k) <=> e.off < k /\ k <= a
               /\ Filled(e, k) = e.data[k - e.off]
    BY <2>1 DEF Fills, Filled
  <2> HIDE DEF a
  <2> QED BY <2>1, <2>2, <2>3, EditedPoints
<1>11. T.len[s] \in Nat
  BY DEF Tables
<1> HIDE DEF size, a
<1>12. LenRight(After(T, e).len[s], i)'
  <2> DEFINE m == T.len[s]
             l == Larger(m, a)
  <2>1. CASE m = size
    <3>1. l = size
      BY <1>0, <1>6, <2>1 DEF Larger
    <3> QED BY <1>10, <3>1 DEF LenRight, size
  <2>2. CASE m # size
    <3>1. PICK u \in Threads : Pending(u, i) /\ Grows(calls[u], m, size) = size
      BY <1>9, <2>2 DEF LenRight, size
    <3>2. calls[u].kind \in Writes
      <4>1. CASE u = t
        BY <4>1
      <4>2. CASE u # t
        <5>1. Together(c, calls[u])
          BY <1>3, <3>1, <4>2 DEF CallsRight, Apart, Pending
        <5> QED BY <5>1 DEF Together, Writes
      <4> QED BY <4>1, <4>2
    <3>3. calls[u].sent < calls[u].ret /\ Larger(m, calls[u].end) = size
      BY <2>2, <3>1, <3>2, GrowsCases
    <3>4. calls[u].end = size
      BY <2>2, <3>3 DEF Larger
    <3>5. CASE l = size
      BY <1>10, <3>5 DEF LenRight, size
    <3>6. CASE l # size
      <4>1. Pending(u, i)' /\ calls'[u].kind = calls[u].kind /\ calls'[u].end = calls[u].end
        <5>1. CASE u = t
          <6>1. a # c.end
            <7>1. CASE a = c.end
              BY <1>0, <1>6, <1>11, <3>3, <3>4, <3>6, <5>1, <7>1 DEF Larger
            <7> QED BY <7>1
          <6> QED BY <1>2, <1>3, <1>4, <1>7, <5>1, <6>1
        <5>2. CASE u # t
          BY <1>2, <1>3, <3>1, <5>2
        <5> QED BY <5>1, <5>2
      <4>2. calls'[u].sent < calls'[u].ret
        <5>1. CASE u = t
          <6>1. a # c.end
            <7>1. CASE a = c.end
              BY <1>0, <1>6, <1>11, <3>3, <3>4, <3>6, <5>1, <7>1 DEF Larger
            <7> QED BY <7>1
          <6>2. c.sent + n < c.ret
            <7>1. c.sent + n # c.ret
              BY <1>6, <6>1
            <7>2. c.sent + n \in Nat /\ c.ret \in Nat
              BY <1>0
            <7> HIDE DEF c
            <7> QED BY <1>5, <7>1, <7>2
          <6> QED BY <1>2, <1>4, <1>7, <5>1, <6>1, <6>2
        <5>2. CASE u # t
          BY <1>2, <3>3, <5>2
        <5> QED BY <5>1, <5>2
      <4>3. Grows(calls'[u], l, size) = Larger(l, size)
        BY <3>2, <3>4, <4>1, <4>2, GrowsCases
      <4>4. Larger(l, size) = size
        BY <1>0, <1>6, <1>11, <3>3, <3>4 DEF Larger
      <4>5. (Grows(calls[u], After(T, e).len[s], Len(data[i])) = Len(data[i]))'
        BY <1>10, <4>3, <4>4 DEF size, Grows
      <4> QED BY <4>1, <4>5 DEF LenRight
    <3> QED BY <3>5, <3>6
  <2> QED BY <2>1, <2>2
<1>13. ASSUME NEW k \in Places
       PROVE  After(T, e).cell[s][k] = Val(data'[i], k) \/ Owed(i, k)' \/ Stale(i, k)'
  <2>0. k \in Nat /\ k >= 1
    BY DEF Places
  <2>1. CASE e.off < k /\ k <= a
    <3>1. k \in Unsent(c, size)
      BY <1>0, <1>6, <2>0, <2>1, UnsentCases
    <3>2. k - e.off \in 1..n
      <4>1. e.off \in Nat /\ a = e.off + n
        BY <1>0 DEF a, EventRight
      <4> QED BY <2>0, <2>1, <4>1
    <3> QED BY <1>1, <1>10, <2>1, <3>1, <3>2
  <2>2. CASE ~(e.off < k /\ k <= a)
    <3>1. After(T, e).cell[s][k] = T.cell[s][k]
      BY <1>10, <2>2
    <3>2. ASSUME Owed(i, k) PROVE Owed(i, k)'
      <4>1. PICK u \in Threads : Pending(u, i) /\ k \in Unsent(calls[u], size)
        BY <3>2 DEF Owed, size
      <4>2. CASE u # t
        <5>1. Pending(u, i)' /\ calls'[u] = calls[u]
          BY <1>2, <1>3, <4>1, <4>2
        <5>2. (k \in Unsent(calls[u], Len(data[i])))'
          BY <4>1, <5>1 DEF size, Unsent
        <5> QED BY <5>1, <5>2 DEF Owed
      <4>3. CASE u = t
        <5>1. e.off < k /\ k <= c.end
          BY <4>1, <4>3, UnsentCases
        <5>2. a < k /\ a # c.end
          BY <1>0, <1>6, <2>0, <2>2, <5>1
        <5>3. d # NoCall /\ Pending(t, i)'
          BY <1>3, <1>7, <5>2
        <5>4. k \in Unsent(d, size)
          <6>1. d.end - d.ret + d.sent = a
            BY <1>0, <1>4, <5>3 DEF a
          <6> QED BY <1>4, <5>1, <5>2, <5>3, <6>1, UnsentCases
        <5>5. (k \in Unsent(calls[t], Len(data[i])))'
          BY <1>2, <5>4 DEF size, Unsent
        <5> QED BY <5>3, <5>5 DEF Owed
      <4> QED BY <4>2, <4>3
    <3>3. ASSUME Stale(i, k) PROVE Stale(i, k)'
      <4>1. ~Covers(e, dentry[i], k)
        <5>1. ~Fills(e, k)
          BY <2>2 DEF Fills, a
        <5> QED BY <5>1 DEF Covers
      <4> QED BY <1>0, <3>3, <4>1, StaleKept
    <3> QED BY <1>9, <3>1, <3>2, <3>3
  <2> QED BY <2>1, <2>2
<1> QED BY <1>12, <1>13

(* The events of calls.                                                    *)
LEMMA ChunkEvent ==
  ASSUME NEW c \in Records, NEW off \in Nat, NEW n \in Nat, NEW cut \in BOOLEAN
  PROVE  LET e == Chunk(c, off, n, cut)
         IN /\ EventRight(e) /\ e.op = "write" /\ e.ino = c.ino /\ e.name = c.name /\ e.off = off
            /\ Len(e.data) = n /\ \A k \in 1..n : e.data[k] = c.id
<1> DEFINE e == Chunk(c, off, n, cut)
           r == Repeat(c.id, n)
<1>1. c.id \in Nat /\ c.ino \in Inodes /\ c.name \in Names /\ c.nname \in Names
  BY DEF Records
<1>2. r \in Seq(CellValues) /\ Len(r) = n /\ \A k \in 1..n : r[k] = c.id
  BY <1>1, RepeatTyped DEF CellValues
<1>3. /\ e.op = "write" /\ e.ino = c.ino /\ e.name = c.name /\ e.nname = c.nname /\ e.off = off
      /\ e.size = n /\ e.data = r /\ e.keep = FALSE /\ e.flags = "none"
  <2> DEFINE b == Event("write", c)
  <2> HIDE DEF r
  <2>0. b = [op |-> "write", ino |-> c.ino, name |-> c.name, nname |-> c.nname, off |-> 0,
             size |-> 0, data |-> <<>>, keep |-> FALSE, truncated |-> FALSE, flags |-> "none"]
    BY DEF Event
  <2>2. Chunk(c, off, n, cut)
          = [b EXCEPT !.off = off, !.size = n, !.data = r, !.truncated = cut]
    BY DEF Chunk, r
  <2> HIDE DEF b
  <2>1. Chunk(c, off, n, cut) = [op |-> "write", ino |-> c.ino, name |-> c.name, nname |-> c.nname,
                                 off |-> off, size |-> n, data |-> r, keep |-> FALSE, truncated |-> cut,
                                 flags |-> "none"]
    BY <2>0, <2>2
  <2> QED BY <2>1
<1> HIDE DEF e, r
<1>4. EventRight(e)
  BY <1>1, <1>2, <1>3 DEF EventRight, Ops
<1> QED BY <1>2, <1>3, <1>4 DEF e

LEMMA ReportedEvent ==
  ASSUME NEW c \in Records, c.kind \in Single,
         c.kind \in {"zero", "zero_keep", "punch"} => c.len >= 1,
         c.kind \in Renames => c.name # c.nname
  PROVE  LET e == EventOf(c)
         IN /\ EventRight(e) /\ e.ino = c.ino /\ e.name = c.name /\ e.nname = c.nname
            /\ c.kind \in {"truncate", "alloc"} => e.op = "truncate" /\ e.size = c.len
            /\ c.kind \in {"zero", "zero_keep", "punch"} =>
                 e.op = "zero" /\ e.off = c.off /\ e.size = c.len /\ (e.keep <=> c.kind # "zero")
            /\ c.kind \in NameKinds => e.op = IF c.kind = "unlink" THEN "unlink" ELSE "rename"
            /\ e.flags = IF c.kind \in {"noreplace", "exchange"} THEN c.kind ELSE "none"
<1> DEFINE e == EventOf(c)
           none == <<>>
<1>1. /\ c.ino \in Inodes /\ c.name \in Names /\ c.nname \in Names /\ c.len \in Nat /\ c.off \in Nat
      /\ none \in Seq(CellValues)
  BY DEF Records
<1>2. CASE c.kind \in {"truncate", "alloc"}
  <2>1. e = [op |-> "truncate", ino |-> c.ino, name |-> c.name, nname |-> c.nname, off |-> 0,
             size |-> c.len, data |-> none, keep |-> FALSE, truncated |-> FALSE,
             flags |-> "none"]
    BY <1>2 DEF EventOf, Event
  <2> HIDE DEF e, none
  <2>2. EventRight(e)
    BY <1>1, <2>1 DEF EventRight, Ops
  <2> QED BY <1>2, <2>1, <2>2 DEF e, NameKinds, Renames
<1>3. CASE c.kind \in {"zero", "zero_keep", "punch"}
  <2>1. e = [op |-> "zero", ino |-> c.ino, name |-> c.name, nname |-> c.nname, off |-> c.off,
             size |-> c.len, data |-> none, keep |-> (c.kind # "zero"), truncated |-> FALSE,
             flags |-> "none"]
    BY <1>3 DEF EventOf, Event
  <2>2. (c.kind # "zero") \in BOOLEAN
    OBVIOUS
  <2> HIDE DEF e, none
  <2>3. EventRight(e)
    BY <1>1, <1>3, <2>1, <2>2 DEF EventRight, Ops
  <2>4. e.op = "zero" /\ e.off = c.off /\ e.size = c.len /\ (e.keep <=> c.kind # "zero")
    BY <2>1
  <2> QED BY <1>3, <2>1, <2>3, <2>4 DEF e, NameKinds, Renames
<1>4. CASE c.kind \in {"unlink", "rename"}
  <2>1. e = [op |-> c.kind, ino |-> c.ino, name |-> c.name, nname |-> c.nname, off |-> 0,
             size |-> 0, data |-> none, keep |-> FALSE, truncated |-> FALSE, flags |-> "none"]
    BY <1>4 DEF EventOf, Event
  <2> HIDE DEF e, none
  <2>2. EventRight(e)
    BY <1>1, <1>4, <2>1 DEF EventRight, Ops, Renames
  <2> QED BY <1>4, <2>1, <2>2 DEF e
<1>5. CASE c.kind \in {"noreplace", "exchange"}
  <2>1. e = [op |-> "rename", ino |-> c.ino, name |-> c.name, nname |-> c.nname, off |-> 0,
             size |-> 0, data |-> none, keep |-> FALSE, truncated |-> FALSE, flags |-> c.kind]
    BY <1>5 DEF EventOf, Event
  <2> HIDE DEF e, none
  <2>2. EventRight(e)
    BY <1>1, <1>5, <2>1 DEF EventRight, Ops, Renames
  <2> QED BY <1>5, <2>1, <2>2 DEF e
<1> QED BY <1>2, <1>3, <1>4, <1>5 DEF Single, Renames

(* The event of a call that has the file to itself.                        *)
LEMMA ReportRight ==
  ASSUME Types, CallsRight, NEW t \in Threads, ~Idle(t), calls[t].at # "entered",
         calls[t].kind \in {"truncate", "alloc", "zero", "zero_keep", "punch"},
         calls[t].kind = "alloc" => calls[t].at = "sized", NEW i, i = calls[t].ino,
         NEW e, EventRight(e), e.name = dentry[i],
         calls[t].kind \in {"truncate", "alloc"} => e.op = "truncate" /\ e.size = calls[t].len,
         calls[t].kind \in {"zero", "zero_keep", "punch"} =>
           /\ e.op = "zero" /\ e.off = calls[t].off /\ e.size = calls[t].len
           /\ e.keep <=> calls[t].kind # "zero",
         Leave(t), UNCHANGED <<data, dirty, dentry, mapped>>, ring' = Append(ring, e)
  PROVE  \A T \in Tables, s \in Names :
           s = dentry[i] /\ Right(T, i, s) => Right(After(T, e), i, s)'
<1> DEFINE c == calls[t]
           old == data[i]
           size == Len(old)
<1>0. /\ i \in Inodes /\ c \in Records /\ c.off \in Nat /\ c.len \in Nat
      /\ old \in Seq(CellValues) /\ size \in Nat
      /\ calls \in [Threads -> Records \cup {NoCall}] /\ ring \in Seq(Events)
  BY CallFacts, DataCells DEF Types, CallTypes, RingTypes
<1>1. /\ c.kind \in {"truncate", "alloc"} => c.len = size
      /\ c.kind = "zero" => c.off + c.len <= size
      /\ \A k \in Unsent(c, size) : Val(old, k) = Zero
  BY DEF CallsRight, SizesRight, SizeRight, Writes
<1>2. \A u \in Threads : Pending(u, i) <=> u = t
  <2>1. c.kind \notin Writes
    BY DEF Writes
  <2> QED BY <2>1, AloneOnFile DEF Pending
<1>3. OnContent(e) /\ e.op # "write"
  BY DEF OnContent
<1> SUFFICES ASSUME NEW T \in Tables, NEW s \in Names, s = dentry[i], Right(T, i, s)
             PROVE  /\ LenRight(After(T, e).len[s], i)'
                    /\ \A k \in Places :
                         After(T, e).cell[s][k] = Val(data'[i], k) \/ Owed(i, k)' \/ Stale(i, k)'
  BY DEF Right
<1>4. ~Doomed(c)
  BY DEF Doomed
<1>5. /\ T.len[s] = size \/ Grows(c, T.len[s], size) = size
      /\ \A k \in Places : T.cell[s][k] = Val(old, k) \/ k \in Unsent(c, size) \/ Stale(i, k)
  BY <1>2, <1>4 DEF Right, Sound, LenRight, Owed
<1>6. /\ After(T, e).len[s] = Grown(e, T.len[s])
      /\ \A k \in Places : After(T, e).cell[s][k] = IF Fills(e, k) THEN Zero ELSE T.cell[s][k]
  BY <1>3, EditedPoints DEF Filled
<1>7. T.len[s] \in Nat
  BY DEF Tables
<1>8. \A k \in Places : Fills(e, k) <=> k \in Unsent(c, size)
  <2>1. CASE c.kind \in {"truncate", "alloc"}
    BY <1>1, <2>1, UnsentCases DEF Fills
  <2>2. CASE c.kind \in {"zero", "zero_keep", "punch"}
    BY <2>2, UnsentCases DEF Fills
  <2> QED BY <2>1, <2>2
<1>9. Grown(e, T.len[s]) = size
  <2> HIDE DEF c, size
  <2>1. CASE c.kind \in {"truncate", "alloc"}
    BY <1>1, <2>1 DEF Grown, c
  <2>2. CASE c.kind = "zero"
    <3>1. Grown(e, T.len[s]) = Larger(T.len[s], c.off + c.len)
      BY <2>2 DEF Grown, c
    <3>2. Grows(c, T.len[s], size) = Larger(T.len[s], c.off + c.len)
      BY <2>2, GrowsCases
    <3>3. T.len[s] = size => Larger(T.len[s], c.off + c.len) = size
      <4>1. c.off + c.len <= size /\ c.off + c.len \in Nat /\ size \in Nat
        BY <1>0, <1>1, <2>2
      <4> QED BY <4>1 DEF Larger
    <3> QED BY <1>5, <3>1, <3>2, <3>3
  <2>3. CASE c.kind \in {"zero_keep", "punch"}
    <3>1. Grown(e, T.len[s]) = T.len[s]
      BY <2>3 DEF Grown, c
    <3>2. Grows(c, T.len[s], size) = T.len[s]
      BY <2>3, GrowsCases
    <3> QED BY <1>5, <3>1, <3>2
  <2> QED BY <2>1, <2>2, <2>3 DEF c
<1>10. LenRight(After(T, e).len[s], i)'
  BY <1>6, <1>9 DEF LenRight
<1>11. ASSUME NEW k \in Places
       PROVE  After(T, e).cell[s][k] = Val(data'[i], k) \/ Owed(i, k)' \/ Stale(i, k)'
  <2>1. CASE Fills(e, k)
    BY <1>1, <1>6, <1>8, <2>1
  <2>2. CASE ~Fills(e, k)
    <3>1. ASSUME Stale(i, k) PROVE Stale(i, k)'
      BY <1>0, <2>2, <3>1, StaleKept DEF Covers
    <3> QED BY <1>5, <1>6, <1>8, <2>2, <3>1
  <2> QED BY <2>1, <2>2
<1> QED BY <1>10, <1>11

(* A call on content that goes on knows no less, and one that ends owes    *)
(* nothing.                                                                *)
LEMMA SentSizes ==
  ASSUME Types, SizesRight, NEW t \in Threads, ~Idle(t), calls[t].at = "done",
         calls[t].kind \in Writes, NEW n \in Nat, NEW d, calls' = [calls EXCEPT ![t] = d],
         d = NoCall \/ d = [calls[t] EXCEPT !.sent = calls[t].sent + n], UNCHANGED data
  PROVE  SizesRight'
<1> DEFINE c == calls[t]
           old == data[c.ino]
<1>0. /\ c \in Records /\ c.end \in Nat /\ c.ret \in Nat /\ c.sent \in Nat
      /\ calls \in [Threads -> Records \cup {NoCall}]
  BY CallFacts DEF Types, CallTypes
<1>1. calls'[t] = d /\ \A u \in Threads : u # t => calls'[u] = calls[u] /\ (Idle(u)' <=> Idle(u))
  BY <1>0 DEF Idle
<1>2. SizeRight(c, old)
  BY DEF SizesRight
<1>3. CASE d = NoCall
  <2>1. \A u \in Threads : ~Idle(u)' =>
          ~Idle(u) /\ calls'[u] = calls[u] /\ data'[calls[u].ino] = data[calls[u].ino]
    BY <1>1, <1>3 DEF Idle
  <2> QED BY <2>1, SizesKept
<1>4. CASE d = [c EXCEPT !.sent = c.sent + n]
  <2>1. /\ d.kind = c.kind /\ d.at = c.at /\ d.ret = c.ret /\ d.end = c.end /\ d.off = c.off
        /\ d.len = c.len /\ d.id = c.id /\ d.sent = c.sent + n /\ d.ino = c.ino
    BY <1>0, <1>4 DEF Records
  <2>2. ASSUME NEW k \in Unsent(d, Len(old)) PROVE k \in Unsent(c, Len(old))
    <3>1. k \in Places /\ d.end - d.ret + d.sent < k /\ k <= d.end
      BY <2>1, <2>2, UnsentCases
    <3>2. c.end - c.ret + c.sent < k
      <4> HIDE DEF c
      <4>1. k \in Nat
        BY <3>1 DEF Places
      <4> QED BY <1>0, <2>1, <3>1, <4>1
    <3> QED BY <2>1, <3>1, <3>2, UnsentCases
  <2>3. SizeRight(d, old)
    <3>1. c.at # "entered" /\ c.at # "sized"
      OBVIOUS
    <3>2. /\ 1 <= c.ret /\ c.ret <= c.end /\ c.end <= Len(old)
          /\ c.kind # "append" => c.end - c.ret = c.off /\ c.ret <= c.len
          /\ \A k \in Unsent(c, Len(old)) : Val(old, k) = c.id
      BY <1>2, <3>1 DEF SizeRight
    <3>3. c.kind \in {"write", "append", "writev"}
      BY DEF Writes
    <3> HIDE DEF c, old
    <3> QED BY <2>1, <2>2, <3>1, <3>2, <3>3 DEF SizeRight, Writes
  <2> SUFFICES ASSUME NEW u \in Threads, ~Idle(u)'
               PROVE  SizeRight(calls'[u], data'[calls'[u].ino])
    BY DEF SizesRight, SizeRight, Unsent, Val
  <2>4. CASE u = t
    BY <1>1, <2>1, <2>3, <2>4
  <2>5. CASE u # t
    BY <1>1, <2>5 DEF SizesRight
  <2> QED BY <2>4, <2>5
<1> QED BY <1>3, <1>4

LEMMA SendContent ==
  ASSUME Types, NamesInv, ContentInv, NEW t \in Threads, ~Idle(t), calls[t].at = "done",
         calls[t].kind \in Writes, Hook, NEW n \in Nat, NEW cut \in BOOLEAN,
         ring' = Append(ring, Chunk(calls[t], start_offset(calls[t]) + calls[t].sent, n, cut)),
         NEW last \in BOOLEAN,
         IF last THEN Leave(t) ELSE calls' = [calls EXCEPT ![t].sent = @ + n],
         lost => lost',
         \/ lost'
         \/ IF last THEN calls[t].sent + n = calls[t].ret
            ELSE calls[t].sent + n <= calls[t].ret \/ calls[t].kind = "writev"
  PROVE  ContentInv'
<1> DEFINE c == calls[t]
           off == start_offset(c) + c.sent
<1>0. PICK e : e = Chunk(c, off, n, cut)
  OBVIOUS
<1>1. PICK i : i = c.ino
  OBVIOUS
<1>2. /\ c \in Records /\ i \in Inodes /\ c.end \in Nat /\ c.ret \in Nat /\ c.sent \in Nat
      /\ c.kind \in DataKinds /\ CallsRight /\ SizesRight
      /\ UNCHANGED <<data, dirty, dentry, mapped>>
  BY <1>1, CallFacts DEF DataKinds, ContentInv, CallsRight, Hook, primary
<1>3. 1 <= c.ret /\ c.ret <= c.end
  BY DEF ContentInv, CallsRight, SizesRight, SizeRight
<1>4. off = c.end - c.ret + c.sent /\ off \in Nat
  <2>1. off = c.end - c.ret + c.sent
    BY DEF start_offset
  <2> HIDE DEF c, off
  <2> QED BY <1>2, <1>3, <2>1
<1>5. /\ EventRight(e) /\ e.op = "write" /\ e.ino = i /\ e.name = c.name /\ e.off = off
      /\ Len(e.data) = n /\ \A k \in 1..n : e.data[k] = c.id
  <2> HIDE DEF c, off
  <2> QED BY <1>0, <1>1, <1>2, <1>4, ChunkEvent
<1>6. ring' = Append(ring, e)
  BY <1>0
<1>7. c.name = dentry[i]
  BY <1>1, <1>2 DEF NamesInv, NotedRight
<1> HIDE DEF off
<1>8. OnContent(e)
  BY <1>5 DEF OnContent
<1>9. PICK d : /\ calls' = [calls EXCEPT ![t] = d]
               /\ IF last THEN d = NoCall ELSE d # NoCall /\ d = [c EXCEPT !.sent = c.sent + n]
  <2>1. CASE last
    BY <2>1 DEF Leave
  <2>2. CASE ~last
    <3> DEFINE f == [c EXCEPT !.sent = c.sent + n]
    <3>1. f \in Records
      <4>1. c.sent + n \in Nat
        <5> HIDE DEF c
        <5> QED BY <1>2
      <4> QED BY <1>2, <4>1 DEF Records
    <3>2. calls' = [calls EXCEPT ![t] = f]
      BY <2>2
    <3>3. f # NoCall
      <4> HIDE DEF f
      <4> QED BY <3>1, FileAssumption
    <3> QED BY <2>2, <3>2, <3>3
  <2> QED BY <2>1, <2>2
<1>10. d = NoCall \/ (d.kind = c.kind /\ d.ino = i /\ d.off = c.off /\ d.len = c.len)
  BY <1>1, <1>2, <1>9 DEF Records
<1>11. SizesRight'
  <2>1. d = NoCall \/ d = [c EXCEPT !.sent = c.sent + n]
    BY <1>9
  <2> QED BY <1>2, <1>9, <2>1, SentSizes
<1>12. CASE lost'
  BY <1>1, <1>2, <1>5, <1>6, <1>8, <1>9, <1>10, <1>11, <1>12, HookStep
<1>13. CASE ~lost'
  <2>1. \/ d = NoCall /\ c.sent + n = c.ret
        \/ /\ d # NoCall /\ d = [c EXCEPT !.sent = c.sent + n]
           /\ c.sent + n <= c.ret \/ c.kind = "writev"
    BY <1>9, <1>13
  <2>2. \A T \in Tables, s \in Names :
          s = dentry[i] /\ Right(T, i, s) => Right(After(T, e), i, s)'
    <3>1. e.name = dentry[i] /\ e.off = c.end - c.ret + c.sent
      BY <1>4, <1>5, <1>7
    <3>2. Types /\ ~Idle(t) /\ c.at = "done" /\ c.kind \in Writes /\ CallsRight
      BY <1>2
    <3>3. /\ EventRight(e) /\ e.op = "write" /\ Len(e.data) = n /\ \A k \in 1..n : e.data[k] = c.id
          /\ calls' = [calls EXCEPT ![t] = d] /\ UNCHANGED <<data, dirty, dentry, mapped>>
          /\ ring' = Append(ring, e)
      BY <1>2, <1>5, <1>6, <1>9
    <3> QED BY ONLY <1>1, <2>1, <3>1, <3>2, <3>3, ChunkRight
  <2>3. /\ ~Idle(t) /\ Types /\ NamesInv /\ ContentInv /\ Hook /\ (lost => lost')
        /\ c.kind \in DataKinds /\ calls' = [calls EXCEPT ![t] = d]
    BY <1>2, <1>9
  <2>4. ring' = Append(ring, e) /\ EventRight(e) /\ OnContent(e) /\ e.name = c.name /\ e.ino = i
    BY <1>5, <1>6, <1>8
  <2> QED BY ONLY <1>1, <1>10, <1>11, <2>2, <2>3, <2>4, HookStep
<1> QED BY <1>12, <1>13

(* A hook that gives up counts a loss.                                     *)
LEMMA GiveUpContent ==
  ASSUME Types, NamesInv, ContentInv, NEW t \in Threads, ~Idle(t), calls[t].kind \in DataKinds,
         Hook, Leave(t), ring' = ring, lost' = TRUE
  PROVE  ContentInv'
<1>1. PICK i : i = calls[t].ino
  OBVIOUS
<1>2. calls' = [calls EXCEPT ![t] = NoCall] /\ calls \in [Threads -> Records \cup {NoCall}]
  BY DEF Leave, Types, CallTypes
<1>3. SizesRight'
  <2>1. \A u \in Threads : ~Idle(u)' =>
          ~Idle(u) /\ calls'[u] = calls[u] /\ data'[calls[u].ino] = data[calls[u].ino]
    BY <1>2 DEF Idle, Hook, primary
  <2> QED BY <2>1, SizesKept DEF ContentInv, CallsRight
<1>4. PICK d : d = NoCall /\ calls' = [calls EXCEPT ![t] = d]
  BY <1>2
<1> QED BY <1>1, <1>3, <1>4, HookStep

LEMMA WriteRetContent ==
  ASSUME Types, NamesInv, ContentInv, NEW t \in Threads, handle_vfs_write_ret(t)
  PROVE  ContentInv'
<1> DEFINE c == calls[t]
           n == Least(ChunkLimit, c.ret - c.sent)
           ends == c.sent + n = c.ret \/ c.sent \div ChunkLimit = MaxChunks - 1
<1>1. /\ ~Idle(t) /\ c.at = "done" /\ c.kind \in {"write", "append"} /\ Hook
      /\ c.kind \in Writes /\ c.kind \in DataKinds
  BY DEF handle_vfs_write_ret, Finished, Writes, DataKinds
<1>2. CASE ring' = ring /\ lost' = TRUE /\ Leave(t)
  BY <1>1, <1>2, GiveUpContent
<1>3. CASE /\ ring' = Append(ring, Chunk(c, start_offset(c) + c.sent, n, ends /\ c.sent + n < c.ret))
           /\ lost' = (lost \/ (ends /\ c.sent + n < c.ret))
           /\ IF ends THEN Leave(t) ELSE calls' = [calls EXCEPT ![t].sent = @ + n]
  <2>1. PICK m : m = n
    OBVIOUS
  <2>2. PICK last \in BOOLEAN : last <=> ends
    OBVIOUS
  <2>3. PICK cut \in BOOLEAN : cut = (ends /\ c.sent + n < c.ret)
    OBVIOUS
  <2>4. m \in Nat /\ c.sent + m <= c.ret /\ c.sent \in Nat /\ c.ret \in Nat
    <3>1. c.sent \in Nat /\ c.ret \in Nat /\ c.sent <= c.ret /\ ChunkLimit \in Nat
      BY <1>1, CallFacts, FileAssumption
    <3> HIDE DEF c
    <3> QED BY <2>1, <3>1 DEF Least
  <2>5. ring' = Append(ring, Chunk(c, start_offset(c) + c.sent, m, cut))
    BY <1>3, <2>1, <2>3
  <2>6. IF last THEN Leave(t) ELSE calls' = [calls EXCEPT ![t].sent = @ + m]
    BY <1>3, <2>1, <2>2
  <2>7. lost => lost'
    BY <1>3
  <2>8. \/ lost'
        \/ IF last THEN c.sent + m = c.ret ELSE c.sent + m <= c.ret \/ c.kind = "writev"
    <3>1. lost' <=> lost \/ (last /\ c.sent + m < c.ret)
      BY <1>3, <2>1, <2>2
    <3> HIDE DEF c
    <3> QED BY <2>4, <3>1
  <2> HIDE DEF n, ends
  <2> QED BY <1>1, <2>4, <2>5, <2>6, <2>7, <2>8, SendContent
<1> QED BY <1>2, <1>3 DEF handle_vfs_write_ret

LEMMA WritevContent ==
  ASSUME Types, NamesInv, ContentInv, NEW t \in Threads, writev_emit_seg(t)
  PROVE  ContentInv'
<1> DEFINE c == calls[t]
           n == Least(ChunkLimit, c.seg)
           ends == n < c.seg \/ c.sent + n \in {c.len, c.seg * MaxSegs}
<1>1. /\ ~Idle(t) /\ c.at = "done" /\ c.kind = "writev" /\ Hook
      /\ c.kind \in Writes /\ c.kind \in DataKinds
  BY DEF writev_emit_seg, Finished, Writes, DataKinds
<1>2. CASE ring' = ring /\ lost' = TRUE /\ Leave(t)
  BY <1>1, <1>2, GiveUpContent
<1>3. CASE /\ ring' = Append(ring, Chunk(c, start_offset(c) + c.sent, n, n < c.seg))
           /\ lost' = (lost \/ (ends /\ c.sent + n # c.ret))
           /\ IF ends THEN Leave(t) ELSE calls' = [calls EXCEPT ![t].sent = @ + n]
  <2>1. PICK m : m = n
    OBVIOUS
  <2>2. PICK last \in BOOLEAN : last <=> ends
    OBVIOUS
  <2>4. m \in Nat /\ c.seg \in Nat
    <3>1. c.seg \in Nat /\ ChunkLimit \in Nat
      BY <1>1, CallFacts, FileAssumption
    <3> HIDE DEF c
    <3> QED BY <2>1, <3>1 DEF Least
  <2>3. PICK cut \in BOOLEAN : cut = (n < c.seg)
    <3>1. (n < c.seg) \in BOOLEAN
      <4> HIDE DEF n, c
      <4> QED BY <2>1, <2>4
    <3> QED BY <3>1
  <2>5. ring' = Append(ring, Chunk(c, start_offset(c) + c.sent, m, cut))
    BY <1>3, <2>1, <2>3
  <2>6. IF last THEN Leave(t) ELSE calls' = [calls EXCEPT ![t].sent = @ + m]
    BY <1>3, <2>1, <2>2
  <2>7. lost => lost'
    BY <1>3
  <2>8. \/ lost'
        \/ IF last THEN c.sent + m = c.ret ELSE c.sent + m <= c.ret \/ c.kind = "writev"
    BY <1>1, <1>3, <2>1, <2>2
  <2> HIDE DEF n, ends
  <2> QED BY <1>1, <2>4, <2>5, <2>6, <2>7, <2>8, SendContent
<1> QED BY <1>2, <1>3 DEF writev_emit_seg

LEMMA AllocateRetContent ==
  ASSUME Types, NamesInv, ContentInv, NEW t \in Threads, handle_vfs_fallocate_ret(t)
  PROVE  ContentInv'
<1> DEFINE c == calls[t]
<1>1. /\ ~Idle(t) /\ c.at = "done" /\ c.kind \in {"alloc", "collapse"} /\ Hook /\ ring' = ring
      /\ c.kind \in DataKinds /\ c.kind \notin Writes
  BY DEF handle_vfs_fallocate_ret, Finished, Writes, Allocs, DataKinds
<1>2. CASE lost' = TRUE /\ Leave(t)
  BY <1>1, <1>2, GiveUpContent
<1>3. CASE /\ c.kind = "alloc" /\ lost' = lost
           /\ calls' = [calls EXCEPT ![t].at = "sized", ![t].len = Len(data[c.ino])]
  <2>1. PICK i : i = c.ino
    OBVIOUS
  <2>2. PICK d : d = [c EXCEPT !.at = "sized", !.len = Len(data[i])]
    OBVIOUS
  <2>3. /\ c \in Records /\ i \in Inodes /\ Len(data[i]) \in Nat
        /\ calls \in [Threads -> Records \cup {NoCall}]
        /\ UNCHANGED <<data, dirty, dentry, mapped>> /\ CallsRight /\ SizesRight
        /\ ring \in Seq(Events)
    BY <1>1, <2>1, CallFacts, DataCells
       DEF Types, CallTypes, RingTypes, Hook, primary, ContentInv, CallsRight
  <2>4. /\ d.kind = c.kind /\ d.ino = i /\ d.at = "sized" /\ d.len = Len(data[i]) /\ d # NoCall
        /\ calls' = [calls EXCEPT ![t] = d]
    <3>1. d \in Records /\ d.kind = c.kind /\ d.ino = i /\ d.at = "sized" /\ d.len = Len(data[i])
      BY <2>1, <2>2, <2>3 DEF Records
    <3>2. calls' = [calls EXCEPT ![t] = d]
      BY <1>3, <2>1, <2>2
    <3> QED BY <3>1, <3>2, FileAssumption
  <2>5. calls'[t] = d /\ \A u \in Threads : u # t => calls'[u] = calls[u] /\ (Idle(u)' <=> Idle(u))
    BY <2>3, <2>4 DEF Idle
  <2>6. \A size : Unsent(d, size) = Unsent(c, size)
    BY <1>3, <2>4 DEF Unsent, Writes
  <2>7. \A m, size : Grows(d, m, size) = Grows(c, m, size)
    BY <1>3, <2>4 DEF Grows, Writes
  <2>8. SizesRight'
    <3>1. SizeRight(c, data[i])
      BY <1>1, <2>1, <2>3 DEF SizesRight
    <3>2. SizeRight(d, data[i])
      BY <1>1, <1>3, <2>4, <2>6, <3>1 DEF SizeRight, Writes
    <3> SUFFICES ASSUME NEW u \in Threads, ~Idle(u)'
                 PROVE  SizeRight(calls'[u], data'[calls'[u].ino])
      BY DEF SizesRight, SizeRight, Unsent, Val
    <3> QED BY <2>3, <2>4, <2>5, <3>2 DEF SizesRight
  <2>9. ASSUME NEW T \in Tables, NEW s \in Names, Right(T, i, s) PROVE Right(T, i, s)'
    <3>1. \A u \in Threads : Pending(u, i)' <=> Pending(u, i)
      BY <1>1, <2>1, <2>4, <2>5 DEF Pending, Idle
    <3>2. \A u \in Threads : u # t => ~Pending(u, i)
      BY <1>1, <2>1, <2>3, AloneOnFile DEF Pending
    <3> SUFFICES ASSUME Sound(i)'
                 PROVE  /\ LenRight(T.len[s], i)'
                        /\ \A k \in Places : T.cell[s][k] = Val(data'[i], k) \/ Owed(i, k)' \/ Stale(i, k)'
      BY DEF Right
    <3>3. Sound(i)
      BY <1>3, <3>2 DEF Sound, Doomed
    <3>4. /\ LenRight(T.len[s], i)
          /\ \A k \in Places : T.cell[s][k] = Val(data[i], k) \/ Owed(i, k) \/ Stale(i, k)
      BY <2>9, <3>3 DEF Right
    <3>5. LenRight(T.len[s], i)'
      <4>1. CASE T.len[s] = Len(data[i])
        BY <2>3, <4>1 DEF LenRight
      <4>2. CASE T.len[s] # Len(data[i])
        <5>1. Pending(t, i) /\ Grows(c, T.len[s], Len(data[i])) = Len(data[i])
          BY <3>2, <3>4, <4>2 DEF LenRight
        <5>2. Pending(t, i)'
          BY <3>1, <5>1
        <5>4. Grows(calls'[t], T.len[s], Len(data'[i])) = Len(data'[i])
          BY <2>3, <2>5, <2>7, <5>1
        <5>3. (Grows(calls[t], T.len[s], Len(data[i])) = Len(data[i]))'
          BY <5>4 DEF Grows
        <5> QED BY <5>2, <5>3 DEF LenRight
      <4> QED BY <4>1, <4>2
    <3>6. ASSUME NEW k \in Places
          PROVE  T.cell[s][k] = Val(data'[i], k) \/ Owed(i, k)' \/ Stale(i, k)'
      <4>1. ASSUME Owed(i, k) PROVE Owed(i, k)'
        <5>1. Pending(t, i) /\ k \in Unsent(c, Len(data[i]))
          BY <3>2, <4>1 DEF Owed
        <5>2. Pending(t, i)'
          BY <3>1, <5>1
        <5>4. k \in Unsent(calls'[t], Len(data'[i]))
          BY <2>3, <2>5, <2>6, <5>1
        <5>3. (k \in Unsent(calls[t], Len(data[i])))'
          BY <5>4 DEF Unsent
        <5> QED BY <5>2, <5>3 DEF Owed
      <4>2. Stale(i, k) => Stale(i, k)'
        BY <1>1, <2>3 DEF Stale, Covers, OnContent, Fills
      <4> QED BY <2>3, <3>4, <4>1, <4>2
    <3> QED BY <3>5, <3>6
  <2>10. /\ ~Idle(t) /\ Types /\ NamesInv /\ ContentInv /\ Hook /\ lost' = lost /\ ring' = ring
         /\ c.kind \in DataKinds
         /\ \A T \in Tables, s \in Names : Right(T, i, s) => Right(T, i, s)'
         /\ d.kind = c.kind /\ d.ino = i /\ c.kind \notin Writes
    BY <1>1, <1>3, <2>4, <2>9
  <2> QED BY <2>1, <2>4, <2>8, <2>10, HookStep
<1> QED BY <1>1, <1>2, <1>3 DEF handle_vfs_fallocate_ret, Finished

(* The event of a call on content that is not a write.                     *)
LEMMA EmitDataContent ==
  ASSUME Types, NamesInv, ContentInv, NEW t \in Threads, emit_pending_event(t),
         calls[t].kind \in DataKinds
  PROVE  ContentInv'
<1> DEFINE c == calls[t]
<1>1. ~Idle(t) /\ c.at # "entered" /\ Hook /\ Leave(t) /\ Emit(EventOf(c))
  BY DEF emit_pending_event, Finished
<1>2. /\ c.kind \in {"truncate", "alloc", "zero", "zero_keep", "punch"}
      /\ c.kind = "alloc" => c.at = "sized"
  <2>1. CASE Finished(t, {"truncate", "zero", "zero_keep", "punch"} \cup NameKinds)
    BY <2>1 DEF Finished, DataKinds, Writes, Allocs, NameKinds, Renames
  <2>2. CASE c.at = "sized"
    BY <1>1, <2>2, CallFacts
  <2> QED BY <2>1, <2>2 DEF emit_pending_event
<1>3. CASE ~Room
  BY <1>1, <1>3, GiveUpContent DEF Emit
<1>4. CASE Room
  <2>1. PICK i : i = c.ino
    OBVIOUS
  <2>2. PICK e : e = EventOf(c)
    OBVIOUS
  <2>3. /\ c \in Records /\ UNCHANGED <<data, dirty, dentry, mapped>> /\ CallsRight /\ SizesRight
        /\ SizeRight(c, data[c.ino])
    BY <1>1, CallFacts DEF Hook, primary, ContentInv, CallsRight, SizesRight
  <2>4. c.kind \in {"zero", "zero_keep", "punch"} => c.len >= 1
    BY <2>3 DEF SizeRight
  <2>5. /\ EventRight(e) /\ e.ino = i /\ e.name = c.name
        /\ c.kind \in {"truncate", "alloc"} => e.op = "truncate" /\ e.size = c.len
        /\ c.kind \in {"zero", "zero_keep", "punch"} =>
             e.op = "zero" /\ e.off = c.off /\ e.size = c.len /\ (e.keep <=> c.kind # "zero")
    <3> HIDE DEF c
    <3>1. c.kind \in Single /\ c.kind \notin Renames
      BY <1>2 DEF Single, Renames
    <3> QED BY <2>1, <2>2, <2>3, <2>4, <3>1, ReportedEvent
  <2>6. ring' = Append(ring, e) /\ lost' = lost
    BY <1>1, <1>4, <2>2 DEF Emit
  <2>7. c.name = dentry[i] /\ OnContent(e)
    BY <1>1, <1>2, <2>1, <2>5 DEF NamesInv, NotedRight, OnContent
  <2>8. \A T \in Tables, s \in Names :
          s = dentry[i] /\ Right(T, i, s) => Right(After(T, e), i, s)'
    BY <1>1, <1>2, <2>1, <2>3, <2>5, <2>6, <2>7, ReportRight
  <2>9. PICK d : d = NoCall /\ calls' = [calls EXCEPT ![t] = d]
    BY <1>1 DEF Leave
  <2>10. SizesRight'
    <3>1. \A u \in Threads : ~Idle(u)' =>
            ~Idle(u) /\ calls'[u] = calls[u] /\ data'[calls[u].ino] = data[calls[u].ino]
      BY <2>3, <2>9 DEF Idle, Types, CallTypes
    <3> QED BY <2>3, <3>1, SizesKept
  <2> QED BY <1>1, <2>1, <2>5, <2>6, <2>7, <2>8, <2>9, <2>10, HookStep
<1> QED BY <1>3, <1>4

(* The event of an unlink or of a rename: the name goes from the table, or *)
(* the table gives the content another name, as the directory did before.  *)
LEMMA NamesReported ==
  ASSUME Types, NamesInv, CallsRight, NEW t \in Threads, ~Idle(t), calls[t].kind \in NameKinds,
         calls[t].kind # "exchange",
         Leave(t), UNCHANGED <<data, dir, dentry, mapped, dirty>>,
         NEW e, EventRight(e), e.name = calls[t].name, e.nname = calls[t].nname,
         e.op = IF calls[t].kind = "unlink" THEN "unlink" ELSE "rename",
         e.flags = IF calls[t].kind = "noreplace" THEN calls[t].kind ELSE "none",
         ring' = Append(ring, e),
         NEW T \in Tables, Follows(T)
  PROVE  Applies(T, e) /\ Follows(After(T, e))'
<1> DEFINE c == calls[t]
<1>1. PICK x, y, i : x = c.name /\ y = c.nname /\ i = c.ino
  OBVIOUS
<1>2. PICK U : U = After(T, e)
  OBVIOUS
<1>3. /\ x \in Names /\ y \in Names /\ i \in Inodes /\ NoIno \notin Inodes
      /\ calls \in [Threads -> Records \cup {NoCall}] /\ ring \in Seq(Events)
      /\ dentry \in [Inodes -> Names]
  BY <1>1, CallFacts, FileAssumption DEF Types, CallTypes, RingTypes, NameTypes
<1>4. calls'[t] = NoCall /\ \A u \in Threads : u # t => calls'[u] = calls[u] /\ (Idle(u)' <=> Idle(u))
  BY <1>3 DEF Leave, Idle
<1>5. \A u \in Threads : ~Idle(u) /\ calls[u].kind \in NameKinds => u = t
  BY DEF CallsRight, Apart
<1>6. /\ c.at = "done" /\ dir[x] = NoIno /\ (c.kind = "unlink" => y = x)
      /\ c.kind \in Plain => x # y /\ i \notin mapped /\ dir[y] = i
  BY <1>1 DEF CallsRight, NamesGone, NameRight, Plain
<1>7. /\ c.kind = "unlink" \/ c.kind \in Plain
      /\ e.op = "unlink" <=> c.kind = "unlink"
      /\ e.op = "rename" <=> c.kind \in Plain
  BY DEF Plain, NameKinds, Renames
<1>8. \A u \in Threads : ~Idle(u)' => ~Idle(u) /\ calls'[u] = calls[u] /\ calls[u].kind \notin NameKinds
  BY <1>4, <1>5 DEF Idle
<1>9. Applies(T, e)
  <2>1. c.kind \in Plain => c.name \in T.has /\ (c.kind = "noreplace" => c.nname \notin T.has)
    BY DEF Follows, NamesFollow
  <2> QED BY <1>7, <2>1 DEF Applies, Plain
<1>10. \A n \in Names : n # x /\ n # y => (n \in T.has <=> dir[n] # NoIno)
  BY <1>1, <1>5 DEF Follows, NamesFollow, Changing
<1>11. \A n \in Names : n \in U.has <=> dir[n] # NoIno
  <2>1. CASE c.kind = "unlink"
    <3>1. U.has = T.has \ {x}
      BY <1>1, <1>2, <1>7, <2>1, RemovedPoints
    <3> QED BY <1>6, <1>10, <2>1, <3>1
  <2>2. CASE c.kind \in Plain
    <3>1. U.has = (T.has \ {x}) \cup {y}
      BY <1>1, <1>2, <1>3, <1>7, <2>2, MovedPoints
    <3> QED BY <1>3, <1>6, <1>10, <2>2, <3>1
  <2> QED BY <1>7, <2>1, <2>2
<1>12. NamesFollow(U)'
  <2>1. \A u \in Threads : ~(~Idle(u)' /\ calls'[u].kind \in Plain)
    BY <1>8 DEF Plain, NameKinds
  <2> QED BY <1>11, <2>1 DEF NamesFollow
<1>13. ASSUME NEW j \in Inodes, NEW s \in Names, Source(j, s)' PROVE Right(U, j, s)'
  <2>1. (\A u \in Threads : ~Renaming(u, j)') /\ ~Swapping(j)
    BY <1>5, <1>8 DEF Renaming, Swapping, Plain, NameKinds, Renames
  <2>2. Live(j) /\ s = dentry[j] /\ dir[s] = j
    BY <1>13, <2>1 DEF Source, Live
  <2>3. \A u \in Threads : Pending(u, j) /\ calls[u].kind \notin NameKinds =>
          Pending(u, j)' /\ calls'[u] = calls[u]
    BY <1>4 DEF Pending
  <2>4. ASSUME NEW k \in Places, Stale(j, k) PROVE Stale(j, k)'
    <3>1. ~Covers(e, dentry[j], k)
      BY <1>7 DEF Covers, OnContent
    <3> QED BY <1>3, <2>4, <3>1, StaleKept
  <2>5. s # x
    BY <1>3, <1>6, <2>2
  <2>6. CASE c.kind \in Plain /\ j = i
    <3>1. s = y
      BY <1>3, <1>6, <2>2, <2>6 DEF NamesInv, NamedRight
    <3>2. Source(j, x)
      BY <1>1, <2>1, <2>2, <2>6 DEF Source, Renaming
    <3>3. Right(T, j, x)
      BY <1>3, <3>2 DEF Follows
    <3>4. U.len[s] = T.len[x] /\ U.cell[s] = T.cell[x]
      BY <1>1, <1>2, <1>3, <1>7, <2>6, <3>1, MovedPoints
    <3> QED BY <2>3, <2>4, <3>3, <3>4, RightSame
  <2>7. CASE ~(c.kind \in Plain /\ j = i)
    <3>1. \A u \in Threads : ~Renaming(u, j)
      BY <1>1, <1>5, <2>7 DEF Renaming, Plain, NameKinds
    <3>2. Right(T, j, s)
      BY <2>1, <2>2, <3>1 DEF Follows, Source
    <3>3. U.len[s] = T.len[s] /\ U.cell[s] = T.cell[s]
      <4>1. CASE c.kind = "unlink"
        BY <1>1, <1>2, <1>7, <2>5, <4>1, RemovedPoints
      <4>2. CASE c.kind \in Plain
        <5>1. s # y
          BY <1>6, <2>2, <2>7, <4>2
        <5> QED BY <1>1, <1>2, <1>3, <1>7, <2>5, <4>2, <5>1, MovedPoints
      <4> QED BY <1>7, <4>1, <4>2
    <3> QED BY <2>3, <2>4, <3>2, <3>3, RightSame
  <2> QED BY <2>6, <2>7
<1>14. Follows(U)'
  BY <1>12, <1>13 DEF Follows
<1> QED BY <1>2, <1>9, <1>14

LEMMA EmitNamesContent ==
  ASSUME Types, NamesInv, ContentInv, NEW t \in Threads, emit_pending_event(t),
         calls[t].kind \in NameKinds
  PROVE  ContentInv'
<1> DEFINE c == calls[t]
<1>0. PICK e : e = EventOf(c)
  OBVIOUS
<1>1. ~Idle(t) /\ Hook /\ Leave(t) /\ Emit(e)
  BY <1>0 DEF emit_pending_event, Finished
<1>2. /\ UNCHANGED <<app, data, dir, dentry, mapped, dirty, files, batch, batch_error, backup,
                   daemon>>
      /\ calls' = [calls EXCEPT ![t] = NoCall] /\ calls \in [Threads -> Records \cup {NoCall}]
      /\ c \in Records /\ ring \in Seq(Events) /\ c.name \in Names /\ c.nname \in Names
      /\ NoIno \notin Inodes /\ mapped \subseteq Inodes
  BY <1>1, CallFacts, FileAssumption
     DEF Hook, primary, user, sink, Leave, Types, CallTypes, RingTypes, MapTypes
<1>3. /\ SizesRight /\ NamesGone /\ Apart /\ CallsRight /\ RingRight /\ PagesRight
      /\ Ahead /\ Batched /\ NameRight(c)
  BY <1>1 DEF ContentInv, CallsRight, NamesGone
<1>4. \A u \in Threads : ~Idle(u)' =>
        ~Idle(u) /\ calls'[u] = calls[u] /\ data'[calls[u].ino] = data[calls[u].ino]
  BY <1>2 DEF Idle
<1>5. SizesRight' /\ Apart' /\ NamesGone'
  <2>1. SizesRight'
    BY <1>3, <1>4, SizesKept
  <2>2. Apart'
    <3>1. \A u \in Threads : ~Idle(u)' =>
            /\ ~Idle(u) /\ calls'[u].kind = calls[u].kind /\ calls'[u].ino = calls[u].ino
            /\ calls[u].kind \in Writes => calls'[u].off = calls[u].off /\ calls'[u].len = calls[u].len
      BY <1>4
    <3> QED BY <1>3, <3>1, ApartKept
  <2>3. NamesGone'
    <3>1. \A u \in Threads : ~Idle(u)' /\ calls'[u].kind \in NameKinds =>
            ~Idle(u) /\ calls'[u] = calls[u] /\ mapped' = mapped
      BY <1>2, <1>4
    <3> QED BY <1>2, <1>3, <3>1, NamesGoneKept
  <2> QED BY <2>1, <2>2, <2>3
<1>6. /\ EventRight(e) /\ e.name = c.name /\ e.nname = c.nname
      /\ e.op = IF c.kind = "unlink" THEN "unlink" ELSE "rename"
      /\ e.flags = IF c.kind \in {"noreplace", "exchange"} THEN c.kind ELSE "none"
  <2>1. /\ c.kind \in Single /\ c.kind \in NameKinds
        /\ c.kind \in {"zero", "zero_keep", "punch"} => c.len >= 1
        /\ c.kind \in Renames => c.name # c.nname
    BY <1>3 DEF NameRight, NameKinds, Renames, Single
  <2> HIDE DEF c
  <2> QED BY <1>0, <1>2, <2>1, ReportedEvent
<1>7. RingRight' /\ PagesRight'
  <2>1. ring' = ring \/ ring' = Append(ring, e)
    BY <1>1 DEF Emit
  <2>2. e.op # "writeback" /\ ~Naming(e)
    BY <1>6 DEF NameKinds, Renames, Naming
  <2>3. RingRight'
    BY <1>2, <1>3, <1>6, <2>1, <2>2, RingKept
  <2>4. ASSUME NEW j \in mapped, Live(j) PROVE dentry[j] \notin {e.name, e.nname}
    <3>1. dir[dentry[j]] = j /\ j \in Inodes
      BY <1>2, <2>4 DEF Live
    <3>2. /\ dir[c.name] \notin mapped /\ (c.kind = "unlink" => c.nname = c.name)
          /\ c.kind \in Renames => c.ino \notin mapped /\ dir[c.nname] = c.ino
      BY <1>3 DEF NameRight
    <3> QED BY <1>2, <1>6, <3>1, <3>2 DEF NameKinds
  <2>5. \A j \in mapped : dentry'[j] = dentry[j] /\ (Live(j)' => Live(j))
    BY <1>2 DEF Live
  <2>6. PagesRight'
    <3>1. UNCHANGED files
      BY <1>2
    <3>2. \A j : ~Tells(e, j)
      BY <2>2 DEF Tells
    <3> QED BY <1>3, <2>1, <2>2, <2>4, <2>5, <3>1, <3>2, PagesKept
  <2> QED BY <2>3, <2>6
<1>8. Ahead'
  <2>1. CASE Room
    <3>1. ring' = Append(ring, e) /\ lost' = lost
      BY <1>1, <2>1 DEF Emit
    <3>2. CASE c.kind = "exchange"
      <4>1. Len(ring') \in 1..Len(ring') /\ ring'[Len(ring')] = e
        BY <1>2, <3>1
      <4>2. Swap(e)
        BY <1>6, <3>2 DEF Swap
      <4> QED BY <4>1, <4>2, AheadLost DEF Refusing, Swap
    <3>3. CASE c.kind # "exchange"
      <4>1. e.flags = IF c.kind = "noreplace" THEN c.kind ELSE "none"
        BY <1>6, <3>3
      <4>2. ASSUME NEW T \in Tables, Follows(T) PROVE Applies(T, e) /\ Follows(After(T, e))'
        BY <1>1, <1>2, <1>3, <1>6, <3>1, <3>3, <4>1, <4>2, NamesReported
      <4> QED BY <1>2, <1>3, <1>6, <3>1, <4>2, AheadAppended
    <3> QED BY <3>2, <3>3
  <2>2. CASE ~Room
    BY <1>1, <2>2, AheadLost DEF Emit
  <2> QED BY <2>1, <2>2
<1> QED BY <1>1, <1>2, <1>3, <1>5, <1>7, <1>8, BusyKept DEF ContentInv, CallsRight, Batched

-----------------------------------------------------------------------------
(* An operation that starts ends the harvest that nothing happened since.  *)
LEMMA StartClean ==
  ASSUME ContentInv, NEW k, Start(k), mapped' = mapped \/ k = "mmap"
  PROVE  Clean' /\ Served'
<1>1. asked' = FALSE /\ delivered' = FALSE /\ setup' = setup /\ k \in setup.kinds
  BY DEF Start
<1> QED BY <1>1 DEF ContentInv, Clean, Served, Mmap

(* A call on content begins: it has nothing to report yet.                 *)
LEMMA EnterContent ==
  ASSUME Orderly, Types, NamesInv, ContentInv, NEW t \in Threads, Enter(t)
  PROVE  ContentInv'
<1>1. PICK k \in DataKinds, i \in Inodes :
        /\ MayCall(t) /\ Start(k)
        /\ \E a \in Arguments(k) :
             LET c == Call(k, i, dentry[i], dentry[i], a[1], a[2], a[3])
             IN /\ k # "append" => c.off + c.len <= setup.cells
                /\ c.len % c.seg = 0 /\ MayChange(c)
                /\ calls' = [calls EXCEPT ![t] = c]
        /\ UNCHANGED <<primary, mmap_files, ring, lost, user, sink>>
  BY DEF Enter
<1>2. PICK c : /\ calls' = [calls EXCEPT ![t] = c] /\ MayChange(c)
               /\ c.kind = k /\ c.ino = i /\ c.at = "entered"
               /\ c.kind \in {"zero", "zero_keep", "punch"} => c.len >= 1
  <2>1. PICK a \in Arguments(k) :
          LET c == Call(k, i, dentry[i], dentry[i], a[1], a[2], a[3])
          IN calls' = [calls EXCEPT ![t] = c] /\ MayChange(c)
    BY <1>1
  <2> DEFINE d == Call(k, i, dentry[i], dentry[i], a[1], a[2], a[3])
  <2>2. d.kind = k /\ d.ino = i /\ d.at = "entered" /\ d.len = a[2]
    BY DEF Call
  <2>3. k \in {"zero", "zero_keep", "punch"} => a[2] >= 1
    <3> SUFFICES ASSUME k \in {"zero", "zero_keep", "punch"} PROVE a[2] >= 1
      OBVIOUS
    <3>1. Arguments(k) = {<<o, n, 1>> : o \in 0..(setup.cells - 1), n \in 1..setup.len}
      BY DEF Arguments
    <3> QED BY <3>1
  <2> HIDE DEF d
  <2>4. calls' = [calls EXCEPT ![t] = d] /\ MayChange(d)
    BY <2>1 DEF d
  <2> QED BY <2>2, <2>3, <2>4
<1>3. /\ UNCHANGED <<dir, data, dentry, mapped, dirty, mmap_files, ring, lost, files, batch,
                    batch_error, backup, daemon>>
      /\ Idle(t) /\ calls \in [Threads -> Records \cup {NoCall}] /\ ring \in Seq(Events)
  BY <1>1 DEF primary, user, sink, MayCall, Types, CallTypes, RingTypes
<1>4. calls'[t] = c /\ \A u \in Threads : u # t => calls'[u] = calls[u] /\ (Idle(u)' <=> Idle(u))
  BY <1>2, <1>3 DEF Idle
<1>5. c.kind \notin NameKinds
  BY <1>2 DEF DataKinds, NameKinds, Renames, Writes, Allocs
<1>6. /\ SizesRight /\ NamesGone /\ Apart /\ RingRight /\ PagesRight /\ Ahead /\ Batched
  BY DEF ContentInv, CallsRight
<1>7. SizesRight'
  <2> SUFFICES ASSUME NEW u \in Threads, ~Idle(u)'
               PROVE  SizeRight(calls'[u], data'[calls'[u].ino])
    BY DEF SizesRight, SizeRight, Unsent, Val
  <2>1. CASE u = t
    BY <1>2, <1>4, <2>1 DEF SizeRight
  <2>2. CASE u # t
    BY <1>3, <1>4, <1>6, <2>2 DEF SizesRight
  <2> QED BY <2>1, <2>2
<1>8. NamesGone'
  <2>1. \A u \in Threads : ~Idle(u)' /\ calls'[u].kind \in NameKinds =>
          ~Idle(u) /\ calls'[u] = calls[u] /\ mapped' = mapped
    BY <1>3, <1>4, <1>5
  <2> QED BY <1>3, <1>6, <2>1, NamesGoneKept
<1>9. Apart'
  <2>1. ASSUME NEW u \in Threads, u # t, ~Idle(u), calls[u].ino = i
        PROVE  Together(c, calls[u]) /\ Together(calls[u], c)
    <3>1. Together(c, calls[u])
      BY <1>2, <2>1 DEF MayChange, OnFile
    <3> QED BY <3>1 DEF Together
  <2> SUFFICES ASSUME NEW u \in Threads, NEW v \in Threads, u # v, ~Idle(u)', ~Idle(v)'
               PROVE  /\ calls'[u].ino = calls'[v].ino => Together(calls'[u], calls'[v])
                      /\ ~(calls'[u].kind \in NameKinds /\ calls'[v].kind \in NameKinds)
    BY DEF Apart, Together, CellsOf
  <2>2. CASE u = t
    BY <1>2, <1>4, <1>5, <2>1, <2>2
  <2>3. CASE v = t
    BY <1>2, <1>4, <1>5, <2>1, <2>3
  <2>4. CASE u # t /\ v # t
    BY <1>4, <1>6, <2>4 DEF Apart
  <2> QED BY <2>2, <2>3, <2>4
<1>10. RingRight'
  BY <1>3, <1>6, RingKept
<1>11. PagesRight'
  <2>1. \A j \in mapped : dentry'[j] = dentry[j] /\ (Live(j)' => Live(j))
    BY <1>3 DEF Live
  <2> QED BY <1>3, <1>6, <2>1, PagesKept
<1>12. ASSUME NEW T \in Tables, Follows(T) PROVE Follows(T)'
  <2>1. \A n : Changing(n)' <=> Changing(n)
    BY <1>3, <1>4, <1>5 DEF Changing
  <2>2. /\ \A u \in Threads : \A j : Renaming(u, j)' <=> Renaming(u, j)
        /\ \A j : Swapping(j) => Swapping(j)'
    BY <1>3, <1>4, <1>5 DEF Renaming, Swapping, Plain, NameKinds, Renames
  <2>3. NamesFollow(T)'
    <3>1. ASSUME NEW u \in Threads, ~Idle(u)', calls'[u].kind \in Plain
          PROVE  /\ calls'[u].name \in T.has
                 /\ calls'[u].kind = "noreplace" => calls'[u].nname \notin T.has
      <4>1. ~Idle(u) /\ calls'[u] = calls[u]
        BY <1>4, <1>5, <3>1 DEF Plain, NameKinds
      <4> QED BY <1>12, <3>1, <4>1 DEF Follows, NamesFollow
    <3> QED BY <1>3, <1>12, <2>1, <3>1 DEF Follows, NamesFollow
  <2>4. ASSUME NEW j \in Inodes, NEW s \in Names, Source(j, s)' PROVE Right(T, j, s)'
    <3>1. Source(j, s)
      <4>1. \A u \in Threads : Renaming(u, j) => calls'[u] = calls[u]
        BY <1>3, <1>4 DEF Renaming
      <4> QED BY <1>3, <2>2, <2>4, <4>1 DEF Source, Live
    <3>2. Right(T, j, s)
      BY <1>12, <3>1 DEF Follows
    <3>3. \A u \in Threads : Pending(u, j) => Pending(u, j)' /\ calls'[u] = calls[u]
      BY <1>3, <1>4 DEF Pending
    <3>4. \A q \in Places : Stale(j, q) => Stale(j, q)'
      BY <1>3 DEF Stale, Covers, OnContent, Fills
    <3> QED BY <1>3, <3>2, <3>3, <3>4, RightSame
  <2> QED BY <2>3, <2>4 DEF Follows
<1>13. Ahead'
  BY <1>3, <1>6, <1>12, AheadSame
<1> QED BY <1>1, <1>3, <1>6, <1>7, <1>8, <1>9, <1>10, <1>11, <1>13, StartClean
        DEF ContentInv, CallsRight, Batched

(* A call on names begins, and has its effect at once.                     *)
LEMMA NamedFacts ==
  ASSUME Types, NEW t \in Threads, NEW k \in NameKinds, NEW i \in Inodes, NEW n \in Names,
         NEW m \in Names, Named(t, Call(k, i, n, m, 0, 0, 1))
  PROVE  /\ ~Idle(t)' /\ calls'[t].kind = k /\ calls'[t].ino = i /\ calls'[t].at = "done"
         /\ calls'[t].name = n /\ calls'[t].nname = m
         /\ \A u \in Threads : u # t => calls'[u] = calls[u] /\ (Idle(u)' <=> Idle(u))
<1> DEFINE d == [Call(k, i, n, m, 0, 0, 1) EXCEPT !.at = "done"]
<1>1. d.kind = k /\ d.ino = i /\ d.at = "done" /\ d.name = n /\ d.nname = m
  BY DEF Call
<1>2. calls' = [calls EXCEPT ![t] = d] /\ calls \in [Threads -> Records \cup {NoCall}]
  BY DEF Named, Types, CallTypes
<1>3. d \in Records
  BY SetupTyped, CallTyped DEF Types
<1> HIDE DEF d
<1> QED BY <1>1, <1>2, <1>3, FileAssumption DEF Idle

LEMMA NamedSizes ==
  ASSUME SizesRight, NEW t \in Threads, calls'[t].kind \in NameKinds, calls'[t].at = "done",
         \A u \in Threads : u # t => calls'[u] = calls[u] /\ (Idle(u)' <=> Idle(u)),
         UNCHANGED data
  PROVE  SizesRight'
<1> SUFFICES ASSUME NEW u \in Threads, ~Idle(u)'
             PROVE  SizeRight(calls'[u], data'[calls'[u].ino])
  BY DEF SizesRight, SizeRight, Unsent, Val
<1>1. CASE u = t
  <2>1. Unsent(calls'[t], Len(data'[calls'[t].ino])) = {}
    BY UnsentCases
  <2> QED BY <1>1, <2>1 DEF SizeRight, NameKinds, Renames, Writes
<1>2. CASE u # t
  BY <1>2 DEF SizesRight
<1> QED BY <1>1, <1>2

LEMMA NamedApart ==
  ASSUME Apart, ~Locked, NEW t \in Threads, NEW i, calls'[t].ino = i, OnFile(i) = {},
         \A u \in Threads : u # t => calls'[u] = calls[u] /\ (Idle(u)' <=> Idle(u))
  PROVE  Apart'
<1>1. ASSUME NEW u \in Threads, u # t, ~Idle(u) PROVE calls[u].ino # i /\ calls[u].kind \notin NameKinds
  BY <1>1 DEF OnFile, Locked
<1> SUFFICES ASSUME NEW u \in Threads, NEW v \in Threads, u # v, ~Idle(u)', ~Idle(v)'
             PROVE  /\ calls'[u].ino = calls'[v].ino => Together(calls'[u], calls'[v])
                    /\ ~(calls'[u].kind \in NameKinds /\ calls'[v].kind \in NameKinds)
  BY DEF Apart, Together, CellsOf
<1>2. CASE u = t
  BY <1>1, <1>2
<1>3. CASE v = t
  BY <1>1, <1>3
<1>4. CASE u # t /\ v # t
  BY <1>4 DEF Apart
<1> QED BY <1>2, <1>3, <1>4

LEMMA NamedGone ==
  ASSUME ~Locked, NEW t \in Threads, NameRight(calls[t])',
         \A u \in Threads : u # t => calls'[u] = calls[u] /\ (Idle(u)' <=> Idle(u))
  PROVE  NamesGone'
<1> SUFFICES ASSUME NEW u \in Threads, ~Idle(u)'
             PROVE  NameRight(calls[u])'
  BY DEF NamesGone
<1>1. CASE u = t
  BY <1>1 DEF NameRight
<1>2. CASE u # t
  <2>1. calls'[u].kind \notin NameKinds
    BY <1>2 DEF Locked
  <2> QED BY <2>1 DEF NameRight
<1> QED BY <1>1, <1>2

LEMMA UnlinkContent ==
  ASSUME Orderly, Types, NamesInv, ContentInv, NEW t \in Threads, vfs_unlink(t)
  PROVE  ContentInv'
<1>1. PICK n \in Names :
        /\ MayCall(t) /\ ~Locked /\ Start("unlink")
        /\ dir[n] # NoIno /\ MayUnname(dir[n])
        /\ dir' = [dir EXCEPT ![n] = NoIno]
        /\ Named(t, Call("unlink", dir[n], n, n, 0, 0, 1))
        /\ UNCHANGED <<data, dentry, mapped, dirty, mmap_files, ring, lost, user, sink>>
  BY DEF vfs_unlink
<1>2. PICK i : i = dir[n]
  OBVIOUS
<1>3. /\ dir \in [Names -> Inodes \cup {NoIno}] /\ dentry \in [Inodes -> Names]
      /\ NoIno \notin Inodes /\ mapped \subseteq Inodes /\ i \in Inodes /\ dentry[i] = n
      /\ OnFile(i) = {} /\ Idle(t) /\ ring \in Seq(Events)
      /\ UNCHANGED <<files, batch, batch_error, backup, daemon>>
  BY <1>1, <1>2, FileAssumption
     DEF Types, NameTypes, MapTypes, RingTypes, NamesInv, NamedRight, MayUnname, MayCall, user, sink
<1>4. /\ ~Idle(t)' /\ calls'[t].kind = "unlink" /\ calls'[t].ino = i /\ calls'[t].at = "done"
      /\ calls'[t].name = n /\ calls'[t].nname = n
      /\ \A u \in Threads : u # t => calls'[u] = calls[u] /\ (Idle(u)' <=> Idle(u))
  BY <1>1, <1>2, <1>3, NamedFacts DEF NameKinds, Renames
<1>5. dir'[n] = NoIno /\ \A m \in Names : m # n => dir'[m] = dir[m]
  BY <1>1, <1>3
<1>6. /\ SizesRight /\ NamesGone /\ Apart /\ RingRight /\ PagesRight /\ Ahead /\ Batched
  BY DEF ContentInv, CallsRight
<1>7. \A u \in Threads : u # t /\ ~Idle(u) => calls[u].kind \notin NameKinds /\ calls[u].ino # i
  BY <1>1, <1>3 DEF Locked, OnFile
<1>8. SizesRight' /\ Apart' /\ NamesGone'
  <2>1. SizesRight'
    BY <1>1, <1>4, <1>6, NamedSizes DEF NameKinds, Renames
  <2>2. Apart'
    BY <1>1, <1>3, <1>4, <1>6, NamedApart
  <2>3. NameRight(calls[t])'
    BY <1>1, <1>3, <1>4, <1>5 DEF NameRight, Renames
  <2> QED BY <1>1, <1>4, <2>1, <2>2, <2>3, NamedGone
<1>9. \A j \in Inodes : Live(j)' => Live(j) /\ j # i
  BY <1>1, <1>3, <1>5 DEF Live
<1>10. RingRight' /\ PagesRight'
  <2>1. RingRight'
    BY <1>1, <1>6, RingKept
  <2>2. \A j \in mapped : dentry'[j] = dentry[j] /\ (Live(j)' => Live(j))
    BY <1>1, <1>3, <1>9
  <2> QED BY <1>1, <1>3, <1>6, <2>1, <2>2, PagesKept
<1>11. ASSUME NEW T \in Tables, Follows(T) PROVE Follows(T)'
  <2>1. \A m : ~Changing(m)
    BY <1>1 DEF Changing, Locked
  <2>2. NamesFollow(T)'
    <3>1. ASSUME NEW m \in Names, ~Changing(m)' PROVE m \in T.has <=> dir'[m] # NoIno
      <4>1. m # n
        BY <1>4, <3>1 DEF Changing, NameKinds, Renames
      <4> QED BY <1>5, <1>11, <2>1, <4>1 DEF Follows, NamesFollow
    <3>2. \A u \in Threads : ~(~Idle(u)' /\ calls'[u].kind \in Plain)
      BY <1>4, <1>7 DEF Plain, NameKinds, Renames
    <3> QED BY <3>1, <3>2 DEF NamesFollow
  <2>3. ASSUME NEW j \in Inodes, NEW s \in Names, Source(j, s)' PROVE Right(T, j, s)'
    <3>1. \A u \in Threads : ~Renaming(u, j)'
      BY <1>4, <1>7 DEF Renaming, Plain, NameKinds, Renames
    <3>2. (\A u \in Threads : ~Renaming(u, j)) /\ ~Swapping(j)
      BY <1>1 DEF Locked, Renaming, Swapping, Plain, NameKinds, Renames
    <3>3. Source(j, s)
      BY <1>1, <1>9, <2>3, <3>1, <3>2 DEF Source
    <3>4. Right(T, j, s)
      BY <1>11, <3>3 DEF Follows
    <3>5. \A u \in Threads : Pending(u, j) => Pending(u, j)' /\ calls'[u] = calls[u]
      BY <1>3, <1>4 DEF Pending
    <3>6. \A q \in Places : Stale(j, q) => Stale(j, q)'
      BY <1>1 DEF Stale, Covers, OnContent, Fills
    <3> QED BY <1>1, <3>4, <3>5, <3>6, RightSame
  <2> QED BY <2>2, <2>3 DEF Follows
<1>12. Ahead'
  BY <1>1, <1>3, <1>6, <1>11, AheadSame
<1> QED BY <1>1, <1>3, <1>6, <1>8, <1>10, <1>12, StartClean DEF ContentInv, CallsRight, Batched

LEMMA RenamedContent ==
  ASSUME Orderly, Types, NamesInv, ContentInv, NEW t \in Threads, NEW n \in Names, NEW m \in Names,
         NEW k \in Plain, n # m, MayCall(t), ~Locked, Start(k), dir[n] # NoIno,
         MayRename(dir[n], m), k = "noreplace" => dir[m] = NoIno, Rename(n, m),
         Named(t, Call(k, dir[n], n, m, 0, 0, 1)),
         UNCHANGED <<data, mapped, dirty, mmap_files, ring, lost, user, sink>>
  PROVE  ContentInv'
<1>1. /\ n # m /\ MayCall(t) /\ ~Locked /\ Start(k)
      /\ dir[n] # NoIno /\ MayRename(dir[n], m) /\ (k = "noreplace" => dir[m] = NoIno)
      /\ dir' = [dir EXCEPT ![n] = NoIno, ![m] = dir[n]]
      /\ dentry' = [dentry EXCEPT ![dir[n]] = m]
      /\ Named(t, Call(k, dir[n], n, m, 0, 0, 1))
      /\ UNCHANGED <<data, mapped, dirty, mmap_files, ring, lost, user, sink>>
      /\ k \in NameKinds /\ k \in Renames /\ k # "exchange" /\ k # "unlink" /\ k # "mmap"
  BY DEF Rename, Plain, NameKinds, Renames
<1>2. PICK i : i = dir[n]
  OBVIOUS
<1>3. /\ dir \in [Names -> Inodes \cup {NoIno}] /\ dentry \in [Inodes -> Names]
      /\ NoIno \notin Inodes /\ mapped \subseteq Inodes /\ i \in Inodes /\ dentry[i] = n
      /\ OnFile(i) = {} /\ i \notin mapped /\ Idle(t) /\ ring \in Seq(Events)
      /\ UNCHANGED <<files, batch, batch_error, backup, daemon>>
  BY <1>1, <1>2, FileAssumption
     DEF Types, NameTypes, MapTypes, RingTypes, NamesInv, NamedRight, MayRename, MayCall, user, sink
<1>4. /\ ~Idle(t)' /\ calls'[t].kind = k /\ calls'[t].ino = i /\ calls'[t].at = "done"
      /\ calls'[t].name = n /\ calls'[t].nname = m
      /\ \A u \in Threads : u # t => calls'[u] = calls[u] /\ (Idle(u)' <=> Idle(u))
  BY <1>1, <1>2, <1>3, NamedFacts
<1>5. /\ dir' = [dir EXCEPT ![n] = NoIno, ![m] = i] /\ dentry' = [dentry EXCEPT ![i] = m]
  BY <1>1, <1>2
<1>6. /\ dir'[n] = NoIno /\ dir'[m] = i /\ \A q \in Names : q # n /\ q # m => dir'[q] = dir[q]
      /\ dentry'[i] = m /\ \A j \in Inodes : j # i => dentry'[j] = dentry[j]
  BY <1>1, <1>3, <1>5
<1>7. /\ SizesRight /\ NamesGone /\ Apart /\ RingRight /\ PagesRight /\ Ahead /\ Batched
  BY DEF ContentInv, CallsRight
<1>8. \A u \in Threads : u # t /\ ~Idle(u) => calls[u].kind \notin NameKinds /\ calls[u].ino # i
  BY <1>1, <1>3 DEF Locked, OnFile
<1>9. SizesRight' /\ Apart' /\ NamesGone'
  <2>1. SizesRight'
    BY <1>1, <1>4, <1>7, NamedSizes
  <2>2. Apart'
    BY <1>1, <1>3, <1>4, <1>7, NamedApart
  <2>3. NameRight(calls[t])'
    BY <1>1, <1>3, <1>4, <1>6 DEF NameRight
  <2> QED BY <1>1, <1>4, <2>1, <2>2, <2>3, NamedGone
<1>10. \A j \in Inodes : Live(j)' /\ j # i => Live(j)
  BY <1>3, <1>6 DEF Live
<1>11. RingRight' /\ PagesRight'
  <2>1. RingRight'
    BY <1>1, <1>7, RingKept
  <2>2. \A j \in mapped : dentry'[j] = dentry[j] /\ (Live(j)' => Live(j))
    BY <1>3, <1>6, <1>10
  <2> QED BY <1>1, <1>3, <1>7, <2>1, <2>2, PagesKept
<1>12. ~Idle(t)'
  BY <1>4
<1>13. ASSUME NEW T \in Tables, Follows(T) PROVE Follows(T)'
  <2>1. \A q : ~Changing(q)
    BY <1>1 DEF Changing, Locked
  <2>2. NamesFollow(T)'
    <3>1. ASSUME NEW q \in Names, ~Changing(q)' PROVE q \in T.has <=> dir'[q] # NoIno
      <4>1. q # n /\ q # m
        BY <1>1, <1>4, <1>12, <3>1 DEF Changing
      <4> QED BY <1>6, <1>13, <2>1, <4>1 DEF Follows, NamesFollow
    <3>2. ASSUME NEW u \in Threads, ~Idle(u)', calls'[u].kind \in Plain
          PROVE  /\ calls'[u].name \in T.has
                 /\ calls'[u].kind = "noreplace" => calls'[u].nname \notin T.has
      <4>1. u = t
        BY <1>4, <1>8, <3>2 DEF Plain, NameKinds
      <4>2. n \in T.has /\ (k = "noreplace" => m \notin T.has)
        BY <1>1, <1>13, <2>1 DEF Follows, NamesFollow
      <4> QED BY <1>4, <4>1, <4>2
    <3> QED BY <3>1, <3>2 DEF NamesFollow
  <2>3. ASSUME NEW j \in Inodes, NEW s \in Names, Source(j, s)' PROVE Right(T, j, s)'
    <3>1. (\A u \in Threads : ~Renaming(u, j)) /\ ~Swapping(j)
      BY <1>1 DEF Locked, Renaming, Swapping, Plain, NameKinds, Renames
    <3>2. Source(j, s)
      <4>1. CASE j = i
        <5>1. s = n
          BY <1>4, <1>12, <2>3, <4>1, <1>8 DEF Source, Renaming, Plain, NameKinds
        <5> QED BY <1>2, <1>3, <3>1, <4>1, <5>1 DEF Source, Live
      <4>2. CASE j # i
        <5>1. \A u \in Threads : ~Renaming(u, j)'
          BY <1>4, <1>8, <4>2 DEF Renaming, Plain, NameKinds
        <5>2. s = dentry[j] /\ Live(j)
          BY <1>6, <1>10, <2>3, <4>2, <5>1 DEF Source
        <5> QED BY <3>1, <5>2 DEF Source
      <4> QED BY <4>1, <4>2
    <3>3. Right(T, j, s)
      BY <1>13, <3>2 DEF Follows
    <3>4. \A u \in Threads : Pending(u, j) => Pending(u, j)' /\ calls'[u] = calls[u]
      BY <1>3, <1>4 DEF Pending
    <3>5. ASSUME NEW q \in Places, Stale(j, q) PROVE Stale(j, q)'
      <4>1. j # i /\ dentry'[j] = dentry[j]
        BY <1>3, <1>6, <3>5 DEF Stale
      <4> QED BY <1>1, <3>5, <4>1 DEF Stale, Covers, OnContent, Fills
    <3> QED BY <1>1, <3>3, <3>4, <3>5, RightSame
  <2> QED BY <2>2, <2>3 DEF Follows
<1>14. Ahead'
  BY <1>1, <1>3, <1>7, <1>13, AheadSame
<1> QED BY <1>1, <1>3, <1>7, <1>9, <1>11, <1>14, StartClean DEF ContentInv, CallsRight, Batched

(* An exchange: what is left alone is everything but the two files and the *)
(* two names, of which nothing is claimed until its event comes.           *)
LEMMA ExchangedContent ==
  ASSUME Orderly, Types, NamesInv, ContentInv, NEW t \in Threads, NEW n \in Names, NEW m \in Names,
         n # m, MayCall(t), ~Locked, Start("exchange"), dir[n] # NoIno,
         MayRename(dir[n], m), Exchange(n, m),
         Named(t, Call("exchange", dir[n], n, m, 0, 0, 1)),
         UNCHANGED <<data, mapped, dirty, mmap_files, ring, lost, user, sink>>
  PROVE  ContentInv'
<1>1. PICK i, l : i = dir[n] /\ l = dir[m]
  OBVIOUS
<1>2. /\ dir \in [Names -> Inodes \cup {NoIno}] /\ dentry \in [Inodes -> Names]
      /\ NoIno \notin Inodes /\ mapped \subseteq Inodes /\ ring \in Seq(Events)
      /\ i \in Inodes /\ dentry[i] = n /\ l \in Inodes /\ dentry[l] = m /\ i # l
      /\ OnFile(i) = {} /\ i \notin mapped /\ OnFile(l) = {} /\ l \notin mapped /\ Idle(t)
      /\ UNCHANGED <<files, batch, batch_error, backup, daemon>>
  BY <1>1, FileAssumption DEF Types, NameTypes, MapTypes, RingTypes, NamesInv, NamedRight,
     Exchange, MayRename, MayCall, user, sink
<1>3. /\ ~Idle(t)' /\ calls'[t].kind = "exchange" /\ calls'[t].ino = i /\ calls'[t].at = "done"
      /\ calls'[t].name = n /\ calls'[t].nname = m
      /\ \A u \in Threads : u # t => calls'[u] = calls[u] /\ (Idle(u)' <=> Idle(u))
  BY <1>1, <1>2, NamedFacts DEF NameKinds, Renames
<1>4. dir' = [dir EXCEPT ![n] = l, ![m] = i] /\ dentry' = [dentry EXCEPT ![i] = m, ![l] = n]
  BY <1>1 DEF Exchange
<1>5. /\ dir'[n] = l /\ dir'[m] = i /\ \A q \in Names : q # n /\ q # m => dir'[q] = dir[q]
      /\ \A j \in Inodes : j # i /\ j # l => dentry'[j] = dentry[j]
  BY <1>2, <1>4
<1>6. /\ SizesRight /\ NamesGone /\ Apart /\ RingRight /\ PagesRight /\ Ahead /\ Batched
  BY DEF ContentInv, CallsRight
<1>7. \A u \in Threads : u # t /\ ~Idle(u) => calls[u].kind \notin NameKinds
  BY DEF Locked
<1>8. SizesRight' /\ Apart' /\ NamesGone'
  <2>1. SizesRight'
    BY <1>3, <1>6, NamedSizes DEF NameKinds, Renames
  <2>2. Apart'
    BY <1>2, <1>3, <1>6, NamedApart
  <2>3. NameRight(calls[t])'
    BY <1>2, <1>3, <1>5 DEF NameRight
  <2> QED BY <1>3, <2>1, <2>2, <2>3, NamedGone
<1>9. ASSUME NEW j \in Inodes, j # i, j # l, Live(j)'
      PROVE  Live(j)
  BY <1>2, <1>5, <1>9 DEF Live
<1>10. RingRight' /\ PagesRight'
  <2>1. RingRight'
    BY <1>6, RingKept
  <2>2. \A j \in mapped : dentry'[j] = dentry[j] /\ (Live(j)' => Live(j))
    BY <1>2, <1>5, <1>9
  <2> QED BY <1>2, <1>6, <2>1, <2>2, PagesKept
<1>11. ~Idle(t)' /\ \A q : ~Changing(q)
  BY <1>3 DEF Changing, Locked
<1>12. ASSUME NEW T \in Tables, Follows(T) PROVE Follows(T)'
  <2>1. NamesFollow(T)'
    <3>1. ASSUME NEW q \in Names, ~Changing(q)' PROVE q \in T.has <=> dir'[q] # NoIno
      <4>1. q # n /\ q # m
        BY <1>3, <1>11, <3>1 DEF Changing, NameKinds, Renames
      <4> QED BY <1>5, <1>11, <1>12, <4>1 DEF Follows, NamesFollow
    <3>2. \A u \in Threads : ~(~Idle(u)' /\ calls'[u].kind \in Plain)
      BY <1>3, <1>7 DEF Plain, NameKinds
    <3> QED BY <3>1, <3>2 DEF NamesFollow
  <2>2. ASSUME NEW j \in Inodes, NEW s \in Names, Source(j, s)' PROVE Right(T, j, s)'
    <3>1. j # i /\ j # l
      BY <1>3, <1>5, <1>11, <2>2 DEF Source, Swapping
    <3>2. \A u \in Threads : ~Renaming(u, j)'
      BY <1>3, <1>7 DEF Renaming, Plain, NameKinds
    <3>3. (\A u \in Threads : ~Renaming(u, j)) /\ ~Swapping(j)
      BY DEF Locked, Renaming, Swapping, Plain, NameKinds, Renames
    <3>4. s = dentry[j] /\ Live(j) /\ dentry'[j] = dentry[j]
      BY <1>5, <1>9, <2>2, <3>1, <3>2 DEF Source
    <3>5. Right(T, j, s)
      BY <1>12, <3>3, <3>4 DEF Follows, Source
    <3>6. \A u \in Threads : Pending(u, j) => Pending(u, j)' /\ calls'[u] = calls[u]
      BY <1>2, <1>3 DEF Pending
    <3>7. \A q \in Places : Stale(j, q) => Stale(j, q)'
      BY <3>4 DEF Stale, Covers, OnContent, Fills
    <3> QED BY <3>5, <3>6, <3>7, RightSame
  <2> QED BY <2>1, <2>2 DEF Follows
<1>13. Ahead'
  BY <1>2, <1>6, <1>12, AheadSame
<1> QED BY <1>2, <1>6, <1>8, <1>10, <1>13, StartClean DEF ContentInv, CallsRight, Batched

LEMMA RenameContent ==
  ASSUME Orderly, Types, NamesInv, ContentInv, NEW t \in Threads, vfs_rename(t)
  PROVE  ContentInv'
<1>1. PICK n \in Names, m \in Names, k \in Renames :
        /\ n # m /\ MayCall(t) /\ ~Locked /\ Start(k)
        /\ dir[n] # NoIno /\ MayRename(dir[n], m)
        /\ \/ k = "rename" /\ Rename(n, m)
           \/ k = "noreplace" /\ dir[m] = NoIno /\ Rename(n, m)
           \/ k = "exchange" /\ Exchange(n, m)
        /\ Named(t, Call(k, dir[n], n, m, 0, 0, 1))
        /\ UNCHANGED <<data, mapped, dirty, mmap_files, ring, lost, user, sink>>
  BY DEF vfs_rename
<1>2. CASE k = "exchange"
  BY <1>1, <1>2, ExchangedContent
<1>3. CASE k # "exchange"
  <2>1. k \in Plain /\ Rename(n, m) /\ (k = "noreplace" => dir[m] = NoIno)
    BY <1>1, <1>3 DEF Plain
  <2> QED BY <1>1, <2>1, RenamedContent
<1> QED BY <1>2, <1>3

-----------------------------------------------------------------------------
(* Mappings and pages.                                                     *)

(* Calls and names are left alone, and so is the content of a file a call  *)
(* is under way on.                                                        *)
LEMMA CallsKept ==
  ASSUME Types, CallsRight, UNCHANGED <<calls, dir>>,
         \A u \in Threads : ~Idle(u) =>
           /\ data'[calls[u].ino] = data[calls[u].ino]
           /\ calls[u].kind \in NameKinds =>
                \A j \in {calls[u].ino, dir[calls[u].name]} : j \in mapped' => j \in mapped
  PROVE  CallsRight'
<1>1. \A u : Idle(u)' <=> Idle(u)
  BY DEF Idle
<1>2. SizesRight'
  BY <1>1, SizesKept DEF CallsRight
<1>3. NamesGone'
  <2>1. \A u \in Threads : ~Idle(u)' /\ calls'[u].kind \in NameKinds =>
          /\ ~Idle(u) /\ calls'[u] = calls[u]
          /\ \A j \in {calls[u].ino, dir[calls[u].name]} : j \in mapped' => j \in mapped
    BY <1>1
  <2> QED BY <2>1, NamesGoneKept DEF CallsRight
<1>4. Apart'
  <2>1. \A u \in Threads : ~Idle(u)' =>
          /\ ~Idle(u) /\ calls'[u].kind = calls[u].kind /\ calls'[u].ino = calls[u].ino
          /\ calls[u].kind \in Writes => calls'[u].off = calls[u].off /\ calls'[u].len = calls[u].len
    BY <1>1
  <2> QED BY <2>1, ApartKept DEF CallsRight
<1> QED BY <1>2, <1>3, <1>4 DEF CallsRight

LEMMA NothingTyped == <<>> \in Seq(CellValues) /\ FALSE \in BOOLEAN
OBVIOUS

LEMMA MmapContent ==
  ASSUME Orderly, Types, NamesInv, ContentInv, NEW i \in Inodes, handle_security_mmap_file(i)
  PROVE  ContentInv'
<1>1. PICK e : e = Event("mmap", Call("mmap", i, dentry[i], dentry[i], 0, 0, 1))
  OBVIOUS
<1>2. /\ Start("mmap") /\ MayMap(i) /\ mapped' = mapped \cup {i}
      /\ ring' = IF Room THEN Append(ring, e) ELSE ring
      /\ UNCHANGED <<dir, data, dentry, dirty, calls, lost, files, batch, batch_error, daemon, backup>>
  BY <1>1 DEF handle_security_mmap_file, user, sink
<1>3. /\ e.op = "mmap" /\ e.ino = i /\ e.name = dentry[i] /\ e.nname = dentry[i]
      /\ e.off = 0 /\ e.size = 0 /\ e.data = <<>> /\ e.keep = FALSE /\ e.flags = "none"
  BY <1>1 DEF Event, Call
<1>4. dentry[i] \in Names /\ mapped \subseteq Inodes /\ ring \in Seq(Events)
  BY DEF Types, NameTypes, MapTypes, RingTypes
<1>5. EventRight(e) /\ ~OnContent(e) /\ ~OnNames(e)
  <2>1. e.data \in Seq(CellValues) /\ e.keep \in BOOLEAN
    BY <1>3, NothingTyped
  <2>2. e.off \in Nat /\ e.size \in Nat
    BY <1>3
  <2> QED BY <1>3, <1>4, <2>1, <2>2 DEF EventRight, Ops, OnContent, OnNames
<1>6. CallsRight /\ RingRight /\ PagesRight /\ Ahead /\ Batched
  BY DEF ContentInv
<1>7. CallsRight'
  <2>1. ASSUME NEW u \in Threads, ~Idle(u), calls[u].kind \in NameKinds
        PROVE  i \notin {calls[u].ino, dir[calls[u].name]}
    <3>1. u \notin OnFile(i)
      BY <1>2, <2>1 DEF MayMap
    <3>2. calls[u].kind # "exchange" => dir[calls[u].name] = NoIno
      BY <1>6, <2>1 DEF CallsRight, NamesGone, NameRight
    <3> QED BY <2>1, <3>1, <3>2, FileAssumption DEF OnFile
  <2>2. \A u \in Threads : ~Idle(u) =>
           /\ data'[calls[u].ino] = data[calls[u].ino]
           /\ calls[u].kind \in NameKinds =>
                \A j \in {calls[u].ino, dir[calls[u].name]} : j \in mapped' => j \in mapped
    BY <1>2, <2>1
  <2> QED BY <1>2, <1>6, <2>2, CallsKept
<1>8. RingRight' /\ PagesRight'
  <2>1. ring' = ring \/ ring' = Append(ring, e)
    BY <1>2
  <2>2. RingRight'
    BY <1>2, <1>3, <1>5, <1>6, <2>1, RingKept
  <2>3. \A j \in mapped : dentry'[j] = dentry[j] /\ (Live(j)' => Live(j))
    BY <1>2 DEF Live
  <2>4. \A j \in mapped : Tells(e, j) => e.name = dentry[j]
    BY <1>3 DEF Tells
  <2>5. UNCHANGED files
    BY <1>2
  <2> QED BY <1>3, <1>5, <1>6, <2>1, <2>2, <2>3, <2>4, <2>5, PagesKept
<1>9. ASSUME NEW T \in Tables, Follows(T) PROVE Follows(T)'
  <2>1. ASSUME NEW j \in Inodes, NEW k \in Places, Stale(j, k) PROVE Stale(j, k)'
    <3>1. ring' = ring \/ (ring' = Append(ring, e) /\ ~Covers(e, dentry[j], k))
      BY <1>2, <1>5 DEF Covers
    <3>2. mapped \subseteq mapped' /\ dentry'[j] = dentry[j] /\ (<<j, k>> \in dirty => <<j, k>> \in dirty')
      BY <1>2
    <3> QED BY <1>4, <2>1, <3>1, <3>2, StaleKept
  <2> QED BY <1>2, <1>9, <2>1, FollowsSame
<1>10. Ahead'
  <2>1. CASE Room
    <3>1. ring' = Append(ring, e) /\ UNCHANGED <<lost, batch, batch_error, backup, daemon>>
      BY <1>2, <2>1
    <3>2. ASSUME NEW T \in Tables, Follows(T) PROVE Applies(T, e) /\ Follows(After(T, e))'
      <4>1. PICK U : U = After(T, e)
        OBVIOUS
      <4>2. U = T
        BY <1>5, <4>1, SamePoints
      <4>3. Applies(T, e)
        BY <1>3 DEF Applies
      <4>4. Follows(U)'
        BY <1>9, <3>2, <4>2
      <4>5. (U = After(T, e))'
        BY <4>1
      <4> QED BY <4>1, <4>3, <4>4, <4>5
    <3> QED BY <1>5, <1>6, <3>1, <3>2, AheadAppended
  <2>2. CASE ~Room
    BY <1>2, <1>6, <1>9, <2>2, AheadSame
  <2> QED BY <2>1, <2>2
<1> QED BY <1>2, <1>6, <1>7, <1>8, <1>10, StartClean DEF ContentInv, Batched

(* A page is stored into: what the table has of it is out of date, and it  *)
(* is dirty.                                                               *)
LEMMA StoreContent ==
  ASSUME Orderly, Types, NamesInv, ContentInv, NEW i \in Inodes, Store(i)
  PROVE  ContentInv'
<1>1. PICK k \in 1..Len(data[i]) :
        /\ i \in mapped /\ Start("store") /\ MayStore(i)
        /\ data' = [data EXCEPT ![i][k] = ops + 1]
        /\ dirty' = dirty \cup {<<i, k>>}
        /\ UNCHANGED <<dir, dentry, mapped, hooks, ring, lost, user, sink>>
  BY DEF Store
<1>2. /\ data \in [Inodes -> Seq(Cells)] /\ OnFile(i) = {} /\ ring \in Seq(Events)
      /\ UNCHANGED <<calls, files, batch, batch_error, backup, daemon>>
  BY <1>1 DEF Types, DataTypes, RingTypes, MayStore, hooks, user, sink
<1>3. /\ \A j \in Inodes : j # i => data'[j] = data[j]
      /\ Len(data'[i]) = Len(data[i]) /\ \A p \in Places : p # k => Val(data'[i], p) = Val(data[i], p)
  <2>1. \A j \in Inodes : j # i => data'[j] = data[j]
    BY <1>1, <1>2
  <2>2. PICK old \in Seq(Cells) : old = data[i]
    BY <1>2
  <2>3. data'[i] = [old EXCEPT ![k] = ops + 1]
    BY <1>1, <1>2, <2>2
  <2>4. Len(data'[i]) = Len(old) /\ \A p \in 1..Len(old) : p # k => data'[i][p] = old[p]
    BY <2>3
  <2>5. \A p \in Places : p # k => Val(data'[i], p) = Val(old, p)
    BY <2>4 DEF Val, Places
  <2> QED BY <2>1, <2>2, <2>4, <2>5
<1>4. \A u \in Threads : ~Idle(u) => calls[u].ino # i /\ calls[u].ino \in Inodes
  BY <1>2, CallFacts DEF OnFile
<1>5. CallsRight /\ RingRight /\ PagesRight /\ Ahead /\ Batched
  BY DEF ContentInv
<1>6. CallsRight'
  <2>1. \A u \in Threads : ~Idle(u) =>
           /\ data'[calls[u].ino] = data[calls[u].ino]
           /\ mapped' = mapped
    BY <1>1, <1>3, <1>4
  <2> QED BY <1>1, <1>2, <1>5, <2>1, CallsKept
<1>7. RingRight' /\ PagesRight'
  <2>1. RingRight'
    BY <1>1, <1>5, RingKept
  <2>2. \A j \in mapped : dentry'[j] = dentry[j] /\ (Live(j)' => Live(j))
    BY <1>1 DEF Live
  <2> QED BY <1>1, <1>2, <1>5, <2>1, <2>2, PagesKept
<1>8. \A j, p : Stale(j, p) => Stale(j, p)'
  BY <1>1 DEF Stale, Covers, OnContent, Fills
<1>9. Stale(i, k)'
  BY <1>1 DEF Stale
<1>10. ASSUME NEW T \in Tables, Follows(T) PROVE Follows(T)'
  <2>1. \A n : Changing(n)' <=> Changing(n)
    BY <1>2 DEF Changing, Idle
  <2>2. NamesFollow(T)'
    BY <1>1, <1>2, <1>10, <2>1 DEF Follows, NamesFollow, Idle
  <2>3. ASSUME NEW j \in Inodes, NEW s \in Names, Source(j, s)' PROVE Right(T, j, s)'
    <3>1. Right(T, j, s)
      <4>1. Source(j, s)
        BY <1>1, <1>2, <2>3 DEF Source, Live, Renaming, Swapping, Idle
      <4> QED BY <1>10, <4>1 DEF Follows
    <3>2. CASE j = i
      <4>1. \A u \in Threads : ~Pending(u, i)
        BY <1>4 DEF Pending
      <4>2. /\ T.len[s] = Len(data[i])
            /\ \A p \in Places : T.cell[s][p] = Val(data[i], p) \/ Stale(i, p)
        BY <3>1, <3>2, <4>1 DEF Right, Sound, LenRight, Owed
      <4>3. \A p \in Places : T.cell[s][p] = Val(data'[i], p) \/ Stale(i, p)'
        BY <1>3, <1>8, <1>9, <4>2
      <4> QED BY <1>3, <3>2, <4>2, <4>3 DEF Right, LenRight, Val
    <3>3. CASE j # i
      <4>1. \A u \in Threads : Pending(u, j) => Pending(u, j)' /\ calls'[u] = calls[u]
        BY <1>2 DEF Pending, Idle
      <4> QED BY <1>3, <1>8, <3>1, <3>3, <4>1, RightSame
    <3> QED BY <3>2, <3>3
  <2> QED BY <2>2, <2>3 DEF Follows
<1>11. Ahead'
  BY <1>1, <1>2, <1>5, <1>10, AheadSame
<1> QED BY <1>1, <1>2, <1>5, <1>6, <1>7, <1>11, StartClean DEF ContentInv, Batched

LEMMA WrittenRight ==
  ASSUME NEW i \in Inodes, NEW k \in Nat \ {0}, NEW w, w = Written(<<i, k>>)
  PROVE  /\ EventRight(w) /\ w.op = "writeback" /\ w.ino = i /\ w.off = k - 1 /\ w.off + 1 = k
         /\ ~OnContent(w) /\ ~OnNames(w) /\ ~Naming(w)
<1>1. /\ w.op = "writeback" /\ w.ino = i /\ w.off = k - 1 /\ w.size = 1 /\ w.data = <<>>
      /\ w.keep = FALSE /\ w.flags = "none"
  BY DEF Written, Event, Call
<1>2. w.data \in Seq(CellValues) /\ w.keep \in BOOLEAN
  BY <1>1, NothingTyped
<1>3. w.off \in Nat /\ w.size \in Nat /\ w.off + 1 = k
  BY <1>1
<1>4. EventRight(w)
  BY <1>1, <1>2, <1>3 DEF EventRight, Ops
<1> QED BY <1>1, <1>3, <1>4 DEF OnContent, OnNames, Naming

(* A page that is written back leaves the dirty pages for the ring.        *)
LEMMA WritebackContent ==
  ASSUME Types, NamesInv, ContentInv, NEW page \in dirty, handle_folio_start_writeback(page)
  PROVE  ContentInv'
<1>0. PICK i \in Inodes, k \in Nat \ {0} : page = <<i, k>>
  <2>1. page \in Inodes \X (1..setup.cells) /\ setup.cells \in Nat
    BY SetupTyped DEF Types, DataTypes
  <2>2. page[1] \in Inodes /\ page[2] \in Nat \ {0} /\ page = <<page[1], page[2]>>
    BY <2>1
  <2> QED BY <2>2
<1>1. PICK w : w = Written(<<i, k>>)
  OBVIOUS
<1>2. /\ dirty' = dirty \ {<<i, k>>}
      /\ IF i \in mmap_files THEN Emit(w) ELSE UNCHANGED <<ring, lost>>
      /\ UNCHANGED <<app, dir, data, dentry, mapped, calls, files, batch, batch_error, daemon, backup>>
  BY <1>0, <1>1 DEF handle_folio_start_writeback, hooks, user, sink
<1>3. /\ EventRight(w) /\ w.op = "writeback" /\ w.ino = i /\ w.off + 1 = k
      /\ ~OnContent(w) /\ ~OnNames(w) /\ ~Naming(w)
  BY <1>1, WrittenRight
<1>4. mmap_files = mapped /\ mapped \subseteq Inodes /\ ring \in Seq(Events)
  BY DEF Types, MapTypes, RingTypes
<1>5. CallsRight /\ RingRight /\ PagesRight /\ Ahead /\ Batched /\ Clean /\ Served
  BY DEF ContentInv
<1>6. ring' = ring \/ (ring' = Append(ring, w) /\ i \in mapped)
  BY <1>2, <1>4 DEF Emit
<1>7. CallsRight'
  BY <1>2, <1>5, CallsKept
<1>8. RingRight' /\ PagesRight'
  <2>1. RingRight'
    BY <1>2, <1>3, <1>5, <1>6, RingKept
  <2>2. \A j \in mapped : dentry'[j] = dentry[j] /\ (Live(j)' => Live(j))
    BY <1>2 DEF Live
  <2>3. UNCHANGED files /\ (\A j : ~Tells(w, j)) /\ (w.op = "writeback" /\ ring' # ring => w.ino \in mapped)
    BY <1>2, <1>3, <1>6 DEF Tells
  <2>4. CASE ring' = ring
    BY <1>5, <2>1, <2>2, <2>3, <2>4, PagesKept
  <2>5. CASE ring' # ring
    BY <1>3, <1>5, <1>6, <2>1, <2>2, <2>3, <2>5, PagesKept
  <2> QED BY <2>4, <2>5
<1>9. ASSUME ~lost' \/ ring' # ring, NEW j \in Inodes, NEW q \in Places, Stale(j, q) PROVE Stale(j, q)'
  <2>1. ring' = ring \/ (ring' = Append(ring, w) /\ ~Covers(w, dentry[j], q))
    BY <1>3, <1>6 DEF Covers
  <2>2. CASE <<j, q>> # <<i, k>> \/ <<j, q>> \notin dirty
    <3>1. mapped \subseteq mapped' /\ dentry'[j] = dentry[j] /\ (<<j, q>> \in dirty => <<j, q>> \in dirty')
      BY <1>2, <2>2
    <3> QED BY <1>4, <1>9, <2>1, <3>1, StaleKept
  <2>3. CASE <<j, q>> = <<i, k>>
    <3>1. j = i /\ q = k /\ i \in mapped
      BY <1>9, <2>3 DEF Stale
    <3>2. ring' = Append(ring, w)
      <4>1. Emit(w)
        BY <1>2, <1>4, <3>1
      <4>2. Room
        <5>1. lost' \/ ring' = Append(ring, w)
          BY <4>1 DEF Emit
        <5>2. CASE ring' = Append(ring, w)
          <6>1. ring' # ring
            BY <1>4, <5>2
          <6> QED BY <4>1, <6>1 DEF Emit
        <5>3. CASE ring' # Append(ring, w)
          BY <1>6, <1>9, <5>1, <5>3
        <5> QED BY <5>2, <5>3
      <4> QED BY <4>1, <4>2 DEF Emit
    <3>3. PICK p : p = Len(ring) + 1
      OBVIOUS
    <3>4. p \in 1..Len(ring') /\ ring'[p] = w /\ \A m \in p..Len(ring') : m = p
      BY <1>4, <3>2, <3>3
    <3>5. \A m \in p..Len(ring') : ~Covers(ring'[m], dentry'[j], q)
      BY <1>3, <3>4 DEF Covers
    <3> QED BY <1>2, <1>3, <3>1, <3>4, <3>5 DEF Stale, Covers, OnContent, Fills
  <2> QED BY <2>2, <2>3
<1>10. ASSUME ~lost' \/ ring' # ring, NEW T \in Tables, Follows(T) PROVE Follows(T)'
  BY <1>2, <1>9, <1>10, FollowsSame
<1>11. Ahead'
  <2>1. CASE ring' # ring
    <3>1. ring' = Append(ring, w) /\ UNCHANGED <<batch, batch_error, backup, daemon>> /\ (lost => lost')
      BY <1>2, <1>6, <2>1 DEF Emit
    <3>2. ASSUME NEW T \in Tables, Follows(T) PROVE Applies(T, w) /\ Follows(After(T, w))'
      <4>1. PICK U : U = After(T, w)
        OBVIOUS
      <4>2. U = T /\ Applies(T, w)
        BY <1>3, <4>1, SamePoints DEF Applies
      <4>3. Follows(U)'
        BY <1>10, <2>1, <3>2, <4>2
      <4>4. (U = After(T, w))'
        BY <4>1
      <4> QED BY <4>1, <4>2, <4>3, <4>4
    <3> QED BY <1>3, <1>5, <3>1, <3>2, AheadAppended
  <2>2. CASE ring' = ring /\ ~lost'
    <3>1. UNCHANGED <<ring, lost, batch, batch_error, backup, daemon>>
      <4>1. lost' = lost
        <5>1. CASE i \in mmap_files
          BY <1>2, <2>2, <5>1, <1>4 DEF Emit
        <5>2. CASE i \notin mmap_files
          BY <1>2, <5>2
        <5> QED BY <5>1, <5>2
      <4> QED BY <1>2, <2>2, <4>1
    <3> QED BY <1>5, <1>10, <2>2, <3>1, AheadSame
  <2>3. CASE lost'
    BY <2>3, AheadLost
  <2> QED BY <2>1, <2>2, <2>3
<1>12. Batched' /\ Clean' /\ Served'
  <2>1. asked' = asked /\ delivered' = delivered /\ setup' = setup /\ calls' = calls
    BY <1>2 DEF app
  <2>2. (AllIdle' <=> AllIdle) /\ (Mmap' <=> Mmap) /\ View' = View
    BY <1>2, <2>1 DEF AllIdle, Idle, Mmap, View
  <2>3. Clean'
    BY <1>2, <1>5, <2>1, <2>2 DEF Clean, Live
  <2> QED BY <1>2, <1>5, <2>1, <2>2, <2>3 DEF Batched, Served
<1> QED BY <1>7, <1>8, <1>11, <1>12 DEF ContentInv

-----------------------------------------------------------------------------
(* The harvest.                                                            *)

LEMMA CaptureContent ==
  ASSUME Types, NamesInv, ContentInv, capture_and_send
  PROVE  ContentInv'
<1>1. /\ daemon = "idle" /\ daemon' = "draining" /\ asked' = AllIdle
      /\ UNCHANGED <<setup, delivered, dir, data, dentry, mapped, dirty, calls, ring, lost, files,
                    batch, batch_error, backup>>
  BY DEF capture_and_send, primary, hooks, user
<1>2. CallsRight /\ RingRight /\ PagesRight /\ Ahead /\ Batched /\ Clean /\ Served
  BY DEF ContentInv
<1>3. CallsRight'
  BY <1>1, <1>2, CallsKept
<1>4. RingRight' /\ PagesRight'
  <2>1. \A j \in mapped : dentry'[j] = dentry[j] /\ (Live(j)' => Live(j))
    BY <1>1 DEF Live
  <2> QED BY <1>1, <1>2, <2>1, RingKept, PagesKept
<1>5. Ahead'
  <2>1. \A j, q : Stale(j, q) => Stale(j, q)'
    BY <1>1 DEF Stale, Covers, OnContent, Fills
  <2>2. \A T \in Tables : Follows(T) => Follows(T)'
    BY <1>1, <2>1, FollowsSame
  <2> QED BY <1>1, <1>2, <2>2, AheadSame
<1>6. Batched' /\ Clean' /\ Served'
  <2>1. (AllIdle' <=> AllIdle) /\ (Mmap' <=> Mmap) /\ View' = View
    BY <1>1 DEF AllIdle, Idle, Mmap, View
  <2> QED BY <1>1, <1>2, <2>1 DEF Batched, Clean, Served
<1> QED BY <1>3, <1>4, <1>5, <1>6 DEF ContentInv

(* Every page of S is in the sequence.                                     *)
LEMMA AllPages ==
  ASSUME DataTypes, setup.cells \in Nat, NEW S, S \subseteq dirty, NEW pages \in SetToSeqs(S)
  PROVE  /\ pages \in Seq(S)
         /\ \A page \in S : \E n \in 1..Len(pages) : pages[n] = page
<1>1. IsFiniteSet(S)
  <2>1. IsFiniteSet(1..setup.cells)
    BY FS_Interval
  <2>2. IsFiniteSet(Inodes)
    BY FileAssumption
  <2>3. IsFiniteSet(Inodes \X (1..setup.cells))
    BY <2>1, <2>2, FS_Product
  <2> QED BY <2>3, FS_Subset DEF DataTypes
<1>2. PICK m \in Nat : m = Cardinality(S)
  BY <1>1, FS_CardinalityType
<1>3. pages \in [1..m -> S] /\ \A i, j \in 1..m : i # j => pages[i] # pages[j]
  BY <1>2 DEF SetToSeqs
<1>4. pages \in Injection(1..m, S)
  BY <1>3 DEF Injection, IsInjective
<1>5. Cardinality(1..m) = m
  BY FS_Interval
<1>6. pages \in Surjection(1..m, S)
  BY <1>1, <1>2, <1>4, <1>5, FS_Injection
<1>7. Len(pages) = m /\ pages \in Seq(S)
  BY <1>3
<1> QED BY <1>6, <1>7 DEF Surjection

(* The flush leaves no dirty page of a mapped file that has a name, unless *)
(* the ring had no room for the pages.                                     *)
LEMMA SnapshotContent ==
  ASSUME Types, NamesInv, ContentInv, snapshot_mmap_files
  PROVE  ContentInv'
<1> DEFINE S == {page \in dirty : page[1] \in Found \cap mmap_files}
<1>1. PICK pages \in SetToSeqs(S) :
        /\ Mmap /\ daemon = "draining" /\ ring = <<>> /\ daemon' = "flushed"
        /\ dirty' = {page \in dirty : page[1] \notin Found}
        /\ ring' = [n \in 1..Least(setup.ring, Len(pages)) |-> Written(pages[n])]
        /\ lost' = (lost \/ Len(pages) > setup.ring)
        /\ UNCHANGED <<app, dir, data, dentry, mapped, hooks, user, backup>>
  BY DEF snapshot_mmap_files
<1>2. /\ DataTypes /\ setup.cells \in Nat /\ setup.ring \in Nat /\ mmap_files = mapped
      /\ dirty \subseteq Inodes \X (1..setup.cells) /\ ring \in Seq(Events)
      /\ UNCHANGED <<calls, mmap_files, files, batch, batch_error>>
  BY <1>1, SetupTyped DEF Types, DataTypes, MapTypes, RingTypes, hooks, user
<1>3. S \subseteq dirty /\ \A page \in S : page[1] \in mapped
  BY <1>2
<1>4. \A page \in dirty : page[1] \in mapped /\ page[1] \in Found => page \in S
  BY <1>2
<1> HIDE DEF S
<1>5. /\ pages \in Seq(S)
      /\ \A page \in S : \E n \in 1..Len(pages) : pages[n] = page
  BY <1>2, <1>3, AllPages
<1>6. PICK m \in Nat : m = Least(setup.ring, Len(pages)) /\ m <= Len(pages)
                       /\ (Len(pages) <= setup.ring => m = Len(pages))
  BY <1>2, <1>5 DEF Least
<1>7. Len(ring') = m /\ \A n \in 1..m : ring'[n] = Written(pages[n])
  BY <1>1, <1>6
<1>8. ASSUME NEW n \in 1..m
      PROVE  /\ pages[n] \in S /\ pages[n] = <<pages[n][1], pages[n][2]>>
             /\ EventRight(ring'[n]) /\ ring'[n].op = "writeback"
             /\ ring'[n].ino = pages[n][1] /\ ring'[n].off + 1 = pages[n][2]
             /\ ~OnContent(ring'[n]) /\ ~OnNames(ring'[n]) /\ ~Naming(ring'[n])
  <2>1. pages[n] \in S
    BY <1>5, <1>6
  <2>2. PICK i \in Inodes, k \in Nat \ {0} : pages[n] = <<i, k>>
    <3>1. pages[n] \in Inodes \X (1..setup.cells)
      BY <1>2, <1>3, <2>1
    <3>2. /\ pages[n][1] \in Inodes /\ pages[n][2] \in Nat \ {0}
          /\ pages[n] = <<pages[n][1], pages[n][2]>>
      BY <1>2, <3>1
    <3> QED BY <3>2
  <2>3. PICK w : w = Written(<<i, k>>) /\ w = ring'[n]
    BY <1>7, <2>2
  <2>4. /\ EventRight(w) /\ w.op = "writeback" /\ w.ino = i /\ w.off + 1 = k
        /\ ~OnContent(w) /\ ~OnNames(w) /\ ~Naming(w)
    BY <2>3, WrittenRight
  <2>5. pages[n][1] = i /\ pages[n][2] = k
    BY <2>2
  <2> QED BY <2>1, <2>2, <2>3, <2>4, <2>5
<1>9. CallsRight /\ RingRight /\ PagesRight /\ Ahead /\ Batched /\ Clean /\ Served
  BY DEF ContentInv
<1>10. CallsRight'
  BY <1>1, <1>2, <1>9, CallsKept
<1>11. RingRight'
  <2> SUFFICES ASSUME NEW q \in 1..Len(ring')
               PROVE  EventRight(ring'[q]) /\ (ring'[q].op = "writeback" => ring'[q].ino \in mapped')
    BY DEF RingRight, EventRight
  <2>1. pages[q] \in S /\ EventRight(ring'[q]) /\ ring'[q].ino = pages[q][1]
    BY <1>7, <1>8
  <2> QED BY <1>1, <1>3, <2>1
<1>12. \A i \in mapped : Known(i, 0) /\ Known(i, 0)'
  <2> SUFFICES ASSUME NEW i \in mapped PROVE Known(i, 0) /\ Known(i, 0)'
    OBVIOUS
  <2>1. Known(i, 0)
    <3>1. PICK k \in 0..Len(ring) : Known(i, k)
      BY <1>2 DEF NamesInv, MappedKnown
    <3>2. k = 0
      BY <1>1
    <3> QED BY <3>1, <3>2
  <2>2. \A n \in 1..Len(ring') : ~Tells(ring'[n], i)
    BY <1>7, <1>8 DEF Tells
  <2>3. i \in DOMAIN files' /\ files'[i] = dentry'[i]
    BY <1>1, <1>2, <2>1 DEF Known
  <2>4. Known(i, 0)'
    BY <2>2, <2>3 DEF Known, Tells, Naming
  <2> QED BY <2>1, <2>4
<1>13. PagesRight'
  <2> SUFFICES ASSUME NEW p \in 1..Len(ring'), ring'[p].op = "writeback", NEW j, j = ring'[p].ino
               PROVE  /\ \E k \in 0..Len(ring') : k < p /\ Known(j, k)'
                      /\ Live(j)' => \A q \in p..Len(ring') : OnNames(ring'[q]) =>
                           dentry'[j] \notin {ring'[q].name, ring'[q].nname}
    BY DEF PagesRight, Known, Tells, Naming, OnNames, Live
  <2>1. j \in mapped
    BY <1>3, <1>7, <1>8
  <2>2. 0 \in 0..Len(ring') /\ 0 < p
    BY <1>7
  <2>3. \A q \in p..Len(ring') : ~OnNames(ring'[q])
    <3> SUFFICES ASSUME NEW q \in p..Len(ring') PROVE ~OnNames(ring'[q])
      BY DEF OnNames
    <3>1. q \in 1..m
      BY <1>7
    <3> QED BY <1>8, <3>1
  <2> QED BY <1>12, <2>1, <2>2, <2>3
<1>14. ASSUME ~lost', NEW T \in Tables, Follows(T) PROVE Follows(T)'
  <2>1. ASSUME NEW i \in Inodes, NEW k \in Places, Stale(i, k) PROVE Stale(i, k)'
    <3>1. i \in mapped /\ <<i, k>> \in dirty
      BY <1>1, <2>1 DEF Stale
    <3>2. CASE i \notin Found
      BY <1>1, <3>1, <3>2 DEF Stale
    <3>3. CASE i \in Found
      <4>1. <<i, k>> \in S
        BY <1>4, <3>1, <3>3
      <4>2. PICK n \in 1..Len(pages) : pages[n] = <<i, k>>
        BY <1>5, <4>1
      <4>3. n \in 1..m
        <5>1. ~(Len(pages) > setup.ring)
          BY <1>1, <1>14
        <5> QED BY <1>2, <1>5, <1>6, <5>1
      <4>4. ring'[n].op = "writeback" /\ ring'[n].ino = i /\ ring'[n].off + 1 = k
        BY <1>8, <4>2, <4>3
      <4>5. \A q \in n..Len(ring') : ~Covers(ring'[q], dentry'[i], k)
        <5> SUFFICES ASSUME NEW q \in n..Len(ring') PROVE ~Covers(ring'[q], dentry'[i], k)
          OBVIOUS
        <5>1. q \in 1..m
          BY <1>7, <4>3
        <5> QED BY <1>8, <5>1 DEF Covers
      <4> QED BY <1>1, <1>7, <3>1, <4>3, <4>4, <4>5 DEF Stale, Covers, OnContent, Fills
    <3> QED BY <3>2, <3>3
  <2> QED BY <1>1, <1>2, <1>14, <2>1, FollowsSame
<1>15. Ahead'
  <2> SUFFICES ASSUME ~lost', ~batch_error', ~Refusing'
               PROVE  /\ Replayed(backup', batch').ok
                      /\ \E F : Leads(Replayed(backup', batch').fs, ring', F) /\ Follows(F)'
    BY DEF Ahead
  <2>0. ~Refusing
    <3>1. 1..Len(ring) = {}
      BY <1>1
    <3> QED BY <1>1, <1>2, <3>1 DEF Refusing, WithExchange
  <2>1. PICK F : Replayed(backup, batch).ok /\ Leads(Replayed(backup, batch).fs, ring, F) /\ Follows(F)
    BY <1>1, <1>2, <1>9, <2>0 DEF Ahead
  <2>2. F \in Tables
    BY <1>2, <2>1, LeadsTyped
  <2>3. ring' \in Seq({ring'[n] : n \in 1..m}) /\ \A q \in 1..Len(ring') : ring'[q].op = "writeback"
    <3>1. PICK s : s = ring'
      OBVIOUS
    <3>2. s = [n \in 1..m |-> Written(pages[n])]
      BY <1>1, <1>6, <3>1
    <3>3. s \in Seq({s[n] : n \in 1..m})
      BY <3>2
    <3>4. \A q \in 1..Len(ring') : ring'[q].op = "writeback"
      BY <1>7, <1>8
    <3> QED BY <3>1, <3>3, <3>4
  <2>4. Leads(Replayed(backup, batch).fs, ring', F)
    BY <1>1, <2>1, <2>3, LeadsPages
  <2> QED BY <1>1, <1>2, <1>14, <2>1, <2>2, <2>4
<1>16. Clean'
  <2>1. (AllIdle' <=> AllIdle) /\ (Mmap' <=> Mmap) /\ asked' = asked
    BY <1>1, <1>2 DEF AllIdle, Idle, Mmap, app
  <2>2. ASSUME NEW page \in dirty', page[1] \in mapped' PROVE ~Live(page[1])'
    <3>1. page[1] \in mapped /\ page[1] \notin Found /\ page[1] \in Inodes
      BY <1>1, <1>2, <2>2
    <3>2. page[1] \in DOMAIN files /\ files[page[1]] = dentry[page[1]]
      BY <1>12, <3>1 DEF Known
    <3>3. dir[dentry[page[1]]] \in Found \cup {NoIno}
      BY <1>2, <3>1, <3>2 DEF Found
    <3> QED BY <1>1, <3>1, <3>3, FileAssumption DEF Live
  <2> QED BY <1>1, <1>9, <2>1, <2>2 DEF Clean, Live
<1>17. Batched' /\ Served'
  <2>1. (AllIdle' <=> AllIdle) /\ View' = View /\ delivered' = delivered
    BY <1>1, <1>2 DEF AllIdle, Idle, View, app
  <2> QED BY <1>1, <1>2, <1>9, <2>1 DEF Batched, Served
<1> QED BY <1>10, <1>11, <1>13, <1>15, <1>16, <1>17 DEF ContentInv

-----------------------------------------------------------------------------
(* The capturer takes the first event.                                     *)

LEMMA TailFacts ==
  ASSUME Types, handle_event
  PROVE  /\ ring # <<>> /\ ring' = Tail(ring) /\ ring \in Seq(Events)
         /\ Len(ring) \in Nat /\ Len(ring) >= 1 /\ Head(ring) = ring[1] /\ Len(ring') = Len(ring) - 1
         /\ \A n \in 1..Len(ring') : n + 1 \in 1..Len(ring) /\ ring'[n] = ring[n + 1]
         /\ \A n \in 1..Len(ring) : n # 1 => n - 1 \in 1..Len(ring') /\ ring'[n - 1] = ring[n]
         /\ UNCHANGED <<app, dir, data, dentry, mapped, dirty, calls, mmap_files, lost, daemon, backup>>
<1>1. /\ ring # <<>> /\ ring' = Tail(ring) /\ ring \in Seq(Events)
      /\ UNCHANGED <<app, dir, data, dentry, mapped, dirty, calls, mmap_files, lost, daemon, backup>>
  BY DEF handle_event, primary, hooks, sink, Types, RingTypes
<1>2. /\ Len(ring) \in Nat /\ Len(ring) >= 1 /\ Head(ring) = ring[1] /\ Len(ring') = Len(ring) - 1
      /\ \A n \in 1..Len(ring') : n + 1 \in 1..Len(ring) /\ ring'[n] = ring[n + 1]
  BY <1>1, TailTyped
<1>3. ASSUME NEW n \in 1..Len(ring), n # 1 PROVE n - 1 \in 1..Len(ring') /\ ring'[n - 1] = ring[n]
  <2>1. n - 1 \in 1..Len(ring') /\ (n - 1) + 1 = n
    BY <1>2, <1>3
  <2> QED BY <1>2, <2>1
<1> QED BY <1>1, <1>2, <1>3

LEMMA KnownTail ==
  ASSUME Types, handle_event, NEW i, NEW k \in 0..Len(ring), Known(i, k)
  PROVE  \E h \in 0..Len(ring') : Known(i, h)' /\ (h = 0 \/ h + 1 = k)
<1> DEFINE e == Head(ring)
<1>1. /\ UNCHANGED dentry
      /\ \/ Naming(e) /\ files' = Set(files, e.ino, e.name)
         \/ ~Naming(e) /\ files' = files
  BY DEF handle_event, Naming, Remember, primary
<1>2. /\ Len(ring) \in Nat /\ Len(ring) >= 1 /\ e = ring[1] /\ Len(ring') = Len(ring) - 1
      /\ \A n \in 1..Len(ring') : n + 1 \in 1..Len(ring) /\ ring'[n] = ring[n + 1]
  BY TailFacts
<1> HIDE DEF e
<1>3. CASE k > 1
  <2>1. PICK h \in 1..Len(ring') : h + 1 = k
    <3>1. k - 1 \in 1..Len(ring') /\ (k - 1) + 1 = k
      BY <1>2, <1>3
    <3> QED BY <3>1
  <2>2. Tells(ring'[h], i)
    BY <1>2, <1>3, <2>1 DEF Known
  <2>3. ASSUME NEW n \in 1..Len(ring'), n >= h, Tells(ring'[n], i)
        PROVE  ring'[n].name = dentry[i]
    <3>1. n + 1 \in 1..Len(ring) /\ n + 1 >= k /\ ring'[n] = ring[n + 1]
      BY <1>2, <2>1, <2>3
    <3> QED BY <2>3, <3>1 DEF Known
  <2>4. h # 0 /\ h \in 0..Len(ring')
    BY <1>2
  <2>5. Known(i, h)'
    BY <1>1, <2>2, <2>3, <2>4 DEF Known, Tells, Naming
  <2> QED BY <2>1, <2>4, <2>5
<1>4. CASE k <= 1
  <2>1. i \in DOMAIN files' /\ files'[i] = dentry[i]
    <3>1. CASE Tells(e, i)
      <4>1. e.name = dentry[i]
        BY <1>2, <1>4, <3>1 DEF Known
      <4> QED BY <1>1, <3>1, <4>1 DEF Tells, Set
    <3>2. CASE ~Tells(e, i)
      <4>1. k = 0
        BY <1>2, <1>4, <3>2 DEF Known
      <4>2. i \in DOMAIN files /\ files[i] = dentry[i]
        BY <4>1 DEF Known
      <4> QED BY <1>1, <3>2, <4>2 DEF Tells, Set
    <3> QED BY <3>1, <3>2
  <2>2. ASSUME NEW n \in 1..Len(ring'), Tells(ring'[n], i)
        PROVE  ring'[n].name = dentry[i]
    <3>1. n + 1 \in 1..Len(ring) /\ n + 1 >= k /\ ring'[n] = ring[n + 1]
      BY <1>2, <1>4
    <3> QED BY <2>2, <3>1 DEF Known
  <2>3. Known(i, 0)'
    BY <1>1, <2>1, <2>2 DEF Known, Tells, Naming
  <2> QED BY <1>2, <2>3
<1> QED BY <1>3, <1>4

LEMMA StaleTail ==
  ASSUME Types, handle_event, NEW i, NEW k, Stale(i, k),
         ring[1].op = "writeback" /\ ring[1].ino = i /\ ring[1].off + 1 = k =>
           \E q \in 1..Len(ring) : Covers(ring[q], dentry[i], k)
  PROVE  Stale(i, k)'
<1>1. /\ Len(ring) \in Nat /\ Len(ring') = Len(ring) - 1 /\ UNCHANGED <<dentry, mapped, dirty>>
      /\ \A n \in 1..Len(ring') : n + 1 \in 1..Len(ring) /\ ring'[n] = ring[n + 1]
      /\ \A n \in 1..Len(ring) : n # 1 => n - 1 \in 1..Len(ring') /\ ring'[n - 1] = ring[n]
  BY TailFacts
<1>2. i \in mapped'
  BY <1>1 DEF Stale
<1>3. CASE <<i, k>> \in dirty
  BY <1>1, <1>2, <1>3 DEF Stale
<1>4. CASE <<i, k>> \notin dirty
  <2>1. PICK p \in 1..Len(ring) :
          /\ ring[p].op = "writeback" /\ ring[p].ino = i /\ ring[p].off + 1 = k
          /\ \A q \in p..Len(ring) : ~Covers(ring[q], dentry[i], k)
    BY <1>4 DEF Stale
  <2>2. p # 1
    BY <2>1
  <2>3. PICK h \in 1..Len(ring') : h = p - 1 /\ ring'[h] = ring[p]
    BY <1>1, <2>1, <2>2
  <2>4. ASSUME NEW q \in h..Len(ring') PROVE ~Covers(ring'[q], dentry'[i], k)
    <3>1. q \in 1..Len(ring') /\ q + 1 \in p..Len(ring)
      BY <1>1, <2>3
    <3> QED BY <1>1, <2>1, <3>1
  <2> QED BY <1>2, <2>1, <2>3, <2>4 DEF Stale, Covers, OnContent, Fills
<1> QED BY <1>3, <1>4

(* The parts of the invariant that do not look at the batch.               *)
LEMMA HandledParts ==
  ASSUME Types, NamesInv, ContentInv, handle_event
  PROVE  CallsRight' /\ RingRight' /\ PagesRight' /\ Clean' /\ Served'
<1>1. /\ Len(ring) \in Nat /\ Len(ring') = Len(ring) - 1
      /\ \A n \in 1..Len(ring') : n + 1 \in 1..Len(ring) /\ ring'[n] = ring[n + 1]
      /\ UNCHANGED <<app, dir, data, dentry, mapped, dirty, calls, daemon, backup>>
  BY TailFacts
<1>2. CallsRight /\ RingRight /\ PagesRight /\ Clean /\ Served
  BY DEF ContentInv
<1>3. CallsRight'
  BY <1>1, <1>2, CallsKept
<1>4. RingRight'
  <2> SUFFICES ASSUME NEW q \in 1..Len(ring')
               PROVE  EventRight(ring'[q]) /\ (ring'[q].op = "writeback" => ring'[q].ino \in mapped')
    BY DEF RingRight, EventRight
  <2> QED BY <1>1, <1>2 DEF RingRight
<1>5. PagesRight'
  <2> SUFFICES ASSUME NEW p \in 1..Len(ring'), ring'[p].op = "writeback", NEW j, j = ring'[p].ino
               PROVE  /\ \E k \in 0..Len(ring') : k < p /\ Known(j, k)'
                      /\ Live(j)' => \A q \in p..Len(ring') : OnNames(ring'[q]) =>
                           dentry'[j] \notin {ring'[q].name, ring'[q].nname}
    BY DEF PagesRight, Known, Tells, Naming, OnNames, Live
  <2>1. PICK n \in 1..Len(ring) : n = p + 1 /\ ring[n] = ring'[p]
    BY <1>1
  <2>2. /\ \E k \in 0..Len(ring) : k < n /\ Known(j, k)
        /\ Live(j) => \A q \in n..Len(ring) : OnNames(ring[q]) =>
             dentry[j] \notin {ring[q].name, ring[q].nname}
    BY <1>2, <2>1 DEF PagesRight
  <2>3. PICK k \in 0..Len(ring) : k < n /\ Known(j, k)
    BY <2>2
  <2>4. PICK h \in 0..Len(ring') : Known(j, h)' /\ (h = 0 \/ h + 1 = k)
    BY <2>3, KnownTail
  <2>5. h < p
    BY <2>1, <2>3, <2>4
  <2>6. ASSUME Live(j)', NEW q \in p..Len(ring'), OnNames(ring'[q])
        PROVE  dentry'[j] \notin {ring'[q].name, ring'[q].nname}
    <3>1. q + 1 \in n..Len(ring) /\ ring'[q] = ring[q + 1]
      BY <1>1, <2>1
    <3>2. Live(j)
      BY <1>1, <2>6 DEF Live
    <3>3. OnNames(ring[q + 1])
      BY <2>6, <3>1
    <3> QED BY <1>1, <2>2, <3>1, <3>2, <3>3
  <2> QED BY <2>4, <2>5, <2>6
<1>6. Clean' /\ Served'
  <2>1. /\ (AllIdle' <=> AllIdle) /\ (Mmap' <=> Mmap) /\ View' = View
        /\ asked' = asked /\ delivered' = delivered
    BY <1>1 DEF AllIdle, Idle, Mmap, View, app
  <2> QED BY <1>1, <1>2, <2>1 DEF Clean, Served, Live
<1> QED BY <1>3, <1>4, <1>5, <1>6

(* One more record in the batch.                                           *)
LEMMA BatchMore ==
  ASSUME Batched, NEW r
  PROVE  /\ Replayed(backup, Append(batch, r)) = ApplyStep(Replayed(backup, batch), r)
         /\ \E S : Append(batch, r) \in Seq(S)
         /\ batch \o <<r>> = Append(batch, r) /\ batch \o <<>> = batch
         /\ \A n \in 1..Len(batch) : n \in 1..Len(Append(batch, r)) /\ Append(batch, r)[n] = batch[n]
         /\ \E n \in 1..Len(Append(batch, r)) : Append(batch, r)[n] = r
<1>1. PICK S : batch \in Seq(S)
  BY DEF Batched
<1>2. PICK R : R = S \cup {r}
  OBVIOUS
<1>3. batch \in Seq(R) /\ r \in R
  BY <1>1, <1>2
<1>4. Append(batch, r) \in Seq(R) /\ batch \o <<r>> = Append(batch, r) /\ batch \o <<>> = batch
  BY <1>3
<1>5. /\ Len(batch) \in Nat /\ Len(Append(batch, r)) = Len(batch) + 1
      /\ Append(batch, r)[Len(batch) + 1] = r
      /\ \A n \in 1..Len(batch) : Append(batch, r)[n] = batch[n]
  BY <1>3
<1>6. /\ \A n \in 1..Len(batch) : n \in 1..Len(Append(batch, r))
      /\ Len(batch) + 1 \in 1..Len(Append(batch, r))
  BY <1>5
<1> QED BY <1>3, <1>4, <1>5, <1>6, ReplayOneMore

(* An exchange that is taken from the ring is in the batch.                *)
LEMMA RefusingKept ==
  ASSUME Types, Batched, handle_event, Refusing
  PROVE  Refusing'
<1>1. /\ Len(ring) \in Nat /\ Head(ring) = ring[1] /\ ring # <<>>
      /\ \A n \in 1..Len(ring) : n # 1 => n - 1 \in 1..Len(ring') /\ ring'[n - 1] = ring[n]
      /\ daemon' = daemon
  BY TailFacts DEF handle_event, sink
<1>2. PICK e : e = Head(ring)
  OBVIOUS
<1>3. \/ batch' = batch /\ ~Swap(e)
      \/ \E r : batch' = Append(batch, r) /\ (Swap(e) => r.op = "rename" /\ r.flags = "exchange")
  <2>1. CASE e.op = "write"
    BY <1>2, <2>1 DEF handle_event, Swap
  <2>2. CASE e.op = "zero"
    BY <1>2, <2>2 DEF handle_event, Swap
  <2>3. CASE e.op \in {"truncate", "unlink", "rename"}
    BY <1>2, <2>3 DEF handle_event, Swap, Record
  <2>4. CASE e.op = "mmap"
    BY <1>2, <2>4 DEF handle_event, Swap
  <2>5. CASE e.op = "writeback"
    <3>1. batch' = batch \/ batch' = batch \o snapshot_range(e)
      BY <1>2, <2>5 DEF handle_event
    <3>2. snapshot_range(e) = <<>> \/ \E r : snapshot_range(e) = <<r>>
      BY DEF snapshot_range
    <3> QED BY <2>5, <3>1, <3>2, BatchMore DEF Swap
  <2> QED BY <1>2, <2>1, <2>2, <2>3, <2>4, <2>5 DEF handle_event
<1>4. /\ \A n \in 1..Len(batch) : n \in 1..Len(batch') /\ batch'[n] = batch[n]
      /\ Swap(e) => \E n \in 1..Len(batch') : batch'[n].op = "rename" /\ batch'[n].flags = "exchange"
  <2>1. CASE batch' = batch /\ ~Swap(e)
    BY <2>1
  <2>2. CASE batch' # batch \/ Swap(e)
    <3>1. PICK r : batch' = Append(batch, r) /\ (Swap(e) => r.op = "rename" /\ r.flags = "exchange")
      BY <1>3, <2>2
    <3> QED BY <3>1, BatchMore
  <2> QED BY <2>1, <2>2
<1>5. CASE daemon = "broken"
  BY <1>1, <1>5 DEF Refusing
<1>6. CASE WithExchange(batch)
  <2>1. PICK n \in 1..Len(batch) : batch[n].op = "rename" /\ batch[n].flags = "exchange"
    BY <1>6 DEF WithExchange
  <2>2. n \in 1..Len(batch') /\ batch'[n].op = "rename" /\ batch'[n].flags = "exchange"
    BY <1>4, <2>1
  <2> QED BY <2>2 DEF Refusing, WithExchange
<1>7. CASE \E q \in 1..Len(ring) : Swap(ring[q])
  <2>1. PICK q \in 1..Len(ring) : Swap(ring[q])
    BY <1>7
  <2>2. CASE q = 1
    BY <1>1, <1>2, <1>4, <2>1, <2>2 DEF Refusing, WithExchange
  <2>3. CASE q # 1
    BY <1>1, <2>1, <2>3 DEF Refusing, Swap
  <2> QED BY <2>2, <2>3
<1> QED BY <1>5, <1>6, <1>7 DEF Refusing

(* The record of an event leads to where the event would have.             *)
LEMMA HandledRecord ==
  ASSUME Types, NamesInv, ContentInv, handle_event, NEW e, e = ring[1],
         OnContent(e) \/ OnNames(e) \/ e.op = "mmap"
  PROVE  Ahead' /\ Batched'
<1>1. /\ ring # <<>> /\ ring' = Tail(ring) /\ ring \in Seq(Events)
      /\ Len(ring) \in Nat /\ Len(ring) >= 1 /\ Head(ring) = e
      /\ UNCHANGED <<dir, data, dentry, calls, lost, backup>>
  BY TailFacts
<1>2. /\ RingRight /\ Ahead /\ Batched /\ EventRight(e) /\ e.op # "writeback"
      /\ \A q \in 1..Len(ring) : EventRight(ring[q])
  BY <1>1 DEF ContentInv, RingRight, OnContent, OnNames
<1>3. PICK r : r = Record(e, e.op)
  OBVIOUS
<1>4. /\ OnContent(e) \/ OnNames(e) => batch' = Append(batch, r)
      /\ e.op = "mmap" => batch' = batch /\ ~OnContent(e) /\ ~OnNames(e)
      /\ ~batch_error' => ~batch_error
  <2>0. /\ e.op \in Ops /\ e = Head(ring)
        /\ \/ /\ e.op = "write"
              /\ batch' = Append(batch, Record(e, "write"))
              /\ batch_error' = (batch_error \/ e.truncated)
           \/ /\ e.op = "zero"
              /\ batch' = Append(batch, Record(e, "zero")) /\ UNCHANGED batch_error
           \/ /\ e.op \in {"truncate", "unlink", "rename"}
              /\ batch' = Append(batch, Record(e, e.op)) /\ UNCHANGED batch_error
           \/ e.op = "mmap" /\ UNCHANGED <<batch, batch_error>>
           \/ e.op = "writeback"
    BY <1>1, <1>2 DEF handle_event, EventRight
  <2>1. CASE e.op = "write"
    BY <1>3, <2>0, <2>1 DEF OnContent, OnNames
  <2>2. CASE e.op = "zero"
    BY <1>3, <2>0, <2>2 DEF OnContent, OnNames
  <2>3. CASE e.op \in {"truncate", "unlink", "rename"}
    BY <1>3, <2>0, <2>3 DEF OnContent, OnNames
  <2>4. CASE e.op = "mmap"
    BY <2>0, <2>4 DEF OnContent, OnNames
  <2> QED BY <1>2, <2>0, <2>1, <2>2, <2>3, <2>4
<1>5. Batched'
  <2>1. CASE OnContent(e) \/ OnNames(e)
    <3>1. \E S : Append(batch, r) \in Seq(S)
      BY <1>2, BatchMore
    <3>2. batch' = Append(batch, r)
      BY <1>4, <2>1
    <3> QED BY <3>1, <3>2 DEF Batched
  <2>2. CASE e.op = "mmap"
    BY <1>2, <1>4, <2>2 DEF Batched
  <2> QED BY <2>1, <2>2
<1>6. ASSUME NEW T \in Tables, Follows(T) PROVE Follows(T)'
  <2>1. ASSUME NEW i, NEW k, Stale(i, k) PROVE Stale(i, k)'
    BY <1>2, <2>1, StaleTail
  <2> QED BY <1>1, <1>6, <2>1, FollowsSame
<1>7. Ahead'
  <2> SUFFICES ASSUME ~lost', ~batch_error', ~Refusing'
               PROVE  /\ Replayed(backup', batch').ok
                      /\ \E F : Leads(Replayed(backup', batch').fs, ring', F) /\ Follows(F)'
    BY DEF Ahead
  <2>0. ~Refusing
    BY <1>2, RefusingKept
  <2>1. PICK out : out = Replayed(backup, batch)
    OBVIOUS
  <2>2. PICK F : out.ok /\ Leads(out.fs, ring, F) /\ Follows(F)
    BY <1>1, <1>2, <1>4, <2>0, <2>1 DEF Ahead
  <2>3. F \in Tables /\ Follows(F)'
    BY <1>1, <1>6, <2>2, LeadsTyped
  <2>4. IF OnContent(e) \/ OnNames(e)
        THEN ApplyRecord(out.fs, r).ok /\ Leads(ApplyRecord(out.fs, r).fs, ring', F)
        ELSE Leads(out.fs, ring', F)
    BY <1>1, <1>2, <1>3, <2>2, LeadsTail
  <2>5. CASE OnContent(e) \/ OnNames(e)
    <3>1. Replayed(backup', batch') = ApplyRecord(out.fs, r)
      BY <1>1, <1>2, <1>4, <2>1, <2>2, <2>5, BatchMore DEF ApplyStep
    <3> QED BY <2>3, <2>4, <2>5, <3>1
  <2>6. CASE e.op = "mmap"
    BY <1>1, <1>4, <2>1, <2>2, <2>3, <2>4, <2>6
  <2> QED BY <2>5, <2>6
<1> QED BY <1>5, <1>7

(* Writes with the same path, offset and data are the same.                *)
LEMMA SameWrite ==
  ASSUME NEW fs, NEW r, NEW s, r.op = "write", s.op = "write", r.path = s.path, r.off = s.off,
         r.data = s.data
  PROVE  ApplyRecord(fs, r) = ApplyRecord(fs, s)
<1>1. ApplyRecord(fs, r) = apply_write(fs, r) /\ ApplyRecord(fs, s) = apply_write(fs, s)
  BY DEF ApplyRecord
<1> QED BY <1>1 DEF apply_write

(* A copy that reaches to its end when the calls under way are reported    *)
(* does so if it is longer, but no longer than the file.                   *)
LEMMA GrowsLonger ==
  ASSUME Types, NEW t \in Threads, ~Idle(t), NEW n \in Nat, NEW m \in Nat, NEW k \in Nat,
         k <= m, Grows(calls[t], n, m) = m
  PROVE  \/ Grows(calls[t], Larger(n, k), m) = m
         \/ Larger(n, k) = m
<1> DEFINE c == calls[t]
           p == Larger(n, k)
<1>1. c.kind \in DataKinds \cup NameKinds /\ c.end \in Nat /\ c.off + c.len \in Nat
  BY CallFacts DEF Records
<1> HIDE DEF c
<1>2. p \in Nat /\ (p = n \/ p = k) /\ n <= p
  BY DEF Larger
<1>3. \A x \in Nat : Larger(n, x) = m => Larger(p, x) = m
  BY DEF Larger
<1>4. CASE c.kind \in Writes
  <2>1. \A x : Grows(c, x, m) = IF c.sent < c.ret THEN Larger(x, c.end) ELSE x
    BY <1>4, GrowsCases
  <2>2. CASE c.sent < c.ret
    BY <1>1, <1>3, <2>1, <2>2 DEF c
  <2>3. CASE ~(c.sent < c.ret)
    <3>1. n = m
      BY <2>1, <2>3 DEF c
    <3> QED BY <3>1 DEF Larger
  <2> QED BY <2>2, <2>3
<1>5. CASE c.kind = "zero"
  BY <1>1, <1>3, <1>5, GrowsCases DEF c
<1>6. CASE c.kind \in {"truncate", "alloc"}
  BY <1>6, GrowsCases DEF c
<1>7. CASE c.kind \in {"zero_keep", "punch", "collapse"} \cup NameKinds
  <2>1. n = m
    BY <1>7, GrowsCases DEF c
  <2> QED BY <2>1 DEF Larger
<1> QED BY <1>1, <1>4, <1>5, <1>6, <1>7 DEF c, DataKinds, Writes, Allocs

(* A cell beyond the end of the file that a copy will have got as long as: *)
(* it is beyond the end of the copy, or a truncate will empty it.          *)
LEMMA BeyondEnd ==
  ASSUME Types, NEW t \in Threads, ~Idle(t), NEW n \in Nat, NEW m \in Nat, NEW k \in Places,
         k > m, Grows(calls[t], n, m) = m
  PROVE  n <= m \/ k \in Unsent(calls[t], m)
<1> DEFINE c == calls[t]
<1>1. c.kind \in DataKinds \cup NameKinds /\ c.end \in Nat /\ c.off + c.len \in Nat
  BY CallFacts DEF Records
<1> HIDE DEF c
<1>2. \A x \in Nat : Larger(n, x) = m => n <= m
  BY DEF Larger
<1>3. CASE c.kind \in Writes
  BY <1>1, <1>2, <1>3, GrowsCases DEF c
<1>4. CASE c.kind = "zero"
  BY <1>1, <1>2, <1>4, GrowsCases DEF c
<1>5. CASE c.kind \in {"truncate", "alloc"}
  BY <1>5, UnsentCases DEF c
<1>6. CASE c.kind \in {"zero_keep", "punch", "collapse"} \cup NameKinds
  <2>1. n = m
    BY <1>6, GrowsCases DEF c
  <2> QED BY <2>1
<1> QED BY <1>1, <1>3, <1>4, <1>5, <1>6 DEF c, DataKinds, Writes, Allocs

(* The page of a file is read: the table gets the cell before the events   *)
(* that follow it; or there is nothing to read, beyond the end of the file.*)
LEMMA PageRead ==
  ASSUME Types, NamesInv, ContentInv, handle_event, NEW e, e = ring[1], e.op = "writeback",
         NEW i, i = e.ino, Live(i), NEW k, k = e.off + 1,
         NEW T \in Tables, Tidy(T), Follows(T), NEW fresh \in BOOLEAN, NEW longer \in BOOLEAN,
         fresh => longer, longer => k <= Len(data[i]),
         ~fresh => k > Len(data[i]) \/ \E q \in 1..Len(ring) : Covers(ring[q], dentry[i], k),
         NEW U, (U = T /\ ~longer) \/ U = Patch(T, dentry[i], k, data[i][k], fresh, longer)
  PROVE  Follows(U)'
<1>1. /\ Len(ring) \in Nat /\ Len(ring) >= 1
      /\ UNCHANGED <<dir, data, dentry, calls, mapped>>
      /\ dir \in [Names -> Inodes \cup {NoIno}] /\ dentry \in [Inodes -> Names]
      /\ NoIno \notin Inodes
  BY TailFacts, FileAssumption DEF Types, NameTypes
<1>2. EventRight(e) /\ i \in mapped /\ i \in Inodes
  BY <1>1 DEF ContentInv, RingRight, EventRight
<1>3. k \in Nat /\ k >= 1 /\ k \in Places /\ data[i] \in Seq(CellValues)
  BY <1>2, DataCells DEF EventRight, Places
<1>4. PICK x : x = dentry[i] /\ x \in Names /\ dir[x] = i
  BY <1>1, <1>2 DEF Live
<1>5. /\ U.has = T.has \/ U.has = T.has \cup {x}
      /\ \A n \in Names : n # x => U.len[n] = T.len[n] /\ U.cell[n] = T.cell[n]
      /\ U.len[x] = IF longer THEN Larger(T.len[x], k) ELSE T.len[x]
      /\ \A q \in Places : U.cell[x][q] = IF fresh /\ q = k THEN data[i][k] ELSE T.cell[x][q]
      /\ T.len[x] \in Nat
  <2>1. PICK v : v = data[i][k]
    OBVIOUS
  <2>0. CASE U = T /\ ~longer
    BY <1>4, <2>0 DEF Tables
  <2> SUFFICES ASSUME U = Patch(T, x, k, v, fresh, longer)
               PROVE  /\ U.has = T.has \cup {x}
                      /\ \A n \in Names : n # x => U.len[n] = T.len[n] /\ U.cell[n] = T.cell[n]
                      /\ U.len[x] = IF longer THEN Larger(T.len[x], k) ELSE T.len[x]
                      /\ \A q \in Places : U.cell[x][q] = IF fresh /\ q = k THEN v ELSE T.cell[x][q]
    BY <1>4, <2>0, <2>1 DEF Tables
  <2> DEFINE c == [q \in Places |-> IF q = k THEN v ELSE T.cell[x][q]]
             l == Larger(T.len[x], k)
             lens  == [n \in Names |-> IF n = x /\ longer THEN l ELSE T.len[n]]
             cells == [n \in Names |-> IF n = x /\ fresh THEN c ELSE T.cell[n]]
  <2>2. U = [has |-> T.has \cup {x}, len |-> lens, cell |-> cells]
    BY DEF Patch
  <2> HIDE DEF lens, cells
  <2>3. U.has = T.has \cup {x} /\ U.len = lens /\ U.cell = cells
    BY <2>2
  <2> HIDE DEF c, l
  <2>4. \A n \in Names : n # x => lens[n] = T.len[n] /\ cells[n] = T.cell[n]
    BY DEF lens, cells
  <2>5. lens[x] = IF longer THEN l ELSE T.len[x]
    BY <1>4 DEF lens
  <2>6. cells[x] = IF fresh THEN c ELSE T.cell[x]
    BY <1>4 DEF cells
  <2>7. \A q \in Places : c[q] = IF q = k THEN v ELSE T.cell[x][q]
    BY DEF c
  <2>8. CASE fresh
    BY <2>3, <2>4, <2>5, <2>6, <2>7, <2>8 DEF l
  <2>9. CASE ~fresh
    BY <2>3, <2>4, <2>5, <2>6, <2>9 DEF l
  <2> QED BY <2>8, <2>9
<1>6. \A u : Idle(u)' <=> Idle(u)
  BY <1>1 DEF Idle
<1>7. NamesFollow(U)'
  <2>1. \A n : Changing(n)' <=> Changing(n)
    BY <1>1, <1>6 DEF Changing
  <2>2. ASSUME NEW n \in Names, ~Changing(n)' PROVE n \in U.has <=> dir'[n] # NoIno
    <3>1. n \in T.has <=> dir[n] # NoIno
      BY <2>1, <2>2 DEF Follows, NamesFollow
    <3>2. CASE n = x
      <4>1. dir'[n] = i /\ i # NoIno /\ n \in T.has
        BY <1>1, <1>2, <1>4, <3>1, <3>2
      <4> QED BY <1>5, <4>1
    <3>3. CASE n # x
      <4>1. (n \in U.has <=> n \in T.has) /\ dir'[n] = dir[n]
        BY <1>1, <1>5, <3>3
      <4> QED BY <3>1, <4>1
    <3> QED BY <3>2, <3>3
  <2>3. ASSUME NEW u \in Threads, ~Idle(u)', calls'[u].kind \in Plain
        PROVE  /\ calls'[u].name \in U.has
               /\ calls'[u].kind = "noreplace" => calls'[u].nname \notin U.has
    <3>1. /\ calls[u].name \in T.has
          /\ calls[u].kind = "noreplace" => calls[u].nname \notin T.has
      BY <1>1, <1>6, <2>3 DEF Follows, NamesFollow
    <3>2. calls[u].nname # x
      BY <1>1, <1>2, <1>4, <1>6, <2>3
         DEF ContentInv, CallsRight, NamesGone, NameRight, Plain, NameKinds
    <3> QED BY <1>1, <1>5, <3>1, <3>2
  <2> QED BY <2>2, <2>3 DEF NamesFollow
<1>8. ASSUME NEW j \in Inodes, NEW s \in Names, Source(j, s)' PROVE Right(U, j, s)'
  <2>1. Source(j, s)
    BY <1>1, <1>6, <1>8 DEF Source, Live, Renaming, Swapping
  <2>2. Right(T, j, s)
    BY <2>1 DEF Follows
  <2>3. \A u \in Threads : Pending(u, j) => Pending(u, j)' /\ calls'[u] = calls[u]
    BY <1>1, <1>6 DEF Pending
  <2>4. ASSUME NEW q \in Places, Stale(j, q), 
               j # i \/ q # k \/ \E p \in 1..Len(ring) : Covers(ring[p], dentry[i], k)
        PROVE  Stale(j, q)'
    <3>1. ring[1].op = "writeback" /\ ring[1].ino = j /\ ring[1].off + 1 = q =>
            \E p \in 1..Len(ring) : Covers(ring[p], dentry[j], q)
      <4> SUFFICES ASSUME ring[1].ino = j, ring[1].off + 1 = q
                   PROVE  \E p \in 1..Len(ring) : Covers(ring[p], dentry[j], q)
        OBVIOUS
      <4>1. j = i /\ q = k
        OBVIOUS
      <4> QED BY <2>4, <4>1
    <3> QED BY <2>4, <3>1, StaleTail
  <2>5. CASE j # i
    <3>1. s # x
      <4>1. dir[dentry[j]] = j
        BY <2>1 DEF Source, Live
      <4>2. CASE s = dentry[j]
        BY <1>4, <2>5, <4>1, <4>2
      <4>3. CASE s # dentry[j]
        <5>1. PICK u \in Threads : Renaming(u, j) /\ s = calls[u].name
          BY <2>1, <4>3 DEF Source
        <5>2. dir[s] = NoIno
          BY <5>1 DEF Renaming, Plain, ContentInv, CallsRight, NamesGone, NameRight, NameKinds, Renames
        <5> QED BY <1>1, <1>2, <1>4, <5>2
      <4> QED BY <4>2, <4>3
    <3>2. U.len[s] = T.len[s] /\ U.cell[s] = T.cell[s]
      BY <1>5, <3>1
    <3>3. \A q \in Places : Stale(j, q) => Stale(j, q)'
      BY <2>4, <2>5
    <3> QED BY <1>1, <2>2, <2>3, <3>2, <3>3, RightSame
  <2>6. CASE j = i
    <3>1. s = x
      <4>1. \A u \in Threads : ~Renaming(u, j)
        BY <1>2, <2>6
           DEF Renaming, Plain, ContentInv, CallsRight, NamesGone, NameRight, NameKinds, Renames
      <4> QED BY <1>4, <2>1, <2>6, <4>1 DEF Source
    <3> SUFFICES ASSUME Sound(i)'
                 PROVE  /\ LenRight(U.len[x], i)'
                        /\ \A q \in Places : U.cell[x][q] = Val(data'[i], q) \/ Owed(i, q)' \/ Stale(i, q)'
      BY <2>6, <3>1 DEF Right
    <3>2. Sound(i)
      BY <1>1, <2>3, <2>6 DEF Sound, Pending
    <3>3. LenRight(T.len[x], i)
      BY <2>2, <2>6, <3>1, <3>2 DEF Right
    <3>4. \A q \in Places : T.cell[x][q] = Val(data[i], q) \/ Owed(i, q) \/ Stale(i, q)
      BY <2>2, <2>6, <3>1, <3>2 DEF Right
    <3>5. LenRight(U.len[x], i)
      <4>1. CASE ~longer
        BY <1>5, <3>3, <4>1
      <4>2. CASE longer /\ T.len[x] = Len(data[i])
        <5>2. k <= Len(data[i])
          BY <4>2
        <5>3. PICK m \in Nat : m = Len(data[i])
          BY <1>3
        <5>4. Larger(m, k) = m
          BY <1>3, <5>2, <5>3 DEF Larger
        <5>0. Larger(T.len[x], k) = T.len[x]
          BY <4>2, <5>3, <5>4
        <5>1. U.len[x] = Len(data[i])
          BY <1>5, <4>2, <5>0
        <5> QED BY <5>1 DEF LenRight
      <4>3. CASE longer /\ T.len[x] # Len(data[i])
        <5>1. PICK u \in Threads : Pending(u, i) /\ Grows(calls[u], T.len[x], Len(data[i])) = Len(data[i])
          BY <3>3, <4>3 DEF LenRight
        <5>2. PICK m \in Nat : m = Len(data[i])
          BY <1>3
        <5>4. k <= m
          BY <4>3, <5>2
        <5>3. \/ Grows(calls[u], Larger(T.len[x], k), m) = m
              \/ Larger(T.len[x], k) = m
          BY <1>3, <1>5, <5>1, <5>2, <5>4, GrowsLonger DEF Pending
        <5> QED BY <1>5, <4>3, <5>1, <5>2, <5>3 DEF LenRight
      <4> QED BY <4>1, <4>2, <4>3
    <3>6. LenRight(U.len[x], i)'
      <4>1. CASE U.len[x] = Len(data[i])
        BY <1>1, <4>1 DEF LenRight
      <4>2. CASE U.len[x] # Len(data[i])
        <5>1. PICK u \in Threads : Pending(u, i) /\ Grows(calls[u], U.len[x], Len(data[i])) = Len(data[i])
          BY <3>5, <4>2 DEF LenRight
        <5>2. Pending(u, i)' /\ calls'[u] = calls[u] /\ data'[i] = data[i]
          BY <1>1, <2>3, <2>6, <5>1
        <5>3. (Grows(calls[u], U.len[x], Len(data[i])) = Len(data[i]))'
          BY <5>1, <5>2 DEF Grows
        <5> QED BY <5>2, <5>3 DEF LenRight, Grows
      <4> QED BY <4>1, <4>2
    <3>7. ASSUME NEW q \in Places
          PROVE  U.cell[x][q] = Val(data'[i], q) \/ Owed(i, q)' \/ Stale(i, q)'
      <4>1. CASE fresh /\ q = k
        BY <1>1, <1>3, <1>5, <4>1 DEF Val
      <4>2. CASE q = k /\ ~fresh /\ ~\E p \in 1..Len(ring) : Covers(ring[p], x, k)
        <5>1. k > Len(data[i]) /\ U.cell[x][q] = T.cell[x][k]
          BY <1>4, <1>5, <4>2
        <5>2. PICK m \in Nat : m = Len(data[i]) /\ k > m
          BY <1>3, <5>1
        <5>3. Val(data'[i], k) = Zero
          BY <1>1, <1>3, <5>2 DEF Val
        <5>4. T.len[x] <= m => T.cell[x][k] = Zero
          BY <1>3, <1>4, <1>5, <5>2 DEF Tidy
        <5>5. T.len[x] <= m \/ Owed(i, k)'
          <6>1. CASE T.len[x] = m
            BY <6>1
          <6>2. CASE T.len[x] # m
            <7>1. PICK u \in Threads : Pending(u, i) /\ Grows(calls[u], T.len[x], m) = m
              BY <3>3, <5>2, <6>2 DEF LenRight
            <7>2. T.len[x] <= m \/ k \in Unsent(calls[u], m)
              BY <1>3, <1>5, <5>2, <7>1, BeyondEnd DEF Pending
            <7>3. Pending(u, i)' /\ calls'[u] = calls[u] /\ Len(data'[i]) = m
              BY <1>1, <2>3, <2>6, <5>2, <7>1
            <7>4. k \in Unsent(calls[u], m) => (k \in Unsent(calls[u], Len(data[i])))'
              BY <7>3 DEF Unsent
            <7> QED BY <7>2, <7>3, <7>4 DEF Owed, Unsent
          <6> QED BY <6>1, <6>2
        <5> QED BY <4>2, <5>1, <5>3, <5>4, <5>5
      <4>3. CASE ~(fresh /\ q = k) /\ (q = k => \E p \in 1..Len(ring) : Covers(ring[p], x, k))
        <5>1. U.cell[x][q] = Val(data[i], q) \/ Owed(i, q) \/ Stale(i, q)
          BY <1>5, <3>4, <4>3
        <5>2. ASSUME Owed(i, q) PROVE Owed(i, q)'
          <6>1. PICK u \in Threads : Pending(u, i) /\ q \in Unsent(calls[u], Len(data[i]))
            BY <5>2 DEF Owed
          <6>2. Pending(u, i)' /\ calls'[u] = calls[u] /\ data'[i] = data[i]
            BY <1>1, <2>3, <2>6, <6>1
          <6>3. (q \in Unsent(calls[u], Len(data[i])))'
            BY <6>1, <6>2 DEF Unsent
          <6> QED BY <6>2, <6>3 DEF Owed, Unsent
        <5>3. Stale(i, q) => Stale(i, q)'
          BY <1>4, <2>4, <2>6, <4>3
        <5> QED BY <1>1, <5>1, <5>2, <5>3
      <4> QED BY <4>1, <4>2, <4>3
    <3> QED BY <3>6, <3>7
  <2> QED BY <2>5, <2>6
<1> QED BY <1>7, <1>8 DEF Follows

(* A page that was written back: read from the file that has the name now, *)
(* which is the file itself, or gone.                                      *)
LEMMA HandledPage ==
  ASSUME Types, NamesInv, ContentInv, handle_event, NEW e, e = ring[1], e.op = "writeback"
  PROVE  Ahead' /\ Batched'
<1>1. /\ ring # <<>> /\ ring' = Tail(ring) /\ ring \in Seq(Events)
      /\ Len(ring) \in Nat /\ Len(ring) >= 1 /\ Head(ring) = e
      /\ UNCHANGED <<dir, data, dentry, calls, lost, backup>>
  BY TailFacts
<1>2. /\ RingRight /\ PagesRight /\ Ahead /\ Batched /\ EventRight(e) /\ e.ino \in mapped
      /\ \A q \in 1..Len(ring) : EventRight(ring[q])
  BY <1>1 DEF ContentInv, RingRight
<1>3. PICK i \in Inodes : i = e.ino /\ i \in mapped
  BY <1>2 DEF EventRight
<1>4. PICK k \in Places : k = e.off + 1 /\ k \in Nat
  BY <1>2 DEF EventRight, Places
<1>5. PICK x \in Names : x = dentry[i]
  BY DEF Types, NameTypes
<1>6. i \in DOMAIN files /\ files[i] = x
  <2>1. PICK h \in 0..Len(ring) : h < 1 /\ Known(i, h)
    BY <1>1, <1>2, <1>3 DEF PagesRight
  <2> QED BY <1>5, <2>1 DEF Known
<1>7. dir[x] \in {i, NoIno} /\ NoIno \notin Inodes
  BY <1>3, <1>5, FileAssumption DEF NamesInv, MappedKnown, Types, MapTypes
<1>8. batch' = batch \o snapshot_range(e) /\ UNCHANGED batch_error
  BY <1>1, <1>3, <1>6 DEF handle_event
<1>9. PICK S : batch \in Seq(S)
  BY <1>2 DEF Batched
<1>10. data[i] \in Seq(CellValues) /\ Len(data[i]) \in Nat /\ Zero \in CellValues
  BY DataCells
<1>11. ASSUME snapshot_range(e) = <<>>,
              \A T \in Tables : Tidy(T) /\ Follows(T) => Follows(T)'
       PROVE  Ahead' /\ Batched'
  <2>1. batch' = batch
    BY <1>8, <1>9, <1>11
  <2> SUFFICES ASSUME ~lost', ~batch_error', ~Refusing'
               PROVE  /\ Replayed(backup', batch').ok
                      /\ \E F : Leads(Replayed(backup', batch').fs, ring', F) /\ Follows(F)'
    BY <1>2, <2>1 DEF Ahead, Batched
  <2>0. ~Refusing
    BY <1>2, RefusingKept
  <2>2. PICK out : out = Replayed(backup, batch)
    OBVIOUS
  <2>3. PICK F : out.ok /\ Leads(out.fs, ring, F) /\ Follows(F)
    BY <1>1, <1>2, <1>8, <2>0, <2>2 DEF Ahead
  <2>4. F \in Tables /\ Tidy(F)
    BY <1>1, <2>3, LeadsTyped
  <2>5. Leads(out.fs, ring', F)
    <3>1. ~OnContent(e) /\ ~OnNames(e)
      BY DEF OnContent, OnNames
    <3> QED BY <1>1, <1>2, <2>3, <3>1, LeadsTail
  <2> QED BY <1>1, <1>11, <2>1, <2>2, <2>3, <2>4, <2>5
<1>12. CASE dir[x] = NoIno
  <2>1. snapshot_range(e) = <<>>
    BY <1>3, <1>6, <1>12 DEF snapshot_range
  <2>2. ASSUME NEW T \in Tables, Follows(T) PROVE Follows(T)'
    <3>1. ASSUME NEW j \in Inodes, NEW q \in Places, Live(j), Stale(j, q) PROVE Stale(j, q)'
      <4>1. j # i
        BY <1>5, <1>7, <1>12, <3>1 DEF Live
      <4>2. ~(ring[1].op = "writeback" /\ ring[1].ino = j /\ ring[1].off + 1 = q)
        BY <1>3, <4>1
      <4> QED BY <3>1, <4>2, StaleTail
    <3> QED BY <1>1, <2>2, <3>1, FollowsSame
  <2> QED BY <1>11, <2>1, <2>2
<1>13. CASE dir[x] = i /\ ~(k <= Len(data[i]))
  <2>1. snapshot_range(e) = <<>>
    <3>1. e.off >= Len(data[i])
      BY <1>2, <1>4, <1>10, <1>13 DEF EventRight
    <3> QED BY <1>3, <1>6, <1>13, <3>1 DEF snapshot_range
  <2>2. Live(i) /\ k > Len(data[i])
    BY <1>4, <1>5, <1>10, <1>13 DEF Live
  <2>3. ASSUME NEW T \in Tables, Tidy(T), Follows(T) PROVE Follows(T)'
    <3>1. FALSE \in BOOLEAN
      OBVIOUS
    <3>2. (FALSE => FALSE) /\ (FALSE => k <= Len(data[i]))
      OBVIOUS
    <3>3. ~FALSE => k > Len(data[i]) \/ \E q \in 1..Len(ring) : Covers(ring[q], dentry[i], k)
      BY <2>2
    <3>4. (T = T /\ ~FALSE) \/ T = Patch(T, dentry[i], k, data[i][k], FALSE, FALSE)
      OBVIOUS
    <3>5. Types /\ NamesInv /\ ContentInv /\ handle_event /\ e = ring[1] /\ e.op = "writeback"
      OBVIOUS
    <3> QED BY ONLY <1>3, <1>4, <2>2, <2>3, <3>1, <3>2, <3>3, <3>4, <3>5, PageRead
  <2> QED BY <1>11, <2>1, <2>3
<1>14. CASE dir[x] = i /\ k <= Len(data[i])
  <2>1. PICK v \in CellValues : v = data[i][k]
    <3>1. k \in 1..Len(data[i])
      BY <1>4, <1>10, <1>14 DEF Places
    <3> QED BY <1>10, <3>1
  <2>2. PICK w : w = [e EXCEPT !.op = "write", !.name = x, !.nname = x, !.data = <<v>>]
    OBVIOUS
  <2>3. PICK r : r = Record([e EXCEPT !.name = x, !.data = <<v>>], "write")
    OBVIOUS
  <2>4. batch' = batch \o <<r>>
    <3>1. ~(e.off >= Len(data[i])) /\ i # NoIno
      BY <1>2, <1>4, <1>7, <1>10, <1>14 DEF EventRight
    <3>2. snapshot_range(e) = <<r>>
      BY <1>3, <1>4, <1>6, <1>14, <2>1, <2>3, <3>1 DEF snapshot_range
    <3> QED BY <1>8, <3>2
  <2>5. e \in Events
    BY <1>1
  <2>6. /\ w.op = "write" /\ w.name = x /\ w.nname = x /\ w.data = <<v>> /\ w.off = e.off
        /\ w.ino = e.ino /\ w.size = e.size /\ w.keep = e.keep /\ w.flags = e.flags
    BY <2>2, <2>5 DEF Events
  <2>7. EventRight(w) /\ OnContent(w) /\ w.off = k - 1
    <3>1. <<v>> \in Seq(CellValues)
      BY <2>1
    <3> QED BY <1>2, <1>4, <2>6, <3>1 DEF EventRight, Ops, OnContent
  <2>8. \A fs : ApplyRecord(fs, r) = ApplyRecord(fs, Record(w, "write"))
    <3>1. r.op = "write" /\ r.path = <<x>> /\ r.off = e.off /\ r.data = <<v>>
      BY <2>3, <2>5 DEF Record, Events
    <3>2. PICK s : s = Record(w, "write")
      OBVIOUS
    <3>3. s.op = "write" /\ s.path = <<x>> /\ s.off = e.off /\ s.data = <<v>>
      BY <2>6, <3>2 DEF Record
    <3> QED BY <3>1, <3>2, <3>3, SameWrite
  <2>9. /\ Batched'
        /\ Replayed(backup, batch') = ApplyStep(Replayed(backup, batch), r)
    <3>1. batch' = Append(batch, r)
      BY <1>2, <2>4, BatchMore
    <3> QED BY <1>2, <3>1, BatchMore DEF Batched
  <2> SUFFICES ASSUME ~lost', ~batch_error', ~Refusing'
               PROVE  /\ Replayed(backup', batch').ok
                      /\ \E F : Leads(Replayed(backup', batch').fs, ring', F) /\ Follows(F)'
    BY <2>9 DEF Ahead
  <2>0. ~Refusing
    BY <1>2, RefusingKept
  <2>10. PICK out : out = Replayed(backup, batch)
    OBVIOUS
  <2>11. PICK F : out.ok /\ Leads(out.fs, ring, F) /\ Follows(F)
    BY <1>1, <1>2, <1>8, <2>0, <2>10 DEF Ahead
  <2>12. F \in Tables /\ Tidy(F)
    BY <1>1, <2>11, LeadsTyped
  <2>13. Live(i)
    BY <1>5, <1>14 DEF Live
  <2>14. PICK new : new = ApplyRecord(out.fs, Record(w, "write"))
    OBVIOUS
  <2>15. /\ new.ok
         /\ \E fresh, longer \in BOOLEAN :
              /\ fresh => longer
              /\ ~fresh => \E q \in 1..Len(ring) : Covers(ring[q], w.name, k)
              /\ Leads(new.fs, Tail(ring), Patch(F, w.name, k, v, fresh, longer))
    <3>1. ~OnContent(Head(ring)) /\ ~OnNames(Head(ring))
      BY <1>1 DEF OnContent, OnNames
    <3>2. \A q \in 1..Len(ring) : OnNames(ring[q]) => w.name \notin {ring[q].name, ring[q].nname}
      BY <1>1, <1>2, <1>3, <1>5, <2>6, <2>13 DEF PagesRight
    <3> QED BY <1>1, <1>2, <2>1, <2>6, <2>7, <2>11, <2>14, <3>1, <3>2, LeadsPatched
  <2>16. PICK fresh \in BOOLEAN, longer \in BOOLEAN :
           /\ fresh => longer
           /\ ~fresh => \E q \in 1..Len(ring) : Covers(ring[q], x, k)
           /\ Leads(new.fs, ring', Patch(F, x, k, v, fresh, longer))
    BY <1>1, <2>6, <2>15
  <2>17. PICK U : U = Patch(F, x, k, v, fresh, longer)
    OBVIOUS
  <2>18. Follows(U)'
    <3>1. fresh \in BOOLEAN /\ longer \in BOOLEAN /\ (fresh => longer)
      BY <2>16
    <3>2. longer => k <= Len(data[i])
      BY <1>14
    <3>3. ~fresh => k > Len(data[i]) \/ \E q \in 1..Len(ring) : Covers(ring[q], dentry[i], k)
      BY <1>5, <2>16
    <3>4. (U = F /\ ~longer) \/ U = Patch(F, dentry[i], k, data[i][k], fresh, longer)
      BY <1>5, <2>1, <2>17
    <3>5. Types /\ NamesInv /\ ContentInv /\ handle_event /\ e = ring[1] /\ e.op = "writeback"
      OBVIOUS
    <3> QED BY ONLY <1>3, <1>4, <2>11, <2>12, <2>13, <3>1, <3>2, <3>3, <3>4, <3>5, PageRead
  <2>19. Replayed(backup', batch') = new
    BY <1>1, <2>8, <2>9, <2>10, <2>11, <2>14 DEF ApplyStep
  <2> QED BY <2>15, <2>16, <2>17, <2>18, <2>19
<1> QED BY <1>7, <1>12, <1>13, <1>14

LEMMA HandleEventContent ==
  ASSUME Types, NamesInv, ContentInv, handle_event
  PROVE  ContentInv'
<1>1. PICK e : e = ring[1] /\ e = Head(ring)
  BY TailFacts
<1>2. OnContent(e) \/ OnNames(e) \/ e.op = "mmap" \/ e.op = "writeback"
  BY <1>1 DEF handle_event, OnContent, OnNames
<1>3. Ahead' /\ Batched'
  BY <1>1, <1>2, HandledRecord, HandledPage
<1> QED BY <1>3, HandledParts DEF ContentInv

-----------------------------------------------------------------------------
(* The harvest.                                                            *)

(* A copy that is a function on the same paths with the same values is the *)
(* directory.                                                              *)
LEMMA ViewPoints ==
  ASSUME Types
  PROVE  /\ View = [p \in DOMAIN View |-> View[p]]
         /\ \A p : p \in DOMAIN View <=> p = <<>> \/ \E n \in Names : dir[n] # NoIno /\ p = <<n>>
         /\ View[<<>>] = Dir
         /\ \A n \in Names : dir[n] # NoIno => View[<<n>>] = data[dir[n]]
<1>1. \A n \in Names : <<n>> # <<>> /\ <<n>>[1] = n
  BY FlatPaths
<1> DEFINE P == {<<>>} \cup {<<n>> : n \in {m \in Names : dir[m] # NoIno}}
<1>2. View = [p \in P |-> IF p = <<>> THEN Dir ELSE data[dir[p[1]]]]
  BY DEF View
<1>3. \A p : p \in P <=> p = <<>> \/ \E n \in Names : dir[n] # NoIno /\ p = <<n>>
  OBVIOUS
<1> HIDE DEF P
<1>4. DOMAIN View = P
  BY <1>2
<1>5. ASSUME NEW n \in Names, dir[n] # NoIno PROVE View[<<n>>] = data[dir[n]]
  <2>1. PICK p : p = <<n>> /\ p # <<>> /\ p[1] = n
    BY <1>1
  <2>2. p \in P
    BY <1>3, <1>5, <2>1
  <2>3. View[p] = data[dir[p[1]]]
    BY <1>2, <2>1, <2>2
  <2> QED BY <2>1, <2>3
<1>6. View[<<>>] = Dir
  <2>1. <<>> \in P
    BY <1>3
  <2> QED BY <1>2, <2>1
<1> QED BY <1>2, <1>3, <1>4, <1>5, <1>6

(* A copy that shows a table which follows the directory is the directory, *)
(* when no call is under way and no page is still to come.                 *)
LEMMA FollowedShown ==
  ASSUME Types, NamesInv, NEW F \in Tables, NEW fs, Shows(fs, F), Follows(F), AllIdle,
         \A i \in Inodes, k \in Places : Live(i) => ~Stale(i, k)
  PROVE  fs = View
<1>1. \A n \in Names : n \in F.has <=> dir[n] # NoIno
  BY DEF AllIdle, Follows, NamesFollow, Changing
<1>2. F.has \subseteq Names
  BY DEF Tables
<1>3. \A p : p \in DOMAIN fs <=> p \in DOMAIN View
  BY <1>1, <1>2, ViewPoints DEF Shows
<1>4. fs[<<>>] = View[<<>>]
  BY ViewPoints DEF Shows
<1>5. ASSUME NEW n \in Names, dir[n] # NoIno PROVE fs[<<n>>] = View[<<n>>]
  <2>1. PICK i \in Inodes : i = dir[n] /\ dentry[i] = n /\ Live(i)
    BY <1>5 DEF Types, NameTypes, NamesInv, NamedRight, Live
  <2>2. /\ fs[<<n>>] \in Seq(CellValues) /\ Len(fs[<<n>>]) = F.len[n]
        /\ \A k \in Places : Val(fs[<<n>>], k) = F.cell[n][k]
    BY <1>1, <1>5 DEF Shows
  <2>3. Source(i, n)
    BY <2>1 DEF Source, AllIdle, Renaming, Swapping
  <2>4. Right(F, i, n)
    BY <2>3 DEF Follows
  <2>5. F.len[n] = Len(data[i]) /\ \A k \in Places : F.cell[n][k] = Val(data[i], k)
    <3>1. \A u \in Threads : ~Pending(u, i)
      BY DEF AllIdle, Pending
    <3>2. Sound(i)
      BY <3>1 DEF Sound
    <3>3. LenRight(F.len[n], i) /\ \A k \in Places : F.cell[n][k] = Val(data[i], k) \/ Owed(i, k) \/ Stale(i, k)
      BY <2>4, <3>2 DEF Right
    <3>4. \A k : ~Owed(i, k)
      BY <3>1 DEF Owed
    <3>5. F.len[n] = Len(data[i])
      BY <3>1, <3>3 DEF LenRight
    <3> QED BY <2>1, <3>3, <3>4, <3>5
  <2>6. data[i] \in Seq(CellValues)
    BY DataCells
  <2>7. fs[<<n>>] = data[i]
    <3>1. PICK b : b = fs[<<n>>]
      OBVIOUS
    <3>2. PICK c : c = data[i]
      OBVIOUS
    <3>3. /\ b \in Seq(CellValues) /\ c \in Seq(CellValues) /\ Len(b) = Len(c)
          /\ \A k \in Places : Val(b, k) = Val(c, k)
      BY <2>2, <2>5, <2>6, <3>1, <3>2
    <3>4. b = c
      BY ONLY <3>3, SameCells
    <3> QED BY <3>1, <3>2, <3>4
  <2> QED BY <1>5, <2>1, <2>7, ViewPoints
<1>6. \A p \in DOMAIN View : fs[p] = View[p]
  BY <1>4, <1>5, ViewPoints
<1>7. fs = [p \in DOMAIN fs |-> fs[p]] /\ View = [p \in DOMAIN View |-> View[p]]
  BY ViewPoints DEF Shows
<1>8. PICK v : v = View
  OBVIOUS
<1> QED BY <1>3, <1>6, <1>7, <1>8

(* A harvest is replayed on the backup, or ends in an error; the backup    *)
(* refuses it only for its length or for an exchange in it.                *)
Refusable == Len(batch) > MaxRecords \/ WithExchange(batch)

LEMMA SendSteps ==
  ASSUME Types, NamesInv, ContentInv, send_batch
  PROVE  /\ ring = <<>> /\ Batched' /\ Ahead' /\ Clean' /\ Served'
         /\ daemon' = "broken" => Refusable
<1>1. /\ daemon = (IF Mmap THEN "flushed" ELSE "draining") /\ ring = <<>>
      /\ UNCHANGED <<setup, ops, asked, dir, data, dentry, mapped, dirty, calls, ring, lost, files,
                     batch_error>>
  BY DEF send_batch, primary, hooks
<1>2. Ahead /\ Batched /\ Clean /\ Served
  BY DEF ContentInv
<1>3. (AllIdle' <=> AllIdle) /\ (Mmap' <=> Mmap) /\ View' = View
  BY <1>1 DEF AllIdle, Idle, Mmap, View
<1>4. CASE lost \/ batch_error
  <2>1. daemon' = "failed" /\ UNCHANGED <<backup, delivered, batch>>
    BY <1>4 DEF send_batch
  <2>2. Ahead'
    BY <1>1, <1>4, AheadLost
  <2>3. Clean' /\ Served' /\ Batched'
    BY <1>1, <1>2, <1>3, <2>1 DEF Clean, Served, Batched
  <2> QED BY <1>1, <2>1, <2>2, <2>3
<1>6. CASE ~(lost \/ batch_error) /\ Refusable
  <2>1. PICK out : out = ApplyBatch(backup, batch)
    OBVIOUS
  <2>2. ~out.ok
    <3>1. CASE Len(batch) > MaxRecords
      BY <2>1, <3>1 DEF ApplyBatch, Failed
    <3>2. CASE ~(Len(batch) > MaxRecords)
      <4>1. PICK S : batch \in Seq(S)
        BY <1>2 DEF Batched
      <4>2. ~Replayed(backup, batch).ok
        BY <1>6, <3>2, <4>1, ExchangeRefused DEF Refusable
      <4> QED BY <2>1, <3>2, <4>2 DEF ApplyBatch
    <3> QED BY <3>1, <3>2
  <2>3. daemon' = "broken" /\ batch' = <<>> /\ delivered' = FALSE
    BY <1>6, <2>1, <2>2 DEF send_batch
  <2>4. Ahead'
    BY <2>3, AheadLost DEF Refusing
  <2>5. Batched'
    <3>1. <<>> \in Seq({})
      OBVIOUS
    <3> QED BY <2>3, <3>1 DEF Batched
  <2>6. Clean' /\ Served'
    BY <1>1, <1>2, <1>3, <2>3 DEF Clean, Served
  <2> QED BY <1>1, <1>6, <2>4, <2>5, <2>6
<1>5. CASE ~(lost \/ batch_error) /\ ~Refusable
  <2>0. ~Refusing
    <3>1. 1..Len(ring) = {} /\ daemon # "broken"
      BY <1>1
    <3> QED BY <1>5, <3>1 DEF Refusing, Refusable
  <2>1. PICK out : out = Replayed(backup, batch)
    OBVIOUS
  <2>2. /\ daemon' = (IF out.ok THEN "idle" ELSE "broken") /\ backup' = out.fs
        /\ batch' = <<>> /\ delivered' = (out.ok /\ asked)
    BY <1>5, <2>1 DEF send_batch, ApplyBatch, Refusable
  <2>3. PICK F : out.ok /\ Leads(out.fs, <<>>, F) /\ Follows(F)
    BY <1>1, <1>2, <1>5, <2>0, <2>1 DEF Ahead
  <2>4. F \in Tables /\ Tidy(F) /\ Shows(out.fs, F)
    BY <2>3, LeadsNothing
  <2>5. daemon' = "idle" /\ (delivered' => asked)
    BY <2>2, <2>3
  <2>6. Ahead'
    <3>1. Replayed(out.fs, <<>>) = [fs |-> out.fs, ok |-> TRUE]
      BY ReplayNothing DEF Done
    <3>2. Replayed(backup', batch').ok /\ Replayed(backup', batch').fs = out.fs
      BY <2>2, <3>1
    <3>3. Follows(F)'
      <4>1. \A i \in Inodes, k \in Places : Live(i) /\ Stale(i, k) => Stale(i, k)'
        BY <1>1 DEF Stale, Covers, OnContent, Fills
      <4> QED BY <1>1, <2>3, <4>1, FollowsSame
    <3>4. ring' = <<>>
      BY <1>1
    <3> QED BY <2>3, <3>2, <3>3, <3>4 DEF Ahead
  <2>7. Batched'
    <3>1. <<>> \in Seq({})
      OBVIOUS
    <3> QED BY <2>2, <3>1 DEF Batched
  <2>8. Clean'
    BY <1>1, <1>2, <1>3, <2>5 DEF Clean
  <2>9. Served'
    <3> SUFFICES ASSUME asked PROVE AllIdle /\ out.fs = View
      BY <1>3, <2>2, <2>5 DEF Served
    <3>1. AllIdle
      BY <1>2 DEF Clean
    <3>2. ASSUME NEW i \in Inodes, NEW k \in Places, Live(i), Stale(i, k) PROVE FALSE
      <4>1. i \in mapped
        BY <3>2 DEF Stale
      <4>2. daemon = "flushed"
        BY <1>1, <1>2, <4>1 DEF Clean
      <4>3. <<i, k>> \notin dirty
        BY <1>2, <3>2, <4>1, <4>2 DEF Clean
      <4>4. Len(ring) = 0
        BY <1>1
      <4> QED BY <3>2, <4>3, <4>4 DEF Stale
    <3> QED BY <2>3, <2>4, <3>1, <3>2, FollowedShown
  <2> QED BY <1>1, <2>5, <2>6, <2>7, <2>8, <2>9
<1> QED BY <1>4, <1>5, <1>6

LEMMA BatchContent ==
  ASSUME Types, NamesInv, ContentInv, send_batch
  PROVE  ContentInv' /\ (daemon' = "broken" => Refusable)
<1>1. UNCHANGED <<dir, data, dentry, mapped, calls, ring, files>>
  BY DEF send_batch, primary, hooks
<1>2. CallsRight /\ RingRight /\ PagesRight
  BY DEF ContentInv
<1>3. CallsRight'
  BY <1>1, <1>2, CallsKept
<1>4. RingRight' /\ PagesRight'
  <2>1. \A j \in mapped : dentry'[j] = dentry[j] /\ (Live(j)' => Live(j))
    BY <1>1 DEF Live
  <2> QED BY <1>1, <1>2, <2>1, RingKept, PagesKept
<1> QED BY <1>3, <1>4, SendSteps DEF ContentInv

-----------------------------------------------------------------------------
(* What holds always.                                                      *)

LEMMA InitContent ==
  ASSUME Init
  PROVE  ContentInv
<1>1. /\ calls = [t \in Threads |-> NoCall] /\ ring = <<>> /\ Len(ring) = 0 /\ lost = FALSE
      /\ batch = <<>> /\ batch_error = FALSE /\ mapped = {} /\ dirty = {}
      /\ data = [i \in Inodes |-> <<0>>] /\ backup = View /\ asked = FALSE /\ delivered = FALSE
  BY DEF Init
<1>2. \A t \in Threads : Idle(t)
  BY <1>1 DEF Idle
<1>3. Types /\ NamesInv
  BY InitTypes, InitNames
<1>4. CallsRight
  BY <1>2 DEF CallsRight, SizesRight, NamesGone, Apart
<1>5. RingRight /\ PagesRight
  BY <1>1 DEF RingRight, PagesRight
<1>6. Ahead
  <2> DEFINE F == [has |-> {n \in Names : dir[n] # NoIno},
                   len |-> [n \in Names |-> IF dir[n] # NoIno THEN 1 ELSE 0],
                   cell |-> [n \in Names |-> [k \in Places |->
                               IF dir[n] # NoIno /\ k = 1 THEN 0 ELSE Zero]]]
  <2>1. F \in Tables
    <3>1. F.has \subseteq Names /\ F.len \in [Names -> Nat]
      OBVIOUS
    <3>2. F.cell \in [Names -> [Places -> CellValues]]
      BY DEF CellValues
    <3> QED BY <3>1, <3>2 DEF Tables
  <2>2. /\ F.has = {n \in Names : dir[n] # NoIno}
        /\ \A n \in Names : dir[n] # NoIno => F.len[n] = 1
        /\ \A n \in Names : dir[n] = NoIno => F.len[n] = 0
        /\ \A n \in Names, k \in Places :
             F.cell[n][k] = IF dir[n] # NoIno /\ k = 1 THEN 0 ELSE Zero
    OBVIOUS
  <2> HIDE DEF F
  <2>3. Tidy(F)
    BY <2>2 DEF Tidy, Places
  <2>4. ASSUME NEW i \in Inodes
        PROVE  /\ data[i] \in Seq(CellValues) /\ Len(data[i]) = 1
               /\ \A k \in Places : Val(data[i], k) = IF k = 1 THEN 0 ELSE Zero
    <3>1. data[i] = <<0>>
      BY <1>1
    <3> QED BY <3>1 DEF Val, Places, CellValues
  <2>5. Shows(backup, F)
    <3>1. ASSUME NEW n \in F.has
          PROVE  /\ View[<<n>>] \in Seq(CellValues) /\ Len(View[<<n>>]) = F.len[n]
                 /\ \A k \in Places : Val(View[<<n>>], k) = F.cell[n][k]
      <4>1. n \in Names /\ dir[n] # NoIno /\ dir[n] \in Inodes
        BY <1>3, <2>2 DEF Types, NameTypes
      <4>2. View[<<n>>] = data[dir[n]]
        BY <1>3, <4>1, ViewPoints
      <4>3. PICK i \in Inodes : i = dir[n]
        BY <4>1
      <4>4. View[<<n>>] = data[i]
        BY <4>2, <4>3
      <4>5. PICK c : c = data[i]
        OBVIOUS
      <4>6. /\ c \in Seq(CellValues) /\ Len(c) = 1
            /\ \A k \in Places : Val(c, k) = IF k = 1 THEN 0 ELSE Zero
        BY <2>4, <4>5
      <4>7. F.len[n] = 1 /\ \A k \in Places : F.cell[n][k] = IF k = 1 THEN 0 ELSE Zero
        BY <2>2, <4>1
      <4>8. \A k \in Places : Val(c, k) = F.cell[n][k]
        BY <4>6, <4>7
      <4> QED BY <4>4, <4>5, <4>6, <4>7, <4>8
    <3>2. \A p : p \in DOMAIN View <=> p = <<>> \/ \E n \in F.has : p = <<n>>
      BY <1>3, <2>2, ViewPoints
    <3>3. View = [p \in DOMAIN View |-> View[p]] /\ View[<<>>] = Dir
      BY <1>3, ViewPoints
    <3>4. PICK v : v = View
      OBVIOUS
    <3>5. Shows(v, F)
      BY <3>1, <3>2, <3>3, <3>4 DEF Shows
    <3> QED BY <1>1, <3>4, <3>5
  <2>6. Follows(F)
    <3>1. NamesFollow(F)
      BY <1>2, <2>2 DEF NamesFollow
    <3>2. ASSUME NEW i \in Inodes, NEW s \in Names, Source(i, s) PROVE Right(F, i, s)
      <4>1. s = dentry[i] /\ dir[s] = i
        BY <1>2, <3>2 DEF Source, Live, Renaming, Swapping
      <4>2. dir[s] # NoIno
        BY <4>1, FileAssumption
      <4>3. F.len[s] = Len(data[i]) /\ \A k \in Places : F.cell[s][k] = Val(data[i], k)
        <5>1. PICK c : c = data[i]
          OBVIOUS
        <5>2. Len(c) = 1 /\ \A k \in Places : Val(c, k) = IF k = 1 THEN 0 ELSE Zero
          BY <2>4, <5>1
        <5>3. F.len[s] = 1 /\ \A k \in Places : F.cell[s][k] = IF k = 1 THEN 0 ELSE Zero
          BY <2>2, <4>2
        <5>4. \A k \in Places : F.cell[s][k] = Val(c, k)
          BY <5>2, <5>3
        <5> QED BY <5>1, <5>2, <5>3, <5>4
      <4> QED BY <4>3 DEF Right, LenRight
    <3> QED BY <3>1, <3>2 DEF Follows
  <2>7. Replayed(backup, batch) = [fs |-> backup, ok |-> TRUE]
    BY <1>1, ReplayNothing DEF Done
  <2>8. Replayed(backup, batch).ok /\ Replayed(backup, batch).fs = backup
    BY <2>7
  <2>9. Leads(backup, ring, F)
    BY <1>1, <2>1, <2>3, <2>5, LeadsNothing
  <2> QED BY <2>6, <2>8, <2>9 DEF Ahead
<1>7. Batched
  <2>1. <<>> \in Seq({})
    OBVIOUS
  <2> QED BY <1>1, <2>1 DEF Batched
<1>8. Clean /\ Served
  BY <1>1 DEF Clean, Served
<1> QED BY <1>4, <1>5, <1>6, <1>7, <1>8 DEF ContentInv

LEMMA NothingContent ==
  ASSUME Types, NamesInv, ContentInv, UNCHANGED vars
  PROVE  ContentInv'
<1>1. UNCHANGED <<setup, asked, delivered, dir, data, dentry, mapped, dirty, calls, ring, lost, files,
                  batch, batch_error, daemon, backup>>
  BY DEF vars, app, primary, hooks, user, sink
<1>2. CallsRight /\ RingRight /\ PagesRight /\ Ahead /\ Batched /\ Clean /\ Served
  BY DEF ContentInv
<1>3. CallsRight'
  BY <1>1, <1>2, CallsKept
<1>4. RingRight' /\ PagesRight'
  <2>1. \A j \in mapped : dentry'[j] = dentry[j] /\ (Live(j)' => Live(j))
    BY <1>1 DEF Live
  <2> QED BY <1>1, <1>2, <2>1, RingKept, PagesKept
<1>5. Ahead'
  <2>1. \A j, q : Stale(j, q) => Stale(j, q)'
    BY <1>1 DEF Stale, Covers, OnContent, Fills
  <2>2. \A T \in Tables : Follows(T) => Follows(T)'
    BY <1>1, <2>1, FollowsSame
  <2> QED BY <1>1, <1>2, <2>2, AheadSame
<1>6. Batched' /\ Clean' /\ Served'
  <2>1. (AllIdle' <=> AllIdle) /\ (Mmap' <=> Mmap) /\ View' = View
        /\ \A i : Live(i)' <=> Live(i)
    BY <1>1 DEF AllIdle, Idle, Mmap, View, Live
  <2> QED BY <1>1, <1>2, <2>1 DEF Batched, Clean, Served
<1> QED BY <1>3, <1>4, <1>5, <1>6 DEF ContentInv

LEMMA NextContent ==
  ASSUME Orderly, Types, NamesInv, ContentInv, [Next]_vars
  PROVE  ContentInv'
<1>1. CASE \E t \in Threads : Enter(t) \/ vfs_write(t) \/ do_truncate(t) \/ vfs_fallocate(t)
  BY <1>1, EnterContent, WriteContent, TruncateContent, AllocateContent
<1>2. CASE \E t \in Threads : handle_vfs_write_ret(t) \/ writev_emit_seg(t)
                              \/ handle_vfs_fallocate_ret(t)
  BY <1>2, WriteRetContent, WritevContent, AllocateRetContent
<1>3. CASE \E t \in Threads : emit_pending_event(t)
  <2>1. PICK t \in Threads : emit_pending_event(t)
    BY <1>3
  <2>2. calls[t].kind \in DataKinds \/ calls[t].kind \in NameKinds
    <3>1. ~Idle(t)
      BY <2>1 DEF emit_pending_event, Finished
    <3>2. calls[t] \in Records
      BY <3>1, CallFacts
    <3> QED BY <3>2 DEF Records
  <2> QED BY <2>1, <2>2, EmitDataContent, EmitNamesContent
<1>4. CASE \E t \in Threads : vfs_unlink(t) \/ vfs_rename(t)
  BY <1>4, UnlinkContent, RenameContent
<1>5. CASE \E i \in Inodes : handle_security_mmap_file(i) \/ Store(i)
  BY <1>5, MmapContent, StoreContent
<1>6. CASE \E page \in dirty : handle_folio_start_writeback(page)
  BY <1>6, WritebackContent
<1>7. CASE handle_event \/ capture_and_send \/ snapshot_mmap_files \/ send_batch
  BY <1>7, HandleEventContent, CaptureContent, SnapshotContent, BatchContent
<1>8. CASE UNCHANGED vars
  BY <1>8, NothingContent
<1> QED BY <1>1, <1>2, <1>3, <1>4, <1>5, <1>6, <1>7, <1>8 DEF Next

(* Only a harvest that fails on the backup leaves the capturer broken.     *)
LEMMA RefusedFor ==
  ASSUME Types, NamesInv, ContentInv, [Next]_vars
  PROVE  [daemon # "broken" /\ daemon' = "broken" =>
            Len(batch) > MaxRecords \/ WithExchange(batch)]_vars
<1> SUFFICES ASSUME daemon # "broken", daemon' = "broken" PROVE Refusable
  BY DEF Refusable
<1>1. CASE send_batch
  BY <1>1, BatchContent
<1>2. CASE capture_and_send \/ snapshot_mmap_files
  BY <1>2 DEF capture_and_send, snapshot_mmap_files
<1>3. CASE handle_event
  BY <1>3 DEF handle_event, sink
<1>4. CASE \E page \in dirty : handle_folio_start_writeback(page)
  BY <1>4 DEF handle_folio_start_writeback, sink
<1>5. CASE \E i \in Inodes : handle_security_mmap_file(i) \/ Store(i)
  BY <1>5 DEF handle_security_mmap_file, Store, sink
<1>6. CASE \E t \in Threads : Enter(t) \/ vfs_unlink(t) \/ vfs_rename(t)
  BY <1>6 DEF Enter, vfs_unlink, vfs_rename, sink
<1>7. CASE \E t \in Threads : vfs_write(t) \/ do_truncate(t) \/ vfs_fallocate(t)
  BY <1>7 DEF vfs_write, do_truncate, vfs_fallocate, Work, sink
<1>8. CASE \E t \in Threads : handle_vfs_write_ret(t) \/ writev_emit_seg(t)
                              \/ emit_pending_event(t) \/ handle_vfs_fallocate_ret(t)
  BY <1>8 DEF handle_vfs_write_ret, writev_emit_seg, emit_pending_event,
              handle_vfs_fallocate_ret, Hook, sink
<1>9. CASE UNCHANGED vars
  BY <1>9 DEF vars, sink
<1> QED BY <1>1, <1>2, <1>3, <1>4, <1>5, <1>6, <1>7, <1>8, <1>9 DEF Next

(* With an application that keeps to the discipline, and as long as every  *)
(* new mapping finds room for its event in the ring (one that does not is  *)
(* dropped without a count), a harvest that was served without an error    *)
(* and after which nothing was done has made the backup equal to the       *)
(* directory: for any threads, files and names, any sizes, limits and      *)
(* faults, whatever was lost was counted, and whatever arrived came in an  *)
(* order that gives the same bytes.                                        *)
THEOREM ServedIsEqual ==
  ASSUME Orderly
  PROVE  Spec /\ [][MappingHeard]_vars => []FailClosed
<1>1. Init => Types /\ NamesInv /\ ContentInv
  BY InitTypes, InitNames, InitContent
<1>2. Types /\ NamesInv /\ ContentInv /\ [Next]_vars /\ [MappingHeard]_vars
        => (Types /\ NamesInv /\ ContentInv)'
  BY NextTypes, NextNames, NextContent
<1>3. Types /\ NamesInv /\ ContentInv => FailClosed
  BY DEF ContentInv, Served, FailClosed
<1> QED BY <1>1, <1>2, <1>3, PTL DEF Spec

(* Under the same hypotheses the backup refuses a batch only for an        *)
(* exchange in it or for its length: whatever else was renamed, replacing  *)
(* a file or not, the names that renames, removals and calls on content    *)
(* were noted under fit together in the order of the ring.                 *)
THEOREM BatchesReplay ==
  ASSUME Orderly
  PROVE  Spec /\ [][MappingHeard]_vars => Replayable
<1>1. Init => Types /\ NamesInv /\ ContentInv
  BY InitTypes, InitNames, InitContent
<1>2. Types /\ NamesInv /\ ContentInv /\ [Next]_vars /\ [MappingHeard]_vars
        => (Types /\ NamesInv /\ ContentInv)'
  BY NextTypes, NextNames, NextContent
<1>3. Types /\ NamesInv /\ ContentInv /\ [Next]_vars
        => [daemon # "broken" /\ daemon' = "broken" =>
              Len(batch) > MaxRecords \/ WithExchange(batch)]_vars
  BY RefusedFor
<1> QED BY <1>1, <1>2, <1>3, PTL DEF Spec, Replayable
=============================================================================
