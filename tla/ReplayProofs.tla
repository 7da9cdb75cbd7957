---------------------------- MODULE ReplayProofs ----------------------------
(***************************************************************************)
(* Facts about paths, trees and the replay of a batch.                     *)
(***************************************************************************)
EXTENDS Replay, WellFoundedInduction, TLAPS

-----------------------------------------------------------------------------
(* Induction on numbers, for a set of them.                                *)
LEMMA SetInduction ==
  ASSUME NEW S \in SUBSET Nat, 0 \in S, \A n \in S : n + 1 \in S
  PROVE  S = Nat
<1> DEFINE T == Nat \ S
<1> SUFFICES ASSUME T # {} PROVE FALSE
  OBVIOUS
<1>1. PICK x \in T : \A y \in T : ~(<<y, x>> \in OpToRel(<, Nat))
  <2>1. T \subseteq Nat
    OBVIOUS
  <2> HIDE DEF T
  <2> QED BY <2>1, WFMin, NatLessThanWellFounded, Zenon
<1>2. \A y \in T : ~(y < x)
  BY <1>1 DEF OpToRel
<1>3. x \in Nat /\ x # 0 /\ x - 1 \in Nat /\ x - 1 < x
  OBVIOUS
<1>4. x - 1 \in S
  BY <1>2, <1>3
<1> QED BY <1>3, <1>4

-----------------------------------------------------------------------------
(* The replay of a batch goes record by record.                            *)

ReplayedBy(f, fs, b) ==
  f = [n \in 0..Len(b) |-> IF n = 0 THEN Done(fs) ELSE ApplyStep(f[n - 1], b[n])]

LEMMA ReplayedUnique ==
  ASSUME NEW fs, NEW b, NEW c, NEW f, NEW g, Len(b) \in Nat, Len(c) \in Nat,
         Len(b) <= Len(c), \A k \in 1..Len(b) : b[k] = c[k],
         ReplayedBy(f, fs, b), ReplayedBy(g, fs, c)
  PROVE  \A n \in 0..Len(b) : f[n] = g[n]
<1> DEFINE T == {n \in Nat : n <= Len(b) => f[n] = g[n]}
<1>2. 0 \in T
  BY DEF ReplayedBy
<1>3. ASSUME NEW n \in T PROVE n + 1 \in T
  BY DEF ReplayedBy
<1> HIDE DEF T
<1>4. T \in SUBSET Nat
  BY DEF T
<1>5. T = Nat
  BY <1>2, <1>3, <1>4, SetInduction
<1> QED BY <1>5 DEF T

LEMMA ReplayedExists ==
  ASSUME NEW fs, NEW S, NEW b \in Seq(S)
  PROVE  \E f : ReplayedBy(f, fs, b)
<1> DEFINE
  Upto(f, m) == f = [n \in 0..m |-> IF n = 0 THEN Done(fs) ELSE ApplyStep(f[n - 1], b[n])]
  T == {m \in Nat : \E f : Upto(f, m)}
<1>1. 0 \in T
  <2> DEFINE f == [n \in 0..0 |-> Done(fs)]
  <2>1. Upto(f, 0)
    OBVIOUS
  <2> QED BY <2>1
<1>2. ASSUME NEW m \in T PROVE m + 1 \in T
  <2>1. m \in Nat
    OBVIOUS
  <2>2. PICK f : Upto(f, m)
    OBVIOUS
  <2> DEFINE g == [n \in 0..(m + 1) |->
                     IF n = m + 1 THEN ApplyStep(f[m], b[m + 1]) ELSE f[n]]
  <2>3. \A n \in 0..m : g[n] = f[n]
    BY <2>1
  <2>4. ASSUME NEW n \in 0..(m + 1)
        PROVE  g[n] = IF n = 0 THEN Done(fs) ELSE ApplyStep(g[n - 1], b[n])
    <3>1. CASE n = m + 1
      <4>1. n # 0 /\ n - 1 = m /\ m \in 0..m /\ n \in 0..(m + 1)
        BY <2>1, <3>1
      <4>2. g[n] = ApplyStep(f[m], b[m + 1])
        BY <3>1, <4>1
      <4> HIDE DEF g
      <4> QED BY <2>3, <4>1, <4>2, <3>1
    <3>2. CASE n # m + 1
      <4>1. n \in 0..m /\ (n # 0 => n - 1 \in 0..m)
        BY <2>1, <3>2
      <4>2. f[n] = IF n = 0 THEN Done(fs) ELSE ApplyStep(f[n - 1], b[n])
        BY <2>2, <4>1
      <4> HIDE DEF g
      <4> QED BY <2>3, <4>1, <4>2
    <3> QED BY <3>1, <3>2
  <2>5. g = [n \in 0..(m + 1) |-> g[n]]
    OBVIOUS
  <2> HIDE DEF g
  <2>6. Upto(g, m + 1)
    BY <2>4, <2>5
  <2> QED BY <2>1, <2>6
<1> HIDE DEF T
<1>3. T \in SUBSET Nat
  BY DEF T
<1>4. T = Nat
  BY <1>1, <1>2, <1>3, SetInduction
<1>5. Len(b) \in T
  BY <1>4
<1>6. \E f : Upto(f, Len(b))
  BY <1>5 DEF T
<1> QED BY <1>6 DEF ReplayedBy

LEMMA BatchReplayed ==
  ASSUME NEW fs, NEW S, NEW b \in Seq(S)
  PROVE  \E f : ReplayedBy(f, fs, b) /\ Replayed(fs, b) = f[Len(b)]
<1> DEFINE f == CHOOSE f : ReplayedBy(f, fs, b)
<1>1. ReplayedBy(f, fs, b)
  BY ReplayedExists
<1>2. Replayed(fs, b) = f[Len(b)]
  BY DEF Replayed, ReplayedBy
<1> QED BY <1>1, <1>2

(* An empty batch changes nothing; one more record is applied to what the  *)
(* records before it have left.                                            *)
LEMMA ReplayNothing ==
  ASSUME NEW fs PROVE Replayed(fs, <<>>) = Done(fs)
<1>1. <<>> \in Seq({})
  OBVIOUS
<1>2. PICK f : ReplayedBy(f, fs, <<>>) /\ Replayed(fs, <<>>) = f[Len(<<>>)]
  BY <1>1, BatchReplayed
<1> QED BY <1>2 DEF ReplayedBy

LEMMA ReplayOneMore ==
  ASSUME NEW fs, NEW S, NEW b \in Seq(S), NEW r \in S
  PROVE  Replayed(fs, Append(b, r)) = ApplyStep(Replayed(fs, b), r)
<1>1. PICK c \in Seq(S) : c = Append(b, r)
  <2>1. Append(b, r) \in Seq(S)
    OBVIOUS
  <2> QED BY <2>1, Zenon
<1>2. Len(b) \in Nat /\ Len(c) = Len(b) + 1 /\ c[Len(b) + 1] = r
  BY <1>1
<1>3. \A k \in 1..Len(b) : b[k] = c[k]
  BY <1>1
<1>4. PICK f : ReplayedBy(f, fs, b) /\ Replayed(fs, b) = f[Len(b)]
  BY BatchReplayed
<1>5. PICK g : ReplayedBy(g, fs, c) /\ Replayed(fs, c) = g[Len(c)]
  BY BatchReplayed
<1>6. Len(c) \in Nat /\ Len(b) <= Len(c) /\ Len(b) \in 0..Len(b)
  BY <1>2
<1>7. \A n \in 0..Len(b) : f[n] = g[n]
  <2>1. Len(b) \in Nat /\ Len(c) \in Nat /\ Len(b) <= Len(c)
    BY <1>2, <1>6
  <2>2. ReplayedBy(f, fs, b) /\ ReplayedBy(g, fs, c)
    BY <1>4, <1>5
  <2> HIDE DEF ReplayedBy
  <2> QED BY ONLY <1>3, <2>1, <2>2, ReplayedUnique
<1>8. g[Len(c)] = ApplyStep(g[Len(b)], r)
  BY <1>2, <1>5 DEF ReplayedBy
<1> QED BY <1>1, <1>4, <1>5, <1>6, <1>7, <1>8

(* apply_rename refuses an exchange whatever the tree is, and after a      *)
(* record that failed no other is applied.                                 *)
LEMMA ExchangeRefused ==
  ASSUME NEW fs, NEW S, NEW b \in Seq(S), WithExchange(b)
  PROVE  ~Replayed(fs, b).ok
<1>1. PICK f : ReplayedBy(f, fs, b) /\ Replayed(fs, b) = f[Len(b)]
  BY BatchReplayed
<1>2. PICK i \in 1..Len(b) : b[i].op = "rename" /\ b[i].flags = "exchange"
  BY DEF WithExchange
<1>3. Len(b) \in Nat
  OBVIOUS
<1>4. ASSUME NEW n \in 1..Len(b) PROVE f[n] = ApplyStep(f[n - 1], b[n])
  <2>1. n \in 0..Len(b) /\ n # 0
    BY <1>3
  <2> HIDE DEF ReplayedBy
  <2>2. f = [m \in 0..Len(b) |-> IF m = 0 THEN Done(fs) ELSE ApplyStep(f[m - 1], b[m])]
    BY <1>1 DEF ReplayedBy
  <2> QED BY ONLY <2>1, <2>2
<1>5. ~f[i].ok
  <2>1. ~ApplyRecord(f[i - 1].fs, b[i]).ok
    BY <1>2 DEF ApplyRecord, apply_rename, Failed
  <2> QED BY <1>4, <2>1 DEF ApplyStep
<1> DEFINE T == {n \in Nat : i + n <= Len(b) => ~f[i + n].ok}
<1>6. 0 \in T
  BY <1>5
<1>7. ASSUME NEW n \in T PROVE n + 1 \in T
  <2> SUFFICES ASSUME i + (n + 1) <= Len(b) PROVE ~f[i + (n + 1)].ok
    OBVIOUS
  <2>1. ~f[i + n].ok /\ i + (n + 1) \in 1..Len(b) /\ (i + (n + 1)) - 1 = i + n
    BY <1>3
  <2> QED BY <1>4, <2>1 DEF ApplyStep
<1> HIDE DEF T
<1>8. T = Nat
  <2>1. T \in SUBSET Nat
    BY DEF T
  <2> QED BY <1>6, <1>7, <2>1, SetInduction
<1>9. Len(b) - i \in T /\ i + (Len(b) - i) = Len(b)
  BY <1>3, <1>8
<1> QED BY <1>1, <1>9 DEF T

-----------------------------------------------------------------------------
(* Prefixes of paths.                                                      *)

LEMMA PrefixPoints ==
  ASSUME NEW S, NEW p \in Seq(S), NEW q \in Seq(S)
  PROVE  IsPrefix(p, q) <=> Len(p) <= Len(q) /\ \A k \in 1..Len(p) : p[k] = q[k]
<1>1. Len(p) \in Nat /\ Len(q) \in Nat
  OBVIOUS
<1>2. CASE Len(p) <= Len(q)
  <2>1. SubSeq(p, 1, Len(p)) = p
    OBVIOUS
  <2>2. /\ SubSeq(q, 1, Len(p)) \in Seq(S) /\ Len(SubSeq(q, 1, Len(p))) = Len(p)
        /\ \A k \in 1..Len(p) : SubSeq(q, 1, Len(p))[k] = q[k]
    BY <1>1, <1>2
  <2>3. p = SubSeq(q, 1, Len(p)) <=> \A k \in 1..Len(p) : p[k] = q[k]
    BY <2>2
  <2> QED BY <1>2, <2>1, <2>3 DEF IsPrefix
<1>3. CASE ~(Len(p) <= Len(q))
  BY <1>3 DEF IsPrefix
<1> QED BY <1>2, <1>3

LEMMA SamePath ==
  ASSUME NEW S, NEW p \in Seq(S), NEW q \in Seq(S), Len(p) = Len(q),
         \A k \in 1..Len(p) : p[k] = q[k]
  PROVE  p = q
OBVIOUS

LEMMA PrefixSelf == ASSUME NEW S, NEW p \in Seq(S) PROVE IsPrefix(p, p)
BY PrefixPoints

LEMMA PrefixRoot == ASSUME NEW S, NEW p \in Seq(S) PROVE IsPrefix(<<>>, p)
<1> DEFINE root == <<>>
<1>1. root \in Seq(S) /\ Len(root) = 0 /\ Len(p) \in Nat
  OBVIOUS
<1> HIDE DEF root
<1>2. Len(root) <= Len(p) /\ \A k \in 1..Len(root) : root[k] = p[k]
  BY <1>1
<1>3. IsPrefix(root, p)
  BY <1>1, <1>2, PrefixPoints
<1> QED BY <1>3 DEF root

LEMMA PrefixTrans ==
  ASSUME NEW S, NEW p \in Seq(S), NEW q \in Seq(S), NEW r \in Seq(S),
         IsPrefix(p, q), IsPrefix(q, r)
  PROVE  IsPrefix(p, r)
<1>1. Len(p) \in Nat /\ Len(q) \in Nat /\ Len(r) \in Nat
  OBVIOUS
<1>2. Len(p) <= Len(q) /\ \A k \in 1..Len(p) : p[k] = q[k]
  BY PrefixPoints
<1>3. Len(q) <= Len(r) /\ \A k \in 1..Len(q) : q[k] = r[k]
  BY PrefixPoints
<1>4. Len(p) <= Len(r) /\ \A k \in 1..Len(p) : p[k] = r[k]
  BY <1>1, <1>2, <1>3
<1> QED BY <1>4, PrefixPoints

LEMMA PrefixSame ==
  ASSUME NEW S, NEW p \in Seq(S), NEW q \in Seq(S), IsPrefix(p, q), IsPrefix(q, p)
  PROVE  p = q
<1>1. Len(p) \in Nat /\ Len(q) \in Nat
  OBVIOUS
<1>2. Len(p) <= Len(q) /\ \A k \in 1..Len(p) : p[k] = q[k]
  BY PrefixPoints
<1>3. Len(q) <= Len(p)
  BY PrefixPoints
<1>4. Len(p) = Len(q)
  BY <1>1, <1>2, <1>3
<1> QED BY <1>2, <1>4, SamePath

(* Two prefixes of one path are comparable.                                *)
LEMMA PrefixChain ==
  ASSUME NEW S, NEW p \in Seq(S), NEW q \in Seq(S), NEW r \in Seq(S),
         IsPrefix(p, r), IsPrefix(q, r)
  PROVE  IsPrefix(p, q) \/ IsPrefix(q, p)
<1>1. Len(p) \in Nat /\ Len(q) \in Nat /\ Len(r) \in Nat
  OBVIOUS
<1>2. Len(p) <= Len(r) /\ \A k \in 1..Len(p) : p[k] = r[k]
  BY PrefixPoints
<1>3. Len(q) <= Len(r) /\ \A k \in 1..Len(q) : q[k] = r[k]
  BY PrefixPoints
<1>4. CASE Len(p) <= Len(q)
  <2>1. \A k \in 1..Len(p) : p[k] = q[k]
    BY <1>1, <1>2, <1>3, <1>4
  <2> QED BY <1>4, <2>1, PrefixPoints
<1>5. CASE Len(q) <= Len(p)
  <2>1. \A k \in 1..Len(q) : q[k] = p[k]
    BY <1>1, <1>2, <1>3, <1>5
  <2> QED BY <1>5, <2>1, PrefixPoints
<1> QED BY <1>1, <1>4, <1>5

LEMMA PrefixAppend ==
  ASSUME NEW S, NEW p \in Seq(S), NEW q \in Seq(S), NEW n \in S
  PROVE  /\ Append(p, n) \in Seq(S)
         /\ IsPrefix(q, Append(p, n)) <=> IsPrefix(q, p) \/ q = Append(p, n)
         /\ IsPrefix(p, Append(p, n)) /\ p # Append(p, n)
         /\ ~IsPrefix(Append(p, n), p) /\ Append(p, n) # <<>>
<1>1. PICK r : r = Append(p, n)
  OBVIOUS
<1>2. /\ r \in Seq(S) /\ Len(p) \in Nat /\ Len(q) \in Nat /\ Len(r) = Len(p) + 1
      /\ r[Len(p) + 1] = n
  BY <1>1
<1>3. \A k \in 1..Len(p) : r[k] = p[k]
  BY <1>1
<1>4. IsPrefix(q, p) => IsPrefix(q, r)
  <2> SUFFICES ASSUME IsPrefix(q, p) PROVE IsPrefix(q, r)
    OBVIOUS
  <2>1. Len(q) <= Len(p) /\ \A k \in 1..Len(q) : q[k] = p[k]
    BY PrefixPoints
  <2>2. Len(q) <= Len(r) /\ \A k \in 1..Len(q) : q[k] = r[k]
    BY <1>2, <1>3, <2>1
  <2> QED BY <1>2, <2>2, PrefixPoints
<1>5. IsPrefix(q, r) => IsPrefix(q, p) \/ q = r
  <2> SUFFICES ASSUME IsPrefix(q, r) PROVE IsPrefix(q, p) \/ q = r
    OBVIOUS
  <2>1. Len(q) <= Len(r) /\ \A k \in 1..Len(q) : q[k] = r[k]
    BY <1>2, PrefixPoints
  <2>2. CASE Len(q) = Len(r)
    BY <1>2, <2>1, <2>2, SamePath
  <2>3. CASE Len(q) # Len(r)
    <3>1. Len(q) <= Len(p) /\ \A k \in 1..Len(q) : q[k] = p[k]
      BY <1>2, <1>3, <2>1, <2>3
    <3> QED BY <3>1, PrefixPoints
  <2> QED BY <2>2, <2>3
<1>6. IsPrefix(r, r) /\ IsPrefix(p, r)
  <2>1. Len(p) <= Len(r) /\ \A k \in 1..Len(p) : p[k] = r[k]
    BY <1>2, <1>3
  <2> QED BY <1>2, <2>1, PrefixPoints, PrefixSelf
<1>7. ~IsPrefix(r, p) /\ p # r /\ r # <<>>
  <2>1. ~(Len(r) <= Len(p))
    BY <1>2
  <2> QED BY <1>2, <2>1, PrefixPoints
<1> QED BY <1>1, <1>2, <1>4, <1>5, <1>6, <1>7

LEMMA AppendSame ==
  ASSUME NEW S, NEW p \in Seq(S), NEW q \in Seq(S), NEW n \in S, NEW m \in S,
         Append(p, n) = Append(q, m)
  PROVE  p = q /\ n = m
<1>1. PICK r : r = Append(p, n)
  OBVIOUS
<1>2. Len(r) = Len(p) + 1 /\ r[Len(p) + 1] = n /\ \A k \in 1..Len(p) : r[k] = p[k]
  BY <1>1
<1>3. Len(r) = Len(q) + 1 /\ r[Len(q) + 1] = m /\ \A k \in 1..Len(q) : r[k] = q[k]
  BY <1>1
<1>4. Len(p) = Len(q)
  BY <1>2, <1>3
<1> QED BY <1>2, <1>3, <1>4, SamePath

(* A path that is not the root is an entry of its parent.                  *)
LEMMA Parent ==
  ASSUME NEW S, NEW p \in Seq(S), p # <<>>
  PROVE  \E q \in Seq(S), n \in S : p = Append(q, n)
<1> DEFINE j == Len(p) - 1
           q == SubSeq(p, 1, j)
<1>1. Len(p) \in Nat \ {0} /\ p[Len(p)] \in S
  OBVIOUS
<1>5. j \in 0..Len(p) /\ Len(p) = j + 1
  BY <1>1
<1> HIDE DEF j
<1>2. q \in Seq(S) /\ Len(q) = j /\ \A k \in 1..j : q[k] = p[k]
  BY <1>1, <1>5
<1> HIDE DEF q
<1>3. /\ Append(q, p[Len(p)]) \in Seq(S) /\ Len(Append(q, p[Len(p)])) = Len(p)
      /\ \A k \in 1..Len(p) : Append(q, p[Len(p)])[k] = p[k]
  BY <1>1, <1>2, <1>5
<1>4. p = Append(q, p[Len(p)])
  BY <1>3, SamePath
<1> QED BY <1>1, <1>2, <1>4

LEMMA ParentsArePrefixes ==
  ASSUME NEW S, NEW p \in Seq(S)
  PROVE  /\ \A q \in ParentsOf(p) : q \in Seq(S) /\ IsPrefix(q, p) /\ q # p /\ q # <<>>
         /\ \A q \in Seq(S) : IsPrefix(q, p) /\ q # p /\ q # <<>> => q \in ParentsOf(p)
<1>1. Len(p) \in Nat
  OBVIOUS
<1>2. ASSUME NEW q \in ParentsOf(p)
      PROVE  q \in Seq(S) /\ IsPrefix(q, p) /\ q # p /\ q # <<>>
  <2>1. PICK k \in 1..(Len(p) - 1) : q = SubSeq(p, 1, k)
    BY DEF ParentsOf
  <2>2. q \in Seq(S) /\ Len(q) = k /\ \A j \in 1..k : q[j] = p[j]
    BY <1>1, <2>1
  <2>3. Len(q) <= Len(p) /\ Len(q) # Len(p) /\ Len(q) # 0
    BY <1>1, <2>2
  <2>4. IsPrefix(q, p)
    BY <2>2, <2>3, PrefixPoints
  <2> QED BY <2>2, <2>3, <2>4
<1>3. ASSUME NEW q \in Seq(S), IsPrefix(q, p), q # p, q # <<>>
      PROVE  q \in ParentsOf(p)
  <2>1. Len(q) <= Len(p) /\ \A k \in 1..Len(q) : q[k] = p[k]
    BY <1>3, PrefixPoints
  <2>2. Len(q) # Len(p)
    BY <1>3, <2>1, SamePath
  <2>3. Len(q) \in 1..(Len(p) - 1)
    BY <1>1, <1>3, <2>1, <2>2
  <2>4. q = SubSeq(p, 1, Len(q))
    <3> DEFINE s == SubSeq(p, 1, Len(q))
    <3>1. s \in Seq(S) /\ Len(s) = Len(q) /\ \A j \in 1..Len(q) : s[j] = p[j]
      BY <1>1, <2>3
    <3> HIDE DEF s
    <3>2. q = s
      BY <2>1, <3>1, SamePath
    <3> QED BY <3>2 DEF s
  <2> QED BY <2>3, <2>4 DEF ParentsOf
<1> QED BY <1>2, <1>3

-----------------------------------------------------------------------------
(* Paths that move with a directory.                                       *)

LEMMA RebasePoints ==
  ASSUME NEW S, NEW m \in Seq(S), NEW old \in Seq(S), NEW new \in Seq(S), IsPrefix(old, m)
  PROVE  /\ Rebase(m, old, new) \in Seq(S)
         /\ Len(Rebase(m, old, new)) = Len(new) + (Len(m) - Len(old))
         /\ \A k \in 1..Len(new) : Rebase(m, old, new)[k] = new[k]
         /\ \A k \in 1..(Len(m) - Len(old)) :
              Rebase(m, old, new)[Len(new) + k] = m[Len(old) + k]
<1>1. Len(old) \in Nat /\ Len(m) \in Nat /\ Len(new) \in Nat /\ Len(old) <= Len(m)
  BY PrefixPoints
<1> DEFINE s == SubSeq(m, Len(old) + 1, Len(m))
<1>2. /\ s \in Seq(S) /\ Len(s) = Len(m) - Len(old)
      /\ \A k \in 1..(Len(m) - Len(old)) : s[k] = m[Len(old) + k]
  BY <1>1
<1> HIDE DEF s
<1>3. /\ new \o s \in Seq(S) /\ Len(new \o s) = Len(new) + Len(s)
      /\ \A k \in 1..Len(new) : (new \o s)[k] = new[k]
      /\ \A k \in 1..Len(s) : (new \o s)[Len(new) + k] = s[k]
  BY <1>1, <1>2
<1>4. Rebase(m, old, new) = new \o s
  BY DEF Rebase, s
<1> QED BY <1>1, <1>2, <1>3, <1>4

LEMMA RebaseSelf ==
  ASSUME NEW S, NEW old \in Seq(S), NEW new \in Seq(S)
  PROVE  Rebase(old, old, new) = new
<1>1. IsPrefix(old, old)
  BY PrefixSelf
<1>2. Len(old) \in Nat /\ Len(new) \in Nat
  OBVIOUS
<1>3. /\ Rebase(old, old, new) \in Seq(S)
      /\ Len(Rebase(old, old, new)) = Len(new)
      /\ \A k \in 1..Len(new) : Rebase(old, old, new)[k] = new[k]
  BY <1>1, <1>2, RebasePoints
<1> QED BY <1>3, SamePath

(* Order is kept below the moved directory, both ways.                     *)
LEMMA RebaseOrder ==
  ASSUME NEW S, NEW l \in Seq(S), NEW m \in Seq(S), NEW old \in Seq(S), NEW new \in Seq(S),
         IsPrefix(old, l), IsPrefix(old, m)
  PROVE  /\ IsPrefix(Rebase(l, old, new), Rebase(m, old, new)) <=> IsPrefix(l, m)
         /\ Rebase(l, old, new) = Rebase(m, old, new) => l = m
         /\ IsPrefix(new, Rebase(m, old, new))
<1> DEFINE a == Rebase(l, old, new)
           b == Rebase(m, old, new)
<1>1. /\ Len(old) \in Nat /\ Len(l) \in Nat /\ Len(m) \in Nat /\ Len(new) \in Nat
      /\ Len(old) <= Len(l) /\ Len(old) <= Len(m)
  BY PrefixPoints
<1>2. \A k \in 1..Len(old) : l[k] = old[k] /\ m[k] = old[k]
  BY PrefixPoints
<1>3. /\ a \in Seq(S) /\ Len(a) = Len(new) + (Len(l) - Len(old))
      /\ \A k \in 1..Len(new) : a[k] = new[k]
      /\ \A k \in 1..(Len(l) - Len(old)) : a[Len(new) + k] = l[Len(old) + k]
  <2>1. a \in Seq(S) /\ Len(a) = Len(new) + (Len(l) - Len(old))
    BY RebasePoints
  <2>2. \A k \in 1..Len(new) : a[k] = new[k]
    BY RebasePoints
  <2>3. \A k \in 1..(Len(l) - Len(old)) : a[Len(new) + k] = l[Len(old) + k]
    BY RebasePoints
  <2> QED BY <2>1, <2>2, <2>3
<1>4. /\ b \in Seq(S) /\ Len(b) = Len(new) + (Len(m) - Len(old))
      /\ \A k \in 1..Len(new) : b[k] = new[k]
      /\ \A k \in 1..(Len(m) - Len(old)) : b[Len(new) + k] = m[Len(old) + k]
  <2>1. b \in Seq(S) /\ Len(b) = Len(new) + (Len(m) - Len(old))
    BY RebasePoints
  <2>2. \A k \in 1..Len(new) : b[k] = new[k]
    BY RebasePoints
  <2>3. \A k \in 1..(Len(m) - Len(old)) : b[Len(new) + k] = m[Len(old) + k]
    BY RebasePoints
  <2> QED BY <2>1, <2>2, <2>3
<1> HIDE DEF a, b
<1>5. ASSUME IsPrefix(a, b) PROVE IsPrefix(l, m)
  <2>1. Len(a) <= Len(b) /\ \A k \in 1..Len(a) : a[k] = b[k]
    BY <1>3, <1>4, <1>5, PrefixPoints
  <2>2. Len(l) <= Len(m)
    BY <1>1, <1>3, <1>4, <2>1
  <2>3. ASSUME NEW k \in 1..Len(l) PROVE l[k] = m[k]
    <3>1. CASE k <= Len(old)
      BY <1>1, <1>2, <3>1
    <3>2. CASE k > Len(old)
      <4> DEFINE j == k - Len(old)
      <4>1. j \in Nat /\ k = Len(old) + j
        BY <1>1, <3>2
      <4> HIDE DEF j
      <4>2. j \in 1..(Len(l) - Len(old)) /\ j \in 1..(Len(m) - Len(old)) /\ k = Len(old) + j
        BY <1>1, <2>2, <3>2, <4>1
      <4>3. Len(new) + j \in 1..Len(a)
        BY <1>1, <1>3, <4>2
      <4>4. l[Len(old) + j] = a[Len(new) + j] /\ m[Len(old) + j] = b[Len(new) + j]
        BY <1>3, <1>4, <4>2
      <4> QED BY <2>1, <4>2, <4>3, <4>4
    <3> QED BY <1>1, <3>1, <3>2
  <2> QED BY <2>2, <2>3, PrefixPoints
<1>6. ASSUME IsPrefix(l, m) PROVE IsPrefix(a, b)
  <2>1. Len(l) <= Len(m) /\ \A k \in 1..Len(l) : l[k] = m[k]
    BY <1>6, PrefixPoints
  <2>2. Len(a) <= Len(b)
    BY <1>1, <1>3, <1>4, <2>1
  <2>3. ASSUME NEW k \in 1..Len(a) PROVE a[k] = b[k]
    <3>1. CASE k <= Len(new)
      BY <1>1, <1>3, <1>4, <3>1
    <3>2. CASE k > Len(new)
      <4> DEFINE j == k - Len(new)
      <4>1. j \in Nat /\ k = Len(new) + j
        BY <1>1, <3>2
      <4> HIDE DEF j
      <4>2. j \in 1..(Len(l) - Len(old)) /\ j \in 1..(Len(m) - Len(old)) /\ k = Len(new) + j
        BY <1>1, <1>3, <2>1, <3>2, <4>1
      <4>3. Len(old) + j \in 1..Len(l)
        BY <1>1, <4>2
      <4>4. l[Len(old) + j] = a[Len(new) + j] /\ m[Len(old) + j] = b[Len(new) + j]
        BY <1>3, <1>4, <4>2
      <4> QED BY <2>1, <4>2, <4>3, <4>4
    <3> QED BY <1>1, <1>3, <3>1, <3>2
  <2> QED BY <1>3, <1>4, <2>2, <2>3, PrefixPoints
<1>7. ASSUME a = b PROVE l = m
  <2>1. Len(l) = Len(m)
    BY <1>1, <1>3, <1>4, <1>7
  <2>2. IsPrefix(a, b)
    BY <1>3, <1>7, PrefixSelf
  <2>3. \A k \in 1..Len(l) : l[k] = m[k]
    BY <1>5, <2>2, PrefixPoints
  <2> QED BY <2>1, <2>3, SamePath
<1>8. IsPrefix(new, b)
  <2>1. Len(new) <= Len(b)
    BY <1>1, <1>4
  <2> QED BY <1>4, <2>1, PrefixPoints
<1> QED BY <1>5, <1>6, <1>7, <1>8 DEF a, b

(* What is above a moved path is above the new place, or moved itself.     *)
LEMMA RebaseAbove ==
  ASSUME NEW S, NEW m \in Seq(S), NEW old \in Seq(S), NEW new \in Seq(S), NEW q \in Seq(S),
         IsPrefix(old, m), IsPrefix(q, Rebase(m, old, new)), ~IsPrefix(q, new)
  PROVE  \E l \in Seq(S) : IsPrefix(old, l) /\ IsPrefix(l, m) /\ q = Rebase(l, old, new)
<1> DEFINE b == Rebase(m, old, new)
<1>1. /\ Len(old) \in Nat /\ Len(m) \in Nat /\ Len(new) \in Nat /\ Len(q) \in Nat
      /\ Len(old) <= Len(m)
  BY PrefixPoints
<1>2. /\ b \in Seq(S) /\ Len(b) = Len(new) + (Len(m) - Len(old))
      /\ \A k \in 1..Len(new) : b[k] = new[k]
      /\ \A k \in 1..(Len(m) - Len(old)) : b[Len(new) + k] = m[Len(old) + k]
  <2>1. b \in Seq(S) /\ Len(b) = Len(new) + (Len(m) - Len(old))
    BY RebasePoints
  <2>2. \A k \in 1..Len(new) : b[k] = new[k]
    BY RebasePoints
  <2>3. \A k \in 1..(Len(m) - Len(old)) : b[Len(new) + k] = m[Len(old) + k]
    BY RebasePoints
  <2> QED BY <2>1, <2>2, <2>3
<1>3. IsPrefix(q, b)
  OBVIOUS
<1> HIDE DEF b
<1>4. Len(q) <= Len(b) /\ \A k \in 1..Len(q) : q[k] = b[k]
  BY <1>2, <1>3, PrefixPoints
<1>5. Len(new) < Len(q)
  <2> SUFFICES ASSUME Len(q) <= Len(new) PROVE FALSE
    BY <1>1
  <2>1. \A k \in 1..Len(q) : q[k] = new[k]
    BY <1>1, <1>2, <1>4
  <2> QED BY <2>1, PrefixPoints
<1> DEFINE n == Len(q) - Len(new)
           l == SubSeq(m, 1, Len(old) + n)
<1>6. n \in Nat /\ Len(old) + n <= Len(m) /\ Len(q) = Len(new) + n /\ Len(old) + n \in Nat
  BY <1>1, <1>2, <1>4, <1>5
<1> HIDE DEF n
<1>7. l \in Seq(S) /\ Len(l) = Len(old) + n /\ \A k \in 1..(Len(old) + n) : l[k] = m[k]
  BY <1>1, <1>6
<1> HIDE DEF l
<1>8. IsPrefix(l, m)
  BY <1>6, <1>7, PrefixPoints
<1>9. IsPrefix(old, l)
  <2>1. \A k \in 1..Len(old) : old[k] = m[k]
    BY PrefixPoints
  <2>2. \A k \in 1..Len(old) : old[k] = l[k]
    BY <1>1, <1>6, <1>7, <2>1
  <2>3. Len(old) <= Len(l)
    BY <1>1, <1>6, <1>7
  <2> QED BY <1>7, <2>2, <2>3, PrefixPoints
<1>10. q = Rebase(l, old, new)
  <2> DEFINE a == Rebase(l, old, new)
  <2>0. l \in Seq(S)
    BY <1>7
  <2>1. /\ a \in Seq(S) /\ Len(a) = Len(new) + (Len(l) - Len(old))
        /\ \A k \in 1..Len(new) : a[k] = new[k]
        /\ \A k \in 1..(Len(l) - Len(old)) : a[Len(new) + k] = l[Len(old) + k]
    <3>1. a \in Seq(S) /\ Len(a) = Len(new) + (Len(l) - Len(old))
      BY <2>0, <1>9, RebasePoints
    <3>2. \A k \in 1..Len(new) : a[k] = new[k]
      BY <2>0, <1>9, RebasePoints
    <3>3. \A k \in 1..(Len(l) - Len(old)) : a[Len(new) + k] = l[Len(old) + k]
      BY <2>0, <1>9, RebasePoints
    <3> QED BY <3>1, <3>2, <3>3
  <2> HIDE DEF a
  <2>2. Len(a) = Len(q) /\ Len(l) - Len(old) = n
    BY <1>1, <1>6, <1>7, <2>1
  <2>3. ASSUME NEW k \in 1..Len(q) PROVE q[k] = a[k]
    <3>1. CASE k <= Len(new)
      BY <1>1, <1>2, <1>4, <2>1, <3>1
    <3>2. CASE k > Len(new)
      <4> DEFINE j == k - Len(new)
      <4>1. j \in Nat /\ k = Len(new) + j
        BY <1>1, <3>2
      <4> HIDE DEF j
      <4>2. /\ j \in 1..n /\ j \in 1..(Len(m) - Len(old)) /\ k = Len(new) + j
            /\ Len(old) + j \in 1..(Len(old) + n)
        BY <1>1, <1>6, <3>2, <4>1
      <4>3. a[Len(new) + j] = l[Len(old) + j] /\ b[Len(new) + j] = m[Len(old) + j]
        BY <1>2, <2>1, <2>2, <4>2
      <4>4. l[Len(old) + j] = m[Len(old) + j]
        BY <1>7, <4>2
      <4> QED BY <1>4, <4>2, <4>3, <4>4
    <3> QED BY <1>1, <3>1, <3>2
  <2>4. q = a
    BY <2>1, <2>2, <2>3, SamePath
  <2> QED BY <2>4 DEF a
<1> QED BY <1>7, <1>8, <1>9, <1>10

(* What a rename leaves where: everything at or below old is below new,    *)
(* the rest stays, but for an empty target.                                *)
LEMMA MoveParts ==
  ASSUME NEW S, NEW fs, DOMAIN fs \subseteq Seq(S), NEW old \in Seq(S), NEW new \in Seq(S),
         Empty(fs, new), NEW h, h = MoveSubtree(fs, old, new)
  PROVE  /\ h = [q \in DOMAIN h |-> h[q]]
         /\ \A q \in DOMAIN h :
              \/ q \in DOMAIN fs /\ ~IsPrefix(old, q) /\ q # new
              \/ \E m \in DOMAIN fs : IsPrefix(old, m) /\ q = Rebase(m, old, new)
         /\ \A q \in DOMAIN fs : ~IsPrefix(old, q) /\ q # new => q \in DOMAIN h /\ h[q] = fs[q]
         /\ \A m \in DOMAIN fs : IsPrefix(old, m) =>
              Rebase(m, old, new) \in DOMAIN h /\ h[Rebase(m, old, new)] = fs[m]
<1> DEFINE moved   == {q \in DOMAIN fs : IsPrefix(old, q)}
           kept    == DOMAIN fs \ (moved \cup {new})
           came(q) == {m \in moved : Rebase(m, old, new) = q}
           dom     == kept \cup {Rebase(m, old, new) : m \in moved}
           val(q)  == IF came(q) = {} THEN fs[q] ELSE fs[CHOOSE m \in came(q) : TRUE]
<1>1. h = [q \in dom |-> val(q)]
  BY DEF MoveSubtree
<1>2. ASSUME NEW q \in kept PROVE q \in dom /\ val(q) = fs[q]
  <2>1. ASSUME NEW m \in moved, Rebase(m, old, new) = q PROVE FALSE
    <3>1. m \in Seq(S) /\ IsPrefix(old, m)
      OBVIOUS
    <3>2. IsPrefix(new, q)
      BY <2>1, <3>1, RebaseOrder
    <3> QED BY <3>2 DEF Empty
  <2>2. came(q) = {}
    BY <2>1
  <2> QED BY <2>2
<1>3. ASSUME NEW m \in moved
      PROVE  Rebase(m, old, new) \in dom /\ val(Rebase(m, old, new)) = fs[m]
  <2>1. \A l \in came(Rebase(m, old, new)) : l = m
    <3> SUFFICES ASSUME NEW l \in moved, Rebase(l, old, new) = Rebase(m, old, new)
                 PROVE  l = m
      OBVIOUS
    <3>1. l \in Seq(S) /\ m \in Seq(S) /\ IsPrefix(old, l) /\ IsPrefix(old, m)
      OBVIOUS
    <3> QED BY <3>1, RebaseOrder
  <2>2. m \in came(Rebase(m, old, new))
    OBVIOUS
  <2> DEFINE l == CHOOSE l \in came(Rebase(m, old, new)) : TRUE
  <2>3. l \in came(Rebase(m, old, new))
    BY <2>2, Zenon
  <2>4. l = m
    BY <2>1, <2>3, Zenon
  <2>5. val(Rebase(m, old, new)) = fs[l]
    BY <2>2
  <2> QED BY <2>4, <2>5
<1> HIDE DEF val
<1>4. DOMAIN h = dom /\ \A q \in dom : h[q] = val(q)
  BY <1>1
<1>5. h = [q \in DOMAIN h |-> h[q]]
  BY <1>1
<1>6. \A q \in DOMAIN h :
        \/ q \in DOMAIN fs /\ ~IsPrefix(old, q) /\ q # new
        \/ \E m \in DOMAIN fs : IsPrefix(old, m) /\ q = Rebase(m, old, new)
  BY <1>4
<1>7. \A q \in DOMAIN fs : ~IsPrefix(old, q) /\ q # new => q \in DOMAIN h /\ h[q] = fs[q]
  BY <1>2, <1>4
<1>8. ASSUME NEW m \in DOMAIN fs, IsPrefix(old, m)
      PROVE  Rebase(m, old, new) \in DOMAIN h /\ h[Rebase(m, old, new)] = fs[m]
  <2>1. m \in moved
    BY <1>8
  <2> HIDE DEF moved, dom
  <2> QED BY <1>3, <1>4, <2>1
<1> QED BY <1>5, <1>6, <1>7, <1>8

(* The same, one path at a time.                                           *)
LEMMA MoveKeeps ==
  ASSUME NEW S, NEW fs, DOMAIN fs \subseteq Seq(S), NEW old \in Seq(S), NEW new \in Seq(S),
         Empty(fs, new), NEW q \in DOMAIN fs, ~IsPrefix(old, q), q # new
  PROVE  q \in DOMAIN MoveSubtree(fs, old, new) /\ MoveSubtree(fs, old, new)[q] = fs[q]
<1> DEFINE h == MoveSubtree(fs, old, new)
<1>1. h = MoveSubtree(fs, old, new)
  OBVIOUS
<1> HIDE DEF h
<1>2. \A k \in DOMAIN fs : ~IsPrefix(old, k) /\ k # new => k \in DOMAIN h /\ h[k] = fs[k]
  BY <1>1, MoveParts
<1> QED BY <1>1, <1>2

LEMMA MoveTakes ==
  ASSUME NEW S, NEW fs, DOMAIN fs \subseteq Seq(S), NEW old \in Seq(S), NEW new \in Seq(S),
         Empty(fs, new), NEW l \in DOMAIN fs, IsPrefix(old, l)
  PROVE  /\ Rebase(l, old, new) \in DOMAIN MoveSubtree(fs, old, new)
         /\ MoveSubtree(fs, old, new)[Rebase(l, old, new)] = fs[l]
<1> DEFINE h == MoveSubtree(fs, old, new)
<1>1. h = MoveSubtree(fs, old, new)
  OBVIOUS
<1> HIDE DEF h
<1>2. \A k \in DOMAIN fs : IsPrefix(old, k) =>
        Rebase(k, old, new) \in DOMAIN h /\ h[Rebase(k, old, new)] = fs[k]
  BY <1>1, MoveParts
<1> QED BY <1>1, <1>2

(* Where what is there now came from.                                      *)
CameFrom(l, q, old, new) ==
  \/ l = q /\ ~IsPrefix(old, q) /\ q # new
  \/ IsPrefix(old, l) /\ q = Rebase(l, old, new)

LEMMA MoveCame ==
  ASSUME NEW S, NEW fs, DOMAIN fs \subseteq Seq(S), NEW old \in Seq(S), NEW new \in Seq(S),
         Empty(fs, new), NEW q \in DOMAIN MoveSubtree(fs, old, new)
  PROVE  \E l \in DOMAIN fs :
           CameFrom(l, q, old, new) /\ MoveSubtree(fs, old, new)[q] = fs[l]
<1> DEFINE h == MoveSubtree(fs, old, new)
<1>1. h = MoveSubtree(fs, old, new)
  OBVIOUS
<1> HIDE DEF h
<1>2. \A k \in DOMAIN h :
        \/ k \in DOMAIN fs /\ ~IsPrefix(old, k) /\ k # new
        \/ \E m \in DOMAIN fs : IsPrefix(old, m) /\ k = Rebase(m, old, new)
  BY <1>1, MoveParts
<1>3. CASE q \in DOMAIN fs /\ ~IsPrefix(old, q) /\ q # new
  BY <1>3, MoveKeeps DEF CameFrom
<1>4. ASSUME NEW m \in DOMAIN fs, IsPrefix(old, m), q = Rebase(m, old, new)
      PROVE  \E l \in DOMAIN fs :
               CameFrom(l, q, old, new) /\ MoveSubtree(fs, old, new)[q] = fs[l]
  BY <1>4, MoveTakes DEF CameFrom
<1> QED BY <1>1, <1>2, <1>3, <1>4

-----------------------------------------------------------------------------
(* Records that find their parents.                                        *)

ParentsThere(fs, p) == \A q \in ParentsOf(p) : q \in DOMAIN fs /\ fs[q] = Dir

LEMMA NothingToMake ==
  ASSUME NEW fs, fs = [q \in DOMAIN fs |-> fs[q]], NEW p, ParentsThere(fs, p)
  PROVE  WithParents(fs, p) = fs /\ ~Blocked(fs, p)
<1>1. ~Blocked(fs, p)
  BY DEF Blocked, IsFileAt, ParentsThere
<1>2. DOMAIN fs \cup ParentsOf(p) = DOMAIN fs
  BY DEF ParentsThere
<1>3. WithParents(fs, p) = [q \in DOMAIN fs |-> fs[q]]
  BY <1>2 DEF WithParents
<1> QED BY <1>1, <1>3

LEMMA CreateApplied ==
  ASSUME NEW fs, fs = [q \in DOMAIN fs |-> fs[q]], NEW r, r.op = "create",
         ParentsThere(fs, r.path), r.path \notin DOMAIN fs
  PROVE  ApplyRecord(fs, r) = Done(Set(fs, r.path, <<>>))
<1>1. ApplyRecord(fs, r) = apply_create(fs, r)
  BY DEF ApplyRecord
<1>2. CanOpen(fs, r.path) /\ ContentAt(fs, r.path) = <<>>
  BY NothingToMake DEF CanOpen, IsDirAt, ContentAt
<1> QED BY <1>1, <1>2, NothingToMake DEF apply_create, Modify

LEMMA MkdirApplied ==
  ASSUME NEW fs, fs = [q \in DOMAIN fs |-> fs[q]], NEW r, r.op = "mkdir",
         ParentsThere(fs, r.path), r.path \notin DOMAIN fs
  PROVE  ApplyRecord(fs, r) = Done(Set(fs, r.path, Dir))
<1>1. ApplyRecord(fs, r) = apply_mkdir(fs, r)
  BY DEF ApplyRecord
<1> QED BY <1>1, NothingToMake DEF apply_mkdir, IsFileAt

LEMMA UnlinkApplied ==
  ASSUME NEW fs, fs = [q \in DOMAIN fs |-> fs[q]], NEW r, r.op = "unlink",
         ParentsThere(fs, r.path), fs[r.path] # Dir
  PROVE  ApplyRecord(fs, r) = Done(Drop(fs, r.path))
<1>1. ApplyRecord(fs, r) = apply_unlink(fs, r)
  BY DEF ApplyRecord
<1> QED BY <1>1, NothingToMake DEF apply_unlink, IsDirAt

LEMMA RmdirApplied ==
  ASSUME NEW fs, fs = [q \in DOMAIN fs |-> fs[q]], NEW r, r.op = "rmdir",
         ParentsThere(fs, r.path), fs[r.path] = Dir, Empty(fs, r.path)
  PROVE  ApplyRecord(fs, r) = Done(Drop(fs, r.path))
<1>1. ApplyRecord(fs, r) = apply_rmdir(fs, r)
  BY DEF ApplyRecord
<1> QED BY <1>1, NothingToMake DEF apply_rmdir, IsFileAt

LEMMA RenameApplied ==
  ASSUME NEW fs, fs = [q \in DOMAIN fs |-> fs[q]], NEW r, r.op = "rename",
         r.flags = "none" \/ (r.flags = "noreplace" /\ r.npath \notin DOMAIN fs),
         ParentsThere(fs, r.npath), r.path \in DOMAIN fs, r.path # r.npath,
         r.npath \in DOMAIN fs => (fs[r.path] = Dir <=> fs[r.npath] = Dir),
         Empty(fs, r.npath), ~IsPrefix(r.path, r.npath)
  PROVE  ApplyRecord(fs, r) = Done(MoveSubtree(fs, r.path, r.npath))
<1>1. ApplyRecord(fs, r) = apply_rename(fs, r)
  BY DEF ApplyRecord
<1>2. WithParents(fs, r.npath) = fs /\ ~Blocked(fs, r.npath)
  BY NothingToMake
<1>3. CanRename(fs, r.path, r.npath)
  BY DEF CanRename, IsDirAt
<1> QED BY <1>1, <1>2, <1>3 DEF apply_rename
=============================================================================
