---------------------------- MODULE PositionsProofs ----------------------------
(* Lemmas about sequences that the proofs about the models share: induction *)
(* over the naturals for a set, the ascending order of a finite set, the    *)
(* sequence picked at its members, and the flattening of sequences.         *)
EXTENDS Positions, FiniteSetTheorems, SequenceTheorems, WellFoundedInduction, TLAPS

(* Every set of naturals has a least member: its initial segments are       *)
(* finite sets, which strict inclusion orders well.                         *)
LEMMA Least == ASSUME NEW T \in SUBSET Nat, T # {} PROVE \E n \in T : \A m \in T : n <= m
<1>1. PICK n \in T : TRUE
  OBVIOUS
<1> DEFINE S == 0..n
           U == {0..m : m \in {k \in T : k <= n}}
<1>2. IsWellFoundedOn(StrictSubsetOrdering(S), SUBSET S)
  <2>1. IsFiniteSet(0..n)
    BY FS_Interval
  <2>2. FiniteSubsetsOf(0..n) = SUBSET (0..n)
    BY <2>1, FS_FiniteSubsetsOfFinite
  <2> QED
    BY <2>2, FS_StrictSubsetOrderingWellFounded
<1>3. U \subseteq SUBSET S /\ U # {}
  BY <1>1
<1> HIDE DEF U, S
<1>4. PICK x \in U : \A y \in U : <<y, x>> \notin StrictSubsetOrdering(S)
  BY <1>2, <1>3, WFMin
<1> USE DEF U, S
<1>5. PICK m \in T : m <= n /\ x = 0..m
  BY <1>4
<1>6. ASSUME NEW k \in T, k < m PROVE FALSE
  <2>1. 0..k \in U
    BY <1>5, <1>6
  <2>2. <<0..k, x>> \notin StrictSubsetOrdering(S)
    BY <1>4, <2>1
  <2>3. 0..k \subseteq x /\ m \in x /\ m \notin 0..k
    BY <1>5, <1>6
  <2>4. 0..k \in SUBSET S /\ x \in SUBSET S
    BY <1>3, <2>1
  <2> QED
    BY <2>2, <2>3, <2>4 DEF StrictSubsetOrdering
<1> QED
  BY <1>5, <1>6

(* Induction: a set with 0 and with the successor of each of its members    *)
(* has every natural number.                                                *)
LEMMA Induction ==
  ASSUME NEW S, 0 \in S, \A n \in Nat : n \in S => n + 1 \in S
  PROVE  \A n \in Nat : n \in S
<1> DEFINE T == {n \in Nat : n \notin S}
<1> SUFFICES ASSUME T # {} PROVE FALSE
  OBVIOUS
<1>1. PICK n \in T : \A m \in T : n <= m
  BY Least
<1>2. n # 0 /\ n - 1 \in Nat
  BY <1>1
<1>3. n - 1 \notin T
  BY <1>1, <1>2
<1> QED
  BY <1>2, <1>3

(* The least and the largest number of a set *)
LEMMA MinIs ==
  ASSUME NEW S \in SUBSET Int, NEW x \in S, \A y \in S : x <= y PROVE Min(S) = x
<1>1. \A z \in S : (\A y \in S : z <= y) => z = x
  OBVIOUS
<1> QED
  BY <1>1 DEF Min

LEMMA MaxIs ==
  ASSUME NEW S \in SUBSET Int, NEW x \in S, \A y \in S : x >= y PROVE Max(S) = x
<1>1. \A z \in S : (\A y \in S : z >= y) => z = x
  OBVIOUS
<1> QED
  BY <1>1 DEF Max

(* Every part of an interval has one.                                       *)
LEMMA Largest ==
  ASSUME NEW n \in Nat, NEW S \in SUBSET (1..n), S # {}
  PROVE  Max(S) \in S /\ Max(S) \in 1..n
<1> DEFINE T == {n - i : i \in S}
<1>1. T \in SUBSET Nat /\ T # {}
  <2>1. \A i \in 1..n : n - i \in Nat
    OBVIOUS
  <2> QED
    BY <2>1
<1>2. PICK k \in T : \A m \in T : k <= m
  BY <1>1, Least
<1>3. PICK i \in S : k = n - i
  BY <1>2
<1>4. \A j \in S : i >= j
  BY <1>2, <1>3
<1>5. S \in SUBSET Int
  OBVIOUS
<1> HIDE DEF T
<1> QED
  BY <1>3, <1>4, <1>5, MaxIs

----------------------------------------------------------------------------
(* The ascending order of a finite set of naturals *)

Rank(S, i) == Cardinality({j \in S : j <= i})

(* A member of a higher rank is larger, and every rank is that of one.      *)
LEMMA RankProperties ==
  ASSUME NEW S \in SUBSET Nat, IsFiniteSet(S)
  PROVE  /\ Cardinality(S) \in Nat
         /\ \A i \in S : Rank(S, i) \in 1..Cardinality(S)
         /\ \A i, j \in S : i < j <=> Rank(S, i) < Rank(S, j)
         /\ \A k \in 1..Cardinality(S) : \E i \in S : Rank(S, i) = k
<1> DEFINE n == Cardinality(S)
           Below(i) == {j \in S : j <= i}
           f == [i \in S |-> Cardinality(Below(i))]
<1>1. n \in Nat
  BY FS_CardinalityType
<1>2. ASSUME NEW i \in S
      PROVE  IsFiniteSet(Below(i)) /\ Cardinality(Below(i)) \in 1..n
  <2>1. Below(i) \in SUBSET S /\ i \in Below(i)
    OBVIOUS
  <2>2. IsFiniteSet(Below(i)) /\ Cardinality(Below(i)) <= n
    BY <2>1, FS_Subset
  <2>3. Cardinality(Below(i)) \in Nat /\ Cardinality(Below(i)) # 0
    BY <2>1, <2>2, FS_CardinalityType, FS_EmptySet
  <2> QED
    BY <1>1, <2>2, <2>3
<1>3. ASSUME NEW i \in S, NEW j \in S, i < j
      PROVE  Cardinality(Below(i)) < Cardinality(Below(j))
  <2>1. Below(i) \in SUBSET Below(j) /\ Below(i) # Below(j)
    <3>1. \A k \in S : k \in Nat
      OBVIOUS
    <3>2. \A k \in S : k <= i => k <= j
      BY <1>3, <3>1
    <3>3. j \in Below(j) /\ j \notin Below(i)
      BY <1>3, <3>1
    <3> QED
      BY <3>2, <3>3
  <2>2. Cardinality(Below(i)) <= Cardinality(Below(j)) /\ Cardinality(Below(i)) # Cardinality(Below(j))
    BY <1>2, <2>1, FS_Subset
  <2>3. Cardinality(Below(i)) \in Nat /\ Cardinality(Below(j)) \in Nat
    BY <1>1, <1>2
  <2> HIDE DEF Below
  <2> QED
    BY <2>2, <2>3
<1>4. f \in [S -> 1..n]
  BY <1>2
<1>5. f \in Injection(S, 1..n)
  <2>1. ASSUME NEW i \in S, NEW j \in S, f[i] = f[j] PROVE i = j
    <3>1. i \in Nat /\ j \in Nat /\ f[i] = Cardinality(Below(i)) /\ f[j] = Cardinality(Below(j))
      OBVIOUS
    <3>2. Cardinality(Below(i)) \in Nat /\ Cardinality(Below(j)) \in Nat
      BY <1>1, <1>2
    <3>3. ~(i < j) /\ ~(j < i)
      <4>1. i < j => Cardinality(Below(i)) < Cardinality(Below(j))
        BY <1>3
      <4>2. j < i => Cardinality(Below(j)) < Cardinality(Below(i))
        BY <1>3
      <4>3. Cardinality(Below(i)) = Cardinality(Below(j))
        BY <2>1, <3>1
      <4> HIDE DEF f, Below
      <4> QED
        BY <3>2, <4>1, <4>2, <4>3
    <3> QED
      BY <3>1, <3>3
  <2> HIDE DEF f, n
  <2> QED
    BY <1>4, <2>1 DEF Injection, IsInjective
<1>6. IsFiniteSet(1..n) /\ Cardinality(1..n) = n
  BY <1>1, FS_Interval
<1>7. f \in Surjection(S, 1..n)
  BY <1>5, <1>6, FS_Injection
<1>8. \A k \in 1..n : \E i \in S : Cardinality(Below(i)) = k
  BY <1>7 DEF Surjection
<1>9. \A i, j \in S : i < j <=> Cardinality(Below(i)) < Cardinality(Below(j))
  <2> TAKE i, j \in S
  <2>1. i < j \/ i = j \/ j < i
    OBVIOUS
  <2>2. Cardinality(Below(i)) \in Nat /\ Cardinality(Below(j)) \in Nat
    BY <1>2
  <2> QED
    BY <1>3, <2>1, <2>2
<1> QED
  BY <1>1, <1>2, <1>8, <1>9 DEF Rank

(* InOrder lists every member of the set, each once, in ascending order.    *)
LEMMA InOrderProperties ==
  ASSUME NEW S \in SUBSET Nat, IsFiniteSet(S)
  PROVE  /\ Cardinality(S) \in Nat
         /\ InOrder(S) \in Seq(S) /\ Len(InOrder(S)) = Cardinality(S)
         /\ DOMAIN InOrder(S) = 1..Cardinality(S)
         /\ \A k, l \in 1..Cardinality(S) : k < l <=> InOrder(S)[k] < InOrder(S)[l]
         /\ \A i \in S : \E k \in 1..Cardinality(S) : InOrder(S)[k] = i
<1> DEFINE n == Cardinality(S)
           o == InOrder(S)
<1>1. /\ n \in Nat
      /\ \A i \in S : Rank(S, i) \in 1..n
      /\ \A i, j \in S : i < j <=> Rank(S, i) < Rank(S, j)
      /\ \A k \in 1..n : \E i \in S : Rank(S, i) = k
  BY RankProperties
<1>2. o = [k \in 1..n |-> CHOOSE i \in S : Rank(S, i) = k]
  BY DEF InOrder, Rank
<1>3. \A k \in 1..n : o[k] \in S /\ Rank(S, o[k]) = k
  BY <1>1, <1>2
<1>4. o \in [1..n -> S]
  BY <1>2, <1>3
<1>5. o \in Seq(S) /\ Len(o) = n /\ DOMAIN o = 1..n
  BY <1>1, <1>4
<1>6. \A k, l \in 1..n : k < l <=> o[k] < o[l]
  <2> TAKE k, l \in 1..n
  <2> HIDE DEF n, o
  <2>1. o[k] \in S /\ o[l] \in S /\ Rank(S, o[k]) = k /\ Rank(S, o[l]) = l
    BY <1>3
  <2>2. o[k] < o[l] <=> Rank(S, o[k]) < Rank(S, o[l])
    BY <1>1, <2>1
  <2> QED
    BY <2>1, <2>2
<1>7. \A i \in S : \E k \in 1..n : o[k] = i
  <2> TAKE i \in S
  <2>1. Rank(S, i) \in 1..n /\ o[Rank(S, i)] \in S /\ Rank(S, o[Rank(S, i)]) = Rank(S, i)
    BY <1>1, <1>3
  <2>2. \A j \in S : Rank(S, j) = Rank(S, i) => j = i
    <3> TAKE j \in S
    <3>1. i \in Nat /\ j \in Nat /\ Rank(S, i) \in Nat /\ Rank(S, j) \in Nat
      BY <1>1
    <3>2. (i < j <=> Rank(S, i) < Rank(S, j)) /\ (j < i <=> Rank(S, j) < Rank(S, i))
      BY <1>1
    <3> QED
      BY <3>1, <3>2
  <2>3. o[Rank(S, i)] = i
    BY <2>1, <2>2
  <2> QED
    BY <2>1, <2>3
<1> QED
  BY <1>1, <1>5, <1>6, <1>7

(* Nothing else does. *)
LEMMA InOrderUnique ==
  ASSUME NEW S \in SUBSET Nat, NEW n \in Nat, NEW f \in [1..n -> S],
         \A k, l \in 1..n : k < l => f[k] < f[l],
         \A i \in S : \E k \in 1..n : f[k] = i
  PROVE  IsFiniteSet(S) /\ Cardinality(S) = n /\ InOrder(S) = f
<1>1. \A k \in 1..n : f[k] \in S /\ f[k] \in Nat
  OBVIOUS
<1>2. \A k, l \in 1..n : f[k] = f[l] => k = l
  BY <1>1
<1>3. f \in Bijection(1..n, S)
  BY <1>2 DEF Bijection, Injection, Surjection, IsInjective
<1>4. IsFiniteSet(1..n) /\ Cardinality(1..n) = n
  BY FS_Interval
<1>5. IsFiniteSet(S) /\ Cardinality(S) = n
  BY <1>3, <1>4, FS_Bijection DEF ExistsBijection
<1>6. ASSUME NEW k \in 1..n PROVE Rank(S, f[k]) = k
  <2> DEFINE B == {j \in S : j <= f[k]}
             g == [l \in 1..k |-> f[l]]
  <2>1. \A l \in 1..n : f[l] <= f[k] <=> l <= k
    BY <1>1
  <2>2. \A l \in 1..k : l \in 1..n /\ f[l] \in B
    BY <1>1, <2>1
  <2>3. \A j \in B : \E l \in 1..k : f[l] = j
    BY <2>1
  <2>4. g \in [1..k -> B]
    BY <2>2
  <2> HIDE DEF B
  <2>5. g \in Bijection(1..k, B)
    BY <1>2, <2>2, <2>3, <2>4 DEF Bijection, Injection, Surjection, IsInjective
  <2>6. IsFiniteSet(1..k) /\ Cardinality(1..k) = k
    BY FS_Interval
  <2>7. Cardinality(B) = k
    BY <2>5, <2>6, FS_Bijection DEF ExistsBijection
  <2> QED
    BY <2>7 DEF Rank, B
<1>7. \A k \in 1..n : (CHOOSE i \in S : Rank(S, i) = k) = f[k]
  <2> TAKE k \in 1..n
  <2>1. \A i \in S : Rank(S, i) = k => i = f[k]
    <3> TAKE i \in S
    <3>1. PICK l \in 1..n : f[l] = i
      OBVIOUS
    <3> QED
      BY <1>6, <3>1
  <2>2. f[k] \in S /\ Rank(S, f[k]) = k
    BY <1>1, <1>6
  <2> QED
    BY <2>1, <2>2
<1>8. InOrder(S) = [k \in 1..n |-> CHOOSE i \in S : Rank(S, i) = k]
  BY <1>5 DEF InOrder, Rank
<1>9. InOrder(S) = [k \in 1..n |-> f[k]]
  BY <1>7, <1>8
<1> QED
  BY <1>5, <1>9

----------------------------------------------------------------------------
(* The elements at some positions are elements, in their order.             *)
LEMMA PickProperties ==
  ASSUME NEW T, NEW s \in Seq(T), NEW S \in SUBSET (1..Len(s))
  PROVE  /\ Cardinality(S) \in Nat
         /\ Pick(s, S) \in Seq(T) /\ Len(Pick(s, S)) = Cardinality(S)
         /\ DOMAIN Pick(s, S) = 1..Cardinality(S)
         /\ InOrder(S) \in [1..Cardinality(S) -> S]
         /\ \A k, l \in 1..Cardinality(S) : k < l <=> InOrder(S)[k] < InOrder(S)[l]
         /\ \A k \in 1..Cardinality(S) : Pick(s, S)[k] = s[InOrder(S)[k]]
         /\ \A i \in S : \E k \in 1..Cardinality(S) : InOrder(S)[k] = i
<1>1. S \in SUBSET Nat /\ IsFiniteSet(S)
  <2>1. Len(s) \in Nat
    OBVIOUS
  <2>2. IsFiniteSet(1..Len(s))
    BY <2>1, FS_Interval
  <2>3. IsFiniteSet(S)
    BY <2>2, FS_Subset
  <2>4. 1..Len(s) \subseteq Nat
    BY <2>1
  <2> QED
    BY <2>3, <2>4
<1>2. /\ Cardinality(S) \in Nat
      /\ InOrder(S) \in Seq(S) /\ Len(InOrder(S)) = Cardinality(S)
      /\ DOMAIN InOrder(S) = 1..Cardinality(S)
      /\ \A k, l \in 1..Cardinality(S) : k < l <=> InOrder(S)[k] < InOrder(S)[l]
      /\ \A i \in S : \E k \in 1..Cardinality(S) : InOrder(S)[k] = i
  BY <1>1, InOrderProperties
<1>3. InOrder(S) \in [1..Cardinality(S) -> S]
  BY <1>2
<1>4. Pick(s, S) = [k \in 1..Cardinality(S) |-> s[InOrder(S)[k]]]
  BY <1>2 DEF Pick
<1>5. \A k \in 1..Cardinality(S) : s[InOrder(S)[k]] \in T
  <2> TAKE k \in 1..Cardinality(S)
  <2>1. InOrder(S)[k] \in 1..Len(s)
    BY <1>3
  <2> HIDE DEF InOrder
  <2> QED
    BY <2>1, ElementOfSeq
<1>6. Pick(s, S) \in Seq(T) /\ Len(Pick(s, S)) = Cardinality(S)
  BY <1>2, <1>4, <1>5
<1> QED
  BY <1>2, <1>3, <1>4, <1>6

(* Picking along any ascending enumeration of the positions                 *)
LEMMA PickAlong ==
  ASSUME NEW s, NEW S \in SUBSET Nat, NEW n \in Nat, NEW f \in [1..n -> S],
         \A k, l \in 1..n : k < l => f[k] < f[l],
         \A i \in S : \E k \in 1..n : f[k] = i
  PROVE  Pick(s, S) = [k \in 1..n |-> s[f[k]]]
<1>1. InOrder(S) = f
  BY InOrderUnique
<1>2. DOMAIN f = 1..n
  OBVIOUS
<1> QED
  BY <1>1, <1>2 DEF Pick

(* Picking every position is the identity.                                  *)
LEMMA PickAll == ASSUME NEW T, NEW s \in Seq(T) PROVE Pick(s, 1..Len(s)) = s
<1> DEFINE n == Len(s)
           S == 1..n
           f == [k \in 1..n |-> k]
<1>1. n \in Nat /\ S \in SUBSET Nat /\ f \in [1..n -> S]
  OBVIOUS
<1>2. \A k \in 1..n : f[k] = k
  OBVIOUS
<1>3. /\ \A k, l \in 1..n : k < l => f[k] < f[l]
      /\ \A i \in S : \E k \in 1..n : f[k] = i
  BY <1>1, <1>2
<1> HIDE DEF f, S, n
<1>4. Pick(s, S) = [k \in 1..n |-> s[f[k]]]
  BY <1>1, <1>3, PickAlong
<1>5. Pick(s, S) = [k \in 1..n |-> s[k]]
  BY <1>2, <1>4
<1> QED
  BY <1>5 DEF S, n

----------------------------------------------------------------------------
(* Induction along a sequence                                               *)
LEMMA SequenceInduction ==
  ASSUME NEW T, NEW P, <<>> \in P,
         \A s \in Seq(T), e \in T : s \in P => Append(s, e) \in P
  PROVE  \A s \in Seq(T) : s \in P
<1> DEFINE N == {n \in Nat : \A s \in Seq(T) : Len(s) = n => s \in P}
<1>1. 0 \in N
  BY EmptySeq
<1>2. ASSUME NEW n \in Nat, n \in N PROVE n + 1 \in N
  <2> SUFFICES ASSUME NEW s \in Seq(T), Len(s) = n + 1 PROVE s \in P
    OBVIOUS
  <2>1. s # <<>>
    BY EmptySeq
  <2>2. PICK u \in Seq(T), e \in T : s = Append(u, e)
    BY <2>1, SequenceEmptyOrAppend
  <2>3. Len(u) = n
    BY <2>2
  <2> QED
    BY <1>2, <2>2, <2>3
<1>3. \A n \in Nat : n \in N
  <2> HIDE DEF N
  <2> QED
    BY <1>1, <1>2, Induction
<1> QED
  BY <1>3

(* What FlattenSeq computes along its argument *)
FlattensTo(g, ts, n) == g = [i \in 1..n |-> IF i = 1 THEN ts[i] ELSE g[i - 1] \o ts[i]]

Flattens(g, ts) == FlattensTo(g, ts, Len(ts))

LEMMA FlattensExists == ASSUME NEW S, NEW ts \in Seq(Seq(S)) PROVE \E g : Flattens(g, ts)
<1> DEFINE P == {us \in Seq(Seq(S)) : \E g : Flattens(g, us)}
<1>1. <<>> \in P
  <2>1. Flattens([i \in 1..0 |-> 0], <<>>)
    BY DEF Flattens, FlattensTo
  <2> QED
    BY <2>1, EmptySeq
<1>2. ASSUME NEW us \in Seq(Seq(S)), NEW t \in Seq(S), us \in P PROVE Append(us, t) \in P
  <2>1. PICK g : Flattens(g, us)
    BY <1>2
  <2> DEFINE n == Len(us)
             h == [i \in 1..(n + 1) |-> IF i <= n THEN g[i] ELSE IF n = 0 THEN t ELSE g[n] \o t]
  <2>2. /\ n \in Nat /\ Len(Append(us, t)) = n + 1 /\ Append(us, t)[n + 1] = t
        /\ \A i \in 1..n : Append(us, t)[i] = us[i]
    OBVIOUS
  <2>3. \A i \in 1..n : g[i] = IF i = 1 THEN us[i] ELSE g[i - 1] \o us[i]
    BY <2>1 DEF Flattens, FlattensTo
  <2>4. \A i \in 1..(n + 1) :
          h[i] = IF i = 1 THEN Append(us, t)[i] ELSE h[i - 1] \o Append(us, t)[i]
    <3> TAKE i \in 1..(n + 1)
    <3>1. CASE i <= n
      BY <2>2, <2>3, <3>1
    <3>2. CASE i = n + 1 /\ n # 0
      BY <2>2, <3>2
    <3>3. CASE i = n + 1 /\ n = 0
      BY <2>2, <3>3
    <3> QED
      BY <2>2, <3>1, <3>2, <3>3
  <2>5. Flattens(h, Append(us, t))
    <3>1. h = [i \in 1..(n + 1) |-> h[i]]
      OBVIOUS
    <3> HIDE DEF h
    <3> QED
      BY <2>2, <2>4, <3>1 DEF Flattens, FlattensTo
  <2> HIDE DEF h
  <2> QED
    BY <2>5, AppendProperties
<1> HIDE DEF P
<1>3. ts \in P
  BY <1>1, <1>2, SequenceInduction
<1> QED
  BY <1>3 DEF P

LEMMA FlattensStep ==
  ASSUME NEW ts, NEW n \in Nat, NEW g,
         FlattensTo(g, ts, n)
  PROVE  \A i \in 1..n : g[i] = IF i = 1 THEN ts[i] ELSE g[i - 1] \o ts[i]
<1> DEFINE e(i) == IF i = 1 THEN ts[i] ELSE g[i - 1] \o ts[i]
<1>1. g = [i \in 1..n |-> e(i)]
  BY DEF FlattensTo
<1> HIDE DEF e
<1>2. \A i \in 1..n : g[i] = e(i)
  BY <1>1
<1> QED
  BY <1>2 DEF e

LEMMA FlattensUnique ==
  ASSUME NEW ts, NEW n \in Nat, NEW g, NEW h, NEW m \in Nat, n <= m,
         FlattensTo(g, ts, m), FlattensTo(h, ts, n)
  PROVE  \A i \in 1..n : g[i] = h[i]
<1> DEFINE N == {k \in Nat : k \in 1..n => g[k] = h[k]}
<1>1. 0 \in N
  OBVIOUS
<1>2. /\ \A i \in 1..m : g[i] = IF i = 1 THEN ts[i] ELSE g[i - 1] \o ts[i]
      /\ \A i \in 1..n : h[i] = IF i = 1 THEN ts[i] ELSE h[i - 1] \o ts[i]
  BY FlattensStep
<1>3. ASSUME NEW k \in Nat, k \in N PROVE k + 1 \in N
  <2> SUFFICES ASSUME k + 1 \in 1..n PROVE g[k + 1] = h[k + 1]
    OBVIOUS
  <2>4. k + 1 \in 1..m
    OBVIOUS
  <2>1. /\ g[k + 1] = IF k + 1 = 1 THEN ts[k + 1] ELSE g[k + 1 - 1] \o ts[k + 1]
        /\ h[k + 1] = IF k + 1 = 1 THEN ts[k + 1] ELSE h[k + 1 - 1] \o ts[k + 1]
    BY <1>2, <2>4
  <2>2. k + 1 - 1 = k /\ (k # 0 => k \in 1..n) /\ (k + 1 = 1 <=> k = 0)
    OBVIOUS
  <2>3. k # 0 => g[k] = h[k]
    BY <1>3, <2>2
  <2> QED
    BY <2>1, <2>2, <2>3
<1>4. \A k \in Nat : k \in N
  <2> HIDE DEF N
  <2> QED
    BY <1>1, <1>3, Induction
<1>5. \A k \in 1..n : k \in Nat
  OBVIOUS
<1> QED
  BY <1>4, <1>5

(* Flattening nothing, and one sequence more *)
LEMMA FlattenEmpty == FlattenSeq(<<>>) = <<>>
BY DEF FlattenSeq

LEMMA FlattenIs ==
  ASSUME NEW ts, ts # <<>>
  PROVE  FlattenSeq(ts) = (CHOOSE g : Flattens(g, ts))[Len(ts)]
BY DEF FlattenSeq, Flattens, FlattensTo

LEMMA FlattenAppend ==
  ASSUME NEW S, NEW ts \in Seq(Seq(S)), NEW t \in Seq(S)
  PROVE  FlattenSeq(Append(ts, t)) = IF ts = <<>> THEN t ELSE FlattenSeq(ts) \o t
<1> DEFINE us == Append(ts, t)
           n == Len(ts)
           g == CHOOSE x : Flattens(x, ts)
           h == CHOOSE x : Flattens(x, us)
<1>1. /\ n \in Nat /\ us \in Seq(Seq(S)) /\ Len(us) = n + 1 /\ us[n + 1] = t
      /\ \A i \in 1..n : us[i] = ts[i]
  BY AppendProperties
<1>2. Flattens(g, ts)
  BY FlattensExists
<1> HIDE DEF us
<1>3. Flattens(h, us)
  <2>1. \E x : Flattens(x, us)
    BY <1>1, FlattensExists
  <2> QED
    BY <2>1
<1>4. us # <<>>
  BY <1>1, EmptySeq
<1>5. FlattenSeq(us) = h[n + 1]
  BY <1>1, <1>4, FlattenIs
<1>6. ts # <<>> => FlattenSeq(ts) = g[n]
  BY FlattenIs
<1> HIDE DEF g, h, n
<1>7. FlattensTo(h, us, n + 1)
  BY <1>1, <1>3 DEF Flattens
<1>8. h[n + 1] = IF n = 0 THEN t ELSE h[n] \o t
  <2> DEFINE m == n + 1
  <2>1. m \in Nat /\ m \in 1..m /\ m - 1 = n /\ (m = 1 <=> n = 0)
    BY <1>1
  <2>2. FlattensTo(h, us, m)
    BY <1>7
  <2>3. us[m] = t
    BY <1>1
  <2> HIDE DEF m
  <2>4. \A i \in 1..m : h[i] = IF i = 1 THEN us[i] ELSE h[i - 1] \o us[i]
    BY <2>1, <2>2, FlattensStep
  <2>5. h[m] = IF m = 1 THEN us[m] ELSE h[m - 1] \o us[m]
    BY <2>1, <2>4, Zenon
  <2>6. h[m] = IF n = 0 THEN t ELSE h[n] \o t
    BY <2>1, <2>3, <2>5
  <2> QED
    BY <2>6 DEF m
<1>9. FlattensTo(g, us, n)
  <2>1. FlattensTo(g, ts, n)
    BY <1>2 DEF Flattens, n
  <2> QED
    BY <1>1, <2>1 DEF FlattensTo
<1>10. \A i \in 1..n : h[i] = g[i]
  <2>1. n + 1 \in Nat /\ n <= n + 1
    BY <1>1
  <2> QED
    BY <1>1, <1>7, <1>9, <2>1, FlattensUnique
<1>11. n = 0 <=> ts = <<>>
  BY EmptySeq DEF n
<1>12. n # 0 => h[n] = g[n]
  BY <1>1, <1>10
<1> QED
  BY <1>5, <1>6, <1>8, <1>11, <1>12 DEF us

(* Flattening yields a sequence of the elements, and one sequence more      *)
(* stands at its end.                                                       *)
LEMMA FlattenProperties ==
  ASSUME NEW S
  PROVE  \A ts \in Seq(Seq(S)) :
           /\ FlattenSeq(ts) \in Seq(S)
           /\ \A t \in Seq(S) : FlattenSeq(Append(ts, t)) = FlattenSeq(ts) \o t
           /\ \A i \in 1..Len(FlattenSeq(ts)) :
                \E k \in 1..Len(ts) : \E j \in 1..Len(ts[k]) : FlattenSeq(ts)[i] = ts[k][j]
<1> DEFINE Adds(ts) == \A t \in Seq(S) : FlattenSeq(Append(ts, t)) = FlattenSeq(ts) \o t
           Has(ts) == \A i \in 1..Len(FlattenSeq(ts)) :
                        \E k \in 1..Len(ts) : \E j \in 1..Len(ts[k]) : FlattenSeq(ts)[i] = ts[k][j]
           P == {ts \in Seq(Seq(S)) : FlattenSeq(ts) \in Seq(S) /\ Has(ts)}
<1>1. \A ts \in Seq(Seq(S)) : FlattenSeq(ts) \in Seq(S) => Adds(ts)
  <2> TAKE ts \in Seq(Seq(S))
  <2> SUFFICES ASSUME FlattenSeq(ts) \in Seq(S), NEW t \in Seq(S)
               PROVE  FlattenSeq(Append(ts, t)) = FlattenSeq(ts) \o t
    OBVIOUS
  <2>1. CASE ts = <<>>
    <3>1. <<>> \o t = t
      BY ConcatEmptySeq
    <3> QED
      BY <2>1, <3>1, FlattenEmpty, FlattenAppend
  <2>2. CASE ts # <<>>
    BY <2>2, FlattenAppend
  <2> QED
    BY <2>1, <2>2
<1>2. <<>> \in P
  <2>1. <<>> \in Seq(Seq(S)) /\ <<>> \in Seq(S) /\ Len(<<>>) = 0
    BY EmptySeq
  <2>2. FlattenSeq(<<>>) = <<>> /\ 1..0 = {}
    BY FlattenEmpty
  <2>3. Len(FlattenSeq(<<>>)) = 0 /\ FlattenSeq(<<>>) \in Seq(S)
    BY <2>1, <2>2
  <2>4. Has(<<>>)
    BY <2>2, <2>3
  <2> QED
    BY <2>1, <2>3, <2>4
<1>3. ASSUME NEW us \in Seq(Seq(S)), NEW t \in Seq(S), us \in P PROVE Append(us, t) \in P
  <2> DEFINE vs == Append(us, t)
             F == FlattenSeq(us)
             n == Len(us)
  <2>1. /\ vs \in Seq(Seq(S)) /\ n \in Nat /\ Len(vs) = n + 1 /\ vs[n + 1] = t
        /\ \A k \in 1..n : vs[k] = us[k]
    BY AppendProperties
  <2>2. F \in Seq(S) /\ FlattenSeq(vs) = F \o t
    BY <1>1, <1>3
  <2>3. /\ F \o t \in Seq(S) /\ Len(F \o t) = Len(F) + Len(t) /\ Len(F) \in Nat /\ Len(t) \in Nat
        /\ \A i \in 1..Len(F) + Len(t) : (F \o t)[i] = IF i <= Len(F) THEN F[i] ELSE t[i - Len(F)]
    BY <2>2, ConcatProperties, LenProperties
  <2>4. \A i \in 1..Len(F) : \E k \in 1..n : \E j \in 1..Len(us[k]) : F[i] = us[k][j]
    BY <1>3
  <2> HIDE DEF vs, F, n
  <2>5. ASSUME NEW i \in 1..(Len(F) + Len(t))
        PROVE  \E k \in 1..(n + 1) : \E j \in 1..Len(vs[k]) : (F \o t)[i] = vs[k][j]
    <3>1. CASE i <= Len(F)
      <4>1. i \in 1..Len(F) /\ (F \o t)[i] = F[i]
        BY <2>3, <3>1
      <4>2. PICK k \in 1..n : \E j \in 1..Len(us[k]) : F[i] = us[k][j]
        BY <2>4, <4>1
      <4>3. k \in 1..(n + 1) /\ vs[k] = us[k]
        BY <2>1
      <4> QED
        BY <4>1, <4>2, <4>3
    <3>2. CASE ~(i <= Len(F))
      <4>1. i - Len(F) \in 1..Len(t) /\ (F \o t)[i] = t[i - Len(F)]
        BY <2>3, <3>2
      <4>2. n + 1 \in 1..(n + 1) /\ vs[n + 1] = t
        BY <2>1
      <4> QED
        BY <4>1, <4>2
    <3> QED
      BY <3>1, <3>2
  <2>6. FlattenSeq(vs) \in Seq(S) /\ Has(vs)
    <3>1. FlattenSeq(vs) = F \o t /\ Len(vs) = n + 1
      BY <2>1, <2>2
    <3>2. Len(F \o t) = Len(F) + Len(t)
      BY <2>3
    <3>3. Has(vs)
      BY <2>5, <3>1, <3>2, ZenonT(30)
    <3> QED
      BY <2>3, <3>1, <3>3
  <2> QED
    BY <2>1, <2>6 DEF vs
<1>4. \A ts \in Seq(Seq(S)) : ts \in P
  <2> HIDE DEF P
  <2> QED
    BY <1>2, <1>3, SequenceInduction
<1> QED
  BY <1>1, <1>4

(* Short sequences, joined *)
LEMMA ShortConcat ==
  ASSUME NEW a, NEW b, NEW c
  PROVE  /\ <<a>> \o <<b>> = <<a, b>>
         /\ <<a, b>> \o <<c>> = <<a, b, c>>
<1> DEFINE S == {a, b, c}
<1>1. /\ <<a>> \in Seq(S) /\ <<b>> \in Seq(S) /\ <<c>> \in Seq(S) /\ <<a, b>> \in Seq(S)
      /\ <<a, b, c>> \in Seq(S)
  OBVIOUS
<1>2. <<a>> \o <<b>> = <<a, b>>
  <2> DEFINE s == <<a>> \o <<b>>
             t == <<a, b>>
  <2>1. s \in Seq(S) /\ Len(s) = 2 /\ s[1] = a /\ s[2] = b
    BY <1>1, ConcatProperties
  <2>2. t \in Seq(S) /\ Len(t) = 2 /\ t[1] = a /\ t[2] = b
    BY <1>1
  <2>3. \A i \in 1..2 : i = 1 \/ i = 2
    OBVIOUS
  <2> HIDE DEF s, t, S
  <2>4. Len(s) = Len(t) /\ \A i \in 1..Len(s) : s[i] = t[i]
    BY <2>1, <2>2, <2>3
  <2>5. s = t
    BY <2>1, <2>2, <2>4, SeqEqual
  <2> QED
    BY <2>5 DEF s, t
<1>3. <<a, b>> \o <<c>> = <<a, b, c>>
  <2> DEFINE s == <<a, b>> \o <<c>>
             t == <<a, b, c>>
  <2>1. s \in Seq(S) /\ Len(s) = 3 /\ s[1] = a /\ s[2] = b /\ s[3] = c
    BY <1>1, ConcatProperties
  <2>2. t \in Seq(S) /\ Len(t) = 3 /\ t[1] = a /\ t[2] = b /\ t[3] = c
    BY <1>1
  <2>3. \A i \in 1..3 : i = 1 \/ i = 2 \/ i = 3
    OBVIOUS
  <2> HIDE DEF s, t, S
  <2>4. Len(s) = Len(t) /\ \A i \in 1..Len(s) : s[i] = t[i]
    BY <2>1, <2>2, <2>3
  <2>5. s = t
    BY <2>1, <2>2, <2>4, SeqEqual
  <2> QED
    BY <2>5 DEF s, t
<1> QED
  BY <1>2, <1>3
=============================================================================
