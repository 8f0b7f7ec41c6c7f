---------------------------- MODULE AgentLoopProofs ----------------------------
(* Proofs about AgentLoop and the operators of AgentHistory, for any number *)
(* of runs, turns, calls and slots, any cap and any summary: first what the *)
(* operators make of a list, then the batches, then the conversation.       *)
EXTENDS AgentLoop, PositionsProofs

(* A part of a sequence is one of any sequence it begins. *)
LEMMA SubSeqOfFirst ==
  ASSUME NEW T, NEW s \in Seq(T), NEW t \in Seq(T), NEW a \in Nat \ {0}, NEW b \in 0..Len(s)
  PROVE  SubSeq(s \o t, a, b) = SubSeq(s, a, b)
<1>1. CASE b < a
  BY <1>1, SubSeqEmpty
<1>2. CASE a <= b
  <2>1. a \in 1..Len(s) /\ b \in 1..Len(s)
    BY <1>2
  <2> QED
    BY <2>1, SubSeqOfConcat1
<1> QED
  BY <1>1, <1>2

----------------------------------------------------------------------------
(* User turns *)

Users(msgs) == {i \in 1..Len(msgs) : IsUser(msgs[i])}

LEMMA WhereUsers == ASSUME NEW T, NEW msgs \in Seq(T) PROVE Where(msgs, IsUser) = Users(msgs)
<1>1. DOMAIN msgs = 1..Len(msgs)
  BY LenProperties
<1> QED
  BY <1>1 DEF Where, Users

(* A sequence that begins with a user message and has no other *)
IsTurn(t) == t # <<>> /\ IsUser(t[1]) /\ \A i \in 2..Len(t) : ~IsUser(t[i])

(* What follows a list from a user message on is its next turn. *)
LEMMA TurnAppended ==
  ASSUME NEW T, NEW m \in Seq(T), NEW t \in Seq(T), IsTurn(t)
  PROVE  /\ UserTurns(m \o t) = Append(UserTurns(m), t)
         /\ UserTurns(m) \in Seq(Seq(T))
         /\ Users(m \o t) # {}
         /\ Users(m) = {} => Prefix(m \o t) = m
         /\ Users(m) # {} => Prefix(m \o t) = Prefix(m)
<1> DEFINE M == Len(m)
           L == Len(t)
           s == m \o t
           U == Users(m)
           V == Users(s)
           n == Cardinality(U)
           o == InOrder(U)
           f == [k \in 1..(n + 1) |-> IF k <= n THEN o[k] ELSE M + 1]
<1>1. /\ M \in Nat /\ L \in Nat /\ L >= 1 /\ s \in Seq(T) /\ Len(s) = M + L
      /\ \A i \in 1..M : s[i] = m[i]
      /\ \A i \in 1..L : s[M + i] = t[i]
  <2>1. L # 0
    BY EmptySeq DEF IsTurn
  <2>2. M \in Nat /\ L \in Nat
    BY LenProperties
  <2> QED
    BY <2>1, <2>2, ConcatProperties
<1>2. V = U \cup {M + 1}
  <2>1. \A i \in 1..(M + L) : IsUser(s[i]) <=> i \in U \/ i = M + 1
    <3> TAKE i \in 1..(M + L)
    <3> HIDE DEF s
    <3>1. CASE i \in 1..M
      BY <1>1, <3>1 DEF Users
    <3>2. CASE i = M + 1
      BY <1>1, <3>2 DEF IsTurn
    <3>3. CASE i \in (M + 2)..(M + L)
      <4>1. i - M \in 2..L /\ i = M + (i - M) /\ i - M \in 1..L
        BY <1>1, <3>3
      <4>2. s[i] = t[i - M] /\ ~IsUser(t[i - M])
        BY <1>1, <4>1 DEF IsTurn
      <4> QED
        BY <1>1, <3>3, <4>2 DEF Users
    <3> QED
      BY <1>1, <3>1, <3>2, <3>3
  <2>2. U \subseteq 1..(M + L) /\ M + 1 \in 1..(M + L)
    BY <1>1 DEF Users
  <2>3. V = {i \in 1..(M + L) : IsUser(s[i])}
    BY <1>1 DEF Users
  <2> HIDE DEF s, U, V
  <2> QED
    BY <2>1, <2>2, <2>3
<1>3. U \in SUBSET Nat /\ IsFiniteSet(U) /\ (\A i \in U : i \in 1..M)
  <2>1. U \in SUBSET (1..M) /\ IsFiniteSet(1..M)
    BY <1>1, FS_Interval DEF Users
  <2>2. IsFiniteSet(U)
    BY <2>1, FS_Subset
  <2> QED
    BY <1>1, <2>1, <2>2
<1>4. /\ n \in Nat /\ o \in Seq(U) /\ DOMAIN o = 1..n /\ Len(o) = n
      /\ \A k, l \in 1..n : k < l <=> o[k] < o[l]
      /\ \A i \in U : \E k \in 1..n : o[k] = i
  BY <1>3, InOrderProperties
<1>5. \A k \in 1..n : o[k] \in U /\ o[k] \in 1..M
  BY <1>3, <1>4
<1>6. /\ \A k \in 1..n : f[k] = o[k] /\ k \in 1..(n + 1)
      /\ f[n + 1] = M + 1 /\ n + 1 \in 1..(n + 1) /\ n + 1 \in Nat
  BY <1>4
<1> HIDE DEF f, o, n, s, U, V, M, L
<1>7. InOrder(V) = f /\ Cardinality(V) = n + 1
  <2>1. V \in SUBSET Nat
    BY <1>1, <1>2, <1>3
  <2>2. \A k \in 1..(n + 1) : f[k] \in V
    BY <1>2, <1>4, <1>5, <1>6
  <2>3. f \in [1..(n + 1) -> V]
    BY <2>2 DEF f
  <2>4. \A k, l \in 1..(n + 1) : k < l => f[k] < f[l]
    <3> TAKE k, l \in 1..(n + 1)
    <3>1. CASE k \in 1..n /\ l \in 1..n
      BY <1>4, <1>6, <3>1
    <3>2. CASE k \in 1..n /\ l = n + 1
      <4>1. f[k] \in 1..M /\ f[l] = M + 1
        BY <1>5, <1>6, <3>2
      <4> QED
        BY <1>1, <4>1
    <3>3. CASE k = n + 1
      BY <1>4, <3>3
    <3> QED
      BY <1>4, <3>1, <3>2, <3>3
  <2>5. \A i \in V : \E k \in 1..(n + 1) : f[k] = i
    BY <1>2, <1>4, <1>6
  <2> QED
    BY <1>6, <2>1, <2>3, <2>4, <2>5, InOrderUnique
<1> DEFINE e(k) == IF k = n THEN M ELSE o[k + 1] - 1
           d(k) == IF k = n + 1 THEN M + L ELSE f[k + 1] - 1
<1>8. UserTurns(m) = [k \in 1..n |-> SubSeq(m, o[k], e(k))]
  <2>1. TurnStarts(m) = o
    BY WhereUsers DEF TurnStarts, o, U
  <2> QED
    BY <1>4, <2>1 DEF UserTurns, M
<1>9. UserTurns(s) = [k \in 1..(n + 1) |-> SubSeq(s, f[k], d(k))]
  <2>1. TurnStarts(s) = f
    BY <1>1, <1>7, WhereUsers DEF TurnStarts, V
  <2>2. DOMAIN f = 1..(n + 1) /\ Len(f) = n + 1
    BY <1>6 DEF f
  <2> QED
    BY <1>1, <2>1, <2>2 DEF UserTurns
<1>10. \A k \in 1..n : e(k) \in o[k]..M
  <2> TAKE k \in 1..n
  <2>1. CASE k = n
    BY <1>1, <1>5, <2>1
  <2>2. CASE k # n
    <3>1. k + 1 \in 1..n /\ k < k + 1
      BY <1>4, <2>2
    <3>2. o[k] < o[k + 1] /\ o[k] \in 1..M /\ o[k + 1] \in 1..M
      BY <1>4, <1>5, <3>1
    <3> QED
      BY <1>1, <2>2, <3>2
  <2> QED
    BY <2>1, <2>2
<1>11. \A k \in 1..n : SubSeq(s, f[k], d(k)) = SubSeq(m, o[k], e(k))
  <2> TAKE k \in 1..n
  <2>1. d(k) = e(k)
    <3>1. k # n + 1
      BY <1>4
    <3>2. CASE k = n
      BY <1>1, <1>6, <3>1, <3>2
    <3>3. CASE k # n
      <4>1. k + 1 \in 1..n
        BY <1>4, <3>3
      <4> QED
        BY <1>6, <3>1, <3>3, <4>1
    <3> QED
      BY <3>2, <3>3
  <2>2. o[k] \in 1..M /\ e(k) \in o[k]..M
    BY <1>5, <1>10
  <2>3. o[k] \in Nat \ {0} /\ e(k) \in 0..M
    BY <1>1, <2>2
  <2> HIDE DEF e, d
  <2>4. SubSeq(s, o[k], e(k)) = SubSeq(m, o[k], e(k))
    BY <2>3, SubSeqOfFirst DEF s, M
  <2> QED
    BY <1>6, <2>1, <2>4
<1>12. SubSeq(s, f[n + 1], d(n + 1)) = t
  <2>1. f[n + 1] = M + 1 /\ d(n + 1) = M + L
    BY <1>6
  <2>2. M + 1 \in M + 1..M + L /\ M + L \in M + 1..M + L /\ M + 1 - M = 1 /\ M + L - M = L
    BY <1>1
  <2>3. SubSeq(s, M + 1, M + L) = SubSeq(t, 1, L)
    BY <2>2, SubSeqOfConcat2 DEF s, M, L
  <2>4. SubSeq(t, 1, L) = t
    BY SubSeqFull DEF L
  <2> QED
    BY <2>1, <2>3, <2>4
<1>13. \A k \in 1..n : SubSeq(m, o[k], e(k)) \in Seq(T)
  <2> TAKE k \in 1..n
  <2>1. o[k] \in 1..M /\ e(k) \in o[k]..M
    BY <1>5, <1>10
  <2> HIDE DEF e
  <2>2. \A i \in o[k]..e(k) : i \in 1..Len(m)
    BY <1>1, <2>1 DEF M
  <2>3. \A i \in o[k]..e(k) : m[i] \in T
    BY <2>2, ElementOfSeq
  <2>4. o[k] \in Int /\ e(k) \in Int
    BY <1>1, <2>1
  <2> QED
    BY <2>3, <2>4, SubSeqProperties
<1> HIDE DEF e, d
<1>14. UserTurns(m) \in Seq(Seq(T)) /\ Len(UserTurns(m)) = n
  BY <1>4, <1>8, <1>13
<1>15. UserTurns(s) = Append(UserTurns(m), t)
  <2>1. \A k \in 1..(n + 1) :
          UserTurns(s)[k] = IF k \in 1..n THEN UserTurns(m)[k] ELSE t
    <3> TAKE k \in 1..(n + 1)
    <3>1. CASE k \in 1..n
      BY <1>8, <1>9, <1>11, <3>1
    <3>2. CASE k = n + 1
      BY <1>4, <1>9, <1>12, <3>2
    <3> QED
      BY <1>4, <3>1, <3>2
  <2>2. UserTurns(s) = [k \in 1..(n + 1) |-> UserTurns(s)[k]]
    BY <1>9
  <2> DEFINE A == Append(UserTurns(m), t)
  <2>3. A \in Seq(Seq(T)) /\ Len(A) = n + 1 /\ A[n + 1] = t
        /\ \A k \in 1..n : A[k] = UserTurns(m)[k]
    BY <1>14, AppendProperties
  <2> HIDE DEF A
  <2>4. A = [k \in 1..(n + 1) |-> A[k]]
    <3>1. A \in [1..(n + 1) -> Seq(T)]
      BY <2>3, LenProperties
    <3> QED
      BY <3>1
  <2>5. \A k \in 1..(n + 1) : A[k] = UserTurns(s)[k]
    <3> TAKE k \in 1..(n + 1)
    <3>1. k \in 1..n \/ (k = n + 1 /\ k \notin 1..n)
      BY <1>4
    <3> QED
      BY <2>1, <2>3, <3>1
  <2>6. A = UserTurns(s)
    <3>1. [k \in 1..(n + 1) |-> A[k]] = [k \in 1..(n + 1) |-> UserTurns(s)[k]]
      BY <2>5
    <3> QED
      BY <2>2, <2>4, <3>1, Zenon
  <2> QED
    BY <2>6 DEF A
<1>16. V # {}
  BY <1>2
<1>17. Prefix(s) = SubSeq(s, 1, Min(V) - 1)
  BY <1>1, <1>16, WhereUsers DEF Prefix, V
<1>18. CASE U = {}
  <2>1. Min(V) = M + 1
    <3>1. V \in SUBSET Int /\ M + 1 \in V /\ \A y \in V : M + 1 <= y
      BY <1>1, <1>2, <1>18
    <3> QED
      BY <3>1, MinIs
  <2>2. M \in 0..Len(m) /\ 1 \in Nat \ {0} /\ M + 1 - 1 = M
    BY <1>1 DEF M
  <2>3. SubSeq(s, 1, M) = SubSeq(m, 1, M)
    BY <2>2, SubSeqOfFirst DEF s
  <2>4. SubSeq(m, 1, M) = m
    BY SubSeqFull DEF M
  <2>5. Prefix(s) = m
    BY <1>17, <2>1, <2>2, <2>3, <2>4
  <2> QED
    BY <1>14, <1>15, <1>16, <1>18, <2>5 DEF s, U, V
<1>19. CASE U # {}
  <2>1. PICK x \in U : \A y \in U : x <= y
    BY <1>3, <1>19, Least
  <2>2. x \in 1..M
    BY <1>3
  <2>3. Min(U) = x /\ Min(V) = x
    <3>1. U \in SUBSET Int /\ V \in SUBSET Int /\ x \in V /\ \A y \in V : x <= y
      BY <1>1, <1>2, <1>3, <2>1, <2>2
    <3> QED
      BY <2>1, <3>1, MinIs
  <2>4. Prefix(m) = SubSeq(m, 1, x - 1)
    BY <1>19, <2>3, WhereUsers DEF Prefix, U
  <2>5. x - 1 \in 0..Len(m) /\ 1 \in Nat \ {0}
    BY <1>1, <2>2 DEF M
  <2>6. SubSeq(s, 1, x - 1) = SubSeq(m, 1, x - 1)
    BY <2>5, SubSeqOfFirst DEF s
  <2>7. Prefix(s) = Prefix(m)
    BY <1>17, <2>3, <2>4, <2>6
  <2> QED
    BY <1>14, <1>15, <1>16, <1>19, <2>7 DEF s, U, V
<1> QED
  BY <1>18, <1>19

TurnsOf(T) == {t \in Seq(T) : IsTurn(t)}

LEMMA InOrderEmpty == InOrder({}) = <<>>
<1>1. Cardinality({}) = 0 /\ 1..0 = {}
  BY FS_EmptySet
<1> QED
  BY <1>1 DEF InOrder

LEMMA NoUsers ==
  ASSUME NEW T, NEW m \in Seq(T), Users(m) = {}
  PROVE  UserTurns(m) = <<>> /\ Prefix(m) = m
<1>1. TurnStarts(m) = <<>>
  BY WhereUsers, InOrderEmpty DEF TurnStarts
<1>2. DOMAIN <<>> = {}
  OBVIOUS
<1>3. Prefix(m) = SubSeq(m, 1, Len(m))
  BY WhereUsers DEF Prefix
<1> QED
  BY <1>1, <1>2, <1>3, SubSeqFull DEF UserTurns

(* Joining turns and taking them apart *)
LEMMA JoinProperties ==
  ASSUME NEW T, NEW sys \in Seq(T), Users(sys) = {}
  PROVE  \A ts \in Seq(TurnsOf(T)) :
           /\ FlattenSeq(ts) \in Seq(T) /\ JoinTurns(sys, ts) \in Seq(T)
           /\ UserTurns(JoinTurns(sys, ts)) = ts
           /\ Prefix(JoinTurns(sys, ts)) = sys
           /\ Users(JoinTurns(sys, ts)) = {} <=> ts = <<>>
<1> DEFINE J(ts) == JoinTurns(sys, ts)
           P == {ts \in Seq(TurnsOf(T)) : /\ FlattenSeq(ts) \in Seq(T) /\ J(ts) \in Seq(T)
                                          /\ UserTurns(J(ts)) = ts
                                          /\ Prefix(J(ts)) = sys
                                          /\ Users(J(ts)) = {} <=> ts = <<>>}
<1>1. <<>> \in P
  <2>1. J(<<>>) = sys
    BY FlattenEmpty, ConcatEmptySeq DEF JoinTurns
  <2>2. <<>> \in Seq(TurnsOf(T)) /\ <<>> \in Seq(T)
    BY EmptySeq
  <2> QED
    BY <2>1, <2>2, FlattenEmpty, NoUsers
<1>2. ASSUME NEW us \in Seq(TurnsOf(T)), NEW t \in TurnsOf(T), us \in P
      PROVE  Append(us, t) \in P
  <2>1. TurnsOf(T) \subseteq Seq(T) /\ t \in Seq(T) /\ IsTurn(t)
    BY DEF TurnsOf
  <2>2. us \in Seq(Seq(T))
    BY <2>1, SeqMonotonic
  <2>3. /\ FlattenSeq(us) \in Seq(T) /\ J(us) \in Seq(T) /\ UserTurns(J(us)) = us
        /\ Prefix(J(us)) = sys /\ (Users(J(us)) = {} <=> us = <<>>)
    BY <1>2
  <2>4. FlattenSeq(Append(us, t)) = FlattenSeq(us) \o t /\ FlattenSeq(us) \o t \in Seq(T)
    BY <2>1, <2>2, <2>3, FlattenProperties, ConcatProperties
  <2>5. J(Append(us, t)) = J(us) \o t /\ J(us) \o t \in Seq(T)
    <3>1. sys \o (FlattenSeq(us) \o t) = (sys \o FlattenSeq(us)) \o t
      <4> DEFINE F == FlattenSeq(us)
      <4>1. F \in Seq(T) /\ t \in Seq(T)
        BY <2>1, <2>3
      <4> HIDE DEF F, P, J
      <4>2. sys \o (F \o t) = (sys \o F) \o t
        BY <4>1, ConcatAssociative
      <4> QED
        BY <4>2 DEF F
    <3> QED
      BY <2>1, <2>3, <2>4, <3>1, ConcatProperties DEF JoinTurns
  <2>6. /\ UserTurns(J(us) \o t) = Append(us, t) /\ Users(J(us) \o t) # {}
        /\ Users(J(us)) = {} => Prefix(J(us) \o t) = J(us)
        /\ Users(J(us)) # {} => Prefix(J(us) \o t) = sys
    BY <2>1, <2>3, TurnAppended
  <2>7. us = <<>> => J(us) = sys
    BY FlattenEmpty, ConcatEmptySeq DEF JoinTurns
  <2>8. Append(us, t) \in Seq(TurnsOf(T)) /\ Append(us, t) # <<>>
    BY AppendProperties
  <2> HIDE DEF J
  <2> QED
    BY <2>3, <2>4, <2>5, <2>6, <2>7, <2>8
<1> HIDE DEF P
<1>3. \A ts \in Seq(TurnsOf(T)) : ts \in P
  BY <1>1, <1>2, SequenceInduction
<1> QED
  BY <1>3 DEF P

----------------------------------------------------------------------------
(* Messages *)

TurnRoles == {"user", "assistant", "tool"}

TurnBodies == Seq(Call) \cup (Call \X Contents)

TurnMessages == [role : TurnRoles, run : Nat, body : TurnBodies]

(* A summary that tells of the runs R *)
Bullets(R) ==
  (TurnRoles \X R \X TurnBodies) \cup ({"truncated"} \X Nat) \cup {Compressed}

SystemMessages == [role : SystemRoles, run : {NoRun}, body : Seq(Bullets(Nat))]

Messages == TurnMessages \cup SystemMessages

LEMMA BodyDomains == \A m \in TurnMessages : DOMAIN m.body \subseteq Nat
<1> SUFFICES ASSUME NEW b \in TurnBodies PROVE DOMAIN b \subseteq Nat
  BY DEF TurnMessages
<1>1. CASE b \in Seq(Call)
  BY <1>1, LenProperties
<1>2. CASE b \in Call \X Contents
  <2>1. DOMAIN b = 1..2
    BY <1>2
  <2> QED
    BY <2>1
<1> QED
  BY <1>1, <1>2 DEF TurnBodies

(* Answered calls stay answered when two lists are joined. *)
LEMMA AnsweredConcat ==
  ASSUME NEW a \in Seq(Messages), NEW b \in Seq(TurnMessages), CallsAnswered(a), CallsAnswered(b),
         \A i \in 1..Len(a) : a[i].role = "assistant" => DOMAIN a[i].body \subseteq Nat
  PROVE  CallsAnswered(a \o b)
<1> DEFINE n == Len(a)
           s == a \o b
<1>1. /\ n \in Nat /\ Len(b) \in Nat /\ Len(s) = n + Len(b)
      /\ DOMAIN a = 1..n /\ DOMAIN b = 1..Len(b) /\ DOMAIN s = 1..(n + Len(b))
      /\ \A i \in 1..n : s[i] = a[i]
      /\ \A i \in 1..Len(b) : s[n + i] = b[i]
  <2>1. b \in Seq(Messages)
    BY SeqMonotonic DEF Messages
  <2>2. s \in Seq(Messages) /\ Len(s) = n + Len(b)
    BY <2>1, ConcatProperties
  <2> QED
    BY <2>1, <2>2, LenProperties, ConcatProperties
<1> HIDE DEF s, n
<1>2. \A i \in DOMAIN s : i \in DOMAIN a \/ \E h \in DOMAIN b : i = n + h
  <2> TAKE i \in DOMAIN s
  <2>1. i \in 1..n \/ (i - n \in 1..Len(b) /\ i = n + (i - n))
    BY <1>1
  <2> QED
    BY <1>1, <2>1
<1>3. ASSUME NEW i \in DOMAIN s, s[i].role = "assistant", NEW k \in DOMAIN s[i].body
      PROVE  /\ i + k \in DOMAIN s
             /\ s[i + k].role = "tool"
             /\ s[i + k].run = s[i].run
             /\ s[i + k].body[1] = s[i].body[k]
             /\ Suits(s[i].body[k], s[i + k].body[2])
  <2>1. CASE i \in DOMAIN a
    <3>1. s[i] = a[i]
      BY <1>1, <2>1
    <3>2. /\ i + k \in DOMAIN a
          /\ a[i + k].role = "tool"
          /\ a[i + k].run = a[i].run
          /\ a[i + k].body[1] = a[i].body[k]
          /\ Suits(a[i].body[k], a[i + k].body[2])
      BY <1>3, <2>1, <3>1 DEF CallsAnswered
    <3>3. s[i + k] = a[i + k] /\ i + k \in DOMAIN s
      BY <1>1, <3>2
    <3> QED
      BY <3>1, <3>2, <3>3
  <2>2. ASSUME NEW h \in DOMAIN b, i = n + h
        PROVE  /\ i + k \in DOMAIN s
               /\ s[i + k].role = "tool"
               /\ s[i + k].run = s[i].run
               /\ s[i + k].body[1] = s[i].body[k]
               /\ Suits(s[i].body[k], s[i + k].body[2])
    <3>1. s[i] = b[h] /\ h \in Nat
      BY <1>1, <2>2
    <3>2. k \in Nat
      <4>1. b[h] \in TurnMessages
        BY <1>1, <2>2, ElementOfSeq
      <4> QED
        BY <1>3, <3>1, <4>1, BodyDomains
    <3>3. /\ h + k \in DOMAIN b
          /\ b[h + k].role = "tool"
          /\ b[h + k].run = b[h].run
          /\ b[h + k].body[1] = b[h].body[k]
          /\ Suits(b[h].body[k], b[h + k].body[2])
      BY <1>3, <2>2, <3>1 DEF CallsAnswered
    <3>4. i + k = n + (h + k)
      BY <1>1, <2>2, <3>1, <3>2
    <3>5. s[i + k] = b[h + k] /\ i + k \in DOMAIN s
      BY <1>1, <3>3, <3>4
    <3> QED
      BY <3>1, <3>3, <3>5
  <2> QED
    BY <1>2, <2>1, <2>2
<1>4. ASSUME NEW i \in DOMAIN s, s[i].role = "tool"
      PROVE  \E j \in 1..(i - 1) : s[j].role = "assistant" /\ i - j \in DOMAIN s[j].body
  <2>1. CASE i \in DOMAIN a
    <3>1. s[i] = a[i]
      BY <1>1, <2>1
    <3>2. PICK j \in 1..(i - 1) : a[j].role = "assistant" /\ i - j \in DOMAIN a[j].body
      BY <1>4, <2>1, <3>1 DEF CallsAnswered
    <3>3. s[j] = a[j]
      BY <1>1, <2>1
    <3> QED
      BY <3>2, <3>3
  <2>2. ASSUME NEW h \in DOMAIN b, i = n + h
        PROVE  \E j \in 1..(i - 1) : s[j].role = "assistant" /\ i - j \in DOMAIN s[j].body
    <3>1. s[i] = b[h] /\ h \in 1..Len(b)
      BY <1>1, <2>2
    <3>2. PICK j \in 1..(h - 1) : b[j].role = "assistant" /\ h - j \in DOMAIN b[j].body
      BY <1>4, <2>2, <3>1 DEF CallsAnswered
    <3>3. s[n + j] = b[j] /\ n + j \in 1..(i - 1) /\ i - (n + j) = h - j
      BY <1>1, <2>2, <3>1
    <3> QED
      BY <3>2, <3>3
  <2> QED
    BY <1>2, <2>1, <2>2
<1>5. CallsAnswered(s)
  BY <1>3, <1>4, Zenon DEF CallsAnswered
<1> QED
  BY <1>5 DEF s

(* A turn of one run that was answered *)
WholeTurns ==
  {t \in TurnsOf(TurnMessages) :
     /\ \A i \in 1..Len(t) : t[i].run = t[1].run
     /\ IsFinal(Last(t)) /\ CallsAnswered(t)}

LEMMA NothingAnswered == CallsAnswered(<<>>)
BY DEF CallsAnswered

(* What is said of each turn holds of all of them, one after the other. *)
LEMMA FlattenWhole ==
  \A ts \in Seq(WholeTurns) :
    /\ ts \in Seq(TurnsOf(TurnMessages)) /\ FlattenSeq(ts) \in Seq(TurnMessages)
    /\ CallsAnswered(FlattenSeq(ts))
    /\ \A i \in 1..Len(FlattenSeq(ts)) :
         \E k \in 1..Len(ts) : FlattenSeq(ts)[i].run = ts[k][1].run
<1> DEFINE P == {ts \in Seq(WholeTurns) : CallsAnswered(FlattenSeq(ts))}
<1>1. \A ts \in Seq(WholeTurns) :
        ts \in Seq(TurnsOf(TurnMessages)) /\ ts \in Seq(Seq(TurnMessages))
  <2>1. WholeTurns \subseteq TurnsOf(TurnMessages) /\ WholeTurns \subseteq Seq(TurnMessages)
    BY DEF WholeTurns, TurnsOf
  <2> QED
    BY <2>1, SeqMonotonic
<1>2. <<>> \in P
  BY EmptySeq, FlattenEmpty, NothingAnswered
<1>3. ASSUME NEW us \in Seq(WholeTurns), NEW t \in WholeTurns, us \in P
      PROVE  Append(us, t) \in P
  <2>1. t \in Seq(TurnMessages) /\ CallsAnswered(t)
    BY DEF WholeTurns, TurnsOf
  <2>2. FlattenSeq(us) \in Seq(TurnMessages) /\ FlattenSeq(Append(us, t)) = FlattenSeq(us) \o t
    BY <1>1, <2>1, FlattenProperties
  <2>3. FlattenSeq(us) \in Seq(Messages)
    BY <2>2, SeqMonotonic DEF Messages
  <2>4. \A i \in 1..Len(FlattenSeq(us)) : DOMAIN FlattenSeq(us)[i].body \subseteq Nat
    BY <2>2, BodyDomains, ElementOfSeq
  <2>5. CallsAnswered(FlattenSeq(us) \o t)
    BY <1>3, <2>1, <2>3, <2>4, AnsweredConcat
  <2> QED
    BY <2>2, <2>5, AppendProperties
<1>4. \A ts \in Seq(WholeTurns) : ts \in P
  <2> HIDE DEF P
  <2> QED
    BY <1>2, <1>3, SequenceInduction
<1>5. ASSUME NEW ts \in Seq(WholeTurns), NEW i \in 1..Len(FlattenSeq(ts))
      PROVE  \E k \in 1..Len(ts) : FlattenSeq(ts)[i].run = ts[k][1].run
  <2>4. PICK k \in 1..Len(ts) : \E j \in 1..Len(ts[k]) : FlattenSeq(ts)[i] = ts[k][j]
    BY <1>1, FlattenProperties
  <2>1. PICK j \in 1..Len(ts[k]) : FlattenSeq(ts)[i] = ts[k][j]
    BY <2>4
  <2>2. ts[k] \in WholeTurns
    BY ElementOfSeq
  <2>3. ts[k][j].run = ts[k][1].run
    BY <2>2 DEF WholeTurns
  <2> QED
    BY <2>1, <2>3
<1>6. \A ts \in Seq(WholeTurns) : FlattenSeq(ts) \in Seq(TurnMessages)
  BY <1>1, FlattenProperties
<1> QED
  BY <1>1, <1>4, <1>5, <1>6

----------------------------------------------------------------------------
(* System messages and the blocks among them *)

LEMMA InsertBetween ==
  ASSUME NEW T, NEW a \in Seq(T), NEW b \in Seq(T), NEW m
  PROVE  InsertAfter(a \o b, Len(a), m) = a \o <<m>> \o b
<1> DEFINE n == Len(a)
           s == a \o b
<1>1. n \in Nat /\ Len(b) \in Nat /\ s \in Seq(T) /\ Len(s) = n + Len(b)
  BY ConcatProperties, LenProperties
<1>2. SubSeq(s, 1, n) = a
  BY <1>1, SubSeqOfFirst, SubSeqFull
<1>3. SubSeq(s, n + 1, Len(s)) = b
  <2>1. CASE Len(b) = 0
    <3>1. b = <<>>
      BY <2>1, EmptySeq
    <3> QED
      BY <1>1, <2>1, <3>1, SubSeqEmpty
  <2>2. CASE Len(b) # 0
    <3>1. n + 1 \in n + 1..n + Len(b) /\ Len(s) \in n + 1..n + Len(b)
          /\ n + 1 - n = 1 /\ Len(s) - n = Len(b)
      BY <1>1, <2>2
    <3>2. SubSeq(s, n + 1, Len(s)) = SubSeq(b, 1, Len(b))
      BY <3>1, SubSeqOfConcat2
    <3> QED
      BY <3>2, SubSeqFull
  <2> QED
    BY <2>1, <2>2
<1> QED
  BY <1>2, <1>3 DEF InsertAfter

LEMMA StripNone ==
  ASSUME NEW T, NEW s \in Seq(T), NEW role, \A i \in 1..Len(s) : s[i].role # role
  PROVE  Strip(s, role) = s
<1>1. Where(s, LAMBDA m : m.role # role) = 1..Len(s)
  BY LenProperties DEF Where
<1> QED
  BY <1>1, PickAll DEF Strip

LEMMA StripOne ==
  ASSUME NEW T, NEW a \in Seq(T), NEW b \in Seq(T), NEW x \in T, NEW role,
         \A i \in 1..Len(a) : a[i].role # role,
         \A i \in 1..Len(b) : b[i].role # role,
         x.role = role
  PROVE  Strip(a \o <<x>> \o b, role) = a \o b
<1> DEFINE n == Len(a)
           k == Len(b)
           s == a \o <<x>> \o b
           S == {i \in 1..(n + 1 + k) : s[i].role # role}
           f == [i \in 1..(n + k) |-> IF i <= n THEN i ELSE i + 1]
           u == a \o b
<1>1. /\ n \in Nat /\ k \in Nat
      /\ u \in Seq(T) /\ Len(u) = n + k
      /\ \A i \in 1..(n + k) : u[i] = IF i <= n THEN a[i] ELSE b[i - n]
  BY ConcatProperties, LenProperties
<1>2. /\ a \o <<x>> \in Seq(T) /\ Len(a \o <<x>>) = n + 1
      /\ \A i \in 1..(n + 1) : (a \o <<x>>)[i] = IF i <= n THEN a[i] ELSE x
  <2>1. <<x>> \in Seq(T) /\ Len(<<x>>) = 1 /\ <<x>>[1] = x
    OBVIOUS
  <2>2. /\ a \o <<x>> \in Seq(T) /\ Len(a \o <<x>>) = n + 1
        /\ \A i \in 1..(n + 1) : (a \o <<x>>)[i] = IF i <= n THEN a[i] ELSE <<x>>[i - n]
    BY <2>1, ConcatProperties
  <2>3. \A i \in 1..(n + 1) : ~(i <= n) => i - n = 1
    BY <1>1
  <2> QED
    BY <2>1, <2>2, <2>3
<1>3. /\ s \in Seq(T) /\ Len(s) = n + 1 + k
      /\ \A i \in 1..(n + 1 + k) :
           s[i] = IF i <= n + 1 THEN (a \o <<x>>)[i] ELSE b[i - (n + 1)]
  BY <1>2, ConcatProperties
<1> HIDE DEF n, k, s, S, f, u
<1>4. /\ \A i \in 1..n : s[i] = a[i] /\ i \in 1..(n + k) /\ u[i] = a[i]
      /\ s[n + 1] = x
      /\ \A i \in 1..k : s[n + 1 + i] = b[i] /\ u[n + i] = b[i] /\ n + i \in 1..(n + k)
  <2>1. \A i \in 1..n : s[i] = a[i] /\ i \in 1..(n + k) /\ u[i] = a[i]
    <3> TAKE i \in 1..n
    <3>1. i \in 1..(n + 1) /\ i \in 1..(n + 1 + k) /\ i \in 1..(n + k) /\ i <= n /\ i <= n + 1
      BY <1>1
    <3> QED
      BY <1>1, <1>2, <1>3, <3>1
  <2>2. s[n + 1] = x
    <3>1. n + 1 \in 1..(n + 1) /\ n + 1 \in 1..(n + 1 + k) /\ ~(n + 1 <= n) /\ n + 1 <= n + 1
      BY <1>1
    <3> QED
      BY <1>2, <1>3, <3>1
  <2>3. \A i \in 1..k : s[n + 1 + i] = b[i] /\ u[n + i] = b[i] /\ n + i \in 1..(n + k)
    <3> TAKE i \in 1..k
    <3>1. n + 1 + i \in 1..(n + 1 + k) /\ ~(n + 1 + i <= n + 1) /\ n + 1 + i - (n + 1) = i
          /\ n + i \in 1..(n + k) /\ ~(n + i <= n) /\ n + i - n = i
      BY <1>1
    <3> QED
      BY <1>1, <1>3, <3>1
  <2> QED
    BY <2>1, <2>2, <2>3
<1>5. S \in SUBSET Nat
  BY <1>1 DEF S
<1>6. \A i \in 1..(n + k) : f[i] \in S /\ s[f[i]] = u[i]
  <2> TAKE i \in 1..(n + k)
  <2>1. CASE i \in 1..n
    <3>1. f[i] = i /\ i \in 1..(n + 1 + k)
      BY <1>1, <2>1 DEF f
    <3>2. a[i].role # role
      BY <2>1 DEF n
    <3> QED
      BY <1>4, <2>1, <3>1, <3>2 DEF S
  <2>2. CASE i \notin 1..n
    <3>1. f[i] = i + 1 /\ i - n \in 1..k /\ i + 1 = n + 1 + (i - n) /\ i = n + (i - n)
          /\ i + 1 \in 1..(n + 1 + k)
      BY <1>1, <2>2 DEF f
    <3>2. b[i - n].role # role
      BY <3>1 DEF k
    <3>3. s[n + 1 + (i - n)] = b[i - n] /\ u[n + (i - n)] = b[i - n]
      BY <1>4, <3>1
    <3>4. s[i + 1] = b[i - n] /\ u[i] = b[i - n]
      BY <3>1, <3>3
    <3> QED
      BY <3>1, <3>2, <3>4 DEF S
  <2> QED
    BY <2>1, <2>2
<1>7. f \in [1..(n + k) -> S]
  BY <1>6 DEF f
<1>8. \A i, j \in 1..(n + k) : i < j => f[i] < f[j]
  BY <1>1 DEF f
<1>9. \A j \in S : \E i \in 1..(n + k) : f[i] = j
  <2> TAKE j \in S
  <2>1. j \in 1..(n + 1 + k) /\ j # n + 1
    BY <1>4 DEF S
  <2>2. CASE j <= n
    <3>1. j \in 1..(n + k) /\ f[j] = j
      BY <1>1, <2>1, <2>2 DEF f
    <3> QED
      BY <3>1
  <2>3. CASE j > n
    <3>1. j - 1 \in 1..(n + k) /\ f[j - 1] = j
      BY <1>1, <2>1, <2>3 DEF f
    <3> QED
      BY <3>1
  <2> QED
    BY <1>1, <2>1, <2>2, <2>3
<1>10. Pick(s, S) = [i \in 1..(n + k) |-> s[f[i]]]
  <2> DEFINE N == n + k
  <2>1. N \in Nat
    BY <1>1
  <2>2. f \in [1..N -> S]
    BY <1>7
  <2>4. /\ \A l, m \in 1..N : l < m => f[l] < f[m]
        /\ \A i \in S : \E l \in 1..N : f[l] = i
    BY <1>8, <1>9
  <2> HIDE DEF N
  <2>3. Pick(s, S) = [i \in 1..N |-> s[f[i]]]
    <3>1. InOrder(S) = f
      BY <1>5, <2>1, <2>2, <2>4, InOrderUnique
    <3>2. DOMAIN f = 1..N
      BY <2>2
    <3> QED
      BY <3>1, <3>2 DEF Pick
  <2> QED
    BY <2>3 DEF N
<1>11. Pick(s, S) = [i \in 1..(n + k) |-> u[i]]
  BY <1>6, <1>10
<1>12. u = [i \in 1..(n + k) |-> u[i]]
  <2>1. u \in [1..(n + k) -> T]
    BY <1>1, LenProperties
  <2> QED
    BY <2>1
<1>13. Where(s, LAMBDA m : m.role # role) = S
  <2>1. DOMAIN s = 1..(n + 1 + k)
    BY <1>3, LenProperties
  <2> QED
    BY <2>1 DEF Where, S
<1>14. Strip(s, role) = u
  BY <1>11, <1>12, <1>13 DEF Strip
<1> QED
  BY <1>14 DEF s, u

(* The leading system messages *)
LEMMA LeadingIs ==
  ASSUME NEW T, NEW sys \in Seq(T), NEW rest \in Seq(T),
         \A i \in 1..Len(sys) : sys[i].role \in SystemRoles,
         rest # <<>> => rest[1].role \notin SystemRoles
  PROVE  Leading(sys \o rest) = Len(sys)
<1> DEFINE n == Len(sys)
           k == Len(rest)
           s == sys \o rest
           S == {i \in 1..(n + k) : s[i].role \notin SystemRoles}
<1>1. /\ n \in Nat /\ k \in Nat /\ s \in Seq(T) /\ Len(s) = n + k /\ DOMAIN s = 1..(n + k)
      /\ \A i \in 1..(n + k) : s[i] = IF i <= n THEN sys[i] ELSE rest[i - n]
  BY ConcatProperties, LenProperties
<1>2. Where(s, LAMBDA m : m.role \notin SystemRoles) = S
  BY <1>1 DEF Where
<1>3. \A i \in S : i \in n + 1..n + k
  <2> TAKE i \in S
  <2> HIDE DEF s
  <2>1. i \in 1..(n + k) /\ (i <= n => s[i] = sys[i] /\ i \in 1..n)
    BY <1>1
  <2>2. i <= n => sys[i].role \in SystemRoles
    BY <2>1
  <2>3. s[i].role \notin SystemRoles
    OBVIOUS
  <2>4. ~(i <= n)
    BY <2>1, <2>2, <2>3
  <2> HIDE DEF n, k, S
  <2> QED
    BY <1>1, <2>1, <2>4
<1>4. CASE k = 0
  <2> HIDE DEF n, k, s, S
  <2>1. S = {}
    BY <1>1, <1>3, <1>4
  <2>2. Leading(s) = Len(s)
    BY <1>2, <2>1 DEF Leading
  <2> QED
    BY <1>1, <1>4, <2>2 DEF s, n
<1>5. CASE k # 0
  <2>1. rest # <<>> /\ 1 \in 1..k
    BY <1>1, <1>5, EmptySeq
  <2>2. n + 1 \in 1..(n + k) /\ ~(n + 1 <= n) /\ n + 1 - n = 1
    BY <1>1, <2>1
  <2>3. s[n + 1] = rest[1]
    BY <1>1, <2>2
  <2>4. n + 1 \in S
    BY <2>1, <2>2, <2>3
  <2>5. Min(S) = n + 1
    <3> HIDE DEF S
    <3>1. S \in SUBSET Int /\ \A y \in S : n + 1 <= y
      BY <1>1, <1>3
    <3> QED
      BY <2>4, <3>1, MinIs
  <2>6. Leading(s) = Min(S) - 1
    BY <1>2, <2>4 DEF Leading
  <2> HIDE DEF n, k, s, S
  <2>7. Leading(s) = n
    BY <1>1, <2>5, <2>6
  <2> QED
    BY <2>7 DEF s, n
<1> QED
  BY <1>4, <1>5

SummaryBlock(b) == Message("summary", NoRun, b)

ProfileBlock == Message("profile", NoRun, <<>>)

(* What a committed history begins with: its summary tells of the runs R.   *)
Heads(R) == {<<SystemPrompt>>} \cup {<<SystemPrompt, SummaryBlock(b)>> : b \in Seq(Bullets(R))}

(* And a working copy, which has the profile too *)
WorkHeads(p) == {p, p \o <<ProfileBlock>>}

LEMMA SystemTypes ==
  ASSUME NEW R \in SUBSET Nat
  PROVE  /\ SystemPrompt \in SystemMessages /\ ProfileBlock \in SystemMessages
         /\ \A b \in Seq(Bullets(R)) : SummaryBlock(b) \in SystemMessages
<1>1. <<>> \in Seq(Bullets(Nat))
  BY EmptySeq
<1>2. Bullets(R) \subseteq Bullets(Nat)
  BY DEF Bullets
<1>3. \A b \in Seq(Bullets(R)) : b \in Seq(Bullets(Nat))
  BY <1>2, SeqMonotonic
<1> QED
  BY <1>1, <1>3 DEF SystemMessages, SystemPrompt, ProfileBlock, SummaryBlock, Message, SystemRoles

LEMMA HeadProperties ==
  ASSUME NEW R \in SUBSET Nat, NEW p \in Heads(R)
  PROVE  /\ p \in Seq(SystemMessages) /\ Len(p) \in {1, 2} /\ p[1] = SystemPrompt
         /\ Len(p) = 1 => p = <<SystemPrompt>>
         /\ Len(p) = 2 => \E b \in Seq(Bullets(R)) : p = <<SystemPrompt, SummaryBlock(b)>>
<1>1. CASE p = <<SystemPrompt>>
  BY <1>1, SystemTypes
<1>2. ASSUME NEW b \in Seq(Bullets(R)), p = <<SystemPrompt, SummaryBlock(b)>>
      PROVE  /\ p \in Seq(SystemMessages) /\ Len(p) = 2 /\ p[1] = SystemPrompt
  BY <1>2, SystemTypes
<1> QED
  BY <1>1, <1>2 DEF Heads

(* Two system messages of a working copy never have the same role.          *)
LEMMA WorkHeadProperties ==
  ASSUME NEW R \in SUBSET Nat, NEW p \in Heads(R), NEW q \in WorkHeads(p)
  PROVE  /\ q \in Seq(SystemMessages) /\ Len(q) \in 1..3 /\ q[1] = SystemPrompt
         /\ \A i, j \in 1..Len(q) : i # j => q[i].role # q[j].role
         /\ q # p => Len(q) = Len(p) + 1 /\ q[Len(q)] = ProfileBlock
         /\ \A i \in 1..Len(p) : q[i] = p[i]
         /\ \A i \in 1..Len(p) : p[i].role # "profile"
<1>1. /\ SystemPrompt.role = "system" /\ ProfileBlock.role = "profile"
      /\ \A b : SummaryBlock(b).role = "summary"
  BY DEF SystemPrompt, ProfileBlock, SummaryBlock, Message
<1>2. SystemPrompt \in SystemMessages /\ ProfileBlock \in SystemMessages
  BY SystemTypes
<1>3. CASE p = <<SystemPrompt>>
  <2>1. <<SystemPrompt>> \o <<ProfileBlock>> = <<SystemPrompt, ProfileBlock>>
    BY ShortConcat
  <2>2. q = <<SystemPrompt>> \/ q = <<SystemPrompt, ProfileBlock>>
    BY <1>3, <2>1 DEF WorkHeads
  <2>3. CASE q = <<SystemPrompt>>
    <3>1. Len(q) = 1 /\ q \in Seq(SystemMessages) /\ q = p
      BY <1>2, <1>3, <2>3
    <3>2. \A i \in 1..1 : i = 1
      OBVIOUS
    <3> QED
      BY <1>1, <1>3, <3>1, <3>2
  <2>4. CASE q = <<SystemPrompt, ProfileBlock>>
    <3>1. Len(q) = 2 /\ q[1] = SystemPrompt /\ q[2] = ProfileBlock /\ q \in Seq(SystemMessages)
      BY <1>2, <2>4
    <3>2. Len(p) = 1 /\ p[1] = SystemPrompt
      BY <1>3
    <3>3. (\A i \in 1..2 : i = 1 \/ i = 2) /\ \A i \in 1..1 : i = 1
      OBVIOUS
    <3> QED
      BY <1>1, <3>1, <3>2, <3>3
  <2> QED
    BY <2>2, <2>3, <2>4
<1>4. ASSUME NEW b \in Seq(Bullets(R)), p = <<SystemPrompt, SummaryBlock(b)>>
      PROVE  /\ q \in Seq(SystemMessages) /\ Len(q) \in 1..3 /\ q[1] = SystemPrompt
             /\ \A i, j \in 1..Len(q) : i # j => q[i].role # q[j].role
             /\ q # p => Len(q) = Len(p) + 1 /\ q[Len(q)] = ProfileBlock
             /\ \A i \in 1..Len(p) : q[i] = p[i]
             /\ \A i \in 1..Len(p) : p[i].role # "profile"
  <2> DEFINE B == SummaryBlock(b)
  <2>1. B \in SystemMessages /\ B.role = "summary"
    BY <1>1, SystemTypes
  <2>2. p = <<SystemPrompt, B>>
    BY <1>4
  <2> HIDE DEF B
  <2>3. <<SystemPrompt, B>> \o <<ProfileBlock>> = <<SystemPrompt, B, ProfileBlock>>
    BY ShortConcat
  <2>4. q = <<SystemPrompt, B>> \/ q = <<SystemPrompt, B, ProfileBlock>>
    BY <2>2, <2>3 DEF WorkHeads
  <2>5. CASE q = <<SystemPrompt, B>>
    <3>1. Len(q) = 2 /\ q[1] = SystemPrompt /\ q[2] = B /\ q \in Seq(SystemMessages) /\ q = p
      BY <1>2, <2>1, <2>2, <2>5
    <3>2. \A i \in 1..2 : i = 1 \/ i = 2
      OBVIOUS
    <3>3. q[1].role = "system" /\ q[2].role = "summary"
      BY <1>1, <2>1, <3>1
    <3>4. \A i, j \in 1..2 : i # j => q[i].role # q[j].role
      BY <3>2, <3>3
    <3>5. \A i \in 1..2 : q[i].role # "profile"
      BY <3>2, <3>3
    <3>6. /\ \A i, j \in 1..Len(q) : i # j => q[i].role # q[j].role
          /\ \A i \in 1..Len(p) : p[i].role # "profile"
      BY <3>1, <3>4, <3>5
    <3> QED
      BY <3>1, <3>6
  <2>6. CASE q = <<SystemPrompt, B, ProfileBlock>>
    <3>1. Len(q) = 3 /\ q[1] = SystemPrompt /\ q[2] = B /\ q[3] = ProfileBlock
          /\ q \in Seq(SystemMessages)
      BY <1>2, <2>1, <2>6
    <3>2. Len(p) = 2 /\ p[1] = SystemPrompt /\ p[2] = B
      BY <2>2
    <3>3. (\A i \in 1..3 : i = 1 \/ i = 2 \/ i = 3) /\ \A i \in 1..2 : i = 1 \/ i = 2
      OBVIOUS
    <3>4. q[1].role = "system" /\ q[2].role = "summary" /\ q[3].role = "profile"
      BY <1>1, <2>1, <3>1
    <3>5. \A i, j \in 1..3 : i # j => q[i].role # q[j].role
      BY <3>3, <3>4
    <3>6. p[1].role # "profile" /\ p[2].role # "profile" /\ p[1] = q[1] /\ p[2] = q[2]
      BY <3>1, <3>2, <3>4
    <3>7. \A i \in 1..2 : q[i] = p[i] /\ p[i].role # "profile"
      BY <3>3, <3>6
    <3> QED
      BY <3>1, <3>2, <3>5, <3>7
  <2> QED
    BY <2>4, <2>5, <2>6
<1> QED
  BY <1>3, <1>4 DEF Heads

LEMMA SystemIsTyped ==
  /\ SystemMessages \subseteq Messages /\ TurnMessages \subseteq Messages
  /\ \A m \in SystemMessages : m.role \in SystemRoles /\ m.role \notin TurnRoles
  /\ \A m \in TurnMessages : m.role \in TurnRoles /\ m.role \notin SystemRoles
BY DEF Messages, SystemMessages, TurnMessages, SystemRoles, TurnRoles

(* A sequence of system messages has no user and no call. *)
LEMMA SystemOnly ==
  ASSUME NEW q \in Seq(SystemMessages)
  PROVE  Users(q) = {} /\ CallsAnswered(q) /\ q \in Seq(Messages)
<1>1. \A i \in 1..Len(q) : q[i].role \in SystemRoles
  BY ElementOfSeq, SystemIsTyped
<1>2. DOMAIN q = 1..Len(q)
  BY LenProperties
<1> QED
  BY <1>1, <1>2, SeqMonotonic, SystemIsTyped DEF Users, IsUser, CallsAnswered, SystemRoles

(* The profile block is put after the other system messages, or taken away. *)
LEMMA ProfileUpserted ==
  ASSUME NEW R \in SUBSET Nat, NEW p \in Heads(R), NEW q \in WorkHeads(p),
         NEW rest \in Seq(TurnMessages), NEW known \in BOOLEAN
  PROVE  /\ Strip(q \o rest, "profile") = p \o rest
         /\ UpsertProfile(q \o rest, known) =
              (IF known THEN p \o <<ProfileBlock>> ELSE p) \o rest
<1>1. /\ p \in Seq(Messages) /\ rest \in Seq(Messages) /\ ProfileBlock \in Messages
      /\ p \in Seq(SystemMessages)
  BY HeadProperties, SeqMonotonic, SystemIsTyped, SystemTypes
<1>2. \A i \in 1..Len(p) : p[i].role # "profile" /\ p[i].role \in SystemRoles
  BY <1>1, WorkHeadProperties, ElementOfSeq, SystemIsTyped
<1>3. \A i \in 1..Len(rest) : rest[i].role # "profile" /\ rest[i].role \notin SystemRoles
  BY ElementOfSeq, SystemIsTyped DEF TurnRoles
<1>4. Strip(q \o rest, "profile") = p \o rest
  <2>1. CASE q = p
    <3> DEFINE s == p \o rest
    <3>1. /\ s \in Seq(Messages) /\ Len(s) = Len(p) + Len(rest)
          /\ Len(p) \in Nat /\ Len(rest) \in Nat
          /\ \A i \in 1..Len(p) + Len(rest) : s[i] = IF i <= Len(p) THEN p[i] ELSE rest[i - Len(p)]
      BY <1>1, ConcatProperties, LenProperties
    <3> HIDE DEF s
    <3>2. \A i \in 1..Len(s) : s[i].role # "profile"
      <4> TAKE i \in 1..Len(s)
      <4>1. CASE i <= Len(p)
        BY <1>2, <3>1, <4>1
      <4>2. CASE ~(i <= Len(p))
        <5>1. i - Len(p) \in 1..Len(rest) /\ s[i] = rest[i - Len(p)]
          BY <3>1, <4>2
        <5> QED
          BY <1>3, <5>1
      <4> QED
        BY <4>1, <4>2
    <3>3. Strip(s, "profile") = s
      BY <3>1, <3>2, StripNone
    <3> QED
      BY <2>1, <3>3 DEF s
  <2>2. CASE q = p \o <<ProfileBlock>>
    <3>1. ProfileBlock.role = "profile"
      BY DEF ProfileBlock, Message
    <3>2. Strip(p \o <<ProfileBlock>> \o rest, "profile") = p \o rest
      BY <1>1, <1>2, <1>3, <3>1, StripOne
    <3> QED
      BY <2>2, <3>2
  <2> QED
    BY <2>1, <2>2 DEF WorkHeads
<1>5. Leading(p \o rest) = Len(p)
  <2>1. rest # <<>> => 1 \in 1..Len(rest)
    BY EmptySeq
  <2>2. rest # <<>> => rest[1].role \notin SystemRoles
    BY <1>3, <2>1
  <2> QED
    BY <1>1, <1>2, <2>2, LeadingIs
<1>6. InsertAfter(p \o rest, Len(p), ProfileBlock) = p \o <<ProfileBlock>> \o rest
  BY <1>1, InsertBetween
<1> QED
  BY <1>4, <1>5, <1>6 DEF UpsertProfile, ProfileBlock

(* The summary comes right after the system prompt, in the place of any.    *)
LEMMA SummaryUpserted ==
  ASSUME NEW R \in SUBSET Nat, NEW p \in Heads(R), NEW rest \in Seq(TurnMessages), NEW b
  PROVE  /\ UpsertSummary(p \o rest, b) = <<SystemPrompt, SummaryBlock(b)>> \o rest
         /\ SummaryBody(p \o rest) \in Seq(Bullets(R))
         /\ Len(p) = 1 => SummaryBody(p \o rest) = <<>>
         /\ \A c : p = <<SystemPrompt, SummaryBlock(c)>> => SummaryBody(p \o rest) = c
<1> DEFINE h == <<SystemPrompt>>
<1>1. /\ h \in Seq(Messages) /\ rest \in Seq(Messages) /\ Len(h) = 1 /\ SystemPrompt \in Messages
      /\ h[1] = SystemPrompt
  BY SeqMonotonic, SystemIsTyped, SystemTypes
<1>2. /\ SystemPrompt.role = "system" /\ \A c : SummaryBlock(c).role = "summary"
      /\ \A c : SummaryBlock(c).body = c
  BY DEF SystemPrompt, SummaryBlock, Message
<1>3. \A i \in 1..Len(rest) : rest[i].role # "summary"
  BY ElementOfSeq, SystemIsTyped DEF SystemRoles
<1>4. /\ h \o rest \in Seq(Messages) /\ Len(h \o rest) = 1 + Len(rest) /\ Len(rest) \in Nat
      /\ (h \o rest)[1] = SystemPrompt
      /\ \A i \in 2..Len(rest) + 1 : (h \o rest)[i] = rest[i - 1]
  BY <1>1, ConcatProperties, LenProperties
<1> HIDE DEF h
<1>5. \A i \in 1..Len(h \o rest) : (h \o rest)[i].role # "summary"
  <2> DEFINE s == h \o rest
  <2> SUFFICES ASSUME NEW i \in 1..Len(s) PROVE s[i].role # "summary"
    OBVIOUS
  <2>1. CASE i = 1
    BY <1>2, <1>4, <2>1
  <2>2. CASE i # 1
    <3> HIDE DEF s
    <3>1. i \in 2..Len(rest) + 1 /\ i - 1 \in 1..Len(rest)
      BY <1>4, <2>2 DEF s
    <3> QED
      BY <1>3, <1>4, <3>1 DEF s
  <2> QED
    BY <2>1, <2>2
<1>6. ASSUME NEW s, Strip(s, "summary") = h \o rest
      PROVE  UpsertSummary(s, b) = <<SystemPrompt, SummaryBlock(b)>> \o rest
  <2>1. h \o rest # <<>> /\ (h \o rest)[1].role \in SystemRoles
    BY <1>2, <1>4, EmptySeq DEF SystemRoles
  <2>2. UpsertSummary(s, b) = InsertAfter(h \o rest, 1, SummaryBlock(b))
    BY <1>6, <2>1 DEF UpsertSummary, SummaryBlock
  <2>3. InsertAfter(h \o rest, Len(h), SummaryBlock(b)) = h \o <<SummaryBlock(b)>> \o rest
    BY <1>1, InsertBetween
  <2>4. h \o <<SummaryBlock(b)>> = <<SystemPrompt, SummaryBlock(b)>>
    BY ShortConcat DEF h
  <2> QED
    BY <1>1, <2>2, <2>3, <2>4
<1>7. CASE p = h
  <2>1. Strip(h \o rest, "summary") = h \o rest
    BY <1>4, <1>5, StripNone
  <2>2. SummaryBody(h \o rest) = <<>>
    <3>1. {i \in 1..Len(h \o rest) : IsSummary((h \o rest)[i])} = {}
      BY <1>5 DEF IsSummary
    <3> QED
      BY <3>1 DEF SummaryBody, SelectInSeq
  <2>3. \A c : p # <<SystemPrompt, SummaryBlock(c)>>
    BY <1>7 DEF h
  <2>4. <<>> \in Seq(Bullets(R))
    BY EmptySeq
  <2> QED
    BY <1>6, <1>7, <2>1, <2>2, <2>3, <2>4
<1>8. ASSUME NEW c \in Seq(Bullets(R)), p = <<SystemPrompt, SummaryBlock(c)>>
      PROVE  /\ UpsertSummary(p \o rest, b) = <<SystemPrompt, SummaryBlock(b)>> \o rest
             /\ SummaryBody(p \o rest) = c /\ Len(p) # 1
  <2>1. p = h \o <<SummaryBlock(c)>> /\ Len(p) = 2
    BY <1>8, ShortConcat DEF h
  <2>2. SummaryBlock(c) \in Messages
    BY SystemTypes, SystemIsTyped
  <2>3. Strip(h \o <<SummaryBlock(c)>> \o rest, "summary") = h \o rest
    <3> DEFINE x == SummaryBlock(c)
    <3>1. \A i \in 1..Len(h) : h[i].role # "summary"
      BY <1>1, <1>2
    <3>2. x \in Messages /\ x.role = "summary"
      BY <1>2, <2>2
    <3> HIDE DEF x
    <3>3. Strip(h \o <<x>> \o rest, "summary") = h \o rest
      BY <1>1, <1>3, <3>1, <3>2, StripOne
    <3> QED
      BY <3>3 DEF x
  <2> DEFINE s == p \o rest
  <2>4. p \in Seq(Messages) /\ p[1] = SystemPrompt /\ p[2] = SummaryBlock(c)
    BY <1>1, <1>8, <2>2
  <2>5. /\ Len(s) = 2 + Len(rest) /\ s[1] = SystemPrompt /\ s[2] = SummaryBlock(c)
    BY <1>1, <1>4, <2>1, <2>4, ConcatProperties
  <2> HIDE DEF s
  <2> DEFINE I == {i \in 1..Len(s) : IsSummary(s[i])}
  <2>6. 2 \in I /\ 1 \notin I
    BY <1>2, <1>4, <2>5 DEF IsSummary
  <2>7. \A i \in I : i \in Nat /\ i >= 1
    BY <1>4, <2>5
  <2>8. Min(I) = 2
    <3> HIDE DEF I
    <3>1. I \in SUBSET Int /\ \A y \in I : 2 <= y
      BY <2>6, <2>7
    <3> QED
      BY <2>6, <3>1, MinIs
  <2>9. SelectInSeq(s, IsSummary) = 2
    BY <2>6, <2>8 DEF SelectInSeq
  <2>10. SummaryBody(s) = c
    BY <1>2, <2>5, <2>9 DEF SummaryBody
  <2>11. Strip(s, "summary") = h \o rest
    BY <2>1, <2>3 DEF s
  <2>12. UpsertSummary(s, b) = <<SystemPrompt, SummaryBlock(b)>> \o rest
    BY <1>6, <2>11
  <2>13. Len(p) # 1
    BY <2>1
  <2> QED
    BY <2>10, <2>12, <2>13 DEF s
<1>9. \A c, d : <<SystemPrompt, SummaryBlock(c)>> = <<SystemPrompt, SummaryBlock(d)>> => c = d
  BY <1>2
<1> QED
  BY <1>7, <1>8, <1>9 DEF Heads, h

(* A list of turns under such a head has its system messages in order.      *)
LEMMA HeadFirst ==
  ASSUME NEW R \in SUBSET Nat, NEW p \in Heads(R), NEW q \in WorkHeads(p),
         NEW rest \in Seq(TurnMessages)
  PROVE  SystemFirst(q \o rest)
<1> DEFINE s == q \o rest
           n == Len(q)
<1>1. /\ q \in Seq(Messages) /\ rest \in Seq(Messages) /\ q[1] = SystemPrompt
      /\ q \in Seq(SystemMessages) /\ n \in 1..3
      /\ \A i, j \in 1..n : i # j => q[i].role # q[j].role
  BY WorkHeadProperties, SeqMonotonic, SystemIsTyped
<1>2. \A i \in 1..n : q[i].role \in SystemRoles
  BY <1>1, ElementOfSeq, SystemIsTyped
<1>3. \A i \in 1..Len(rest) : rest[i].role \notin SystemRoles
  BY ElementOfSeq, SystemIsTyped
<1>4. /\ s \in Seq(Messages) /\ DOMAIN s = 1..(n + Len(rest)) /\ Len(rest) \in Nat
      /\ \A i \in 1..(n + Len(rest)) : s[i] = IF i <= n THEN q[i] ELSE rest[i - n]
  BY <1>1, ConcatProperties, LenProperties
<1>5. Leading(s) = n
  <2>1. rest # <<>> => 1 \in 1..Len(rest)
    BY EmptySeq
  <2>2. rest # <<>> => rest[1].role \notin SystemRoles
    BY <1>3, <2>1
  <2> QED
    BY <1>1, <1>2, <2>2, LeadingIs
<1> HIDE DEF s, n
<1>6. \A i \in DOMAIN s : IF i <= n THEN i \in 1..n /\ s[i] = q[i]
                          ELSE s[i].role \notin SystemRoles
  <2> TAKE i \in DOMAIN s
  <2>1. CASE i <= n
    BY <1>1, <1>4, <2>1
  <2>2. CASE ~(i <= n)
    <3>1. i - n \in 1..Len(rest) /\ s[i] = rest[i - n]
      BY <1>1, <1>4, <2>2
    <3> QED
      BY <1>3, <2>2, <3>1
  <2> QED
    BY <2>1, <2>2
<1>7. s[1].role = "system"
  <2>1. s[1] = SystemPrompt
    BY <1>1, <1>4
  <2> QED
    BY <2>1 DEF SystemPrompt, Message
<1>8. ASSUME NEW i \in DOMAIN s, NEW j \in DOMAIN s, s[i].role \in SystemRoles, i # j
      PROVE  i <= Leading(s) /\ s[i].role # s[j].role
  <2>1. i <= n /\ i \in 1..n /\ s[i] = q[i]
    BY <1>6, <1>8
  <2>2. CASE j <= n
    <3>1. j \in 1..n /\ s[j] = q[j]
      BY <1>6, <2>2
    <3> QED
      BY <1>1, <1>5, <1>8, <2>1, <3>1
  <2>3. CASE ~(j <= n)
    BY <1>5, <1>6, <1>8, <2>1, <2>3
  <2> QED
    BY <2>2, <2>3
<1> QED
  BY <1>7, <1>8, Zenon DEF SystemFirst, s

----------------------------------------------------------------------------
(* Folding *)

LEMMA WholeTurnProperties ==
  ASSUME NEW t \in WholeTurns
  PROVE  /\ t \in Seq(TurnMessages) /\ t \in TurnsOf(TurnMessages) /\ Len(t) \in Nat
         /\ Len(t) >= 2 /\ t[1].role = "user" /\ IsFinal(t[Len(t)])
         /\ t[Len(t)] \in TurnMessages /\ t[1] \in TurnMessages
         /\ \A i \in 1..Len(t) : t[i].run = t[1].run
<1>1. t \in Seq(TurnMessages) /\ t \in TurnsOf(TurnMessages) /\ IsTurn(t) /\ IsFinal(t[Len(t)])
      /\ \A i \in 1..Len(t) : t[i].run = t[1].run
  BY DEF WholeTurns, TurnsOf, Last
<1>2. Len(t) \in Nat /\ Len(t) # 0 /\ t[1].role = "user"
  BY <1>1, EmptySeq, LenProperties DEF IsTurn, IsUser
<1>3. Len(t) # 1
  BY <1>1, <1>2 DEF IsFinal
<1>4. 1 \in 1..Len(t) /\ Len(t) \in 1..Len(t) /\ Len(t) >= 2
  <2>1. \A n \in Nat : n # 0 /\ n # 1 => 1 \in 1..n /\ n \in 1..n /\ n >= 2
    OBVIOUS
  <2> QED
    BY <1>2, <1>3, <2>1
<1>5. t[1] \in TurnMessages /\ t[Len(t)] \in TurnMessages
  BY <1>1, <1>4, ElementOfSeq
<1> QED
  BY <1>1, <1>2, <1>4, <1>5

(* A folded turn is a whole turn of the same run.                           *)
LEMMA FoldedTurn ==
  ASSUME NEW t \in WholeTurns
  PROVE  FoldOneUserTurn(t) \in WholeTurns /\ FoldOneUserTurn(t)[1].run = t[1].run
<1> DEFINE n == Len(t)
           a == t[1]
           z == t[n]
           F == Where(t, IsFinal)
<1>1. /\ t \in Seq(TurnMessages) /\ n \in Nat /\ n >= 2 /\ a.role = "user" /\ IsFinal(z)
      /\ z \in TurnMessages /\ a \in TurnMessages /\ DOMAIN t = 1..n /\ z.run = a.run
  <2>1. n \in 1..n
    BY WholeTurnProperties
  <2> QED
    BY <2>1, WholeTurnProperties, LenProperties
<1>2. n \in F /\ F \in SUBSET Int /\ \A y \in F : n >= y
  BY <1>1 DEF Where
<1> HIDE DEF F
<1>3. Max(F) = n
  BY <1>2, MaxIs
<1>4. FoldOneUserTurn(t) = <<a, z>>
  BY <1>2, <1>3 DEF FoldOneUserTurn, F
<1> DEFINE u == <<a, z>>
<1> HIDE DEF a, z, n
<1>5. u \in Seq(TurnMessages) /\ Len(u) = 2 /\ u[1] = a /\ u[2] = z /\ DOMAIN u = 1..2
  BY <1>1
<1> HIDE DEF u
<1>6. z.role = "assistant" /\ z.body = <<>> /\ DOMAIN z.body = {}
  BY <1>1 DEF IsFinal
<1>7. \A i \in 1..2 : i = 1 \/ i = 2
  OBVIOUS
<1>8. IsTurn(u)
  <2>1. \A i \in 2..2 : i = 2
    OBVIOUS
  <2>2. u # <<>>
    <3>1. Len(u) # 0
      BY <1>5
    <3> QED
      BY <1>5, <3>1, EmptySeq
  <2> QED
    BY <1>1, <1>5, <1>6, <2>1, <2>2 DEF IsTurn, IsUser
<1>9. CallsAnswered(u)
  <2>1. \A i \in DOMAIN u : u[i].role = "assistant" => DOMAIN u[i].body = {}
    BY <1>1, <1>5, <1>6, <1>7
  <2>2. \A i \in DOMAIN u : u[i].role # "tool"
    BY <1>1, <1>5, <1>6, <1>7
  <2> QED
    BY <2>1, <2>2 DEF CallsAnswered
<1>10. IsFinal(Last(u)) /\ \A i \in 1..Len(u) : u[i].run = u[1].run
  BY <1>1, <1>5, <1>7 DEF Last
<1>11. u \in WholeTurns
  BY <1>5, <1>8, <1>9, <1>10 DEF WholeTurns, TurnsOf
<1> QED
  BY <1>4, <1>5, <1>11 DEF u, a

LEMMA JoinedWhole ==
  ASSUME NEW sys \in Seq(Messages), Users(sys) = {}, NEW ts \in Seq(WholeTurns)
  PROVE  /\ UserTurns(JoinTurns(sys, ts)) = ts /\ Prefix(JoinTurns(sys, ts)) = sys
         /\ FlattenSeq(ts) \in Seq(TurnMessages) /\ JoinTurns(sys, ts) \in Seq(Messages)
         /\ Len(JoinTurns(sys, ts)) = Len(sys) + Len(FlattenSeq(ts))
<1>1. WholeTurns \subseteq TurnsOf(Messages)
  <2> SUFFICES ASSUME NEW t \in WholeTurns PROVE t \in TurnsOf(Messages)
    OBVIOUS
  <2>1. t \in Seq(TurnMessages) /\ IsTurn(t)
    BY DEF WholeTurns, TurnsOf
  <2>2. t \in Seq(Messages)
    BY <2>1, SeqMonotonic, SystemIsTyped
  <2> QED
    BY <2>1, <2>2 DEF TurnsOf
<1>2. ts \in Seq(TurnsOf(Messages))
  BY <1>1, SeqMonotonic
<1>3. FlattenSeq(ts) \in Seq(TurnMessages)
  BY FlattenWhole
<1>4. FlattenSeq(ts) \in Seq(Messages)
  BY <1>3, SeqMonotonic, SystemIsTyped
<1> QED
  BY <1>2, <1>3, <1>4, JoinProperties, ConcatProperties DEF JoinTurns

(* Folding keeps the turns whole, and the last one as it is.                *)
LEMMA Folded ==
  ASSUME NEW sys \in Seq(Messages), Users(sys) = {}, NEW ts \in Seq(WholeTurns), ts # <<>>
  PROVE  \E us \in Seq(WholeTurns) :
           /\ FoldOldTurns(JoinTurns(sys, ts)) = JoinTurns(sys, us)
           /\ Len(us) = Len(ts) /\ us[Len(us)] = ts[Len(ts)]
           /\ \A k \in 1..Len(ts) : us[k][1].run = ts[k][1].run
<1> DEFINE msgs == JoinTurns(sys, ts)
           n == Len(ts)
           keep == IF KeepRecentFullTurns = 0 THEN 1 ELSE KeepRecentFullTurns
           cut == n - keep
           us == [k \in 1..n |-> IF k <= cut THEN FoldOneUserTurn(ts[k]) ELSE ts[k]]
<1>1. UserTurns(msgs) = ts /\ Prefix(msgs) = sys
  BY JoinedWhole
<1>2. n \in Nat /\ n # 0 /\ DOMAIN ts = 1..n /\ \A k \in 1..n : ts[k] \in WholeTurns
  BY EmptySeq, LenProperties, ElementOfSeq
<1>3. keep \in Int /\ cut \in Int
  BY <1>2, HistoryAssumption
<1>4. CASE keep < 0 \/ cut <= 0
  <2>1. FoldOldTurns(msgs) = msgs
    BY <1>1, <1>4 DEF FoldOldTurns
  <2> QED
    BY <2>1
<1>5. CASE ~(keep < 0 \/ cut <= 0)
  <2>1. FoldOldTurns(msgs) = JoinTurns(sys, us)
    BY <1>1, <1>2, <1>5 DEF FoldOldTurns
  <2>2. \A k \in 1..n : us[k] \in WholeTurns /\ us[k][1].run = ts[k][1].run
    BY <1>2, FoldedTurn
  <2>3. us \in Seq(WholeTurns) /\ Len(us) = n
    BY <1>2, <2>2
  <2>4. us[n] = ts[n]
    <3>1. keep >= 1
      BY <1>3, <1>5, HistoryAssumption
    <3> HIDE DEF keep
    <3>2. ~(n <= cut) /\ n \in 1..n
      BY <1>2, <1>3, <3>1
    <3> QED
      BY <3>2
  <2> QED
    BY <2>1, <2>2, <2>3, <2>4
<1> QED
  BY <1>4, <1>5

----------------------------------------------------------------------------
(* Summaries *)

LEMMA BulletsGrow ==
  ASSUME NEW R, NEW S, R \subseteq S
  PROVE  Bullets(R) \subseteq Bullets(S) /\ \A b \in Seq(Bullets(R)) : b \in Seq(Bullets(S))
<1>1. Bullets(R) \subseteq Bullets(S)
  BY DEF Bullets
<1> QED
  BY <1>1, SeqMonotonic

LEMMA Capped ==
  ASSUME NEW R, NEW b \in Seq(Bullets(R)) PROVE CapRunes(b) \in Seq(Bullets(R))
<1>1. CASE Len(b) <= SummaryRoom
  BY <1>1 DEF CapRunes
<1>2. CASE ~(Len(b) <= SummaryRoom)
  <2> DEFINE n == SummaryRoom
             s == SubSeq(b, 1, n)
             c == Cut(Len(b))
  <2>1. Len(b) \in Nat /\ n \in Nat /\ 1 \in Int /\ n \in Int
    BY HistoryAssumption
  <2>2. \A i \in 1..n : i \in 1..Len(b)
    BY <1>2, <2>1
  <2>3. \A i \in 1..n : b[i] \in Bullets(R)
    BY <2>2, ElementOfSeq
  <2>4. s \in Seq(Bullets(R))
    BY <2>1, <2>3, SubSeqProperties
  <2>5. c \in Bullets(R)
    BY <2>1 DEF Cut, Bullets
  <2>6. CapRunes(b) = Append(s, c)
    BY <1>2 DEF CapRunes
  <2> HIDE DEF s, c
  <2> QED
    BY <2>4, <2>5, <2>6, AppendProperties
<1> QED
  BY <1>1, <1>2

(* A summary of what was dropped tells of the runs of what was dropped, and *)
(* of those the previous one told of.                                       *)
LEMMA SummariesTell ==
  ASSUME NEW R \in SUBSET Nat, NEW prev \in Seq(Bullets(R)), NEW dropped \in Seq(TurnMessages),
         \A i \in 1..Len(dropped) : dropped[i].run \in R,
         NEW s \in Summaries(prev, dropped)
  PROVE  s \in Seq(Bullets(R))
<1> DEFINE B == Bullets(R)
           T == {m \in TurnMessages : m.run \in R}
           facts == FactsFromDropped(dropped)
           all == prev \o facts
           once == Dedupe(all)
           new == Newest(once, MaxSummaryBullets)
           draft == BuildSummary(prev, dropped)
<1>1. facts \in Seq(B)
  <2> DEFINE telling(m) == m.role \in {"user", "tool"} \/ IsFinal(m)
             D == Where(dropped, telling)
             told == Pick(dropped, D)
  <2>1. dropped \in Seq(T)
    <3>1. \A i \in 1..Len(dropped) : dropped[i] \in T
      BY ElementOfSeq
    <3>2. dropped = [i \in 1..Len(dropped) |-> dropped[i]] /\ Len(dropped) \in Nat
      OBVIOUS
    <3> HIDE DEF T
    <3> QED
      BY <3>1, <3>2
  <2>2. D \in SUBSET (1..Len(dropped))
    BY LenProperties DEF Where
  <2>3. facts = [i \in DOMAIN told |-> <<told[i].role, told[i].run, told[i].body>>]
    BY DEF FactsFromDropped
  <2> HIDE DEF D, T, B, facts
  <2>4. told \in Seq(T)
    BY <2>1, <2>2, PickProperties
  <2> HIDE DEF told
  <2>5. Len(told) \in Nat /\ DOMAIN told = 1..Len(told) /\ \A i \in 1..Len(told) : told[i] \in T
    BY <2>4, LenProperties, ElementOfSeq
  <2>6. \A i \in 1..Len(told) : <<told[i].role, told[i].run, told[i].body>> \in B
    BY <2>5 DEF T, B, Bullets, TurnMessages
  <2> QED
    BY <2>3, <2>5, <2>6
<1> HIDE DEF facts, B
<1>2. prev \in Seq(B)
  BY DEF B
<1>3. all \in Seq(B)
  BY <1>1, <1>2, ConcatProperties
<1> HIDE DEF all
<1>4. once \in Seq(B)
  <2> DEFINE D == {i \in DOMAIN all : \A j \in 1..(i - 1) : all[j] # all[i]}
  <2>1. D \in SUBSET (1..Len(all))
    BY <1>3, LenProperties
  <2>2. once = Pick(all, D)
    BY DEF Dedupe
  <2> HIDE DEF D, once
  <2> QED
    BY <1>3, <2>1, <2>2, PickProperties
<1> HIDE DEF once
<1>5. new \in Seq(B)
  <2> DEFINE n == MaxSummaryBullets
             k == Len(once)
  <2>1. n \in Nat /\ k \in Nat /\ n # 0
    BY <1>4, HistoryAssumption, LenProperties
  <2>2. CASE k <= n
    BY <1>4, <2>2 DEF Newest
  <2>3. CASE ~(k <= n)
    <3>1. new = SubSeq(once, k - n + 1, k)
      BY <2>3 DEF Newest
    <3> HIDE DEF k
    <3>2. k - n + 1 \in Int /\ k \in Int /\ \A i \in k - n + 1..k : i \in 1..k
      BY <2>1, <2>3
    <3>3. \A i \in k - n + 1..k : once[i] \in B
      BY <1>4, <3>2, ElementOfSeq DEF k
    <3> HIDE DEF new
    <3> QED
      BY <3>1, <3>2, <3>3, SubSeqProperties
  <2> QED
    BY <2>2, <2>3
<1>6. draft \in Seq(B)
  <2>1. draft = CapRunes(new)
    BY DEF BuildSummary, new, once, all, facts
  <2> HIDE DEF new
  <2>2. CapRunes(new) \in Seq(B)
    BY <1>5, Capped DEF B
  <2> QED
    BY <2>1, <2>2
<1>7. s = draft \/ \E some \in SUBSET DOMAIN draft : s = CapRunes(<<Compressed>> \o Pick(draft, some))
  BY DEF Summaries
<1> HIDE DEF draft
<1>8. ASSUME NEW some \in SUBSET DOMAIN draft
      PROVE  CapRunes(<<Compressed>> \o Pick(draft, some)) \in Seq(B)
  <2> DEFINE p == Pick(draft, some)
             h == <<Compressed>>
  <2>1. some \in SUBSET (1..Len(draft))
    BY <1>6, LenProperties
  <2>2. p \in Seq(B)
    BY <1>6, <2>1, PickProperties
  <2>3. h \in Seq(B)
    BY DEF B, Bullets
  <2> HIDE DEF p, h
  <2>4. h \o p \in Seq(B)
    BY <2>2, <2>3, ConcatProperties
  <2>5. CapRunes(h \o p) \in Seq(B)
    BY <2>4, Capped DEF B
  <2> QED
    BY <2>5 DEF p, h
<1>9. s \in Seq(B)
  BY <1>6, <1>7, <1>8
<1> QED
  BY <1>9 DEF B

----------------------------------------------------------------------------
(* Trimming *)

(* The first n turns, and the others *)
LEMMA PartsOfTurns ==
  ASSUME NEW T, NEW ts \in Seq(T), NEW n \in 0..Len(ts)
  PROVE  /\ SubSeq(ts, 1, n) \in Seq(T) /\ Len(SubSeq(ts, 1, n)) = n
         /\ \A k \in 1..n : SubSeq(ts, 1, n)[k] = ts[k]
         /\ SubSeq(ts, n + 1, Len(ts)) \in Seq(T)
         /\ Len(SubSeq(ts, n + 1, Len(ts))) = Len(ts) - n
         /\ \A k \in 1..(Len(ts) - n) : SubSeq(ts, n + 1, Len(ts))[k] = ts[n + k]
<1> DEFINE N == Len(ts)
<1>1. N \in Nat /\ n \in Nat /\ n <= N
  BY LenProperties
<1>2. \A i \in 1..N : ts[i] \in T
  BY ElementOfSeq
<1> HIDE DEF N
<1>3. (\A i \in 1..n : ts[i] \in T) /\ \A i \in n + 1..N : ts[i] \in T
  BY <1>1, <1>2
<1>4. /\ SubSeq(ts, 1, n) \in Seq(T) /\ Len(SubSeq(ts, 1, n)) = IF 1 <= n THEN n - 1 + 1 ELSE 0
      /\ \A i \in 1..n - 1 + 1 : SubSeq(ts, 1, n)[i] = ts[1 + i - 1]
  <2>1. 1 \in Int /\ n \in Int
    BY <1>1
  <2> QED
    BY <1>3, <2>1, SubSeqProperties
<1>5. /\ SubSeq(ts, n + 1, N) \in Seq(T)
      /\ Len(SubSeq(ts, n + 1, N)) = IF n + 1 <= N THEN N - (n + 1) + 1 ELSE 0
      /\ \A i \in 1..N - (n + 1) + 1 : SubSeq(ts, n + 1, N)[i] = ts[n + 1 + i - 1]
  <2> DEFINE m == n + 1
  <2>1. m \in Int /\ N \in Int /\ \A i \in m..N : ts[i] \in T
    BY <1>1, <1>3
  <2> HIDE DEF m
  <2>2. /\ SubSeq(ts, m, N) \in Seq(T)
        /\ Len(SubSeq(ts, m, N)) = IF m <= N THEN N - m + 1 ELSE 0
        /\ \A i \in 1..N - m + 1 : SubSeq(ts, m, N)[i] = ts[m + i - 1]
    BY <2>1, SubSeqProperties
  <2> QED
    BY <2>2 DEF m
<1> DEFINE a == SubSeq(ts, 1, n)
           b == SubSeq(ts, n + 1, N)
<1> HIDE DEF a, b
<1>6. Len(a) = n /\ \A k \in 1..n : a[k] = ts[k]
  <2>1. n - 1 + 1 = n /\ (~(1 <= n) => n = 0) /\ \A k \in 1..n : 1 + k - 1 = k
    BY <1>1
  <2> QED
    BY <1>4, <2>1 DEF a
<1>7. Len(b) = N - n /\ \A k \in 1..(N - n) : b[k] = ts[n + k]
  <2>1. /\ N - (n + 1) + 1 = N - n /\ (~(n + 1 <= N) => N - n = 0)
        /\ \A k \in 1..(N - n) : n + 1 + k - 1 = n + k
    BY <1>1
  <2> QED
    BY <1>5, <2>1 DEF b
<1> QED
  BY <1>4, <1>5, <1>6, <1>7 DEF a, b, N

(* What a list is without its first n turns *)
Without(sys, ts, n) == JoinTurns(sys, SubSeq(ts, n + 1, Len(ts)))

LEMMA ToDropProperties ==
  ASSUME NEW sys \in Seq(Messages), Users(sys) = {}, NEW ts \in Seq(WholeTurns), ts # <<>>
  PROVE  /\ ToDrop(JoinTurns(sys, ts)) \in 0..(Len(ts) - 1)
         /\ \/ ToDrop(JoinTurns(sys, ts)) = Len(ts) - 1
            \/ Len(Without(sys, ts, ToDrop(JoinTurns(sys, ts)))) <= MaxHistoryMessages
<1> DEFINE N == Len(ts)
           size(k) == Len(sys) + Len(FlattenSeq(SubSeq(ts, k + 1, N)))
           enough == {k \in 0..(N - 1) : size(k) <= MaxHistoryMessages}
           n == ToDrop(JoinTurns(sys, ts))
<1>1. N \in Nat /\ N # 0
  BY EmptySeq, LenProperties
<1>2. n = IF enough = {} THEN N - 1 ELSE Min(enough)
  BY JoinedWhole DEF ToDrop
<1>3. \A k \in 0..(N - 1) : Len(Without(sys, ts, k)) = size(k)
  <2> TAKE k \in 0..(N - 1)
  <2>1. k \in 0..Len(ts)
    BY <1>1
  <2> DEFINE us == SubSeq(ts, k + 1, N)
  <2>2. us \in Seq(WholeTurns)
    BY <2>1, PartsOfTurns
  <2> HIDE DEF us
  <2>3. Len(JoinTurns(sys, us)) = Len(sys) + Len(FlattenSeq(us))
    BY <2>2, JoinedWhole
  <2> QED
    BY <2>3 DEF us, Without
<1>4. CASE enough = {}
  BY <1>1, <1>2, <1>4
<1>5. CASE enough # {}
  <2>1. enough \in SUBSET Nat /\ enough \in SUBSET Int
    BY <1>1
  <2> HIDE DEF enough
  <2>2. PICK x \in enough : \A y \in enough : x <= y
    BY <1>5, <2>1, Least
  <2>3. Min(enough) = x
    BY <2>1, <2>2, MinIs
  <2>4. n = x
    BY <1>2, <1>5, <2>3
  <2>5. x \in 0..(N - 1) /\ size(x) <= MaxHistoryMessages
    BY DEF enough
  <2>6. Len(Without(sys, ts, x)) = size(x)
    BY <1>3, <2>5
  <2> HIDE DEF N, n, size
  <2> QED
    BY <2>4, <2>5, <2>6 DEF n, N
<1> QED
  BY <1>4, <1>5

(* The runs of the first n turns *)
FirstRuns(ts, n) == {ts[k][1].run : k \in 1..n}

(* One pass of a trim drops the first n turns, never the last one, and its  *)
(* summary tells of them.  The list is still too long only if it is of one  *)
(* turn, or if the summary is new.                                          *)
ShrinksTo(R, sys, ts, h) ==
  \E n \in 0..(Len(ts) - 1) : \E head \in Heads(R \cup FirstRuns(ts, n)) :
    /\ h = Without(head, ts, n)
    /\ n = 0 => head = sys
    /\ n > 0 => Len(head) = 2
    /\ MaxHistoryMessages > 0 /\ Len(JoinTurns(sys, ts)) <= MaxHistoryMessages => n = 0
    /\ MaxHistoryMessages > 0 /\ Len(h) > MaxHistoryMessages =>
         n = Len(ts) - 1 \/ (Len(sys) = 1 /\ n > 0)

LEMMA Shrunk ==
  ASSUME NEW R \in SUBSET Nat, NEW sys \in Heads(R), NEW ts \in Seq(WholeTurns), ts # <<>>,
         NEW h \in Shrink(JoinTurns(sys, ts))
  PROVE  ShrinksTo(R, sys, ts, h)
<1> USE DEF ShrinksTo
<1> DEFINE N == Len(ts)
           msgs == JoinTurns(sys, ts)
           n == ToDrop(msgs)
           gone == FlattenSeq(SubSeq(ts, 1, n))
           rest == FlattenSeq(SubSeq(ts, n + 1, N))
<1>1. /\ sys \in Seq(SystemMessages) /\ sys \in Seq(Messages) /\ Users(sys) = {}
      /\ Len(sys) \in {1, 2}
  BY HeadProperties, SystemOnly
<1>2. N \in Nat /\ N # 0
  BY EmptySeq, LenProperties
<1>3. UserTurns(msgs) = ts /\ Prefix(msgs) = sys /\ msgs \in Seq(Messages)
  BY <1>1, JoinedWhole
<1>4. n \in 0..(N - 1) /\ (n = N - 1 \/ Len(Without(sys, ts, n)) <= MaxHistoryMessages)
  BY <1>1, ToDropProperties
<1>5. Without(sys, ts, 0) = msgs
  <2>1. SubSeq(ts, 0 + 1, Len(ts)) = ts
    BY SubSeqFull
  <2> QED
    BY <2>1 DEF Without
<1>6. h \in IF MaxHistoryMessages = 0 \/ Len(msgs) <= MaxHistoryMessages \/ n = 0 THEN {msgs}
            ELSE {UpsertSummary(sys \o rest, s) : s \in Summaries(SummaryBody(msgs), gone)}
  BY <1>3 DEF Shrink, JoinTurns
<1> HIDE DEF n, gone, rest
<1>7. CASE MaxHistoryMessages = 0 \/ Len(msgs) <= MaxHistoryMessages \/ n = 0
  <2>1. h = Without(sys, ts, 0)
    BY <1>5, <1>6, <1>7
  <2>2. 0 \in 0..(N - 1)
    BY <1>2
  <2>3. sys \in Heads(R \cup FirstRuns(ts, 0))
    <3>1. FirstRuns(ts, 0) = {}
      BY DEF FirstRuns
    <3> QED
      BY <3>1
  <2>4. MaxHistoryMessages > 0 /\ Len(h) > MaxHistoryMessages => 0 = N - 1
    <3> HIDE DEF msgs, N
    <3> SUFFICES ASSUME MaxHistoryMessages > 0, Len(h) > MaxHistoryMessages PROVE 0 = N - 1
      OBVIOUS
    <3>1. h = msgs /\ Len(h) \in Nat /\ MaxHistoryMessages \in Nat
      BY <1>3, <1>5, <2>1, HistoryAssumption, LenProperties
    <3>2. n = 0
      BY <1>7, <3>1
    <3>3. ~(Len(Without(sys, ts, n)) <= MaxHistoryMessages)
      BY <2>1, <3>1, <3>2
    <3> QED
      BY <1>4, <3>2, <3>3
  <2> WITNESS 0 \in 0..(N - 1)
  <2> WITNESS sys \in Heads(R \cup FirstRuns(ts, 0))
  <2> QED
    BY <2>1, <2>4
<1>8. CASE ~(MaxHistoryMessages = 0 \/ Len(msgs) <= MaxHistoryMessages \/ n = 0)
  <2>1. PICK s \in Summaries(SummaryBody(msgs), gone) : h = UpsertSummary(sys \o rest, s)
    BY <1>6, <1>8
  <2> DEFINE D == R \cup FirstRuns(ts, n)
             head == <<SystemPrompt, SummaryBlock(s)>>
             us == SubSeq(ts, 1, n)
  <2>2. n \in 0..N
    BY <1>2, <1>4
  <2>3. /\ us \in Seq(WholeTurns) /\ Len(us) = n /\ \A k \in 1..n : us[k] = ts[k]
        /\ SubSeq(ts, n + 1, N) \in Seq(WholeTurns)
    BY <2>2, PartsOfTurns
  <2>4. gone \in Seq(TurnMessages) /\ rest \in Seq(TurnMessages)
    BY <2>3, FlattenWhole DEF gone, rest
  <2>5. FirstRuns(ts, n) \in SUBSET Nat
    <3> SUFFICES ASSUME NEW k \in 1..n PROVE ts[k][1].run \in Nat
      BY DEF FirstRuns
    <3>1. k \in 1..N
      BY <1>2, <2>2
    <3>2. ts[k] \in WholeTurns
      BY <3>1, ElementOfSeq
    <3>3. ts[k][1] \in TurnMessages
      BY <3>2, WholeTurnProperties
    <3> QED
      BY <3>3 DEF TurnMessages
  <2>6. \A i \in 1..Len(gone) : gone[i].run \in D
    <3> TAKE i \in 1..Len(gone)
    <3> HIDE DEF us
    <3>1. PICK k \in 1..Len(us) : gone[i].run = us[k][1].run
      BY <2>3, FlattenWhole DEF gone, us
    <3> QED
      BY <2>3, <3>1 DEF FirstRuns
  <2>7. SummaryBody(msgs) \in Seq(Bullets(D))
    <3>1. msgs = sys \o FlattenSeq(ts) /\ FlattenSeq(ts) \in Seq(TurnMessages)
      BY FlattenWhole DEF JoinTurns
    <3>2. SummaryBody(msgs) \in Seq(Bullets(R))
      BY <3>1, SummaryUpserted
    <3> HIDE DEF msgs
    <3> QED
      BY <3>2, BulletsGrow
  <2>8. D \in SUBSET Nat
    BY <2>5
  <2> HIDE DEF D
  <2>9. s \in Seq(Bullets(D))
    BY <2>1, <2>4, <2>6, <2>7, <2>8, SummariesTell
  <2>10. head \in Heads(D) /\ Len(head) = 2
    BY <2>9 DEF Heads
  <2>11. h = head \o rest
    BY <2>1, <2>4, SummaryUpserted, SMTT(30)
  <2>12. h = Without(head, ts, n)
    BY <2>11 DEF Without, JoinTurns, rest
  <2> HIDE DEF head
  <2>13. /\ Len(Without(sys, ts, n)) = Len(sys) + Len(rest)
         /\ Len(h) = Len(head) + Len(rest) /\ Len(rest) \in Nat
    <3>1. head \in Seq(Messages) /\ Users(head) = {}
      BY <2>8, <2>10, HeadProperties, SystemOnly
    <3>2. /\ Len(JoinTurns(sys, SubSeq(ts, n + 1, N))) = Len(sys) + Len(rest)
          /\ Len(JoinTurns(head, SubSeq(ts, n + 1, N))) = Len(head) + Len(rest)
      BY <1>1, <2>3, <3>1, JoinedWhole DEF rest
    <3> QED
      BY <2>4, <2>12, <3>2, LenProperties DEF Without
  <2>14. MaxHistoryMessages > 0 /\ Len(h) > MaxHistoryMessages => n = N - 1 \/ Len(sys) = 1
    <3> SUFFICES ASSUME Len(h) > MaxHistoryMessages, n # N - 1, Len(sys) # 1 PROVE FALSE
      OBVIOUS
    <3>1. Len(Without(sys, ts, n)) <= MaxHistoryMessages
      BY <1>4
    <3>2. Len(sys) = 2 /\ MaxHistoryMessages \in Nat
      BY <1>1, HistoryAssumption
    <3> HIDE DEF N
    <3> QED
      BY <2>10, <2>13, <3>1, <3>2
  <2>15. n > 0 /\ ~(Len(msgs) <= MaxHistoryMessages)
    BY <1>2, <1>4, <1>8
  <2> HIDE DEF N, msgs
  <2>16. head \in Heads(R \cup FirstRuns(ts, n))
    BY <2>10 DEF D
  <2>17. n \in 0..(Len(ts) - 1) /\ n # 0
    BY <1>2, <1>4, <2>15 DEF N
  <2>18. /\ ~(MaxHistoryMessages > 0 /\ Len(JoinTurns(sys, ts)) <= MaxHistoryMessages)
         /\ MaxHistoryMessages > 0 /\ Len(h) > MaxHistoryMessages =>
              n = Len(ts) - 1 \/ (Len(sys) = 1 /\ n > 0)
    BY <2>14, <2>15 DEF N, msgs
  <2> USE <2>16, <2>17
  <2> WITNESS n \in 0..(Len(ts) - 1)
  <2> WITNESS head \in Heads(R \cup FirstRuns(ts, n))
  <2> QED
    BY <2>10, <2>12, <2>18
<1> QED
  BY <1>7, <1>8

LEMMA HeadsGrow ==
  ASSUME NEW R, NEW S, R \subseteq S, NEW p \in Heads(R) PROVE p \in Heads(S)
<1>1. \A b \in Seq(Bullets(R)) : b \in Seq(Bullets(S))
  BY BulletsGrow
<1> QED
  BY <1>1 DEF Heads

(* Both passes of a trim: the cap holds after them, or one turn is left.    *)
TrimsTo(R, sys, ts, h) ==
  \E n \in 0..(Len(ts) - 1) : \E head \in Heads(R \cup FirstRuns(ts, n)) :
    /\ h = Without(head, ts, n)
    /\ n = 0 => head = sys
    /\ n > 0 => Len(head) = 2
    /\ MaxHistoryMessages > 0 => Len(h) <= MaxHistoryMessages \/ n = Len(ts) - 1

LEMMA Trimmed ==
  ASSUME NEW R \in SUBSET Nat, NEW sys \in Heads(R), NEW ts \in Seq(WholeTurns), ts # <<>>,
         NEW h \in TrimHistory(JoinTurns(sys, ts))
  PROVE  TrimsTo(R, sys, ts, h)
<1> USE DEF TrimsTo
<1> DEFINE N == Len(ts)
           D(n) == R \cup FirstRuns(ts, n)
           rest(n) == SubSeq(ts, n + 1, N)
           cap == MaxHistoryMessages
<1>1. PICK m \in Shrink(JoinTurns(sys, ts)) : h \in Shrink(m)
  BY DEF TrimHistory
<1>2. N \in Nat /\ N # 0 /\ cap \in Nat
  BY EmptySeq, LenProperties, HistoryAssumption
<1>3. PICK n \in 0..(N - 1) : \E head \in Heads(D(n)) :
        /\ m = Without(head, ts, n)
        /\ n = 0 => head = sys
        /\ n > 0 => Len(head) = 2
        /\ cap > 0 /\ Len(JoinTurns(sys, ts)) <= cap => n = 0
        /\ cap > 0 /\ Len(m) > cap => n = N - 1 \/ (Len(sys) = 1 /\ n > 0)
  <2>1. ShrinksTo(R, sys, ts, m)
    BY Shrunk
  <2> QED
    BY <2>1 DEF ShrinksTo
<1>4. PICK head \in Heads(D(n)) :
        /\ m = Without(head, ts, n)
        /\ n = 0 => head = sys
        /\ n > 0 => Len(head) = 2
        /\ cap > 0 /\ Len(m) > cap => n = N - 1 \/ (Len(sys) = 1 /\ n > 0)
  BY <1>3
<1> DEFINE us == rest(n)
           M == Len(us)
<1>5. us \in Seq(WholeTurns) /\ M = N - n /\ \A k \in 1..(N - n) : us[k] = ts[n + k]
  <2>1. n \in 0..Len(ts)
    BY <1>2
  <2> QED
    BY <2>1, PartsOfTurns
<1>6. D(n) \in SUBSET Nat /\ \A l \in 0..N : D(l) \in SUBSET Nat
  <2>1. \A k \in 1..N : ts[k][1].run \in Nat
    <3> TAKE k \in 1..N
    <3>1. ts[k][1] \in TurnMessages
      BY ElementOfSeq, WholeTurnProperties
    <3> QED
      BY <3>1 DEF TurnMessages
  <2> HIDE DEF N
  <2>2. \A l \in 0..N : D(l) \in SUBSET Nat
    <3> TAKE l \in 0..N
    <3>1. \A k \in 1..l : k \in 1..N
      BY <1>2
    <3> QED
      BY <2>1, <3>1 DEF FirstRuns
  <2> QED
    BY <1>2, <2>2
<1>7. m = JoinTurns(head, us)
  BY <1>4 DEF Without
<1> HIDE DEF us, rest, N, cap, D
<1>8. us # <<>> /\ M \in Nat /\ M # 0
  <2>1. N - n # 0 /\ N - n \in Nat
    BY <1>2
  <2> QED
    BY <1>5, <2>1, EmptySeq
<1>9. PICK l \in 0..(M - 1) : \E top \in Heads(D(n) \cup FirstRuns(us, l)) :
        /\ h = Without(top, us, l)
        /\ l = 0 => top = head
        /\ l > 0 => Len(top) = 2
        /\ cap > 0 /\ Len(m) <= cap => l = 0
        /\ cap > 0 /\ Len(h) > cap => l = M - 1 \/ (Len(head) = 1 /\ l > 0)
  <2> DEFINE S == D(n)
  <2>1. /\ S \in SUBSET Nat /\ head \in Heads(S) /\ us \in Seq(WholeTurns) /\ us # <<>>
        /\ h \in Shrink(JoinTurns(head, us))
    BY <1>1, <1>5, <1>6, <1>7, <1>8
  <2> HIDE DEF S
  <2>2. ShrinksTo(S, head, us, h)
    BY <2>1, Shrunk
  <2> HIDE DEF M
  <2>3. \E l \in 0..(M - 1) : \E top \in Heads(S \cup FirstRuns(us, l)) :
          /\ h = Without(top, us, l)
          /\ l = 0 => top = head
          /\ l > 0 => Len(top) = 2
          /\ cap > 0 /\ Len(m) <= cap => l = 0
          /\ cap > 0 /\ Len(h) > cap => l = M - 1 \/ (Len(head) = 1 /\ l > 0)
    BY <1>7, <2>2 DEF ShrinksTo, M, cap
  <2> QED
    BY <2>3 DEF S
<1>10. PICK top \in Heads(D(n) \cup FirstRuns(us, l)) :
        /\ h = Without(top, us, l)
        /\ l = 0 => top = head
        /\ l > 0 => Len(top) = 2
        /\ cap > 0 /\ Len(m) <= cap => l = 0
        /\ cap > 0 /\ Len(h) > cap => l = M - 1 \/ (Len(head) = 1 /\ l > 0)
  BY <1>9
<1>11. /\ n + l \in 0..(N - 1) /\ n \in Nat /\ l \in Nat /\ n + l \in 0..N /\ l \in 0..M
       /\ M - l = N - (n + l) /\ (l = M - 1 <=> n + l = N - 1) /\ (n = N - 1 => l = 0)
       /\ (n + l = 0 <=> n = 0 /\ l = 0)
  <2> HIDE DEF M
  <2> QED
    BY <1>2, <1>5, <1>8
<1>12. SubSeq(us, l + 1, Len(us)) = rest(n + l)
  <2> DEFINE a == SubSeq(us, l + 1, Len(us))
             b == rest(n + l)
  <2>1. a \in Seq(WholeTurns) /\ Len(a) = M - l /\ \A k \in 1..(M - l) : a[k] = us[l + k]
    <3>1. us \in Seq(WholeTurns) /\ l \in 0..Len(us)
      BY <1>5, <1>11
    <3>2. /\ SubSeq(us, l + 1, Len(us)) \in Seq(WholeTurns)
          /\ Len(SubSeq(us, l + 1, Len(us))) = Len(us) - l
          /\ \A k \in 1..(Len(us) - l) : SubSeq(us, l + 1, Len(us))[k] = us[l + k]
      BY <3>1, PartsOfTurns, ZenonT(30)
    <3> QED
      BY <3>2
  <2>2. /\ b \in Seq(WholeTurns) /\ Len(b) = N - (n + l)
        /\ \A k \in 1..(N - (n + l)) : b[k] = ts[n + l + k]
    <3> DEFINE x == n + l
    <3>1. x \in 0..Len(ts)
      BY <1>11 DEF N
    <3> HIDE DEF x
    <3>2. /\ SubSeq(ts, x + 1, Len(ts)) \in Seq(WholeTurns)
          /\ Len(SubSeq(ts, x + 1, Len(ts))) = Len(ts) - x
          /\ \A k \in 1..(Len(ts) - x) : SubSeq(ts, x + 1, Len(ts))[k] = ts[x + k]
      BY <3>1, PartsOfTurns
    <3> QED
      BY <3>2 DEF rest, N, x
  <2> HIDE DEF a, b, M
  <2>3. \A k \in 1..(M - l) : us[l + k] = ts[n + l + k]
    <3> TAKE k \in 1..(M - l)
    <3>1. l + k \in 1..(N - n) /\ n + (l + k) = n + l + k
      BY <1>2, <1>5, <1>8, <1>11
    <3> QED
      BY <1>5, <3>1
  <2>4. Len(a) = Len(b) /\ \A k \in 1..Len(a) : a[k] = b[k]
    BY <1>11, <2>1, <2>2, <2>3
  <2>5. a = b
    BY <2>1, <2>2, <2>4, SeqEqual
  <2> QED
    BY <2>5 DEF a, b
<1>13. h = Without(top, ts, n + l)
  BY <1>10, <1>12 DEF Without, rest, N
<1>14. top \in Heads(D(n + l))
  <2>1. D(n) \cup FirstRuns(us, l) \subseteq D(n + l)
    <3>1. D(n) \subseteq D(n + l)
      <4>1. \A k \in 1..n : k \in 1..(n + l)
        BY <1>11
      <4> QED
        BY <4>1 DEF D, FirstRuns
    <3>2. FirstRuns(us, l) \subseteq FirstRuns(ts, n + l)
      <4> SUFFICES ASSUME NEW k \in 1..l PROVE us[k][1].run \in FirstRuns(ts, n + l)
        BY DEF FirstRuns
      <4> HIDE DEF M
      <4>1. k \in 1..(N - n) /\ n + k \in 1..(n + l)
        BY <1>2, <1>5, <1>8, <1>11
      <4>2. us[k] = ts[n + k]
        BY <1>5, <4>1
      <4> QED
        BY <4>1, <4>2 DEF FirstRuns
    <3> QED
      BY <3>1, <3>2 DEF D
  <2> QED
    BY <1>10, <2>1, HeadsGrow
<1>15. n + l = 0 => top = sys
  BY <1>4, <1>10, <1>11
<1>16. n + l > 0 => Len(top) = 2
  <2>1. CASE l > 0
    BY <1>10, <2>1
  <2>2. CASE ~(l > 0)
    <3>1. l = 0 /\ (n + l > 0 => n > 0)
      BY <1>11, <2>2
    <3> QED
      BY <1>4, <1>10, <3>1
  <2> QED
    BY <2>1, <2>2
<1>17. cap > 0 => Len(h) <= cap \/ n + l = N - 1
  <2> SUFFICES ASSUME cap > 0, ~(Len(h) <= cap), n + l # N - 1 PROVE FALSE
    OBVIOUS
  <2>1. Len(h) > cap /\ (Len(m) <= cap \/ Len(m) > cap)
    <3>1. h \in Seq(Messages) /\ m \in Seq(Messages)
      <4>1. /\ top \in Seq(Messages) /\ Users(top) = {}
            /\ head \in Seq(Messages) /\ Users(head) = {}
        BY <1>4, <1>6, <1>11, <1>14, HeadProperties, SystemOnly
      <4>2. SubSeq(us, l + 1, Len(us)) \in Seq(WholeTurns)
        BY <1>5, <1>11, PartsOfTurns
      <4> QED
        BY <1>5, <1>7, <1>10, <4>1, <4>2, JoinedWhole DEF Without
    <3> QED
      BY <1>2, <3>1, LenProperties
  <2>2. l # M - 1
    BY <1>11
  <2>3. Len(head) = 1 /\ l > 0
    BY <1>10, <2>1, <2>2
  <2>4. Len(m) > cap
    BY <1>10, <1>11, <2>1, <2>3
  <2>5. n > 0
    BY <1>4, <1>11, <2>3, <2>4
  <2> QED
    BY <1>4, <2>3, <2>5
<1>18. n + l \in 0..(Len(ts) - 1)
  BY <1>11 DEF N
<1> USE <1>14, <1>18 DEF D
<1> WITNESS n + l \in 0..(Len(ts) - 1)
<1> WITNESS top \in Heads(R \cup FirstRuns(ts, n + l))
<1> QED
  BY <1>13, <1>15, <1>16, <1>17 DEF cap, N

----------------------------------------------------------------------------
(* Commits *)

(* The first n answered runs *)
Earlier(ans, n) == {ans[i] : i \in 1..n}

(* The turns ts under the head sys are the last of the answered runs ans,   *)
(* and the head tells of the earlier ones.                                  *)
Talk(ans, sys, ts) ==
  /\ ts \in Seq(WholeTurns) /\ Len(ts) <= Len(ans)
  /\ sys \in Heads(Earlier(ans, Len(ans) - Len(ts)))
  /\ \A k \in 1..Len(ts) : ts[k][1].run = ans[Len(ans) - Len(ts) + k]
  /\ Len(ts) < Len(ans) => Len(sys) = 2

LEMMA TalkGrows ==
  ASSUME NEW ans \in Seq(Nat), NEW sys, NEW ts, Talk(ans, sys, ts), NEW t \in WholeTurns
  PROVE  Talk(Append(ans, t[1].run), sys, Append(ts, t))
<1> DEFINE N == Len(ans)
           n == Len(ts)
           r == t[1].run
           a == Append(ans, r)
           us == Append(ts, t)
<1>1. /\ ts \in Seq(WholeTurns) /\ n <= N /\ sys \in Heads(Earlier(ans, N - n))
      /\ \A k \in 1..n : ts[k][1].run = ans[N - n + k]
      /\ n < N => Len(sys) = 2
  BY DEF Talk
<1>2. N \in Nat /\ n \in Nat
  BY <1>1, LenProperties
<1>3. r \in Nat
  BY WholeTurnProperties DEF TurnMessages
<1>4. a \in Seq(Nat) /\ Len(a) = N + 1 /\ a[N + 1] = r /\ \A i \in 1..N : a[i] = ans[i]
  BY <1>3, AppendProperties
<1>5. us \in Seq(WholeTurns) /\ Len(us) = n + 1 /\ us[n + 1] = t /\ \A i \in 1..n : us[i] = ts[i]
  BY <1>1, AppendProperties
<1> HIDE DEF N, n, a, us, r
<1>6. Len(us) <= Len(a) /\ Len(a) - Len(us) = N - n /\ (Len(us) < Len(a) <=> n < N)
  BY <1>1, <1>2, <1>4, <1>5
<1>7. Earlier(a, N - n) = Earlier(ans, N - n)
  <2>1. \A i \in 1..(N - n) : i \in 1..N
    BY <1>1, <1>2
  <2> QED
    BY <1>4, <2>1 DEF Earlier
<1>8. \A k \in 1..Len(us) : us[k][1].run = a[N - n + k]
  <2> TAKE k \in 1..Len(us)
  <2>1. CASE k \in 1..n
    <3>1. N - n + k \in 1..N
      BY <1>1, <1>2, <2>1
    <3> QED
      BY <1>1, <1>4, <1>5, <2>1, <3>1
  <2>2. CASE k \notin 1..n
    <3>1. k = n + 1 /\ N - n + k = N + 1
      BY <1>1, <1>2, <1>5, <2>2
    <3> QED
      BY <1>4, <1>5, <3>1 DEF r
  <2> QED
    BY <2>1, <2>2
<1>9. Talk(a, sys, us)
  BY <1>1, <1>5, <1>6, <1>7, <1>8 DEF Talk
<1> QED
  BY <1>9 DEF a, us, r

LEMMA TalkTrimmed ==
  ASSUME NEW ans \in Seq(Nat), NEW sys, NEW ts, Talk(ans, sys, ts), NEW n \in 0..Len(ts),
         NEW head \in Heads(Earlier(ans, Len(ans) - Len(ts)) \cup FirstRuns(ts, n)),
         n = 0 => head = sys, n > 0 => Len(head) = 2
  PROVE  Talk(ans, head, SubSeq(ts, n + 1, Len(ts)))
<1> DEFINE N == Len(ans)
           L == Len(ts)
           us == SubSeq(ts, n + 1, L)
<1>1. /\ ts \in Seq(WholeTurns) /\ L <= N
      /\ \A k \in 1..L : ts[k][1].run = ans[N - L + k]
      /\ L < N => Len(sys) = 2
  BY DEF Talk
<1>2. N \in Nat /\ L \in Nat /\ n \in Nat /\ n <= L
  BY <1>1, LenProperties
<1>3. us \in Seq(WholeTurns) /\ Len(us) = L - n /\ \A k \in 1..(L - n) : us[k] = ts[n + k]
  BY <1>1, PartsOfTurns
<1> HIDE DEF N, us, L
<1>4. Len(us) <= N /\ N - Len(us) = N - L + n /\ (Len(us) < N => n > 0 \/ (n = 0 /\ L < N))
  BY <1>1, <1>2, <1>3
<1>5. head \in Heads(Earlier(ans, N - Len(us)))
  <2>1. Earlier(ans, N - L) \subseteq Earlier(ans, N - L + n)
    <3>1. \A i \in 1..(N - L) : i \in 1..(N - L + n)
      BY <1>1, <1>2
    <3> QED
      BY <3>1 DEF Earlier
  <2>2. FirstRuns(ts, n) \subseteq Earlier(ans, N - L + n)
    <3> SUFFICES ASSUME NEW k \in 1..n PROVE ts[k][1].run \in Earlier(ans, N - L + n)
      BY DEF FirstRuns
    <3>1. k \in 1..L /\ N - L + k \in 1..(N - L + n)
      BY <1>1, <1>2
    <3> QED
      BY <1>1, <3>1 DEF Earlier
  <2>3. head \in Heads(Earlier(ans, N - L) \cup FirstRuns(ts, n))
    BY DEF N, L
  <2>4. head \in Heads(Earlier(ans, N - L + n))
    BY <2>1, <2>2, <2>3, HeadsGrow
  <2> QED
    BY <1>4, <2>4
<1>6. \A k \in 1..Len(us) : us[k][1].run = ans[N - Len(us) + k]
  <2> TAKE k \in 1..Len(us)
  <2>1. k \in 1..(L - n) /\ n + k \in 1..L /\ N - L + (n + k) = N - Len(us) + k
    BY <1>2, <1>3, <1>1
  <2>2. us[k] = ts[n + k] /\ ts[n + k][1].run = ans[N - L + (n + k)]
    BY <1>1, <1>3, <2>1
  <2> QED
    BY <2>1, <2>2
<1>7. Len(us) < N => Len(head) = 2
  BY <1>1, <1>4
<1>8. Talk(ans, head, us)
  BY <1>3, <1>4, <1>5, <1>6, <1>7 DEF Talk, N
<1> QED
  BY <1>8 DEF us, L

(* What a commit makes of a working copy whose last turn was answered: a    *)
(* list of the last answered runs within the cap, that turn as it was.      *)
CommitsTo(ans, t, h) ==
  \E head, us :
    /\ Talk(Append(ans, t[1].run), head, us)
    /\ h = JoinTurns(head, us)
    /\ us # <<>> /\ us[Len(us)] = t
    /\ MaxHistoryMessages > 0 => Len(h) <= MaxHistoryMessages \/ Len(us) = 1

LEMMA Committed ==
  ASSUME NEW ans \in Seq(Nat), NEW sys, NEW ts, Talk(ans, sys, ts), NEW t \in WholeTurns,
         NEW q \in WorkHeads(sys), NEW h \in CommitHistory(JoinTurns(q, Append(ts, t)))
  PROVE  CommitsTo(ans, t, h)
<1> DEFINE a == Append(ans, t[1].run)
           us == Append(ts, t)
           N == Len(us)
           R == Earlier(a, Len(a) - N)
<1>1. Talk(a, sys, us)
  BY TalkGrows
<1>2. a \in Seq(Nat)
  <2>1. t[1].run \in Nat
    BY WholeTurnProperties DEF TurnMessages
  <2> QED
    BY <2>1, AppendProperties
<1>3. ts \in Seq(WholeTurns)
  BY DEF Talk
<1>4. us \in Seq(WholeTurns) /\ us # <<>> /\ us[N] = t /\ N \in Nat /\ N # 0
  <2>1. us \in Seq(WholeTurns) /\ N = Len(ts) + 1 /\ us[Len(ts) + 1] = t /\ Len(ts) \in Nat
    BY <1>3, AppendProperties, LenProperties
  <2> HIDE DEF us, N
  <2>2. N \in Nat /\ N # 0
    BY <2>1
  <2> QED
    BY <2>1, <2>2, EmptySeq DEF N
<1> HIDE DEF us, a
<1>5. R \in SUBSET Nat /\ sys \in Heads(R) /\ N <= Len(a) /\ Len(a) \in Nat
  <2>1. N <= Len(a) /\ sys \in Heads(R) /\ Len(a) \in Nat
    BY <1>1, <1>2, LenProperties DEF Talk
  <2>2. \A i \in 1..(Len(a) - N) : i \in 1..Len(a)
    BY <1>4, <2>1
  <2>3. \A i \in 1..(Len(a) - N) : a[i] \in Nat
    BY <1>2, <2>2, ElementOfSeq
  <2> QED
    BY <2>1, <2>3 DEF Earlier
<1> HIDE DEF R, N
<1>6. sys \in Seq(Messages) /\ Users(sys) = {}
  BY <1>5, HeadProperties, SystemOnly
<1>7. Strip(JoinTurns(q, us), "profile") = JoinTurns(sys, us)
  <2>1. FlattenSeq(us) \in Seq(TurnMessages)
    BY <1>4, FlattenWhole
  <2> QED
    BY <1>5, <2>1, ProfileUpserted DEF JoinTurns
<1>8. PICK vs \in Seq(WholeTurns) :
        /\ FoldOldTurns(JoinTurns(sys, us)) = JoinTurns(sys, vs)
        /\ Len(vs) = N /\ vs[Len(vs)] = us[N]
        /\ \A k \in 1..N : vs[k][1].run = us[k][1].run
  BY <1>4, <1>6, Folded DEF N
<1>9. Talk(a, sys, vs)
  BY <1>1, <1>8 DEF Talk, N
<1>10. h \in TrimHistory(JoinTurns(sys, vs))
  BY <1>7, <1>8 DEF CommitHistory, us
<1>11. vs # <<>>
  BY <1>4, <1>8, EmptySeq
<1>12. TrimsTo(R, sys, vs, h)
  BY <1>5, <1>10, <1>11, Trimmed
<1>13. PICK n \in 0..(N - 1) : \E head \in Heads(R \cup FirstRuns(vs, n)) :
         /\ h = Without(head, vs, n)
         /\ n = 0 => head = sys
         /\ n > 0 => Len(head) = 2
         /\ MaxHistoryMessages > 0 => Len(h) <= MaxHistoryMessages \/ n = N - 1
  BY <1>8, <1>12 DEF TrimsTo
<1>14. PICK head \in Heads(R \cup FirstRuns(vs, n)) :
         /\ h = Without(head, vs, n)
         /\ n = 0 => head = sys
         /\ n > 0 => Len(head) = 2
         /\ MaxHistoryMessages > 0 => Len(h) <= MaxHistoryMessages \/ n = N - 1
  BY <1>13
<1> DEFINE ws == SubSeq(vs, n + 1, Len(vs))
<1>15. n \in 0..Len(vs) /\ n \in Nat /\ N - n \in 1..N
  BY <1>4, <1>8
<1>16. Talk(a, head, ws)
  BY <1>2, <1>8, <1>9, <1>14, <1>15, TalkTrimmed DEF R
<1>17. ws \in Seq(WholeTurns) /\ Len(ws) = N - n /\ ws[N - n] = t
  <2>1. /\ ws \in Seq(WholeTurns) /\ Len(ws) = Len(vs) - n
        /\ \A k \in 1..(Len(vs) - n) : ws[k] = vs[n + k]
    BY <1>15, PartsOfTurns
  <2>2. N - n \in 1..(N - n) /\ n + (N - n) = N
    BY <1>4, <1>15
  <2> HIDE DEF ws
  <2> QED
    BY <1>4, <1>8, <2>1, <2>2
<1> HIDE DEF ws
<1>18. ws # <<>> /\ (n = N - 1 => Len(ws) = 1)
  <2>1. N - n # 0 /\ (n = N - 1 => N - n = 1)
    BY <1>4, <1>15
  <2> QED
    BY <1>17, <2>1, EmptySeq
<1>19. h = JoinTurns(head, ws)
  BY <1>14 DEF Without, ws
<1>20. /\ Talk(a, head, ws) /\ h = JoinTurns(head, ws) /\ ws # <<>> /\ ws[Len(ws)] = t
       /\ MaxHistoryMessages > 0 => Len(h) <= MaxHistoryMessages \/ Len(ws) = 1
  BY <1>14, <1>16, <1>17, <1>18, <1>19
<1> QED
  BY <1>20 DEF CommitsTo, a

----------------------------------------------------------------------------
(* The batches *)

Steps == {"waiting", "entered", "asking", "running", "ended"}

(* A Run under way has a number and a turn, and calls exist only in a batch. *)
PhaseInv ==
  /\ phase # "idle" => run >= 1 /\ turn >= 1
  /\ phase \in {"chat", "batch"} => turn <= MaxTurns
  /\ phase # "batch" => calls = <<>>
  /\ answered \in Seq(Nat)

(* The result of a call that has ended is one that suits it: nothing of an  *)
(* earlier batch, and no slot that was never written.                       *)
ResultsInv == \A i \in DOMAIN calls : step[i] = "ended" => Suits(calls[i], out[i])

TypeInv ==
  /\ run \in 0..MaxRuns
  /\ phase \in {"idle", "top", "chat", "batch"}
  /\ turn \in 0..(MaxTurns + 1)
  /\ ctxDone \in BOOLEAN /\ profile \in BOOLEAN
  /\ calls \in Seq(Call) /\ Len(calls) <= MaxCalls
  /\ DOMAIN step = DOMAIN calls /\ DOMAIN out = DOMAIN calls
  /\ \A i \in DOMAIN calls : step[i] \in Steps /\ out[i] \in Contents \cup {"none"}

(* A call that is asked for or runs is of a tool there is. *)
CallInv == \A i \in DOMAIN calls : step[i] \in {"asking", "running"} => calls[i].tool # "unknown"

AnsweredInv == \A i \in DOMAIN answered : answered[i] \in 1..run

SlotsInv == Cardinality(Holding) <= Slots

IInv == TypeInv /\ PhaseInv /\ CallInv /\ ResultsInv /\ AnsweredInv /\ SlotsInv

----------------------------------------------------------------------------
(* The calls that hold a slot are finitely many. *)
LEMMA HoldingFinite == ASSUME TypeInv PROVE IsFiniteSet(Holding) /\ Cardinality(Holding) \in Nat
<1>1. Len(calls) \in Nat /\ DOMAIN calls = 1..Len(calls)
  BY DEF TypeInv
<1>2. IsFiniteSet(1..Len(calls))
  BY <1>1, FS_Interval
<1>3. Holding \subseteq 1..Len(calls)
  BY <1>1 DEF TypeInv, Holding
<1>4. IsFiniteSet(Holding)
  BY <1>2, <1>3, FS_Subset
<1> QED
  BY <1>4, FS_CardinalityType

(* What the goroutines leave alone *)
Rest == <<run, phase, turn, ctxDone, messages, calls, history, answered>>

(* A step of one goroutine that takes no slot, writing its result as it     *)
(* ends, keeps the invariant.                                               *)
LEMMA GoesOn ==
  ASSUME IInv, NEW i \in DOMAIN step, step[i] \in {"entered", "asking", "running"},
         UNCHANGED Rest, profile' \in BOOLEAN,
         NEW to \in {"asking", "running", "ended"}, to # "ended" => calls[i].tool # "unknown",
         step' = [step EXCEPT ![i] = to],
         NEW content \in Contents, to = "ended" => Suits(calls[i], content),
         out' = IF to = "ended" THEN [out EXCEPT ![i] = content] ELSE out
  PROVE IInv'
<1>1. TypeInv'
  BY DEF IInv, TypeInv, Rest, Steps
<1>2. PhaseInv' /\ AnsweredInv'
  BY DEF IInv, PhaseInv, AnsweredInv, Rest
<1>5. CallInv'
  BY DEF IInv, TypeInv, CallInv, Rest
<1>3. ResultsInv'
  BY DEF IInv, TypeInv, ResultsInv, Rest, Suits
<1>4. SlotsInv'
  <2>1. Holding' \subseteq Holding
    BY DEF Holding
  <2>2. IsFiniteSet(Holding) /\ Cardinality(Holding) \in Nat
    BY HoldingFinite DEF IInv
  <2>3. Cardinality(Holding') <= Cardinality(Holding)
    BY <2>1, <2>2, FS_Subset
  <2>4. Cardinality(Holding') \in Nat
    BY <2>1, <2>2, FS_Subset, FS_CardinalityType
  <2>5. Slots' = Slots
    BY DEF Slots, Rest
  <2>6. Slots \in Nat
    BY LoopAssumption DEF IInv, TypeInv, Slots
  <2> QED
    BY <2>2, <2>3, <2>4, <2>5, <2>6 DEF IInv, SlotsInv
<1> QED
  BY <1>1, <1>2, <1>3, <1>4, <1>5 DEF IInv

(* An Acquire takes one slot, and only a free one. *)
LEMMA AcquireInv == ASSUME IInv, NEW i \in DOMAIN step, Acquire(i) PROVE IInv'
<1>1. TypeInv'
  BY DEF IInv, TypeInv, Acquire, Goes, Steps
<1>2. PhaseInv' /\ AnsweredInv'
  BY DEF IInv, PhaseInv, AnsweredInv, Acquire, Goes
<1>5. CallInv'
  BY DEF IInv, TypeInv, CallInv, Acquire, Goes
<1>3. ResultsInv'
  BY DEF IInv, TypeInv, ResultsInv, Acquire, Goes, Suits
<1>4. SlotsInv'
  <2>1. Holding' = Holding \cup {i} /\ i \notin Holding
    BY DEF Holding, Acquire, Goes
  <2>2. IsFiniteSet(Holding) /\ Cardinality(Holding) \in Nat
    BY HoldingFinite DEF IInv
  <2>3. Cardinality(Holding') = Cardinality(Holding) + 1
    BY <2>1, <2>2, FS_AddElement
  <2>4. Slots' = Slots /\ Cardinality(Holding) < Slots
    BY DEF Slots, Acquire, Goes
  <2>5. Slots \in Nat
    BY LoopAssumption DEF IInv, TypeInv, Slots
  <2> QED
    BY <2>2, <2>3, <2>4, <2>5 DEF SlotsInv
<1> QED
  BY <1>1, <1>2, <1>3, <1>4, <1>5 DEF IInv

(* The other steps of a goroutine are steps of GoesOn. *)
LEMMA GoroutineInv == ASSUME IInv, NEW i \in DOMAIN step, Goroutine(i) PROVE IInv'
<1>1. CASE Acquire(i)
  BY <1>1, AcquireInv
<1>2. CASE step[i] \in {"entered", "asking", "running"} /\ (Enter(i) \/ Approval(i) \/ ToolReturns(i))
  <2>1. UNCHANGED Rest /\ profile' \in BOOLEAN
    BY <1>2 DEF Enter, Approval, ToolReturns, Goes, Ends, Rest, IInv, TypeInv
  <2>2. CASE \E to \in {"asking", "running"} : Goes(i, to)
    <3>1. PICK to \in {"asking", "running"} : Goes(i, to)
      BY <2>2
    <3>2. /\ step' = [step EXCEPT ![i] = to] /\ out' = out
          /\ calls[i].tool # "unknown"
      BY <1>2, <3>1 DEF Goes, Enter, Approval, ToolReturns, Ends, IInv, TypeInv, CallInv
    <3>3. "ok" \in Contents
      BY DEF Contents
    <3> QED
      BY <1>2, <2>1, <3>2, <3>3, GoesOn
  <2>3. CASE \E content \in Contents : Ends(i, content) /\ Suits(calls[i], content)
    <3>1. PICK content \in Contents : Ends(i, content) /\ Suits(calls[i], content)
      BY <2>3
    <3>2. step' = [step EXCEPT ![i] = "ended"] /\ out' = [out EXCEPT ![i] = content]
      BY <3>1 DEF Ends
    <3> QED
      BY <1>2, <2>1, <3>1, <3>2, GoesOn
  <2>4. "error" \in Contents /\ Suits(calls[i], "error")
    BY DEF Contents, Suits
  <2>5. CASE Enter(i)
    BY <2>2, <2>3, <2>4, <2>5 DEF Enter
  <2>6. CASE Approval(i)
    BY <2>2, <2>3, <2>4, <2>6 DEF Approval
  <2>7. CASE ToolReturns(i)
    <3>1. step[i] = "running" /\ i \in DOMAIN calls
      BY <2>7 DEF ToolReturns, IInv, TypeInv
    <3>2. \A content \in {"ok", "error"} : content \in Contents /\ Suits(calls[i], content)
      BY <3>1 DEF IInv, CallInv, Contents, Suits
    <3> QED
      BY <2>3, <2>7, <3>2 DEF ToolReturns
  <2> QED
    BY <1>2, <2>5, <2>6, <2>7
<1> QED
  BY <1>1, <1>2 DEF Goroutine, Enter, Approval, ToolReturns
----------------------------------------------------------------------------
(* The bound on slots where no goroutine holds one *)
LEMMA NoSlots == ASSUME TypeInv, Holding = {} PROVE SlotsInv
<1>1. Cardinality(Holding) = 0
  BY FS_EmptySet
<1>2. Slots \in Nat
  BY LoopAssumption DEF TypeInv, Slots
<1> QED
  BY <1>1, <1>2 DEF SlotsInv

(* What holds of no calls *)
LEMMA NoCalls == ASSUME TypeInv, calls = <<>> PROVE CallInv /\ ResultsInv /\ SlotsInv
<1>1. DOMAIN calls = {} /\ DOMAIN step = {}
  BY DEF TypeInv
<1>2. Holding = {}
  BY <1>1 DEF Holding
<1> QED
  BY <1>1, <1>2, NoSlots DEF CallInv, ResultsInv

LEMMA InitInv == Init => IInv
<1> SUFFICES ASSUME Init PROVE IInv
  OBVIOUS
<1>1. TypeInv
  <2>1. run \in 0..MaxRuns /\ turn \in 0..(MaxTurns + 1)
    BY LoopAssumption DEF Init
  <2>2. calls \in Seq(Call) /\ Len(calls) <= MaxCalls /\ DOMAIN calls = {}
    BY LoopAssumption DEF Init
  <2> QED
    BY <2>1, <2>2 DEF Init, TypeInv
<1>2. PhaseInv /\ AnsweredInv
  BY DEF Init, PhaseInv, AnsweredInv
<1>3. calls = <<>>
  BY DEF Init
<1> QED
  BY <1>1, <1>2, <1>3, NoCalls DEF IInv

(* A step of the loop that leaves the calls alone, which are none *)
LEMMA NoBatch ==
  ASSUME IInv, UNCHANGED batch, calls = <<>>, TypeInv', PhaseInv', AnsweredInv'
  PROVE IInv'
<1>1. DOMAIN calls' = {} /\ DOMAIN step' = {}
  BY DEF IInv, TypeInv, batch
<1>2. CallInv' /\ ResultsInv'
  BY <1>1 DEF CallInv, ResultsInv
<1>3. Holding' = {}
  BY <1>1 DEF Holding
<1>4. Cardinality(Holding') = 0
  BY <1>3, FS_EmptySet
<1>5. Slots' \in Nat
  BY LoopAssumption DEF TypeInv, Slots
<1> QED
  BY <1>2, <1>4, <1>5 DEF IInv, SlotsInv

LEMMA NextInv == IInv /\ [Next]_vars => IInv'
<1> SUFFICES ASSUME IInv, [Next]_vars PROVE IInv'
  OBVIOUS
<1>1. CASE BeginRun
  <2>1. run' \in 1..MaxRuns /\ run < run' /\ turn' \in 1..(MaxTurns + 1) /\ phase' = "top"
    BY <1>1, LoopAssumption DEF BeginRun, IInv, TypeInv
  <2>2. UNCHANGED <<batch, profile, answered>> /\ ctxDone' = FALSE /\ calls = <<>>
    BY <1>1 DEF BeginRun, IInv, PhaseInv
  <2>3. TypeInv'
    <3>1. /\ run' \in 0..MaxRuns /\ turn' \in 0..(MaxTurns + 1)
          /\ phase' \in {"idle", "top", "chat", "batch"}
      BY <2>1, LoopAssumption
    <3>2. ctxDone' \in BOOLEAN /\ profile' \in BOOLEAN
      BY <2>2 DEF IInv, TypeInv
    <3>3. UNCHANGED <<calls, step, out>>
      BY <2>2 DEF batch
    <3> QED
      BY <3>1, <3>2, <3>3 DEF IInv, TypeInv
  <2>4. PhaseInv' /\ AnsweredInv'
    BY <2>1, <2>2 DEF IInv, TypeInv, PhaseInv, AnsweredInv, batch
  <2> QED
    BY <2>2, <2>3, <2>4, NoBatch
<1>2. CASE ContextEnds
  <2>1. UNCHANGED <<run, phase, turn, batch, profile, answered>> /\ ctxDone' \in BOOLEAN
    BY <1>2 DEF ContextEnds
  <2>2. TypeInv' /\ PhaseInv' /\ AnsweredInv'
    BY <2>1 DEF IInv, TypeInv, PhaseInv, AnsweredInv, batch
  <2>3. CallInv' /\ ResultsInv' /\ Holding' = Holding /\ Slots' = Slots
    BY <2>1 DEF IInv, CallInv, ResultsInv, Holding, Slots, batch
  <2> QED
    BY <2>2, <2>3 DEF IInv, SlotsInv
<1>3. CASE Reset
  <2>1. TypeInv' /\ PhaseInv' /\ AnsweredInv'
    BY <1>3 DEF Reset, IInv, TypeInv, PhaseInv, AnsweredInv, batch
  <2> QED
    BY <1>3, <2>1, NoBatch DEF Reset, IInv, PhaseInv
<1>4. CASE TopFails \/ ChatFails
  <2>1. TypeInv' /\ PhaseInv' /\ AnsweredInv'
    BY <1>4 DEF TopFails, ChatFails, GiveUp, IInv, TypeInv, PhaseInv, AnsweredInv, batch
  <2> QED
    BY <1>4, <2>1, NoBatch DEF TopFails, ChatFails, GiveUp, IInv, PhaseInv
<1>5. CASE TopAsks
  <2>1. TypeInv' /\ PhaseInv' /\ AnsweredInv'
    BY <1>5 DEF TopAsks, IInv, TypeInv, PhaseInv, AnsweredInv, batch
  <2> QED
    BY <1>5, <2>1, NoBatch DEF TopAsks, IInv, PhaseInv
<1>6. CASE ChatAnswers
  <2>1. UNCHANGED <<run, turn, ctxDone, batch, profile>> /\ phase' = "idle"
    BY <1>6 DEF ChatAnswers
  <2>2. answered' = Append(answered, run) /\ run \in 1..run /\ calls = <<>>
    BY <1>6 DEF ChatAnswers, IInv, TypeInv, PhaseInv
  <2>3. TypeInv'
    BY <2>1 DEF IInv, TypeInv, batch
  <2>4. PhaseInv' /\ AnsweredInv'
    BY <2>1, <2>2 DEF IInv, PhaseInv, AnsweredInv, batch
  <2> QED
    BY <2>1, <2>2, <2>3, <2>4, NoBatch
<1>7. CASE ChatCalls
  <2>1. PICK n \in 1..MaxCalls : \E tool \in [1..n -> Tools] :
          calls' = [i \in 1..n |-> [turn |-> turn, slot |-> i, tool |-> tool[i]]]
    BY <1>7 DEF ChatCalls
  <2>2. PICK tool \in [1..n -> Tools] :
          calls' = [i \in 1..n |-> [turn |-> turn, slot |-> i, tool |-> tool[i]]]
    BY <2>1
  <2>3. turn \in 1..MaxTurns
    BY <1>7 DEF ChatCalls, IInv, TypeInv, PhaseInv
  <2>4. \A i \in 1..n : [turn |-> turn, slot |-> i, tool |-> tool[i]] \in Call
    BY <2>2, <2>3, LoopAssumption DEF Call
  <2>5. calls' \in Seq(Call) /\ Len(calls') = n /\ DOMAIN calls' = 1..n
    BY <2>2, <2>4, LoopAssumption
  <2>6. step' = [i \in 1..n |-> "waiting"] /\ out' = [i \in 1..n |-> "none"]
    BY <1>7, <2>5 DEF ChatCalls
  <2>7. TypeInv'
    BY <1>7, <2>5, <2>6, LoopAssumption DEF ChatCalls, IInv, TypeInv, Steps
  <2>8. PhaseInv' /\ AnsweredInv'
    BY <1>7, <2>3 DEF ChatCalls, IInv, PhaseInv, AnsweredInv
  <2>9. CallInv' /\ ResultsInv' /\ Holding' = {}
    BY <2>5, <2>6 DEF CallInv, ResultsInv, Holding
  <2>10. Cardinality(Holding') = 0
    BY <2>9, FS_EmptySet
  <2>11. Slots' \in Nat
    BY <2>7, LoopAssumption DEF TypeInv, Slots
  <2> QED
    BY <2>7, <2>8, <2>9, <2>10, <2>11 DEF IInv, SlotsInv
<1>8. CASE Join
  <2>1. calls' = <<>> /\ step' = <<>> /\ out' = <<>>
    BY <1>8 DEF Join
  <2>2. TypeInv' /\ PhaseInv' /\ AnsweredInv'
    BY <1>8, <2>1, LoopAssumption DEF Join, IInv, TypeInv, PhaseInv, AnsweredInv
  <2>3. DOMAIN calls' = {} /\ DOMAIN step' = {}
    BY <2>1
  <2>4. CallInv' /\ ResultsInv' /\ Holding' = {}
    BY <2>3 DEF CallInv, ResultsInv, Holding
  <2>5. Cardinality(Holding') = 0
    BY <2>4, FS_EmptySet
  <2>6. Slots' \in Nat
    BY <2>2, LoopAssumption DEF TypeInv, Slots
  <2> QED
    BY <2>2, <2>4, <2>5, <2>6 DEF IInv, SlotsInv
<1>9. CASE \E i \in DOMAIN step : Goroutine(i)
  BY <1>9, GoroutineInv
<1>10. CASE UNCHANGED vars
  <2>1. UNCHANGED <<run, phase, turn, ctxDone, calls, step, out, profile, answered>>
    BY <1>10 DEF vars, batch
  <2>2. TypeInv' /\ PhaseInv' /\ AnsweredInv'
    BY <2>1 DEF IInv, TypeInv, PhaseInv, AnsweredInv
  <2>3. CallInv' /\ ResultsInv' /\ Holding' = Holding /\ Slots' = Slots
    BY <2>1 DEF IInv, CallInv, ResultsInv, Holding, Slots
  <2> QED
    BY <2>2, <2>3 DEF IInv, SlotsInv
<1> QED
  BY <1>1, <1>2, <1>3, <1>4, <1>5, <1>6, <1>7, <1>8, <1>9, <1>10 DEF Next, Progress, Loop

----------------------------------------------------------------------------
(* The inductive invariant of the batches holds in every reachable state. *)
THEOREM Invariance == Spec => []IInv
<1>1. Init => IInv
  BY InitInv
<1>2. IInv /\ [Next]_vars => IInv'
  BY NextInv
<1> QED
  BY <1>1, <1>2, PTL DEF Spec

(* Types, and never more calls at work than there are slots, for every      *)
(* limit and every number of calls.                                         *)
THEOREM LoopTypeCorrect == Spec => []LoopTypeOK
<1>1. IInv => LoopTypeOK
  BY DEF IInv, TypeInv, AnsweredInv, SlotsInv, LoopTypeOK, Steps
<1> QED
  BY <1>1, Invariance, PTL

(* What the loop appends when all calls have ended: one result for each     *)
(* call, in the order of the calls, written in this batch and suiting it.   *)
JoinComplete == phase = "batch" /\ AllEnded =>
  /\ DOMAIN Results = DOMAIN calls
  /\ \A i \in DOMAIN calls :
       /\ Results[i].role = "tool" /\ Results[i].body[1] = calls[i]
       /\ Suits(calls[i], Results[i].body[2])

THEOREM BatchIsComplete == Spec => []JoinComplete
<1>1. IInv => JoinComplete
  BY DEF IInv, TypeInv, ResultsInv, JoinComplete, AllEnded, Ended, Results, Message
<1> QED
  BY <1>1, Invariance, PTL

(* While a call of a batch has not ended, one that has a slot can go on, or *)
(* there is a slot for one that waits.                                      *)
BatchGoesOn == phase = "batch" /\ ~AllEnded =>
  \E i \in DOMAIN step :
    \/ step[i] \in {"entered", "asking", "running"}
    \/ step[i] = "waiting" /\ Cardinality(Holding) < Slots

(* The semaphore never has all calls of a batch wait for each other.        *)
THEOREM BatchNeverStuck == Spec => []BatchGoesOn
<1>1. IInv => BatchGoesOn
  <2> SUFFICES ASSUME IInv, NEW i \in DOMAIN step, step[i] # "ended"
               PROVE  \E j \in DOMAIN step :
                        \/ step[j] \in {"entered", "asking", "running"}
                        \/ step[j] = "waiting" /\ Cardinality(Holding) < Slots
    BY DEF BatchGoesOn, AllEnded, Ended
  <2>1. step[i] \in Steps \ {"ended"} /\ i \in DOMAIN calls /\ calls \in Seq(Call)
    BY DEF IInv, TypeInv
  <2>2. CASE step[i] # "waiting"
    BY <2>1, <2>2 DEF Steps
  <2>3. CASE step[i] = "waiting" /\ Holding = {}
    <3>1. Len(calls) \in Nat \ {0}
      BY <2>1, LenProperties
    <3>2. Slots \in Nat \ {0}
      BY <3>1, LoopAssumption DEF Slots
    <3>3. Cardinality(Holding) = 0
      BY <2>3, FS_EmptySet
    <3> QED
      BY <2>3, <3>2, <3>3
  <2>4. CASE Holding # {}
    BY <2>4 DEF Holding
  <2> QED
    BY <2>2, <2>3, <2>4
<1> QED
  BY <1>1, Invariance, PTL

----------------------------------------------------------------------------
(* The conversation: what history and messages are made of                  *)

(* Runs are answered in the order they began in, and the one under way has  *)
(* not been.                                                                *)
OrderInv ==
  /\ \A i, j \in 1..Len(answered) : i < j => answered[i] < answered[j]
  /\ phase # "idle" => \A i \in 1..Len(answered) : answered[i] < run

(* The history is a list of the last answered runs within the cap; with     *)
(* none, what a Run begins with is the system prompt.                       *)
Past(sys, ts) ==
  /\ Talk(answered, sys, ts)
  /\ IF history = <<>> THEN sys = <<SystemPrompt>> /\ ts = <<>>
     ELSE history = JoinTurns(sys, ts) /\ ts # <<>>
  /\ MaxHistoryMessages > 0 => Len(history) <= MaxHistoryMessages \/ Len(ts) = 1

(* The turn under way; in a batch its last calls have no results yet.       *)
Current(cur) ==
  /\ \A i \in 1..Len(cur) : cur[i].run = run
  /\ phase # "batch" => CallsAnswered(cur)
  /\ phase = "batch" => \E begun \in TurnsOf(TurnMessages) :
       CallsAnswered(begun) /\ cur = Append(begun, Message("assistant", run, calls))

(* A working copy is the history, a fresh profile block and that turn.      *)
Working(sys, ts) ==
  \E q \in WorkHeads(sys) : \E cur \in TurnsOf(TurnMessages) :
    messages = JoinTurns(q, Append(ts, cur)) /\ Current(cur)

ConversationInv == \E sys, ts : Past(sys, ts) /\ (phase # "idle" => Working(sys, ts))

(* Joining by name: the provers lose their way in a term of four joins.     *)
Joined(a, b, c) == a \o (b \o c)
With(a, b) == a \o b

LEMMA JoinedOn ==
  ASSUME NEW a \in Seq(Messages), NEW b \in Seq(Messages),
         NEW c \in Seq(Messages), NEW d \in Seq(Messages)
  PROVE  With(Joined(a, b, c), d) = Joined(a, b, With(c, d))
<1> DEFINE bc == b \o c
           cd == c \o d
<1>1. bc \in Seq(Messages)
  BY ConcatProperties
<1>2. bc \o d = b \o cd
  BY ConcatAssociative
<1> HIDE DEF bc
<1>3. (a \o bc) \o d = a \o (bc \o d)
  BY <1>1, ConcatAssociative, SMTT(30)
<1> HIDE DEF cd
<1>4. (a \o bc) \o d = a \o (b \o cd)
  BY <1>2, <1>3
<1> QED
  BY <1>4 DEF Joined, With, bc, cd

(* What is appended to a list belongs to its last turn.                     *)
LEMMA JoinExtended ==
  ASSUME NEW q \in Seq(SystemMessages), NEW ts \in Seq(WholeTurns),
         NEW cur \in Seq(TurnMessages), NEW x \in Seq(TurnMessages)
  PROVE  /\ JoinTurns(q, Append(ts, cur)) \o x = JoinTurns(q, Append(ts, cur \o x))
         /\ JoinTurns(q, ts) \o x = JoinTurns(q, Append(ts, x))
         /\ FlattenSeq(Append(ts, cur)) \in Seq(TurnMessages)
         /\ JoinTurns(q, Append(ts, cur)) \in Seq(Messages)
<1> DEFINE F == FlattenSeq(ts)
<1>1. ts \in Seq(Seq(TurnMessages)) /\ F \in Seq(TurnMessages)
  <2>1. WholeTurns \subseteq Seq(TurnMessages)
    BY DEF WholeTurns, TurnsOf
  <2> QED
    BY <2>1, SeqMonotonic, FlattenWhole
<1>2. \A t \in Seq(TurnMessages) : FlattenSeq(Append(ts, t)) = F \o t
  BY <1>1, FlattenProperties
<1>3. /\ q \in Seq(Messages) /\ F \in Seq(Messages) /\ cur \in Seq(Messages)
      /\ x \in Seq(Messages)
  BY <1>1, SeqMonotonic, SystemIsTyped
<1>4. F \o cur \in Seq(TurnMessages) /\ cur \o x \in Seq(TurnMessages) /\ F \o cur \in Seq(Messages)
  BY <1>1, <1>3, ConcatProperties
<1> HIDE DEF F
<1>5. With(Joined(q, F, cur), x) = Joined(q, F, With(cur, x))
  BY <1>3, JoinedOn
<1>6. (q \o F) \o x = q \o (F \o x)
  BY <1>3, ConcatAssociative, SMTT(30)
<1>7. q \o (F \o cur) \in Seq(Messages)
  BY <1>3, <1>4, ConcatProperties
<1>8. /\ JoinTurns(q, Append(ts, cur)) = Joined(q, F, cur)
      /\ JoinTurns(q, Append(ts, With(cur, x))) = Joined(q, F, With(cur, x))
  BY <1>2, <1>4 DEF JoinTurns, Joined, With
<1>9. JoinTurns(q, ts) \o x = JoinTurns(q, Append(ts, x))
  BY <1>2, <1>6 DEF JoinTurns, F
<1>10. With(JoinTurns(q, Append(ts, cur)), x) = JoinTurns(q, Append(ts, With(cur, x)))
  BY <1>5, <1>8
<1> QED
  BY <1>2, <1>4, <1>7, <1>8, <1>9, <1>10 DEF Joined, With

(* A turn goes on with messages that are not a user's.                      *)
OfRun(msgs, r) == \A i \in 1..Len(msgs) : msgs[i].run = r
Replies(msgs) == \A i \in 1..Len(msgs) : ~IsUser(msgs[i])

LEMMA TurnGrows ==
  ASSUME NEW t \in TurnsOf(TurnMessages), NEW x \in Seq(TurnMessages), Replies(x),
         NEW r, OfRun(t, r), OfRun(x, r)
  PROVE  t \o x \in TurnsOf(TurnMessages) /\ OfRun(t \o x, r)
<1> USE DEF OfRun, Replies
<1> DEFINE T == TurnMessages
           s == t \o x
           n == Len(t)
           k == Len(x)
<1>1. t \in Seq(T) /\ t # <<>> /\ IsUser(t[1]) /\ \A i \in 2..n : ~IsUser(t[i])
  BY DEF TurnsOf, IsTurn
<1>2. n \in Nat /\ n # 0 /\ k \in Nat
  BY <1>1, EmptySeq, LenProperties
<1>3. s \in Seq(T) /\ Len(s) = n + k /\ \A i \in 1..(n + k) : s[i] = IF i <= n THEN t[i] ELSE x[i - n]
  BY <1>1, ConcatProperties
<1> HIDE DEF s, n, k
<1>4. \A i \in 1..(n + k) : IF i \in 1..n THEN s[i] = t[i] ELSE \E j \in 1..k : s[i] = x[j]
  <2> TAKE i \in 1..(n + k)
  <2>1. i \in 1..n <=> i <= n
    BY <1>2
  <2>2. ~(i <= n) => i - n \in 1..k
    BY <1>2
  <2> QED
    BY <1>3, <2>1, <2>2
<1>5. s # <<>> /\ s[1] = t[1]
  <2>1. n + k # 0 /\ 1 \in 1..(n + k) /\ 1 \in 1..n
    BY <1>2
  <2>2. s[1] = t[1]
    BY <1>4, <2>1
  <2> QED
    BY <1>3, <2>1, <2>2, EmptySeq
<1>6. \A i \in 2..(n + k) : ~IsUser(s[i])
  <2> TAKE i \in 2..(n + k)
  <2>1. i \in 1..(n + k) /\ (i \in 1..n => i \in 2..n)
    BY <1>2
  <2>2. CASE i \in 1..n
    BY <1>1, <1>4, <2>1, <2>2
  <2>3. CASE i \notin 1..n
    <3>1. PICK j \in 1..k : s[i] = x[j]
      BY <1>4, <2>1, <2>3
    <3> QED
      BY <3>1 DEF k
  <2> QED
    BY <2>2, <2>3
<1>7. \A i \in 1..(n + k) : s[i].run = r
  <2> TAKE i \in 1..(n + k)
  <2>1. CASE i \in 1..n
    BY <1>4, <2>1 DEF n
  <2>2. CASE i \notin 1..n
    <3>1. PICK j \in 1..k : s[i] = x[j]
      BY <1>4, <2>2
    <3> QED
      BY <3>1 DEF k
  <2> QED
    BY <2>1, <2>2
<1>8. s \in TurnsOf(T) /\ \A i \in 1..Len(s) : s[i].run = r
  BY <1>1, <1>3, <1>5, <1>6, <1>7 DEF TurnsOf, IsTurn
<1> QED
  BY <1>8 DEF s

(* An answer's calls and their results, one after the other *)
LEMMA BatchAnswered ==
  ASSUME IInv, phase = "batch", AllEnded
  PROVE  /\ Results \in Seq(TurnMessages)
         /\ OfRun(Results, run) /\ Replies(Results)
         /\ <<Message("assistant", run, calls)>> \o Results \in Seq(TurnMessages)
         /\ CallsAnswered(<<Message("assistant", run, calls)>> \o Results)
<1> DEFINE n == Len(calls)
           a == Message("assistant", run, calls)
           h == <<a>>
           b == h \o Results
<1>1. /\ calls \in Seq(Call) /\ n \in Nat /\ DOMAIN calls = 1..n
      /\ \A i \in 1..n : calls[i] \in Call
      /\ run \in Nat
  BY LoopAssumption, LenProperties, ElementOfSeq DEF IInv, TypeInv
<1>2. \A i \in 1..n : Suits(calls[i], out[i]) /\ out[i] \in Contents
  BY <1>1 DEF IInv, TypeInv, ResultsInv, AllEnded, Ended, Suits
<1> HIDE DEF n
<1>3. Results = [i \in 1..n |-> Message("tool", run, <<calls[i], out[i]>>)]
  BY <1>1 DEF Results
<1>4. \A i \in 1..n : Message("tool", run, <<calls[i], out[i]>>) \in TurnMessages
  BY <1>1, <1>2 DEF Message, TurnMessages, TurnRoles, TurnBodies
<1>5. Results \in Seq(TurnMessages) /\ Len(Results) = n
  BY <1>1, <1>3, <1>4
<1>6. \A i \in 1..n : /\ Results[i].role = "tool" /\ Results[i].run = run
                      /\ Results[i].body[1] = calls[i] /\ Suits(calls[i], Results[i].body[2])
  BY <1>2, <1>3 DEF Message
<1>7. a \in TurnMessages /\ a.role = "assistant" /\ a.run = run /\ a.body = calls
  BY <1>1 DEF Message, TurnMessages, TurnRoles, TurnBodies
<1> HIDE DEF a
<1>8. h \in Seq(TurnMessages) /\ Len(h) = 1 /\ h[1] = a
  BY <1>7
<1> HIDE DEF h
<1>9. /\ b \in Seq(TurnMessages) /\ Len(b) = n + 1
      /\ \A i \in 1..(n + 1) : b[i] = IF i <= 1 THEN h[i] ELSE Results[i - 1]
  <2>1. /\ b \in Seq(TurnMessages) /\ Len(b) = 1 + n
        /\ \A i \in 1..(1 + n) : b[i] = IF i <= 1 THEN h[i] ELSE Results[i - 1]
    <3>1. /\ b \in Seq(TurnMessages) /\ Len(b) = Len(h) + Len(Results)
          /\ \A i \in 1..Len(h) + Len(Results) :
               b[i] = IF i <= Len(h) THEN h[i] ELSE Results[i - Len(h)]
      BY <1>5, <1>8, ConcatProperties, Zenon
    <3> HIDE DEF b
    <3> QED
      BY <1>5, <1>8, <3>1
  <2>2. 1 + n = n + 1
    BY <1>1
  <2> QED
    BY <2>1, <2>2
<1> HIDE DEF b
<1>10. /\ DOMAIN b = 1..(n + 1) /\ b[1] = a
       /\ \A k \in 1..n : 1 + k \in 1..(n + 1) /\ b[1 + k] = Results[k]
  <2>1. 1 \in 1..(n + 1) /\ 1 <= 1
    BY <1>1
  <2>2. \A k \in 1..n : 1 + k \in 1..(n + 1) /\ ~(1 + k <= 1) /\ 1 + k - 1 = k
    BY <1>1
  <2> QED
    BY <1>8, <1>9, <2>1, <2>2, LenProperties
<1>11. \A i \in DOMAIN b : i = 1 \/ (i - 1 \in 1..n /\ i = 1 + (i - 1))
  BY <1>1, <1>10
<1>12. ASSUME NEW i \in DOMAIN b, b[i].role = "assistant", NEW k \in DOMAIN b[i].body
       PROVE  /\ i + k \in DOMAIN b
              /\ b[i + k].role = "tool"
              /\ b[i + k].run = b[i].run
              /\ b[i + k].body[1] = b[i].body[k]
              /\ Suits(b[i].body[k], b[i + k].body[2])
  <2>1. i = 1
    <3> SUFFICES ASSUME i # 1 PROVE FALSE
      OBVIOUS
    <3>1. b[i] = Results[i - 1] /\ i - 1 \in 1..n
      BY <1>10, <1>11
    <3> QED
      BY <1>6, <1>12, <3>1
  <2>2. b[i] = a /\ k \in 1..n
    BY <1>1, <1>7, <1>10, <1>12, <2>1
  <2>3. i + k \in DOMAIN b /\ b[i + k] = Results[k]
    BY <1>10, <2>1, <2>2
  <2> QED
    BY <1>6, <1>7, <2>2, <2>3
<1>13. ASSUME NEW i \in DOMAIN b, b[i].role = "tool"
       PROVE  \E j \in 1..(i - 1) : b[j].role = "assistant" /\ i - j \in DOMAIN b[j].body
  <2>1. i # 1
    BY <1>7, <1>10, <1>13
  <2>2. i - 1 \in 1..n /\ 1 \in 1..(i - 1)
    BY <1>1, <1>11, <2>1
  <2>3. b[1].role = "assistant" /\ i - 1 \in DOMAIN b[1].body
    BY <1>1, <1>7, <1>10, <2>2
  <2> QED
    BY <2>2, <2>3
<1>14. CallsAnswered(b)
  BY <1>12, <1>13, Zenon DEF CallsAnswered
<1>15. OfRun(Results, run) /\ Replies(Results)
  BY <1>5, <1>6 DEF IsUser, OfRun, Replies
<1> QED
  BY <1>5, <1>9, <1>14, <1>15 DEF b, h, a

(* The runs, the head and the turns of a talk are what their types say.     *)
LEMMA TalkProperties ==
  ASSUME NEW ans \in Seq(Nat), NEW sys, NEW ts, Talk(ans, sys, ts)
  PROVE  /\ \E R \in SUBSET Nat : sys \in Heads(R)
         /\ ts \in Seq(WholeTurns) /\ FlattenSeq(ts) \in Seq(TurnMessages)
         /\ sys \in Seq(SystemMessages) /\ sys \in Seq(Messages) /\ Users(sys) = {}
         /\ \A q \in WorkHeads(sys) : q \in Seq(SystemMessages) /\ q \in Seq(Messages)
         /\ sys \in WorkHeads(sys) /\ sys \o <<ProfileBlock>> \in WorkHeads(sys)
         /\ JoinTurns(sys, ts) # <<>>
<1> DEFINE N == Len(ans)
           R == Earlier(ans, N - Len(ts))
<1>1. ts \in Seq(WholeTurns) /\ Len(ts) <= N /\ sys \in Heads(R)
  BY DEF Talk
<1>2. R \in SUBSET Nat
  <2>1. N \in Nat /\ Len(ts) \in Nat
    BY <1>1, LenProperties
  <2> HIDE DEF N
  <2>2. \A i \in 1..(N - Len(ts)) : i \in 1..N
    BY <1>1, <2>1
  <2>3. \A i \in 1..(N - Len(ts)) : ans[i] \in Nat
    BY <2>2, ElementOfSeq DEF N
  <2> QED
    BY <2>3 DEF Earlier
<1> HIDE DEF R
<1>3. sys \in Seq(SystemMessages) /\ sys \in Seq(Messages) /\ Users(sys) = {}
  BY <1>1, <1>2, HeadProperties, SystemOnly
<1>4. \A q \in WorkHeads(sys) : q \in Seq(SystemMessages) /\ q \in Seq(Messages)
  BY <1>1, <1>2, WorkHeadProperties, SystemOnly
<1>5. sys \in WorkHeads(sys) /\ sys \o <<ProfileBlock>> \in WorkHeads(sys)
  BY DEF WorkHeads
<1>6. JoinTurns(sys, ts) # <<>>
  <2>1. Len(JoinTurns(sys, ts)) = Len(sys) + Len(FlattenSeq(ts)) /\ JoinTurns(sys, ts) \in Seq(Messages)
    BY <1>1, <1>3, JoinedWhole
  <2>2. Len(sys) \in {1, 2} /\ Len(FlattenSeq(ts)) \in Nat
    BY <1>1, <1>2, HeadProperties, FlattenWhole, LenProperties
  <2>3. \A n \in {1, 2}, k \in Nat : n + k # 0
    OBVIOUS
  <2>4. Len(JoinTurns(sys, ts)) # 0
    BY <2>1, <2>2, <2>3, Zenon
  <2> QED
    BY <2>4, EmptySeq
<1> QED
  BY <1>1, <1>2, <1>3, <1>4, <1>5, <1>6, FlattenWhole

(* A refreshed profile block makes another working copy.                    *)
LEMMA Refreshed ==
  ASSUME NEW ans \in Seq(Nat), NEW sys, NEW ts, Talk(ans, sys, ts),
         NEW q \in WorkHeads(sys), NEW rest \in Seq(TurnMessages), NEW known \in BOOLEAN
  PROVE  \E p \in WorkHeads(sys) : UpsertProfile(q \o rest, known) = p \o rest
<1>1. PICK R \in SUBSET Nat : sys \in Heads(R)
  BY TalkProperties
<1>2. UpsertProfile(q \o rest, known) = (IF known THEN sys \o <<ProfileBlock>> ELSE sys) \o rest
  BY <1>1, ProfileUpserted
<1> QED
  BY <1>2, TalkProperties

LEMMA PastKept ==
  ASSUME NEW sys, NEW ts, Past(sys, ts), UNCHANGED <<history, answered>>
  PROVE  Past(sys, ts)'
BY DEF Past

ConvInv == OrderInv /\ ConversationInv

(* Nothing answered, nothing kept *)
LEMMA NothingPast ==
  /\ Talk(<<>>, <<SystemPrompt>>, <<>>)
  /\ history = <<>> /\ answered = <<>> => Past(<<SystemPrompt>>, <<>>)
<1>1. <<>> \in Seq(WholeTurns) /\ Len(<<>>) = 0
  BY EmptySeq
<1>2. Talk(<<>>, <<SystemPrompt>>, <<>>)
  BY <1>1 DEF Talk, Heads
<1>3. MaxHistoryMessages > 0 => 0 <= MaxHistoryMessages
  BY HistoryAssumption
<1> QED
  BY <1>1, <1>2, <1>3 DEF Past

LEMMA InitConv == Init => ConvInv
<1> SUFFICES ASSUME Init PROVE ConvInv
  OBVIOUS
<1>1. Past(<<SystemPrompt>>, <<>>) /\ phase = "idle"
  BY NothingPast DEF Init
<1>2. ConversationInv
  BY <1>1 DEF ConversationInv
<1>3. Len(answered) = 0 /\ 1..0 = {}
  BY DEF Init
<1>4. OrderInv
  BY <1>1, <1>3 DEF OrderInv
<1> QED
  BY <1>2, <1>4 DEF ConvInv

(* Steps that leave the lists alone *)
LEMMA ConversationKept ==
  ASSUME ConversationInv, UNCHANGED <<run, phase, messages, calls, history, answered>>
  PROVE  ConversationInv'
<1>1. PICK sys : \E ts : Past(sys, ts) /\ (phase # "idle" => Working(sys, ts))
  BY DEF ConversationInv
<1>2. PICK ts : Past(sys, ts) /\ (phase # "idle" => Working(sys, ts))
  BY <1>1
<1>3. Past(sys, ts)'
  BY <1>2, PastKept
<1>4. phase' # "idle" => Working(sys, ts)'
  BY <1>2 DEF Working, Current
<1> QED
  BY <1>3, <1>4 DEF ConversationInv

(* A Run begins with the history, a profile block if there is a profile,    *)
(* and the question.                                                        *)
LEMMA ConversationBegins ==
  ASSUME IInv, ConversationInv, BeginRun PROVE ConversationInv'
<1>1. PICK sys : \E ts : Past(sys, ts)
  BY DEF ConversationInv
<1>2. PICK ts : Past(sys, ts)
  BY <1>1
<1>3. Talk(answered, sys, ts) /\ answered \in Seq(Nat) /\ profile \in BOOLEAN /\ run + 1 \in Nat
  BY <1>2, LoopAssumption DEF Past, IInv, PhaseInv, TypeInv
<1>4. /\ ts \in Seq(WholeTurns) /\ FlattenSeq(ts) \in Seq(TurnMessages)
      /\ sys \in WorkHeads(sys) /\ sys \in Seq(Messages)
      /\ \A q \in WorkHeads(sys) : q \in Seq(SystemMessages)
  BY <1>3, TalkProperties
<1>5. (IF history = <<>> THEN <<SystemPrompt>> ELSE history) = JoinTurns(sys, ts)
  <2>1. CASE history = <<>>
    <3>1. sys = <<SystemPrompt>> /\ ts = <<>>
      BY <1>2, <2>1 DEF Past
    <3>2. JoinTurns(sys, ts) = sys
      BY <1>4, <3>1, FlattenEmpty, ConcatEmptySeq DEF JoinTurns
    <3> QED
      BY <2>1, <3>1, <3>2
  <2>2. CASE history # <<>>
    BY <1>2, <2>2 DEF Past
  <2> QED
    BY <2>1, <2>2
<1>6. PICK q \in WorkHeads(sys) : SessionMessages = JoinTurns(q, ts)
  <2> DEFINE F == FlattenSeq(ts)
  <2>1. F \in Seq(TurnMessages)
    BY <1>4
  <2>2. SessionMessages = UpsertProfile(sys \o F, profile)
    BY <1>5 DEF SessionMessages, JoinTurns
  <2>3. \A q \in WorkHeads(sys) : JoinTurns(q, ts) = q \o F
    BY DEF JoinTurns
  <2> HIDE DEF F
  <2>4. \E q \in WorkHeads(sys) : UpsertProfile(sys \o F, profile) = q \o F
    <3>1. /\ answered \in Seq(Nat) /\ Talk(answered, sys, ts)
          /\ sys \in WorkHeads(sys) /\ profile \in BOOLEAN
      BY <1>3, <1>4
    <3> QED
      BY <2>1, <3>1, Refreshed, ZenonT(30)
  <2> QED
    BY <2>2, <2>3, <2>4
<1> PICK r \in Nat : r = run + 1
  BY <1>3
<1> DEFINE m == Message("user", r, <<>>)
           cur == <<m>>
<1>7. m \in TurnMessages /\ m.role = "user" /\ m.run = run + 1
  <2>1. <<>> \in Seq(Call)
    BY EmptySeq
  <2> QED
    BY <1>3, <2>1 DEF Message, TurnMessages, TurnRoles, TurnBodies
<1> HIDE DEF m
<1>8. cur \in Seq(TurnMessages) /\ Len(cur) = 1 /\ cur[1] = m /\ DOMAIN cur = 1..1
  BY <1>7
<1>9. messages' = JoinTurns(q, Append(ts, cur))
  <2>1. q \in Seq(SystemMessages)
    BY <1>4
  <2>2. JoinTurns(q, ts) \in Seq(Messages)
    <3>1. q \in Seq(Messages) /\ Users(q) = {}
      BY <2>1, SystemOnly
    <3> QED
      BY <1>4, <3>1, JoinedWhole
  <2>3. m \in Messages
    BY <1>7, SystemIsTyped
  <2>4. messages' = Append(JoinTurns(q, ts), m)
    BY <1>6 DEF BeginRun, m
  <2> DEFINE J == JoinTurns(q, ts)
  <2>5. J \in Seq(Messages)
    BY <2>2
  <2>6. J \o cur = JoinTurns(q, Append(ts, cur))
    <3>1. cur \in Seq(TurnMessages) /\ ts \in Seq(WholeTurns)
      BY <1>4, <1>8
    <3> HIDE DEF cur
    <3>2. JoinTurns(q, ts) \o cur = JoinTurns(q, Append(ts, cur))
      BY <2>1, <3>1, JoinExtended, ZenonT(30)
    <3> QED
      BY <3>2
  <2> HIDE DEF J, cur
  <2>7. Append(J, m) = J \o <<m>>
    BY <2>3, <2>5, AppendIsConcat
  <2> QED
    BY <2>4, <2>6, <2>7 DEF J, cur
<1> HIDE DEF cur
<1>10. \A i \in 1..1 : i = 1
  OBVIOUS
<1>11. cur \in TurnsOf(TurnMessages)
  <2>1. cur # <<>> /\ 2..1 = {}
    BY <1>8, EmptySeq
  <2> QED
    BY <1>7, <1>8, <2>1 DEF TurnsOf, IsTurn, IsUser
<1>12. CallsAnswered(cur)
  BY <1>7, <1>8, <1>10 DEF CallsAnswered
<1>13. run' = run + 1 /\ phase' = "top"
  BY DEF BeginRun
<1>14. Current(cur)'
  BY <1>7, <1>8, <1>10, <1>12, <1>13 DEF Current
<1>15. Working(sys, ts)'
  BY <1>9, <1>11, <1>14 DEF Working
<1>16. Past(sys, ts)'
  BY <1>2, PastKept DEF BeginRun
<1> QED
  BY <1>15, <1>16 DEF ConversationInv

(* Before each request to the model the profile block is refreshed.         *)
LEMMA ConversationAsks ==
  ASSUME IInv, ConversationInv, TopAsks PROVE ConversationInv'
<1>1. PICK sys : \E ts : Past(sys, ts) /\ Working(sys, ts)
  BY DEF ConversationInv, TopAsks
<1>2. PICK ts : Past(sys, ts) /\ Working(sys, ts)
  BY <1>1
<1>3. Talk(answered, sys, ts) /\ answered \in Seq(Nat) /\ profile \in BOOLEAN
  BY <1>2 DEF Past, IInv, PhaseInv, TypeInv
<1>4. PICK q \in WorkHeads(sys) : \E cur \in TurnsOf(TurnMessages) :
        messages = JoinTurns(q, Append(ts, cur)) /\ Current(cur)
  BY <1>2 DEF Working
<1>5. PICK cur \in TurnsOf(TurnMessages) :
        messages = JoinTurns(q, Append(ts, cur)) /\ Current(cur)
  BY <1>4
<1> DEFINE rest == FlattenSeq(Append(ts, cur))
<1>6. rest \in Seq(TurnMessages)
  <2>1. q \in Seq(SystemMessages) /\ ts \in Seq(WholeTurns) /\ cur \in Seq(TurnMessages)
    BY <1>3, TalkProperties DEF TurnsOf
  <2> QED
    BY <2>1, JoinExtended
<1>7. messages = q \o rest
  BY <1>5 DEF JoinTurns
<1> HIDE DEF rest
<1>8. PICK p \in WorkHeads(sys) : UpsertProfile(messages, profile) = p \o rest
  BY <1>3, <1>6, <1>7, Refreshed
<1>9. messages' = JoinTurns(p, Append(ts, cur))
  BY <1>8 DEF TopAsks, JoinTurns, rest
<1>10. Current(cur)'
  <2>1. run' = run /\ phase = "top" /\ phase' = "chat"
    BY DEF TopAsks
  <2>2. CallsAnswered(cur) /\ \A i \in 1..Len(cur) : cur[i].run = run
    BY <1>5, <2>1 DEF Current
  <2> QED
    BY <2>1, <2>2 DEF Current
<1>11. Working(sys, ts)'
  <2>1. messages' = JoinTurns(p, Append(ts, cur)) /\ Current(cur)'
    BY <1>9, <1>10
  <2>2. \E c \in TurnsOf(TurnMessages) :
          messages' = JoinTurns(p, Append(ts, c)) /\ Current(c)'
    BY <2>1, Zenon
  <2> QED
    BY <2>2, Zenon DEF Working
<1>12. Past(sys, ts)'
  BY <1>2, PastKept DEF TopAsks
<1> QED
  BY <1>11, <1>12 DEF ConversationInv

(* A working copy and its last turn go on together.                         *)
LEMMA WorkExtended ==
  ASSUME NEW ans \in Seq(Nat), NEW sys, NEW ts, Talk(ans, sys, ts), NEW q \in WorkHeads(sys),
         NEW cur \in TurnsOf(TurnMessages)
  PROVE  /\ JoinTurns(q, Append(ts, cur)) \in Seq(Messages)
         /\ \A x \in Seq(TurnMessages) :
              JoinTurns(q, Append(ts, cur)) \o x = JoinTurns(q, Append(ts, cur \o x))
         /\ \A m \in TurnMessages :
              /\ Append(cur, m) = cur \o <<m>>
              /\ Append(JoinTurns(q, Append(ts, cur)), m) = JoinTurns(q, Append(ts, Append(cur, m)))
<1> DEFINE J == JoinTurns(q, Append(ts, cur))
<1>1. q \in Seq(SystemMessages) /\ ts \in Seq(WholeTurns) /\ cur \in Seq(TurnMessages)
  BY TalkProperties DEF TurnsOf
<1>2. J \in Seq(Messages)
  <2>1. <<>> \in Seq(TurnMessages)
    BY EmptySeq
  <2> QED
    BY <1>1, <2>1, JoinExtended
<1>3. ASSUME NEW x \in Seq(TurnMessages) PROVE J \o x = JoinTurns(q, Append(ts, cur \o x))
  BY <1>1, JoinExtended, ZenonT(30)
<1> HIDE DEF J
<1>4. ASSUME NEW m \in TurnMessages
      PROVE  Append(cur, m) = cur \o <<m>> /\ Append(J, m) = JoinTurns(q, Append(ts, Append(cur, m)))
  <2>1. m \in Messages /\ <<m>> \in Seq(TurnMessages)
    BY SystemIsTyped
  <2>2. Append(cur, m) = cur \o <<m>>
    BY <1>1, AppendIsConcat
  <2>3. Append(J, m) = J \o <<m>>
    BY <1>2, <2>1, AppendIsConcat
  <2>4. J \o <<m>> = JoinTurns(q, Append(ts, cur \o <<m>>))
    BY <1>3, <2>1
  <2> QED
    BY <2>2, <2>3, <2>4
<1> QED
  BY <1>2, <1>3, <1>4 DEF J

(* The answer with calls belongs to the turn under way.                     *)
LEMMA ConversationCalls ==
  ASSUME IInv, IInv', ConversationInv, ChatCalls PROVE ConversationInv'
<1>1. PICK sys : \E ts : Past(sys, ts) /\ Working(sys, ts)
  BY DEF ConversationInv, ChatCalls
<1>2. PICK ts : Past(sys, ts) /\ Working(sys, ts)
  BY <1>1
<1>3. Talk(answered, sys, ts) /\ answered \in Seq(Nat) /\ run \in Nat
  BY <1>2, LoopAssumption DEF Past, IInv, PhaseInv, TypeInv
<1>4. PICK q \in WorkHeads(sys) : \E cur \in TurnsOf(TurnMessages) :
        messages = JoinTurns(q, Append(ts, cur)) /\ Current(cur)
  BY <1>2 DEF Working
<1>5. PICK cur \in TurnsOf(TurnMessages) :
        messages = JoinTurns(q, Append(ts, cur)) /\ Current(cur)
  BY <1>4
<1>6. /\ phase = "chat" /\ phase' = "batch" /\ run' = run /\ calls' \in Seq(Call)
      /\ messages' = Append(messages, Message("assistant", run, calls'))
  BY DEF ChatCalls, IInv, TypeInv
<1>7. PICK r \in Nat : r = run
  BY <1>3
<1>8. PICK c \in Seq(Call) : c = calls'
  BY <1>6
<1> DEFINE a == Message("assistant", r, c)
           next == Append(cur, a)
<1>9. a \in TurnMessages /\ a.role = "assistant" /\ a.run = r
  BY DEF Message, TurnMessages, TurnRoles, TurnBodies
<1>10. messages' = Append(messages, a)
  BY <1>6, <1>7, <1>8
<1> HIDE DEF a
<1>11. next = cur \o <<a>> /\ messages' = JoinTurns(q, Append(ts, next))
  BY <1>3, <1>5, <1>9, <1>10, WorkExtended
<1>12. next \in TurnsOf(TurnMessages) /\ OfRun(next, r)
  <2> DEFINE x == <<a>>
  <2>1. x \in Seq(TurnMessages) /\ OfRun(x, r) /\ Replies(x)
    BY <1>9 DEF IsUser, OfRun, Replies
  <2>2. OfRun(cur, r)
    BY <1>5, <1>7 DEF Current, OfRun
  <2> HIDE DEF x, next
  <2>3. cur \o x \in TurnsOf(TurnMessages) /\ OfRun(cur \o x, r)
    BY <2>1, <2>2, TurnGrows
  <2> QED
    BY <1>11, <2>3 DEF x
<1>13. CallsAnswered(cur)
  BY <1>5, <1>6 DEF Current
<1>14. next = Append(cur, Message("assistant", run', calls'))
  BY <1>6, <1>7, <1>8 DEF a
<1> HIDE DEF next
<1>15. Current(next)'
  BY <1>6, <1>7, <1>12, <1>13, <1>14 DEF Current, OfRun
<1>16. \E n \in TurnsOf(TurnMessages) : messages' = JoinTurns(q, Append(ts, n)) /\ Current(n)'
  BY <1>11, <1>12, <1>15, Zenon
<1>17. Working(sys, ts)'
  BY <1>16, Zenon DEF Working
<1>18. Past(sys, ts)'
  BY <1>2, PastKept DEF ChatCalls
<1> QED
  BY <1>17, <1>18 DEF ConversationInv

(* The results follow the answer that asked for them.                       *)
LEMMA ConversationJoins ==
  ASSUME IInv, ConversationInv, Join PROVE ConversationInv'
<1>1. PICK sys : \E ts : Past(sys, ts) /\ Working(sys, ts)
  BY DEF ConversationInv, Join
<1>2. PICK ts : Past(sys, ts) /\ Working(sys, ts)
  BY <1>1
<1>3. Talk(answered, sys, ts) /\ answered \in Seq(Nat)
  BY <1>2 DEF Past, IInv, PhaseInv, TypeInv
<1>4. PICK q \in WorkHeads(sys) : \E cur \in TurnsOf(TurnMessages) :
        messages = JoinTurns(q, Append(ts, cur)) /\ Current(cur)
  BY <1>2 DEF Working
<1>5. PICK cur \in TurnsOf(TurnMessages) :
        messages = JoinTurns(q, Append(ts, cur)) /\ Current(cur)
  BY <1>4
<1>6. /\ phase = "batch" /\ phase' = "top" /\ run' = run
      /\ messages' = messages \o Results
  BY DEF Join
<1>7. PICK begun \in TurnsOf(TurnMessages) :
        CallsAnswered(begun) /\ cur = Append(begun, Message("assistant", run, calls))
  BY <1>5, <1>6 DEF Current
<1>8. /\ Results \in Seq(TurnMessages) /\ OfRun(Results, run) /\ Replies(Results)
      /\ <<Message("assistant", run, calls)>> \o Results \in Seq(TurnMessages)
      /\ CallsAnswered(<<Message("assistant", run, calls)>> \o Results)
  BY <1>6, BatchAnswered DEF Join
<1>9. PICK rs \in Seq(TurnMessages) : rs = Results
  BY <1>8
<1>10. PICK a : a = Message("assistant", run, calls)
  OBVIOUS
<1> DEFINE next == cur \o rs
<1>11. a \in TurnMessages
  <2>1. calls \in Seq(Call) /\ run \in Nat
    BY LoopAssumption DEF IInv, TypeInv
  <2> QED
    BY <1>10, <2>1 DEF Message, TurnMessages, TurnRoles, TurnBodies
<1>12. begun \in Seq(TurnMessages) /\ <<a>> \in Seq(TurnMessages)
  BY <1>11 DEF TurnsOf
<1>13. cur = begun \o <<a>>
  BY <1>7, <1>10, <1>11, <1>12, AppendIsConcat
<1>14. next = begun \o (<<a>> \o rs)
  BY <1>12, <1>13, ConcatAssociative
<1>15. <<a>> \o rs \in Seq(TurnMessages) /\ CallsAnswered(<<a>> \o rs)
  BY <1>8, <1>9, <1>10
<1>16. CallsAnswered(next)
  <2> DEFINE x == <<a>> \o rs
  <2>1. x \in Seq(TurnMessages) /\ CallsAnswered(x) /\ CallsAnswered(begun)
    BY <1>7, <1>15
  <2>2. begun \in Seq(Messages)
    BY <1>12, SeqMonotonic, SystemIsTyped
  <2>3. \A i \in 1..Len(begun) : begun[i].role = "assistant" => DOMAIN begun[i].body \subseteq Nat
    BY <1>12, ElementOfSeq, BodyDomains
  <2>4. next = begun \o x
    BY <1>14
  <2> HIDE DEF x, next
  <2>5. CallsAnswered(begun \o x)
    BY <2>1, <2>2, <2>3, AnsweredConcat
  <2> QED
    BY <2>4, <2>5
<1>17. next \in TurnsOf(TurnMessages) /\ OfRun(next, run)
  <2>1. OfRun(cur, run) /\ OfRun(rs, run) /\ Replies(rs)
    BY <1>5, <1>8, <1>9 DEF Current, OfRun
  <2> QED
    BY <2>1, TurnGrows
<1>18. messages' = JoinTurns(q, Append(ts, next))
  <2>1. JoinTurns(q, Append(ts, cur)) \o rs = JoinTurns(q, Append(ts, cur \o rs))
    BY <1>3, WorkExtended
  <2> QED
    BY <1>5, <1>6, <1>9, <2>1
<1> HIDE DEF next
<1>19. Current(next)'
  BY <1>6, <1>16, <1>17 DEF Current, OfRun
<1>20. \E n \in TurnsOf(TurnMessages) : messages' = JoinTurns(q, Append(ts, n)) /\ Current(n)'
  BY <1>17, <1>18, <1>19, Zenon
<1>21. Working(sys, ts)'
  BY <1>20, Zenon DEF Working
<1>22. Past(sys, ts)'
  BY <1>2, PastKept DEF Join
<1> QED
  BY <1>21, <1>22 DEF ConversationInv

(* The turn of the run that is answered *)
AnsweredTurn == Append(Last(UserTurns(messages)), Message("assistant", run, <<>>))

(* Of a working copy: its last turn is the one under way.                   *)
LEMMA WorkingTurns ==
  ASSUME NEW ans \in Seq(Nat), NEW sys, NEW ts, Talk(ans, sys, ts), NEW q \in WorkHeads(sys),
         NEW cur \in TurnsOf(TurnMessages)
  PROVE  Last(UserTurns(JoinTurns(q, Append(ts, cur)))) = cur
<1>1. q \in Seq(Messages) /\ q \in Seq(SystemMessages) /\ ts \in Seq(WholeTurns)
  BY TalkProperties
<1>2. Users(q) = {}
  BY <1>1, SystemOnly
<1>3. TurnsOf(TurnMessages) \subseteq TurnsOf(Messages) /\ WholeTurns \subseteq TurnsOf(Messages)
  <2>1. Seq(TurnMessages) \subseteq Seq(Messages)
    BY SeqMonotonic, SystemIsTyped
  <2>2. TurnsOf(TurnMessages) \subseteq TurnsOf(Messages)
    BY <2>1 DEF TurnsOf
  <2> QED
    BY <2>2 DEF WholeTurns
<1>4. ts \in Seq(TurnsOf(Messages)) /\ cur \in TurnsOf(Messages)
  BY <1>1, <1>3, SeqMonotonic
<1> DEFINE us == Append(ts, cur)
<1>5. us \in Seq(TurnsOf(Messages)) /\ Len(us) = Len(ts) + 1 /\ us[Len(ts) + 1] = cur
  BY <1>4, AppendProperties
<1> HIDE DEF us
<1>6. UserTurns(JoinTurns(q, us)) = us
  BY <1>1, <1>2, <1>5, JoinProperties
<1>7. Last(us) = cur
  BY <1>5 DEF Last
<1> QED
  BY <1>6, <1>7 DEF us

(* A plain answer completes the turn, and the commit is one of the lists    *)
(* that CommitsTo describes.                                                *)
LEMMA AnswerCommits ==
  ASSUME IInv, ConversationInv, ChatAnswers
  PROVE  /\ AnsweredTurn \in WholeTurns /\ AnsweredTurn[1].run = run
         /\ CommitsTo(answered, AnsweredTurn, history')
<1>1. PICK sys : \E ts : Past(sys, ts) /\ Working(sys, ts)
  BY DEF ConversationInv, ChatAnswers
<1>2. PICK ts : Past(sys, ts) /\ Working(sys, ts)
  BY <1>1
<1>3. Talk(answered, sys, ts) /\ answered \in Seq(Nat) /\ run \in Nat
  BY <1>2, LoopAssumption DEF Past, IInv, PhaseInv, TypeInv
<1>4. PICK q \in WorkHeads(sys) : \E cur \in TurnsOf(TurnMessages) :
        messages = JoinTurns(q, Append(ts, cur)) /\ Current(cur)
  BY <1>2 DEF Working
<1>5. PICK cur \in TurnsOf(TurnMessages) :
        messages = JoinTurns(q, Append(ts, cur)) /\ Current(cur)
  BY <1>4
<1> DEFINE a == Message("assistant", run, <<>>)
           t == Append(cur, a)
<1>6. a \in TurnMessages /\ IsFinal(a) /\ a.run = run /\ ~IsUser(a)
  <2>1. <<>> \in Seq(Call)
    BY EmptySeq
  <2> QED
    BY <1>3, <2>1 DEF Message, TurnMessages, TurnRoles, TurnBodies, IsFinal, IsUser
<1>7. Last(UserTurns(messages)) = cur
  BY <1>3, <1>5, WorkingTurns
<1>8. AnsweredTurn = t
  BY <1>7 DEF AnsweredTurn
<1> HIDE DEF a
<1>9. t = cur \o <<a>> /\ Append(messages, a) = JoinTurns(q, Append(ts, t))
  BY <1>3, <1>5, <1>6, WorkExtended
<1>10. CallsAnswered(cur) /\ OfRun(cur, run)
  BY <1>5 DEF Current, ChatAnswers, OfRun
<1> DEFINE x == <<a>>
<1>11. x \in Seq(TurnMessages) /\ Len(x) = 1 /\ DOMAIN x = {1} /\ x[1] = a
  BY <1>6
<1>12. OfRun(x, run) /\ Replies(x) /\ CallsAnswered(x)
  <2>1. OfRun(x, run) /\ Replies(x)
    BY <1>6, <1>11 DEF OfRun, Replies
  <2>2. CallsAnswered(x)
    BY <1>6, <1>11 DEF CallsAnswered, IsFinal
  <2> QED
    BY <2>1, <2>2
<1>13. cur \in Seq(TurnMessages) /\ cur # <<>>
  BY DEF TurnsOf, IsTurn
<1>14. Len(t) = Len(cur) + 1 /\ t[Len(cur) + 1] = a /\ Len(cur) \in Nat /\ Len(cur) # 0
  <2>1. t = Append(cur, a)
    OBVIOUS
  <2> QED
    BY <1>6, <1>13, <2>1, AppendProperties, LenProperties, EmptySeq
<1> HIDE DEF x, t
<1>15. t = cur \o x
  BY <1>9 DEF x
<1>16. t \in TurnsOf(TurnMessages) /\ OfRun(t, run)
  BY <1>10, <1>11, <1>12, <1>15, TurnGrows
<1>17. CallsAnswered(t)
  <2>1. cur \in Seq(Messages)
    BY <1>13, SeqMonotonic, SystemIsTyped
  <2>2. \A i \in 1..Len(cur) : cur[i].role = "assistant" => DOMAIN cur[i].body \subseteq Nat
    BY <1>13, ElementOfSeq, BodyDomains
  <2> QED
    BY <1>10, <1>11, <1>12, <1>15, <2>1, <2>2, AnsweredConcat
<1>18. IsFinal(Last(t))
  BY <1>6, <1>14 DEF Last
<1>19. 1 \in 1..Len(t)
  BY <1>14
<1>20. t \in WholeTurns /\ t[1].run = run
  BY <1>16, <1>17, <1>18, <1>19 DEF WholeTurns, OfRun
<1>21. history' \in CommitHistory(JoinTurns(q, Append(ts, t)))
  BY <1>9 DEF ChatAnswers, a
<1>22. CommitsTo(answered, t, history')
  BY <1>3, <1>20, <1>21, Committed
<1> QED
  BY <1>8, <1>20, <1>22

LEMMA ConversationAnswered ==
  ASSUME IInv, ConversationInv, ChatAnswers PROVE ConversationInv'
<1>1. /\ AnsweredTurn \in WholeTurns /\ AnsweredTurn[1].run = run
      /\ CommitsTo(answered, AnsweredTurn, history')
  BY AnswerCommits
<1>2. PICK head : \E us :
        /\ Talk(Append(answered, run), head, us)
        /\ history' = JoinTurns(head, us) /\ us # <<>>
        /\ MaxHistoryMessages > 0 => Len(history') <= MaxHistoryMessages \/ Len(us) = 1
  BY <1>1 DEF CommitsTo
<1>3. PICK us :
        /\ Talk(Append(answered, run), head, us)
        /\ history' = JoinTurns(head, us) /\ us # <<>>
        /\ MaxHistoryMessages > 0 => Len(history') <= MaxHistoryMessages \/ Len(us) = 1
  BY <1>2
<1>4. answered' = Append(answered, run) /\ phase' = "idle"
  BY DEF ChatAnswers
<1>5. Append(answered, run) \in Seq(Nat)
  <2>1. answered \in Seq(Nat) /\ run \in Nat
    BY LoopAssumption DEF IInv, PhaseInv, TypeInv
  <2> QED
    BY <2>1, AppendProperties
<1>6. history' # <<>>
  BY <1>3, <1>5, TalkProperties
<1>7. Past(head, us)'
  BY <1>3, <1>4, <1>6 DEF Past
<1> QED
  BY <1>4, <1>7 DEF ConversationInv

(* A run that fails, and a Reset, leave no working copy.                    *)
LEMMA ConversationDropped ==
  ASSUME ConversationInv, TopFails \/ ChatFails PROVE ConversationInv'
<1>1. PICK sys : \E ts : Past(sys, ts)
  BY DEF ConversationInv
<1>2. PICK ts : Past(sys, ts)
  BY <1>1
<1>3. phase' = "idle" /\ UNCHANGED <<history, answered>>
  BY DEF TopFails, ChatFails, GiveUp
<1>4. Past(sys, ts)'
  BY <1>2, <1>3, PastKept
<1> QED
  BY <1>3, <1>4 DEF ConversationInv

LEMMA ConversationReset == ASSUME Reset PROVE ConversationInv'
<1>1. history' = <<>> /\ answered' = <<>> /\ phase' = "idle"
  BY DEF Reset
<1>2. PICK head : head = <<SystemPrompt>>
  OBVIOUS
<1>3. Talk(<<>>, head, <<>>)
  BY <1>2, NothingPast
<1>4. Past(head, <<>>)'
  <2>1. MaxHistoryMessages > 0 => 0 <= MaxHistoryMessages
    BY HistoryAssumption
  <2> QED
    BY <1>1, <1>2, <1>3, <2>1 DEF Past
<1> QED
  BY <1>1, <1>4 DEF ConversationInv

(* What a goroutine does, it does to its call. *)
LEMMA GoroutineAlone == ASSUME NEW i \in DOMAIN step, Goroutine(i) PROVE UNCHANGED Rest
BY DEF Goroutine, Acquire, Enter, Approval, ToolReturns, Goes, Ends, Rest

(* The order of the answered runs *)
LEMMA OrderKept ==
  ASSUME IInv, OrderInv, [Next]_vars PROVE OrderInv'
<1> DEFINE n == Len(answered)
<1>1. answered \in Seq(Nat) /\ n \in Nat /\ run \in Nat /\ \A i \in 1..n : answered[i] \in 1..run
  BY LoopAssumption, LenProperties DEF IInv, TypeInv, PhaseInv, AnsweredInv
<1>2. \A i, j \in 1..n : i < j => answered[i] < answered[j]
  BY DEF OrderInv
<1>3. CASE UNCHANGED <<run, answered>> /\ (phase' # "idle" => phase # "idle")
  BY <1>3 DEF OrderInv
<1>4. CASE BeginRun
  <2>1. run' = run + 1 /\ answered' = answered
    BY <1>4 DEF BeginRun
  <2>2. \A i \in 1..n : answered[i] < run'
    BY <1>1, <2>1
  <2> QED
    BY <1>2, <2>1, <2>2 DEF OrderInv
<1>5. CASE Reset
  <2>1. answered' = <<>> /\ phase' = "idle"
    BY <1>5 DEF Reset
  <2>2. Len(answered') = 0 /\ 1..0 = {}
    BY <2>1, EmptySeq
  <2> QED
    BY <2>2 DEF OrderInv
<1>6. CASE ChatAnswers
  <2>1. answered' = Append(answered, run) /\ phase' = "idle" /\ \A i \in 1..n : answered[i] < run
    BY <1>6 DEF ChatAnswers, OrderInv
  <2>2. /\ Len(answered') = n + 1 /\ answered'[n + 1] = run
        /\ \A i \in 1..n : answered'[i] = answered[i]
    BY <1>1, <2>1, AppendProperties
  <2> HIDE DEF n
  <2>3. ASSUME NEW i \in 1..(n + 1), NEW j \in 1..(n + 1), i < j
        PROVE  answered'[i] < answered'[j]
    <3>1. i \in 1..n /\ (j = n + 1 \/ j \in 1..n)
      BY <1>1, <2>3
    <3> QED
      BY <1>2, <2>1, <2>2, <2>3, <3>1
  <2> QED
    BY <2>1, <2>2, <2>3 DEF OrderInv
<1>7. CASE ContextEnds \/ TopFails \/ TopAsks \/ ChatFails \/ ChatCalls \/ Join
  <2>1. UNCHANGED <<run, answered>> /\ (phase' # "idle" => phase # "idle")
    BY <1>7 DEF ContextEnds, TopFails, TopAsks, ChatFails, GiveUp, ChatCalls, Join
  <2> QED
    BY <1>3, <2>1
<1>8. CASE \E i \in DOMAIN step : Goroutine(i)
  <2>1. UNCHANGED Rest
    BY <1>8, GoroutineAlone
  <2> QED
    BY <1>3, <2>1 DEF Rest
<1>9. CASE UNCHANGED vars
  BY <1>3, <1>9 DEF vars
<1> QED
  BY <1>4, <1>5, <1>6, <1>7, <1>8, <1>9 DEF Next, Progress, Loop

LEMMA NextConv == IInv /\ ConvInv /\ [Next]_vars => ConvInv'
<1> SUFFICES ASSUME IInv, ConvInv, [Next]_vars PROVE ConvInv'
  OBVIOUS
<1> USE DEF ConvInv
<1>1. OrderInv' /\ IInv'
  BY OrderKept, NextInv
<1>2. CASE UNCHANGED <<run, phase, messages, calls, history, answered>>
  BY <1>1, <1>2, ConversationKept
<1>3. CASE \E i \in DOMAIN step : Goroutine(i)
  <2>1. UNCHANGED Rest
    BY <1>3, GoroutineAlone
  <2> QED
    BY <1>2, <2>1 DEF Rest
<1>4. CASE ContextEnds \/ UNCHANGED vars
  BY <1>2, <1>4 DEF ContextEnds, vars, batch
<1>5. ConversationInv'
  BY <1>1, <1>3, <1>4, ConversationKept, ConversationBegins, ConversationAsks, ConversationCalls,
     ConversationJoins, ConversationAnswered, ConversationDropped, ConversationReset
     DEF Next, Progress, Loop
<1> QED
  BY <1>1, <1>5

(* What messages and history are made of, in every reachable state.         *)
THEOREM ConversationInvariance == Spec => [](IInv /\ ConvInv)
<1>1. Init => IInv /\ ConvInv
  BY InitInv, InitConv
<1>2. (IInv /\ ConvInv) /\ [Next]_vars => (IInv /\ ConvInv)'
  BY NextInv, NextConv
<1> QED
  BY <1>1, <1>2, PTL DEF Spec

----------------------------------------------------------------------------
(* What a model accepts *)

LEMMA ListAccepted ==
  ASSUME NEW R \in SUBSET Nat, NEW p \in Heads(R), NEW q \in WorkHeads(p),
         NEW rest \in Seq(TurnMessages), CallsAnswered(rest)
  PROVE  CallsAnswered(q \o rest) /\ SystemFirst(q \o rest)
<1>1. q \in Seq(SystemMessages) /\ q \in Seq(Messages) /\ CallsAnswered(q)
  BY WorkHeadProperties, SystemOnly
<1>2. \A i \in 1..Len(q) : q[i].role # "assistant"
  BY <1>1, ElementOfSeq, SystemIsTyped DEF SystemRoles
<1>3. CallsAnswered(q \o rest)
  BY <1>1, <1>2, AnsweredConcat
<1> QED
  BY <1>3, HeadFirst

LEMMA ProfileOnlyCurrent ==
  ASSUME NEW R \in SUBSET Nat, NEW p \in Heads(R), NEW rest \in Seq(TurnMessages)
  PROVE  \A i \in DOMAIN (p \o rest) : (p \o rest)[i].role # "profile"
<1> DEFINE s == p \o rest
           n == Len(p)
<1>1. p \in Seq(Messages) /\ rest \in Seq(Messages) /\ p \in WorkHeads(p)
  BY HeadProperties, SystemOnly, SeqMonotonic, SystemIsTyped DEF WorkHeads
<1>2. \A i \in 1..n : p[i].role # "profile"
  BY <1>1, WorkHeadProperties
<1>3. \A i \in 1..Len(rest) : rest[i].role # "profile"
  BY ElementOfSeq, SystemIsTyped DEF SystemRoles
<1>4. /\ DOMAIN s = 1..(n + Len(rest)) /\ n \in Nat /\ Len(rest) \in Nat
      /\ \A i \in 1..(n + Len(rest)) : s[i] = IF i <= n THEN p[i] ELSE rest[i - n]
  BY <1>1, ConcatProperties, LenProperties
<1> HIDE DEF s, n
<1>5. ASSUME NEW i \in DOMAIN s PROVE s[i].role # "profile"
  <2>1. CASE i <= n
    BY <1>2, <1>4, <2>1
  <2>2. CASE ~(i <= n)
    <3>1. i - n \in 1..Len(rest) /\ s[i] = rest[i - n]
      BY <1>4, <2>2
    <3> QED
      BY <1>3, <3>1
  <2> QED
    BY <2>1, <2>2
<1> QED
  BY <1>5 DEF s

LEMMA HistoryAccepted ==
  ASSUME IInv, NEW sys, NEW ts, Past(sys, ts), history # <<>>
  PROVE  /\ CallsAnswered(history) /\ SystemFirst(history)
         /\ \A i \in DOMAIN history : history[i].role # "profile"
<1>1. Talk(answered, sys, ts) /\ answered \in Seq(Nat) /\ history = JoinTurns(sys, ts)
  BY LoopAssumption DEF Past, IInv, PhaseInv, TypeInv
<1>2. PICK R \in SUBSET Nat : sys \in Heads(R)
  BY <1>1, TalkProperties
<1>3. PICK rest \in Seq(TurnMessages) : rest = FlattenSeq(ts) /\ CallsAnswered(rest)
  BY <1>1, TalkProperties, FlattenWhole
<1>4. history = sys \o rest /\ sys \in WorkHeads(sys)
  BY <1>1, <1>3 DEF JoinTurns, WorkHeads
<1> QED
  BY <1>2, <1>3, <1>4, ListAccepted, ProfileOnlyCurrent

LEMMA AskedAccepted ==
  ASSUME IInv, ConversationInv, phase = "chat"
  PROVE  CallsAnswered(messages) /\ SystemFirst(messages)
<1>1. PICK sys : \E ts : Past(sys, ts) /\ Working(sys, ts)
  BY DEF ConversationInv
<1>2. PICK ts : Past(sys, ts) /\ Working(sys, ts)
  BY <1>1
<1>3. Talk(answered, sys, ts) /\ answered \in Seq(Nat)
  BY <1>2 DEF Past, IInv, PhaseInv, TypeInv
<1>4. PICK q \in WorkHeads(sys) : \E cur \in TurnsOf(TurnMessages) :
        messages = JoinTurns(q, Append(ts, cur)) /\ Current(cur)
  BY <1>2 DEF Working
<1>5. PICK cur \in TurnsOf(TurnMessages) :
        messages = JoinTurns(q, Append(ts, cur)) /\ Current(cur)
  BY <1>4
<1>6. PICK R \in SUBSET Nat : sys \in Heads(R)
  BY <1>3, TalkProperties
<1> DEFINE F == FlattenSeq(ts)
<1>7. /\ ts \in Seq(WholeTurns) /\ F \in Seq(TurnMessages) /\ CallsAnswered(F)
      /\ cur \in Seq(TurnMessages) /\ CallsAnswered(cur) /\ q \in Seq(SystemMessages)
  BY <1>3, <1>5, TalkProperties, FlattenWhole DEF Current, TurnsOf
<1>8. FlattenSeq(Append(ts, cur)) = F \o cur
  <2>1. WholeTurns \subseteq Seq(TurnMessages)
    BY DEF WholeTurns, TurnsOf
  <2>2. ts \in Seq(Seq(TurnMessages))
    BY <1>7, <2>1, SeqMonotonic
  <2> QED
    BY <1>7, <2>2, FlattenProperties
<1> HIDE DEF F
<1>9. F \o cur \in Seq(TurnMessages) /\ CallsAnswered(F \o cur)
  <2>1. F \in Seq(Messages)
    BY <1>7, SeqMonotonic, SystemIsTyped
  <2>2. \A i \in 1..Len(F) : F[i].role = "assistant" => DOMAIN F[i].body \subseteq Nat
    BY <1>7, ElementOfSeq, BodyDomains
  <2>3. F \o cur \in Seq(TurnMessages)
    BY <1>7, ConcatProperties
  <2> QED
    BY <1>7, <2>1, <2>2, <2>3, AnsweredConcat
<1> DEFINE rest == F \o cur
<1>10. messages = q \o rest
  BY <1>5, <1>8 DEF JoinTurns
<1> HIDE DEF rest
<1>11. rest \in Seq(TurnMessages) /\ CallsAnswered(rest)
  BY <1>9 DEF rest
<1> QED
  BY <1>6, <1>10, <1>11, ListAccepted

(* Whatever the model was asked, whichever tools it called and however the  *)
(* history was folded, trimmed and summarised: the list it is asked with    *)
(* and the list that is committed have every call answered, in order and    *)
(* suitably, and their system messages first; no profile block is kept.     *)
THEOREM ListsAreAccepted == Spec => []ProtocolKept
<1>1. IInv /\ ConvInv => ProtocolKept
  <2> SUFFICES ASSUME IInv, ConvInv PROVE ProtocolKept
    OBVIOUS
  <2>1. PICK sys : \E ts : Past(sys, ts)
    BY DEF ConvInv, ConversationInv
  <2>2. PICK ts : Past(sys, ts)
    BY <2>1
  <2>3. history = <<>> => DOMAIN history = {}
    OBVIOUS
  <2>4. \A i \in DOMAIN history : history[i].role # "profile"
    BY <2>2, <2>3, HistoryAccepted
  <2> QED
    BY <2>2, <2>4, HistoryAccepted, AskedAccepted DEF ConvInv, ProtocolKept
<1> QED
  BY <1>1, ConversationInvariance, PTL

----------------------------------------------------------------------------
(* What a history keeps *)

(* The turns of the history are those of Past.                              *)
LEMMA PastTurns ==
  ASSUME IInv, NEW sys, NEW ts, Past(sys, ts)
  PROVE  UserTurns(history) = ts
<1>1. Talk(answered, sys, ts) /\ answered \in Seq(Nat)
  BY LoopAssumption DEF Past, IInv, PhaseInv, TypeInv
<1>2. ts \in Seq(WholeTurns) /\ sys \in Seq(Messages) /\ Users(sys) = {}
  BY <1>1, TalkProperties
<1>3. CASE history = <<>>
  <2>1. ts = <<>>
    BY <1>3 DEF Past
  <2> DEFINE h == <<>>
  <2>2. h \in Seq(Messages) /\ Len(h) = 0
    BY EmptySeq
  <2>3. Users(h) = {}
    BY <2>2 DEF Users
  <2>4. history = h
    BY <1>3
  <2> HIDE DEF h
  <2>5. UserTurns(h) = <<>>
    BY <2>2, <2>3, NoUsers
  <2> QED
    BY <2>1, <2>4, <2>5
<1>4. CASE history # <<>>
  BY <1>2, <1>4, JoinedWhole DEF Past
<1> QED
  BY <1>3, <1>4

LEMMA PastRuns ==
  ASSUME IInv, NEW sys, NEW ts, Past(sys, ts)
  PROVE  [k \in DOMAIN ts |-> ts[k][1].run] \in Suffixes(answered)
<1> DEFINE N == Len(answered)
           L == Len(ts)
           runs == [k \in DOMAIN ts |-> ts[k][1].run]
<1>1. /\ answered \in Seq(Nat) /\ ts \in Seq(WholeTurns) /\ L <= N
      /\ \A k \in 1..L : ts[k][1].run = answered[N - L + k]
  BY LoopAssumption DEF Past, Talk, IInv, PhaseInv, TypeInv
<1>2. N \in Nat /\ L \in Nat /\ DOMAIN ts = 1..L
  BY <1>1, LenProperties
<1> HIDE DEF N, L
<1>3. \A k \in 1..L : N - L + k \in 1..N
  BY <1>1, <1>2
<1>4. runs \in Seq(Nat) /\ Len(runs) = L /\ \A k \in 1..L : runs[k] = answered[N - L + k]
  <2>1. \A k \in 1..L : ts[k][1].run \in Nat
    BY <1>1, <1>3, ElementOfSeq DEF N
  <2>2. runs = [k \in 1..L |-> ts[k][1].run]
    BY <1>2
  <2>3. \A k \in 1..L : runs[k] = ts[k][1].run
    BY <2>2
  <2> HIDE DEF runs
  <2>4. \A k \in 1..L : runs[k] = answered[N - L + k] /\ runs[k] \in Nat
    BY <1>1, <2>1, <2>3
  <2>5. DOMAIN runs = 1..L /\ runs = [k \in 1..L |-> runs[k]]
    BY <2>2
  <2>6. runs \in Seq(Nat)
    BY <1>2, <2>4, <2>5
  <2>7. Len(runs) = L
    BY <1>2, <2>5, <2>6, LenProperties
  <2> QED
    BY <2>4, <2>6, <2>7
<1> HIDE DEF runs
<1>5. CASE L = 0
  <2>1. runs = <<>>
    BY <1>4, <1>5, EmptySeq
  <2> QED
    BY <2>1 DEF Suffixes, runs
<1>6. CASE L # 0
  <2> DEFINE l == N - L + 1
             u == SubSeq(answered, l, N)
  <2>1. l \in 1..N /\ N - l + 1 = L /\ \A k \in 1..L : l + k - 1 = N - L + k
    BY <1>1, <1>2, <1>6
  <2>2. l \in 1..(N + 1) /\ N \in (l - 1)..N
    BY <1>2, <2>1
  <2> HIDE DEF l
  <2>3. u \in Seq(Nat) /\ Len(u) = N - l + 1 /\ \A k \in 1..(N - l + 1) : u[k] = answered[l + k - 1]
    <3> DEFINE x == N - L
    <3>1. x \in 0..Len(answered) /\ l = x + 1 /\ N - l + 1 = Len(answered) - x
      BY <1>1, <1>2 DEF N, l
    <3>2. \A k \in Nat : l + k - 1 = x + k
      BY <1>2 DEF l
    <3> HIDE DEF x
    <3>3. /\ SubSeq(answered, x + 1, Len(answered)) \in Seq(Nat)
          /\ Len(SubSeq(answered, x + 1, Len(answered))) = Len(answered) - x
          /\ \A k \in 1..(Len(answered) - x) :
               SubSeq(answered, x + 1, Len(answered))[k] = answered[x + k]
      BY <1>1, <3>1, PartsOfTurns, ZenonT(30)
    <3>4. u = SubSeq(answered, x + 1, Len(answered))
      BY <3>1 DEF N
    <3> HIDE DEF u
    <3>5. \A k \in 1..(Len(answered) - x) : u[k] = answered[l + k - 1]
      BY <3>2, <3>3, <3>4
    <3> QED
      BY <3>1, <3>3, <3>4, <3>5
  <2> HIDE DEF u
  <2>4. Len(u) = L /\ \A k \in 1..L : u[k] = runs[k]
    BY <1>4, <2>1, <2>3
  <2>5. u = runs
    BY <1>4, <2>3, <2>4, SeqEqual
  <2>6. u \in Suffixes(answered)
    BY <2>1 DEF Suffixes, u, N
  <2> QED
    BY <2>5, <2>6 DEF runs
<1> QED
  BY <1>5, <1>6

LEMMA PastTells ==
  ASSUME IInv, NEW sys, NEW ts, Past(sys, ts)
  PROVE  /\ ts = <<>> => answered = <<>>
         /\ Len(ts) < Len(answered) => Where(history, IsSummary) # {}
<1>1. /\ answered \in Seq(Nat) /\ ts \in Seq(WholeTurns) /\ Talk(answered, sys, ts)
      /\ Len(ts) < Len(answered) => Len(sys) = 2
  BY LoopAssumption DEF Past, Talk, IInv, PhaseInv, TypeInv
<1>2. Len(answered) \in Nat /\ Len(ts) \in Nat /\ sys \in Seq(Messages)
  BY <1>1, LenProperties, TalkProperties
<1>3. history = <<>> => ts = <<>> /\ Len(sys) = 1
  BY DEF Past
<1>4. ts = <<>> => answered = <<>>
  <2> SUFFICES ASSUME ts = <<>> PROVE answered = <<>>
    OBVIOUS
  <2>1. Len(sys) = 1 /\ Len(ts) = 0
    BY EmptySeq DEF Past
  <2>2. Len(answered) = 0
    BY <1>1, <1>2, <2>1
  <2> QED
    BY <1>1, <2>2, EmptySeq
<1>5. ASSUME Len(ts) < Len(answered) PROVE Where(history, IsSummary) # {}
  <2>1. Len(sys) = 2 /\ history = JoinTurns(sys, ts)
    <3>1. Len(sys) = 2
      BY <1>1, <1>5
    <3>2. history # <<>>
      BY <1>3, <3>1
    <3> QED
      BY <3>1, <3>2 DEF Past
  <2>2. PICK R \in SUBSET Nat : sys \in Heads(R)
    BY <1>1, TalkProperties
  <2>3. sys[2].role = "summary"
    BY <2>1, <2>2, HeadProperties DEF SummaryBlock, Message
  <2>4. PICK rest \in Seq(Messages) : history = sys \o rest
    <3>1. FlattenSeq(ts) \in Seq(Messages)
      BY <1>1, TalkProperties, SeqMonotonic, SystemIsTyped
    <3> QED
      BY <2>1, <3>1 DEF JoinTurns
  <2>5. 2 \in DOMAIN history /\ history[2] = sys[2]
    <3> DEFINE s == sys \o rest
               n == Len(sys)
    <3>1. /\ s \in Seq(Messages) /\ Len(s) = n + Len(rest) /\ Len(rest) \in Nat
          /\ \A i \in 1..(n + Len(rest)) : s[i] = IF i <= n THEN sys[i] ELSE rest[i - n]
      BY <1>2, ConcatProperties, LenProperties
    <3>2. DOMAIN s = 1..(n + Len(rest))
      BY <3>1, LenProperties
    <3> HIDE DEF s
    <3>3. n = 2
      BY <2>1
    <3> HIDE DEF n
    <3>4. 2 \in 1..(n + Len(rest)) /\ 2 <= n
      BY <3>1, <3>3
    <3> QED
      BY <2>4, <3>1, <3>2, <3>4 DEF s
  <2> QED
    BY <2>3, <2>5 DEF Where, IsSummary
<1> QED
  BY <1>4, <1>5

LEMMA PastWithinCap == ASSUME IInv, NEW sys, NEW ts, Past(sys, ts) PROVE CapHolds
<1>1. UserTurns(history) = ts
  BY PastTurns
<1> QED
  BY <1>1 DEF Past, CapHolds

(* The runs of the kept messages: those of the turns, and none for the head. *)
LEMMA KeptRuns ==
  ASSUME IInv, NEW sys, NEW ts, Past(sys, ts), NEW m \in ToSet(history)
  PROVE  m.run = NoRun \/ \E k \in 1..Len(ts) : m.run = ts[k][1].run
<1>1. Talk(answered, sys, ts) /\ answered \in Seq(Nat)
  BY LoopAssumption DEF Past, IInv, PhaseInv, TypeInv
<1>2. history # <<>> /\ history = JoinTurns(sys, ts)
  <2>1. history # <<>>
    BY DEF ToSet
  <2> QED
    BY <2>1 DEF Past
<1> DEFINE F == FlattenSeq(ts)
           n == Len(sys)
<1>3. /\ sys \in Seq(SystemMessages) /\ sys \in Seq(Messages) /\ ts \in Seq(WholeTurns)
      /\ F \in Seq(TurnMessages) /\ F \in Seq(Messages)
      /\ \A i \in 1..Len(F) : \E k \in 1..Len(ts) : F[i].run = ts[k][1].run
  BY <1>1, TalkProperties, FlattenWhole, SeqMonotonic, SystemIsTyped
<1>4. \A i \in 1..n : sys[i].run = NoRun
  <2>1. \A i \in 1..n : sys[i] \in SystemMessages
    BY <1>3, ElementOfSeq
  <2>2. \A x \in SystemMessages : x.run = NoRun
    BY DEF SystemMessages
  <2> QED
    BY <2>1, <2>2
<1>5. history = sys \o F
  BY <1>2 DEF JoinTurns
<1> HIDE DEF F
<1>6. /\ history \in Seq(Messages) /\ Len(history) = n + Len(F) /\ n \in Nat /\ Len(F) \in Nat
      /\ \A i \in 1..(n + Len(F)) : history[i] = IF i <= n THEN sys[i] ELSE F[i - n]
  BY <1>3, <1>5, ConcatProperties, LenProperties
<1>7. PICK i \in 1..(n + Len(F)) : m = history[i]
  BY <1>6, LenProperties DEF ToSet
<1> HIDE DEF n
<1>8. CASE i <= n
  <2>1. i \in 1..n /\ m = sys[i]
    BY <1>6, <1>7, <1>8
  <2> QED
    BY <1>4, <2>1
<1>9. CASE ~(i <= n)
  <2>1. i - n \in 1..Len(F) /\ m = F[i - n]
    BY <1>6, <1>7, <1>9
  <2> QED
    BY <1>3, <2>1
<1> QED
  BY <1>8, <1>9

(* The summary tells of the runs before them.                               *)
LEMMA PastSummary ==
  ASSUME IInv, NEW sys, NEW ts, Past(sys, ts), NEW b \in ToSet(SummaryBody(history)), IsFact(b)
  PROVE  \E i \in 1..(Len(answered) - Len(ts)) : b[2] = answered[i]
<1> DEFINE R == Earlier(answered, Len(answered) - Len(ts))
<1>1. /\ Talk(answered, sys, ts) /\ answered \in Seq(Nat) /\ sys \in Heads(R)
      /\ ts \in Seq(WholeTurns) /\ Len(ts) <= Len(answered)
  BY LoopAssumption DEF Past, Talk, IInv, PhaseInv, TypeInv
<1>2. Len(answered) \in Nat /\ Len(ts) \in Nat
  BY <1>1, LenProperties
<1>3. R \in SUBSET Nat
  <2> DEFINE N == Len(answered)
             L == Len(ts)
  <2>1. \A i \in 1..N : answered[i] \in Nat
    BY <1>1, ElementOfSeq
  <2>2. L <= N /\ N \in Nat /\ L \in Nat
    BY <1>1, <1>2
  <2> HIDE DEF N, L
  <2>3. \A i \in 1..(N - L) : i \in 1..N
    BY <2>2
  <2>4. \A i \in 1..(N - L) : answered[i] \in Nat
    BY <2>1, <2>3
  <2> QED
    BY <2>4 DEF Earlier, N, L
<1> HIDE DEF R
<1>4. SummaryBody(history) \in Seq(Bullets(R))
  <2>1. CASE history = <<>>
    <3>1. SummaryBody(<<>>) = <<>>
      <4>1. {i \in 1..Len(<<>>) : IsSummary(<<>>[i])} = {}
        BY EmptySeq
      <4> QED
        BY <4>1 DEF SummaryBody, SelectInSeq
    <3> QED
      BY <2>1, <3>1, EmptySeq
  <2>2. CASE history # <<>>
    <3>1. history = sys \o FlattenSeq(ts) /\ FlattenSeq(ts) \in Seq(TurnMessages)
      BY <1>1, <2>2, TalkProperties DEF Past, JoinTurns
    <3> QED
      BY <1>1, <1>3, <3>1, SummaryUpserted
  <2> QED
    BY <2>1, <2>2
<1>5. b \in Bullets(R)
  BY <1>4 DEF ToSet
<1>6. b[2] \in R
  <2>1. CASE b \in TurnRoles \X R \X TurnBodies
    BY <2>1
  <2>2. CASE b \in {"truncated"} \X Nat
    BY <2>2 DEF IsFact
  <2>3. CASE b = Compressed
    BY <2>3 DEF IsFact, Compressed
  <2> QED
    BY <1>5, <2>1, <2>2, <2>3 DEF Bullets
<1> QED
  BY <1>6 DEF R, Earlier

LEMMA PastSummaryOfDropped ==
  ASSUME IInv, OrderInv, NEW sys, NEW ts, Past(sys, ts) PROVE SummaryOfDropped
<1> SUFFICES ASSUME NEW b \in ToSet(SummaryBody(history)), IsFact(b)
             PROVE  b[2] \in ToSet(answered) \ {m.run : m \in ToSet(history)}
  BY DEF SummaryOfDropped
<1> DEFINE N == Len(answered)
           L == Len(ts)
<1>1. /\ answered \in Seq(Nat) /\ ts \in Seq(WholeTurns) /\ L <= N
      /\ \A k \in 1..L : ts[k][1].run = answered[N - L + k]
  BY LoopAssumption DEF Past, Talk, IInv, PhaseInv, TypeInv
<1>2. N \in Nat /\ L \in Nat /\ DOMAIN answered = 1..N
  BY <1>1, LenProperties
<1>3. PICK i \in 1..(N - L) : b[2] = answered[i]
  BY PastSummary
<1>4. /\ \A j, k \in 1..N : j < k => answered[j] < answered[k]
      /\ \A j \in 1..N : answered[j] \in 1..run
  BY <1>2 DEF OrderInv, IInv, AnsweredInv
<1>5. run \in Nat
  BY LoopAssumption DEF IInv, TypeInv
<1> HIDE DEF N, L
<1>6. i \in 1..N /\ answered[i] \in 1..run
  BY <1>1, <1>2, <1>3, <1>4
<1>7. b[2] \in ToSet(answered)
  BY <1>2, <1>3, <1>6 DEF ToSet
<1>8. ASSUME NEW m \in ToSet(history), m.run = b[2] PROVE FALSE
  <2>1. m.run # NoRun
    BY <1>3, <1>5, <1>6, <1>8 DEF NoRun
  <2>2. PICK k \in 1..L : m.run = ts[k][1].run
    BY <2>1, KeptRuns DEF L
  <2>3. N - L + k \in 1..N /\ i < N - L + k
    BY <1>1, <1>2, <1>3
  <2>4. answered[i] < answered[N - L + k] /\ answered[N - L + k] \in 1..run
    BY <1>4, <1>6, <2>3
  <2>5. answered[i] = answered[N - L + k]
    BY <1>1, <1>3, <1>8, <2>2
  <2> QED
    BY <1>5, <1>6, <2>4, <2>5
<1> QED
  BY <1>7, <1>8

(* For every cap, every number of turns kept in full and every way of       *)
(* compressing a summary: the history holds the last answered runs, each    *)
(* whole, within the cap, and its summary tells of the earlier ones only.   *)
THEOREM HistoryStaysRecent == Spec => []HistoryIsRecent
<1>1. IInv /\ ConvInv => HistoryIsRecent
  <2> SUFFICES ASSUME IInv, ConvInv PROVE HistoryIsRecent
    OBVIOUS
  <2>1. PICK sys : \E ts : Past(sys, ts)
    BY DEF ConvInv, ConversationInv
  <2>2. PICK ts : Past(sys, ts)
    BY <2>1
  <2>3. UserTurns(history) = ts /\ ts \in Seq(WholeTurns) /\ DOMAIN ts = 1..Len(ts)
    BY <2>2, PastTurns, LenProperties DEF Past, Talk
  <2>4. \A k \in DOMAIN ts :
          IsFinal(Last(ts[k])) /\ \A i \in DOMAIN ts[k] : ts[k][i].run = ts[k][1].run
    <3> TAKE k \in DOMAIN ts
    <3>1. ts[k] \in WholeTurns
      BY <2>3, ElementOfSeq
    <3>2. DOMAIN ts[k] = 1..Len(ts[k])
      BY <3>1, WholeTurnProperties, LenProperties
    <3> QED
      BY <3>1, <3>2, WholeTurnProperties DEF Last
  <2>5. RecentTurns
    BY <2>2, <2>3, <2>4, PastRuns, PastTells DEF RecentTurns
  <2> QED
    BY <2>2, <2>5, PastWithinCap, PastSummaryOfDropped DEF ConvInv, HistoryIsRecent
<1> QED
  BY <1>1, ConversationInvariance, PTL

(* However short the cap: a commit leaves the turn that was just answered   *)
(* as it was, and nothing but a commit and a Reset changes a history.       *)
THEOREM CommitsKeepNewest == Spec => NewestTurnWhole
<1> DEFINE Whole ==
      history' \notin {history, <<>>} =>
        /\ phase = "chat"
        /\ Last(UserTurns(history')) =
             Append(Last(UserTurns(messages)), Message("assistant", run, <<>>))
<1>1. IInv /\ ConvInv /\ Next => Whole
  <2> SUFFICES ASSUME IInv, ConvInv, Next, history' \notin {history, <<>>}
               PROVE  /\ phase = "chat"
                      /\ Last(UserTurns(history')) = AnsweredTurn
    BY DEF AnsweredTurn
  <2>1. ChatAnswers
    <3>1. CASE \E i \in DOMAIN step : Goroutine(i)
      BY <3>1, GoroutineAlone DEF Rest
    <3>2. CASE BeginRun \/ ContextEnds \/ Reset \/ TopFails \/ TopAsks \/ ChatFails \/ ChatCalls \/ Join
      BY <3>2
         DEF BeginRun, ContextEnds, Reset, TopFails, TopAsks, ChatFails, GiveUp, ChatCalls, Join
    <3> QED
      BY <3>1, <3>2 DEF Next, Progress, Loop
  <2>2. CommitsTo(answered, AnsweredTurn, history') /\ AnsweredTurn[1].run = run
    BY <2>1, AnswerCommits DEF ConvInv
  <2>3. PICK head : \E us :
          /\ Talk(Append(answered, run), head, us)
          /\ history' = JoinTurns(head, us) /\ us # <<>> /\ us[Len(us)] = AnsweredTurn
    BY <2>2 DEF CommitsTo
  <2>4. PICK us :
          /\ Talk(Append(answered, run), head, us)
          /\ history' = JoinTurns(head, us) /\ us # <<>> /\ us[Len(us)] = AnsweredTurn
    BY <2>3
  <2>5. Append(answered, run) \in Seq(Nat)
    <3>1. answered \in Seq(Nat) /\ run \in Nat
      BY LoopAssumption DEF IInv, PhaseInv, TypeInv
    <3> QED
      BY <3>1, AppendProperties
  <2>6. us \in Seq(WholeTurns) /\ head \in Seq(Messages) /\ Users(head) = {}
    BY <2>4, <2>5, TalkProperties
  <2>7. UserTurns(history') = us
    BY <2>4, <2>6, JoinedWhole
  <2> QED
    BY <2>1, <2>4, <2>7 DEF ChatAnswers, Last
<1>2. IInv /\ ConvInv /\ [Next]_vars => [Whole]_vars
  BY <1>1
<1>3. [](IInv /\ ConvInv) /\ [][Next]_vars => [][Whole]_vars
  BY <1>2, PTL
<1> QED
  BY <1>3, ConversationInvariance, PTL DEF Spec, NewestTurnWhole
=============================================================================
