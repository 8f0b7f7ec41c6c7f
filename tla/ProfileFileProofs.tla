--------------------------- MODULE ProfileFileProofs ---------------------------
(***************************************************************************)
(* Proofs about ProfileFile, for any number of goroutines and tasks, any   *)
(* updates and any crashes.  Two locks are at work: Memory.mu keeps the    *)
(* image of a save equal to the profile in memory until it is written, the *)
(* lock of the file keeps everyone out while the file is not whole.  What  *)
(* a patch makes of a list, by a fold, is shown by induction over the sets *)
(* of positions of the texts it adds.                                      *)
(***************************************************************************)
EXTENDS ProfileFile, PositionsProofs

(* A goroutine uses the shared Memory or one of its own; while it is busy   *)
(* it holds mu, and the image is what the Memory holds.                     *)
BusyInv ==
  /\ ~up => \A g \in Goroutines : at[g] = None /\ pc[g] = "idle"
  /\ \A g \in Goroutines :
       /\ at[g] \in {None, Shared, g}
       /\ pc[g] # "idle" => /\ at[g] # None /\ mu[at[g]] = g
                            /\ image[g] = mem[at[g]]
       /\ pc[g] = "writing" <=> lock = g

(* The file is the last save, whenever it can be read and no save failed.   *)
FileInv == lock = None /\ ~torn => file = last

(* The Memory that was saved last still holds what it saved, unless it has  *)
(* changed and is about to be saved.                                        *)
AuthorInv ==
  /\ ~torn /\ ~Busy(author)
  /\ InUse(author) \/ (author = Shared /\ up)
  => last = mem[author]

IInv == TypeOK /\ BusyInv /\ FileInv /\ AuthorInv

----------------------------------------------------------------------------
LEMMA NoneIsNone == /\ None \notin Copies /\ None \notin Goroutines
                    /\ Tasks \subseteq Goroutines /\ Shared \in Copies /\ Shared \notin Goroutines
BY ProfileFileAssumption DEF Copies

LEMMA InitInv == Init => IInv
BY NoneIsNone DEF Init, IInv, TypeOK, BusyInv, FileInv, AuthorInv, Busy, InUse

(* The process starts, and reads the file. *)
LEMMA StartInv == ASSUME IInv, Start PROVE IInv'
<1> USE NoneIsNone DEF Start, MayLoad, IInv
<1>1. TypeOK'
  BY DEF TypeOK, AfterLoad
<1>2. BusyInv'
  BY DEF TypeOK, BusyInv
<1>3. FileInv'
  BY DEF FileInv
<1>4. AuthorInv'
  BY DEF TypeOK, BusyInv, FileInv, AuthorInv, Busy, InUse
<1> QED
  BY <1>1, <1>2, <1>3, <1>4

(* A task begins with a Memory of its own, or with the shared one. *)
LEMMA TaskBeginsInv == ASSUME IInv, NEW t \in Tasks, TaskBegins(t) PROVE IInv'
<1> USE NoneIsNone DEF TaskBegins, MayLoad, IInv
<1>1. t \in Goroutines /\ t \in Copies /\ t # Shared /\ pc[t] = "idle"
  BY DEF Copies, BusyInv
<1>2. TypeOK'
  BY <1>1 DEF TypeOK, AfterLoad
<1>3. BusyInv'
  BY <1>1 DEF TypeOK, BusyInv
<1>4. FileInv'
  BY DEF FileInv
<1>5. AuthorInv'
  BY <1>1 DEF TypeOK, BusyInv, FileInv, AuthorInv, Busy, InUse
<1> QED
  BY <1>2, <1>3, <1>4, <1>5

LEMMA TaskEndsInv == ASSUME IInv, NEW t \in Tasks, TaskEnds(t) PROVE IInv'
<1> USE NoneIsNone DEF TaskEnds, IInv, history
<1>1. TypeOK'
  BY DEF TypeOK
<1>2. BusyInv'
  BY DEF TypeOK, BusyInv
<1>3. FileInv' /\ AuthorInv'
  BY DEF TypeOK, BusyInv, FileInv, AuthorInv, Busy, InUse
<1> QED
  BY <1>1, <1>2, <1>3

(* The profile in memory changes, under mu: nobody else was busy with it.   *)
LEMMA ChangesInv ==
  ASSUME IInv, NEW g \in Goroutines, NEW m, Changes(g, m) PROVE IInv'
<1> USE NoneIsNone DEF Changes, Held, IInv
<1>1. at[g] \in Copies /\ pc[g] = "idle" /\ mu[at[g]] = None
  BY DEF TypeOK
<1>2. TypeOK'
  BY <1>1 DEF TypeOK
<1>3. BusyInv'
  BY <1>1 DEF TypeOK, BusyInv
<1>4. FileInv'
  BY DEF FileInv
<1>5. AuthorInv'
  <2>1. CASE at[g] = author
    BY <2>1 DEF TypeOK, AuthorInv, Busy
  <2>2. CASE at[g] # author
    BY <1>1, <2>2 DEF TypeOK, AuthorInv, Busy, InUse
  <2> QED
    BY <2>1, <2>2
<1> QED
  BY <1>2, <1>3, <1>4, <1>5

(* The file is emptied, under its lock. *)
LEMMA TruncateInv == ASSUME IInv, NEW g \in Goroutines, Truncate(g) PROVE IInv'
<1> USE NoneIsNone DEF Truncate, IInv, history
<1>1. TypeOK'
  BY DEF TypeOK
<1>2. BusyInv'
  BY DEF TypeOK, BusyInv
<1>3. FileInv' /\ AuthorInv'
  BY DEF TypeOK, FileInv, AuthorInv, Busy, InUse
<1> QED
  BY <1>1, <1>2, <1>3

(* The image is written: it is what the Memory holds. *)
LEMMA WriteInv == ASSUME IInv, NEW g \in Goroutines, Write(g) PROVE IInv'
<1> USE NoneIsNone DEF Write, Released, IInv
<1>1. at[g] \in Copies /\ lock = g /\ image[g] = mem[at[g]]
  BY DEF TypeOK, BusyInv
<1>2. TypeOK'
  BY <1>1 DEF TypeOK
<1>3. BusyInv'
  BY <1>1 DEF TypeOK, BusyInv
<1>4. FileInv' /\ AuthorInv'
  BY <1>1 DEF FileInv, AuthorInv
<1> QED
  BY <1>2, <1>3, <1>4

(* A save that fails, and the end of the process, leave a file that is      *)
(* marked as torn, if anyone was writing.                                   *)
LEMMA SaveFailsInv == ASSUME IInv, NEW g \in Goroutines, SaveFails(g) PROVE IInv'
<1> USE NoneIsNone DEF SaveFails, Released, IInv
<1>1. TypeOK'
  BY DEF TypeOK
<1>2. BusyInv'
  BY DEF TypeOK, BusyInv
<1>3. FileInv' /\ AuthorInv'
  BY DEF FileInv, AuthorInv
<1> QED
  BY <1>1, <1>2, <1>3

LEMMA CrashInv == ASSUME IInv, Crash PROVE IInv'
<1> USE NoneIsNone DEF Crash, IInv
<1>1. TypeOK'
  BY DEF TypeOK
<1>2. BusyInv'
  BY DEF TypeOK, BusyInv
<1>3. FileInv' /\ AuthorInv'
  BY DEF TypeOK, FileInv, AuthorInv, Busy, InUse
<1> QED
  BY <1>1, <1>2, <1>3

LEMMA NextInv == IInv /\ [Next]_vars => IInv'
<1> SUFFICES ASSUME IInv, [Next]_vars PROVE IInv'
  OBVIOUS
<1>1. ASSUME NEW g \in Goroutines, TaskBegins(g) \/ TaskEnds(g) PROVE IInv'
  <2>1. g \in Tasks
    BY <1>1 DEF TaskBegins, TaskEnds
  <2> QED
    BY <1>1, <2>1, TaskBeginsInv, TaskEndsInv
<1>2. ASSUME NEW g \in Goroutines, Clear(g) \/ \E p \in Patches : Update(g, p)
      PROVE  IInv'
  BY <1>2, ChangesInv DEF Clear, Update
<1>3. ASSUME NEW g \in Goroutines, Truncate(g) \/ Write(g) \/ SaveFails(g)
      PROVE  IInv'
  BY <1>3, TruncateInv, WriteInv, SaveFailsInv
<1>4. CASE UNCHANGED vars
  BY <1>4 DEF vars, history, IInv, TypeOK, BusyInv, FileInv, AuthorInv, Busy, InUse
<1> QED
  BY <1>1, <1>2, <1>3, <1>4, StartInv, CrashInv DEF Next

(* The inductive invariant of the profile. *)
THEOREM Invariance == Spec => []IInv
BY InitInv, NextInv, PTL DEF Spec

(* The types of the state, for every instance. *)
THEOREM TypeCorrect == Spec => []TypeOK
BY Invariance, PTL DEF IInv

(* Parallel updates never leave an older profile behind a newer one. *)
THEOREM NewestIsOnFile == Spec => []FileIsNewest
<1>1. IInv => FileIsNewest
  BY DEF IInv, FileInv, AuthorInv, FileIsNewest
<1> QED
  BY <1>1, Invariance, PTL

(* Who loads the profile reads the last save, never half of one. *)
THEOREM LoadsAreWhole == Spec => LoadSeesWholeSave
<1> DEFINE Whole == ~torn =>
             /\ ~up /\ up' => mem'[Shared] = last
             /\ \A t \in Tasks : at[t] = None /\ at'[t] = t => mem'[t] = last
<1>1. IInv /\ [Next]_vars => [Whole]_vars
  <2> SUFFICES ASSUME IInv, Next, ~torn
               PROVE  /\ ~up /\ up' => mem'[Shared] = last
                      /\ \A t \in Tasks : at[t] = None /\ at'[t] = t => mem'[t] = last
    OBVIOUS
  <2> USE NoneIsNone DEF IInv
  <2>1. CASE Start
    BY <2>1 DEF Start, MayLoad, TypeOK, FileInv
  <2>2. ASSUME NEW g \in Goroutines, TaskBegins(g) PROVE Whole
    BY <2>2 DEF TaskBegins, MayLoad, TypeOK, FileInv, Copies
  <2>3. ASSUME NEW g \in Goroutines, TaskEnds(g) PROVE Whole
    BY <2>3 DEF TaskEnds, TypeOK
  <2>4. ASSUME UNCHANGED <<up, at>> PROVE Whole
    BY <2>4
  <2>5. CASE Crash
    BY <2>5 DEF Crash, TypeOK
  <2> QED
    BY <2>1, <2>2, <2>3, <2>4, <2>5
       DEF Next, Clear, Update, Changes, Truncate, Write, SaveFails
<1> QED
  BY <1>1, Invariance, PTL DEF Spec, LoadSeesWholeSave

----------------------------------------------------------------------------
(* The lists of a profile *)

Limited(texts, max) == texts \in Seq(Values) /\ Len(texts) <= max

(* A list has every text of an older one, or is full. *)
Keeps(texts, old, max) == Len(texts) = max \/ ToSet(old) \subseteq ToSet(texts)

LEMMA AddedProperties ==
  ASSUME NEW max \in Nat \ {0}, NEW texts, Limited(texts, max), NEW v \in Values
  PROVE  /\ Limited(Added(texts, v, max), max)
         /\ \A old : Keeps(texts, old, max) => Keeps(Added(texts, v, max), old, max)
<1>1. CASE v \in ToSet(texts)
  BY <1>1 DEF Added
<1>2. CASE v \notin ToSet(texts)
  <2> DEFINE n == Len(texts)
             longer == Append(texts, v)
             newest == SubSeq(longer, Len(longer) - max + 1, Len(longer))
  <2>1. /\ texts \in Seq(Values) /\ n \in Nat /\ n <= max
        /\ longer \in Seq(Values) /\ Len(longer) = n + 1
        /\ \A i \in 1..n : longer[i] = texts[i]
    BY AppendProperties, LenProperties DEF Limited
  <2>2. Added(texts, v, max) = IF Len(longer) > max THEN newest ELSE longer
    BY <1>2 DEF Added
  <2>3. CASE n = max
    <3>1. Len(longer) - max + 1 = 2 /\ Len(longer) = max + 1
      BY <2>1, <2>3
    <3>2. newest \in Seq(Values) /\ Len(newest) = max
      <4>1. 2 \in 1..(max + 2) /\ max + 1 \in (2 - 1)..(max + 1) /\ max + 1 - 2 + 1 = max
        OBVIOUS
      <4> HIDE DEF longer
      <4> QED
        BY <2>1, <2>3, <3>1, <4>1, SubSeqProperties
    <3> QED
      BY <2>2, <3>1, <3>2 DEF Limited, Keeps
  <2>4. CASE n # max
    <3>1. Added(texts, v, max) = longer /\ Len(longer) <= max
      BY <2>1, <2>2, <2>4
    <3>2. ToSet(texts) \subseteq ToSet(longer)
      <4>1. DOMAIN texts = 1..n /\ DOMAIN longer = 1..(n + 1)
        BY <2>1, LenProperties
      <4> HIDE DEF longer
      <4>2. \A i \in 1..n : i \in 1..(n + 1) /\ longer[i] = texts[i]
        BY <2>1
      <4> QED
        BY <4>1, <4>2 DEF ToSet
    <3> QED
      BY <2>1, <2>4, <3>1, <3>2 DEF Limited, Keeps
  <2> QED
    BY <2>3, <2>4
<1> QED
  BY <1>1, <1>2

(* What the fold of a patch computes, on every set of positions of the new  *)
(* texts: the last of them is added to what the others made.                *)
Folded(g, s, texts, new, max) ==
  IF s = {} THEN texts ELSE Added(g[s \ {Max(s)}], new[Max(s)], max)

Folds(g, texts, new, max) == g = [s \in SUBSET DOMAIN new |-> Folded(g, s, texts, new, max)]

FoldedTexts(texts, new, max) == (CHOOSE g : Folds(g, texts, new, max))[DOMAIN new]

LEMMA FoldIs ==
  ASSUME NEW texts, NEW new
  PROVE  /\ FoldLeft(AddNote, texts, new) = FoldedTexts(texts, new, MaxNotes)
         /\ FoldLeft(AddLike, texts, new) = FoldedTexts(texts, new, MaxLikes)
BY DEF FoldLeft, MapThenFoldSet, FoldedTexts, Folds, Folded, AddNote, AddLike

(* A set of positions loses one with its largest.                           *)
LEMMA LastPosition ==
  ASSUME NEW n \in Nat, NEW s \in SUBSET (1..n), s # {}
  PROVE  /\ Max(s) \in 1..n /\ s \ {Max(s)} \in SUBSET (1..n)
         /\ IsFiniteSet(s) /\ Cardinality(s) \in Nat
         /\ Cardinality(s \ {Max(s)}) = Cardinality(s) - 1
         /\ Cardinality(s \ {Max(s)}) \in Nat
<1>1. Max(s) \in s /\ Max(s) \in 1..n
  BY Largest
<1>2. IsFiniteSet(1..n)
  BY FS_Interval
<1>3. IsFiniteSet(s)
  BY <1>2, FS_Subset
<1>4. Cardinality(s) \in Nat /\ IsFiniteSet(s \ {Max(s)})
  BY <1>3, FS_CardinalityType, FS_Subset
<1>5. Cardinality(s \ {Max(s)}) = Cardinality(s) - 1 /\ Cardinality(s \ {Max(s)}) \in Nat
  BY <1>1, <1>3, <1>4, FS_RemoveElement, FS_CardinalityType
<1> QED
  BY <1>1, <1>3, <1>4, <1>5

(* The sets of at most k positions *)
Small(n, k) == {s \in SUBSET (1..n) : Cardinality(s) <= k}

LEMMA FewerPositions ==
  ASSUME NEW n \in Nat, NEW k \in Nat, NEW s \in Small(n, k + 1), s # {}
  PROVE  Max(s) \in 1..n /\ s \ {Max(s)} \in Small(n, k)
<1>1. s \in SUBSET (1..n) /\ Cardinality(s) <= k + 1
  BY DEF Small
<1>2. /\ Max(s) \in 1..n /\ s \ {Max(s)} \in SUBSET (1..n) /\ Cardinality(s) \in Nat
      /\ Cardinality(s \ {Max(s)}) = Cardinality(s) - 1
  BY <1>1, LastPosition
<1>3. \A c \in Nat : c <= k + 1 => c - 1 <= k
  OBVIOUS
<1> QED
  BY <1>1, <1>2, <1>3 DEF Small

LEMMA FoldExists ==
  ASSUME NEW texts, NEW new, NEW n \in Nat, NEW max, DOMAIN new = 1..n
  PROVE  \E g : Folds(g, texts, new, max)
<1> DEFINE E(g, s) == Folded(g, s, texts, new, max)
           P(g, k) == g = [s \in Small(n, k) |-> E(g, s)]
           N == {k \in Nat : \E g : P(g, k)}
<1>1. \A s \in SUBSET (1..n) : IsFiniteSet(s) /\ Cardinality(s) \in 0..n
  <2>1. IsFiniteSet(1..n) /\ Cardinality(1..n) = IF 1 > n THEN 0 ELSE n - 1 + 1
    BY FS_Interval
  <2> TAKE s \in SUBSET (1..n)
  <2>2. IsFiniteSet(s) /\ Cardinality(s) <= Cardinality(1..n) /\ Cardinality(s) \in Nat
    BY <2>1, FS_Subset, FS_CardinalityType
  <2>3. Cardinality(1..n) = n
    BY <2>1
  <2> QED
    BY <2>2, <2>3
<1>2. ASSUME NEW k \in Nat, NEW s \in Small(n, k + 1), s # {}
      PROVE  s \ {Max(s)} \in Small(n, k)
  BY <1>2, FewerPositions
<1>3. 0 \in N
  <2> DEFINE g == [s \in Small(n, 0) |-> texts]
  <2>1. \A s \in Small(n, 0) : s = {}
    <3> SUFFICES ASSUME NEW s \in Small(n, 0) PROVE s = {}
      OBVIOUS
    <3>1. IsFiniteSet(s) /\ Cardinality(s) = 0
      BY <1>1 DEF Small
    <3> QED
      BY <3>1, FS_EmptySet
  <2>2. \A s \in Small(n, 0) : E(g, s) = texts
    BY <2>1 DEF Folded
  <2>3. P(g, 0)
    BY <2>2
  <2> HIDE DEF P, g
  <2> QED
    BY <2>3
<1>4. ASSUME NEW k \in Nat, k \in N PROVE k + 1 \in N
  <2>1. PICK h : P(h, k)
    BY <1>4
  <2> DEFINE g == [s \in Small(n, k + 1) |-> E(h, s)]
  <2>2. \A s \in Small(n, k) : s \in Small(n, k + 1) /\ h[s] = E(h, s)
    <3>1. \A s \in SUBSET (1..n) : Cardinality(s) <= k => Cardinality(s) <= k + 1
      BY <1>1
    <3>2. \A s \in Small(n, k) : h[s] = E(h, s)
      <4> HIDE DEF E
      <4> QED
        BY <2>1
    <3> QED
      BY <3>1, <3>2 DEF Small
  <2>3. \A s \in Small(n, k) : g[s] = h[s]
    <3> HIDE DEF E
    <3> QED
      BY <2>2
  <2>4. \A s \in Small(n, k + 1) : E(h, s) = E(g, s)
    BY <1>2, <2>3 DEF Folded
  <2>5. P(g, k + 1)
    <3> HIDE DEF E
    <3> QED
      BY <2>4
  <2> HIDE DEF P, g
  <2> QED
    BY <2>5
<1>5. n \in N
  <2> HIDE DEF N
  <2> QED
    BY <1>3, <1>4, Induction
<1>6. Small(n, n) = SUBSET DOMAIN new
  BY <1>1 DEF Small
<1>7. PICK g : P(g, n)
  BY <1>5
<1> QED
  BY <1>6, <1>7 DEF Folds

(* However many texts a patch adds: the list stays within its limit, and    *)
(* loses an old text only if it is full.                                    *)
LEMMA FoldedProperties ==
  ASSUME NEW max \in Nat \ {0}, NEW texts, Limited(texts, max), NEW new \in Seq(Values)
  PROVE  Limited(FoldedTexts(texts, new, max), max) /\ Keeps(FoldedTexts(texts, new, max), texts, max)
<1> DEFINE n == Len(new)
           g == CHOOSE f : Folds(f, texts, new, max)
           Fine(t) == Limited(t, max) /\ Keeps(t, texts, max)
           N == {k \in Nat : \A s \in Small(n, k) : Fine(g[s])}
<1>1. n \in Nat /\ DOMAIN new = 1..n /\ \A i \in 1..n : new[i] \in Values
  BY LenProperties, ElementOfSeq
<1>2. Folds(g, texts, new, max)
  BY <1>1, FoldExists
<1> HIDE DEF g, n
<1>3. \A s \in SUBSET (1..n) : g[s] = Folded(g, s, texts, new, max)
  BY <1>1, <1>2 DEF Folds
<1>4. Fine(texts)
  BY DEF Keeps
<1>5. \A t : \A v \in Values : Fine(t) => Fine(Added(t, v, max))
  BY AddedProperties
<1>6. 0 \in N
  <2>1. ASSUME NEW s \in Small(n, 0) PROVE s = {}
    <3>1. IsFiniteSet(1..n)
      BY <1>1, FS_Interval
    <3>2. IsFiniteSet(s) /\ Cardinality(s) \in Nat /\ Cardinality(s) <= 0
      BY <3>1, FS_Subset, FS_CardinalityType DEF Small
    <3> QED
      BY <3>2, FS_EmptySet
  <2>2. \A s \in Small(n, 0) : g[s] = texts
    BY <1>3, <2>1 DEF Folded
  <2> HIDE DEF Fine
  <2> QED
    BY <1>4, <2>2
<1>7. ASSUME NEW k \in Nat, k \in N PROVE k + 1 \in N
  <2> SUFFICES ASSUME NEW s \in Small(n, k + 1) PROVE Fine(g[s])
    OBVIOUS
  <2>1. CASE s = {}
    BY <1>3, <1>4, <2>1 DEF Folded
  <2>2. CASE s # {}
    <3> DEFINE r == s \ {Max(s)}
    <3>1. s \in SUBSET (1..n) /\ Cardinality(s) <= k + 1
      BY DEF Small
    <3>2. r \in Small(n, k) /\ Max(s) \in 1..n
      BY <1>1, <2>2, FewerPositions
    <3>3. g[s] = Added(g[r], new[Max(s)], max)
      BY <1>3, <2>2, <3>1 DEF Folded
    <3> HIDE DEF r, Fine
    <3>4. Fine(g[r]) /\ new[Max(s)] \in Values
      BY <1>1, <1>7, <3>2
    <3>5. Fine(Added(g[r], new[Max(s)], max))
      BY <1>5, <3>4
    <3> QED
      BY <3>3, <3>5
  <2> QED
    BY <2>1, <2>2
<1>8. n \in N
  <2> HIDE DEF N
  <2> QED
    BY <1>1, <1>6, <1>7, Induction
<1>9. 1..n \in Small(n, n)
  <2>1. Cardinality(1..n) = IF 1 > n THEN 0 ELSE n - 1 + 1
    BY <1>1, FS_Interval
  <2>2. Cardinality(1..n) <= n
    BY <1>1, <2>1
  <2> QED
    BY <2>2 DEF Small
<1> QED
  BY <1>1, <1>8, <1>9 DEF FoldedTexts, g, n

(* The profiles of every Memory, image and file are within their limits.    *)
InLimits(m) == Limited(m.likes, MaxLikes) /\ Limited(m.notes, MaxNotes)

LimitInv ==
  /\ \A c \in Copies : InLimits(mem[c])
  /\ \A g \in Goroutines : InLimits(image[g])
  /\ InLimits(last)
  /\ file # Garbled => InLimits(file)

(* An update or a clearing of a profile: it keeps a name and the texts of   *)
(* every list that is not full, or it keeps nothing.                        *)
Remembers(m, old) ==
  \/ m = Empty
  \/ /\ old.name # None => m.name # None
     /\ Keeps(m.likes, old.likes, MaxLikes)
     /\ Keeps(m.notes, old.notes, MaxNotes)

(* A Memory that somebody uses *)
Alive(c) == IF c = Shared THEN up ELSE at[c] = c

(* A Memory that is not stale is the last save, unless it has just changed. *)
KnowInv == ~torn => \A c \in Copies \ stale : Alive(c) =>
  Remembers(mem[c], last) /\ (~Busy(c) => mem[c] = last)

LEMMA EmptyInLimits == InLimits(Empty)
<1>1. <<>> \in Seq(Values) /\ Len(<<>>) = 0
  BY EmptySeq
<1>2. Empty.likes = <<>> /\ Empty.notes = <<>>
  BY DEF Empty
<1>3. 0 <= MaxLikes /\ 0 <= MaxNotes
  BY ProfileFileAssumption
<1> QED
  BY <1>1, <1>2, <1>3 DEF InLimits, Limited

LEMMA PatchedInLimits ==
  ASSUME NEW m, InLimits(m), NEW p \in Patches
  PROVE  InLimits(Patched(m, p)) /\ Remembers(Patched(m, p), m)
<1> DEFINE l == FoldedTexts(m.likes, p.likes, MaxLikes)
           t == FoldedTexts(m.notes, p.notes, MaxNotes)
<1>1. /\ p.likes \in Seq(Values) /\ p.notes \in Seq(Values)
      /\ MaxLikes \in Nat \ {0} /\ MaxNotes \in Nat \ {0}
  BY ProfileFileAssumption DEF Profiles
<1>2. Limited(m.likes, MaxLikes) /\ Limited(m.notes, MaxNotes)
  BY DEF InLimits
<1>3. Limited(l, MaxLikes) /\ Keeps(l, m.likes, MaxLikes)
  BY <1>1, <1>2, FoldedProperties
<1>4. Limited(t, MaxNotes) /\ Keeps(t, m.notes, MaxNotes)
  BY <1>1, <1>2, FoldedProperties
<1>5. Patched(m, p).likes = l /\ Patched(m, p).notes = t
  BY FoldIs DEF Patched
<1>6. m.name # None => Patched(m, p).name # None
  BY DEF Patched
<1> HIDE DEF l, t
<1> QED
  BY <1>3, <1>4, <1>5, <1>6 DEF InLimits, Remembers

(* What a change leaves in a Memory *)
LEMMA ChangedProfile ==
  ASSUME IInv, LimitInv, NEW g \in Goroutines, Clear(g) \/ \E p \in Patches : Update(g, p)
  PROVE  \E m : Changes(g, m) /\ InLimits(m) /\ Remembers(m, mem[at[g]])
<1>1. CASE Clear(g)
  BY <1>1, EmptyInLimits DEF Clear, Remembers
<1>2. CASE \E p \in Patches : Update(g, p)
  <2>1. PICK p \in Patches : Update(g, p)
    BY <1>2
  <2>2. at[g] \in Copies
    BY <2>1 DEF Update, IInv, TypeOK
  <2>3. InLimits(mem[at[g]])
    BY <2>2 DEF LimitInv
  <2>4. InLimits(Patched(mem[at[g]], p)) /\ Remembers(Patched(mem[at[g]], p), mem[at[g]])
    BY <2>3, PatchedInLimits
  <2>5. Changes(g, Patched(mem[at[g]], p))
    BY <2>1 DEF Update
  <2> QED
    BY <2>4, <2>5
<1> QED
  BY <1>1, <1>2

LEMMA LimitKept == ASSUME IInv, LimitInv, [Next]_vars PROVE LimitInv'
<1> USE NoneIsNone DEF IInv
<1>1. CASE Start
  BY <1>1 DEF Start, LimitInv, TypeOK
<1>2. ASSUME NEW g \in Goroutines, TaskBegins(g) PROVE LimitInv'
  BY <1>2 DEF TaskBegins, LimitInv, TypeOK
<1>3. ASSUME NEW g \in Goroutines, Clear(g) \/ \E p \in Patches : Update(g, p) PROVE LimitInv'
  <2>1. PICK m : Changes(g, m) /\ InLimits(m)
    BY <1>3, ChangedProfile
  <2> QED
    BY <2>1 DEF Changes, LimitInv, TypeOK
<1>4. ASSUME NEW g \in Goroutines, Truncate(g) PROVE LimitInv'
  BY <1>4, EmptyInLimits DEF Truncate, LimitInv, history
<1>5. ASSUME NEW g \in Goroutines, Write(g) PROVE LimitInv'
  BY <1>5 DEF Write, LimitInv
<1>6. ASSUME NEW g \in Goroutines, SaveFails(g) PROVE LimitInv'
  BY <1>6 DEF SaveFails, LimitInv
<1>7. CASE Crash
  BY <1>7 DEF Crash, LimitInv
<1>8. CASE UNCHANGED <<file, mem, image, last>>
  BY <1>8 DEF LimitInv
<1> QED
  BY <1>1, <1>2, <1>3, <1>4, <1>5, <1>6, <1>7, <1>8 DEF Next, TaskEnds, vars, history

(* A goroutine that saves has the lock of its Memory: nobody else is busy   *)
(* with it.                                                                 *)
LEMMA OneIsBusy ==
  ASSUME IInv, NEW g \in Goroutines, NEW h \in Goroutines, at[g] = at[h],
         pc[g] # "idle", pc[h] # "idle"
  PROVE  g = h
BY DEF IInv, BusyInv

LEMMA KnowKept == ASSUME IInv, LimitInv, KnowInv, [Next]_vars PROVE KnowInv'
<1> USE NoneIsNone DEF IInv
<1>1. CASE Start
  <2>1. /\ mem' = [mem EXCEPT ![Shared] = file] /\ torn' = torn /\ last' = last
        /\ at' = [g \in Goroutines |-> IF g \in Tasks THEN None ELSE Shared]
        /\ \A g \in Goroutines : pc'[g] = "idle"
    BY <1>1 DEF Start, BusyInv
  <2>2. ~torn => file = last
    BY <1>1 DEF Start, MayLoad, FileInv
  <2>3. ASSUME NEW c \in Copies, Alive(c)' PROVE c = Shared
    BY <2>1, <2>3 DEF Alive, Copies
  <2>4. \A m : Remembers(m, m)
    BY DEF Remembers, Keeps
  <2> QED
    BY <2>1, <2>2, <2>3, <2>4 DEF KnowInv, TypeOK
<1>2. ASSUME NEW g \in Goroutines, TaskBegins(g) PROVE KnowInv'
  <2>1. /\ g \in Tasks /\ g \in Copies /\ g # Shared /\ up' = up /\ torn' = torn /\ last' = last
        /\ pc' = pc /\ pc[g] = "idle" /\ at[g] = None
    BY <1>2 DEF TaskBegins, Copies, BusyInv
  <2>2. \A m : Remembers(m, m)
    BY DEF Remembers, Keeps
  <2>3. CASE at' = [at EXCEPT ![g] = Shared] /\ UNCHANGED <<mem, stale>>
    <3>1. \A c \in Copies : (Alive(c)' => Alive(c)) /\ (Busy(c) => Busy(c)')
      BY <2>1, <2>3 DEF Alive, Busy, TypeOK
    <3> QED
      BY <2>1, <2>3, <3>1 DEF KnowInv
  <2>4. CASE /\ at' = [at EXCEPT ![g] = g] /\ mem' = [mem EXCEPT ![g] = file]
             /\ stale' = AfterLoad(g)
    <3>1. \A c \in Copies \ {g} : (Alive(c)' => Alive(c)) /\ (Busy(c) => Busy(c)')
      BY <2>1, <2>4 DEF Alive, Busy, TypeOK
    <3>2. ~torn => file = last
      BY <1>2 DEF TaskBegins, MayLoad, FileInv
    <3>3. \A c \in Copies \ {g} : mem'[c] = mem[c]
      BY <2>4 DEF TypeOK
    <3>4. mem'[g] = file
      BY <2>1, <2>4 DEF TypeOK
    <3>5. ~torn => Copies \ stale' \subseteq (Copies \ stale) \cup {g}
      BY <2>4 DEF AfterLoad
    <3> QED
      BY <2>1, <2>2, <3>1, <3>2, <3>3, <3>4, <3>5 DEF KnowInv
  <2> QED
    BY <1>2, <2>3, <2>4 DEF TaskBegins
<1>3. ASSUME NEW g \in Goroutines, TaskEnds(g) PROVE KnowInv'
  <2>1. /\ UNCHANGED <<up, mem, pc, last, stale, torn>> /\ pc[g] = "idle"
        /\ at' = [at EXCEPT ![g] = None]
    BY <1>3 DEF TaskEnds, history
  <2>2. \A c \in Copies : (Alive(c)' => Alive(c)) /\ (Busy(c) => Busy(c)')
    BY <2>1 DEF Alive, Busy, TypeOK
  <2> QED
    BY <2>1, <2>2 DEF KnowInv
<1>4. ASSUME NEW g \in Goroutines, Clear(g) \/ \E p \in Patches : Update(g, p) PROVE KnowInv'
  <2>1. PICK m : Changes(g, m) /\ Remembers(m, mem[at[g]])
    BY <1>4, ChangedProfile
  <2>2. /\ at[g] \in Copies /\ pc[g] = "idle" /\ mu[at[g]] = None
        /\ UNCHANGED <<up, at, last, stale, torn>>
        /\ mem' = [mem EXCEPT ![at[g]] = m] /\ pc' = [pc EXCEPT ![g] = "changed"]
    BY <2>1 DEF Changes, TypeOK
  <2>3. ~Busy(at[g])
    BY <2>2 DEF Busy, BusyInv
  <2>4. /\ \A c \in Copies : Alive(c)' = Alive(c) /\ (Busy(c) => Busy(c)')
        /\ Busy(at[g])'
    BY <2>2 DEF Alive, Busy, TypeOK
  <2>5. mem'[at[g]] = m /\ \A c \in Copies \ {at[g]} : mem'[c] = mem[c]
    BY <2>2 DEF TypeOK
  <2> QED
    BY <2>1, <2>2, <2>3, <2>4, <2>5 DEF KnowInv
<1>5. ASSUME NEW g \in Goroutines, Truncate(g) PROVE KnowInv'
  <2>1. UNCHANGED <<up, at, mem, last, stale, torn>> /\ pc' = [pc EXCEPT ![g] = "writing"]
    BY <1>5 DEF Truncate, history
  <2>2. \A c \in Copies : Alive(c)' = Alive(c) /\ (Busy(c) => Busy(c)')
    BY <2>1 DEF Alive, Busy, TypeOK
  <2> QED
    BY <2>1, <2>2 DEF KnowInv
<1>6. ASSUME NEW g \in Goroutines, Write(g) PROVE KnowInv'
  <2>1. /\ image[g] = mem[at[g]] /\ last' = image[g] /\ mem' = mem
        /\ Copies \ stale' \subseteq {at[g]}
    BY <1>6 DEF Write, BusyInv
  <2>2. \A m : Remembers(m, m)
    BY DEF Remembers, Keeps
  <2> QED
    BY <2>1, <2>2 DEF KnowInv
<1>7. ASSUME NEW g \in Goroutines, SaveFails(g) PROVE KnowInv'
  BY <1>7 DEF SaveFails, KnowInv
<1>8. CASE Crash
  <2>1. ~up' /\ \A g \in Goroutines : at'[g] = None
    BY <1>8 DEF Crash
  <2>2. \A c \in Copies : ~Alive(c)'
    BY <2>1 DEF Alive, Copies
  <2> QED
    BY <2>2 DEF KnowInv
<1>9. CASE UNCHANGED vars
  BY <1>9 DEF vars, history, KnowInv, Alive, Busy
<1> QED
  BY <1>1, <1>2, <1>3, <1>4, <1>5, <1>6, <1>7, <1>8, <1>9 DEF Next

(* The inductive invariant of what the Memories know of each other.         *)
THEOREM KnowledgeInvariance == Spec => [](IInv /\ LimitInv /\ KnowInv)
<1>1. Init => IInv /\ LimitInv /\ KnowInv
  <2> SUFFICES ASSUME Init PROVE IInv /\ LimitInv /\ KnowInv
    OBVIOUS
  <2>1. IInv
    BY InitInv
  <2>2. LimitInv
    BY EmptyInLimits DEF Init, LimitInv
  <2>3. KnowInv
    BY NoneIsNone DEF Init, KnowInv, Alive, Copies
  <2> QED
    BY <2>1, <2>2, <2>3
<1>2. (IInv /\ LimitInv /\ KnowInv) /\ [Next]_vars => (IInv /\ LimitInv /\ KnowInv)'
  BY NextInv, LimitKept, KnowKept
<1> QED
  BY <1>1, <1>2, PTL DEF Spec

(* Whatever is updated, by whomever and from wherever it was loaded: every  *)
(* profile, in memory and on file, has at most MaxLikes and MaxNotes texts. *)
THEOREM ProfilesWithinLimits == Spec => []LimitInv
BY KnowledgeInvariance, PTL

(* A save forgets a name, or a text of a list that is not full, only if the *)
(* whole profile was cleared, or a save had failed, or the Memory had not   *)
(* seen the last save: with parallel updates and any crashes, no other      *)
(* update is lost.                                                          *)
THEOREM UpdatesAreKept == Spec => OnlyStaleForgets
<1> DEFINE Loses   == Forgets(last, last')
           Excused == last' = Empty \/ torn \/ author' \in stale
<1>1. IInv /\ LimitInv /\ KnowInv /\ Next => (Loses => Excused)
  <2> SUFFICES ASSUME IInv, KnowInv, Next, Loses, ~torn, author' \notin stale
               PROVE  last' = Empty
    OBVIOUS
  <2> USE NoneIsNone DEF IInv
  <2>1. last' # last
    BY DEF Forgets, Lost
  <2>2. PICK g \in Goroutines : Write(g)
    BY <2>1 DEF Next, Start, Crash, TaskBegins, TaskEnds, Clear, Update, Changes, Truncate,
                SaveFails, history
  <2>3. /\ pc[g] = "writing" /\ at[g] \in Copies \ stale /\ author' = at[g]
        /\ last' = mem[at[g]]
    BY <2>2 DEF Write, BusyInv, TypeOK
  <2>4. Alive(at[g])
    BY <2>3 DEF Alive, BusyInv
  <2>5. Remembers(last', last)
    BY <2>3, <2>4 DEF KnowInv
  <2> QED
    BY <2>5 DEF Remembers, Keeps, Forgets, Lost
<1> HIDE DEF Loses, Excused
<1>2. IInv /\ LimitInv /\ KnowInv /\ [Next]_vars => [Loses => Excused]_vars
  BY <1>1
<1>3. Spec => [][Loses => Excused]_vars
  BY <1>2, KnowledgeInvariance, PTL DEF Spec
<1> QED
  BY <1>3 DEF OnlyStaleForgets, Loses, Excused
=============================================================================
