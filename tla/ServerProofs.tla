----------------------------- MODULE ServerProofs -----------------------------
(***************************************************************************)
(* Theorems about the server: RunRegistry, HttpRuns and ServerChannel, for *)
(* any number of runs, sessions and clients, any MaxRecords, with or       *)
(* without a timeout.                                                      *)
(*                                                                         *)
(* The registry comes first.  SessionExclusive is not inductive: what      *)
(* keeps two runs of one session apart is that the entry of bySession is   *)
(* set by Register, names its run until Finish, and is looked at before    *)
(* the next registration.  IInv says so, and relates the record, the       *)
(* goroutine and the callers of each run.                                  *)
(*                                                                         *)
(* Seen without agents and histories the steps of HttpRuns are the         *)
(* registry's, so its theorems hold there too.  From them follows what no  *)
(* lock guards: a history that was loaded is still the stored one when it  *)
(* is saved.                                                               *)
(*                                                                         *)
(* Without the channel and the counters the steps of ServerChannel are     *)
(* those of HttpRuns, so all of this is true of the server.  What the      *)
(* channel is told needs an invariant of its own: how far OnDone is with a *)
(* run says which entries of the transcript are the run's.                 *)
(***************************************************************************)
EXTENDS ServerChannel, FiniteSetTheorems, FunctionTheorems, TLAPS

----------------------------------------------------------------------------
(* The registry *)

(* The entry of a session and the goroutine of its run agree. *)
SessionInv ==
  /\ \A r \in Runs : Active(r) => sess[r] \in Sessions /\ bySession[sess[r]] = r
  /\ \A s \in Sessions : bySession[s] # NoRun =>
       Active(bySession[s]) /\ sess[bySession[s]] = s

(* The record and the goroutine of a run agree. *)
RecordInv ==
  \A r \in Runs :
    /\ byID[r] = "running" <=> Active(r)
    /\ exec[r] = "none" => byID[r] = "absent"
    /\ call[r] = "none" => exec[r] = "none"

(* A failed delivery is on the record, as long as there is one. *)
DeliveryInv ==
  \A r \in Runs :
    /\ r \in annotated => r \in undelivered
    /\ r \in undelivered => exec[r] \in {"closing", "done"}
    /\ r \in undelivered /\ byID[r] # "absent" => r \in annotated

(* A Cancel under way is about a run that was registered; once it has fired *)
(* the context of that run is done until finish has read it.                *)
CancelInv ==
  \A c \in Clients : cancel[c] # "idle" =>
    /\ target[c] \in Runs
    /\ exec[target[c]] # "none"
    /\ cancel[c] = "waiting" /\ Active(target[c]) => target[c] \in ctxDone

IInv == TypeOK /\ SessionInv /\ RecordInv /\ DeliveryInv /\ CancelInv

----------------------------------------------------------------------------
(* The status finish computes is a terminal one. *)
LEMMA FinalStatusType == \A r \in Runs : FinalStatus(r) \in Terminal
BY DEF FinalStatus, Terminal

(* Giving up a session changes at most the entry of this run's session, and *)
(* only if it names this run.                                               *)
LEMMA ReleaseType ==
  ASSUME NEW r \in Runs, TypeOK
  PROVE  Release(r) \in [Sessions -> Runs \cup {NoRun}]
BY DEF Release, TypeOK

(* Every variable keeps its type.  That Cancel marks the context of a run   *)
(* that exists needs CancelInv.                                             *)
LEMMA TypeStep == TypeOK /\ CancelInv /\ [Next]_vars => TypeOK'
<1> SUFFICES ASSUME TypeOK, CancelInv, [Next]_vars PROVE TypeOK'
  OBVIOUS
<1> USE DEF TypeOK, Terminal
<1>1. ASSUME NEW r \in Runs, NEW s \in Sessions, NEW wait \in BOOLEAN,
             Register(r, s, wait)
      PROVE  TypeOK'
  BY <1>1 DEF Register
<1>2. ASSUME NEW r \in Runs, NEW s \in Sessions, Conflict(r, s)
      PROVE  TypeOK'
  BY <1>2 DEF Conflict, registry
<1>3. ASSUME NEW r \in Runs, ContextEnds(r)
      PROVE  TypeOK'
  BY <1>3 DEF ContextEnds, registry, callers
<1>4. ASSUME NEW r \in Runs, NEW err \in BOOLEAN, RunnerReturns(r, err)
      PROVE  TypeOK'
  BY <1>4 DEF RunnerReturns, registry, callers
<1>5. ASSUME NEW r \in Runs, Finish(r)
      PROVE  TypeOK'
  <2>1. byID' \in [Runs -> {"absent", "running"} \cup Terminal] /\ annotated' \subseteq Runs
    BY <1>5, FinalStatusType DEF Finish
  <2>2. clock' \in Nat /\ finishedAt' \in [Runs -> Nat]
    BY <1>5 DEF Finish
  <2>3. bySession' \in [Sessions -> Runs \cup {NoRun}]
    BY <1>5, ReleaseType DEF Finish
  <2> QED
    BY <1>5, <2>1, <2>2, <2>3 DEF Finish, callers
<1>6. ASSUME NEW r \in Runs, NEW fails \in BOOLEAN, OnDone(r, fails)
      PROVE  TypeOK'
  BY <1>6 DEF OnDone, callers
<1>7. ASSUME NEW r \in Runs, CloseDone(r) \/ StartReturns(r)
      PROVE  TypeOK'
  BY <1>7 DEF CloseDone, StartReturns, registry, callers
<1>8. ASSUME NEW c \in Clients, NEW r \in Runs, CancelLooks(c, r)
      PROVE  TypeOK'
  BY <1>8 DEF CancelLooks, registry
<1>9. ASSUME NEW c \in Clients, CancelFires(c) \/ CancelReturns(c)
      PROVE  TypeOK'
  <2>1. CASE CancelFires(c)
    <3>1. ctxDone' \subseteq Runs
      BY <2>1 DEF CancelFires, CancelInv
    <3> QED
      BY <2>1, <3>1 DEF CancelFires, registry
  <2>2. CASE CancelReturns(c)
    BY <2>2 DEF CancelReturns, registry
  <2> QED
    BY <1>9, <2>1, <2>2
<1>10. CASE UNCHANGED vars
  BY <1>10 DEF vars, registry, callers
<1> QED
  BY <1>1, <1>2, <1>3, <1>4, <1>5, <1>6, <1>7, <1>8, <1>9, <1>10 DEF Next, Goroutine

(* The table of sessions: only Register and Finish touch it. *)
LEMMA SessionStep == IInv /\ [Next]_vars => SessionInv'
<1> SUFFICES ASSUME IInv, [Next]_vars PROVE SessionInv'
  OBVIOUS
<1> USE RunsAssumption DEF IInv, SessionInv, Active
<1>1. ASSUME NEW r \in Runs, NEW s \in Sessions, NEW wait \in BOOLEAN,
             Register(r, s, wait)
      PROVE  SessionInv'
  <2>1. exec[r] = "none" /\ bySession[s] = NoRun
    BY <1>1 DEF Register, Free, RecordInv
  <2>2. \A q \in Runs : Active(q)' => sess'[q] \in Sessions /\ bySession'[sess'[q]] = q
    BY <1>1, <2>1 DEF Register, TypeOK
  <2>3. \A x \in Sessions : bySession'[x] # NoRun =>
           Active(bySession[x])' /\ sess'[bySession'[x]] = x
    BY <1>1, <2>1 DEF Register, TypeOK
  <2> QED
    BY <2>2, <2>3
<1>2. ASSUME NEW r \in Runs, NEW s \in Sessions, Conflict(r, s)
      PROVE  SessionInv'
  BY <1>2 DEF Conflict, registry
<1>3. ASSUME NEW r \in Runs, ContextEnds(r) \/ CloseDone(r) \/ StartReturns(r)
      PROVE  SessionInv'
  BY <1>3 DEF ContextEnds, CloseDone, StartReturns, registry, callers, TypeOK
<1>4. ASSUME NEW r \in Runs, NEW err \in BOOLEAN, RunnerReturns(r, err)
      PROVE  SessionInv'
  BY <1>4 DEF RunnerReturns, registry, callers, TypeOK
<1>5. ASSUME NEW r \in Runs, Finish(r)
      PROVE  SessionInv'
  BY <1>5 DEF Finish, Release, TypeOK
<1>6. ASSUME NEW r \in Runs, NEW fails \in BOOLEAN, OnDone(r, fails)
      PROVE  SessionInv'
  BY <1>6 DEF OnDone, callers, TypeOK
<1>7. ASSUME NEW c \in Clients, NEW r \in Runs, CancelLooks(c, r)
      PROVE  SessionInv'
  BY <1>7 DEF CancelLooks, registry
<1>8. ASSUME NEW c \in Clients, CancelFires(c) \/ CancelReturns(c)
      PROVE  SessionInv'
  BY <1>8 DEF CancelFires, CancelReturns, registry
<1>9. CASE UNCHANGED vars
  BY <1>9 DEF vars, registry, callers
<1> QED
  BY <1>1, <1>2, <1>3, <1>4, <1>5, <1>6, <1>7, <1>8, <1>9 DEF Next, Goroutine

(* A record is running exactly as long as its goroutine is: eviction takes  *)
(* terminal records only.                                                   *)
LEMMA RecordStep == IInv /\ [Next]_vars => RecordInv'
<1> SUFFICES ASSUME IInv, [Next]_vars PROVE RecordInv'
  OBVIOUS
<1> USE DEF IInv, TypeOK, RecordInv, Active
<1>1. ASSUME NEW r \in Runs, NEW s \in Sessions, NEW wait \in BOOLEAN,
             Register(r, s, wait)
      PROVE  RecordInv'
  BY <1>1 DEF Register
<1>2. ASSUME NEW r \in Runs, NEW s \in Sessions, Conflict(r, s)
      PROVE  RecordInv'
  BY <1>2 DEF Conflict, registry
<1>3. ASSUME NEW r \in Runs, ContextEnds(r) \/ CloseDone(r) \/ StartReturns(r)
      PROVE  RecordInv'
  BY <1>3 DEF ContextEnds, CloseDone, StartReturns, registry, callers
<1>4. ASSUME NEW r \in Runs, NEW err \in BOOLEAN, RunnerReturns(r, err)
      PROVE  RecordInv'
  BY <1>4 DEF RunnerReturns, registry, callers
<1>5. ASSUME NEW r \in Runs, Finish(r)
      PROVE  RecordInv'
  <2> DEFINE recs == [byID EXCEPT ![r] = FinalStatus(r)]
  <2>1. PICK victims \in SUBSET Runs :
          /\ Evicts(victims, recs, finishedAt')
          /\ byID' = [x \in Runs |-> IF x \in victims THEN "absent" ELSE recs[x]]
    BY <1>5 DEF Finish
  <2>2. \A x \in victims : recs[x] # "running"
    BY <2>1 DEF Evicts, Terminal
  <2>3. recs[r] # "running"
    BY FinalStatusType DEF Terminal
  <2>4. exec' = [exec EXCEPT ![r] = "callback"] /\ call' = call
    BY <1>5 DEF Finish, callers
  <2>5. \A x \in Runs : byID'[x] = "running" <=> byID[x] = "running" /\ x # r
    BY <2>1, <2>2, <2>3
  <2>6. \A x \in Runs : x # r /\ byID[x] = "absent" => byID'[x] = "absent"
    BY <2>1
  <2>7. exec[r] = "returned"
    BY <1>5 DEF Finish
  <2> QED
    BY <2>4, <2>5, <2>6, <2>7
<1>6. ASSUME NEW r \in Runs, NEW fails \in BOOLEAN, OnDone(r, fails)
      PROVE  RecordInv'
  BY <1>6 DEF OnDone, callers
<1>7. ASSUME NEW c \in Clients, NEW r \in Runs, CancelLooks(c, r)
      PROVE  RecordInv'
  BY <1>7 DEF CancelLooks, registry
<1>8. ASSUME NEW c \in Clients, CancelFires(c) \/ CancelReturns(c)
      PROVE  RecordInv'
  BY <1>8 DEF CancelFires, CancelReturns, registry
<1>9. CASE UNCHANGED vars
  BY <1>9 DEF vars, registry, callers
<1> QED
  BY <1>1, <1>2, <1>3, <1>4, <1>5, <1>6, <1>7, <1>8, <1>9 DEF Next, Goroutine

(* Only OnDone records a failed delivery; eviction only takes records away. *)
LEMMA DeliveryStep == IInv /\ [Next]_vars => DeliveryInv'
<1> SUFFICES ASSUME IInv, [Next]_vars PROVE DeliveryInv'
  OBVIOUS
<1> USE DEF IInv, TypeOK, DeliveryInv
<1>1. ASSUME NEW r \in Runs, NEW s \in Sessions, NEW wait \in BOOLEAN,
             Register(r, s, wait)
      PROVE  DeliveryInv'
  BY <1>1 DEF Register, RecordInv
<1>2. ASSUME NEW r \in Runs, NEW s \in Sessions, Conflict(r, s)
      PROVE  DeliveryInv'
  BY <1>2 DEF Conflict, registry
<1>3. ASSUME NEW r \in Runs, ContextEnds(r) \/ CloseDone(r) \/ StartReturns(r)
      PROVE  DeliveryInv'
  BY <1>3 DEF ContextEnds, CloseDone, StartReturns, registry, callers
<1>4. ASSUME NEW r \in Runs, NEW err \in BOOLEAN, RunnerReturns(r, err)
      PROVE  DeliveryInv'
  BY <1>4 DEF RunnerReturns, registry, callers
<1>5. ASSUME NEW r \in Runs, Finish(r)
      PROVE  DeliveryInv'
  <2> DEFINE recs == [byID EXCEPT ![r] = FinalStatus(r)]
  <2>1. PICK victims \in SUBSET Runs :
          /\ byID' = [x \in Runs |-> IF x \in victims THEN "absent" ELSE recs[x]]
          /\ annotated' = annotated \ victims
    BY <1>5 DEF Finish
  <2>2. undelivered' = undelivered /\ exec' = [exec EXCEPT ![r] = "callback"]
        /\ exec[r] = "returned"
    BY <1>5 DEF Finish
  <2>3. r \notin undelivered
    BY <2>2
  <2>4. \A x \in Runs : x # r /\ byID'[x] # "absent" =>
          byID[x] # "absent" /\ x \notin victims
    BY <2>1
  <2> QED
    BY <2>1, <2>2, <2>3, <2>4
<1>6. ASSUME NEW r \in Runs, NEW fails \in BOOLEAN, OnDone(r, fails)
      PROVE  DeliveryInv'
  BY <1>6 DEF OnDone, callers
<1>7. ASSUME NEW c \in Clients, NEW r \in Runs, CancelLooks(c, r)
      PROVE  DeliveryInv'
  BY <1>7 DEF CancelLooks, registry
<1>8. ASSUME NEW c \in Clients, CancelFires(c) \/ CancelReturns(c)
      PROVE  DeliveryInv'
  BY <1>8 DEF CancelFires, CancelReturns, registry
<1>9. CASE UNCHANGED vars
  BY <1>9 DEF vars, registry, callers
<1> QED
  BY <1>1, <1>2, <1>3, <1>4, <1>5, <1>6, <1>7, <1>8, <1>9 DEF Next, Goroutine

(* A context that a Cancel ended stays ended while its run is under way.    *)
LEMMA CancelStep == IInv /\ [Next]_vars => CancelInv'
<1> SUFFICES ASSUME IInv, [Next]_vars PROVE CancelInv'
  OBVIOUS
<1> USE DEF IInv, TypeOK, CancelInv, Active
<1>1. ASSUME NEW r \in Runs, NEW s \in Sessions, NEW wait \in BOOLEAN,
             Register(r, s, wait)
      PROVE  CancelInv'
  <2>1. exec[r] = "none"
    BY <1>1 DEF Register, RecordInv
  <2> QED
    BY <1>1, <2>1 DEF Register
<1>2. ASSUME NEW r \in Runs, NEW s \in Sessions, Conflict(r, s)
      PROVE  CancelInv'
  BY <1>2 DEF Conflict, registry
<1>3. ASSUME NEW r \in Runs, ContextEnds(r) \/ CloseDone(r) \/ StartReturns(r)
      PROVE  CancelInv'
  BY <1>3 DEF ContextEnds, CloseDone, StartReturns, registry, callers
<1>4. ASSUME NEW r \in Runs, NEW err \in BOOLEAN, RunnerReturns(r, err)
      PROVE  CancelInv'
  BY <1>4 DEF RunnerReturns, registry, callers
<1>5. ASSUME NEW r \in Runs, Finish(r)
      PROVE  CancelInv'
  BY <1>5 DEF Finish, callers
<1>6. ASSUME NEW r \in Runs, NEW fails \in BOOLEAN, OnDone(r, fails)
      PROVE  CancelInv'
  BY <1>6 DEF OnDone, callers
<1>7. ASSUME NEW c \in Clients, NEW r \in Runs, CancelLooks(c, r)
      PROVE  CancelInv'
  BY <1>7 DEF CancelLooks, registry, RecordInv
<1>8. ASSUME NEW c \in Clients, CancelFires(c)
      PROVE  CancelInv'
  BY <1>8 DEF CancelFires, registry
<1>9. ASSUME NEW c \in Clients, CancelReturns(c)
      PROVE  CancelInv'
  BY <1>9 DEF CancelReturns, registry
<1>10. CASE UNCHANGED vars
  BY <1>10 DEF vars, registry, callers
<1> QED
  BY <1>1, <1>2, <1>3, <1>4, <1>5, <1>6, <1>7, <1>8, <1>9, <1>10 DEF Next, Goroutine

----------------------------------------------------------------------------
(* IInv holds when the registry is created. *)
LEMMA InitInv == Init => IInv
BY RunsAssumption
DEF Init, IInv, TypeOK, SessionInv, RecordInv, DeliveryInv, CancelInv, Active, Terminal

(* Every step preserves IInv. *)
LEMMA NextInv == IInv /\ [Next]_vars => IInv'
BY TypeStep, SessionStep, RecordStep, DeliveryStep, CancelStep DEF IInv

(* IInv is an inductive invariant. *)
THEOREM Invariance == Spec => []IInv
BY InitInv, NextInv, PTL DEF Spec

(* The types of the state, for every instance. *)
THEOREM TypeCorrect == Spec => []TypeOK
BY Invariance, PTL DEF IInv

(* At most one run of a session executes at any time. *)
THEOREM SessionExclusion == Spec => []SessionExclusive
<1>1. IInv => SessionExclusive
  BY DEF IInv, SessionInv, SessionExclusive
<1> QED
  BY <1>1, Invariance, PTL

(* Eviction never takes the record of a run that is under way: finish       *)
(* always finds it.                                                         *)
THEOREM RunningStays == Spec => []RunningNeverEvicted
<1>1. IInv => RunningNeverEvicted
  BY DEF IInv, RecordInv, RunningNeverEvicted
<1> QED
  BY <1>1, Invariance, PTL

(* The number InFlight returns, the size of bySession, is the number of     *)
(* running records: sess maps them one to one onto the taken sessions.      *)
THEOREM InFlightCounts == Spec => []InFlightExact
<1> DEFINE taken   == {s \in Sessions : bySession[s] # NoRun}
           running == {r \in Runs : byID[r] = "running"}
           f       == [r \in running |-> sess[r]]
<1>1. IInv => InFlightExact
  <2> SUFFICES ASSUME IInv PROVE Cardinality(taken) = Cardinality(running)
    BY DEF InFlightExact
  <2>1. IsFiniteSet(running)
    BY RunsAssumption, FS_Subset
  <2>2. f \in Bijection(running, taken)
    <3> USE RunsAssumption DEF IInv, TypeOK, SessionInv, RecordInv
    <3>1. f \in [running -> taken]
      OBVIOUS
    <3>2. \A q, r \in running : f[q] = f[r] => q = r
      OBVIOUS
    <3>3. \A s \in taken : \E r \in running : f[r] = s
      OBVIOUS
    <3> QED
      BY <3>1, <3>2, <3>3, Fun_IsBij
  <2> QED
    BY <2>1, <2>2, FS_Bijection DEF ExistsBijection
<1> QED
  BY <1>1, Invariance, PTL

(* While a Cancel has fired and waits, its run ends as cancelled only: of   *)
(* all steps only Finish makes a running record terminal, and it looks at   *)
(* the context first.                                                       *)
THEOREM CancelPrevails == Spec => CancelWins
<1> DEFINE Wins(c, r) ==
             /\ cancel[c] = "waiting" /\ target[c] = r
             /\ byID[r] = "running" /\ byID'[r] \in Terminal
             => byID'[r] = "cancelled"
<1>1. IInv /\ [Next]_vars => \A c \in Clients, r \in Runs : Wins(c, r)
  <2> SUFFICES ASSUME IInv, [Next]_vars, NEW c \in Clients, NEW r \in Runs,
                      cancel[c] = "waiting", target[c] = r,
                      byID[r] = "running", byID'[r] \in Terminal
               PROVE  byID'[r] = "cancelled"
    OBVIOUS
  <2> USE DEF IInv, TypeOK
  <2>1. r \in ctxDone
    BY DEF CancelInv, RecordInv
  <2>2. ASSUME NEW q \in Runs, Finish(q)
        PROVE  byID'[r] = "cancelled"
    BY <2>1, <2>2 DEF Finish, FinalStatus, Terminal
  <2>3. ASSUME NEW q \in Runs, NEW s \in Sessions,
               Conflict(q, s) \/ \E wait \in BOOLEAN : Register(q, s, wait)
        PROVE  byID'[r] \notin Terminal
    BY <2>3 DEF Conflict, Register, registry, Terminal
  <2>4. ASSUME NEW q \in Runs,
               \/ ContextEnds(q) \/ CloseDone(q) \/ StartReturns(q)
               \/ \E b \in BOOLEAN : RunnerReturns(q, b) \/ OnDone(q, b)
        PROVE  byID'[r] \notin Terminal
    BY <2>4 DEF ContextEnds, CloseDone, StartReturns, RunnerReturns, OnDone, registry, Terminal
  <2>5. ASSUME NEW d \in Clients,
               CancelFires(d) \/ CancelReturns(d) \/ \E q \in Runs : CancelLooks(d, q)
        PROVE  byID'[r] \notin Terminal
    BY <2>5 DEF CancelFires, CancelReturns, CancelLooks, registry, Terminal
  <2>6. CASE UNCHANGED vars
    BY <2>6 DEF vars, registry, Terminal
  <2> QED
    BY <2>2, <2>3, <2>4, <2>5, <2>6 DEF Next, Goroutine
<1> QED
  BY <1>1, Invariance, PTL DEF Spec, CancelWins

(* A waiting Start answers with the outcome and the delivery error: only    *)
(* StartReturns answers, and done is closed after finish and OnDone.        *)
THEOREM WaiterIsTold == Spec => WaiterSeesOutcome
<1> DEFINE Told(r) == /\ byID[r] \in Terminal
                      /\ r \in annotated <=> r \in undelivered
                      /\ exec[r] = "done"
           Answered(r) == call[r] = "waiting" /\ call'[r] = "answered"
<1>1. IInv /\ [Next]_vars => \A r \in Runs : Answered(r) => Told(r)
  <2> SUFFICES ASSUME IInv, [Next]_vars, NEW r \in Runs, Answered(r)
               PROVE  Told(r)
    OBVIOUS
  <2> USE DEF IInv, TypeOK
  <2>1. ASSUME NEW q \in Runs, StartReturns(q)
        PROVE  Told(r)
    <3>1. q = r /\ exec[r] = "done" /\ byID[r] # "absent"
      BY <2>1 DEF StartReturns, Done
    <3>2. byID[r] \in Terminal
      BY <3>1 DEF RecordInv, Active
    <3> QED
      BY <3>1, <3>2 DEF DeliveryInv
  <2>2. ASSUME NEW q \in Runs, NEW s \in Sessions,
               Conflict(q, s) \/ \E wait \in BOOLEAN : Register(q, s, wait)
        PROVE  ~ Answered(r)
    BY <2>2 DEF Conflict, Register
  <2>3. ASSUME NEW q \in Runs,
               \/ ContextEnds(q) \/ Finish(q) \/ CloseDone(q)
               \/ \E b \in BOOLEAN : RunnerReturns(q, b) \/ OnDone(q, b)
        PROVE  ~ Answered(r)
    BY <2>3 DEF ContextEnds, Finish, CloseDone, RunnerReturns, OnDone, callers
  <2>4. ASSUME NEW d \in Clients,
               CancelFires(d) \/ CancelReturns(d) \/ \E q \in Runs : CancelLooks(d, q)
        PROVE  ~ Answered(r)
    BY <2>4 DEF CancelFires, CancelReturns, CancelLooks
  <2>5. CASE UNCHANGED vars
    BY <2>5 DEF vars, callers
  <2> QED
    BY <2>1, <2>2, <2>3, <2>4, <2>5 DEF Next, Goroutine
<1> QED
  BY <1>1, Invariance, PTL DEF Spec, WaiterSeesOutcome

----------------------------------------------------------------------------
(* The runs that have given up their session. *)
past == {r \in Runs : Finished(r)}

(* Register acquires the session, Finish releases it, and every other step  *)
(* is a stutter of SessionMutex.                                            *)
LEMMA MutexStep == IInv /\ [Next]_vars => [Mutex!Next]_<<bySession, past>>
<1> SUFFICES ASSUME IInv, [Next]_vars PROVE [Mutex!Next]_<<bySession, past>>
  OBVIOUS
<1> USE DEF IInv, TypeOK, Active, Finished, past
<1>1. ASSUME NEW r \in Runs, NEW s \in Sessions, NEW wait \in BOOLEAN,
             Register(r, s, wait)
      PROVE  Mutex!Next
  <2>1. exec[r] = "none" /\ bySession[s] = NoRun
    BY <1>1 DEF Register, Free, RecordInv
  <2>2. past' = past /\ r \notin past
    BY <1>1, <2>1 DEF Register
  <2>3. \A x \in Sessions : bySession[x] # r
    BY <2>1, RunsAssumption DEF SessionInv
  <2>4. bySession' = [bySession EXCEPT ![s] = r]
    BY <1>1 DEF Register
  <2> QED
    BY <2>1, <2>2, <2>3, <2>4 DEF Mutex!Next, Mutex!Acquire
<1>2. ASSUME NEW r \in Runs, Finish(r)
      PROVE  Mutex!Next
  <2>1. exec[r] = "returned" /\ exec' = [exec EXCEPT ![r] = "callback"]
    BY <1>2 DEF Finish
  <2>2. sess[r] \in Sessions /\ bySession[sess[r]] = r
    BY <2>1 DEF SessionInv
  <2>3. past' = past \cup {r}
    BY <2>1
  <2>4. bySession' = [bySession EXCEPT ![sess[r]] = NoRun]
    BY <1>2, <2>2 DEF Finish, Release
  <2>5. r # NoRun
    BY RunsAssumption
  <2> QED
    BY <2>2, <2>3, <2>4, <2>5 DEF Mutex!Next, Mutex!Release
<1>3. ASSUME NEW r \in Runs, NEW s \in Sessions, Conflict(r, s)
      PROVE  UNCHANGED <<bySession, past>>
  BY <1>3 DEF Conflict, registry
<1>4. ASSUME NEW r \in Runs,
             \/ ContextEnds(r) \/ CloseDone(r) \/ StartReturns(r)
             \/ \E b \in BOOLEAN : RunnerReturns(r, b) \/ OnDone(r, b)
      PROVE  UNCHANGED <<bySession, past>>
  BY <1>4 DEF ContextEnds, CloseDone, StartReturns, RunnerReturns, OnDone, registry
<1>5. ASSUME NEW c \in Clients,
             CancelFires(c) \/ CancelReturns(c) \/ \E r \in Runs : CancelLooks(c, r)
      PROVE  UNCHANGED <<bySession, past>>
  BY <1>5 DEF CancelFires, CancelReturns, CancelLooks, registry
<1>6. CASE UNCHANGED vars
  BY <1>6 DEF vars, registry
<1> QED
  BY <1>1, <1>2, <1>3, <1>4, <1>5, <1>6 DEF Next, Goroutine

(* The registry implements SessionMutex. *)
THEOREM MutexRefinement == Spec => MutexSpec
<1>1. Init => Mutex!Init
  BY DEF Init, Mutex!Init, Finished
<1>2. IInv /\ [Next]_vars => [Mutex!Next]_<<bySession, past>>
  BY MutexStep
<1> QED
  BY <1>1, <1>2, Invariance, PTL DEF Spec, MutexSpec, Mutex!Spec, past

----------------------------------------------------------------------------
(* Eviction.  No record finished later than the clock says, so a run that   *)
(* finishes now is not older than any record that was dropped before.       *)
ClockInv == \A r \in Runs : finishedAt[r] <= clock

Kept == {r \in Runs : byID[r] \in Terminal}
Gone == {r \in Runs : Finished(r) /\ byID[r] = "absent"}

(* The records when Finish has written its own and not evicted yet. *)
Recs(r) == [byID EXCEPT ![r] = FinalStatus(r)]

(* The records Finish chooses among are those kept and its own. *)
LEMMA FinishSets ==
  ASSUME IInv, NEW r \in Runs, NEW victims \in SUBSET Runs, Finish(r),
         Evicts(victims, Recs(r), finishedAt'),
         byID' = [x \in Runs |-> IF x \in victims THEN "absent" ELSE Recs(r)[x]]
  PROVE  /\ r \notin Kept /\ r \notin Gone
         /\ {x \in Runs : Recs(r)[x] \in Terminal} = Kept \cup {r}
         /\ victims \subseteq Kept \cup {r}
         /\ Kept' = (Kept \cup {r}) \ victims
         /\ Gone' = Gone \cup victims
<1>1. /\ byID[r] = "running" /\ FinalStatus(r) \in Terminal
      /\ exec' = [exec EXCEPT ![r] = "callback"]
      /\ byID \in [Runs -> {"absent", "running"} \cup Terminal]
      /\ exec \in [Runs -> {"none", "running", "returned", "callback", "closing", "done"}]
  BY FinalStatusType DEF IInv, TypeOK, RecordInv, Active, Finish
<1>2. r \notin Kept /\ r \notin Gone
  BY <1>1 DEF Kept, Gone, Terminal
<1>3. {x \in Runs : Recs(r)[x] \in Terminal} = Kept \cup {r}
  BY <1>1 DEF Kept, Recs
<1>4. victims \subseteq Kept \cup {r}
  BY <1>3 DEF Evicts
<1>5. Kept' = (Kept \cup {r}) \ victims
  BY <1>1, <1>3 DEF Kept, Terminal, Recs
<1>6. \A x \in Kept \cup {r} : Finished(x)'
  BY <1>1 DEF Kept, Finished, IInv, RecordInv, Active, Terminal
<1>7. Gone' = Gone \cup victims
  <2>1. ASSUME NEW x \in Gone PROVE x \in Gone'
    BY <1>1, <1>2, <2>1 DEF Gone, Finished, Recs
  <2>2. ASSUME NEW x \in victims PROVE x \in Gone'
    BY <1>4, <1>6, <2>2 DEF Gone
  <2>3. ASSUME NEW x \in Gone', x \notin victims PROVE x \in Gone
    BY <1>1, <2>3 DEF Gone, Finished, Terminal, Recs
  <2> QED
    BY <2>1, <2>2, <2>3
<1> QED
  BY <1>2, <1>3, <1>4, <1>5, <1>7

(* Finish drops the oldest records, and only those there is no room for.    *)
LEMMA FinishKeepsNewest ==
  ASSUME IInv, ClockInv, EvictionKeepsNewest, NEW r \in Runs, Finish(r)
  PROVE  EvictionKeepsNewest'
<1>1. PICK victims \in SUBSET Runs :
        /\ Evicts(victims, Recs(r), finishedAt')
        /\ byID' = [x \in Runs |-> IF x \in victims THEN "absent" ELSE Recs(r)[x]]
  BY DEF Finish, Recs
<1>2. /\ r \notin Kept /\ r \notin Gone
      /\ {x \in Runs : Recs(r)[x] \in Terminal} = Kept \cup {r}
      /\ victims \subseteq Kept \cup {r}
      /\ Kept' = (Kept \cup {r}) \ victims
      /\ Gone' = Gone \cup victims
  BY <1>1, FinishSets
<1> DEFINE all == Kept \cup {r}
<1>3. IsFiniteSet(Kept) /\ IsFiniteSet(all) /\ IsFiniteSet(all \ victims)
  BY RunsAssumption, FS_Subset DEF Kept
<1>4. /\ Cardinality(all) \in Nat /\ Cardinality(Kept) \in Nat
      /\ Cardinality(all \ victims) \in Nat
      /\ Cardinality(all) = Cardinality(Kept) + 1
  BY <1>2, <1>3, FS_CardinalityType, FS_AddElement
<1>5. /\ Cardinality(Kept) <= MaxRecords
      /\ Gone # {} => Cardinality(Kept) = MaxRecords
      /\ \A g \in Gone, k \in Kept : finishedAt[g] <= finishedAt[k]
  BY DEF EvictionKeepsNewest, Kept, Gone
<1>6. /\ Cardinality(all \ victims) =
           IF Cardinality(all) > MaxRecords THEN MaxRecords ELSE Cardinality(all)
      /\ \A v \in victims, k \in all \ victims : finishedAt'[v] <= finishedAt'[k]
  BY <1>1, <1>2 DEF Evicts
<1>7. Cardinality(Kept') <= MaxRecords
  BY <1>2, <1>4, <1>6, RecordsAssumption
<1>8. Gone' # {} => Cardinality(Kept') = MaxRecords
  <2>1. CASE Gone # {}
    BY <1>2, <1>4, <1>5, <1>6, <2>1, RecordsAssumption
  <2>2. CASE victims # {}
    <3>1. all \ victims # all
      BY <1>2, <2>2
    <3>2. Cardinality(all \ victims) < Cardinality(all)
      BY <1>3, <1>4, <3>1, FS_Subset
    <3> QED
      BY <1>2, <1>4, <1>6, <3>2, RecordsAssumption
  <2> QED
    BY <1>2, <2>1, <2>2
<1>9. \A g \in Gone', k \in Kept' : finishedAt'[g] <= finishedAt'[k]
  <2>1. /\ finishedAt \in [Runs -> Nat] /\ clock \in Nat /\ clock' \in {clock, clock + 1}
        /\ finishedAt' = [finishedAt EXCEPT ![r] = clock']
    BY DEF IInv, TypeOK, Finish
  <2>2. ASSUME NEW g \in Gone, NEW k \in all \ victims
        PROVE  finishedAt'[g] <= finishedAt'[k]
    <3>1. g \in Runs /\ g # r /\ finishedAt'[g] = finishedAt[g] /\ finishedAt[g] <= clock
      BY <1>2, <2>1, <2>2 DEF Gone, ClockInv
    <3>2. CASE k = r
      BY <2>1, <3>1, <3>2
    <3>3. CASE k \in Kept /\ k # r
      BY <1>5, <2>1, <2>2, <3>1, <3>3 DEF Kept
    <3> QED
      BY <2>2, <3>2, <3>3
  <2> QED
    BY <1>2, <1>6, <2>2
<1> QED
  BY <1>7, <1>8, <1>9 DEF EvictionKeepsNewest, Kept, Gone

(* Every other step leaves the finished records and their times alone.      *)
LEMMA OthersKeepRecords ==
  ASSUME IInv, [Next]_vars, \A r \in Runs : ~ Finish(r)
  PROVE  Kept' = Kept /\ Gone' = Gone /\ UNCHANGED <<finishedAt, clock>>
<1> USE DEF IInv, TypeOK, RecordInv, Active, Finished, Kept, Gone, Terminal
<1>1. ASSUME NEW r \in Runs, NEW s \in Sessions, NEW wait \in BOOLEAN, Register(r, s, wait)
      PROVE  Kept' = Kept /\ Gone' = Gone /\ UNCHANGED <<finishedAt, clock>>
  BY <1>1 DEF Register
<1>2. ASSUME NEW r \in Runs, NEW err \in BOOLEAN, RunnerReturns(r, err)
      PROVE  Kept' = Kept /\ Gone' = Gone /\ UNCHANGED <<finishedAt, clock>>
  BY <1>2 DEF RunnerReturns, registry
<1>3. ASSUME NEW r \in Runs, NEW fails \in BOOLEAN, OnDone(r, fails)
      PROVE  Kept' = Kept /\ Gone' = Gone /\ UNCHANGED <<finishedAt, clock>>
  BY <1>3 DEF OnDone
<1>4. ASSUME NEW r \in Runs, CloseDone(r)
      PROVE  Kept' = Kept /\ Gone' = Gone /\ UNCHANGED <<finishedAt, clock>>
  BY <1>4 DEF CloseDone, registry
<1>5. CASE UNCHANGED <<byID, exec, finishedAt, clock>>
  BY <1>5
<1> QED
  BY <1>1, <1>2, <1>3, <1>4, <1>5
     DEF Next, Goroutine, Conflict, ContextEnds, StartReturns, CancelLooks, CancelFires,
         CancelReturns, vars, registry

(* Exactly the newest MaxRecords finished runs are remembered. *)
THEOREM NewestAreKept == Spec => []EvictionKeepsNewest
<1>1. Init => ClockInv /\ EvictionKeepsNewest
  <2>1. Init => Kept = {} /\ Gone = {}
    BY DEF Init, Kept, Gone, Terminal, Finished
  <2> QED
    <3>1. Init => ClockInv
      BY DEF Init, ClockInv
    <3>2. Cardinality({}) = 0 /\ 0 <= MaxRecords
      BY FS_EmptySet, RecordsAssumption
    <3>3. Kept = {} /\ Gone = {} => EvictionKeepsNewest
      BY <3>2 DEF EvictionKeepsNewest, Kept, Gone
    <3> QED
      BY <2>1, <3>1, <3>3
<1>2. IInv /\ ClockInv /\ EvictionKeepsNewest /\ [Next]_vars => (ClockInv /\ EvictionKeepsNewest)'
  <2>a. SUFFICES ASSUME IInv, ClockInv, EvictionKeepsNewest, [Next]_vars
                 PROVE  ClockInv' /\ EvictionKeepsNewest'
    OBVIOUS
  <2>1. CASE \A r \in Runs : ~ Finish(r)
    <3>1. Kept' = Kept /\ Gone' = Gone /\ UNCHANGED <<finishedAt, clock>>
      BY <2>a, <2>1, OthersKeepRecords
    <3>2. ClockInv'
      BY <2>a, <3>1 DEF ClockInv
    <3>3. EvictionKeepsNewest'
      BY <2>a, <3>1 DEF EvictionKeepsNewest, Kept, Gone
    <3> QED
      BY <3>2, <3>3
  <2>2. ASSUME NEW r \in Runs, Finish(r) PROVE ClockInv' /\ EvictionKeepsNewest'
    <3>1. EvictionKeepsNewest'
      BY <2>a, <2>2, FinishKeepsNewest
    <3>2. ClockInv'
      BY <2>a, <2>2 DEF IInv, TypeOK, ClockInv, Finish
    <3> QED
      BY <3>1, <3>2
  <2> QED
    BY <2>1, <2>2
<1> QED
  BY <1>1, <1>2, Invariance, PTL DEF Spec

----------------------------------------------------------------------------
(* Agents and histories *)

(* The agent of a run, its goroutine and its record agree; what an agent    *)
(* has loaded is what the store holds.                                      *)
AgentInv == \A r \in Runs :
  /\ agent[r] # "none" => exec[r] # "none" /\ sess[r] \in Sessions
  /\ agent[r] = "restored" => exec[r] = "running" /\ local[r] = hist[sess[r]]
  /\ exec[r] = "running" => agent[r] # "failed"
  /\ exec[r] = "returned" => agent[r] = IF r \in erred THEN "failed" ELSE "committed"
  /\ r \in erred => exec[r] = "returned"
  /\ byID[r] = "succeeded" => agent[r] = "committed"
  /\ byID[r] = "failed" => agent[r] = "failed"

(* A history holds turns that were committed, of runs of its session. *)
StoredInv == \A s \in Sessions : \A i \in DOMAIN hist[s] :
  agent[hist[s][i]] = "committed" /\ sess[hist[s][i]] = s

(* A committed turn is in its history, unless the save failed. *)
SavedInv == \A r \in Runs :
  agent[r] = "committed" => Remembers(sess[r], r) \/ r \in forgotten

AgentType ==
  /\ agent \in [Runs -> {"none", "restored", "committed", "failed"}]
  /\ local \in [Runs -> Seq(Runs)]
  /\ hist \in [Sessions -> Seq(Runs)]
  /\ forgotten \subseteq Runs

HttpInv == IInv /\ AgentType /\ AgentInv /\ StoredInv /\ SavedInv /\ HistoryInOrder

----------------------------------------------------------------------------
(* Every step is a step of the registry, or leaves it alone. *)
LEMMA RegistryStep == [HttpNext]_httpVars => [Next]_vars
<1>1. ASSUME NEW r \in Runs, Restore(r) \/ Fail(r) \/ Answer(r) \/ Succeed(r)
      PROVE  [Next]_vars
  BY <1>1 DEF Restore, Fail, Answer, Succeed, Next
<1>2. ASSUME Around PROVE Next
  BY <1>2 DEF Around, Next
<1> QED
  BY <1>1, <1>2 DEF HttpNext, httpVars

(* The server with its agents implements the run registry: every theorem    *)
(* about RunRegistry is one about HttpRuns.                                 *)
THEOREM ImplementsRegistry == HttpSpec => Spec
<1>1. HttpInit => Init
  BY DEF HttpInit
<1> QED
  BY <1>1, RegistryStep, PTL DEF HttpSpec, Spec

(* What the registry's own steps may do to a run. *)
RunStep(q) ==
  /\ exec[q] = "none" =>
       exec'[q] \in {"none", "running"} /\ byID'[q] \in {"absent", "running"}
  /\ exec[q] # "none" => exec'[q] # "none" /\ sess'[q] = sess[q]
  /\ exec[q] = "running" => exec'[q] = "running"
  /\ exec'[q] = "running" => exec[q] \in {"none", "running"}
  /\ exec'[q] = "returned" => exec[q] = "returned"
  /\ Finished(q) => Finished(q)'
  /\ q \in erred' => q \in erred /\ (exec[q] = "returned" => exec'[q] = "returned")
  /\ exec'[q] = "returned" /\ q \in erred => q \in erred'
  /\ byID'[q] = "succeeded" =>
       byID[q] = "succeeded" \/ (exec[q] = "returned" /\ q \notin erred)
  /\ byID'[q] = "failed" => byID[q] = "failed" \/ (exec[q] = "returned" /\ q \in erred)

(* The steps around the runner are such steps; Finish records the outcome. *)
LEMMA AroundStep == ASSUME IInv, Around PROVE \A q \in Runs : RunStep(q)
<1> SUFFICES ASSUME NEW q \in Runs PROVE RunStep(q)
  OBVIOUS
<1> USE DEF IInv, TypeOK, RecordInv, Active, Finished, RunStep
<1>1. ASSUME NEW r \in Runs, NEW s \in Sessions, NEW wait \in BOOLEAN, Register(r, s, wait)
      PROVE  RunStep(q)
  BY <1>1 DEF Register
<1>2. ASSUME NEW r \in Runs, NEW s \in Sessions, Conflict(r, s)
      PROVE  RunStep(q)
  BY <1>2 DEF Conflict, registry
<1>3. ASSUME NEW r \in Runs, ContextEnds(r)
      PROVE  RunStep(q)
  BY <1>3 DEF ContextEnds, registry
<1>4. ASSUME NEW r \in Runs, Finish(r)
      PROVE  RunStep(q)
  BY <1>4 DEF Finish, FinalStatus
<1>5. ASSUME NEW r \in Runs, NEW fails \in BOOLEAN, OnDone(r, fails)
      PROVE  RunStep(q)
  BY <1>5 DEF OnDone
<1>6. ASSUME NEW r \in Runs, CloseDone(r) \/ StartReturns(r)
      PROVE  RunStep(q)
  BY <1>6 DEF CloseDone, StartReturns, registry
<1>7. ASSUME NEW c \in Clients, NEW r \in Runs, CancelLooks(c, r)
      PROVE  RunStep(q)
  BY <1>7 DEF CancelLooks, registry
<1>8. ASSUME NEW c \in Clients, CancelFires(c) \/ CancelReturns(c)
      PROVE  RunStep(q)
  BY <1>8 DEF CancelFires, CancelReturns, registry
<1> QED
  BY <1>1, <1>2, <1>3, <1>4, <1>5, <1>6, <1>7, <1>8 DEF Around, Goroutine

(* The registry's own steps preserve what is said of agents and histories.  *)
LEMMA AroundInv == HttpInv /\ Around /\ UNCHANGED sessions =>
                     AgentInv' /\ StoredInv' /\ SavedInv' /\ HistoryInOrder'
<1>a. SUFFICES ASSUME HttpInv, Around, UNCHANGED sessions
               PROVE  AgentInv' /\ StoredInv' /\ SavedInv' /\ HistoryInOrder'
  OBVIOUS
<1>b. UNCHANGED <<agent, local, hist, forgotten>>
  BY <1>a DEF sessions
<1>c. \A q \in Runs : RunStep(q)
  BY <1>a, AroundStep DEF HttpInv
<1>1. AgentInv'
  <2>1. ASSUME NEW r \in Runs
        PROVE  /\ agent[r] # "none" => exec'[r] # "none" /\ sess'[r] \in Sessions
               /\ agent[r] = "restored" => exec'[r] = "running" /\ local[r] = hist[sess'[r]]
               /\ exec'[r] = "running" => agent[r] # "failed"
               /\ exec'[r] = "returned" =>
                    agent[r] = IF r \in erred' THEN "failed" ELSE "committed"
               /\ r \in erred' => exec'[r] = "returned"
               /\ byID'[r] = "succeeded" => agent[r] = "committed"
               /\ byID'[r] = "failed" => agent[r] = "failed"
    <3>1. RunStep(r)
      BY <1>c
    <3> QED
      BY <1>a, <3>1 DEF HttpInv, AgentInv, RunStep
  <2> QED
    BY <1>b, <2>1 DEF AgentInv
<1>2. StoredInv'
  <2>1. ASSUME NEW s \in Sessions, NEW i \in DOMAIN hist[s]
        PROVE  agent[hist[s][i]] = "committed" /\ sess'[hist[s][i]] = s
    <3>1. hist[s][i] \in Runs /\ agent[hist[s][i]] = "committed" /\ sess[hist[s][i]] = s
      BY <1>a DEF HttpInv, AgentType, StoredInv
    <3> QED
      BY <1>a, <1>c, <3>1 DEF HttpInv, AgentInv, RunStep
  <2> QED
    BY <1>b, <2>1 DEF StoredInv
<1>3. SavedInv'
  <2>1. ASSUME NEW r \in Runs, agent[r] = "committed" PROVE sess'[r] = sess[r]
    BY <1>a, <1>c, <2>1 DEF HttpInv, AgentInv, RunStep
  <2> QED
    BY <1>a, <1>b, <2>1 DEF HttpInv, SavedInv, Remembers
<1>4. HistoryInOrder'
  <2>1. ASSUME NEW s \in Sessions, NEW i \in DOMAIN hist[s], Finished(hist[s][i])
        PROVE  Finished(hist[s][i])'
    <3>1. hist[s][i] \in Runs
      BY <1>a DEF HttpInv, AgentType
    <3>2. Finished(hist[s][i]) => exec'[hist[s][i]] \in {"callback", "closing", "done"}
      BY <1>c, <3>1 DEF RunStep, Finished
    <3> QED
      BY <1>b, <2>1, <3>2 DEF Finished
  <2> QED
    BY <1>a, <1>b, <2>1 DEF HttpInv, HistoryInOrder
<1> QED
  BY <1>1, <1>2, <1>3, <1>4

(* When an answer is committed, the turns already stored are of other runs, *)
(* which have finished: of the active runs the session has only this one.   *)
LEMMA StoredFinished ==
  ASSUME HttpInv, NEW r \in Runs, agent[r] = "restored"
  PROVE  \A i \in DOMAIN hist[sess[r]] :
           Finished(hist[sess[r]][i]) /\ hist[sess[r]][i] # r
<1> SUFFICES ASSUME NEW i \in DOMAIN hist[sess[r]]
             PROVE  Finished(hist[sess[r]][i]) /\ hist[sess[r]][i] # r
  OBVIOUS
<1> DEFINE q == hist[sess[r]][i]
<1>1. Active(r) /\ sess[r] \in Sessions /\ bySession[sess[r]] = r
  BY DEF HttpInv, AgentInv, IInv, SessionInv, Active
<1>2. q \in Runs /\ agent[q] = "committed" /\ sess[q] = sess[r]
  BY <1>1 DEF HttpInv, AgentType, StoredInv
<1>3. q # r /\ ~ Active(q)
  BY <1>1, <1>2 DEF HttpInv, IInv, SessionInv
<1>4. exec[q] # "none"
  BY <1>2 DEF HttpInv, AgentInv
<1> QED
  BY <1>2, <1>3, <1>4 DEF HttpInv, IInv, TypeOK, Active, Finished

(* Append, spelt out: the turns that were there stay, and r's comes last.   *)
LEMMA AppendTurn ==
  ASSUME NEW h \in Seq(Runs), NEW r \in Runs
  PROVE  /\ Append(h, r) \in Seq(Runs)
         /\ Len(Append(h, r)) = Len(h) + 1
         /\ DOMAIN Append(h, r) = 1..Len(h) + 1
         /\ DOMAIN h = 1..Len(h)
         /\ Append(h, r)[Len(h) + 1] = r
         /\ \A i \in DOMAIN h : Append(h, r)[i] = h[i]
OBVIOUS

(* What Answer does to the store: one history grows by the turn of the run, *)
(* because what the agent loaded is what is stored; or none changes.        *)
LEMMA AnswerStep ==
  ASSUME HttpInv, NEW r \in Runs, Answer(r)
  PROVE  /\ sess[r] \in Sessions /\ local[r] = hist[sess[r]]
         /\ \/ hist' = [hist EXCEPT ![sess[r]] = Append(hist[sess[r]], r)]
            \/ hist' = hist /\ r \in forgotten'
<1>1. sess[r] \in Sessions /\ local[r] = hist[sess[r]]
  BY DEF HttpInv, AgentInv, IInv, SessionInv, Active, Answer
<1> QED
  BY <1>1 DEF Answer, Commit

(* The commit and the save preserve the invariant.                          *)
LEMMA AnswerInv ==
  ASSUME HttpInv, NEW r \in Runs, Answer(r)
  PROVE  AgentType' /\ AgentInv' /\ StoredInv' /\ SavedInv' /\ HistoryInOrder'
<1> DEFINE S == sess[r]
<1>1. /\ exec[r] = "running" /\ agent[r] = "restored"
      /\ agent' = [agent EXCEPT ![r] = "committed"]
      /\ UNCHANGED <<exec, sess, byID, erred>>
      /\ forgotten \subseteq forgotten' /\ forgotten' \subseteq Runs
  BY DEF Answer, vars, registry, HttpInv, AgentType
<1>2. S \in Sessions /\ hist[S] \in Seq(Runs) /\ local[r] = hist[S]
  BY AnswerStep DEF HttpInv, AgentType
<1>3. \A q \in Runs : q # r /\ agent[q] = "restored" => sess[q] # S
  BY <1>1, <1>2 DEF HttpInv, AgentInv, IInv, SessionInv, Active
<1>4. \A i \in DOMAIN hist[S] : Finished(hist[S][i]) /\ hist[S][i] # r
  BY <1>1, StoredFinished
<1>5. /\ \A q \in Runs \ {r} : agent'[q] = agent[q]
      /\ agent'[r] = "committed"
  BY <1>1 DEF HttpInv, AgentType
<1>6. AgentType'
  <2>1. Append(local[r], r) \in Seq(Runs) /\ Append(hist[S], r) \in Seq(Runs)
    BY <1>2, AppendTurn
  <2>2. local' \in [Runs -> Seq(Runs)]
    BY <2>1 DEF HttpInv, AgentType, Answer
  <2>3. hist' \in [Sessions -> Seq(Runs)]
    <3>1. hist' = hist \/ hist' = [hist EXCEPT ![S] = Append(hist[S], r)]
      BY AnswerStep
    <3>2. hist \in [Sessions -> Seq(Runs)]
      BY DEF HttpInv, AgentType
    <3> QED
      BY <1>2, <2>1, <3>1, <3>2
  <2> QED
    BY <1>1, <2>2, <2>3 DEF HttpInv, AgentType
<1>7. \A t \in Sessions \ {S} : hist'[t] = hist[t]
  BY <1>2, AnswerStep DEF HttpInv, AgentType
<1>8. AgentInv'
  <2>1. \A q \in Runs \ {r} : agent[q] = "restored" =>
          local'[q] = local[q] /\ hist'[sess[q]] = hist[sess[q]]
    <3>1. \A q \in Runs \ {r} : local'[q] = local[q]
      BY DEF HttpInv, AgentType, Answer
    <3>2. \A q \in Runs : agent[q] = "restored" => sess[q] \in Sessions
      BY DEF HttpInv, AgentInv
    <3> QED
      BY <1>3, <1>7, <3>1, <3>2
  <2> QED
    BY <1>1, <1>5, <2>1 DEF HttpInv, AgentInv, IInv, RecordInv, Active
<1>9. CASE hist' = hist /\ r \in forgotten'
  <2>1. StoredInv'
    <3>1. \A t \in Sessions : \A i \in DOMAIN hist[t] : hist[t][i] \in Runs
      BY DEF HttpInv, AgentType
    <3> QED
      BY <1>1, <1>5, <1>9, <3>1 DEF HttpInv, StoredInv
  <2>2. SavedInv'
    <3>1. ASSUME NEW q \in Runs, agent'[q] = "committed", q \notin forgotten'
          PROVE  Remembers(sess[q], q)
      BY <1>1, <1>5, <1>9, <3>1 DEF HttpInv, SavedInv
    <3> QED
      BY <1>1, <1>9, <3>1 DEF SavedInv, Remembers
  <2>3. HistoryInOrder'
    BY <1>1, <1>9 DEF HttpInv, HistoryInOrder, Finished
  <2> QED
    BY <1>6, <1>8, <2>1, <2>2, <2>3
<1>10. CASE hist' = [hist EXCEPT ![S] = Append(hist[S], r)]
  <2>1. /\ hist'[S] = Append(hist[S], r)
        /\ DOMAIN hist'[S] = 1..Len(hist[S]) + 1
        /\ DOMAIN hist[S] = 1..Len(hist[S])
        /\ Len(hist[S]) \in Nat
        /\ hist'[S][Len(hist[S]) + 1] = r
        /\ \A i \in DOMAIN hist[S] : hist'[S][i] = hist[S][i]
    BY <1>2, <1>10, AppendTurn DEF HttpInv, AgentType
  <2>2. \A i \in DOMAIN hist'[S] : i \in DOMAIN hist[S] \/ i = Len(hist[S]) + 1
    BY <2>1
  <2>3. StoredInv'
    <3>1. ASSUME NEW t \in Sessions, NEW i \in DOMAIN hist'[t]
          PROVE  agent'[hist'[t][i]] = "committed" /\ sess[hist'[t][i]] = t
      <4>1. CASE t # S \/ i \in DOMAIN hist[S]
        <5>1. i \in DOMAIN hist[t] /\ hist'[t][i] = hist[t][i] /\ hist[t][i] \in Runs
          BY <1>7, <2>1, <3>1, <4>1 DEF HttpInv, AgentType
        <5> QED
          BY <1>1, <1>5, <5>1 DEF HttpInv, StoredInv
      <4>2. CASE t = S /\ i = Len(hist[S]) + 1
        BY <1>5, <2>1, <4>2
      <4> QED
        BY <2>2, <4>1, <4>2
    <3> QED
      BY <1>1, <3>1 DEF StoredInv
  <2>4. SavedInv'
    <3>1. ASSUME NEW q \in Runs, agent'[q] = "committed", q \notin forgotten'
          PROVE  \E i \in DOMAIN hist'[sess[q]] : hist'[sess[q]][i] = q
      <4>1. CASE q = r
        BY <2>1, <4>1
      <4>2. CASE q # r
        <5>1. PICK i \in DOMAIN hist[sess[q]] : hist[sess[q]][i] = q
          BY <1>1, <1>5, <3>1, <4>2 DEF HttpInv, SavedInv, Remembers
        <5>2. sess[q] \in Sessions
          BY <1>5, <3>1, <4>2 DEF HttpInv, AgentInv
        <5> QED
          BY <1>7, <2>1, <5>1, <5>2
      <4> QED
        BY <4>1, <4>2
    <3> QED
      BY <1>1, <3>1 DEF SavedInv, Remembers
  <2>5. HistoryInOrder'
    <3>1. ASSUME NEW t \in Sessions, NEW i \in DOMAIN hist'[t], NEW j \in DOMAIN hist'[t],
                 i < j
          PROVE  Finished(hist'[t][i]) /\ hist'[t][i] # hist'[t][j]
      <4>1. CASE t # S
        BY <1>7, <3>1, <4>1 DEF HttpInv, HistoryInOrder
      <4>2. CASE t = S
        <5>1. i \in DOMAIN hist[S]
          BY <2>1, <2>2, <3>1, <4>2
        <5>2. CASE j \in DOMAIN hist[S]
          BY <1>2, <2>1, <3>1, <4>2, <5>1, <5>2 DEF HttpInv, HistoryInOrder
        <5>3. CASE j = Len(hist[S]) + 1
          BY <1>4, <2>1, <4>2, <5>1, <5>3
        <5> QED
          BY <2>2, <4>2, <5>2, <5>3
      <4> QED
        BY <4>1, <4>2
    <3> QED
      BY <1>1, <3>1 DEF HistoryInOrder, Finished
  <2> QED
    BY <1>6, <1>8, <2>3, <2>4, <2>5
<1> QED
  BY <1>9, <1>10, AnswerStep

(* The load of the history, and a runner that returns, with its answer or   *)
(* an error, preserve the invariant.                                        *)
LEMMA RunnerInv ==
  ASSUME HttpInv, NEW r \in Runs, Restore(r) \/ Fail(r) \/ Succeed(r)
  PROVE  AgentType' /\ AgentInv' /\ StoredInv' /\ SavedInv' /\ HistoryInOrder'
<1>1. UNCHANGED <<hist, forgotten, sess, byID>>
  BY DEF Restore, Fail, Succeed, RunnerReturns, vars, registry, sessions
<1>2. /\ \A q \in Runs \ {r} : agent'[q] = agent[q] /\ exec'[q] = exec[q]
      /\ agent[r] = "committed" <=> agent'[r] = "committed"
      /\ \A q \in Runs : Finished(q) => Finished(q)'
  BY DEF HttpInv, AgentType, AgentInv, IInv, TypeOK, Restore, Fail, MayFail, Succeed,
         RunnerReturns, Finished, vars, registry, sessions
<1>3. AgentType'
  <2>1. exec[r] = "running" => sess[r] \in Sessions
    BY DEF HttpInv, IInv, SessionInv, Active
  <2>2. local' \in [Runs -> Seq(Runs)]
    BY <2>1 DEF HttpInv, AgentType, Restore, Fail, Succeed, sessions
  <2>3. agent' \in [Runs -> {"none", "restored", "committed", "failed"}]
    BY DEF HttpInv, AgentType, Restore, Fail, Succeed, sessions
  <2> QED
    BY <1>1, <2>2, <2>3 DEF HttpInv, AgentType
<1>4. AgentInv'
  <2>1. CASE Restore(r)
    BY <2>1 DEF HttpInv, AgentType, AgentInv, IInv, SessionInv, RecordInv, Active, Restore, vars,
                registry
  <2>2. CASE Fail(r)
    BY <2>2 DEF HttpInv, AgentType, AgentInv, IInv, TypeOK, SessionInv, RecordInv, Active, Fail,
                MayFail, RunnerReturns, registry
  <2>3. CASE Succeed(r)
    BY <2>3 DEF HttpInv, AgentType, AgentInv, IInv, TypeOK, RecordInv, Active, Succeed,
                RunnerReturns, registry, sessions
  <2> QED
    BY <2>1, <2>2, <2>3
<1>5. StoredInv'
  <2>1. \A t \in Sessions : \A i \in DOMAIN hist[t] : hist[t][i] \in Runs
    BY DEF HttpInv, AgentType
  <2> QED
    BY <1>1, <1>2, <2>1 DEF HttpInv, StoredInv
<1>6. SavedInv'
  BY <1>1, <1>2 DEF HttpInv, SavedInv, Remembers
<1>7. HistoryInOrder'
  <2>1. \A t \in Sessions : \A i \in DOMAIN hist[t] :
          Finished(hist[t][i]) => exec'[hist[t][i]] \in {"callback", "closing", "done"}
    BY <1>2 DEF HttpInv, AgentType, Finished
  <2> QED
    BY <1>1, <2>1 DEF HttpInv, HistoryInOrder, Finished
<1> QED
  BY <1>3, <1>4, <1>5, <1>6, <1>7

(* The inductive invariant of the server's runs and histories.              *)
THEOREM HttpInvariance == HttpSpec => []HttpInv
<1>1. HttpInit => HttpInv
  <2>1. HttpInit => IInv
    BY InitInv DEF HttpInit
  <2>2. HttpInit => AgentType /\ AgentInv /\ StoredInv /\ SavedInv /\ HistoryInOrder
    BY DEF HttpInit, Init, AgentType, AgentInv, StoredInv, SavedInv, HistoryInOrder
  <2> QED
    BY <2>1, <2>2 DEF HttpInv
<1>2. HttpInv /\ [HttpNext]_httpVars => HttpInv'
  <2>a. SUFFICES ASSUME HttpInv, [HttpNext]_httpVars PROVE HttpInv'
    OBVIOUS
  <2>1. IInv'
    BY <2>a, RegistryStep, NextInv DEF HttpInv
  <2>2. CASE Around /\ UNCHANGED sessions
    BY <2>a, <2>1, <2>2, AroundInv DEF HttpInv, AgentType, sessions
  <2>3. ASSUME NEW r \in Runs, Restore(r) \/ Fail(r) \/ Answer(r) \/ Succeed(r)
        PROVE  HttpInv'
    BY <2>a, <2>1, <2>3, RunnerInv, AnswerInv DEF HttpInv
  <2>4. CASE UNCHANGED httpVars
    BY <2>a, <2>1, <2>4
       DEF HttpInv, AgentType, AgentInv, StoredInv, SavedInv, Remembers, HistoryInOrder,
           Finished, httpVars, vars, registry, sessions
  <2> QED
    BY <2>a, <2>2, <2>3, <2>4 DEF HttpNext
<1> QED
  BY <1>1, <1>2, PTL DEF HttpSpec

----------------------------------------------------------------------------
(* Types of the registry and of what the agents and the store add.          *)
THEOREM HttpTypeCorrect == HttpSpec => []HttpTypeOK
<1>1. HttpInv => HttpTypeOK
  BY DEF HttpInv, IInv, AgentType, HttpTypeOK
<1> QED
  BY <1>1, HttpInvariance, PTL

(* A run on record as succeeded is in its session's history, unless its     *)
(* save failed; one on record as failed is not.                             *)
THEOREM RecordIsTrue == HttpSpec => []RecordMatchesHistory
<1>1. HttpInv => RecordMatchesHistory
  <2>a. SUFFICES ASSUME HttpInv PROVE RecordMatchesHistory
    OBVIOUS
  <2>1. ASSUME NEW r \in Runs, byID[r] = "failed" PROVE ~ Remembers(sess[r], r)
    <3>1. agent[r] = "failed" /\ sess[r] \in Sessions
      BY <2>a, <2>1 DEF HttpInv, AgentInv
    <3> QED
      BY <2>a, <3>1 DEF HttpInv, StoredInv, Remembers
  <2>2. ASSUME NEW r \in Runs, byID[r] = "succeeded"
        PROVE  Remembers(sess[r], r) \/ r \in forgotten
    BY <2>a, <2>2 DEF HttpInv, AgentInv, SavedInv
  <2> QED
    BY <2>1, <2>2 DEF RecordMatchesHistory
<1> QED
  BY <1>1, HttpInvariance, PTL

(* The turns of a session stand in the order in which its runs finished.    *)
THEOREM HistoryOrder == HttpSpec => []HistoryInOrder
<1>1. HttpInv => HistoryInOrder
  BY DEF HttpInv
<1> QED
  BY <1>1, HttpInvariance, PTL

(* No save overwrites a turn: what startAgentRun loads, works on and saves  *)
(* without a lock is safe because the registry admits one run per session.  *)
THEOREM NoTurnLost == HttpSpec => HistoryOnlyGrows
<1> DEFINE Grows == \A s \in Sessions :
                      /\ Len(hist[s]) <= Len(hist'[s])
                      /\ \A i \in DOMAIN hist[s] : hist'[s][i] = hist[s][i]
<1>1. HttpInv /\ [HttpNext]_httpVars => [Grows]_httpVars
  <2>a. SUFFICES ASSUME HttpInv, HttpNext PROVE Grows
    BY DEF httpVars
  <2>b. \A s \in Sessions : Len(hist[s]) \in Nat
    BY <2>a DEF HttpInv, AgentType
  <2>1. ASSUME NEW r \in Runs, Answer(r) PROVE Grows
    <3>1. sess[r] \in Sessions /\ hist[sess[r]] \in Seq(Runs)
      BY <2>a, <2>1, AnswerStep DEF HttpInv, AgentType
    <3>2. CASE hist' = hist
      BY <2>b, <3>2
    <3>3. CASE hist' = [hist EXCEPT ![sess[r]] = Append(hist[sess[r]], r)]
      <4>1. ASSUME NEW s \in Sessions
            PROVE  /\ Len(hist[s]) <= Len(hist'[s])
                   /\ \A i \in DOMAIN hist[s] : hist'[s][i] = hist[s][i]
        <5>1. CASE s = sess[r]
          BY <2>a, <2>b, <3>1, <3>3, <5>1, AppendTurn DEF HttpInv, AgentType
        <5>2. CASE s # sess[r]
          BY <2>a, <2>b, <3>3, <5>2 DEF HttpInv, AgentType
        <5> QED
          BY <5>1, <5>2
      <4> QED
        BY <4>1
    <3> QED
      BY <2>a, <2>1, <3>2, <3>3, AnswerStep
  <2>2. ASSUME hist' = hist PROVE Grows
    BY <2>b, <2>2
  <2> QED
    BY <2>a, <2>1, <2>2 DEF HttpNext, Restore, Fail, Succeed, sessions
<1> QED
  BY <1>1, HttpInvariance, PTL DEF HttpSpec, HistoryOnlyGrows

----------------------------------------------------------------------------
(* The channel and the counters *)

Entry == [kind : {"user", "assistant", "system"}, run : Runs]

TalkType ==
  /\ talk \in Seq(Entry)
  /\ said \in [Runs -> Sessions \cup {NoSession}]
  /\ waited \subseteq Runs
  /\ rec \in [Runs -> {"none"} \cup Terminal]
  /\ told \in [Runs -> {"no", "sent", "blank"}]
  /\ metrics \in [counters -> Nat]

(* The copy of the record, OnDone, the caller and the agent agree. *)
CopyInv == \A r \in Runs :
  /\ rec[r] # "none" <=> Finished(r)
  /\ told[r] # "no" => Finished(r)
  /\ exec[r] \in {"closing", "done"} => told[r] # "no"
  /\ rec[r] = "succeeded" => agent[r] = "committed"
  /\ rec[r] = "failed" => agent[r] = "failed"
  /\ call[r] = "refused" => exec[r] = "none"
  /\ call[r] \in {"answered", "vanished"} => exec[r] = "done"

(* The outcome of a run stands in the transcript once, after the message of *)
(* its user, and only when OnDone has sent it.                              *)
OutcomeInv ==
  /\ \A i \in DOMAIN talk : talk[i].kind # "user" =>
       /\ told[talk[i].run] = "sent"
       /\ talk[i].kind = "assistant" <=> rec[talk[i].run] = "succeeded"
  /\ \A i, j \in DOMAIN talk : talk[i].run = talk[j].run /\ talk[j].kind # "user" =>
       IF talk[i].kind = "user" THEN i < j ELSE i = j
  /\ \A r \in Runs : told[r] = "sent" =>
       \E i \in DOMAIN talk : talk[i].run = r /\ talk[i].kind # "user"
  /\ \A i \in DOMAIN talk : talk[i].kind = "user" => said[talk[i].run] # NoSession
  /\ \A r \in waited : said[r] # NoSession

TalkInv == TalkType /\ CopyInv /\ OutcomeInv /\ WaitingClientReadsInOrder

----------------------------------------------------------------------------
(* The steps of HttpRuns that leave the channel alone. *)
QuietCalls ==
  \/ \E r \in Runs, s \in Sessions :
       Conflict(r, s) \/ \E wait \in BOOLEAN : Register(r, s, wait)
  \/ \E r \in Runs : StartReturns(r) \/ CloseDone(r) \/ ContextEnds(r)

Runner == \E r \in Runs : Restore(r) \/ Fail(r) \/ Answer(r) \/ Succeed(r)

Quiet ==
  /\ Runner \/ (QuietCalls /\ UNCHANGED sessions)
  /\ UNCHANGED <<talk, said, waited, rec, told>>
  /\ metrics' = metrics \/ \E ks : metrics' = Counted(ks)

(* Each step of the server is quiet or one of four. *)
LEMMA ServerSteps ==
  ASSUME ServerNext
  PROVE  \/ Quiet
         \/ \E r \in Runs, s \in Sessions : Say(r, s)
         \/ \E r \in Runs : Ends(r) \/ Tell(r) \/ \E fails \in BOOLEAN : Posted(r, fails)
<1>1. ASSUME NEW r \in Runs, NEW s \in Sessions, NEW wait \in BOOLEAN,
             Refused(r, s) \/ Accepted(r, s, wait)
      PROVE  Quiet
  BY <1>1 DEF Refused, Accepted, Quiet, QuietCalls, Runner
<1>2. ASSUME NEW r \in Runs, Reply(r) PROVE Quiet
  BY <1>2 DEF Reply, Quiet, QuietCalls, Runner
<1>3. ASSUME NEW r \in Runs, Delivery(r)
      PROVE  Quiet \/ Ends(r) \/ Tell(r) \/ \E fails \in BOOLEAN : Posted(r, fails)
  BY <1>3 DEF Delivery, Quiet, QuietCalls, Runner
<1>4. ASSUME NEW r \in Runs,
             /\ Restore(r) \/ Fail(r) \/ Answer(r) \/ Succeed(r)
                  \/ (ContextEnds(r) /\ UNCHANGED sessions)
             /\ UNCHANGED <<talk, said, waited, rec, told, metrics>>
      PROVE  Quiet
  BY <1>4 DEF Quiet, QuietCalls, Runner
<1> QED
  BY <1>1, <1>2, <1>3, <1>4 DEF ServerNext

(* Every step is one of HttpRuns, or leaves its state alone. *)
LEMMA HttpStep == [ServerNext]_serverVars => [HttpNext]_httpVars
<1>1. ASSUME NEW r \in Runs, NEW s \in Sessions, NEW wait \in BOOLEAN,
             Say(r, s) \/ Refused(r, s) \/ Accepted(r, s, wait)
      PROVE  [HttpNext]_httpVars
  BY <1>1 DEF Say, Refused, Accepted, HttpNext, Around
<1>2. ASSUME NEW r \in Runs, Reply(r) PROVE [HttpNext]_httpVars
  BY <1>2 DEF Reply, HttpNext, Around
<1>3. ASSUME NEW r \in Runs, Delivery(r) PROVE [HttpNext]_httpVars
  BY <1>3 DEF Delivery, Ends, Tell, Posted, HttpNext, Around, Goroutine
<1>4. ASSUME NEW r \in Runs,
             Restore(r) \/ Fail(r) \/ Answer(r) \/ Succeed(r)
               \/ (ContextEnds(r) /\ UNCHANGED sessions)
      PROVE  [HttpNext]_httpVars
  BY <1>4 DEF HttpNext, Around
<1> QED
  BY <1>1, <1>2, <1>3, <1>4 DEF ServerNext, serverVars, httpVars

(* The server with its channel implements the runs with their histories:    *)
(* every theorem about HttpRuns is one about ServerChannel.                 *)
THEOREM ImplementsHttpRuns == ServerSpec => HttpSpec
<1>1. ServerInit => HttpInit
  BY DEF ServerInit
<1> QED
  BY <1>1, HttpStep, PTL DEF ServerSpec, HttpSpec

(* So no turn of a history is lost and the records are true, whatever the   *)
(* channel does.                                                            *)
THEOREM ServerHistories == ServerSpec => HistoryOnlyGrows /\ []RecordMatchesHistory
BY ImplementsHttpRuns, NoTurnLost, RecordIsTrue, PTL

----------------------------------------------------------------------------
(* A run whose copy is made keeps its agent; its goroutine leaves OnDone,   *)
(* enters "callback" and starts only in steps that are not quiet, and a     *)
(* reply to a waiting caller comes when it is done.                         *)
RunQuiet(q) ==
  /\ exec'[q] = "callback" <=> exec[q] = "callback"
  /\ exec'[q] \in {"closing", "done"} <=> exec[q] \in {"closing", "done"}
  /\ exec[q] = "done" => exec'[q] = "done"
  /\ Finished(q) => agent'[q] = agent[q]
  /\ call'[q] = "refused" => exec'[q] = "none"
  /\ call'[q] \in {"answered", "vanished"} => exec'[q] = "done"
  /\ call[q] = "refused" => call'[q] = "refused"

LEMMA QuietRun ==
  ASSUME HttpInv, CopyInv, Quiet, NEW q \in Runs
  PROVE  RunQuiet(q)
<1> USE DEF HttpInv, IInv, TypeOK, RecordInv, Active, Finished, AgentType, AgentInv, CopyInv,
            RunQuiet
<1>1. ASSUME NEW r \in Runs, NEW s \in Sessions, Conflict(r, s), UNCHANGED sessions
      PROVE  RunQuiet(q)
  BY <1>1 DEF Conflict, sessions, registry
<1>2. ASSUME NEW r \in Runs, NEW s \in Sessions, NEW wait \in BOOLEAN, Register(r, s, wait),
             UNCHANGED sessions
      PROVE  RunQuiet(q)
  BY <1>2 DEF Register, sessions
<1>3. ASSUME NEW r \in Runs, StartReturns(r) \/ CloseDone(r) \/ ContextEnds(r),
             UNCHANGED sessions
      PROVE  RunQuiet(q)
  BY <1>3 DEF StartReturns, Done, CloseDone, ContextEnds, sessions, callers
<1>4. ASSUME NEW r \in Runs, Restore(r) \/ Answer(r)
      PROVE  RunQuiet(q)
  BY <1>4 DEF Restore, Answer, vars, callers
<1>5. ASSUME NEW r \in Runs, Fail(r) \/ Succeed(r)
      PROVE  RunQuiet(q)
  BY <1>5 DEF Fail, Succeed, RunnerReturns, sessions, callers
<1> QED
  BY <1>1, <1>2, <1>3, <1>4, <1>5 DEF Quiet, QuietCalls, Runner

(* An entry of the transcript is about a run. *)
LEMMA EntryType ==
  ASSUME TalkType
  PROVE  \A i \in DOMAIN talk : talk[i] \in Entry /\ talk[i].run \in Runs
<1>1. \A i \in DOMAIN talk : talk[i] \in Entry
  BY DEF TalkType
<1>2. \A e \in Entry : e.run \in Runs
  BY DEF Entry
<1> QED
  BY <1>1, <1>2

(* The goroutine of one run goes on; callers, agents and sessions stay.     *)
RunGoesOn(r, to) ==
  /\ exec' = [exec EXCEPT ![r] = to]
  /\ UNCHANGED <<call, agent, talk, said, waited>>

(* What the channel has shown stays true of the runs while nothing is added *)
(* to the transcript: a request that was refused remains so.                *)
LEMMA NothingNew ==
  ASSUME TalkInv, UNCHANGED <<talk, said, waited>>,
         \A q \in Runs : call[q] = "refused" => call'[q] = "refused",
         \A q \in Runs : told[q] = "blank" => told'[q] = "blank"
  PROVE  WaitingClientReadsInOrder'
<1>1. \A i \in DOMAIN talk : talk[i].run \in Runs
  BY EntryType DEF TalkInv
<1> QED
  BY <1>1 DEF TalkInv, WaitingClientReadsInOrder, Outcomes

LEMMA CountedType ==
  ASSUME TalkType, NEW ks
  PROVE  Counted(ks) \in [counters -> Nat]
<1>1. \A k \in counters :
        metrics[k] \in Nat /\ metrics[k] + (IF k \in ks THEN 1 ELSE 0) \in Nat
  BY DEF TalkType
<1> QED
  BY <1>1 DEF Counted

LEMMA QuietInv ==
  ASSUME HttpInv, TalkInv, Quiet
  PROVE  TalkInv'
<1>1. \A q \in Runs : RunQuiet(q)
  BY QuietRun DEF TalkInv
<1>2. TalkType'
  <2>1. TalkType
    BY DEF TalkInv
  <2>2. metrics' \in [counters -> Nat]
    <3>1. CASE metrics' = metrics
      BY <2>1, <3>1 DEF TalkType
    <3>2. ASSUME NEW ks, metrics' = Counted(ks) PROVE metrics' \in [counters -> Nat]
      BY <2>1, <3>2, CountedType
    <3> QED
      BY <3>1, <3>2 DEF Quiet
  <2> QED
    BY <2>1, <2>2 DEF TalkType, Quiet
<1>3. CopyInv'
  BY <1>1 DEF TalkInv, CopyInv, Quiet, RunQuiet, Finished
<1>4. OutcomeInv'
  BY DEF TalkInv, OutcomeInv, Quiet
<1>5. WaitingClientReadsInOrder'
  BY <1>1, NothingNew DEF Quiet, RunQuiet
<1> QED
  BY <1>2, <1>3, <1>4, <1>5 DEF TalkInv

(* finish makes the copy: a run on record as succeeded has committed its    *)
(* turn, one on record as failed has not.                                   *)
LEMMA EndsInv ==
  ASSUME HttpInv, TalkInv, NEW r \in Runs, Ends(r)
  PROVE  TalkInv'
<1>1. /\ exec[r] = "returned"
      /\ RunGoesOn(r, "callback")
      /\ rec' = [rec EXCEPT ![r] = FinalStatus(r)]
      /\ UNCHANGED <<told, metrics>>
  BY DEF Ends, Finish, RunGoesOn, callers, sessions
<1>2. /\ FinalStatus(r) \in Terminal
      /\ FinalStatus(r) = "succeeded" => agent[r] = "committed"
      /\ FinalStatus(r) = "failed" => agent[r] = "failed"
  BY <1>1, FinalStatusType DEF FinalStatus, HttpInv, AgentInv
<1>3. exec \in [Runs -> {"none", "running", "returned", "callback", "closing", "done"}]
  BY DEF HttpInv, IInv, TypeOK
<1>4. TalkType'
  BY <1>1, <1>2 DEF TalkInv, TalkType, RunGoesOn
<1>5. CopyInv'
  BY <1>1, <1>2, <1>3 DEF TalkInv, TalkType, CopyInv, RunGoesOn, Finished, Terminal
<1>6. OutcomeInv'
  <2>1. \A q \in Runs : told[q] = "sent" => rec'[q] = rec[q]
    BY <1>1 DEF TalkInv, TalkType, CopyInv, Finished
  <2>2. \A i \in DOMAIN talk : talk[i].run \in Runs
    BY EntryType DEF TalkInv
  <2> QED
    BY <1>1, <2>1, <2>2 DEF TalkInv, OutcomeInv, RunGoesOn
<1>7. WaitingClientReadsInOrder'
  BY <1>1, NothingNew DEF RunGoesOn
<1> QED
  BY <1>4, <1>5, <1>6, <1>7 DEF TalkInv

(* The post after the transcript. *)
LEMMA PostedInv ==
  ASSUME HttpInv, TalkInv, NEW r \in Runs, NEW fails \in BOOLEAN, Posted(r, fails)
  PROVE  TalkInv'
<1>1. /\ exec[r] = "callback" /\ told[r] # "no"
      /\ RunGoesOn(r, "closing")
      /\ metrics' = Counted(IF fails THEN {"channel"} ELSE {})
      /\ UNCHANGED <<rec, told>>
  BY DEF Posted, OnDone, RunGoesOn, callers, sessions
<1>2. exec \in [Runs -> {"none", "running", "returned", "callback", "closing", "done"}]
  BY DEF HttpInv, IInv, TypeOK
<1>3. TalkType'
  <2>1. TalkType
    BY DEF TalkInv
  <2> QED
    BY <1>1, <2>1, CountedType DEF TalkType, RunGoesOn
<1>4. CopyInv'
  BY <1>1, <1>2 DEF TalkInv, TalkType, CopyInv, RunGoesOn, Finished
<1>5. OutcomeInv'
  BY <1>1 DEF TalkInv, OutcomeInv, RunGoesOn
<1>6. WaitingClientReadsInOrder'
  BY <1>1, NothingNew DEF RunGoesOn
<1> QED
  BY <1>3, <1>4, <1>5, <1>6 DEF TalkInv

(* Append, spelt out for the transcript. *)
LEMMA AppendEntry ==
  ASSUME TalkType, NEW e \in Entry, talk' = Append(talk, e)
  PROVE  /\ talk' \in Seq(Entry)
         /\ Len(talk) \in Nat
         /\ DOMAIN talk = 1 .. Len(talk) /\ DOMAIN talk' = 1 .. Len(talk) + 1
         /\ talk'[Len(talk) + 1] = e
         /\ \A i \in DOMAIN talk : talk'[i] = talk[i]
BY DEF TalkType

(* Appending changes a sequence. *)
LEMMA AppendLonger == ASSUME NEW S, NEW q \in Seq(S), NEW e \in S PROVE Append(q, e) # q
<1>1. Len(Append(q, e)) = Len(q) + 1 /\ Len(q) \in Nat
  OBVIOUS
<1> QED
  BY <1>1

(* A message: its run has had no outcome, and when its client has waited,   *)
(* the outcomes of the session's earlier runs already stand there.          *)
LEMMA SayInv ==
  ASSUME HttpInv, TalkInv, NEW r \in Runs, NEW s \in Sessions, Say(r, s)
  PROVE  TalkInv'
<1> DEFINE e == [kind |-> "user", run |-> r]
           n == Len(talk) + 1
<1>1. /\ call[r] = "none" /\ said[r] = NoSession
      /\ said' = [said EXCEPT ![r] = s]
      /\ talk' = Append(talk, e)
      /\ waited' = IF \A q \in Runs : said[q] = s => Replied(q) THEN waited \cup {r} ELSE waited
      /\ UNCHANGED <<exec, call, agent, rec, told, metrics>>
  BY DEF Say, httpVars, vars, callers, sessions
<1>2. e \in Entry
  BY DEF Entry
<1>3. /\ talk' \in Seq(Entry)
      /\ n \in Nat /\ DOMAIN talk = 1 .. n - 1 /\ DOMAIN talk' = 1 .. n
      /\ talk'[n] = e
      /\ \A i \in DOMAIN talk : talk'[i] = talk[i]
  BY <1>1, <1>2, AppendEntry DEF TalkInv
<1>4. \A i \in DOMAIN talk : talk[i].run \in Runs
  BY EntryType DEF TalkInv
<1>5. TalkType'
  BY <1>1, <1>3 DEF TalkInv, TalkType
<1>6. CopyInv'
  BY <1>1 DEF TalkInv, CopyInv, Finished
<1>7. told[r] = "no"
  BY <1>1 DEF TalkInv, TalkType, CopyInv, HttpInv, IInv, RecordInv, Finished
<1>8. OutcomeInv'
  <2>1. \A i \in DOMAIN talk' : i \in DOMAIN talk \/ i = n
    BY <1>3
  <2>2. \A i \in DOMAIN talk : talk[i].kind # "user" => talk[i].run # r
    BY <1>7 DEF TalkInv, OutcomeInv
  <2>3. \A i \in DOMAIN talk' : talk'[i].kind # "user" =>
          i \in DOMAIN talk /\ talk'[i] = talk[i]
    BY <1>3, <2>1
  <2>4. \A i \in DOMAIN talk' : talk'[i].kind # "user" =>
          /\ told'[talk'[i].run] = "sent"
          /\ talk'[i].kind = "assistant" <=> rec'[talk'[i].run] = "succeeded"
    BY <1>1, <2>3 DEF TalkInv, OutcomeInv
  <2>5. ASSUME NEW i \in DOMAIN talk', NEW j \in DOMAIN talk',
               talk'[i].run = talk'[j].run, talk'[j].kind # "user"
        PROVE  IF talk'[i].kind = "user" THEN i < j ELSE i = j
    <3>1. j \in DOMAIN talk /\ talk'[j] = talk[j] /\ talk[j].run # r
      BY <2>2, <2>3, <2>5
    <3>2. i \in DOMAIN talk /\ talk'[i] = talk[i]
      BY <1>3, <2>1, <2>5, <3>1
    <3> QED
      BY <2>5, <3>1, <3>2 DEF TalkInv, OutcomeInv
  <2>6. ASSUME NEW q \in Runs, told'[q] = "sent"
        PROVE  \E i \in DOMAIN talk' : talk'[i].run = q /\ talk'[i].kind # "user"
    <3>1. PICK i \in DOMAIN talk : talk[i].run = q /\ talk[i].kind # "user"
      BY <1>1, <2>6 DEF TalkInv, OutcomeInv
    <3> QED
      BY <1>3, <3>1
  <2>7. ASSUME NEW i \in DOMAIN talk', talk'[i].kind = "user"
        PROVE  said'[talk'[i].run] # NoSession
    <3>1. s # NoSession
      BY SessionsAssumption
    <3>2. CASE i = n
      BY <1>1, <1>3, <3>1, <3>2 DEF TalkInv, TalkType
    <3>3. CASE i \in DOMAIN talk
      BY <1>1, <1>3, <1>4, <2>7, <3>1, <3>3 DEF TalkInv, TalkType, OutcomeInv
    <3> QED
      BY <2>1, <3>2, <3>3
  <2>8. \A q \in waited' : said'[q] # NoSession
    BY <1>1, SessionsAssumption DEF TalkInv, TalkType, OutcomeInv
  <2> QED
    BY <2>4, <2>5, <2>6, <2>7, <2>8 DEF OutcomeInv
<1>9. WaitingClientReadsInOrder'
  <2>1. SUFFICES ASSUME NEW i \in DOMAIN talk', NEW j \in DOMAIN talk', i < j,
                        talk'[i].kind = "user", talk'[j].kind = "user",
                        talk'[j].run \in waited', said'[talk'[i].run] = said'[talk'[j].run]
                 PROVE  \/ call[talk'[i].run] = "refused" \/ told[talk'[i].run] = "blank"
                        \/ \E k \in DOMAIN talk' :
                             /\ talk'[k].run = talk'[i].run /\ talk'[k].kind # "user"
                             /\ i < k /\ k < j
    BY <1>1 DEF WaitingClientReadsInOrder, Outcomes
  <2>2. i \in DOMAIN talk /\ talk'[i] = talk[i]
    BY <1>3, <2>1
  <2> DEFINE q == talk[i].run
  <2>3. q \in Runs /\ q # r /\ said'[q] = said[q]
    BY <1>1, <1>4, <2>1, <2>2 DEF TalkInv, TalkType, OutcomeInv
  <2>4. CASE j \in DOMAIN talk
    <3>1. talk'[j] = talk[j] /\ talk[j].run \in Runs /\ talk[j].run # r
      BY <1>1, <1>3, <1>4, <2>1, <2>4 DEF TalkInv, TalkType, OutcomeInv
    <3>2. talk[j].run \in waited /\ said[q] = said[talk[j].run]
      BY <1>1, <2>1, <2>2, <2>3, <3>1 DEF TalkInv, TalkType
    <3>3. \/ call[q] = "refused" \/ told[q] = "blank"
          \/ \E k \in DOMAIN talk : /\ talk[k].run = q /\ talk[k].kind # "user"
                                    /\ i < k /\ k < j
      BY <2>1, <2>2, <2>4, <3>1, <3>2 DEF TalkInv, WaitingClientReadsInOrder, Outcomes
    <3> QED
      BY <1>3, <2>2, <3>3
  <2>5. CASE j = n
    <3>1. said[q] = s
      BY <1>1, <1>3, <2>1, <2>2, <2>3, <2>5 DEF TalkInv, TalkType
    <3>2. r \in waited'
      BY <1>3, <2>1, <2>5
    <3>3. r \notin waited
      BY <1>1 DEF TalkInv, OutcomeInv
    <3>4. CASE Replied(q)
      <4>1. call[q] = "refused" \/ told[q] \in {"sent", "blank"}
        BY <2>3, <3>4 DEF Replied, TalkInv, TalkType, CopyInv
      <4>2. CASE told[q] = "sent"
        <5>1. PICK k \in DOMAIN talk : talk[k].run = q /\ talk[k].kind # "user"
          BY <2>3, <4>2 DEF TalkInv, OutcomeInv
        <5>2. i < k
          BY <2>1, <2>2, <5>1 DEF TalkInv, OutcomeInv
        <5> QED
          BY <1>3, <2>2, <2>5, <5>1, <5>2
      <4> QED
        BY <2>2, <4>1, <4>2
    <3> QED
      BY <1>1, <2>3, <3>1, <3>2, <3>3, <3>4
  <2> QED
    BY <1>3, <2>4, <2>5
<1> QED
  BY <1>5, <1>6, <1>8, <1>9 DEF TalkInv

(* OnDone sends the outcome: the run has had none, and its user's message   *)
(* stands before it.                                                        *)
LEMMA TellInv ==
  ASSUME HttpInv, TalkInv, NEW r \in Runs, Tell(r)
  PROVE  TalkInv'
<1> DEFINE e == [kind |-> Kind(r), run |-> r]
           n == Len(talk) + 1
<1>1. /\ exec[r] = "callback" /\ told[r] = "no"
      /\ metrics' = Counted({Outcome(r)})
      /\ UNCHANGED <<exec, call, agent, said, waited, rec>>
      /\ \/ told' = [told EXCEPT ![r] = "sent"] /\ talk' = Append(talk, e)
         \/ told' = [told EXCEPT ![r] = "blank"] /\ talk' = talk
  BY DEF Tell, httpVars, vars, callers, sessions
<1>2. CopyInv'
  BY <1>1 DEF TalkInv, TalkType, CopyInv, Finished
<1>3. told' \in [Runs -> {"no", "sent", "blank"}] /\ metrics' \in [counters -> Nat]
  BY <1>1 DEF TalkInv, TalkType, Counted
<1>4. \A i \in DOMAIN talk : talk[i].run \in Runs
  BY EntryType DEF TalkInv
<1>5. \A i \in DOMAIN talk : talk[i].kind # "user" => talk[i].run # r
  BY <1>1 DEF TalkInv, OutcomeInv
<1>6. \A q \in Runs : q # r => told'[q] = told[q]
  BY <1>1 DEF TalkInv, TalkType
<1>7. CASE talk' = talk
  <2>1. TalkType'
    BY <1>1, <1>3, <1>7 DEF TalkInv, TalkType
  <2>2. told'[r] = "blank"
    <3>1. told' = [told EXCEPT ![r] = "blank"]
      BY <1>1, <1>7, AppendLonger DEF TalkInv, TalkType
    <3> QED
      BY <3>1 DEF TalkInv, TalkType
  <2>3. OutcomeInv'
    BY <1>1, <1>4, <1>5, <1>6, <1>7, <2>2 DEF TalkInv, OutcomeInv
  <2>4. WaitingClientReadsInOrder'
    BY <1>1, <1>6, <1>7, NothingNew
  <2> QED
    BY <1>2, <2>1, <2>3, <2>4 DEF TalkInv
<1>8. CASE told' = [told EXCEPT ![r] = "sent"] /\ talk' = Append(talk, e)
  <2>1. e \in Entry /\ e.kind # "user" /\ e.run = r
    BY DEF Entry, Kind
  <2>2. /\ talk' \in Seq(Entry)
        /\ n \in Nat /\ DOMAIN talk = 1 .. n - 1 /\ DOMAIN talk' = 1 .. n
        /\ talk'[n] = e
        /\ \A i \in DOMAIN talk : talk'[i] = talk[i]
    BY <1>8, <2>1, AppendEntry DEF TalkInv
  <2>3. TalkType'
    BY <1>1, <1>3, <2>2 DEF TalkInv, TalkType
  <2>4. told'[r] = "sent"
    BY <1>8 DEF TalkInv, TalkType
  <2>5. \A i \in DOMAIN talk' : i \in DOMAIN talk \/ i = n
    BY <2>2
  <2>6. OutcomeInv'
    <3>1. ASSUME NEW i \in DOMAIN talk', talk'[i].kind # "user"
          PROVE  /\ told'[talk'[i].run] = "sent"
                 /\ talk'[i].kind = "assistant" <=> rec'[talk'[i].run] = "succeeded"
      <4>1. CASE i = n
        BY <1>1, <2>1, <2>2, <2>4, <4>1 DEF Kind, Outcome
      <4>2. CASE i \in DOMAIN talk
        BY <1>1, <1>4, <1>5, <1>6, <2>2, <3>1, <4>2 DEF TalkInv, OutcomeInv
      <4> QED
        BY <2>5, <4>1, <4>2
    <3>2. ASSUME NEW i \in DOMAIN talk', NEW j \in DOMAIN talk',
                 talk'[i].run = talk'[j].run, talk'[j].kind # "user"
          PROVE  IF talk'[i].kind = "user" THEN i < j ELSE i = j
      <4>1. CASE i \in DOMAIN talk /\ j \in DOMAIN talk
        BY <2>2, <3>2, <4>1 DEF TalkInv, OutcomeInv
      <4>2. CASE i \in DOMAIN talk /\ j = n
        BY <1>5, <2>1, <2>2, <3>2, <4>2
      <4>3. CASE i = n /\ j \in DOMAIN talk
        BY <1>5, <2>1, <2>2, <3>2, <4>3
      <4>4. CASE i = n /\ j = n
        BY <2>1, <2>2, <4>4
      <4> QED
        BY <2>5, <4>1, <4>2, <4>3, <4>4
    <3>3. ASSUME NEW q \in Runs, told'[q] = "sent"
          PROVE  \E i \in DOMAIN talk' : talk'[i].run = q /\ talk'[i].kind # "user"
      <4>1. CASE q = r
        BY <2>1, <2>2, <4>1
      <4>2. CASE q # r
        <5>1. PICK i \in DOMAIN talk : talk[i].run = q /\ talk[i].kind # "user"
          BY <1>6, <3>3, <4>2 DEF TalkInv, OutcomeInv
        <5> QED
          BY <2>2, <5>1
      <4> QED
        BY <4>1, <4>2
    <3>4. ASSUME NEW i \in DOMAIN talk', talk'[i].kind = "user"
          PROVE  said'[talk'[i].run] # NoSession
      BY <1>1, <2>1, <2>2, <2>5, <3>4 DEF TalkInv, OutcomeInv
    <3>5. \A q \in waited' : said'[q] # NoSession
      BY <1>1 DEF TalkInv, OutcomeInv
    <3> QED
      BY <3>1, <3>2, <3>3, <3>4, <3>5 DEF OutcomeInv
  <2>7. WaitingClientReadsInOrder'
    <3>1. SUFFICES ASSUME NEW i \in DOMAIN talk', NEW j \in DOMAIN talk', i < j,
                          talk'[i].kind = "user", talk'[j].kind = "user",
                          talk'[j].run \in waited, said[talk'[i].run] = said[talk'[j].run]
                   PROVE  \/ call[talk'[i].run] = "refused" \/ told'[talk'[i].run] = "blank"
                          \/ \E k \in DOMAIN talk' :
                               /\ talk'[k].run = talk'[i].run /\ talk'[k].kind # "user"
                               /\ i < k /\ k < j
      BY <1>1 DEF WaitingClientReadsInOrder, Outcomes
    <3>2. i \in DOMAIN talk /\ j \in DOMAIN talk /\ talk'[i] = talk[i] /\ talk'[j] = talk[j]
      BY <2>1, <2>2, <2>5, <3>1
    <3>3. \/ call[talk[i].run] = "refused" \/ told[talk[i].run] = "blank"
          \/ \E k \in DOMAIN talk : /\ talk[k].run = talk[i].run /\ talk[k].kind # "user"
                                    /\ i < k /\ k < j
      BY <3>1, <3>2 DEF TalkInv, WaitingClientReadsInOrder, Outcomes
    <3>4. told[talk[i].run] = "blank" => told'[talk[i].run] = "blank"
      BY <1>1, <1>4, <1>6, <3>2
    <3> QED
      BY <2>2, <3>2, <3>3, <3>4
  <2> QED
    BY <1>2, <2>3, <2>6, <2>7 DEF TalkInv
<1> QED
  BY <1>1, <1>7, <1>8

(* The inductive invariant of the channel. *)
THEOREM TalkInvariance == ServerSpec => [](HttpInv /\ TalkInv)
<1>1. ServerInit => TalkInv
  BY DEF ServerInit, HttpInit, Init, TalkInv, TalkType, CopyInv, OutcomeInv, Entry, Finished,
         WaitingClientReadsInOrder
<1>2. HttpInv /\ TalkInv /\ [ServerNext]_serverVars => TalkInv'
  <2>1. ASSUME HttpInv, TalkInv, ServerNext PROVE TalkInv'
    BY <2>1, ServerSteps, QuietInv, SayInv, EndsInv, TellInv, PostedInv
  <2>2. ASSUME TalkInv, UNCHANGED serverVars PROVE TalkInv'
    BY <2>2 DEF TalkInv, TalkType, CopyInv, OutcomeInv, Finished, WaitingClientReadsInOrder,
                Outcomes, serverVars, httpVars, vars, callers, sessions
  <2> QED
    BY <2>1, <2>2
<1>3. ServerSpec => []HttpInv
  BY ImplementsHttpRuns, HttpInvariance, PTL
<1> QED
  BY <1>1, <1>2, <1>3, PTL DEF ServerSpec

(* The types of the server's state, for every instance. *)
THEOREM ServerTypes == ServerSpec => []ServerTypeOK
<1>1. HttpInv /\ TalkInv => ServerTypeOK
  BY DEF HttpInv, IInv, AgentType, TalkInv, TalkType, Entry, ServerTypeOK, HttpTypeOK
<1> QED
  BY <1>1, TalkInvariance, PTL

(* A client that waits for its replies reads a conversation. *)
THEOREM ConversationInOrder == ServerSpec => []WaitingClientReadsInOrder
BY TalkInvariance, PTL DEF TalkInv

(* The channel is told the outcome of each run once, before its caller, and *)
(* what it is told agrees with the history of the session.                  *)
THEOREM ChannelIsTold == ServerSpec => []ChannelTellsOnce
<1>1. HttpInv /\ TalkInv => ChannelTellsOnce
  <2>1. SUFFICES ASSUME HttpInv, TalkInv, NEW r \in Runs
                 PROVE  /\ Cardinality(Outcomes(r)) <= 1
                        /\ call[r] \in {"answered", "vanished"} =>
                             Outcomes(r) # {} \/ told[r] = "blank"
                        /\ call[r] = "refused" => Outcomes(r) = {}
                        /\ \A i \in Outcomes(r) :
                             IF talk[i].kind = "assistant"
                             THEN Remembers(sess[r], r) \/ r \in forgotten
                             ELSE Remembers(sess[r], r) => rec[r] = "cancelled"
    BY DEF ChannelTellsOnce
  <2>2. Cardinality(Outcomes(r)) <= 1
    <3>1. CASE Outcomes(r) = {}
      BY <3>1, FS_EmptySet
    <3>2. CASE Outcomes(r) # {}
      <4>1. PICK i \in Outcomes(r) : TRUE
        BY <3>2
      <4>2. Outcomes(r) = {i}
        BY <2>1, <4>1 DEF Outcomes, TalkInv, OutcomeInv
      <4> QED
        BY <4>2, FS_Singleton
    <3> QED
      BY <3>1, <3>2
  <2>3. call[r] \in {"answered", "vanished"} => Outcomes(r) # {} \/ told[r] = "blank"
    BY <2>1 DEF TalkInv, TalkType, CopyInv, OutcomeInv, Outcomes
  <2>4. call[r] = "refused" => Outcomes(r) = {}
    BY <2>1 DEF TalkInv, CopyInv, OutcomeInv, Outcomes, Finished
  <2>5. ASSUME NEW i \in Outcomes(r)
        PROVE  IF talk[i].kind = "assistant"
               THEN Remembers(sess[r], r) \/ r \in forgotten
               ELSE Remembers(sess[r], r) => rec[r] = "cancelled"
    <3>1. /\ talk[i].kind = "assistant" <=> rec[r] = "succeeded"
          /\ rec[r] \in Terminal
      BY <2>1, <2>5 DEF TalkInv, TalkType, CopyInv, OutcomeInv, Outcomes
    <3>2. rec[r] = "succeeded" => Remembers(sess[r], r) \/ r \in forgotten
      BY <2>1 DEF HttpInv, SavedInv, TalkInv, CopyInv
    <3>3. rec[r] = "failed" => ~ Remembers(sess[r], r)
      <4>1. ASSUME rec[r] = "failed" PROVE agent[r] = "failed" /\ sess[r] \in Sessions
        BY <2>1, <4>1 DEF HttpInv, AgentInv, TalkInv, CopyInv
      <4> QED
        BY <2>1, <4>1 DEF HttpInv, StoredInv, Remembers
    <3> QED
      BY <3>1, <3>2, <3>3 DEF Terminal
  <2> QED
    BY <2>2, <2>3, <2>4, <2>5
<1> QED
  BY <1>1, TalkInvariance, PTL

----------------------------------------------------------------------------
(* The counters: of the runs that have begun, those whose caller still      *)
(* waits or was told that they vanished are not counted as started; those   *)
(* that OnDone has told of are counted by their outcome.                    *)
Begun     == {r \in Runs : exec[r] # "none"}
Uncounted == {r \in Runs : call[r] \in {"waiting", "vanished"}}
ToldOf    == {r \in Runs : told[r] # "no"}

CountInv ==
  /\ metrics["started"] + Cardinality(Uncounted) = Cardinality(Begun)
  /\ metrics["succeeded"] + metrics["failed"] + metrics["cancelled"] = Cardinality(ToldOf)

(* Finite sets of runs, and what one run more makes of their size.          *)
LEMMA RunSets ==
  ASSUME NEW S \in SUBSET Runs
  PROVE  /\ Cardinality(S) \in Nat
         /\ \A r \in Runs \ S : Cardinality(S \cup {r}) = Cardinality(S) + 1
<1>1. IsFiniteSet(S)
  BY RunsAssumption, FS_Subset
<1> QED
  BY <1>1, FS_CardinalityType, FS_AddElement

(* A run that is registered has begun; it is counted, or its caller waits.  *)
LEMMA AcceptedCounts ==
  ASSUME HttpInv, TalkInv, CountInv, NEW r \in Runs, NEW s \in Sessions,
         NEW wait \in BOOLEAN, Accepted(r, s, wait)
  PROVE  CountInv'
<1>1. /\ call[r] = "none" /\ exec[r] = "none"
      /\ exec' = [exec EXCEPT ![r] = "running"]
      /\ call' = [call EXCEPT ![r] = IF wait THEN "waiting" ELSE "detached"]
      /\ metrics' = Counted(IF wait THEN {} ELSE {"started"})
      /\ told' = told
  BY DEF Accepted, Register, HttpInv, IInv, RecordInv
<1>2. Begun' = Begun \cup {r} /\ r \notin Begun /\ ToldOf' = ToldOf
  BY <1>1 DEF Begun, ToldOf, HttpInv, IInv, TypeOK
<1>3. r \notin Uncounted /\ Uncounted' = IF wait THEN Uncounted \cup {r} ELSE Uncounted
  BY <1>1 DEF Uncounted, HttpInv, IInv, TypeOK
<1>4. /\ metrics'["started"] = metrics["started"] + IF wait THEN 0 ELSE 1
      /\ metrics'["succeeded"] = metrics["succeeded"] /\ metrics'["failed"] = metrics["failed"]
      /\ metrics'["cancelled"] = metrics["cancelled"]
      /\ metrics \in [counters -> Nat]
  BY <1>1 DEF TalkInv, TalkType, Counted, counters
<1>5. /\ Cardinality(Begun \cup {r}) = Cardinality(Begun) + 1
      /\ Cardinality(Uncounted \cup {r}) = Cardinality(Uncounted) + 1
      /\ Cardinality(Begun) \in Nat /\ Cardinality(Uncounted) \in Nat
  BY <1>2, <1>3, RunSets DEF Begun, Uncounted
<1>6. metrics["started"] \in Nat
  BY <1>4 DEF counters
<1> QED
  BY <1>2, <1>3, <1>4, <1>5, <1>6 DEF CountInv

(* The caller returns, and counts the run unless it has vanished.           *)
LEMMA ReplyCounts ==
  ASSUME HttpInv, TalkInv, CountInv, NEW r \in Runs, Reply(r)
  PROVE  CountInv'
<1>1. /\ call[r] = "waiting"
      /\ call' = [call EXCEPT ![r] = IF byID[r] = "absent" THEN "vanished" ELSE "answered"]
      /\ metrics' = Counted(IF call'[r] = "answered" THEN {"started"} ELSE {})
      /\ exec' = exec /\ told' = told
  BY DEF Reply, StartReturns
<1>2. Begun' = Begun /\ ToldOf' = ToldOf
  BY <1>1 DEF Begun, ToldOf
<1>3. /\ metrics'["started"] = metrics["started"] + IF call'[r] = "answered" THEN 1 ELSE 0
      /\ metrics'["succeeded"] = metrics["succeeded"] /\ metrics'["failed"] = metrics["failed"]
      /\ metrics'["cancelled"] = metrics["cancelled"]
      /\ metrics \in [counters -> Nat]
  BY <1>1 DEF TalkInv, TalkType, Counted, counters
<1>4. metrics["started"] \in Nat
  BY <1>3 DEF counters
<1>5. CASE byID[r] = "absent"
  <2>1. call'[r] = "vanished" /\ Uncounted' = Uncounted
    BY <1>1, <1>5 DEF Uncounted, HttpInv, IInv, TypeOK
  <2>2. metrics'["started"] = metrics["started"]
    BY <1>3, <1>4, <2>1
  <2> QED
    BY <1>2, <1>3, <2>1, <2>2 DEF CountInv
<1>6. CASE byID[r] # "absent"
  <2>1. /\ call'[r] = "answered" /\ r \notin Uncounted' /\ Uncounted' \subseteq Runs
        /\ Uncounted = Uncounted' \cup {r}
    BY <1>1, <1>6 DEF Uncounted, HttpInv, IInv, TypeOK
  <2>2. Cardinality(Uncounted) = Cardinality(Uncounted') + 1 /\ Cardinality(Uncounted') \in Nat
    BY <2>1, RunSets
  <2> QED
    BY <1>2, <1>3, <1>4, <2>1, <2>2 DEF CountInv
<1> QED
  BY <1>5, <1>6

(* OnDone counts the outcome of its run. *)
LEMMA TellCounts ==
  ASSUME HttpInv, TalkInv, CountInv, NEW r \in Runs, Tell(r)
  PROVE  CountInv'
<1>1. /\ exec[r] = "callback" /\ told[r] = "no"
      /\ metrics' = Counted({rec[r]})
      /\ exec' = exec /\ call' = call
      /\ \E how \in {"sent", "blank"} : told' = [told EXCEPT ![r] = how]
  BY DEF Tell, Outcome, httpVars, vars, callers
<1>2. Begun' = Begun /\ Uncounted' = Uncounted
  BY <1>1 DEF Begun, Uncounted
<1>3. ToldOf' = ToldOf \cup {r} /\ r \notin ToldOf
  BY <1>1 DEF ToldOf, TalkInv, TalkType
<1>4. Cardinality(ToldOf') = Cardinality(ToldOf) + 1 /\ Cardinality(ToldOf) \in Nat
  BY <1>3, RunSets DEF ToldOf
<1>5. rec[r] \in {"succeeded", "failed", "cancelled"}
  BY <1>1 DEF TalkInv, TalkType, CopyInv, Finished, Terminal
<1>6. /\ metrics'["started"] = metrics["started"]
      /\ metrics'["succeeded"] = metrics["succeeded"] + IF rec[r] = "succeeded" THEN 1 ELSE 0
      /\ metrics'["failed"] = metrics["failed"] + IF rec[r] = "failed" THEN 1 ELSE 0
      /\ metrics'["cancelled"] = metrics["cancelled"] + IF rec[r] = "cancelled" THEN 1 ELSE 0
      /\ metrics["started"] \in Nat /\ metrics["succeeded"] \in Nat
      /\ metrics["failed"] \in Nat /\ metrics["cancelled"] \in Nat
  BY <1>1, <1>5 DEF TalkInv, TalkType, Counted, counters
<1> QED
  BY <1>2, <1>4, <1>5, <1>6 DEF CountInv

(* The other steps begin no run, tell of none and leave those counters.     *)
CountsStay ==
  /\ Begun' = Begun /\ Uncounted' = Uncounted /\ ToldOf' = ToldOf
  /\ \A k \in counters \ {"channel"} : metrics'[k] = metrics[k]

Others ==
  \/ \E r \in Runs, s \in Sessions : Say(r, s) \/ Refused(r, s)
  \/ \E r \in Runs : Ends(r) \/ \E fails \in BOOLEAN : Posted(r, fails)
  \/ \E r \in Runs :
       /\ \/ CloseDone(r) \/ Restore(r) \/ Fail(r) \/ Answer(r) \/ Succeed(r)
          \/ ContextEnds(r)
       /\ UNCHANGED <<told, metrics>>
  \/ UNCHANGED serverVars

LEMMA CallsStay ==
  ASSUME exec' = exec, told' = told, metrics' = metrics,
         \A r \in Runs : call[r] \in {"waiting", "vanished"}
                           <=> call'[r] \in {"waiting", "vanished"}
  PROVE  CountsStay
BY DEF CountsStay, Begun, Uncounted, ToldOf

LEMMA ExecStays ==
  ASSUME HttpInv, NEW r \in Runs, NEW how, how # "none", exec[r] # "none",
         exec' = [exec EXCEPT ![r] = how], call' = call, told' = told,
         \A k \in counters \ {"channel"} : metrics'[k] = metrics[k]
  PROVE  CountsStay
<1>1. \A q \in Runs : exec'[q] # "none" <=> exec[q] # "none"
  BY DEF HttpInv, IInv, TypeOK
<1>2. Begun' = Begun
  BY <1>1 DEF Begun
<1> QED
  BY <1>2 DEF CountsStay, Uncounted, ToldOf

LEMMA OthersCount ==
  ASSUME HttpInv, TalkInv, CountInv, Others
  PROVE  CountInv'
<1>1. ASSUME NEW r \in Runs, NEW s \in Sessions, Say(r, s) PROVE CountsStay
  BY <1>1, CallsStay DEF Say, httpVars, vars, callers
<1>2. ASSUME NEW r \in Runs, NEW s \in Sessions, Refused(r, s) PROVE CountsStay
  <2>1. call[r] = "none" /\ call' = [call EXCEPT ![r] = "refused"]
    BY <1>2 DEF Refused, Conflict
  <2>2. \A q \in Runs : call[q] \in {"waiting", "vanished"}
                          <=> call'[q] \in {"waiting", "vanished"}
    BY <2>1 DEF HttpInv, IInv, TypeOK
  <2> QED
    BY <1>2, <2>2, CallsStay DEF Refused, Conflict
<1>3. ASSUME NEW r \in Runs, Ends(r) PROVE CountsStay
  BY <1>3, ExecStays DEF Ends, Finish, callers
<1>4. ASSUME NEW r \in Runs, NEW fails \in BOOLEAN, Posted(r, fails) PROVE CountsStay
  <2>1. \A k \in counters \ {"channel"} : metrics'[k] = metrics[k]
    BY <1>4 DEF Posted, Counted, TalkInv, TalkType
  <2> QED
    BY <1>4, <2>1, ExecStays DEF Posted, OnDone, callers
<1>5. ASSUME NEW r \in Runs, UNCHANGED <<told, metrics>>,
             CloseDone(r) \/ Fail(r) \/ Succeed(r)
      PROVE  CountsStay
  <2>1. /\ exec[r] # "none" /\ call' = call
        /\ \E how \in {"done", "returned"} : exec' = [exec EXCEPT ![r] = how]
    BY <1>5 DEF CloseDone, Fail, Succeed, RunnerReturns, callers
  <2> QED
    BY <1>5, <2>1, ExecStays
<1>6. ASSUME NEW r \in Runs, UNCHANGED <<told, metrics>>,
             Restore(r) \/ Answer(r) \/ ContextEnds(r)
      PROVE  CountsStay
  BY <1>6, CallsStay DEF Restore, Answer, ContextEnds, vars, callers
<1>7. ASSUME UNCHANGED serverVars PROVE CountsStay
  <2>1. exec' = exec /\ call' = call /\ told' = told /\ metrics' = metrics
    BY <1>7 DEF serverVars, httpVars, vars, callers
  <2> QED
    BY <2>1, CallsStay
<1>8. CountsStay
  BY <1>1, <1>2, <1>3, <1>4, <1>5, <1>6, <1>7 DEF Others
<1> QED
  BY <1>8 DEF CountInv, CountsStay, counters

(* The counters agree with the runs in every reachable state.               *)
THEOREM CountInvariance == ServerSpec => []CountInv
<1>1. ServerInit => CountInv
  <2>1. ServerInit => Begun = {} /\ Uncounted = {} /\ ToldOf = {}
    BY DEF ServerInit, HttpInit, Init, Begun, Uncounted, ToldOf
  <2>2. ServerInit => \A k \in counters : metrics[k] = 0
    BY DEF ServerInit
  <2> QED
    BY <2>1, <2>2, FS_EmptySet DEF CountInv, counters
<1>2. HttpInv /\ TalkInv /\ CountInv /\ [ServerNext]_serverVars => CountInv'
  <2> SUFFICES ASSUME HttpInv, TalkInv, CountInv, [ServerNext]_serverVars PROVE CountInv'
    OBVIOUS
  <2>1. ASSUME NEW r \in Runs, NEW s \in Sessions,
               Say(r, s) \/ Refused(r, s) \/ \E wait \in BOOLEAN : Accepted(r, s, wait)
        PROVE  CountInv'
    BY <2>1, AcceptedCounts, OthersCount DEF Others
  <2>2. ASSUME NEW r \in Runs, Delivery(r) \/ Reply(r) PROVE CountInv'
    BY <2>2, TellCounts, ReplyCounts, OthersCount DEF Delivery, Others
  <2>3. ASSUME NEW r \in Runs,
               /\ Restore(r) \/ Fail(r) \/ Answer(r) \/ Succeed(r)
                    \/ (ContextEnds(r) /\ UNCHANGED sessions)
               /\ UNCHANGED <<talk, said, waited, rec, told, metrics>>
        PROVE  CountInv'
    BY <2>3, OthersCount DEF Others
  <2>4. CASE UNCHANGED serverVars
    BY <2>4, OthersCount DEF Others
  <2> QED
    BY <2>1, <2>2, <2>3, <2>4 DEF ServerNext
<1> QED
  BY <1>1, <1>2, TalkInvariance, PTL DEF ServerSpec

(* When nothing is under way the counters of /metrics add up.               *)
THEOREM CountsAgree == ServerSpec => []CountersAddUp
<1>1. HttpInv /\ TalkInv /\ CountInv => CountersAddUp
  <2> SUFFICES ASSUME HttpInv, TalkInv, CountInv,
                      \A r \in Runs : exec[r] \in {"none", "done"} /\ call[r] # "waiting"
               PROVE  metrics["started"] + Cardinality({r \in Runs : call[r] = "vanished"})
                        = metrics["succeeded"] + metrics["failed"] + metrics["cancelled"]
    BY DEF CountersAddUp
  <2>1. Begun = ToldOf
    BY DEF Begun, ToldOf, TalkInv, CopyInv, Finished
  <2>2. Uncounted = {r \in Runs : call[r] = "vanished"}
    BY DEF Uncounted
  <2> QED
    BY <2>1, <2>2 DEF CountInv
<1> QED
  BY <1>1, CountInvariance, TalkInvariance, PTL
=============================================================================
