----------------------------- MODULE RunRegistry -----------------------------
(***************************************************************************)
(* run.Registry: the runs an agent server has under way and those it still *)
(* remembers, with one running run for each session, cancellation by       *)
(* client, request or deadline, and eviction of the oldest finished        *)
(* records.                                                                *)
(*                                                                         *)
(* Registry.mu is taken in Start (conflict check and registration), Get,   *)
(* Cancel, Annotate and finish, each one action here; between them run the *)
(* runner, OnDone, the waiting callers and the timers.  Record contents    *)
(* other than SessionID, Status, FinishedAt and ChannelErr are left out.   *)
(* A blank session id is replaced by a fresh one: a session of its own.    *)
(***************************************************************************)
EXTENDS Naturals, FiniteSets

CONSTANTS
  Runs,        \* the ids newID may hand out, one for each call of Start
  Sessions,    \* session ids
  MaxRecords,  \* finished records kept (Registry.MaxRecords)
  HasTimeout,  \* is Registry.Timeout positive?
  Clients,     \* the callers of Cancel
  NoRun,       \* no entry in Registry.bySession; a client that cancels nothing
  NoSession    \* the session of an id that is not handed out yet

ASSUME RunsAssumption     == IsFiniteSet(Runs) /\ NoRun \notin Runs
ASSUME SessionsAssumption == NoSession \notin Sessions
ASSUME RecordsAssumption  == MaxRecords \in Nat \ {0} /\ HasTimeout \in BOOLEAN

VARIABLES
  byID,       \* Registry.byID: the status of each record, "absent" without one
  sess,       \* the session of each run
  bySession,  \* Registry.bySession
  finishedAt, \* Record.FinishedAt, read from a clock that never goes back
  clock,
  ctxDone,    \* the runs whose runCtx is done, until finish reads it
  exec,       \* where the goroutine of each run stands
  erred,      \* the runs whose runner returned an error, until finish reads it
  annotated,  \* the records with ChannelErr set
  call,       \* where the Start call of each run stands
  target,     \* the run each client's Cancel call is about, or NoRun
  cancel,     \* where that call stands
  undelivered \* history: the runs whose OnDone could not deliver the answer

registry == <<byID, sess, bySession, finishedAt, clock, annotated>>
callers  == <<call, target, cancel>>
vars     == <<registry, ctxDone, exec, erred, callers, undelivered>>

Terminal == {"succeeded", "failed", "cancelled"}

Active(r)   == exec[r] \in {"running", "returned"}
Finished(r) == exec[r] \in {"callback", "closing", "done"}
----------------------------------------------------------------------------
(* Parts of the operations; a "slip" is a faulty variant of the definition *)
(* after it, used by no behaviour of Spec.                                  *)

(* slip: no look at the session *)
FreeAlways(s) == TRUE

(* Start's conflict check. *)
Free(s) == bySession[s] = NoRun

(* slips: the newest records go; records go whatever their status *)
EvictsNewest(victims, recs, at) ==
  LET finished == {r \in Runs : recs[r] \in Terminal} IN
  /\ victims \subseteq finished
  /\ Cardinality(finished \ victims) =
       IF Cardinality(finished) > MaxRecords THEN MaxRecords ELSE Cardinality(finished)
  /\ \A v \in victims, k \in finished \ victims : at[v] >= at[k]

EvictsAny(victims, recs, at) ==
  LET known == {r \in Runs : recs[r] # "absent"} IN
  /\ victims \subseteq known
  /\ Cardinality(known \ victims) =
       IF Cardinality(known) > MaxRecords THEN MaxRecords ELSE Cardinality(known)

(* evictLocked: of the finished records the oldest beyond MaxRecords go;    *)
(* the sort is not stable, so among equal times any may go.                 *)
Evicts(victims, recs, at) ==
  LET finished == {r \in Runs : recs[r] \in Terminal} IN
  /\ victims \subseteq finished
  /\ Cardinality(finished \ victims) =
       IF Cardinality(finished) > MaxRecords THEN MaxRecords ELSE Cardinality(finished)
  /\ \A v \in victims, k \in finished \ victims : at[v] <= at[k]

----------------------------------------------------------------------------
Init ==
  /\ byID = [r \in Runs |-> "absent"]
  /\ sess = [r \in Runs |-> NoSession]
  /\ bySession = [s \in Sessions |-> NoRun]
  /\ finishedAt = [r \in Runs |-> 0]
  /\ clock = 0
  /\ ctxDone = {}
  /\ exec = [r \in Runs |-> "none"]
  /\ erred = {}
  /\ annotated = {}
  /\ call = [r \in Runs |-> "none"]
  /\ target = [c \in Clients |-> NoRun]
  /\ cancel = [c \in Clients |-> "idle"]
  /\ undelivered = {}

(* Start with wait (the caller blocks) or without (it has its reply). *)
Register(r, s, wait) ==
  /\ call[r] = "none"
  /\ Free(s)
  /\ byID' = [byID EXCEPT ![r] = "running"]
  /\ sess' = [sess EXCEPT ![r] = s]
  /\ bySession' = [bySession EXCEPT ![s] = r]
  /\ exec' = [exec EXCEPT ![r] = "running"]
  /\ call' = [call EXCEPT ![r] = IF wait THEN "waiting" ELSE "detached"]
  /\ UNCHANGED <<finishedAt, clock, annotated, ctxDone, erred, target, cancel,
                 undelivered>>

Conflict(r, s) ==
  /\ call[r] = "none"
  /\ ~Free(s)
  /\ call' = [call EXCEPT ![r] = "refused"]
  /\ UNCHANGED <<registry, ctxDone, exec, erred, target, cancel, undelivered>>

(* The parent context of a waiting Start ends, or the deadline passes.  A   *)
(* detached run keeps no tie to its request.                                *)
ContextEnds(r) ==
  /\ Active(r)
  /\ call[r] = "waiting" \/ HasTimeout
  /\ ctxDone' = ctxDone \cup {r}
  /\ UNCHANGED <<registry, exec, erred, callers, undelivered>>

(* fn returns; its error and its context need not agree. *)
RunnerReturns(r, err) ==
  /\ exec[r] = "running"
  /\ exec' = [exec EXCEPT ![r] = "returned"]
  /\ erred' = IF err THEN erred \cup {r} ELSE erred
  /\ UNCHANGED <<registry, ctxDone, callers, undelivered>>

(* slip: the runner's error decides before the context does *)
FinalStatusByError(r) ==
  IF r \in erred THEN "failed" ELSE IF r \in ctxDone THEN "cancelled" ELSE "succeeded"

(* finish: the context decides before the runner's error does. *)
FinalStatus(r) ==
  IF r \in ctxDone THEN "cancelled" ELSE IF r \in erred THEN "failed" ELSE "succeeded"

(* slip: the session stays with the run *)
ReleaseNever(r) == bySession

(* The session is given up, if it is still this run's. *)
Release(r) ==
  IF bySession[sess[r]] = r THEN [bySession EXCEPT ![sess[r]] = NoRun] ELSE bySession

(* finish, one critical section.  Its early return for an unknown id would  *)
(* leave the goroutine in "returned": RunningNeverEvicted says it is never  *)
(* taken.                                                                   *)
Finish(r) ==
  /\ exec[r] = "returned"
  /\ byID[r] # "absent"
  /\ clock' \in {clock, clock + 1}
  /\ finishedAt' = [finishedAt EXCEPT ![r] = clock']
  /\ LET recs == [byID EXCEPT ![r] = FinalStatus(r)] IN
       \E victims \in SUBSET Runs :
         /\ Evicts(victims, recs, finishedAt')
         /\ byID' = [x \in Runs |-> IF x \in victims THEN "absent" ELSE recs[x]]
         /\ annotated' = annotated \ victims
  /\ bySession' = Release(r)
  /\ exec' = [exec EXCEPT ![r] = "callback"]
  /\ ctxDone' = ctxDone \ {r}
  /\ erred' = erred \ {r}
  /\ UNCHANGED <<sess, callers, undelivered>>

(* OnDone, outside the lock; when it cannot deliver the answer it calls     *)
(* Annotate, which does nothing to a record that is gone.                   *)
OnDone(r, fails) ==
  /\ exec[r] = "callback"
  /\ exec' = [exec EXCEPT ![r] = "closing"]
  /\ annotated' = IF fails /\ byID[r] # "absent" THEN annotated \cup {r} ELSE annotated
  /\ undelivered' = IF fails THEN undelivered \cup {r} ELSE undelivered
  /\ UNCHANGED <<byID, sess, bySession, finishedAt, clock, ctxDone, erred, callers>>

(* The deferred close of the done channel. *)
CloseDone(r) ==
  /\ exec[r] = "closing"
  /\ exec' = [exec EXCEPT ![r] = "done"]
  /\ UNCHANGED <<registry, ctxDone, erred, callers, undelivered>>

(* slips: a waiting Start returns as soon as the record is terminal; only   *)
(* if its context has ended                                                 *)
DoneAtFinish(r)   == Finished(r)
DoneAndCtx(r)     == exec[r] = "done" /\ r \in ctxDone

(* What a waiting Start and Cancel wait for. *)
Done(r) == exec[r] = "done"

(* A waiting Start reads the record again; it may have been evicted, which  *)
(* is an error ("run: vanished").                                           *)
StartReturns(r) ==
  /\ call[r] = "waiting"
  /\ Done(r)
  /\ call' = [call EXCEPT ![r] = IF byID[r] = "absent" THEN "vanished" ELSE "answered"]
  /\ UNCHANGED <<registry, ctxDone, exec, erred, target, cancel, undelivered>>

(* Cancel: a snapshot under the lock, the cancel function after the unlock, *)
(* then done or two seconds.  A finished or unknown run is an error.        *)
CancelLooks(c, r) ==
  /\ cancel[c] = "idle"
  /\ byID[r] = "running"
  /\ target' = [target EXCEPT ![c] = r]
  /\ cancel' = [cancel EXCEPT ![c] = "found"]
  /\ UNCHANGED <<registry, ctxDone, exec, erred, call, undelivered>>

CancelFires(c) ==
  /\ cancel[c] = "found"
  /\ cancel' = [cancel EXCEPT ![c] = "waiting"]
  /\ ctxDone' = ctxDone \cup {r \in {target[c]} : Active(r)}
  /\ UNCHANGED <<registry, exec, erred, call, target, undelivered>>

(* Done, or two seconds have passed, whatever the runner does. *)
CancelReturns(c) ==
  /\ cancel[c] = "waiting"
  /\ target' = [target EXCEPT ![c] = NoRun]
  /\ cancel' = [cancel EXCEPT ![c] = "idle"]
  /\ UNCHANGED <<registry, ctxDone, exec, erred, call, undelivered>>

----------------------------------------------------------------------------
Goroutine(r) == Finish(r) \/ (\E fails \in BOOLEAN : OnDone(r, fails)) \/ CloseDone(r)

Next ==
  \/ \E r \in Runs, s \in Sessions :
       Conflict(r, s) \/ \E wait \in BOOLEAN : Register(r, s, wait)
  \/ \E r \in Runs :
       \/ ContextEnds(r)
       \/ \E err \in BOOLEAN : RunnerReturns(r, err)
       \/ Goroutine(r)
       \/ StartReturns(r)
  \/ \E c \in Clients :
       CancelFires(c) \/ CancelReturns(c) \/ \E r \in Runs : CancelLooks(c, r)

Spec == Init /\ [][Next]_vars

Mutex == INSTANCE SessionMutex
  WITH owner <- bySession, past <- {r \in Runs : Finished(r)}

----------------------------------------------------------------------------
TypeOK ==
  /\ byID \in [Runs -> {"absent", "running"} \cup Terminal]
  /\ sess \in [Runs -> Sessions \cup {NoSession}]
  /\ bySession \in [Sessions -> Runs \cup {NoRun}]
  /\ finishedAt \in [Runs -> Nat]
  /\ clock \in Nat
  /\ ctxDone \subseteq Runs
  /\ exec \in [Runs -> {"none", "running", "returned", "callback", "closing", "done"}]
  /\ erred \subseteq Runs
  /\ annotated \subseteq Runs
  /\ call \in [Runs -> {"none", "refused", "detached", "waiting", "answered", "vanished"}]
  /\ target \in [Clients -> Runs \cup {NoRun}]
  /\ cancel \in [Clients -> {"idle", "found", "waiting"}]
  /\ undelivered \subseteq Runs

(* Two runs of one session never execute at the same time: the session's    *)
(* history is read, extended and saved by one runner only.                  *)
SessionExclusive ==
  \A q, r \in Runs : Active(q) /\ Active(r) /\ sess[q] = sess[r] => q = r

(* InFlight counts the sessions that are taken; its comment promises the    *)
(* number of runs in StatusRunning, evictions and released sessions or not. *)
InFlightExact ==
  Cardinality({s \in Sessions : bySession[s] # NoRun})
    = Cardinality({r \in Runs : byID[r] = "running"})

(* The record of a run under way is never evicted, however small MaxRecords *)
(* is: finish finds it, and with it OnDone, the status and the session.     *)
RunningNeverEvicted == \A r \in Runs : Active(r) => byID[r] = "running"

(* Of the finished runs exactly the newest MaxRecords are remembered: none  *)
(* is dropped while there is room, or while an older one stays.             *)
EvictionKeepsNewest ==
  LET kept == {r \in Runs : byID[r] \in Terminal}
      gone == {r \in Runs : Finished(r) /\ byID[r] = "absent"} IN
  /\ Cardinality(kept) <= MaxRecords
  /\ gone # {} => Cardinality(kept) = MaxRecords
  /\ \A g \in gone, k \in kept : finishedAt[g] <= finishedAt[k]

(* A Start that waited answers with the outcome, and with the delivery      *)
(* error if there was one: it outwaits the runner even when its own context *)
(* ends first, and OnDone too, because done is closed after both.           *)
WaiterSeesOutcome ==
  [][\A r \in Runs : call[r] = "waiting" /\ call'[r] = "answered" =>
       /\ byID[r] \in Terminal
       /\ r \in annotated <=> r \in undelivered
       /\ exec[r] = "done"]_vars

(* While a client's Cancel has fired and waits, its run can only end as     *)
(* cancelled, whatever the runner makes of it.                              *)
CancelWins ==
  [][\A c \in Clients, r \in Runs :
       /\ cancel[c] = "waiting" /\ target[c] = r
       /\ byID[r] = "running" /\ byID'[r] \in Terminal
       => byID'[r] = "cancelled"]_vars

(* The registry implements the session mutex. *)
MutexSpec == Mutex!Spec

(* Once the runner has returned, the session is given up and a waiting      *)
(* caller gets its reply.                                                   *)
RunEnds ==
  \A r \in Runs : exec[r] = "returned" ~> /\ exec[r] = "done"
                                          /\ bySession[sess[r]] # r
                                          /\ call[r] # "waiting"
=============================================================================
