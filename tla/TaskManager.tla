----------------------------- MODULE TaskManager -----------------------------
(***************************************************************************)
(* The in-process job queue of package task: Submit, Cancel, Stop, the     *)
(* worker pool, and what a process that is started again finds in the      *)
(* store.                                                                  *)
(*                                                                         *)
(* An operation is split where the code gives up Manager.mu: Submit        *)
(* registers the task under the lock and offers it to the channel after    *)
(* the unlock; a worker receives an id, takes the lock to mark the task    *)
(* running, calls the runner without it, takes it again to settle the      *)
(* outcome and once more to forget the cancel function.  Goals, results,   *)
(* error texts and timestamps are left out; "absent" is a task that is not *)
(* in Manager.tasks.  Get, List and Wait only read status.                 *)
(***************************************************************************)
EXTENDS Naturals, Sequences, FiniteSets, Functions

CONSTANTS
  Tasks,        \* the ids newID may hand out, one for each call of Submit
  Workers,      \* the goroutines of the pool (Options.Workers)
  QueueSize,    \* capacity of Manager.queue (Options.QueueSize)
  MaxRestarts,  \* bound of the model: how often the process is started again
  StoreMayFail, \* may Store.Put fail?  Its error is ignored
  ListMayFail,  \* may Store.List fail?  Its error is ignored
  NoTask        \* the job of a worker that has none

ASSUME TasksAssumption   == IsFiniteSet(Tasks) /\ NoTask \notin Tasks
ASSUME WorkersAssumption == Workers # {}
ASSUME SizesAssumption   == QueueSize \in Nat \ {0} /\ MaxRestarts \in Nat
ASSUME StoreAssumption   == StoreMayFail \in BOOLEAN /\ ListMayFail \in BOOLEAN

VARIABLES
  status,    \* Manager.tasks: the status of each record
  queue,     \* Manager.queue, the buffered channel
  cancels,   \* the domain of Manager.cancels
  ctxDone,   \* the tasks whose own context was cancelled
  root,      \* rootCtx and Stop: "up", "cancelled" or "drained"
  disk,      \* the status each task has in the store's document
  place,     \* its position in that document, 0 when it is not in it
  pc,        \* where each worker stands
  job,       \* the task it works on
  failed,    \* did its runner return an error?
  submit,    \* where the Submit call of each task stands, and what it returned
  restarts,  \* how often the process was started again
  starts,    \* history: how often the runner was started for a task
  told,      \* history: the tasks for which Cancel answered "cancelled"
  asked      \* history: the running tasks Cancel accepted in this process

manager == <<status, queue, cancels, ctxDone, root>>
store   == <<disk, place>>
worker  == <<pc, job, failed>>
history == <<starts, told, asked>>
vars    == <<manager, store, worker, submit, restarts, history>>

Terminal   == {"succeeded", "failed", "cancelled"}
Status     == {"absent", "queued", "running"} \cup Terminal
WorkerStep == {"idle", "received", "running", "returned", "settled", "exited"}
SubmitStep == {"none", "registered", "failing", "accepted", "rejected", "lost"}

CtxErr(t) == root # "up" \/ t \in ctxDone

(***************************************************************************)
(* Parts of the operations below.  Operators named in a comment "slip" are *)
(* faulty variants: no behaviour of Spec uses them; putting one in the     *)
(* place of the definition after it shows that a property notices.         *)
(***************************************************************************)

(* Store.Put replaces the task's record in the document or appends it. *)
Write(t, st) ==
  /\ disk' = [disk EXCEPT ![t] = st]
  /\ place' = [place EXCEPT ![t] =
       IF @ = 0 THEN Cardinality({u \in Tasks : place[u] # 0}) + 1 ELSE @]

(* slips: a change of status that is not persisted *)
PersistNotRunning(t, st) == IF st = "running" THEN UNCHANGED store ELSE Write(t, st)
PersistNotCancelled(t, st) == IF st = "cancelled" THEN UNCHANGED store ELSE Write(t, st)

(* persist ignores the error of a Put that fails and changes nothing. *)
Persist(t, st) == Write(t, st) \/ (StoreMayFail /\ UNCHANGED store)

SetStatus(t, st) == status' = [status EXCEPT ![t] = st] /\ Persist(t, st)

(* slip: a full channel drops its oldest id *)
EnqueueDropOldest(t) ==
  queue' = Append(IF Len(queue) < QueueSize THEN queue ELSE Tail(queue), t)

(* The send of Submit's select. *)
Enqueue(t) == Len(queue) < QueueSize /\ queue' = Append(queue, t)

(* slips: a worker leaves when idle; it waits for a close nobody does *)
MayExitIdle  == TRUE
MayExitClose == FALSE

(* When workerLoop may return. *)
MayExit == root # "up"

(* slip: the cancel function is not registered *)
RegisterNothing(t) == UNCHANGED cancels

(* runOne registers the cancel function of the task's context. *)
Register(t) == cancels' = cancels \cup {t}

(* slip: the outcome does not look at the task's context *)
OutcomeWithoutCtx(t, err) == IF err THEN "failed" ELSE "succeeded"

(* What the second critical section of runOne makes of the runner's return. *)
Outcome(t, err) ==
  IF status[t] = "cancelled" \/ (err /\ CtxErr(t)) THEN "cancelled"
  ELSE IF err THEN "failed" ELSE "succeeded"

(* slip: a failed task is queued again *)
RestoredRetry(t) == IF disk[t] \in {"running", "failed"} THEN "queued" ELSE disk[t]

(* The status restoreLocked gives the record it reads. *)
Restored(t) == IF disk[t] = "running" THEN "failed" ELSE disk[t]

----------------------------------------------------------------------------
Init ==
  /\ status = [t \in Tasks |-> "absent"]
  /\ queue = <<>>
  /\ cancels = {}
  /\ ctxDone = {}
  /\ root = "up"
  /\ disk = [t \in Tasks |-> "absent"]
  /\ place = [t \in Tasks |-> 0]
  /\ pc = [w \in Workers |-> "idle"]
  /\ job = [w \in Workers |-> NoTask]
  /\ failed = [w \in Workers |-> FALSE]
  /\ submit = [t \in Tasks |-> "none"]
  /\ restarts = 0
  /\ starts = [t \in Tasks |-> 0]
  /\ told = {}
  /\ asked = {}

----------------------------------------------------------------------------
(* Submit.  An empty goal is refused before anything changes. *)

SubmitRegister(t) ==
  /\ submit[t] = "none"
  /\ submit' = [submit EXCEPT ![t] = "registered"]
  /\ SetStatus(t, "queued")
  /\ UNCHANGED <<queue, cancels, ctxDone, root, worker, restarts, history>>

(* The select after the unlock: of the send and rootCtx.Done, any that is  *)
(* ready is taken, the default only when neither is.                       *)
SubmitSend(t) ==
  /\ submit[t] = "registered"
  /\ Enqueue(t)
  /\ submit' = [submit EXCEPT ![t] = "accepted"]
  /\ UNCHANGED <<status, cancels, ctxDone, root, store, worker, restarts, history>>

SubmitRefuse(t) ==
  /\ submit[t] = "registered"
  /\ root # "up" \/ Len(queue) = QueueSize
  /\ submit' = [submit EXCEPT ![t] = "failing"]
  /\ UNCHANGED <<manager, store, worker, restarts, history>>

(* setTerminal: it overwrites whatever status the record has by now. *)
SubmitFail(t) ==
  /\ submit[t] = "failing"
  /\ submit' = [submit EXCEPT ![t] = "rejected"]
  /\ SetStatus(t, "failed")
  /\ UNCHANGED <<queue, cancels, ctxDone, root, worker, restarts, history>>

----------------------------------------------------------------------------
(* Cancel, one critical section.  On a finished or unknown task it is an   *)
(* error and changes nothing.                                              *)

CancelQueued(t) ==
  /\ status[t] = "queued"
  /\ SetStatus(t, "cancelled")
  /\ told' = told \cup {t}
  /\ UNCHANGED <<queue, cancels, ctxDone, root, worker, submit, restarts, starts, asked>>

CancelRunning(t) ==
  /\ status[t] = "running"
  /\ ctxDone' = IF t \in cancels THEN ctxDone \cup {t} ELSE ctxDone
  /\ asked' = asked \cup {t}
  /\ UNCHANGED <<status, queue, cancels, root, store, worker, submit, restarts, starts, told>>

(* Stop: rootCancel, then under the lock every registered cancel function. *)
(* The first half alone is what a cancelled parent context does.           *)
StopCancel ==
  /\ root = "up"
  /\ root' = "cancelled"
  /\ UNCHANGED <<status, queue, cancels, ctxDone, store, worker, submit, restarts, history>>

StopDrain ==
  /\ root = "cancelled"
  /\ root' = "drained"
  /\ ctxDone' = ctxDone \cup cancels
  /\ cancels' = {}
  /\ UNCHANGED <<status, queue, store, worker, submit, restarts, history>>

----------------------------------------------------------------------------
(* workerLoop and runOne.  With rootCtx done and an id in the channel the  *)
(* select of workerLoop may take either.                                   *)

Receive(w) ==
  /\ pc[w] = "idle"
  /\ queue # <<>>
  /\ queue' = Tail(queue)
  /\ pc' = [pc EXCEPT ![w] = "received"]
  /\ job' = [job EXCEPT ![w] = Head(queue)]
  /\ UNCHANGED <<status, cancels, ctxDone, root, store, failed, submit, restarts, history>>

Exit(w) ==
  /\ pc[w] = "idle"
  /\ MayExit
  /\ pc' = [pc EXCEPT ![w] = "exited"]
  /\ UNCHANGED <<manager, store, job, failed, submit, restarts, history>>

Begin(w) ==
  LET t == job[w] IN
  /\ pc[w] = "received"
  /\ status[t] = "queued"
  /\ SetStatus(t, "running")
  /\ Register(t)
  /\ ctxDone' = ctxDone \ {t}
  /\ starts' = [starts EXCEPT ![t] = @ + 1]
  /\ pc' = [pc EXCEPT ![w] = "running"]
  /\ UNCHANGED <<queue, root, job, failed, submit, restarts, told, asked>>

Skip(w) ==
  /\ pc[w] = "received"
  /\ status[job[w]] # "queued"
  /\ pc' = [pc EXCEPT ![w] = "idle"]
  /\ job' = [job EXCEPT ![w] = NoTask]
  /\ UNCHANGED <<manager, store, failed, submit, restarts, history>>

(* The runner returns, with or without an error, whatever its context says. *)
RunnerReturns(w) ==
  /\ pc[w] = "running"
  /\ pc' = [pc EXCEPT ![w] = "returned"]
  /\ \E err \in BOOLEAN : failed' = [failed EXCEPT ![w] = err]
  /\ UNCHANGED <<manager, store, job, submit, restarts, history>>

Settle(w) ==
  /\ pc[w] = "returned"
  /\ SetStatus(job[w], Outcome(job[w], failed[w]))
  /\ pc' = [pc EXCEPT ![w] = "settled"]
  /\ UNCHANGED <<queue, cancels, ctxDone, root, job, failed, submit, restarts, history>>

(* The deferred cancel and delete, in a critical section of their own. *)
Forget(w) ==
  /\ pc[w] = "settled"
  /\ cancels' = cancels \ {job[w]}
  /\ ctxDone' = ctxDone \cup {job[w]}
  /\ pc' = [pc EXCEPT ![w] = "idle"]
  /\ job' = [job EXCEPT ![w] = NoTask]
  /\ failed' = [failed EXCEPT ![w] = FALSE]
  /\ UNCHANGED <<status, queue, root, store, submit, restarts, history>>

----------------------------------------------------------------------------
(* The process ends, at any point, and NewManager reads the store again.   *)

Backlog == {t \in Tasks : disk[t] = "queued"}
Interrupted == {t \in Tasks : disk[t] = "running"}

(* restoreLocked offers the queued tasks in document order and drops the   *)
(* offers that find the channel full.                                      *)
IsRestored(q) ==
  /\ \A i, j \in DOMAIN q : i < j => place[q[i]] < place[q[j]]
  /\ \A t \in Backlog \ Range(q) : \A i \in DOMAIN q : place[q[i]] < place[t]
  /\ Len(q) < QueueSize => Range(q) = Backlog

Restore ==
  /\ status' = [t \in Tasks |-> Restored(t)]
  /\ \E n \in 0..QueueSize : \E q \in [1..n -> Backlog] : IsRestored(q) /\ queue' = q
  /\ \E saved \in (IF StoreMayFail THEN SUBSET Interrupted ELSE {Interrupted}) :
       disk' = [t \in Tasks |-> IF t \in saved THEN "failed" ELSE disk[t]]

(* The document cannot be read: the manager starts empty. *)
RestoreNothing ==
  /\ ListMayFail
  /\ status' = [t \in Tasks |-> "absent"]
  /\ queue' = <<>>
  /\ disk' = disk

Restart ==
  /\ restarts < MaxRestarts
  /\ restarts' = restarts + 1
  /\ Restore \/ RestoreNothing
  /\ cancels' = {}
  /\ ctxDone' = {}
  /\ root' = "up"
  /\ pc' = [w \in Workers |-> "idle"]
  /\ job' = [w \in Workers |-> NoTask]
  /\ failed' = [w \in Workers |-> FALSE]
  /\ submit' = [t \in Tasks |->
       IF submit[t] \in {"registered", "failing"} THEN "lost" ELSE submit[t]]
  /\ asked' = {}
  /\ UNCHANGED <<place, starts, told>>

----------------------------------------------------------------------------
SubmitNext(t) == SubmitSend(t) \/ SubmitRefuse(t) \/ SubmitFail(t)

WorkerNext(w) ==
  \/ Receive(w) \/ Exit(w) \/ Begin(w) \/ Skip(w)
  \/ RunnerReturns(w) \/ Settle(w) \/ Forget(w)

Next ==
  \/ \E t \in Tasks : SubmitRegister(t) \/ SubmitNext(t) \/ CancelQueued(t) \/ CancelRunning(t)
  \/ \E w \in Workers : WorkerNext(w)
  \/ StopCancel
  \/ StopDrain
  \/ Restart

Spec == Init /\ [][Next]_vars

(* Every goroutine that can step does so: a Submit call that has started,  *)
(* each worker, and a Stop under way.  Assumed of a runner: it returns.    *)
(* Agent.Run has a turn limit, its chats end by a timeout and the approver *)
(* of a worker answers at once; its tools must heed the timeout that ends  *)
(* their context, for a worker has no other way out of one that does not.  *)
(* Nobody has to submit, cancel, stop or restart.                          *)
Fairness ==
  /\ \A t \in Tasks : WF_vars(SubmitNext(t))
  /\ \A w \in Workers : WF_vars(WorkerNext(w))
  /\ WF_vars(StopDrain)

FairSpec == Spec /\ Fairness

----------------------------------------------------------------------------
(* Types of the variables; the channel never holds more than its capacity. *)
TypeOK ==
  /\ status \in [Tasks -> Status]
  /\ queue \in Seq(Tasks) /\ Len(queue) <= QueueSize
  /\ cancels \subseteq Tasks
  /\ ctxDone \subseteq Tasks
  /\ root \in {"up", "cancelled", "drained"}
  /\ disk \in [Tasks -> Status]
  /\ place \in [Tasks -> Nat]
  /\ pc \in [Workers -> WorkerStep]
  /\ job \in [Workers -> Tasks \cup {NoTask}]
  /\ failed \in [Workers -> BOOLEAN]
  /\ submit \in [Tasks -> SubmitStep]
  /\ restarts \in Nat
  /\ starts \in [Tasks -> Nat]
  /\ told \subseteq Tasks
  /\ asked \subseteq Tasks

Executes(w, t) == job[w] = t /\ pc[w] \in {"running", "returned"}

(* With a store that keeps what it is given, a goal is handed to the runner *)
(* at most once, however often the process crashes and restarts: the agent  *)
(* and its tools must not act twice on one Submit.                          *)
ExecuteAtMostOnce == ~StoreMayFail => \A t \in Tasks : starts[t] <= 1

(* A task whose Cancel was answered with "cancelled" never reaches the      *)
(* runner, neither from its place in the channel nor after a restart.       *)
ToldNeverRuns == ~StoreMayFail => \A t \in told : starts[t] = 0

(* A task whose Submit returned an error (queue full, manager stopped)      *)
(* never runs, although it was stored as queued before the offer failed.    *)
RejectedNeverRuns ==
  ~StoreMayFail => \A t \in Tasks : submit[t] = "rejected" => starts[t] = 0

(* A running task is executed by exactly one worker, and a Cancel that      *)
(* finds it running reaches its context: the cancel function is registered, *)
(* or the context is done already.                                          *)
RunningIsCancellable ==
  \A t \in Tasks : status[t] = "running" =>
    /\ \E w \in Workers : Executes(w, t)
    /\ \A v, w \in Workers : Executes(v, t) /\ Executes(w, t) => v = w
    /\ t \in cancels \/ CtxErr(t)

(* A task that Cancel accepted while it ran does not end as failed: an      *)
(* error of its runner is attributed to the cancellation.                   *)
AskedNeverFails == \A t \in asked : status[t] # "failed"

(* In the process that accepted it, a queued task is in the channel or in   *)
(* the hands of a worker: no schedule of submits, cancels and workers loses *)
(* an id.                                                                   *)
AcceptedNotLost ==
  restarts = 0 => \A t \in Tasks : submit[t] = "accepted" /\ status[t] = "queued" =>
    \/ t \in Range(queue)
    \/ \E w \in Workers : pc[w] = "received" /\ job[w] = t

(* A finished task keeps its status, across restarts too, unless the new    *)
(* process could read nothing.  The other exception is in the code: the     *)
(* setTerminal of a Submit that is being refused overwrites a cancellation  *)
(* that came between its unlock and the refusal.                            *)
FinalStatus ==
  [][~StoreMayFail => \A t \in Tasks :
       status[t] \in Terminal /\ status'[t] \notin {status[t], "absent"} =>
         status[t] = "cancelled" /\ submit[t] = "failing" /\ status'[t] = "failed"]_vars

(* A comment in Cancel says of a running task: "status becomes cancelled in *)
(* worker when ctx ends".  A runner that returns no error makes it succeed. *)
AskedIsCancelled == \A t \in asked : status[t] \in {"running", "cancelled"}

(* An accepted task finishes, unless the manager is stopped, if runners     *)
(* return.                                                                  *)
AcceptedFinishes ==
  \A t \in Tasks : submit[t] = "accepted" ~> status[t] \in Terminal \/ root # "up"

(* Stop returns, if runners do: once the root context is cancelled every    *)
(* worker exits, wherever it stands.                                        *)
StopReturns == root = "cancelled" ~> \A w \in Workers : pc[w] = "exited"
=============================================================================
