-------------------------- MODULE TaskManagerProofs --------------------------
(***************************************************************************)
(* Proofs about TaskManager, for any number of tasks, workers and          *)
(* restarts and any channel capacity, with a store that keeps what it is   *)
(* given and with one that may lose it.                                    *)
(*                                                                         *)
(* None of the safety properties is inductive.  Behind all of them is that *)
(* an id is in one place only: with its Submit call, once in the channel,  *)
(* or with one worker; and that the status a worker or a restart finds     *)
(* tells whether the runner has already been started.                      *)
(***************************************************************************)
EXTENDS TaskManager, FiniteSetTheorems, SequenceTheorems, TLAPS

Holding   == {"received", "running", "returned", "settled"}
NotQueued == {"none", "registered", "failing"}

(* A worker that holds a task holds it alone, was given it by the channel,  *)
(* and while its runner is under way a Cancel or a Stop can reach it.       *)
WorkerInv ==
  /\ \A w \in Workers :
       /\ job[w] # NoTask <=> pc[w] \in Holding
       /\ pc[w] \in Holding => submit[job[w]] \notin NotQueued
       /\ pc[w] \in {"running", "returned"} =>
            status[job[w]] = "running" /\ (job[w] \in cancels \/ CtxErr(job[w]))
  /\ \A v, w \in Workers : job[v] = job[w] /\ job[v] # NoTask => v = w

(* The channel holds an id once, and no id that a Submit or a worker has.   *)
QueueInv ==
  /\ \A i, j \in DOMAIN queue : queue[i] = queue[j] => i = j
  /\ \A i \in DOMAIN queue :
       submit[queue[i]] \notin NotQueued /\ \A w \in Workers : queue[i] # job[w]

(* What the status says of a task nobody has begun, or that somebody has.   *)
StatusInv ==
  \A t \in Tasks :
    /\ status[t] = "running" => \E w \in Workers : Executes(w, t)
    /\ submit[t] = "none" => status[t] = "absent" /\ disk[t] = "absent"
    /\ submit[t] \in NotQueued => starts[t] = 0 /\ t \notin asked
    /\ submit[t] \in {"registered", "failing"} => status[t] \in {"queued", "cancelled"}

(* The context of a running task that Cancel accepted is done.              *)
AskedInv ==
  \A t \in asked : status[t] \in {"running", "succeeded", "cancelled"}
                   /\ (status[t] = "running" => CtxErr(t))

(* With a store that keeps what it is given, the document has the status of *)
(* every task the process knows, and a task that it has as queued, or that  *)
(* was told off, was never started.                                         *)
Durable ==
  \A t \in Tasks :
    /\ status[t] \in {"absent", disk[t]}
    /\ starts[t] <= 1
    /\ starts[t] > 0 => disk[t] \in {"running"} \cup Terminal
    /\ t \in told \/ submit[t] = "rejected" =>
         starts[t] = 0 /\ disk[t] \in Terminal

DurableInv == ~ StoreMayFail => Durable

IInv == /\ TypeOK /\ WorkerInv /\ QueueInv /\ StatusInv /\ AskedInv /\ DurableInv
        /\ AcceptedNotLost

----------------------------------------------------------------------------
(* The parts the actions are built from. *)

(* Both statuses runOne and restoreLocked compute have the right type. *)
LEMMA OutcomeType == \A t \in Tasks, err \in BOOLEAN : Outcome(t, err) \in Terminal
BY DEF Outcome, Terminal

LEMMA RestoredType ==
  ASSUME TypeOK, NEW t \in Tasks
  PROVE  Restored(t) \in Status \ {"running"}
BY DEF Restored, TypeOK, Status, Terminal

(* A change of status reaches the store, or is lost if the store may fail;  *)
(* either way the types stay.                                               *)
LEMMA SetStatusProperties ==
  ASSUME TypeOK, NEW t \in Tasks, NEW st \in Status, SetStatus(t, st)
  PROVE  /\ status' = [status EXCEPT ![t] = st] /\ status' \in [Tasks -> Status]
         /\ disk' \in [Tasks -> Status] /\ place' \in [Tasks -> Nat]
         /\ disk' = [disk EXCEPT ![t] = st] \/ (StoreMayFail /\ disk' = disk)
<1>1. Cardinality({u \in Tasks : place[u] # 0}) + 1 \in Nat
  BY TasksAssumption, FS_Subset, FS_CardinalityType
<1>2. status' = [status EXCEPT ![t] = st] /\ Persist(t, st)
  BY DEF SetStatus
<1>3. Write(t, st) \/ (StoreMayFail /\ UNCHANGED <<disk, place>>)
  BY <1>2 DEF Persist, store
<1>4. CASE Write(t, st)
  BY <1>1, <1>2, <1>4 DEF Write, TypeOK
<1>5. CASE StoreMayFail /\ UNCHANGED <<disk, place>>
  BY <1>2, <1>5 DEF TypeOK
<1> QED
  BY <1>3, <1>4, <1>5

(* Sending puts the id last and keeps the capacity. *)
LEMMA EnqueueProperties ==
  ASSUME TypeOK, NEW t \in Tasks, Enqueue(t)
  PROVE  /\ queue' \in Seq(Tasks) /\ Len(queue') <= QueueSize
         /\ DOMAIN queue' = DOMAIN queue \cup {Len(queue) + 1}
         /\ \A i \in DOMAIN queue : queue'[i] = queue[i]
         /\ queue'[Len(queue) + 1] = t
BY SizesAssumption DEF Enqueue, TypeOK

(* Receiving takes the first id and shifts the others. *)
LEMMA ReceiveProperties ==
  ASSUME TypeOK, queue # <<>>
  PROVE  /\ Tail(queue) \in Seq(Tasks) /\ Len(Tail(queue)) <= QueueSize
         /\ Head(queue) = queue[1] /\ Head(queue) \in Tasks /\ 1 \in DOMAIN queue
         /\ \A i \in DOMAIN Tail(queue) :
              i \in Nat \ {0} /\ i + 1 \in DOMAIN queue /\ Tail(queue)[i] = queue[i + 1]
<1>1. queue \in Seq(Tasks) /\ Len(queue) \in Nat /\ Len(queue) <= QueueSize
  BY DEF TypeOK
<1>2. /\ Head(queue) \in Tasks /\ Tail(queue) \in Seq(Tasks)
      /\ Len(Tail(queue)) = Len(queue) - 1
      /\ \A i \in 1 .. Len(Tail(queue)) : Tail(queue)[i] = queue[i + 1]
  BY <1>1, HeadTailProperties
<1>3. DOMAIN queue = 1 .. Len(queue) /\ DOMAIN Tail(queue) = 1 .. Len(Tail(queue))
  BY <1>1, <1>2
<1>4. Len(queue) # 0
  BY <1>1, EmptySeq
<1>5. Head(queue) = queue[1]
  BY <1>1
<1> QED
  BY <1>1, <1>2, <1>3, <1>4, <1>5, SizesAssumption

(* So every id but the first is still there.                                *)
LEMMA ReceiveShifts ==
  ASSUME TypeOK, queue # <<>>
  PROVE  \A i \in DOMAIN queue :
           i = 1 \/ (i - 1 \in DOMAIN Tail(queue) /\ Tail(queue)[i - 1] = queue[i])
<1>1. queue \in Seq(Tasks) /\ Len(queue) \in Nat /\ DOMAIN queue = 1 .. Len(queue)
  BY DEF TypeOK
<1>2. /\ DOMAIN Tail(queue) = 1 .. Len(queue) - 1
      /\ \A i \in 1 .. Len(queue) - 1 : Tail(queue)[i] = queue[i + 1]
  BY <1>1, HeadTailProperties
<1> QED
  BY <1>1, <1>2

----------------------------------------------------------------------------
(* Every variable keeps its type.  That a worker which forgets its task has *)
(* one needs WorkerInv.                                                     *)
LEMMA TypeStep == TypeOK /\ WorkerInv /\ [Next]_vars => TypeOK'
<1> SUFFICES ASSUME TypeOK, WorkerInv, [Next]_vars PROVE TypeOK'
  OBVIOUS
<1> USE DEF TypeOK, WorkerStep, SubmitStep
<1>1. ASSUME NEW t \in Tasks, SubmitRegister(t) \/ SubmitFail(t) \/ CancelQueued(t)
      PROVE  TypeOK'
  <2>1. PICK st \in Status : SetStatus(t, st)
    BY <1>1 DEF SubmitRegister, SubmitFail, CancelQueued, Status, Terminal
  <2> QED
    BY <1>1, <2>1, SetStatusProperties
    DEF SubmitRegister, SubmitFail, CancelQueued, worker, history
<1>2. ASSUME NEW t \in Tasks, SubmitSend(t)
      PROVE  TypeOK'
  BY <1>2, EnqueueProperties DEF SubmitSend, store, worker, history
<1>3. ASSUME NEW t \in Tasks, SubmitRefuse(t)
      PROVE  TypeOK'
  BY <1>3 DEF SubmitRefuse, manager, store, worker, history
<1>4. ASSUME NEW t \in Tasks, CancelRunning(t)
      PROVE  TypeOK'
  BY <1>4 DEF CancelRunning, store, worker
<1>5. CASE StopCancel
  BY <1>5 DEF StopCancel, store, worker, history
<1>6. CASE StopDrain
  BY <1>6 DEF StopDrain, store, worker, history
<1>7. ASSUME NEW w \in Workers, Receive(w)
      PROVE  TypeOK'
  BY <1>7, ReceiveProperties DEF Receive, store, history
<1>8. ASSUME NEW w \in Workers, Exit(w) \/ Skip(w)
      PROVE  TypeOK'
  BY <1>8 DEF Exit, Skip, manager, store, history
<1>9. ASSUME NEW w \in Workers, Begin(w)
      PROVE  TypeOK'
  <2>1. job[w] \in Tasks
    BY <1>9 DEF Begin, WorkerInv, Holding
  <2>2. SetStatus(job[w], "running") /\ "running" \in Status
    BY <1>9 DEF Begin, Status
  <2> QED
    BY <1>9, <2>1, <2>2, SetStatusProperties DEF Begin, Register
<1>10. ASSUME NEW w \in Workers, RunnerReturns(w)
       PROVE  TypeOK'
  BY <1>10 DEF RunnerReturns, manager, store, history
<1>11. ASSUME NEW w \in Workers, Settle(w)
       PROVE  TypeOK'
  <2>1. job[w] \in Tasks
    BY <1>11 DEF Settle, WorkerInv, Holding
  <2>2. Outcome(job[w], failed[w]) \in Status
    BY <2>1, OutcomeType DEF Status
  <2> QED
    BY <1>11, <2>1, <2>2, SetStatusProperties DEF Settle, history
<1>12. ASSUME NEW w \in Workers, Forget(w)
       PROVE  TypeOK'
  <2>1. job[w] \in Tasks
    BY <1>12 DEF Forget, WorkerInv, Holding
  <2> QED
    BY <1>12, <2>1 DEF Forget, store, history
<1>13. CASE Restart
  <2>1. status' \in [Tasks -> Status] /\ disk' \in [Tasks -> Status]
    BY <1>13, RestoredType DEF Restart, Restore, RestoreNothing, Status, Terminal
  <2>2. queue' \in Seq(Tasks) /\ Len(queue') <= QueueSize
    <3>1. CASE Restore
      BY <3>1, SizesAssumption DEF Restore, Backlog
    <3>2. CASE RestoreNothing
      BY <3>2, SizesAssumption DEF RestoreNothing
    <3> QED
      BY <1>13, <3>1, <3>2 DEF Restart
  <2>3. /\ pc' \in [Workers -> WorkerStep] /\ job' \in [Workers -> Tasks \cup {NoTask}]
        /\ failed' \in [Workers -> BOOLEAN]
    BY <1>13 DEF Restart
  <2>4. submit' \in [Tasks -> SubmitStep]
    BY <1>13 DEF Restart
  <2>5. /\ cancels' = {} /\ ctxDone' = {} /\ root' = "up" /\ asked' = {}
        /\ restarts' \in Nat /\ UNCHANGED <<place, starts, told>>
    BY <1>13 DEF Restart
  <2> QED
    BY <2>1, <2>2, <2>3, <2>4, <2>5
<1>14. CASE UNCHANGED vars
  BY <1>14 DEF vars, manager, store, worker, history
<1> QED
  BY <1>1, <1>2, <1>3, <1>4, <1>5, <1>6, <1>7, <1>8, <1>9, <1>10, <1>11, <1>12, <1>13,
     <1>14 DEF Next, SubmitNext, WorkerNext

(* A task is with one worker, given by the channel, and cancellable while   *)
(* its runner is under way.                                                 *)
LEMMA WorkerStays == IInv /\ [Next]_vars => WorkerInv'
<1> SUFFICES ASSUME IInv, [Next]_vars PROVE WorkerInv'
  OBVIOUS
<1> USE TasksAssumption DEF IInv, TypeOK, WorkerInv, Holding, NotQueued
<1>1. ASSUME NEW t \in Tasks, SubmitRegister(t) \/ SubmitFail(t) \/ CancelQueued(t)
      PROVE  WorkerInv'
  <2>1. \A w \in Workers : pc[w] \in {"running", "returned"} => job[w] # t
    BY <1>1 DEF SubmitRegister, SubmitFail, CancelQueued
  <2>2. PICK st : status' = [status EXCEPT ![t] = st]
    BY <1>1 DEF SubmitRegister, SubmitFail, CancelQueued, SetStatus
  <2> QED
    BY <1>1, <2>1, <2>2 DEF SubmitRegister, SubmitFail, CancelQueued, worker, history, CtxErr
<1>2. ASSUME NEW t \in Tasks, SubmitSend(t) \/ SubmitRefuse(t) \/ CancelRunning(t)
      PROVE  WorkerInv'
  BY <1>2 DEF SubmitSend, SubmitRefuse, CancelRunning, manager, store, worker, history, CtxErr
<1>3. CASE StopCancel
  BY <1>3 DEF StopCancel, store, worker, history, CtxErr
<1>4. CASE StopDrain
  BY <1>4 DEF StopDrain, store, worker, history, CtxErr
<1>5. ASSUME NEW w \in Workers, Receive(w)
      PROVE  WorkerInv'
  <2>1. job' = [job EXCEPT ![w] = queue[1]] /\ 1 \in DOMAIN queue /\ queue[1] \in Tasks
    BY <1>5, ReceiveProperties DEF Receive
  <2>2. submit[queue[1]] \notin NotQueued /\ \A v \in Workers : job[v] # queue[1]
    BY <2>1 DEF QueueInv
  <2> QED
    BY <1>5, <2>1, <2>2 DEF Receive, store, history, CtxErr
<1>6. ASSUME NEW w \in Workers, Exit(w) \/ Skip(w)
      PROVE  WorkerInv'
  <2>1. CASE Exit(w)
    BY <2>1 DEF Exit, manager, store, history, CtxErr
  <2>2. CASE Skip(w)
    BY <2>2 DEF Skip, manager, store, history, CtxErr
  <2> QED
    BY <1>6, <2>1, <2>2
<1>7. ASSUME NEW w \in Workers, Begin(w)
      PROVE  WorkerInv'
  BY <1>7 DEF Begin, SetStatus, Register, CtxErr
<1>8. ASSUME NEW w \in Workers, RunnerReturns(w)
      PROVE  WorkerInv'
  BY <1>8 DEF RunnerReturns, manager, store, history, CtxErr
<1>9. ASSUME NEW w \in Workers, Settle(w)
      PROVE  WorkerInv'
  BY <1>9 DEF Settle, SetStatus, history, CtxErr
<1>10. ASSUME NEW w \in Workers, Forget(w)
       PROVE  WorkerInv'
  BY <1>10 DEF Forget, store, history, CtxErr
<1>11. CASE Restart
  BY <1>11 DEF Restart
<1>12. CASE UNCHANGED vars
  BY <1>12 DEF vars, manager, store, worker, history, CtxErr
<1> QED
  BY <1>1, <1>2, <1>3, <1>4, <1>5, <1>6, <1>7, <1>8, <1>9, <1>10, <1>11, <1>12
  DEF Next, SubmitNext, WorkerNext

(* The channel holds an id once, and after a restart too: restoreLocked     *)
(* offers each record of the document at most once.                         *)
LEMMA QueueStays == IInv /\ [Next]_vars => QueueInv'
<1> SUFFICES ASSUME IInv, [Next]_vars PROVE QueueInv'
  OBVIOUS
<1> USE DEF IInv, TypeOK, QueueInv, NotQueued
<1>1. ASSUME NEW t \in Tasks,
             \/ SubmitRegister(t) \/ SubmitRefuse(t) \/ SubmitFail(t)
             \/ CancelQueued(t) \/ CancelRunning(t)
      PROVE  QueueInv'
  <2>1. /\ queue' = queue /\ job' = job
        /\ \A u \in Tasks : submit'[u] = submit[u] \/ submit[u] \in NotQueued
    BY <1>1
    DEF SubmitRegister, SubmitRefuse, SubmitFail, CancelQueued, CancelRunning, manager, worker
  <2>2. \A i \in DOMAIN queue : queue[i] \in Tasks /\ submit'[queue[i]] \notin NotQueued
    BY <2>1
  <2> QED
    BY <2>1, <2>2
<1>2. ASSUME NEW t \in Tasks, SubmitSend(t)
      PROVE  QueueInv'
  <2>1. submit[t] = "registered" /\ submit' = [submit EXCEPT ![t] = "accepted"]
        /\ job' = job
    BY <1>2 DEF SubmitSend, worker
  <2>2. \A w \in Workers : job[w] # t
    BY <2>1, TasksAssumption DEF WorkerInv
  <2>3. \A i \in DOMAIN queue : queue[i] # t
    BY <2>1
  <2>4. /\ DOMAIN queue' = DOMAIN queue \cup {Len(queue) + 1}
        /\ \A i \in DOMAIN queue : queue'[i] = queue[i]
        /\ queue'[Len(queue) + 1] = t
    BY <1>2, EnqueueProperties DEF SubmitSend
  <2> QED
    BY <2>1, <2>2, <2>3, <2>4
<1>3. CASE StopCancel \/ StopDrain
  BY <1>3 DEF StopCancel, StopDrain, worker
<1>4. ASSUME NEW w \in Workers, Receive(w)
      PROVE  QueueInv'
  <2>1. /\ queue' = Tail(queue) /\ submit' = submit
        /\ job' = [job EXCEPT ![w] = queue[1]]
        /\ 1 \in DOMAIN queue
    BY <1>4, ReceiveProperties DEF Receive
  <2>2. \A i \in DOMAIN queue' :
          i \in Nat \ {0} /\ i + 1 \in DOMAIN queue /\ queue'[i] = queue[i + 1]
    BY <1>4, ReceiveProperties DEF Receive
  <2>3. \A i, j \in DOMAIN queue' : queue'[i] = queue'[j] => i = j
    <3> TAKE i, j \in DOMAIN queue'
    <3> HAVE queue'[i] = queue'[j]
    <3>1. i + 1 = j + 1 /\ i \in Nat /\ j \in Nat
      BY <2>2
    <3> QED
      BY <3>1
  <2> QED
    BY <2>1, <2>2, <2>3
<1>5. ASSUME NEW w \in Workers,
             Exit(w) \/ Skip(w) \/ Begin(w) \/ RunnerReturns(w) \/ Settle(w) \/ Forget(w)
      PROVE  QueueInv'
  <2>1. \A i \in DOMAIN queue : queue[i] # NoTask
    BY TasksAssumption
  <2> QED
    BY <1>5, <2>1 DEF Exit, Skip, Begin, RunnerReturns, Settle, Forget, manager
<1>6. CASE Restart
  <2>1. /\ \A i \in DOMAIN queue' : queue'[i] \in Backlog
        /\ \A i, j \in DOMAIN queue' : queue'[i] = queue'[j] => i = j
    <3>1. CASE Restore
      <4>1. PICK n \in 0 .. QueueSize :
              \E q \in [1 .. n -> Backlog] : IsRestored(q) /\ queue' = q
        BY <3>1 DEF Restore
      <4>2. queue' \in [1 .. n -> Backlog] /\ IsRestored(queue') /\ n \in Nat
        BY <4>1, SizesAssumption
      <4>3. ASSUME NEW i \in 1 .. n, NEW j \in 1 .. n, queue'[i] = queue'[j], i < j
            PROVE  FALSE
        <5>1. place[queue'[i]] < place[queue'[j]] /\ place[queue'[i]] \in Nat
          BY <4>2, <4>3 DEF IsRestored, Backlog
        <5> QED
          BY <4>3, <5>1
      <4> QED
        BY <4>2, <4>3
    <3>2. CASE RestoreNothing
      <4>1. DOMAIN queue' = {}
        BY <3>2 DEF RestoreNothing
      <4> QED
        BY <4>1
    <3> QED
      BY <1>6, <3>1, <3>2 DEF Restart
  <2>4. \A t \in Backlog : t \in Tasks /\ submit'[t] \notin NotQueued
    BY <1>6 DEF Restart, Backlog, StatusInv
  <2>5. \A w \in Workers : job'[w] = NoTask
    BY <1>6 DEF Restart
  <2> QED
    BY <2>1, <2>4, <2>5, TasksAssumption
<1>7. CASE UNCHANGED vars
  BY <1>7 DEF vars, manager, worker
<1> QED
  BY <1>1, <1>2, <1>3, <1>4, <1>5, <1>6, <1>7 DEF Next, SubmitNext, WorkerNext

(* What a status tells: running means that a worker has it running, and a   *)
(* task whose Submit has not offered it yet was never begun.                *)
LEMMA StatusStays == IInv /\ [Next]_vars => StatusInv'
<1> SUFFICES ASSUME IInv, [Next]_vars PROVE StatusInv'
  OBVIOUS
<1> USE TasksAssumption DEF IInv, TypeOK, StatusInv, NotQueued, Executes
<1>1. ASSUME NEW t \in Tasks, SubmitRegister(t)
      PROVE  StatusInv'
  BY <1>1 DEF SubmitRegister, SetStatus, Persist, Write, store, worker, history
<1>2. ASSUME NEW t \in Tasks, SubmitFail(t) \/ CancelQueued(t)
      PROVE  StatusInv'
  <2>1. PICK st \in {"failed", "cancelled"} :
          status' = [status EXCEPT ![t] = st]
          /\ (disk' = [disk EXCEPT ![t] = st] \/ disk' = disk)
    BY <1>2 DEF SubmitFail, CancelQueued, SetStatus, Persist, Write, store
  <2>2. status[t] \in {"queued", "cancelled"} /\ submit[t] # "none"
    BY <1>2 DEF SubmitFail, CancelQueued
  <2>3. CASE SubmitFail(t)
    BY <2>1, <2>2, <2>3 DEF SubmitFail, worker, history
  <2>4. CASE CancelQueued(t)
    <3>1. status' = [status EXCEPT ![t] = "cancelled"]
      BY <2>4 DEF CancelQueued, SetStatus
    <3> QED
      BY <2>1, <2>2, <2>4, <3>1 DEF CancelQueued, worker
  <2> QED
    BY <1>2, <2>3, <2>4
<1>3. ASSUME NEW t \in Tasks, SubmitSend(t) \/ SubmitRefuse(t)
      PROVE  StatusInv'
  BY <1>3 DEF SubmitSend, SubmitRefuse, manager, store, worker, history
<1>4. ASSUME NEW t \in Tasks, CancelRunning(t)
      PROVE  StatusInv'
  <2>1. submit[t] \notin NotQueued
    BY <1>4 DEF CancelRunning, WorkerInv, Holding
  <2> QED
    BY <1>4, <2>1 DEF CancelRunning, store, worker
<1>5. CASE StopCancel \/ StopDrain
  BY <1>5 DEF StopCancel, StopDrain, store, worker, history
<1>6. ASSUME NEW w \in Workers, Receive(w) \/ Exit(w) \/ Skip(w) \/ RunnerReturns(w)
      PROVE  StatusInv'
  <2>1. ASSUME NEW t \in Tasks, NEW v \in Workers, Executes(v, t)
        PROVE  Executes(v, t)'
    BY <1>6, <2>1 DEF Receive, Exit, Skip, RunnerReturns
  <2>2. UNCHANGED <<status, store, submit, history>>
    BY <1>6 DEF Receive, Exit, Skip, RunnerReturns, manager
  <2> QED
    BY <2>1, <2>2 DEF store, history
<1>7. ASSUME NEW w \in Workers, Begin(w)
      PROVE  StatusInv'
  <2>1. job[w] \in Tasks /\ submit[job[w]] \notin NotQueued
    BY <1>7 DEF Begin, WorkerInv, Holding
  <2>2. /\ status' = [status EXCEPT ![job[w]] = "running"] /\ submit' = submit
        /\ pc' = [pc EXCEPT ![w] = "running"] /\ job' = job
        /\ starts' = [starts EXCEPT ![job[w]] = @ + 1] /\ asked' = asked
        /\ \A t \in Tasks : t # job[w] => disk'[t] = disk[t]
    BY <1>7, <2>1 DEF Begin, SetStatus, Persist, Write, store
  <2> QED
    BY <2>1, <2>2
<1>8. ASSUME NEW w \in Workers, Settle(w)
      PROVE  StatusInv'
  <2>1. job[w] \in Tasks /\ submit[job[w]] \notin NotQueued
    BY <1>8 DEF Settle, WorkerInv, Holding
  <2>2. Outcome(job[w], failed[w]) \in Terminal
    BY <2>1, OutcomeType
  <2>3. /\ status' = [status EXCEPT ![job[w]] = Outcome(job[w], failed[w])]
        /\ pc' = [pc EXCEPT ![w] = "settled"] /\ job' = job /\ submit' = submit
        /\ starts' = starts /\ asked' = asked
        /\ \A t \in Tasks : t # job[w] => disk'[t] = disk[t]
    BY <1>8, <2>1 DEF Settle, SetStatus, Persist, Write, store, history
  <2> QED
    BY <2>1, <2>2, <2>3 DEF Terminal
<1>9. ASSUME NEW w \in Workers, Forget(w)
      PROVE  StatusInv'
  BY <1>9 DEF Forget, store, history
<1>10. CASE Restart
  <2>1. \A t \in Tasks : status'[t] \in {Restored(t), "absent"} /\ starts'[t] = starts[t]
    BY <1>10 DEF Restart, Restore, RestoreNothing
  <2>2. \A t \in Tasks : disk'[t] = disk[t] \/ (disk[t] = "running" /\ disk'[t] = "failed")
    BY <1>10 DEF Restart, Restore, RestoreNothing, Interrupted
  <2>3. \A t \in Tasks : submit'[t] \in NotQueued => submit[t] = "none" /\ submit'[t] = "none"
    BY <1>10 DEF Restart
  <2>4. asked' = {}
    BY <1>10 DEF Restart
  <2>5. \A t \in Tasks : status'[t] # "running"
    BY <2>1, RestoredType
  <2>6. \A t \in Tasks : submit[t] = "none" => status'[t] = "absent" /\ disk'[t] = "absent"
    BY <2>1, <2>2 DEF Restored
  <2> QED
    BY <2>1, <2>3, <2>4, <2>5, <2>6
<1>11. CASE UNCHANGED vars
  BY <1>11 DEF vars, manager, store, worker, history
<1> QED
  BY <1>1, <1>2, <1>3, <1>4, <1>5, <1>6, <1>7, <1>8, <1>9, <1>10, <1>11
  DEF Next, SubmitNext, WorkerNext

(* A Cancel that was accepted is seen when the runner's return is settled.  *)
LEMMA AskedStays == IInv /\ [Next]_vars => AskedInv'
<1> SUFFICES ASSUME IInv, [Next]_vars PROVE AskedInv'
  OBVIOUS
<1> USE DEF IInv, TypeOK, AskedInv, CtxErr
<1>1. ASSUME NEW t \in Tasks,
             \/ SubmitRegister(t) \/ SubmitSend(t) \/ SubmitRefuse(t) \/ SubmitFail(t)
             \/ CancelQueued(t)
      PROVE  AskedInv'
  BY <1>1 DEF SubmitRegister, SubmitSend, SubmitRefuse, SubmitFail, CancelQueued, SetStatus,
              StatusInv, NotQueued, manager, history
<1>2. ASSUME NEW t \in Tasks, CancelRunning(t)
      PROVE  AskedInv'
  <2>1. t \in cancels \/ CtxErr(t)
    BY <1>2 DEF CancelRunning, StatusInv, WorkerInv, Executes
  <2> QED
    BY <1>2, <2>1 DEF CancelRunning
<1>3. CASE StopCancel \/ StopDrain
  BY <1>3 DEF StopCancel, StopDrain, history
<1>4. ASSUME NEW w \in Workers, Receive(w) \/ Exit(w) \/ Skip(w) \/ RunnerReturns(w)
      PROVE  AskedInv'
  BY <1>4 DEF Receive, Exit, Skip, RunnerReturns, manager, history
<1>5. ASSUME NEW w \in Workers, Begin(w)
      PROVE  AskedInv'
  BY <1>5 DEF Begin, SetStatus
<1>6. ASSUME NEW w \in Workers, Settle(w)
      PROVE  AskedInv'
  <2>1. status' = [status EXCEPT ![job[w]] = Outcome(job[w], failed[w])]
        /\ UNCHANGED <<ctxDone, root, asked>>
    BY <1>6 DEF Settle, SetStatus, history
  <2>2. status[job[w]] = "running"
    BY <1>6 DEF Settle, WorkerInv
  <2>3. job[w] \in asked => Outcome(job[w], failed[w]) \in {"succeeded", "cancelled"}
    BY <2>2 DEF Outcome
  <2> QED
    BY <2>1, <2>3
<1>7. ASSUME NEW w \in Workers, Forget(w)
      PROVE  AskedInv'
  BY <1>7 DEF Forget, history
<1>8. CASE Restart
  BY <1>8 DEF Restart
<1>9. CASE UNCHANGED vars
  BY <1>9 DEF vars, manager, history
<1> QED
  BY <1>1, <1>2, <1>3, <1>4, <1>5, <1>6, <1>7, <1>8, <1>9 DEF Next, SubmitNext, WorkerNext

(* With a store that keeps what it is given: a task is begun out of         *)
(* "queued" only, and nothing that was begun or told off is queued again.   *)
LEMMA DurableStays == IInv /\ [Next]_vars => DurableInv'
<1> SUFFICES ASSUME IInv, [Next]_vars PROVE DurableInv'
  OBVIOUS
<1>a. SUFFICES ASSUME ~ StoreMayFail PROVE Durable'
  BY DEF DurableInv
<1>0. Durable
  BY <1>a DEF IInv, DurableInv
<1>1. ASSUME NEW t \in Tasks, NEW st \in Status, SetStatus(t, st)
      PROVE  status' = [status EXCEPT ![t] = st] /\ disk' = [disk EXCEPT ![t] = st]
  BY <1>a, <1>1, SetStatusProperties DEF IInv
<1>b. starts \in [Tasks -> Nat] /\ status \in [Tasks -> Status] /\ disk \in [Tasks -> Status]
      /\ submit \in [Tasks -> SubmitStep]
  BY DEF IInv, TypeOK
<1> USE <1>0, <1>b DEF Durable, Terminal
<1>2. ASSUME NEW t \in Tasks, SubmitRegister(t)
      PROVE  Durable'
  <2>1. disk[t] = "absent" /\ starts[t] = 0 /\ t \notin told
    BY <1>2 DEF SubmitRegister, IInv, StatusInv, NotQueued
  <2>2. SetStatus(t, "queued") /\ "queued" \in Status
    BY <1>2 DEF SubmitRegister, Status
  <2>3. /\ status' = [status EXCEPT ![t] = "queued"] /\ disk' = [disk EXCEPT ![t] = "queued"]
        /\ submit' = [submit EXCEPT ![t] = "registered"] /\ UNCHANGED <<starts, told>>
    BY <1>1, <1>2, <2>2 DEF SubmitRegister, history
  <2> QED
    BY <2>1, <2>3
<1>3. ASSUME NEW t \in Tasks, SubmitFail(t)
      PROVE  Durable'
  <2>1. starts[t] = 0
    BY <1>3 DEF SubmitFail, IInv, StatusInv, NotQueued
  <2>2. SetStatus(t, "failed") /\ "failed" \in Status
    BY <1>3 DEF SubmitFail, Status
  <2> QED
    BY <1>1, <1>3, <2>1, <2>2 DEF SubmitFail, history
<1>4. ASSUME NEW t \in Tasks, CancelQueued(t)
      PROVE  Durable'
  <2>1. starts[t] = 0
    BY <1>4 DEF CancelQueued
  <2>2. SetStatus(t, "cancelled") /\ "cancelled" \in Status
    BY <1>4 DEF CancelQueued, Status
  <2> QED
    BY <1>1, <1>4, <2>1, <2>2 DEF CancelQueued
<1>5. ASSUME NEW t \in Tasks, SubmitSend(t) \/ SubmitRefuse(t) \/ CancelRunning(t)
      PROVE  Durable'
  BY <1>5 DEF SubmitSend, SubmitRefuse, CancelRunning, manager, store, history
<1>6. CASE StopCancel \/ StopDrain
  BY <1>6 DEF StopCancel, StopDrain, store, history
<1>7. ASSUME NEW w \in Workers,
             Receive(w) \/ Exit(w) \/ Skip(w) \/ RunnerReturns(w) \/ Forget(w)
      PROVE  Durable'
  BY <1>7 DEF Receive, Exit, Skip, RunnerReturns, Forget, manager, store, history
<1>8. ASSUME NEW w \in Workers, Begin(w)
      PROVE  Durable'
  <2>0. job[w] \in Tasks /\ status[job[w]] = "queued"
    BY <1>8 DEF Begin, IInv, TypeOK, WorkerInv, Holding
  <2>1. starts[job[w]] = 0
    BY <2>0
  <2>2. SetStatus(job[w], "running") /\ "running" \in Status
    BY <1>8 DEF Begin, Status
  <2>3. starts' = [starts EXCEPT ![job[w]] = @ + 1] /\ UNCHANGED <<told, submit>>
    BY <1>8 DEF Begin
  <2> QED
    BY <1>1, <2>0, <2>1, <2>2, <2>3
<1>9. ASSUME NEW w \in Workers, Settle(w)
      PROVE  Durable'
  <2>1. job[w] \in Tasks /\ Outcome(job[w], failed[w]) \in Terminal
    BY <1>9, OutcomeType DEF Settle, IInv, TypeOK, WorkerInv, Holding
  <2>2. SetStatus(job[w], Outcome(job[w], failed[w]))
        /\ Outcome(job[w], failed[w]) \in Status
    BY <1>9, <2>1 DEF Settle, Status
  <2>3. UNCHANGED <<starts, told, submit>>
    BY <1>9 DEF Settle, history
  <2> QED
    BY <1>1, <2>1, <2>2, <2>3
<1>10. CASE Restart
  <2>1. disk' \in [Tasks -> Status] /\ \A t \in Tasks : status'[t] \in {"absent", disk'[t]}
    <3>1. CASE Restore
      BY <1>a, <1>10, <3>1 DEF Restore, Restored, Interrupted, Status
    <3>2. CASE RestoreNothing
      BY <3>2 DEF RestoreNothing
    <3> QED
      BY <1>10, <3>1, <3>2 DEF Restart
  <2>2. \A t \in Tasks : disk[t] \in {"running"} \cup Terminal
                          => disk'[t] \in {"running"} \cup Terminal
    BY <1>10 DEF Restart, Restore, RestoreNothing
  <2>3. \A t \in Tasks : disk[t] \in Terminal => disk'[t] \in Terminal
    BY <1>10 DEF Restart, Restore, RestoreNothing
  <2>4. UNCHANGED <<starts, told>>
        /\ \A t \in Tasks : submit'[t] = "rejected" <=> submit[t] = "rejected"
    BY <1>10 DEF Restart
  <2> QED
    BY <2>1, <2>2, <2>3, <2>4
<1>11. CASE UNCHANGED vars
  BY <1>11 DEF vars, manager, store, history
<1> QED
  BY <1>2, <1>3, <1>4, <1>5, <1>6, <1>7, <1>8, <1>9, <1>10, <1>11
  DEF Next, SubmitNext, WorkerNext

(* An id that was sent stays in the channel until a worker has it, and with *)
(* the worker until the task is no longer queued.                           *)
LEMMA AcceptedStays == IInv /\ [Next]_vars => AcceptedNotLost'
<1> DEFINE Somewhere(t) == \/ \E i \in DOMAIN queue : queue[i] = t
                           \/ \E w \in Workers : pc[w] = "received" /\ job[w] = t
           Kept(t) == submit[t] = "accepted" /\ status[t] = "queued" => Somewhere(t)
<1>a. AcceptedNotLost <=> (restarts = 0 => \A t \in Tasks : Kept(t))
  BY DEF AcceptedNotLost, Range
<1>b. AcceptedNotLost' <=> (restarts' = 0 => \A t \in Tasks : Kept(t)')
  BY DEF AcceptedNotLost, Range
<1> SUFFICES ASSUME IInv, [Next]_vars, restarts' = 0, NEW t \in Tasks PROVE Kept(t)'
  BY <1>b
<1> USE DEF IInv, TypeOK
<1>0. restarts = 0 => Kept(t)
  BY <1>a
<1>1. ASSUME NEW u \in Tasks,
             \/ SubmitRegister(u) \/ SubmitRefuse(u) \/ SubmitFail(u)
             \/ CancelQueued(u) \/ CancelRunning(u)
      PROVE  Kept(t)'
  BY <1>0, <1>1 DEF SubmitRegister, SubmitRefuse, SubmitFail, CancelQueued, CancelRunning,
                    SetStatus, manager, worker
<1>2. ASSUME NEW u \in Tasks, SubmitSend(u)
      PROVE  Kept(t)'
  <2>1. /\ DOMAIN queue' = DOMAIN queue \cup {Len(queue) + 1}
        /\ \A i \in DOMAIN queue : queue'[i] = queue[i]
        /\ queue'[Len(queue) + 1] = u
    BY <1>2, EnqueueProperties DEF SubmitSend
  <2> QED
    BY <1>0, <1>2, <2>1 DEF SubmitSend, worker
<1>3. CASE StopCancel \/ StopDrain
  BY <1>0, <1>3 DEF StopCancel, StopDrain, worker
<1>4. ASSUME NEW w \in Workers, Receive(w)
      PROVE  Kept(t)'
  <2>1. /\ queue' = Tail(queue) /\ job' = [job EXCEPT ![w] = queue[1]]
        /\ pc' = [pc EXCEPT ![w] = "received"] /\ pc[w] = "idle"
        /\ UNCHANGED <<status, submit, restarts>>
    BY <1>4, ReceiveProperties DEF Receive
  <2>2. \A i \in DOMAIN queue : i = 1 \/ (i - 1 \in DOMAIN queue' /\ queue'[i - 1] = queue[i])
    BY <1>4, <2>1, ReceiveShifts DEF Receive
  <2>3. job'[w] = queue[1] /\ pc'[w] = "received"
    BY <2>1
  <2>4. \A v \in Workers : pc[v] = "received" => pc'[v] = "received" /\ job'[v] = job[v]
    BY <2>1
  <2> SUFFICES ASSUME Somewhere(t) PROVE Somewhere(t)'
    BY <1>0, <2>1
  <2>5. CASE \E i \in DOMAIN queue : queue[i] = t
    BY <2>2, <2>3, <2>5
  <2>6. CASE \E v \in Workers : pc[v] = "received" /\ job[v] = t
    BY <2>4, <2>6
  <2> QED
    BY <2>5, <2>6
<1>5. ASSUME NEW w \in Workers, Exit(w) \/ RunnerReturns(w) \/ Forget(w)
      PROVE  Kept(t)'
  BY <1>0, <1>5 DEF Exit, RunnerReturns, Forget, manager
<1>6. ASSUME NEW w \in Workers, Skip(w)
      PROVE  Kept(t)'
  BY <1>0, <1>6 DEF Skip, manager
<1>7. ASSUME NEW w \in Workers, Begin(w) \/ Settle(w)
      PROVE  Kept(t)'
  <2>1. PICK st \in {"running"} \cup Terminal : status' = [status EXCEPT ![job[w]] = st]
    <3>1. CASE Begin(w)
      BY <3>1 DEF Begin, SetStatus
    <3>2. CASE Settle(w)
      <4>1. Outcome(job[w], failed[w]) \in Terminal
        BY <3>2, OutcomeType DEF Settle, WorkerInv, Holding
      <4> QED
        BY <3>2, <4>1 DEF Settle, SetStatus
    <3> QED
      BY <1>7, <3>1, <3>2
  <2>2. status'[t] = "queued" => status[t] = "queued" /\ t # job[w]
    BY <2>1 DEF Terminal
  <2>3. /\ UNCHANGED <<queue, job, submit, restarts>>
        /\ \A v \in Workers : v # w => pc'[v] = pc[v]
    BY <1>7 DEF Begin, Settle
  <2> QED
    BY <1>0, <2>2, <2>3
<1>8. CASE Restart
  BY <1>8 DEF Restart
<1>9. CASE UNCHANGED vars
  BY <1>0, <1>9 DEF vars, manager, worker
<1> QED
  BY <1>1, <1>2, <1>3, <1>4, <1>5, <1>6, <1>7, <1>8, <1>9 DEF Next, SubmitNext, WorkerNext

----------------------------------------------------------------------------
(* IInv is an inductive invariant. *)
THEOREM Invariance == Spec => []IInv
<1>1. Init => IInv
  <2> SUFFICES ASSUME Init PROVE IInv
    OBVIOUS
  <2>1. TypeOK
    BY SizesAssumption
    DEF Init, TypeOK, Status, Terminal, WorkerStep, SubmitStep
  <2>2. WorkerInv /\ QueueInv
    BY DEF Init, WorkerInv, QueueInv, Holding
  <2>3. StatusInv /\ AskedInv /\ AcceptedNotLost
    BY DEF Init, StatusInv, AskedInv, AcceptedNotLost, NotQueued
  <2>4. Durable
    BY DEF Init, Durable
  <2> QED
    BY <2>1, <2>2, <2>3, <2>4 DEF IInv, DurableInv
<1>2. IInv /\ [Next]_vars => IInv'
  BY TypeStep, WorkerStays, QueueStays, StatusStays, AskedStays, DurableStays, AcceptedStays
  DEF IInv
<1> QED
  BY <1>1, <1>2, PTL DEF Spec

(* The types of the state; the channel is never longer than its capacity.   *)
THEOREM TypeCorrect == Spec => []TypeOK
BY Invariance, PTL DEF IInv

(* A goal is handed to the runner at most once over all restarts.           *)
THEOREM AtMostOnce == Spec => []ExecuteAtMostOnce
<1>1. IInv => ExecuteAtMostOnce
  BY DEF IInv, DurableInv, Durable, ExecuteAtMostOnce
<1> QED
  BY <1>1, Invariance, PTL

(* A queued task that was cancelled never reaches the runner.               *)
THEOREM CancelledNeverRuns == Spec => []ToldNeverRuns
<1>1. IInv => ToldNeverRuns
  BY DEF IInv, TypeOK, DurableInv, Durable, ToldNeverRuns
<1> QED
  BY <1>1, Invariance, PTL

(* A refused task never reaches the runner.                                 *)
THEOREM RefusedNeverRuns == Spec => []RejectedNeverRuns
<1>1. IInv => RejectedNeverRuns
  BY DEF IInv, DurableInv, Durable, RejectedNeverRuns
<1> QED
  BY <1>1, Invariance, PTL

(* A running task is with one worker and its context can be cancelled.      *)
THEOREM RunningReachable == Spec => []RunningIsCancellable
<1>1. IInv => RunningIsCancellable
  <2> SUFFICES ASSUME IInv, NEW t \in Tasks, status[t] = "running"
               PROVE  /\ \E w \in Workers : Executes(w, t)
                      /\ \A v, w \in Workers : Executes(v, t) /\ Executes(w, t) => v = w
                      /\ t \in cancels \/ CtxErr(t)
    BY DEF RunningIsCancellable
  <2>1. PICK w \in Workers : Executes(w, t)
    BY DEF IInv, StatusInv
  <2>2. \A u, v \in Workers : Executes(u, t) /\ Executes(v, t) => u = v
    BY TasksAssumption DEF IInv, WorkerInv, Executes
  <2>3. t \in cancels \/ CtxErr(t)
    BY <2>1 DEF IInv, WorkerInv, Executes
  <2> QED
    BY <2>1, <2>2, <2>3
<1> QED
  BY <1>1, Invariance, PTL

(* An error that follows an accepted Cancel is not reported as a failure.   *)
THEOREM CancelExcuses == Spec => []AskedNeverFails
<1>1. IInv => AskedNeverFails
  BY DEF IInv, AskedInv, AskedNeverFails
<1> QED
  BY <1>1, Invariance, PTL

(* No accepted id is lost between the Submit call and the worker.           *)
THEOREM NothingLost == Spec => []AcceptedNotLost
BY Invariance, PTL DEF IInv

(* A finished task keeps its status, restarts included; the one exception   *)
(* is a refused Submit that overwrites a cancellation.                      *)
LEMMA FinalStep ==
  ASSUME IInv, [Next]_vars, ~ StoreMayFail, NEW t \in Tasks,
         status[t] \in Terminal, status'[t] \notin {status[t], "absent"}
  PROVE  status[t] = "cancelled" /\ submit[t] = "failing" /\ status'[t] = "failed"
<1> USE DEF IInv, TypeOK, Terminal
<1>1. ASSUME NEW u \in Tasks,
             \/ SubmitRegister(u) \/ SubmitSend(u) \/ SubmitRefuse(u)
             \/ CancelQueued(u) \/ CancelRunning(u)
      PROVE  status'[t] = status[t]
  BY <1>1 DEF SubmitRegister, SubmitSend, SubmitRefuse, CancelQueued, CancelRunning,
              SetStatus, StatusInv, manager
<1>2. ASSUME NEW u \in Tasks, SubmitFail(u), status'[t] # status[t]
      PROVE  status[t] = "cancelled" /\ submit[t] = "failing" /\ status'[t] = "failed"
  BY <1>2 DEF SubmitFail, SetStatus, StatusInv
<1>3. CASE StopCancel \/ StopDrain
  BY <1>3 DEF StopCancel, StopDrain
<1>4. ASSUME NEW w \in Workers,
             Receive(w) \/ Exit(w) \/ Skip(w) \/ RunnerReturns(w) \/ Forget(w)
      PROVE  status'[t] = status[t]
  BY <1>4 DEF Receive, Exit, Skip, RunnerReturns, Forget, manager
<1>5. ASSUME NEW w \in Workers, Begin(w) \/ Settle(w)
      PROVE  status'[t] = status[t]
  <2>1. status[job[w]] \in {"queued", "running"}
    BY <1>5 DEF Begin, Settle, WorkerInv
  <2> QED
    BY <1>5, <2>1 DEF Begin, Settle, SetStatus
<1>6. CASE Restart
  <2>1. disk[t] = status[t]
    BY DEF DurableInv, Durable
  <2> QED
    BY <1>6, <2>1 DEF Restart, Restore, RestoreNothing, Restored
<1>7. CASE UNCHANGED vars
  BY <1>7 DEF vars, manager
<1> QED
  BY <1>1, <1>2, <1>3, <1>4, <1>5, <1>6, <1>7 DEF Next, SubmitNext, WorkerNext

(* The same for whole behaviours. *)
THEOREM FinalStatusHolds == Spec => FinalStatus
<1>1. IInv /\ [Next]_vars =>
        (~ StoreMayFail => \A t \in Tasks :
           status[t] \in Terminal /\ status'[t] \notin {status[t], "absent"} =>
             status[t] = "cancelled" /\ submit[t] = "failing" /\ status'[t] = "failed")
  BY FinalStep
<1> QED
  BY <1>1, Invariance, PTL DEF Spec, FinalStatus
=============================================================================
