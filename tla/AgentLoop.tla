------------------------------ MODULE AgentLoop ------------------------------
(***************************************************************************)
(* One Agent over several calls of Run: agent/agent.go with the execution  *)
(* of its tool calls in tool/exec.go and the commit of AgentHistory.       *)
(*                                                                         *)
(* runMu lets one Run work at a time; a second one is refused and changes  *)
(* nothing, so it is no action here.  The calls of a batch run in          *)
(* goroutines of their own, at most MaxToolConcurrency at a time.  The     *)
(* model, the tools, the approver and the context answer as they like.     *)
(* A handoff is a tool here: the child is an Agent with a runMu and a      *)
(* history of its own, and no session store.                               *)
(***************************************************************************)
EXTENDS AgentHistory, FiniteSets

CONSTANTS
  MaxRuns,             \* bound: how often Run is called
  MaxTurns,
  MaxCalls,            \* bound: tool calls in one answer of the model
  Tools,               \* what the model calls: unknown, free or gated tools
  MaxToolConcurrency   \* 0 is one goroutine for each call

ASSUME LoopAssumption ==
  /\ MaxRuns \in Nat
  /\ MaxTurns \in Nat \ {0}
  /\ MaxCalls \in Nat \ {0}
  /\ Tools \subseteq {"unknown", "free", "gated"} /\ Tools # {}
  /\ MaxToolConcurrency \in Nat

(* What the model is told of a call.  An unknown tool, a denied call, an    *)
(* error of the tool, a timeout and a cancelled context read "error: ...".  *)
Contents == {"ok", "error"}

Call == [turn : 1..MaxTurns, slot : 1..MaxCalls, tool : Tools]

VARIABLES
  run,       \* the number of the last Run
  phase,     \* where it stands: idle, top (of its loop), chat, batch
  turn,
  ctxDone,   \* its context has ended
  messages,  \* its working copy
  calls,     \* the tool calls of its last answer
  step,      \* where the goroutine of each call stands
  out,       \* the results, in the order of the calls
  profile,   \* the memory has something to say
  history,   \* Agent.history
  answered   \* history: the runs that were answered since the last Reset

batch == <<calls, step, out>>
vars == <<run, phase, turn, ctxDone, messages, batch, profile, history, answered>>

Init ==
  /\ run = 0
  /\ phase = "idle"
  /\ turn = 0
  /\ ctxDone = FALSE
  /\ messages = <<>>
  /\ calls = <<>> /\ step = <<>> /\ out = <<>>
  /\ profile \in BOOLEAN
  /\ history = <<>>
  /\ answered = <<>>

----------------------------------------------------------------------------
(* The loop *)

SystemPrompt == Message("system", NoRun, <<>>)

SessionMessages ==
  UpsertProfile(IF history = <<>> THEN <<SystemPrompt>> ELSE history, profile)

BeginRun ==
  /\ phase = "idle"
  /\ run < MaxRuns
  /\ run' = run + 1
  /\ phase' = "top"
  /\ turn' = 1
  /\ ctxDone' = FALSE
  /\ messages' = Append(SessionMessages, Message("user", run + 1, <<>>))
  /\ UNCHANGED <<batch, profile, history, answered>>

(* The caller's context is cancelled, or its deadline passes. *)
ContextEnds ==
  /\ phase # "idle"
  /\ ~ ctxDone
  /\ ctxDone' = TRUE
  /\ UNCHANGED <<run, phase, turn, messages, batch, profile, history, answered>>

(* Run returns an error: the working copy is dropped. *)
GiveUp ==
  /\ phase' = "idle"
  /\ messages' = <<>>
  /\ UNCHANGED <<run, turn, ctxDone, batch, profile, history, answered>>

(* The turns are used up, or the context has ended. *)
TopFails ==
  /\ phase = "top"
  /\ turn > MaxTurns \/ ctxDone
  /\ GiveUp

TopAsks ==
  /\ phase = "top"
  /\ turn <= MaxTurns
  /\ ~ ctxDone
  /\ phase' = "chat"
  /\ messages' = UpsertProfile(messages, profile)
  /\ UNCHANGED <<run, turn, ctxDone, batch, profile, history, answered>>

ChatFails ==
  /\ phase = "chat"
  /\ GiveUp

(* commitHistory, whose save is that of HttpRuns *)
CommitHistory(msgs) == TrimHistory(FoldOldTurns(Strip(msgs, "profile")))

(* A plain answer ends the run; the context is not looked at again. *)
ChatAnswers ==
  /\ phase = "chat"
  /\ history' \in CommitHistory(Append(messages, Message("assistant", run, <<>>)))
  /\ phase' = "idle"
  /\ messages' = <<>>
  /\ answered' = Append(answered, run)
  /\ UNCHANGED <<run, turn, ctxDone, batch, profile>>

ChatCalls ==
  /\ phase = "chat"
  /\ \E n \in 1..MaxCalls : \E tool \in [1..n -> Tools] :
       calls' = [i \in 1..n |-> [turn |-> turn, slot |-> i, tool |-> tool[i]]]
  /\ messages' = Append(messages, Message("assistant", run, calls'))
  /\ step' = [i \in DOMAIN calls' |-> "waiting"]
  /\ out' = [i \in DOMAIN calls' |-> "none"]
  /\ phase' = "batch"
  /\ UNCHANGED <<run, turn, ctxDone, profile, history, answered>>

----------------------------------------------------------------------------
(* The goroutine of call i *)

Slots ==
  IF MaxToolConcurrency = 0 \/ MaxToolConcurrency > Len(calls)
  THEN Len(calls) ELSE MaxToolConcurrency

(* slip: the slot is kept *)
HoldingStill == {i \in DOMAIN step : step[i] # "waiting"}

Holding == {i \in DOMAIN step : step[i] \in {"entered", "asking", "running"}}

Ended(i) == step[i] = "ended"

Goes(i, to) ==
  /\ step' = [step EXCEPT ![i] = to]
  /\ UNCHANGED <<run, phase, turn, ctxDone, messages, calls, out, history, answered>>

(* The result is written, then the semaphore given back. *)
Ends(i, content) ==
  /\ step' = [step EXCEPT ![i] = "ended"]
  /\ out' = [out EXCEPT ![i] = content]
  /\ UNCHANGED <<run, phase, turn, ctxDone, messages, calls, history, answered>>

Acquire(i) ==
  /\ step[i] = "waiting"
  /\ Cardinality(Holding) < Slots
  /\ Goes(i, "entered")
  /\ UNCHANGED profile

(* ExecuteDetail: the context, the tool's name, the approval, the tool *)
Enter(i) ==
  /\ step[i] = "entered"
  /\ \/ ctxDone /\ Ends(i, "error")
     \/ ~ ctxDone /\ calls[i].tool = "unknown" /\ Ends(i, "error")
     \/ /\ ~ ctxDone /\ calls[i].tool # "unknown"
        /\ Goes(i, IF calls[i].tool = "gated" THEN "asking" ELSE "running")
  /\ UNCHANGED profile

(* The approver allows, denies or fails; none reads as an allowance. *)
Approval(i) ==
  /\ step[i] = "asking"
  /\ Goes(i, "running") \/ Ends(i, "error")
  /\ UNCHANGED profile

(* The tool returns; a profile tool may have filled the memory. *)
ToolReturns(i) ==
  /\ step[i] = "running"
  /\ \E content \in {"ok", "error"} : Ends(i, content)
  /\ profile' \in {profile, TRUE}

(* slip: the first call to end is waited for *)
SomeEnded == \E i \in DOMAIN step : Ended(i)

AllEnded == \A i \in DOMAIN step : Ended(i)

Results == [i \in DOMAIN calls |-> Message("tool", run, <<calls[i], out[i]>>)]

Join ==
  /\ phase = "batch"
  /\ AllEnded
  /\ messages' = messages \o Results
  /\ turn' = turn + 1
  /\ phase' = "top"
  /\ calls' = <<>> /\ step' = <<>> /\ out' = <<>>
  /\ UNCHANGED <<run, ctxDone, profile, history, answered>>

(* The user starts over between two runs. *)
Reset ==
  /\ phase = "idle"
  /\ history # <<>>
  /\ history' = <<>>
  /\ answered' = <<>>
  /\ UNCHANGED <<run, phase, turn, ctxDone, messages, batch, profile>>

Goroutine(i) == Acquire(i) \/ Enter(i) \/ Approval(i) \/ ToolReturns(i)

Loop == TopFails \/ TopAsks \/ ChatFails \/ ChatAnswers \/ ChatCalls \/ Join

(* Whatever is the run's own to do *)
Progress == Loop \/ \E i \in DOMAIN step : Goroutine(i)

Next == BeginRun \/ ContextEnds \/ Reset \/ Progress

Spec == Init /\ [][Next]_vars

(* What the run does without a tool or an approver: its loop, whose chats   *)
(* end by the timeout of their requests, and the semaphore.                 *)
Own == Loop \/ \E i \in DOMAIN step : Acquire(i) \/ Enter(i)

(* Every approver there is returns when the context has ended. *)
ApprovalEnds(i) == i \in DOMAIN step /\ ctxDone /\ Approval(i)

(* Nobody has to decide an approval: the approver of the REPL has no        *)
(* deadline.  No tool has to return: its timeout ends its context, which it *)
(* may ignore.  No caller ends its context, and nothing orders goroutines.  *)
FairSpec == Spec /\ WF_vars(Own) /\ \A i \in 1..MaxCalls : WF_vars(ApprovalEnds(i))

----------------------------------------------------------------------------
(* Types, and the bound on concurrent calls; what messages and history are  *)
(* made of is said by ProtocolKept.                                         *)
LoopTypeOK ==
  /\ run \in 0..MaxRuns
  /\ phase \in {"idle", "top", "chat", "batch"}
  /\ turn \in 0..(MaxTurns + 1)
  /\ ctxDone \in BOOLEAN /\ profile \in BOOLEAN
  /\ calls \in Seq(Call) /\ Len(calls) <= MaxCalls
  /\ DOMAIN step = DOMAIN calls /\ DOMAIN out = DOMAIN calls
  /\ \A i \in DOMAIN calls :
       /\ step[i] \in {"waiting", "entered", "asking", "running", "ended"}
       /\ out[i] \in Contents \cup {"none"}
  /\ Cardinality(Holding) <= Slots
  /\ \A i \in DOMAIN answered : answered[i] \in 1..run

(* A call has been told something, and one of an unknown tool no success. *)
Suits(call, content) ==
  content \in Contents /\ (call.tool = "unknown" => content = "error")

(* Tool calls are followed by their results, one for each call, in the      *)
(* order of the calls, and there is no result without its call.             *)
CallsAnswered(msgs) ==
  /\ \A i \in DOMAIN msgs : msgs[i].role = "assistant" =>
       \A k \in DOMAIN msgs[i].body :
         /\ i + k \in DOMAIN msgs
         /\ msgs[i + k].role = "tool"
         /\ msgs[i + k].run = msgs[i].run
         /\ msgs[i + k].body[1] = msgs[i].body[k]
         /\ Suits(msgs[i].body[k], msgs[i + k].body[2])
  /\ \A i \in DOMAIN msgs : msgs[i].role = "tool" =>
       \E j \in 1..(i - 1) : msgs[j].role = "assistant" /\ i - j \in DOMAIN msgs[j].body

(* The system prompt comes first; a summary and a profile block follow it,  *)
(* each at most once, and nothing of the kind stands among the turns.       *)
SystemFirst(msgs) ==
  /\ msgs[1].role = "system"
  /\ \A i, j \in DOMAIN msgs : msgs[i].role \in SystemRoles /\ i # j =>
       i <= Leading(msgs) /\ msgs[i].role # msgs[j].role

(* Whatever was folded, trimmed, summarised, refreshed and appended: what   *)
(* the model is asked with, and what is committed, is a list a model        *)
(* accepts.  No commit keeps a profile block, which is only ever current.   *)
ProtocolKept ==
  /\ phase = "chat" => CallsAnswered(messages) /\ SystemFirst(messages)
  /\ history # <<>> => CallsAnswered(history) /\ SystemFirst(history)
  /\ \A i \in DOMAIN history : history[i].role # "profile"

(* The committed turns are those of the last answered runs, in their order, *)
(* each complete; failed runs left nothing.  Dropped ones left a summary.   *)
RecentTurns ==
  LET turns == UserTurns(history) IN
  /\ [k \in DOMAIN turns |-> turns[k][1].run] \in Suffixes(answered)
  /\ \A k \in DOMAIN turns :
       /\ IsFinal(Last(turns[k]))
       /\ \A i \in DOMAIN turns[k] : turns[k][i].run = turns[k][1].run
  /\ turns = <<>> => answered = <<>>
  /\ Len(turns) < Len(answered) => Where(history, IsSummary) # {}

(* The cap holds, but for a last turn that is longer by itself. *)
CapHolds == MaxHistoryMessages > 0 =>
  Len(history) <= MaxHistoryMessages \/ Len(UserTurns(history)) = 1

(* The summary speaks of runs that were dropped and of no others. *)
SummaryOfDropped ==
  LET kept == {m.run : m \in ToSet(history)} IN
  \A b \in ToSet(SummaryBody(history)) :
    IsFact(b) => b[2] \in ToSet(answered) \ kept

(* After any runs, answered or failed, the history is a recent part of the  *)
(* conversation within its cap, and its summary speaks of the rest.         *)
HistoryIsRecent == RecentTurns /\ CapHolds /\ SummaryOfDropped

(* A commit, with its fold, trims and summaries, keeps the turn that was    *)
(* just answered as it was, tool messages included, however short the cap:  *)
(* the next question is about it.  Nothing else changes a history but Reset. *)
NewestTurnWhole ==
  [][history' \notin {history, <<>>} =>
       /\ phase = "chat"
       /\ Last(UserTurns(history')) =
            Append(Last(UserTurns(messages)), Message("assistant", run, <<>>))]_vars

(* The newest fact survives the rolling window of the summary: the answer   *)
(* of the run dropped last is in it.                                        *)
NewestFactSurvives ==
  LET dropped == Len(answered) - Len(UserTurns(history)) IN
  dropped > 0 => \E b \in ToSet(SummaryBody(history)) :
    b = <<"assistant", answered[dropped], <<>>>>

(* Call i has been handed to a tool, or to an approver while the context    *)
(* has not ended, and that has not returned.                                *)
Hangs(i) ==
  /\ i \in DOMAIN step
  /\ step[i] = "running" \/ (step[i] = "asking" /\ ~ctxDone)

(* Every Run returns, unless one of its calls hangs for good in a tool that *)
(* never returns or, with a context that never ends, in an approver that    *)
(* never decides.  Nothing else keeps a Run: not the semaphore, not calls   *)
(* that ended, were refused or came after the end of the context.           *)
RunReturns ==
  \/ \E i \in 1..MaxCalls : <>[]Hangs(i)
  \/ []<>(phase = "idle")
=============================================================================
