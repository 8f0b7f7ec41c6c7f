------------------------------- MODULE HttpRuns -------------------------------
(***************************************************************************)
(* POST /v1/runs and /v1/messages: the registry of RunRegistry with the    *)
(* runner that startAgentRun gives it.  The runner builds an agent for the *)
(* run, loads the session's history from the store, works on the copy, and *)
(* a run that gets its answer saves the longer history back.  The store    *)
(* itself has no versions and no compare-and-swap: that no turn is lost is *)
(* the registry's doing.                                                   *)
(*                                                                         *)
(* A history is the sequence of the runs whose turns it holds; folding and *)
(* trimming of old turns is left out.  A Save is one step: File.Save       *)
(* renames a complete temporary file into place under the path's lock.     *)
(***************************************************************************)
EXTENDS RunRegistry, Sequences

VARIABLES
  agent,     \* where the runner of each run stands
  local,     \* the history its agent holds
  hist,      \* the session store
  forgotten  \* history: the runs whose Save failed, which is only logged

sessions == <<agent, local, hist, forgotten>>
httpVars == <<vars, sessions>>

HttpInit ==
  /\ Init
  /\ agent = [r \in Runs |-> "none"]
  /\ local = [r \in Runs |-> <<>>]
  /\ hist = [s \in Sessions |-> <<>>]
  /\ forgotten = {}

----------------------------------------------------------------------------
(* RestoreSession.  The store does not look at the context. *)
Restore(r) ==
  /\ exec[r] = "running"
  /\ agent[r] = "none"
  /\ agent' = [agent EXCEPT ![r] = "restored"]
  /\ local' = [local EXCEPT ![r] = hist[sess[r]]]
  /\ UNCHANGED <<vars, hist, forgotten>>

(* slip: an error after the save still fails the run *)
MayFailLate(r) == TRUE

(* No agent, a store that cannot be read, a chat that fails, a context that *)
(* has ended, too many turns: each is before the history is committed.      *)
MayFail(r) == agent[r] # "committed"

Fail(r) ==
  /\ MayFail(r)
  /\ RunnerReturns(r, TRUE)
  /\ agent' = [agent EXCEPT ![r] = "failed"]
  /\ UNCHANGED <<local, hist, forgotten>>

(* slip: the agent starts without the history *)
CommitFresh(r) == hist' = [hist EXCEPT ![sess[r]] = <<r>>]

(* commitHistory: the history of the session becomes what the agent loaded  *)
(* and the turn of this run.                                                *)
Commit(r) == hist' = [hist EXCEPT ![sess[r]] = Append(local[r], r)]

Answer(r) ==
  /\ exec[r] = "running"
  /\ agent[r] = "restored"
  /\ agent' = [agent EXCEPT ![r] = "committed"]
  /\ local' = [local EXCEPT ![r] = Append(@, r)]
  /\ \/ Commit(r) /\ forgotten' = forgotten
     \/ UNCHANGED hist /\ forgotten' = forgotten \cup {r}
  /\ UNCHANGED vars

(* The runner returns the answer; nothing looks at the context any more.    *)
Succeed(r) ==
  /\ agent[r] = "committed"
  /\ RunnerReturns(r, FALSE)
  /\ UNCHANGED sessions

----------------------------------------------------------------------------
(* The steps of the registry other than the runner's return. *)
Around ==
  \/ \E r \in Runs, s \in Sessions :
       Conflict(r, s) \/ \E wait \in BOOLEAN : Register(r, s, wait)
  \/ \E r \in Runs : ContextEnds(r) \/ Goroutine(r) \/ StartReturns(r)
  \/ \E c \in Clients :
       CancelFires(c) \/ CancelReturns(c) \/ \E r \in Runs : CancelLooks(c, r)

HttpNext ==
  \/ Around /\ UNCHANGED sessions
  \/ \E r \in Runs : Restore(r) \/ Fail(r) \/ Answer(r) \/ Succeed(r)

HttpSpec == HttpInit /\ [][HttpNext]_httpVars

----------------------------------------------------------------------------
HttpTypeOK ==
  /\ TypeOK
  /\ agent \in [Runs -> {"none", "restored", "committed", "failed"}]
  /\ local \in [Runs -> Seq(Runs)]
  /\ hist \in [Sessions -> Seq(Runs)]
  /\ forgotten \subseteq Runs

(* No turn is ever lost from a session: whatever a save writes begins with  *)
(* what is stored, although load and save are far apart and unguarded.      *)
HistoryOnlyGrows ==
  [][\A s \in Sessions :
       /\ Len(hist[s]) <= Len(hist'[s])
       /\ \A i \in DOMAIN hist[s] : hist'[s][i] = hist[s][i]]_httpVars

Remembers(s, r) == \E i \in DOMAIN hist[s] : hist[s][i] = r

(* A run on record as succeeded is in its session's history, unless the     *)
(* save failed; a run on record as failed is not.  A cancelled run may be   *)
(* either: a cancellation that comes after the commit does not undo it.     *)
RecordMatchesHistory == \A r \in Runs :
  /\ byID[r] = "succeeded" => Remembers(sess[r], r) \/ r \in forgotten
  /\ byID[r] = "failed" => ~ Remembers(sess[r], r)

(* The turns of a session follow the order in which its runs finished: what *)
(* the user was answered first stands first.                                *)
HistoryInOrder == \A s \in Sessions : \A i, j \in DOMAIN hist[s] :
  i < j => Finished(hist[s][i]) /\ hist[s][i] # hist[s][j]
=============================================================================
