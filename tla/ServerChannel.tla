---------------------------- MODULE ServerChannel ----------------------------
(***************************************************************************)
(* The agent server as its clients see it: HttpRuns with POST /v1/messages *)
(* next to POST /v1/runs, the channel that gets the user's message before  *)
(* a run and the outcome after it, and the counters of /metrics.           *)
(*                                                                         *)
(* The channel is Webhook: Send appends to a transcript and then posts,    *)
(* which takes time and may fail.  What is told about a run is the record  *)
(* as finish copied it; the one in the registry may be gone by then.       *)
(* Cancel is left out here: all it does to a run is to end its context.    *)
(***************************************************************************)
EXTENDS HttpRuns

VARIABLES
  talk,    \* Memory.msgs: [kind |-> "user" or "assistant" or "system", run |-> r]
  said,    \* the session of each message request, NoSession before
  waited,  \* history: the messages sent when every earlier one of the session had its reply
  rec,     \* the status in the copy that finish hands to OnDone
  told,    \* how far OnDone is with each run: "no", "sent", "blank"
  metrics  \* the counters of obs.Metrics

counters == {"started", "succeeded", "failed", "cancelled", "channel"}

serverVars == <<httpVars, talk, said, waited, rec, told, metrics>>

ServerInit ==
  /\ HttpInit
  /\ talk = <<>>
  /\ said = [r \in Runs |-> NoSession]
  /\ waited = {}
  /\ rec = [r \in Runs |-> "none"]
  /\ told = [r \in Runs |-> "no"]
  /\ metrics = [k \in counters |-> 0]

Counted(ks) == [k \in counters |-> metrics[k] + IF k \in ks THEN 1 ELSE 0]
----------------------------------------------------------------------------
Replied(r) == call[r] \in {"refused", "answered", "vanished"}

(* handleMessages: the message goes to the channel, whether or not the      *)
(* session is taken; an error of the channel is dropped.                    *)
Say(r, s) ==
  /\ call[r] = "none" /\ said[r] = NoSession
  /\ said' = [said EXCEPT ![r] = s]
  /\ waited' = IF \A q \in Runs : said[q] = s => Replied(q) THEN waited \cup {r} ELSE waited
  /\ talk' = Append(talk, [kind |-> "user", run |-> r])
  /\ UNCHANGED <<httpVars, rec, told, metrics>>

(* The session and the kind of a request: a message waits for its run. *)
Asks(r, s, wait) == said[r] = NoSession \/ (said[r] = s /\ wait)

(* startAgentRun counts a detached run at once, a waiting one when it       *)
(* returns, and one whose record is gone by then not at all.                *)
Accepted(r, s, wait) ==
  /\ Asks(r, s, wait)
  /\ Register(r, s, wait)
  /\ metrics' = Counted(IF wait THEN {} ELSE {"started"})
  /\ UNCHANGED <<sessions, talk, said, waited, rec, told>>

Refused(r, s) ==
  /\ Asks(r, s, TRUE)
  /\ Conflict(r, s)
  /\ UNCHANGED <<sessions, talk, said, waited, rec, told, metrics>>

Reply(r) ==
  /\ StartReturns(r)
  /\ metrics' = Counted(IF call'[r] = "answered" THEN {"started"} ELSE {})
  /\ UNCHANGED <<sessions, talk, said, waited, rec, told>>

(* finish *)
Ends(r) ==
  /\ Finish(r)
  /\ rec' = [rec EXCEPT ![r] = FinalStatus(r)]
  /\ UNCHANGED <<sessions, talk, said, waited, told, metrics>>

(* slip: the record is looked up again *)
OutcomeOnRecord(r) == byID[r]

(* What OnDone is told of a run: the copy made by finish. *)
Outcome(r) == rec[r]

(* emitChannel: the answer, or the error as a message of the system. *)
Kind(r) == IF Outcome(r) = "succeeded" THEN "assistant" ELSE "system"

(* OnDone: observe, then emitChannel up to the transcript.  Only an answer  *)
(* may be blank, and nothing is sent then.                                  *)
Tell(r) ==
  /\ exec[r] = "callback" /\ told[r] = "no"
  /\ metrics' = Counted({Outcome(r)})
  /\ \/ /\ told' = [told EXCEPT ![r] = "sent"]
        /\ talk' = Append(talk, [kind |-> Kind(r), run |-> r])
     \/ /\ Outcome(r) = "succeeded"
        /\ told' = [told EXCEPT ![r] = "blank"]
        /\ UNCHANGED talk
  /\ UNCHANGED <<httpVars, said, waited, rec>>

(* The post, which may fail: an error is counted and noted in the record.   *)
Posted(r, fails) ==
  /\ told[r] # "no" /\ (told[r] = "blank" => ~fails)
  /\ OnDone(r, fails)
  /\ metrics' = Counted(IF fails THEN {"channel"} ELSE {})
  /\ UNCHANGED <<sessions, talk, said, waited, rec, told>>

----------------------------------------------------------------------------
Delivery(r) ==
  \/ Ends(r) \/ Tell(r)
  \/ \E fails \in BOOLEAN : Posted(r, fails)
  \/ CloseDone(r) /\ UNCHANGED <<sessions, talk, said, waited, rec, told, metrics>>

ServerNext ==
  \/ \E r \in Runs, s \in Sessions :
       Say(r, s) \/ Refused(r, s) \/ \E wait \in BOOLEAN : Accepted(r, s, wait)
  \/ \E r \in Runs :
       \/ Delivery(r) \/ Reply(r)
       \/ /\ \/ Restore(r) \/ Fail(r) \/ Answer(r) \/ Succeed(r)
             \/ ContextEnds(r) /\ UNCHANGED sessions
          /\ UNCHANGED <<talk, said, waited, rec, told, metrics>>

ServerSpec == ServerInit /\ [][ServerNext]_serverVars

(* Goroutines that can step do so, and OnDone returns, because a post has a *)
(* deadline.  Nothing makes a runner return.                                *)
ServerFairness == \A r \in Runs : WF_serverVars(Delivery(r)) /\ WF_serverVars(Reply(r))

FairServerSpec == ServerSpec /\ ServerFairness

----------------------------------------------------------------------------
ServerTypeOK ==
  /\ HttpTypeOK
  /\ talk \in Seq([kind : {"user", "assistant", "system"}, run : Runs])
  /\ said \in [Runs -> Sessions \cup {NoSession}]
  /\ waited \subseteq Runs
  /\ rec \in [Runs -> {"none"} \cup Terminal]
  /\ told \in [Runs -> {"no", "sent", "blank"}]
  /\ metrics \in [counters -> Nat]

Outcomes(r) == {i \in DOMAIN talk : talk[i].run = r /\ talk[i].kind # "user"}

(* The channel is told the outcome of each run once, before its caller gets *)
(* a reply, and what it is told is true: an answer it shows is in the       *)
(* session's history unless the save failed, and after an error the session *)
(* has no such turn unless the run was cancelled late.  A run that was      *)
(* refused has no outcome.                                                  *)
ChannelTellsOnce == \A r \in Runs :
  /\ Cardinality(Outcomes(r)) <= 1
  /\ call[r] \in {"answered", "vanished"} => Outcomes(r) # {} \/ told[r] = "blank"
  /\ call[r] = "refused" => Outcomes(r) = {}
  /\ \A i \in Outcomes(r) :
       IF talk[i].kind = "assistant"
       THEN Remembers(sess[r], r) \/ r \in forgotten
       ELSE Remembers(sess[r], r) => rec[r] = "cancelled"

(* A client that sends its next message when it has the reply to the last   *)
(* reads a conversation: between the two messages stands the outcome of the *)
(* first, unless it was refused or its answer was blank.  Clients that do   *)
(* not wait, or a run of another request, may get theirs in any order: the  *)
(* session is free before the channel has been told.                        *)
WaitingClientReadsInOrder == \A i, j \in DOMAIN talk :
  /\ i < j
  /\ talk[i].kind = "user" /\ talk[j].kind = "user"
  /\ talk[j].run \in waited /\ said[talk[i].run] = said[talk[j].run]
  => \/ call[talk[i].run] = "refused" \/ told[talk[i].run] = "blank"
     \/ \E k \in Outcomes(talk[i].run) : i < k /\ k < j

(* The counters of /metrics add up when nothing is under way: every run     *)
(* that was counted as started is counted as ended.  Runs that vanished     *)
(* under their waiting caller are counted as ended only.                    *)
CountersAddUp ==
  (\A r \in Runs : exec[r] \in {"none", "done"} /\ call[r] # "waiting") =>
    metrics["started"] + Cardinality({r \in Runs : call[r] = "vanished"})
      = metrics["succeeded"] + metrics["failed"] + metrics["cancelled"]
=============================================================================
