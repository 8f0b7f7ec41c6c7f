----------------------------- MODULE ApprovalPark -----------------------------
(***************************************************************************)
(* httpapi.Park: a tool call that needs approval waits in Approve for one  *)
(* of three things, a decision posted by an HTTP client (Decide), the end  *)
(* of its run's context, or its deadline.  Go's select takes any of them   *)
(* that is ready.                                                          *)
(*                                                                         *)
(* Park.mu covers the insertion, the removal by Decide and the removal by  *)
(* drop; Decide checks the deadline and sends after it has unlocked.  The  *)
(* notification callbacks of Approve change nothing here: a decision may   *)
(* arrive while they run, before the select.                               *)
(***************************************************************************)
EXTENDS FiniteSets

CONSTANTS
  Asks,     \* approval ids, one for each call of Approve
  Clients,  \* the callers of Decide (POST /v1/approvals/{id})
  NoAsk     \* a client that is not deciding

ASSUME AsksAssumption == NoAsk \notin Asks

VARIABLES
  wait,     \* the domain of Park.wait
  ask,      \* where each Approve stands, and what it returned
  ch,       \* its channel, of capacity one
  overdue,  \* the asks whose deadline has passed
  ctxDone,  \* the asks whose context is done
  step,     \* where each client's Decide stands
  about,    \* the id it took from the map
  verdict,  \* the decision it carries
  accepted  \* history: the answers Decide confirmed, as <<id, decision>>

clients == <<step, about, verdict>>
vars    == <<wait, ask, ch, overdue, ctxDone, clients, accepted>>

Decision == {"allow", "deny"}
Ended    == {"allow", "deny", "cancelled", "expired"}

Init ==
  /\ wait = {}
  /\ ask = [a \in Asks |-> "none"]
  /\ ch = [a \in Asks |-> "empty"]
  /\ overdue = {}
  /\ ctxDone = {}
  /\ step = [c \in Clients |-> "idle"]
  /\ about = [c \in Clients |-> NoAsk]
  /\ verdict = [c \in Clients |-> "deny"]
  /\ accepted = {}

----------------------------------------------------------------------------
(* Approve *)

Park(a) ==
  /\ ask[a] = "none"
  /\ ask' = [ask EXCEPT ![a] = "parked"]
  /\ wait' = wait \cup {a}
  /\ UNCHANGED <<ch, overdue, ctxDone, clients, accepted>>

ContextEnds(a) ==
  /\ ask[a] = "parked"
  /\ ctxDone' = ctxDone \cup {a}
  /\ UNCHANGED <<wait, ask, ch, overdue, clients, accepted>>

DeadlinePasses(a) ==
  /\ ask[a] = "parked"
  /\ overdue' = overdue \cup {a}
  /\ UNCHANGED <<wait, ask, ch, ctxDone, clients, accepted>>

SelectContext(a) ==
  /\ ask[a] = "parked"
  /\ a \in ctxDone
  /\ ask' = [ask EXCEPT ![a] = "leaving cancelled"]
  /\ UNCHANGED <<wait, ch, overdue, ctxDone, clients, accepted>>

(* slip: expiry is a matter of the entry in the map *)
ExpiredInMap(a) == a \in overdue /\ a \in wait

(* The timer of Approve has fired. *)
Expired(a) == a \in overdue

SelectTimer(a) ==
  /\ ask[a] = "parked"
  /\ Expired(a)
  /\ ask' = [ask EXCEPT ![a] = "leaving expired"]
  /\ UNCHANGED <<wait, ch, overdue, ctxDone, clients, accepted>>

(* The receive of Approve's select is ready. *)
Selectable(a) == ch[a] # "empty"

SelectDecision(a) ==
  /\ ask[a] = "parked"
  /\ Selectable(a)
  /\ ask' = [ask EXCEPT ![a] = ch[a]]
  /\ ch' = [ch EXCEPT ![a] = "empty"]
  /\ UNCHANGED <<wait, overdue, ctxDone, clients, accepted>>

(* slip: the entry stays when the wait is given up *)
DropNothing(a) == UNCHANGED wait

DropEntry(a) == wait' = wait \ {a}

(* slip: an approval nobody answered is let through *)
GivenUpOpen(a) == IF ask[a] = "leaving cancelled" THEN "cancelled" ELSE "allow"

(* What Approve returns without a decision: false, with one of two errors. *)
GivenUp(a) == IF ask[a] = "leaving cancelled" THEN "cancelled" ELSE "expired"

(* drop and the return with false. *)
Leave(a) ==
  /\ ask[a] \in {"leaving cancelled", "leaving expired"}
  /\ DropEntry(a)
  /\ ask' = [ask EXCEPT ![a] = GivenUp(a)]
  /\ UNCHANGED <<ch, overdue, ctxDone, clients, accepted>>

----------------------------------------------------------------------------
(* Decide.  An id that is not in the map is an error and changes nothing. *)

(* slip: the entry is looked up and stays *)
TakeShared(a) == UNCHANGED wait

TakeEntry(a) == wait' = wait \ {a}

DecideTakes(c, a, d) ==
  /\ step[c] = "idle"
  /\ a \in wait
  /\ TakeEntry(a)
  /\ step' = [step EXCEPT ![c] = "taken"]
  /\ about' = [about EXCEPT ![c] = a]
  /\ verdict' = [verdict EXCEPT ![c] = d]
  /\ UNCHANGED <<ask, ch, overdue, ctxDone, accepted>>

(* time.Now().After(pend.deadline), after the unlock. *)
InTime(a) == a \notin overdue

DecideExpires(c) ==
  /\ step[c] = "taken"
  /\ ~InTime(about[c])
  /\ step' = [step EXCEPT ![c] = "idle"]
  /\ about' = [about EXCEPT ![c] = NoAsk]
  /\ verdict' = [verdict EXCEPT ![c] = "deny"]
  /\ UNCHANGED <<wait, ask, ch, overdue, ctxDone, accepted>>

DecideInTime(c) ==
  /\ step[c] = "taken"
  /\ InTime(about[c])
  /\ step' = [step EXCEPT ![c] = "sending"]
  /\ UNCHANGED <<wait, ask, ch, overdue, ctxDone, about, verdict, accepted>>

(* slip: an unbuffered channel, whose send waits for the select *)
RoomUnbuffered(a) == ask[a] = "parked" /\ ch[a] = "empty"

(* The channel has room for one value. *)
Room(a) == ch[a] = "empty"

DecideSends(c) ==
  /\ step[c] = "sending"
  /\ Room(about[c])
  /\ ch' = [ch EXCEPT ![about[c]] = verdict[c]]
  /\ accepted' = accepted \cup {<<about[c], verdict[c]>>}
  /\ step' = [step EXCEPT ![c] = "idle"]
  /\ about' = [about EXCEPT ![c] = NoAsk]
  /\ verdict' = [verdict EXCEPT ![c] = "deny"]
  /\ UNCHANGED <<wait, ask, overdue, ctxDone>>

----------------------------------------------------------------------------
ApproveStep(a) == SelectContext(a) \/ SelectTimer(a) \/ SelectDecision(a) \/ Leave(a)
DecideStep(c)  == DecideExpires(c) \/ DecideInTime(c) \/ DecideSends(c)

Next ==
  \/ \E a \in Asks : Park(a) \/ ContextEnds(a) \/ DeadlinePasses(a) \/ ApproveStep(a)
  \/ \E c \in Clients :
       DecideStep(c) \/ \E a \in Asks, d \in Decision : DecideTakes(c, a, d)

Spec == Init /\ [][Next]_vars

(* Time passes, and calls under way continue; nobody has to decide. *)
Fairness ==
  /\ \A a \in Asks : WF_vars(DeadlinePasses(a)) /\ WF_vars(ApproveStep(a))
  /\ \A c \in Clients : WF_vars(DecideStep(c))

FairSpec == Spec /\ Fairness

----------------------------------------------------------------------------
TypeOK ==
  /\ wait \subseteq Asks
  /\ ask \in [Asks -> {"none", "parked", "leaving cancelled", "leaving expired"} \cup Ended]
  /\ ch \in [Asks -> {"empty"} \cup Decision]
  /\ overdue \subseteq Asks
  /\ ctxDone \subseteq Asks
  /\ step \in [Clients -> {"idle", "taken", "sending"}]
  /\ about \in [Clients -> Asks \cup {NoAsk}]
  /\ verdict \in [Clients -> Decision]
  /\ accepted \subseteq Asks \X Decision

(* A tool call is let through only by a client whose "allow" for this id    *)
(* was confirmed; not by a late one, an expiry or a cancellation.           *)
AllowIsDecided == \A a \in Asks : ask[a] = "allow" => <<a, "allow">> \in accepted

(* Decide confirms one answer for an id, however many clients post: two     *)
(* operators never both read ok for opposite decisions.                     *)
OneAnswer == \A a \in Asks, d, e \in Decision :
  <<a, d>> \in accepted /\ <<a, e>> \in accepted => d = e

(* The send in Decide never blocks: whoever reaches it finds the channel    *)
(* empty and is alone, also when Approve has given up.                      *)
SendNeverBlocks ==
  \A c \in Clients : step[c] = "sending" =>
    /\ Room(about[c])
    /\ \A b \in Clients \ {c} : step[b] = "sending" => about[b] # about[c]

(* An Approve that has returned leaves no entry in the map. *)
NoEntryLeft == \A a \in Asks : ask[a] \in Ended => a \notin wait

(* A confirmed decision is what Approve returns, unless its deadline or its *)
(* context came first: then select may take that instead, although the      *)
(* client was told ok.                                                      *)
DecisionStands == \A a \in Asks, d \in Decision :
  <<a, d>> \in accepted /\ ask[a] \in Ended /\ ask[a] # d =>
    \/ ask[a] = "expired" /\ a \in overdue
    \/ ask[a] = "cancelled" /\ a \in ctxDone

(* Every Approve returns, decided or not, also when a Decide has taken its  *)
(* entry and found it overdue: the tool call never hangs.                   *)
AskEnds == \A a \in Asks : ask[a] = "parked" ~> ask[a] \in Ended
=============================================================================
