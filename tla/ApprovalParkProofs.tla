-------------------------- MODULE ApprovalParkProofs --------------------------
(***************************************************************************)
(* Theorems about ApprovalPark.  An approval belongs at any time to the    *)
(* map, to one client that took it from there, or to its confirmed answer; *)
(* each of the three excludes the others, and the channel holds a value    *)
(* only for an answer that Approve has not read.                           *)
(***************************************************************************)
EXTENDS ApprovalPark, TLAPS

Waiting == {"parked", "leaving cancelled", "leaving expired"}
Busy(c) == step[c] # "idle"

(* An entry in the map: nobody has answered, and Approve will remove it. *)
EntryInv == \A a \in wait :
  /\ ask[a] \in Waiting
  /\ ch[a] = "empty"
  /\ \A d \in Decision : <<a, d>> \notin accepted

(* A client that took an entry is alone with it. *)
HolderInv == \A c \in Clients : Busy(c) =>
  /\ about[c] \in Asks \ wait
  /\ ask[about[c]] # "none"
  /\ ch[about[c]] = "empty"
  /\ \A d \in Decision : <<about[c], d>> \notin accepted
  /\ \A b \in Clients : Busy(b) /\ about[b] = about[c] => b = c

(* A confirmed answer is in the channel until Approve returns it. *)
AnswerInv == \A a \in Asks :
  /\ ch[a] # "empty" => <<a, ch[a]>> \in accepted
  /\ ask[a] \in Decision => <<a, ask[a]>> \in accepted
  /\ \A d \in Decision : <<a, d>> \in accepted =>
       /\ ask[a] # "none"
       /\ ask[a] \in Decision => ask[a] = d
       /\ ask[a] \notin Decision => ch[a] = d

(* Approve gives up for a reason. *)
CauseInv == \A a \in Asks :
  /\ ask[a] \in {"leaving cancelled", "cancelled"} => a \in ctxDone
  /\ ask[a] \in {"leaving expired", "expired"} => a \in overdue

IInv == TypeOK /\ EntryInv /\ HolderInv /\ AnswerInv /\ CauseInv

----------------------------------------------------------------------------
(* The invariant holds when the park is created. *)
LEMMA InitInv == Init => IInv
BY AsksAssumption
   DEF Init, IInv, TypeOK, EntryInv, HolderInv, AnswerInv, CauseInv, Busy, Decision, Ended,
       Waiting

(* The steps of Approve preserve the invariant. *)
LEMMA ApproveInv == IInv /\ (\E a \in Asks :
  Park(a) \/ ContextEnds(a) \/ DeadlinePasses(a) \/ ApproveStep(a)) => IInv'
<1>a. SUFFICES ASSUME IInv, NEW a \in Asks,
                      Park(a) \/ ContextEnds(a) \/ DeadlinePasses(a) \/ ApproveStep(a)
               PROVE IInv'
  OBVIOUS
<1>1. CASE Park(a)
  <2>1. a \notin wait /\ ch[a] = "empty" /\ \A d \in Decision : <<a, d>> \notin accepted
    BY <1>a, <1>1 DEF IInv, EntryInv, AnswerInv, TypeOK, Park, Waiting, Decision
  <2>2. \A c \in Clients : Busy(c) => about[c] # a
    BY <1>a, <1>1 DEF IInv, HolderInv, Park
  <2>3. TypeOK'
    BY <1>a, <1>1, <2>1, <2>2 DEF IInv, TypeOK, Decision, Ended, Park, clients
  <2>4. EntryInv'
    BY <1>a, <1>1, <2>1, <2>2 DEF IInv, EntryInv, TypeOK, Waiting, Park, clients
  <2>5. HolderInv'
    BY <1>a, <1>1, <2>1, <2>2 DEF IInv, HolderInv, TypeOK, Busy, Park, clients
  <2>6. AnswerInv'
    BY <1>a, <1>1, <2>1, <2>2 DEF IInv, AnswerInv, TypeOK, Decision, Ended, Park, clients
  <2>7. CauseInv'
    BY <1>a, <1>1, <2>1, <2>2 DEF IInv, CauseInv, TypeOK, Decision, Park, clients
  <2> QED
    BY <2>3, <2>4, <2>5, <2>6, <2>7 DEF IInv
<1>2. CASE ContextEnds(a)
  BY <1>a, <1>2
     DEF IInv, TypeOK, EntryInv, HolderInv, AnswerInv, CauseInv, Busy, ContextEnds, clients
<1>3. CASE DeadlinePasses(a)
  BY <1>a, <1>3
     DEF IInv, TypeOK, EntryInv, HolderInv, AnswerInv, CauseInv, Busy, DeadlinePasses, clients
<1>4. CASE SelectContext(a)
  <2>1. TypeOK'
    BY <1>a, <1>4 DEF IInv, TypeOK, Decision, Ended, SelectContext, clients
  <2>2. EntryInv'
    BY <1>a, <1>4 DEF IInv, EntryInv, TypeOK, Waiting, SelectContext, clients
  <2>3. HolderInv'
    BY <1>a, <1>4 DEF IInv, HolderInv, TypeOK, Busy, SelectContext, clients
  <2>4. AnswerInv'
    BY <1>a, <1>4 DEF IInv, AnswerInv, TypeOK, Decision, Ended, SelectContext, clients
  <2>5. CauseInv'
    BY <1>a, <1>4 DEF IInv, CauseInv, TypeOK, Decision, SelectContext, clients
  <2> QED
    BY <2>1, <2>2, <2>3, <2>4, <2>5 DEF IInv
<1>5. CASE SelectTimer(a)
  <2>1. TypeOK'
    BY <1>a, <1>5 DEF IInv, TypeOK, Decision, Ended, SelectTimer, Expired, clients
  <2>2. EntryInv'
    BY <1>a, <1>5 DEF IInv, EntryInv, TypeOK, Waiting, SelectTimer, Expired, clients
  <2>3. HolderInv'
    BY <1>a, <1>5 DEF IInv, HolderInv, TypeOK, Busy, SelectTimer, Expired, clients
  <2>4. AnswerInv'
    BY <1>a, <1>5 DEF IInv, AnswerInv, TypeOK, Decision, Ended, SelectTimer, Expired, clients
  <2>5. CauseInv'
    BY <1>a, <1>5 DEF IInv, CauseInv, TypeOK, Decision, SelectTimer, Expired, clients
  <2> QED
    BY <2>1, <2>2, <2>3, <2>4, <2>5 DEF IInv
<1>6. CASE SelectDecision(a)
  <2>1. ch[a] \in Decision /\ <<a, ch[a]>> \in accepted
    BY <1>a, <1>6 DEF IInv, TypeOK, AnswerInv, SelectDecision, Selectable
  <2>2. a \notin wait /\ \A c \in Clients : Busy(c) => about[c] # a
    BY <1>a, <2>1 DEF IInv, EntryInv, HolderInv
  <2>3. TypeOK'
    BY <1>a, <1>6, <2>1, <2>2 DEF IInv, TypeOK, Decision, Ended, SelectDecision, clients
  <2>4. EntryInv'
    BY <1>a, <1>6, <2>1, <2>2 DEF IInv, EntryInv, TypeOK, Waiting, SelectDecision, clients
  <2>5. HolderInv'
    BY <1>a, <1>6, <2>1, <2>2 DEF IInv, HolderInv, TypeOK, Busy, SelectDecision, clients
  <2>6. AnswerInv'
    BY <1>a, <1>6, <2>1, <2>2 DEF IInv, AnswerInv, TypeOK, Decision, Ended, SelectDecision, clients
  <2>7. CauseInv'
    BY <1>a, <1>6, <2>1, <2>2 DEF IInv, CauseInv, TypeOK, Decision, SelectDecision, clients
  <2> QED
    BY <2>3, <2>4, <2>5, <2>6, <2>7 DEF IInv
<1>7. CASE Leave(a)
  <2>1. TypeOK'
    BY <1>a, <1>7 DEF IInv, TypeOK, Decision, Ended, Leave, DropEntry, GivenUp, clients
  <2>2. EntryInv'
    BY <1>a, <1>7 DEF IInv, EntryInv, TypeOK, Waiting, Leave, DropEntry, GivenUp, clients
  <2>3. HolderInv'
    BY <1>a, <1>7 DEF IInv, HolderInv, TypeOK, Busy, Leave, DropEntry, GivenUp, clients
  <2>4. AnswerInv'
    BY <1>a, <1>7 DEF IInv, AnswerInv, TypeOK, Decision, Ended, Leave, DropEntry, GivenUp, clients
  <2>5. CauseInv'
    BY <1>a, <1>7 DEF IInv, CauseInv, TypeOK, Decision, Leave, DropEntry, GivenUp, clients
  <2> QED
    BY <2>1, <2>2, <2>3, <2>4, <2>5 DEF IInv
<1> QED
  BY <1>a, <1>1, <1>2, <1>3, <1>4, <1>5, <1>6, <1>7 DEF ApproveStep

(* The steps of Decide preserve the invariant. *)
LEMMA DecideInv == IInv /\ (\E c \in Clients :
  DecideStep(c) \/ \E a \in Asks, d \in Decision : DecideTakes(c, a, d)) => IInv'
<1>a. SUFFICES ASSUME IInv, NEW c \in Clients,
                      DecideStep(c) \/ \E a \in Asks, d \in Decision : DecideTakes(c, a, d)
               PROVE IInv'
  OBVIOUS
<1>1. CASE \E a \in Asks, d \in Decision : DecideTakes(c, a, d)
  <2>a. PICK a \in Asks, d \in Decision : DecideTakes(c, a, d)
    BY <1>1
  <2>1. \A b \in Clients : Busy(b) => about[b] # a
    BY <1>a, <2>a DEF IInv, HolderInv, DecideTakes
  <2>2. TypeOK'
    BY <1>a, <2>a, <2>1 DEF IInv, TypeOK, Decision, Ended, DecideTakes, TakeEntry
  <2>3. EntryInv'
    BY <1>a, <2>a, <2>1 DEF IInv, EntryInv, TypeOK, Waiting, DecideTakes, TakeEntry
  <2>4. HolderInv'
    <3>1. /\ about'[c] = a /\ a \in Asks \ wait' /\ ask[a] # "none" /\ ch[a] = "empty"
          /\ \A e \in Decision : <<a, e>> \notin accepted
      BY <1>a, <2>a DEF IInv, EntryInv, TypeOK, Waiting, DecideTakes, TakeEntry
    <3>2. \A b \in Clients \ {c} : about'[b] = about[b] /\ (Busy(b)' <=> Busy(b))
      BY <1>a, <2>a DEF IInv, TypeOK, Busy, DecideTakes
    <3>3. wait' \subseteq wait /\ UNCHANGED <<ask, ch, accepted>>
      BY <2>a DEF DecideTakes, TakeEntry
    <3> QED
      BY <1>a, <2>1, <3>1, <3>2, <3>3 DEF IInv, HolderInv
  <2>5. AnswerInv'
    BY <1>a, <2>a, <2>1 DEF IInv, AnswerInv, TypeOK, Decision, Ended, DecideTakes, TakeEntry
  <2>6. CauseInv'
    BY <1>a, <2>a, <2>1 DEF IInv, CauseInv, TypeOK, Decision, DecideTakes, TakeEntry
  <2> QED
    BY <2>2, <2>3, <2>4, <2>5, <2>6 DEF IInv
<1>2. CASE DecideExpires(c)
  <2>1. TypeOK'
    BY <1>a, <1>2 DEF IInv, TypeOK, Decision, Ended, DecideExpires
  <2>2. EntryInv'
    BY <1>a, <1>2 DEF IInv, EntryInv, TypeOK, Waiting, DecideExpires
  <2>3. HolderInv'
    BY <1>a, <1>2 DEF IInv, HolderInv, TypeOK, Busy, DecideExpires
  <2>4. AnswerInv'
    BY <1>a, <1>2 DEF IInv, AnswerInv, TypeOK, Decision, Ended, DecideExpires
  <2>5. CauseInv'
    BY <1>a, <1>2 DEF IInv, CauseInv, TypeOK, Decision, DecideExpires
  <2> QED
    BY <2>1, <2>2, <2>3, <2>4, <2>5 DEF IInv
<1>3. CASE DecideInTime(c)
  <2>1. TypeOK'
    BY <1>a, <1>3 DEF IInv, TypeOK, Decision, Ended, DecideInTime
  <2>2. EntryInv'
    BY <1>a, <1>3 DEF IInv, EntryInv, TypeOK, Waiting, DecideInTime
  <2>3. HolderInv'
    BY <1>a, <1>3 DEF IInv, HolderInv, TypeOK, Busy, DecideInTime
  <2>4. AnswerInv'
    BY <1>a, <1>3 DEF IInv, AnswerInv, TypeOK, Decision, Ended, DecideInTime
  <2>5. CauseInv'
    BY <1>a, <1>3 DEF IInv, CauseInv, TypeOK, Decision, DecideInTime
  <2> QED
    BY <2>1, <2>2, <2>3, <2>4, <2>5 DEF IInv
<1>4. CASE DecideSends(c)
  <2>1. PICK a \in Asks : a = about[c]
    BY <1>a, <1>4 DEF IInv, HolderInv, Busy, DecideSends
  <2>2. /\ a \notin wait /\ ask[a] # "none" /\ ch[a] = "empty"
        /\ \A d \in Decision : <<a, d>> \notin accepted
        /\ ask[a] \notin Decision
        /\ \A b \in Clients : Busy(b) /\ about[b] = a => b = c
    BY <1>a, <1>4, <2>1 DEF IInv, HolderInv, AnswerInv, Busy, DecideSends
  <2>3. TypeOK'
    <3>1. <<a, verdict[c]>> \in Asks \X Decision /\ "deny" \in Decision
      BY <1>a DEF IInv, TypeOK, Decision
    <3>2. accepted' \subseteq Asks \X Decision
      BY <1>a, <1>4, <2>1, <3>1 DEF IInv, TypeOK, DecideSends
    <3> QED
      BY <1>a, <1>4, <2>1, <3>1, <3>2 DEF IInv, TypeOK, DecideSends
  <2>4. EntryInv'
    BY <1>a, <1>4, <2>1, <2>2 DEF IInv, EntryInv, TypeOK, Waiting, DecideSends
  <2>5. HolderInv'
    BY <1>a, <1>4, <2>1, <2>2 DEF IInv, HolderInv, TypeOK, Busy, DecideSends
  <2>6. AnswerInv'
    BY <1>a, <1>4, <2>1, <2>2 DEF IInv, AnswerInv, TypeOK, Decision, Ended, DecideSends
  <2>7. CauseInv'
    BY <1>a, <1>4, <2>1, <2>2 DEF IInv, CauseInv, TypeOK, Decision, DecideSends
  <2> QED
    BY <2>3, <2>4, <2>5, <2>6, <2>7 DEF IInv
<1> QED
  BY <1>a, <1>1, <1>2, <1>3, <1>4 DEF DecideStep

(* The inductive invariant holds in every reachable state of the park. *)
THEOREM Invariance == Spec => []IInv
<1>1. IInv /\ [Next]_vars => IInv'
  <2>1. IInv /\ UNCHANGED vars => IInv'
    <3>a. SUFFICES ASSUME IInv, UNCHANGED vars PROVE IInv'
      OBVIOUS
    <3>1. TypeOK' /\ EntryInv' /\ CauseInv'
      BY <3>a DEF IInv, TypeOK, EntryInv, CauseInv, vars, clients
    <3>2. HolderInv'
      BY <3>a DEF IInv, HolderInv, Busy, vars, clients
    <3>3. AnswerInv'
      BY <3>a DEF IInv, AnswerInv, vars, clients
    <3> QED
      BY <3>1, <3>2, <3>3 DEF IInv
  <2> QED
    BY <2>1, ApproveInv, DecideInv DEF Next
<1> QED
  BY <1>1, InitInv, PTL DEF Spec

----------------------------------------------------------------------------
(* The variables keep their types: the channel holds one decision. *)
THEOREM TypeCorrect == Spec => []TypeOK
<1>1. IInv => TypeOK
  BY DEF IInv
<1> QED
  BY <1>1, Invariance, PTL

(* Park lets a tool call through only after a confirmed "allow" for its id. *)
THEOREM NoUnaskedAllow == Spec => []AllowIsDecided
<1>1. IInv => AllowIsDecided
  BY DEF IInv, AnswerInv, AllowIsDecided, Decision
<1> QED
  BY <1>1, Invariance, PTL

(* Decide confirms one answer for an approval, however many clients post. *)
THEOREM AnsweredOnce == Spec => []OneAnswer
<1>1. IInv => OneAnswer
  BY DEF IInv, AnswerInv, OneAnswer
<1> QED
  BY <1>1, Invariance, PTL

(* Decide's send finds the channel empty, with no other client sending. *)
THEOREM SendIsReady == Spec => []SendNeverBlocks
<1>1. IInv => SendNeverBlocks
  BY DEF IInv, HolderInv, Busy, SendNeverBlocks, Room
<1> QED
  BY <1>1, Invariance, PTL

(* The map holds no entry of an Approve that has returned. *)
THEOREM MapIsClean == Spec => []NoEntryLeft
<1>1. IInv => NoEntryLeft
  BY DEF IInv, EntryInv, NoEntryLeft, Waiting, Ended
<1> QED
  BY <1>1, Invariance, PTL

(* A confirmed decision is returned, unless deadline or context were first. *)
THEOREM DecisionHonoured == Spec => []DecisionStands
<1>1. IInv => DecisionStands
  BY DEF IInv, AnswerInv, CauseInv, DecisionStands, Ended, Decision
<1> QED
  BY <1>1, Invariance, PTL
=============================================================================
