---------------------------- MODULE McpClientProofs ----------------------------
(***************************************************************************)
(* Proofs about McpClient, for any number of tool calls and pipes of any   *)
(* size.  What makes an answer find its own call is spread over both       *)
(* processes: an id is given once, every message in a pipe or in someone's *)
(* hands carries the id of the call it is about, and an entry of pending   *)
(* is there only while its call still wants an answer.                     *)
(***************************************************************************)
EXTENDS McpClient, FiniteSetTheorems, TLAPS

Steps == {"none", "entered", "writing", "failing", "waiting", "leaving", "done"}

(* The calls that wait for an answer or are about to take it. *)
Open(c) == pc[c] \in {"writing", "failing", "waiting", "leaving"}

(* Requests, and the answers to them: the id is the one of the call. *)
Requests == {m \in [id : Ids, call : Calls] : id[m.call] = m.id}

Given == {c \in Calls : id[c] # 0}

CallType ==
  /\ phase \in {"dial", "greet", "greeting", "list", "open", "failed"}
  /\ pc \in [Calls -> Steps]
  /\ id \in [Calls -> Ids \cup {0}]
  /\ nextID \in Ids \cup {0}
  /\ pending \in [Ids -> Calls \cup {NoCall}]
  /\ result \in [Calls -> Calls \cup {NoCall, Broken}]
  /\ ctxDone \subseteq Calls
  /\ writer \in Calls \cup {NoCall}
  /\ reader \in {"reading", "holding", "failing", "gone"}
  /\ server \in {"idle", "busy", "replying", "dead"}
  /\ closing \in {"open", "begun", "ended"}

(* An id is given once, and only to calls that have begun. *)
IdInv ==
  /\ nextID = Cardinality(Given)
  /\ \A c \in Calls : id[c] <= nextID
  /\ \A c \in Calls : pc[c] = "none" => id[c] = 0
  /\ \A c \in Calls : pc[c] = "entered" \/ Open(c) => id[c] # 0
  /\ \A c, d \in Calls : id[c] = id[d] /\ id[c] # 0 => c = d

(* What is in the pipes, and in the hands of the read loop and the server,  *)
(* is about the call whose id it carries.                                   *)
PipeInv ==
  /\ toServer \in Seq(Requests \cup {Notice})
  /\ toClient \in Seq(Requests)
  /\ reader = "holding" => got \in Requests
  /\ server = "busy" => job \in Requests

(* Of the answers a call has received or returned, too. *)
InboxInv == \A c \in Calls :
  /\ inbox[c] \in {<<>>, <<c>>, <<Broken>>}
  /\ pc[c] \in {"none", "entered"} => inbox[c] = <<>>
  /\ result[c] \in {c, Broken, NoCall}

IInv ==
  /\ CallType /\ inbox \in [Calls -> {<<>>} \cup {<<v>> : v \in Calls \cup {Broken}}]
  /\ IdInv /\ PipeInv /\ InboxInv /\ PendingIsLive

----------------------------------------------------------------------------
(* There are finitely many calls. *)
LEMMA CallsFinite == IsFiniteSet(Calls) /\ Cardinality(Calls) \in Nat
<1>1. Calls = (ToolCalls \cup {Hello}) \cup {List}
  BY DEF Calls
<1>2. IsFiniteSet(ToolCalls \cup {Hello})
  BY CallsAssumption, FS_AddElement
<1>3. IsFiniteSet(Calls)
  BY <1>1, <1>2, FS_AddElement
<1> QED
  BY <1>3, FS_CardinalityType

(* A call that begins finds an id nobody has. *)
LEMMA FreshIdFree ==
  ASSUME IInv, NEW c \in Calls, pc[c] = "none"
  PROVE  /\ FreshId \in Ids /\ FreshId # 0
         /\ \A d \in Calls : id[d] # FreshId
         /\ \A i \in Ids : i = FreshId => pending[i] = NoCall
         /\ Cardinality(Given \cup {c}) = nextID + 1
<1>1. c \notin Given /\ Given \subseteq Calls /\ c \in Calls
  BY DEF IInv, IdInv, Given
<1>2. IsFiniteSet(Given) /\ IsFiniteSet(Given \cup {c})
  BY <1>1, CallsFinite, FS_Subset, FS_AddElement
<1>3. Cardinality(Given \cup {c}) = Cardinality(Given) + 1
  BY <1>1, <1>2, FS_AddElement
<1>4. Cardinality(Given \cup {c}) <= Cardinality(Calls)
  BY <1>1, CallsFinite, FS_Subset
<1>5. nextID = Cardinality(Given) /\ nextID \in Nat
  BY CallsFinite DEF IInv, CallType, IdInv, Ids
<1>6. FreshId \in Ids /\ FreshId # 0
  BY <1>3, <1>4, <1>5, CallsFinite DEF FreshId, Ids
<1>7. \A d \in Calls : id[d] # FreshId
  BY <1>5, CallsFinite DEF IInv, CallType, IdInv, FreshId, Ids
<1>8. \A i \in Ids : i = FreshId => pending[i] = NoCall
  BY <1>7 DEF IInv, CallType, PendingIsLive
<1> QED
  BY <1>3, <1>5, <1>6, <1>7, <1>8

(* It holds when Dial begins. *)
LEMMA InitInv == Init => IInv
<1> SUFFICES ASSUME Init PROVE IInv
  OBVIOUS
<1>1. Given = {} /\ Cardinality(Given) = 0
  BY FS_EmptySet DEF Init, Given
<1>2. CallType /\ inbox \in [Calls -> {<<>>} \cup {<<v>> : v \in Calls \cup {Broken}}]
  BY DEF Init, CallType, Steps
<1>3. IdInv
  BY <1>1 DEF Init, IdInv, Open
<1>4. PipeInv /\ InboxInv /\ PendingIsLive
  BY DEF Init, PipeInv, InboxInv, PendingIsLive
<1> QED
  BY <1>2, <1>3, <1>4 DEF IInv

----------------------------------------------------------------------------
(* The steps of a call.  One that begins gets an id nobody has.             *)
LEMMA EnterInv == ASSUME IInv, NEW c \in Calls, Enter(c) PROVE IInv'
<1> USE DEF Enter, calls, table, loop, serve
<1>1. CASE closing # "open"
  <2>1. /\ pc' = [pc EXCEPT ![c] = "done"] /\ result' = [result EXCEPT ![c] = Broken]
        /\ UNCHANGED <<id, nextID, phase, ctxDone, pending, inbox, writer, toServer, toClient,
                       reader, got, server, job, closing>>
    BY <1>1
  <2>2. Given' = Given /\ Requests' = Requests /\ Notice' = Notice
    BY <2>1 DEF Given, Requests, Notice
  <2>3. CallType'
    BY <2>1 DEF IInv, CallType, Steps
  <2>4. IdInv'
    BY <2>1, <2>2 DEF IInv, CallType, IdInv, Open
  <2>5. PipeInv'
    BY <2>1, <2>2 DEF IInv, PipeInv
  <2>6. InboxInv'
    BY <2>1 DEF IInv, CallType, InboxInv
  <2>7. PendingIsLive'
    BY <2>1 DEF Enter, IInv, CallType, PendingIsLive
  <2> QED
    BY <2>1, <2>3, <2>4, <2>5, <2>6, <2>7 DEF IInv
<1>2. CASE closing = "open"
  <2>1. /\ pc[c] = "none"
        /\ pc' = [pc EXCEPT ![c] = "entered"] /\ id' = [id EXCEPT ![c] = FreshId]
        /\ nextID' = FreshId
        /\ UNCHANGED <<result, phase, ctxDone, pending, inbox, writer, toServer, toClient,
                       reader, got, server, job, closing>>
    BY <1>2 DEF FreshId
  <2>2. /\ FreshId \in Ids /\ FreshId # 0 /\ FreshId = nextID + 1
        /\ \A d \in Calls : id[d] # FreshId
        /\ Cardinality(Given \cup {c}) = FreshId
        /\ id[c] = 0 /\ nextID \in Nat
    <3>1. nextID \in Nat /\ FreshId = nextID + 1
      BY CallsFinite DEF FreshId, IInv, CallType, Ids
    <3>2. id[c] = 0
      BY <2>1 DEF IInv, IdInv
    <3> QED
      BY <2>1, <3>1, <3>2, FreshIdFree
  <2>3. Given' = Given \cup {c}
    BY <2>1, <2>2 DEF IInv, CallType, Given
  <2>4. Requests \subseteq Requests' /\ Notice' = Notice
    BY <2>1, <2>2 DEF IInv, CallType, Requests, Ids, Notice
  <2>5. CallType'
    BY <2>1, <2>2 DEF IInv, CallType, Steps
  <2>6. IdInv'
    <3>1. nextID' = Cardinality(Given')
      BY <2>1, <2>2, <2>3
    <3>2. \A d \in Calls : id'[d] <= nextID'
      BY <2>1, <2>2, CallsFinite DEF IInv, CallType, IdInv, Ids
    <3> QED
      BY <2>1, <2>2, <3>1, <3>2 DEF IInv, CallType, IdInv, Open
  <2>7. PipeInv'
    BY <2>1, <2>4 DEF IInv, PipeInv
  <2>8. InboxInv'
    BY <2>1 DEF IInv, CallType, InboxInv
  <2>9. PendingIsLive'
    BY <2>1, <2>2 DEF IInv, CallType, PendingIsLive
  <2> QED
    BY <2>1, <2>5, <2>6, <2>7, <2>8, <2>9 DEF IInv
<1> QED
  BY <1>1, <1>2

(* What the steps do that leave the ids alone. *)
LEMMA SameIds ==
  ASSUME IInv, UNCHANGED <<id, nextID>>
  PROVE  Given' = Given /\ Requests' = Requests /\ Notice' = Notice
BY DEF Given, Requests, Notice

(* The request is registered before it is sent. *)
LEMMA SendInv == ASSUME IInv, NEW c \in Calls, Send(c) PROVE IInv'
<1> DEFINE to == IF StdinShut THEN "failing" ELSE "writing"
<1>1. /\ pc[c] = "entered" /\ id[c] \in Ids
      /\ pc' = [pc EXCEPT ![c] = to]
      /\ pending' = [pending EXCEPT ![id[c]] = c]
      /\ toServer' \in {toServer, Append(toServer, Message(c))}
      /\ writer' \in {writer, c}
      /\ UNCHANGED <<id, nextID, result, phase, ctxDone, inbox, toClient, reader, got, server,
                     job, closing>>
  BY DEF Send, IInv, CallType, IdInv, loop, serve
<1>2. Given' = Given /\ Requests' = Requests /\ Notice' = Notice
  BY <1>1, SameIds
<1>3. CallType'
  BY <1>1 DEF IInv, CallType, Steps
<1>4. IdInv'
  BY <1>1, <1>2 DEF IInv, CallType, IdInv, Open
<1>5. PipeInv'
  <2>1. Message(c) \in Requests
    BY <1>1 DEF Message, Requests
  <2>2. toServer' \in Seq(Requests \cup {Notice})
    BY <1>1, <2>1 DEF IInv, PipeInv
  <2> QED
    BY <1>1, <1>2, <2>2 DEF IInv, PipeInv
<1>6. InboxInv'
  BY <1>1 DEF IInv, CallType, InboxInv
<1>7. PendingIsLive'
  BY <1>1 DEF IInv, CallType, IdInv, InboxInv, PendingIsLive
<1> QED
  BY <1>1, <1>3, <1>4, <1>5, <1>6, <1>7 DEF IInv

(* The end of a write, well or badly, and the choice of the context. *)
LEMMA ProceedInv ==
  ASSUME IInv, NEW c \in Calls, WriteReturns(c) \/ WriteBreaks(c) \/ SelectContext(c)
  PROVE  IInv'
<1>1. PICK to \in {"waiting", "failing", "leaving"} :
        /\ pc[c] \in {"writing", "waiting"}
        /\ pc' = [pc EXCEPT ![c] = to]
        /\ writer' \in {writer, NoCall} /\ ctxDone' \subseteq ctxDone
        /\ UNCHANGED <<id, nextID, result, phase, pending, inbox, toServer, toClient, reader,
                       got, server, job, closing>>
  BY DEF WriteReturns, WriteBreaks, SelectContext, Unlocked, table, loop, serve
<1>2. Given' = Given /\ Requests' = Requests /\ Notice' = Notice
  BY <1>1, SameIds
<1>3. CallType'
  BY <1>1 DEF IInv, CallType, Steps
<1>4. IdInv'
  BY <1>1, <1>2 DEF IInv, CallType, IdInv, Open
<1>5. PipeInv'
  BY <1>1, <1>2 DEF IInv, PipeInv
<1>6. InboxInv'
  BY <1>1 DEF IInv, CallType, InboxInv
<1>7. PendingIsLive'
  BY <1>1 DEF IInv, CallType, PendingIsLive
<1> QED
  BY <1>1, <1>3, <1>4, <1>5, <1>6, <1>7 DEF IInv

(* A call returns: when it has given up its entry is deleted, when it has   *)
(* its answer the entry was taken before the answer came.                   *)
LEMMA ReturnInv ==
  ASSUME IInv, NEW c \in Calls, GiveUp(c) \/ SelectAnswer(c)
  PROVE  IInv'
<1> USE DEF GiveUp, SelectAnswer
<1>1. /\ Open(c) /\ id[c] \in Ids
      /\ pc' = [pc EXCEPT ![c] = "done"]
      /\ ctxDone' \subseteq ctxDone
      /\ UNCHANGED <<id, nextID, phase, writer, toServer, toClient, reader, got, server,
                     job, closing>>
  BY DEF Open, IInv, CallType, IdInv, loop, serve
<1>2. /\ pending' \in [Ids -> Calls \cup {NoCall}]
      /\ \A i \in Ids : pending'[i] # NoCall => pending'[i] = pending[i] /\ pending[i] # c
  <2>1. CASE GiveUp(c)
    BY <1>1, <2>1 DEF IInv, CallType, PendingIsLive, Forget
  <2>2. CASE SelectAnswer(c)
    BY <2>2 DEF IInv, CallType, PendingIsLive
  <2> QED
    BY <2>1, <2>2
<1>3. \E v \in {c, Broken} : result' = [result EXCEPT ![c] = v]
  <2>1. CASE GiveUp(c)
    BY <2>1
  <2>2. CASE SelectAnswer(c)
    <3>1. inbox[c] = <<c>> \/ inbox[c] = <<Broken>>
      BY <2>2 DEF IInv, InboxInv
    <3>2. CASE inbox[c] = <<c>>
      BY <2>2, <3>2
    <3>3. CASE inbox[c] = <<Broken>>
      BY <2>2, <3>3
    <3> QED
      BY <3>1, <3>2, <3>3
  <2> QED
    BY <2>1, <2>2
<1>4. inbox' = inbox \/ inbox' = [inbox EXCEPT ![c] = <<>>]
  <2>1. CASE GiveUp(c)
    BY <2>1
  <2>2. CASE SelectAnswer(c)
    <3>1. inbox[c] = <<c>> \/ inbox[c] = <<Broken>>
      BY <2>2 DEF IInv, InboxInv
    <3>2. \A x : Tail(<<x>>) = <<>>
      OBVIOUS
    <3>3. Tail(inbox[c]) = <<>>
      BY <3>1, <3>2
    <3> QED
      BY <2>2, <3>3
  <2> QED
    BY <2>1, <2>2
<1>5. Given' = Given /\ Requests' = Requests /\ Notice' = Notice
  BY <1>1, SameIds
<1>6. CallType'
  BY <1>1, <1>2, <1>3 DEF IInv, CallType, Steps
<1>7. inbox' \in [Calls -> {<<>>} \cup {<<v>> : v \in Calls \cup {Broken}}]
  BY <1>4 DEF IInv
<1>8. IdInv'
  BY <1>1, <1>5 DEF IInv, CallType, IdInv, Open
<1>9. PipeInv'
  BY <1>1, <1>5 DEF IInv, PipeInv
<1>10. InboxInv'
  BY <1>1, <1>3, <1>4 DEF IInv, CallType, InboxInv
<1>11. PendingIsLive'
  BY <1>1, <1>2, <1>4 DEF IInv, CallType, PendingIsLive
<1> QED
  BY <1>6, <1>7, <1>8, <1>9, <1>10, <1>11 DEF IInv

----------------------------------------------------------------------------
(* The read loop.  The call an answer is handed to is the one it is about,  *)
(* because no other has its id.                                             *)
LEMMA DispatchInv == ASSUME IInv, Dispatch PROVE IInv'
<1> DEFINE d == pending[got.id]
<1>1. /\ got \in Requests
      /\ reader' = "reading"
      /\ UNCHANGED <<phase, pc, id, nextID, result, ctxDone, writer, toServer, server, job,
                     toClient, closing>>
  BY DEF Dispatch, IInv, PipeInv, calls, serve
<1>2. got.id \in Ids /\ got.call \in Calls /\ id[got.call] = got.id
  BY <1>1 DEF Requests
<1>3. \/ d = NoCall /\ UNCHANGED <<pending, inbox>>
      \/ /\ d # NoCall
         /\ inbox' = [inbox EXCEPT ![d] = <<got.call>>]
         /\ pending' = [pending EXCEPT ![got.id] = NoCall]
  BY DEF Dispatch, Taken, table
<1>4. d # NoCall => d \in Calls /\ d = got.call /\ Open(d)
  <2>1. d # NoCall => d \in Calls /\ id[d] = got.id /\ Open(d)
    BY <1>2 DEF IInv, CallType, PendingIsLive, Open
  <2> QED
    BY <1>2, <2>1 DEF IInv, IdInv
<1>5. Given' = Given /\ Requests' = Requests /\ Notice' = Notice
  BY <1>1, SameIds
<1>6. CallType'
  BY <1>1, <1>2, <1>3 DEF IInv, CallType
<1>7. inbox' \in [Calls -> {<<>>} \cup {<<v>> : v \in Calls \cup {Broken}}]
  BY <1>2, <1>3, <1>4 DEF IInv
<1>8. IdInv'
  BY <1>1, <1>5 DEF IInv, IdInv, Open
<1>9. PipeInv'
  BY <1>1, <1>5 DEF IInv, PipeInv
<1>10. InboxInv'
  BY <1>1, <1>3, <1>4 DEF IInv, InboxInv, Open
<1>11. PendingIsLive'
  <2>1. CASE d = NoCall
    BY <1>1, <1>3, <2>1 DEF IInv, PendingIsLive
  <2>2. CASE d # NoCall
    <3>1. \A i \in Ids : pending'[i] # NoCall => pending'[i] = pending[i] /\ pending[i] # d
      BY <1>2, <1>3, <1>4, <2>2 DEF IInv, CallType, PendingIsLive
    <3> QED
      BY <1>1, <1>3, <1>4, <2>2, <3>1 DEF IInv, CallType, PendingIsLive
  <2> QED
    BY <2>1, <2>2
<1> QED
  BY <1>6, <1>7, <1>8, <1>9, <1>10, <1>11 DEF IInv

(* The read loop tells everyone who waits that it ends.                     *)
LEMMA FailAllInv == ASSUME IInv, FailAll PROVE IInv'
<1>1. /\ reader' = "gone"
      /\ inbox' = [c \in Calls |-> IF c \in Told THEN <<Broken>> ELSE inbox[c]]
      /\ pending' = [i \in Ids |-> NoCall]
      /\ UNCHANGED <<phase, pc, id, nextID, result, ctxDone, got, writer, toServer, server, job,
                     toClient, closing>>
  BY DEF FailAll, calls, serve
<1>2. \A c \in Calls : c \in Told => Open(c)
  BY DEF Told, Open, IInv, CallType, PendingIsLive
<1>3. Given' = Given /\ Requests' = Requests /\ Notice' = Notice
  BY <1>1, SameIds
<1>4. CallType'
  BY <1>1 DEF IInv, CallType
<1>5. inbox' \in [Calls -> {<<>>} \cup {<<v>> : v \in Calls \cup {Broken}}]
  BY <1>1 DEF IInv
<1>6. IdInv'
  BY <1>1, <1>3 DEF IInv, IdInv, Open
<1>7. PipeInv'
  BY <1>1, <1>3 DEF IInv, PipeInv
<1>8. InboxInv'
  BY <1>1, <1>2 DEF IInv, InboxInv, Open
<1>9. PendingIsLive'
  BY <1>1 DEF PendingIsLive
<1> QED
  BY <1>4, <1>5, <1>6, <1>7, <1>8, <1>9 DEF IInv

----------------------------------------------------------------------------
(* The steps that leave the calls and their table alone: of the pipes, the  *)
(* server, the connection and the read loop's other steps.                  *)
Aside ==
  /\ UNCHANGED <<pc, id, nextID, pending, inbox, result>>
  /\ phase' \in {"dial", "greet", "greeting", "list", "open", "failed"}
  /\ ctxDone' \subseteq Calls
  /\ writer' \in Calls \cup {NoCall}
  /\ reader' \in {"reading", "holding", "failing", "gone"}
  /\ server' \in {"idle", "busy", "replying", "dead"}
  /\ closing' \in {"open", "begun", "ended"}
  /\ toServer' \in Seq(Requests \cup {Notice})
  /\ toClient' \in Seq(Requests)
  /\ reader' = "holding" => got' \in Requests
  /\ server' = "busy" => job' \in Requests

(* They preserve the invariant.                                             *)
LEMMA AsideInv == ASSUME IInv, Aside PROVE IInv'
<1> USE DEF Aside
<1>1. Given' = Given /\ Requests' = Requests /\ Notice' = Notice
  BY SameIds
<1>2. CallType'
  BY DEF IInv, CallType
<1>3. IdInv'
  BY <1>1 DEF IInv, IdInv, Open
<1>4. PipeInv'
  BY <1>1 DEF IInv, PipeInv
<1>5. InboxInv' /\ PendingIsLive'
  BY DEF IInv, InboxInv, PendingIsLive
<1> QED
  BY <1>2, <1>3, <1>4, <1>5 DEF IInv

(* Sequences: what is taken from one, put into one or cut off. *)
LEMMA PipeParts ==
  ASSUME NEW S, NEW q \in Seq(S)
  PROVE  /\ q # <<>> => Head(q) \in S /\ Tail(q) \in Seq(S)
         /\ \A m \in S : Append(q, m) \in Seq(S)
         /\ <<>> \in Seq(S)
         /\ Whole(q) \in Seq(S)
<1>1. q # <<>> => Head(q) \in S /\ Tail(q) \in Seq(S)
  OBVIOUS
<1>2. \A m \in S : Append(q, m) \in Seq(S)
  OBVIOUS
<1>3. Whole(q) \in Seq(S)
  <2>1. CASE Len(q) > Room
    <3>1. \A i \in 1 .. Room : q[i] \in S
      BY <2>1, RoomAssumption
    <3> QED
      BY <2>1, <3>1, RoomAssumption DEF Whole
  <2> QED
    BY <2>1 DEF Whole
<1> QED
  BY <1>1, <1>2, <1>3

(* Serve, its end and the kill are such steps.                              *)
LEMMA ServerAside ==
  ASSUME IInv, Serving \/ ServerDies \/ CloseEnds
  PROVE  Aside
<1> USE DEF IInv, CallType, PipeInv, Aside, calls, table, loop
<1>1. CASE ServerReads
  <2>1. toServer \in Seq(Requests \cup {Notice}) /\ toServer # <<>>
    BY <1>1 DEF ServerReads
  <2>2. /\ Head(toServer) \in Requests \cup {Notice}
        /\ Tail(toServer) \in Seq(Requests \cup {Notice})
    BY <2>1, PipeParts
  <2>3. Head(toServer).id # 0 => Head(toServer) \in Requests
    BY <2>2 DEF Notice
  <2> QED
    BY <1>1, <2>2, <2>3 DEF ServerReads
<1>2. CASE ServerAnswers
  <2>1. Append(toClient, job) \in Seq(Requests)
    BY <1>2, PipeParts DEF ServerAnswers
  <2> QED
    BY <1>2, <2>1 DEF ServerAnswers
<1>3. CASE ServerGoesOn
  BY <1>3 DEF ServerGoesOn
<1>4. CASE ServerDies
  <2>1. Whole(toClient) \in Seq(Requests)
    BY PipeParts
  <2> QED
    BY <1>4, <2>1 DEF ServerDies
<1>5. CASE CloseEnds
  <2>1. <<>> \in Seq(Requests)
    BY PipeParts
  <2> QED
    BY <1>5, <2>1 DEF CloseEnds
<1> QED
  BY <1>1, <1>2, <1>3, <1>4, <1>5 DEF Serving

(* The client's other steps are, too.                                       *)
LEMMA ClientAside ==
  ASSUME IInv,
         \/ \E c \in Calls : ContextEnds(c)
         \/ Read \/ ReadFails
         \/ Dialled \/ Notify \/ NotifyReturns \/ Listed \/ CloseBegins
  PROVE  Aside
<1> USE DEF IInv, CallType, PipeInv, Aside, calls, table, loop, serve
<1>1. CASE \E c \in Calls : ContextEnds(c)
  BY <1>1 DEF ContextEnds
<1>2. CASE Read
  <2>1. Head(toClient) \in Requests /\ Tail(toClient) \in Seq(Requests)
    BY <1>2, PipeParts DEF Read
  <2> QED
    BY <1>2, <2>1 DEF Read
<1>3. CASE ReadFails
  BY <1>3 DEF ReadFails
<1>4. CASE Dialled \/ Listed
  BY <1>4 DEF Dialled, Listed
<1>5. CASE Notify
  <2>1. Append(toServer, Notice) \in Seq(Requests \cup {Notice})
    BY PipeParts
  <2>2. Hello \in Calls
    BY DEF Calls
  <2> QED
    BY <1>5, <2>1, <2>2 DEF Notify
<1>6. CASE NotifyReturns
  BY <1>6 DEF NotifyReturns
<1>7. CASE CloseBegins
  BY <1>7 DEF CloseBegins
<1> QED
  BY <1>1, <1>2, <1>3, <1>4, <1>5, <1>6, <1>7

(* The inductive invariant of the client and its server. *)
THEOREM Invariance == Spec => []IInv
<1>1. IInv /\ [Next]_vars => IInv'
  <2> SUFFICES ASSUME IInv, [Next]_vars PROVE IInv'
    OBVIOUS
  <2>1. ASSUME NEW c \in Calls, Enter(c) \/ CallStep(c) PROVE IInv'
    BY <2>1, EnterInv, SendInv, ProceedInv, ReturnInv DEF CallStep
  <2>2. CASE Dispatch \/ FailAll
    BY <2>2, DispatchInv, FailAllInv
  <2>3. CASE Serving \/ ServerDies \/ CloseEnds
    BY <2>3, ServerAside, AsideInv
  <2>4. CASE \/ \E c \in Calls : ContextEnds(c)
             \/ Read \/ ReadFails
             \/ Dialled \/ Notify \/ NotifyReturns \/ Listed \/ CloseBegins
    BY <2>4, ClientAside, AsideInv
  <2>5. CASE UNCHANGED vars
    <3>1. Aside
      BY <2>5 DEF IInv, CallType, PipeInv, Aside, vars, calls, table, loop, serve
    <3> QED
      BY <3>1, AsideInv
  <2> QED
    BY <2>1, <2>2, <2>3, <2>4, <2>5 DEF Next, ReadLoop
<1> QED
  BY <1>1, InitInv, PTL DEF Spec

(* The types of the state, for every instance. *)
THEOREM TypeCorrect == Spec => []TypeOK
<1>1. IInv => TypeOK
  <2> SUFFICES ASSUME IInv PROVE TypeOK
    OBVIOUS
  <2>1. ASSUME NEW c \in Calls
        PROVE  inbox[c] \in Seq(Calls \cup {Broken}) /\ Len(inbox[c]) <= 1
    <3>1. inbox[c] = <<>> \/ \E v \in Calls \cup {Broken} : inbox[c] = <<v>>
      BY DEF IInv
    <3>2. \A v \in Calls \cup {Broken} : <<v>> \in Seq(Calls \cup {Broken}) /\ Len(<<v>>) <= 1
      OBVIOUS
    <3>3. <<>> \in Seq(Calls \cup {Broken}) /\ Len(<<>>) <= 1
      OBVIOUS
    <3> QED
      BY <3>1, <3>2, <3>3
  <2> QED
    BY <2>1 DEF IInv, CallType, Steps, TypeOK
<1> QED
  BY <1>1, Invariance, PTL

(* A call returns the answer to its own request or an error.                *)
THEOREM AnswersAreOwn == Spec => []AnswerIsOwn
<1>1. IInv => AnswerIsOwn
  BY DEF IInv, InboxInv, AnswerIsOwn
<1> QED
  BY <1>1, Invariance, PTL

(* Whoever is registered still waits, and the send of the read loop never   *)
(* blocks.                                                                  *)
THEOREM PendingAreLive == Spec => []PendingIsLive
BY Invariance, PTL DEF IInv
=============================================================================
