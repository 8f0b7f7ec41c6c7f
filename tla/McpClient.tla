------------------------------ MODULE McpClient ------------------------------
(***************************************************************************)
(* mcp.Client and the server at the other end of its two pipes: tool calls *)
(* of parallel goroutines, the read loop that hands answers out, the start *)
(* of the server (Dial and the tools/list of Connect) and Close.           *)
(*                                                                         *)
(* Client.mu is held for a whole write and taken by the read loop for each *)
(* answer and by every call that gives up; "writer" is who holds it while  *)
(* it writes, the other critical sections are one action each.  The        *)
(* server is Serve: one request at a time, no reading while it writes.     *)
(*                                                                         *)
(* A pipe is the sequence of messages not yet read.  It holds Room of them;*)
(* one more may be in it, not yet written to its end, and its writer waits *)
(* until a reader has made room.  Room = 0 is a message longer than the    *)
(* pipe.  Frames and JSON are left out, except that a server other than    *)
(* Serve may send a frame the read loop rejects.                           *)
(***************************************************************************)
EXTENDS Naturals, Sequences, FiniteSets

CONSTANTS
  ToolCalls,  \* calls of Client.CallTool
  Hello,      \* the initialize call of Dial
  List,       \* the tools/list call of Connect
  NoCall,
  Broken,     \* an answer or a result that is an error
  Room,       \* the messages that fit into a pipe
  BadFrames   \* may the server send a frame that readMsg rejects?

Calls == ToolCalls \cup {Hello, List}
Ids   == 1 .. Cardinality(Calls)

ASSUME CallsAssumption ==
  /\ IsFiniteSet(ToolCalls)
  /\ NoCall \notin Calls /\ Broken \notin Calls \cup {NoCall}
  /\ Hello # List /\ {Hello, List} \cap ToolCalls = {}
ASSUME RoomAssumption == Room \in Nat /\ BadFrames \in BOOLEAN

VARIABLES
  phase,    \* how far Connect is: "dial", "greet", "greeting", "list", "open", "failed"
  pc,       \* where each call stands
  id,       \* the id each call was given, 0 before
  nextID,   \* Client.nextID
  pending,  \* Client.pending: the call that waits for each id, or NoCall
  inbox,    \* the channel of each call, with room for one value
  result,   \* what each call returned, NoCall before
  ctxDone,  \* the calls whose context has ended, until their select
  writer,   \* who holds mu while writing, or NoCall
  toServer, \* the pipe to the server
  toClient, \* the pipe from the server
  reader,   \* the read loop: "reading", "holding", "failing", "gone"
  got,      \* the answer it holds
  server,   \* Serve: "idle", "busy", "replying", "dead"
  job,      \* the request it works on
  closing   \* Close: "open", "begun" (closed is set, stdin is shut), "ended"

calls  == <<pc, id, nextID, result, ctxDone>>
table  == <<pending, inbox>>
loop   == <<reader, got>>
serve  == <<server, job, toClient>>
vars   == <<phase, calls, table, writer, toServer, loop, serve, closing>>

(* A message: the id on the wire, 0 for a notification, and the call it is  *)
(* really about.                                                            *)
Message(c) == [id |-> id[c], call |-> c]
Notice     == [id |-> 0, call |-> NoCall]

MuFree    == writer = NoCall
(* A write fails when the pipe is shut or nobody is left to read it. *)
StdinShut == closing # "open" \/ server = "dead"
----------------------------------------------------------------------------
Init ==
  /\ phase = "dial"
  /\ pc = [c \in Calls |-> "none"]
  /\ id = [c \in Calls |-> 0]
  /\ nextID = 0
  /\ pending = [i \in Ids |-> NoCall]
  /\ inbox = [c \in Calls |-> <<>>]
  /\ result = [c \in Calls |-> NoCall]
  /\ ctxDone = {}
  /\ writer = NoCall
  /\ toServer = <<>> /\ toClient = <<>>
  /\ reader = "reading" /\ got = Notice
  /\ server = "idle" /\ job = Notice
  /\ closing = "open"

(* Which calls may be made: initialize, then tools/list, then the tools. *)
MayCall(c) ==
  CASE phase = "dial" -> c = Hello
    [] phase = "list" -> c = List
    [] phase = "open" -> c \in ToolCalls
    [] OTHER          -> FALSE

(* slip: the smallest id no call is waiting for *)
FreshIdReused == CHOOSE i \in Ids : pending[i] = NoCall /\ \A j \in 1 .. i - 1 : pending[j] # NoCall

(* nextID.Add(1): an id is never used twice. *)
FreshId == nextID + 1

Enter(c) ==
  /\ pc[c] = "none"
  /\ MayCall(c)
  /\ IF closing # "open"
     THEN /\ pc' = [pc EXCEPT ![c] = "done"]
          /\ result' = [result EXCEPT ![c] = Broken]
          /\ UNCHANGED <<id, nextID>>
     ELSE /\ pc' = [pc EXCEPT ![c] = "entered"]
          /\ id' = [id EXCEPT ![c] = FreshId]
          /\ nextID' = nextID + 1
          /\ UNCHANGED result
  /\ UNCHANGED <<phase, ctxDone, table, writer, toServer, loop, serve, closing>>

(* A context that ends earlier is not seen before the select. *)
ContextEnds(c) ==
  /\ pc[c] = "waiting"
  /\ c \notin ctxDone
  /\ ctxDone' = ctxDone \cup {c}
  /\ UNCHANGED <<phase, pc, id, nextID, result, table, writer, toServer, loop, serve, closing>>

(* mu is taken, the call registered and its request put into the pipe,      *)
(* which has room for the beginning of it.                                  *)
Send(c) ==
  /\ pc[c] = "entered"
  /\ MuFree
  /\ pending' = [pending EXCEPT ![id[c]] = c]
  /\ IF StdinShut
     THEN /\ pc' = [pc EXCEPT ![c] = "failing"]
          /\ UNCHANGED <<writer, toServer>>
     ELSE /\ pc' = [pc EXCEPT ![c] = "writing"]
          /\ writer' = c
          /\ toServer' = Append(toServer, Message(c))
  /\ UNCHANGED <<phase, id, nextID, result, ctxDone, inbox, loop, serve, closing>>


Unlocked == NoCall

(* The end of a write and the unlock. *)
WriteReturns(c) ==
  /\ pc[c] = "writing"
  /\ Len(toServer) <= Room
  /\ pc' = [pc EXCEPT ![c] = "waiting"]
  /\ writer' = Unlocked
  /\ UNCHANGED <<phase, id, nextID, result, ctxDone, table, toServer, loop, serve, closing>>

WriteBreaks(c) ==
  /\ pc[c] = "writing"
  /\ Len(toServer) > Room
  /\ StdinShut
  /\ pc' = [pc EXCEPT ![c] = "failing"]
  /\ writer' = Unlocked
  /\ UNCHANGED <<phase, id, nextID, result, ctxDone, table, toServer, loop, serve, closing>>

(* slip: the entry of a call that gives up stays *)
ForgetNot(c) == pending

(* delete(c.pending, key), of a call that gives up. *)
Forget(c) == [pending EXCEPT ![id[c]] = NoCall]

(* A failed write, or a context that was chosen: the entry is deleted.      *)
GiveUp(c) ==
  /\ pc[c] \in {"failing", "leaving"}
  /\ MuFree
  /\ pending' = Forget(c)
  /\ pc' = [pc EXCEPT ![c] = "done"]
  /\ result' = [result EXCEPT ![c] = Broken]
  /\ UNCHANGED <<phase, id, nextID, ctxDone, inbox, writer, toServer, loop, serve, closing>>

(* select: the context or the answer; with both ready either may win.       *)
SelectContext(c) ==
  /\ pc[c] = "waiting"
  /\ c \in ctxDone
  /\ pc' = [pc EXCEPT ![c] = "leaving"]
  /\ ctxDone' = ctxDone \ {c}
  /\ UNCHANGED <<phase, id, nextID, result, table, writer, toServer, loop, serve,
                 closing>>

SelectAnswer(c) ==
  /\ pc[c] = "waiting"
  /\ inbox[c] # <<>>
  /\ pc' = [pc EXCEPT ![c] = "done"]
  /\ result' = [result EXCEPT ![c] = Head(inbox[c])]
  /\ inbox' = [inbox EXCEPT ![c] = Tail(@)]
  /\ ctxDone' = ctxDone \ {c}
  /\ UNCHANGED <<phase, id, nextID, pending, writer, toServer, loop, serve, closing>>

----------------------------------------------------------------------------
(* The read loop. *)
Read ==
  /\ reader = "reading"
  /\ closing # "ended"
  /\ toClient # <<>>
  /\ got' = Head(toClient)
  /\ toClient' = Tail(toClient)
  /\ reader' = "holding"
  /\ UNCHANGED <<phase, calls, table, writer, toServer, server, job, closing>>

Taken(i) == [pending EXCEPT ![i] = NoCall]

(* The answer goes to the call that waits for its id, if there still is one.*)
Dispatch ==
  /\ reader = "holding"
  /\ MuFree
  /\ LET c == pending[got.id] IN
       IF c = NoCall THEN UNCHANGED table
       ELSE /\ inbox[c] = <<>>
            /\ inbox' = [inbox EXCEPT ![c] = <<got.call>>]
            /\ pending' = Taken(got.id)
  /\ reader' = "reading"
  /\ got' = Notice
  /\ UNCHANGED <<phase, calls, writer, toServer, serve, closing>>

(* The end of the stream, a pipe shut by Wait, or a frame without a length. *)
ReadFails ==
  /\ reader = "reading"
  /\ \/ toClient = <<>> /\ server = "dead"
     \/ closing = "ended"
     \/ BadFrames
  /\ reader' = "failing"
  /\ UNCHANGED <<phase, calls, table, got, writer, toServer, serve, closing>>

(* slip: only the call with the lowest id is told *)
ToldFirst == {c \in Calls : \E i \in Ids : pending[i] = c /\ \A j \in 1 .. i - 1 : pending[j] = NoCall}

Told == {pending[i] : i \in Ids} \ {NoCall}

(* failAll: each waiting call gets an error, and the loop ends. *)
FailAll ==
  /\ reader = "failing"
  /\ MuFree
  /\ \A c \in Told : inbox[c] = <<>>
  /\ inbox' = [c \in Calls |-> IF c \in Told THEN <<Broken>> ELSE inbox[c]]
  /\ pending' = [i \in Ids |-> NoCall]
  /\ reader' = "gone"
  /\ UNCHANGED <<phase, calls, got, writer, toServer, serve, closing>>

----------------------------------------------------------------------------
(* Serve. *)
ServerReads ==
  /\ server = "idle"
  /\ toServer # <<>>
  /\ toServer' = Tail(toServer)
  /\ IF Head(toServer).id = 0
     THEN UNCHANGED <<server, job>>
     ELSE server' = "busy" /\ job' = Head(toServer)
  /\ UNCHANGED <<phase, calls, table, writer, loop, toClient, closing>>

(* The handler has returned: the answer, a result or an error, is written.  *)
ServerAnswers ==
  /\ server = "busy"
  /\ closing # "ended"
  /\ toClient' = Append(toClient, job)
  /\ server' = "replying"
  /\ UNCHANGED <<phase, calls, table, writer, toServer, loop, job, closing>>

ServerGoesOn ==
  /\ server = "replying"
  /\ Len(toClient) <= Room
  /\ server' = "idle"
  /\ job' = Notice
  /\ UNCHANGED <<phase, calls, table, writer, toServer, loop, toClient, closing>>

(* What a reader can still get when the server is gone: whole messages. *)
Whole(pipe) == IF Len(pipe) > Room THEN SubSeq(pipe, 1, Room) ELSE pipe

(* Its input has ended, its output has failed, or it crashes. *)
ServerDies ==
  /\ server # "dead"
  /\ server' = "dead"
  /\ job' = Notice
  /\ toClient' = Whole(toClient)
  /\ UNCHANGED <<phase, calls, table, writer, toServer, loop, closing>>

----------------------------------------------------------------------------
(* Initialize ends with a notification, written under mu like a call. *)
Dialled ==
  /\ phase = "dial"
  /\ pc[Hello] = "done"
  /\ phase' = IF result[Hello] = Broken THEN "failed" ELSE "greet"
  /\ UNCHANGED <<calls, table, writer, toServer, loop, serve, closing>>

Notify ==
  /\ phase = "greet"
  /\ MuFree
  /\ IF StdinShut
     THEN phase' = "failed" /\ UNCHANGED <<writer, toServer>>
     ELSE /\ phase' = "greeting"
          /\ writer' = Hello
          /\ toServer' = Append(toServer, Notice)
  /\ UNCHANGED <<calls, table, loop, serve, closing>>

NotifyReturns ==
  /\ phase = "greeting"
  /\ Len(toServer) <= Room \/ StdinShut
  /\ phase' = IF Len(toServer) <= Room THEN "list" ELSE "failed"
  /\ writer' = NoCall
  /\ UNCHANGED <<calls, table, toServer, loop, serve, closing>>

Listed ==
  /\ phase = "list"
  /\ pc[List] = "done"
  /\ phase' = IF result[List] = Broken THEN "failed" ELSE "open"
  /\ UNCHANGED <<calls, table, writer, toServer, loop, serve, closing>>

(* slip: only a server that is in use is closed *)
MayCloseOpen == phase = "open"

(* Dial and Connect close the server they could not start; stopMCP closes   *)
(* the others, whatever calls are under way.                                *)
MayClose == phase \in {"open", "failed"}

CloseBegins ==
  /\ MayClose
  /\ closing = "open"
  /\ closing' = "begun"
  /\ UNCHANGED <<phase, calls, table, writer, toServer, loop, serve>>

(* Kill, and Wait, which shuts the pipe the read loop reads. *)
CloseEnds ==
  /\ closing = "begun"
  /\ closing' = "ended"
  /\ server' = "dead"
  /\ job' = Notice
  /\ toClient' = <<>>
  /\ UNCHANGED <<phase, calls, table, writer, toServer, loop>>

----------------------------------------------------------------------------
CallStep(c) ==
  \/ Send(c) \/ WriteReturns(c) \/ WriteBreaks(c) \/ GiveUp(c)
  \/ SelectContext(c) \/ SelectAnswer(c)
ReadLoop    == Read \/ Dispatch \/ FailAll
Serving     == ServerReads \/ ServerAnswers \/ ServerGoesOn
Connecting  == Enter(Hello) \/ Dialled \/ Notify \/ NotifyReturns \/ Enter(List) \/ Listed

Next ==
  \/ \E c \in Calls : Enter(c) \/ ContextEnds(c) \/ CallStep(c)
  \/ ReadLoop \/ ReadFails
  \/ Serving \/ ServerDies
  \/ Dialled \/ Notify \/ NotifyReturns \/ Listed
  \/ CloseBegins \/ CloseEnds

Spec == Init /\ [][Next]_vars

Starter == Connecting \/ (CloseBegins /\ phase = "failed") \/ CloseEnds
Reading == ReadLoop \/ (ReadFails /\ (server = "dead" \/ closing = "ended"))

(* Goroutines that can step do so: calls, the read loop, which notices the  *)
(* end of the stream, the server, whose handlers return, and whoever starts *)
(* the server and closes it when that fails.  No context has to end, no     *)
(* tool has to be called and no open server has to be closed.               *)
Fairness ==
  /\ \A c \in Calls : WF_vars(CallStep(c))
  /\ WF_vars(Reading) /\ WF_vars(Serving) /\ WF_vars(Starter)

FairSpec == Spec /\ Fairness

----------------------------------------------------------------------------
TypeOK ==
  /\ phase \in {"dial", "greet", "greeting", "list", "open", "failed"}
  /\ pc \in [Calls -> {"none", "entered", "writing", "failing", "waiting", "leaving", "done"}]
  /\ id \in [Calls -> Ids \cup {0}]
  /\ nextID \in Ids \cup {0}
  /\ pending \in [Ids -> Calls \cup {NoCall}]
  /\ \A c \in Calls : inbox[c] \in Seq(Calls \cup {Broken}) /\ Len(inbox[c]) <= 1
  /\ result \in [Calls -> Calls \cup {NoCall, Broken}]
  /\ ctxDone \subseteq Calls
  /\ writer \in Calls \cup {NoCall}
  /\ reader \in {"reading", "holding", "failing", "gone"}
  /\ server \in {"idle", "busy", "replying", "dead"}
  /\ closing \in {"open", "begun", "ended"}

(* A call returns the answer to its own request or an error, never that of  *)
(* another call, also when calls have given up and their answers come late. *)
AnswerIsOwn == \A c \in Calls : result[c] \in {c, Broken, NoCall}

(* Whoever is registered has not returned and has had no answer yet.  So    *)
(* the send of the read loop never blocks - a blocked one would stop every  *)
(* call - and a call that has returned leaves nothing behind.               *)
PendingIsLive == \A i \in Ids : pending[i] # NoCall =>
  /\ id[pending[i]] = i
  /\ pc[pending[i]] \in {"writing", "failing", "waiting", "leaving"}
  /\ inbox[pending[i]] = <<>>

(* Both pipes are full: the writer holds mu until the server reads, the     *)
(* server writes until the read loop reads, and that waits for mu or is     *)
(* gone.  Only Close or the end of the server gets them out of it.          *)
Jam ==
  /\ writer # NoCall /\ Len(toServer) > Room
  /\ server = "replying" /\ Len(toClient) > Room
  /\ reader # "reading"

(* A call registered after the read loop has told everyone that it ends.    *)
Late(c) == reader = "gone" /\ \E i \in Ids : pending[i] = c

(* Every call that was sent returns, without its context ending, unless it  *)
(* came too late or the pipes have jammed: neither a server that dies nor a *)
(* Close nor an answer in between leaves a call behind.                     *)
CallReturns == \A c \in Calls :
  pc[c] = "waiting" ~> \/ pc[c] = "done"
                       \/ Late(c)
                       \/ Jam


(* A server that could not be started does not outlive the attempt. *)
StartupFailureKills == phase = "failed" ~> server = "dead" /\ closing = "ended"
=============================================================================
