------------------------------ MODULE ModelCall ------------------------------
(***************************************************************************)
(* One request to a model: llm.Router in front of OpenAI.Chat, ChatStream  *)
(* and Embed, with the retries, the back-off, the fallback, the assembly   *)
(* of a stream and the batches of an embedding.  The endpoint may fail in  *)
(* every way the code tells apart and the caller's context may end at any  *)
(* moment.                                                                 *)
(*                                                                         *)
(* A token is the number of the request that brought it and its place in   *)
(* the answer, a piece of a tool call's arguments its place in the call,   *)
(* a vector the text it belongs to.  Usage counts and wording are left out.*)
(***************************************************************************)
EXTENDS Positions

CONSTANTS
  MaxRetries, \* OpenAI.MaxRetries
  Tokens,     \* the tokens of an answer
  Pieces,     \* the pieces of each tool call of an answer, by its index, which is
              \* never negative: such a call is not assembled
  Texts,      \* the texts to embed
  Batch       \* embedBatch, the texts of one embeddings request

DefaultMaxRetries == 2
Indices == DOMAIN Pieces

ASSUME ModelCallAssumption ==
  /\ MaxRetries \in Int /\ Tokens \in Nat /\ Texts \in Nat /\ Batch \in Nat \ {0}
  /\ Indices \subseteq Nat /\ IsFiniteSet(Indices) /\ Pieces \in [Indices -> Nat]

(* The errors the code tells apart:
     "transport"  the exchange failed
     "timeout"    the timeout of the HTTP client, for errors.Is a deadline
     "busy"       429 or 5xx
     "cut"        the body of such an answer broke off
     "refused"    another status
     "broken"     an answer that is no answer, or a stream that broke off
     "named"      an error of the API whose text names a status such as 503
     "ended"      the context's                                            *)
Errors == {"transport", "timeout", "busy", "cut", "refused", "broken", "named", "ended"}
None   == "none"
Slots  == {"primary", "fallback", "summary"}

VARIABLES
  mode,     \* "chat", "stream" or "embed"
  backup,   \* is a Fallback configured?
  first,    \* the error of the primary for which the fallback was asked
  slot,     \* the provider that is asked
  pc,       \* "top", "asked", "body", "failed", "sleeping", "returned", "done"
  attempt,
  err,      \* the error of the last attempt, lastErr
  retry,    \* its retryable
  over,     \* has the caller's context ended?
  sent,     \* what the endpoint has sent of its answer: tokens, and pieces by index
  acc,      \* streamAcc
  shown,    \* what onDelta has been given
  start,    \* the next batch begins after this text
  out,      \* the vectors so far
  tries,    \* requests made, for each provider
  result    \* the error or the answer

stream == <<sent, acc, shown>>
embed  == <<start, out>>
vars   == <<mode, backup, first, slot, pc, attempt, err, retry, over, stream, embed, tries, result>>

Nothing == [tokens |-> 0, pieces |-> [i \in Indices |-> 0]]
Empty   == [content |-> <<>>, calls |-> [i \in Indices |-> [id |-> -1, args |-> <<>>]], seen |-> {}]

RetryBudget ==
  IF MaxRetries < 0 THEN 0 ELSE IF MaxRetries = 0 THEN DefaultMaxRetries ELSE MaxRetries

Attempts == 1 + RetryBudget
----------------------------------------------------------------------------
(* A summary goes to its own provider, if there is one; only the primary's  *)
(* Chat and ChatStream are asked in the other modes.                        *)
Init ==
  /\ mode \in {"chat", "stream", "embed"}
  /\ backup \in BOOLEAN /\ first = None
  /\ slot \in IF mode = "chat" THEN {"primary", "summary"} ELSE {"primary"}
  /\ pc = "top" /\ attempt = 0
  /\ err = None /\ retry = FALSE /\ over = FALSE
  /\ sent = Nothing /\ acc = Empty /\ shown = <<>>
  /\ start = 0 /\ out = <<>>
  /\ tries = [s \in Slots |-> 0]
  /\ result = [kind |-> None]

Returns(r) == pc' = "returned" /\ result' = r

Error(e) == [kind |-> "error", err |-> e]

Ask == pc' = "asked" /\ tries' = [tries EXCEPT ![slot] = @ + 1]

(* The context of the caller, at any moment. *)
ContextEnds ==
  /\ pc # "done" /\ ~over
  /\ over' = TRUE
  /\ UNCHANGED <<mode, backup, first, slot, pc, attempt, err, retry, stream, embed, tries, result>>

----------------------------------------------------------------------------
(* The loop of Chat and ChatStream. *)

(* slip: the context is looked at only after an attempt *)
MayTryAlways == TRUE

MayTry == ~over

Top ==
  /\ pc = "top" /\ mode # "embed"
  /\ IF MayTry
     THEN Ask /\ UNCHANGED result
     ELSE Returns(Error(IF err = None THEN "ended" ELSE err)) /\ UNCHANGED tries
  /\ UNCHANGED <<mode, backup, first, slot, attempt, err, retry, over, stream, embed>>

(* What an attempt may end with before a body is accepted.  A stream does   *)
(* not notice that the body of an error broke off.                          *)
Failures ==
  (Errors \ (IF mode = "stream" THEN {"cut", "broken", "named"} ELSE {}))
          \ (IF over THEN {} ELSE {"ended"})

Retryable(e) == e = "busy" \/ (e \in {"transport", "timeout", "cut"} /\ ~over)

AttemptFails(e) ==
  /\ pc = "asked" /\ mode # "embed"
  /\ e \in Failures
  /\ pc' = "failed"
  /\ err' = e
  /\ retry' = Retryable(e)
  /\ UNCHANGED <<mode, backup, first, slot, attempt, over, stream, embed, tries, result>>

Answered ==
  /\ pc = "asked" /\ mode = "chat"
  /\ Returns([kind |-> "answer"])
  /\ UNCHANGED <<mode, backup, first, slot, attempt, err, retry, over, stream, embed, tries>>

(* An error is returned, or slept over: the sleep does not end early. *)
Decide ==
  /\ pc = "failed"
  /\ IF ~retry \/ attempt = Attempts - 1 THEN Returns(Error(err)) /\ UNCHANGED attempt
     ELSE IF over THEN Returns(Error("ended")) /\ UNCHANGED attempt
     ELSE pc' = "sleeping" /\ attempt' = attempt + 1 /\ UNCHANGED result
  /\ UNCHANGED <<mode, backup, first, slot, err, retry, over, stream, embed, tries>>

Wake ==
  /\ pc = "sleeping"
  /\ pc' = "top"
  /\ UNCHANGED <<mode, backup, first, slot, attempt, err, retry, over, stream, embed, tries, result>>

(* isRetryableChatErr *)
FallsBack(e) == e \in {"transport", "busy", "named"}

(* The router: the fallback is asked by Chat, also when the primary streams.*)
Route ==
  /\ pc = "returned"
  /\ IF /\ slot = "primary" /\ mode # "embed" /\ backup
        /\ result.kind = "error" /\ FallsBack(result.err)
     THEN /\ slot' = "fallback" /\ mode' = "chat" /\ pc' = "top" /\ attempt' = 0
          /\ err' = None /\ first' = result.err
          /\ result' = [kind |-> None]
     ELSE pc' = "done" /\ UNCHANGED <<slot, mode, attempt, err, first, result>>
  /\ UNCHANGED <<backup, retry, over, stream, embed, tries>>

----------------------------------------------------------------------------
(* readSSE. *)

BodyBegins ==
  /\ pc = "asked" /\ mode = "stream"
  /\ pc' = "body"
  /\ sent' = Nothing /\ acc' = Empty
  /\ UNCHANGED <<mode, backup, first, slot, attempt, err, retry, over, shown, embed, tries, result>>

(* A chunk with the next token: it is kept and shown. *)
Token ==
  /\ pc = "body" /\ sent.tokens < Tokens
  /\ LET t == <<tries[slot], sent.tokens + 1>> IN
       /\ sent' = [sent EXCEPT !.tokens = @ + 1]
       /\ acc' = [acc EXCEPT !.content = Append(@, t)]
       /\ shown' = Append(shown, t)
  /\ UNCHANGED <<mode, backup, first, slot, pc, attempt, err, retry, over, embed, tries, result>>

(* slip: a chunk goes to the call begun first *)
CallOfFirst(i) == IF acc.seen = {} THEN i ELSE CHOOSE j \in acc.seen : \A k \in acc.seen : j <= k

CallOf(i) == i

(* A chunk with the next piece of call i, whose first names the call.       *)
Piece(i) ==
  /\ pc = "body" /\ sent.pieces[i] < Pieces[i]
  /\ LET n == sent.pieces[i] + 1
         j == CallOf(i)
         c == [id   |-> IF n = 1 THEN i ELSE acc.calls[j].id,
               args |-> Append(acc.calls[j].args, n)]
     IN  /\ sent' = [sent EXCEPT !.pieces[i] = n]
         /\ acc' = [acc EXCEPT !.calls[j] = c, !.seen = @ \cup {j}]
  /\ UNCHANGED <<mode, backup, first, slot, pc, attempt, err, retry, over, shown, embed, tries, result>>

(* The calls that were begun, in the order of their indices. *)
Message ==
  LET order == InOrder(acc.seen) IN
  [kind    |-> "answer",
   content |-> acc.content,
   calls   |-> [n \in DOMAIN order |-> acc.calls[order[n]]]]

(* [DONE], or the end of the body wherever it comes. *)
StreamEnds ==
  /\ pc = "body"
  /\ Returns(Message)
  /\ UNCHANGED <<mode, backup, first, slot, attempt, err, retry, over, stream, embed, tries>>

(* slip: a stream that broke off is tried again *)
RetryBodyToo == ~over

RetryBody == FALSE

StreamBreaks(e) ==
  /\ pc = "body"
  /\ e \in {"broken", "named"} \cup (IF over THEN {"ended"} ELSE {})
  /\ pc' = "failed"
  /\ err' = e
  /\ retry' = RetryBody
  /\ UNCHANGED <<mode, backup, first, slot, attempt, over, stream, embed, tries, result>>

----------------------------------------------------------------------------
(* Embed: one batch after the other, without a retry. *)

Count == IF Texts - start < Batch THEN Texts - start ELSE Batch

NextBatch ==
  /\ pc = "top" /\ mode = "embed"
  /\ IF start < Texts
     THEN Ask /\ UNCHANGED result
     ELSE Returns([kind |-> "answer", vectors |-> out]) /\ UNCHANGED tries
  /\ UNCHANGED <<mode, backup, first, slot, attempt, err, retry, over, stream, embed>>

BatchFails(e) ==
  /\ pc = "asked" /\ mode = "embed"
  /\ e \in Failures
  /\ Returns(Error(e))
  /\ UNCHANGED <<mode, backup, first, slot, attempt, err, retry, over, stream, embed, tries>>

(* The vector with index i is that of input i; 0 where there is none.       *)
Placed(data) == [i \in 1 .. Count |-> IF \E k \in 1 .. Len(data) : data[k] = i THEN i ELSE 0]

(* The indices that come back, counted from 1: in any order, too few, twice *)
(* or past the end.                                                         *)
BatchArrives(data) ==
  /\ pc = "asked" /\ mode = "embed"
  /\ LET part == Placed(data) IN
       IF \/ \E k \in 1 .. Len(data) : data[k] > Count
          \/ \E i \in 1 .. Count : part[i] = 0
       THEN Returns(Error("broken")) /\ UNCHANGED embed
       ELSE /\ out' = out \o [i \in 1 .. Count |-> start + part[i]]
            /\ start' = start + Count
            /\ pc' = "top"
            /\ UNCHANGED result
  /\ UNCHANGED <<mode, backup, first, slot, attempt, err, retry, over, stream, tries>>

----------------------------------------------------------------------------
(* What the endpoint answers with, or what becomes of the exchange. *)
Reply ==
  \/ \E e \in Errors : AttemptFails(e) \/ StreamBreaks(e) \/ BatchFails(e)
  \/ Answered \/ BodyBegins \/ StreamEnds
  \/ \E data \in BoundedSeq(1 .. Count + 1, Count) : BatchArrives(data)

Next ==
  \/ ContextEnds
  \/ Top \/ Decide \/ Wake \/ Route \/ NextBatch
  \/ Token \/ \E i \in Indices : Piece(i)
  \/ Reply

Spec == Init /\ [][Next]_vars

----------------------------------------------------------------------------
(* A provider is asked at most once more than the budget says.  The         *)
(* fallback is asked only when the primary has used up its attempts, or has *)
(* answered with an error that names a status: not when it refused, and not *)
(* when the context ended while the primary was still being retried.        *)
RetriesThenFallback ==
  /\ \A s \in Slots : mode # "embed" => tries[s] <= Attempts
  /\ tries["fallback"] > 0 =>
       \/ first \in {"transport", "busy"} /\ tries["primary"] = Attempts
       \/ first = "named"

(* The caller is shown the tokens of one request, in order and each once,   *)
(* and an answer that was streamed is what was shown.                       *)
TokensOnce ==
  /\ \A k \in 1 .. Len(shown) : shown[k] = <<shown[1][1], k>>
  /\ mode = "stream" /\ result.kind = "answer" => result.content = shown

(* What the endpoint has sent of the calls it began. *)
CallsSent ==
  LET begun == {i \in Indices : sent.pieces[i] > 0}
  IN  {[id |-> i, args |-> [n \in 1 .. sent.pieces[i] |-> n]] : i \in begun}

(* However the pieces of parallel tool calls are mixed, each call of the    *)
(* answer has its own name and its own arguments in order, and the calls    *)
(* are in order; and the vectors of an embedding are those of its texts,    *)
(* in whatever order they came, and none is missing.                        *)
Reassembled ==
  /\ mode = "stream" /\ result.kind = "answer" =>
       /\ ToSet(result.calls) = CallsSent
       /\ \A m, n \in 1 .. Len(result.calls) : m < n => result.calls[m].id < result.calls[n].id
  /\ mode = "embed" /\ result.kind = "answer" => result.vectors = [n \in 1 .. Texts |-> n]
=============================================================================
