---------------------------- MODULE ModelCallProofs ----------------------------
(* Proofs about ModelCall, for any budget of retries, any answer with any   *)
(* parallel tool calls and any number of texts and size of batches.         *)
EXTENDS ModelCall, PositionsProofs

----------------------------------------------------------------------------
(* The inductive invariant *)

(* Types *)
TypeInv ==
  /\ mode \in {"chat", "stream", "embed"} /\ backup \in BOOLEAN
  /\ slot \in Slots
  /\ pc \in {"top", "asked", "body", "failed", "sleeping", "returned", "done"}
  /\ attempt \in Nat /\ retry \in BOOLEAN /\ over \in BOOLEAN
  /\ sent \in [tokens : Nat, pieces : [Indices -> Nat]]
  /\ acc \in [content : Seq(Nat \X Nat),
              calls   : [Indices -> [id : Int, args : Seq(Nat)]],
              seen    : SUBSET Indices]
  /\ shown \in Seq(Nat \X Nat)
  /\ start \in 0 .. Texts /\ out \in Seq(Nat)
  /\ tries \in [Slots -> Nat]
  /\ result.kind \in {None, "error", "answer"}

(* A result is there when the call has returned. *)
ResultInv == pc \notin {"returned", "done"} => result.kind = None

(* How often the provider at work has been asked *)
AttemptInv == mode # "embed" =>
  /\ attempt < Attempts
  /\ pc \in {"top", "sleeping"} => tries[slot] = attempt
  /\ pc \in {"asked", "body", "failed"} => tries[slot] = attempt + 1
  /\ tries[slot] <= Attempts

(* An error on which the router falls back: it was the last of all the      *)
(* attempts, or names a status, or the fallback will not be asked.          *)
Exhausted(e, s) ==
  \/ e \in {"transport", "busy"} /\ tries[s] = Attempts
  \/ e = "named"

ErrorInv == mode # "embed" =>
  /\ pc = "failed" /\ ~retry /\ err \in {"transport", "busy"} => over
  /\ pc = "returned" /\ result.kind = "error" /\ FallsBack(result.err) =>
       over \/ Exhausted(result.err, slot)

(* The providers that are not at work *)
SlotInv ==
  /\ slot # "summary" => tries["summary"] = 0
  /\ slot # "fallback" => tries["fallback"] = 0
  /\ slot = "summary" => tries["primary"] = 0
  /\ slot = "fallback" =>
       /\ tries["primary"] <= Attempts
       /\ Exhausted(first, "primary") \/ (over /\ tries["fallback"] = 0)
  /\ slot # "primary" => mode = "chat"

(* The tokens shown are those of the one body that was begun. *)
ShownInv ==
  /\ \A k \in 1 .. Len(shown) : shown[k] = <<shown[1][1], k>>
  /\ pc = "body" =>
       /\ mode = "stream"
       /\ acc.content = shown /\ Len(shown) = sent.tokens
       /\ \A k \in 1 .. Len(shown) : shown[k] = <<tries[slot], k>>
  /\ mode = "stream" /\ (pc \in {"top", "asked", "sleeping"} \/ (pc = "failed" /\ retry)) =>
       shown = <<>>
  /\ mode = "stream" /\ result.kind = "answer" => result.content = shown

(* The first k pieces of a call *)
Told(k) == [n \in 1 .. k |-> n]

(* The accumulator holds of each call what was sent of it. *)
AccInv ==
  /\ acc.seen = {i \in Indices : sent.pieces[i] > 0}
  /\ \A i \in Indices : acc.calls[i].args = Told(sent.pieces[i])
  /\ \A i \in acc.seen : acc.calls[i] = [id |-> i, args |-> Told(sent.pieces[i])]
  /\ mode = "stream" /\ result.kind = "answer" => result.calls = Message.calls

(* The vectors are those of the texts before start, in order. *)
EmbedInv ==
  /\ out = [n \in 1 .. start |-> n]
  /\ mode = "embed" /\ pc # "top" => pc \in {"asked", "returned", "done"}
  /\ mode = "embed" /\ result.kind = "answer" => start = Texts /\ result.vectors = out

IInv ==
  /\ TypeInv /\ ResultInv /\ AttemptInv /\ ErrorInv /\ SlotInv /\ ShownInv /\ AccInv /\ EmbedInv

----------------------------------------------------------------------------
(* The steps, one after the other *)
LEMMA ConstantTypes ==
  /\ Attempts \in Nat \ {0} /\ Indices \subseteq Nat /\ IsFiniteSet(Indices)
  /\ Texts \in Nat /\ Batch \in Nat \ {0}
BY ModelCallAssumption DEF Attempts, RetryBudget, DefaultMaxRetries

(* A batch has a text at least, and none past the last. *)
LEMMA CountType ==
  ASSUME TypeInv PROVE Count \in Nat /\ start + Count \in 0 .. Texts
BY ConstantTypes DEF TypeInv, Count

LEMMA TypeStep == TypeInv /\ [Next]_vars => TypeInv'
<1> SUFFICES ASSUME TypeInv, [Next]_vars PROVE TypeInv'
  OBVIOUS
<1> USE DEF stream, embed, Returns, Error, Ask
<1>1. CASE ContextEnds
  BY <1>1 DEF ContextEnds, TypeInv
<1>2. CASE Top
  <2>1. tries' \in [Slots -> Nat]
    <3>1. tries[slot] + 1 \in Nat
      BY DEF TypeInv
    <3>2. tries' = [tries EXCEPT ![slot] = tries[slot] + 1] \/ UNCHANGED tries
      BY <1>2 DEF Top
    <3> QED
      BY <3>1, <3>2 DEF TypeInv
  <2>2. pc' \in {"asked", "returned"} /\ result'.kind \in {None, "error", "answer"}
    BY <1>2 DEF Top, TypeInv
  <2> QED
    BY <1>2, <2>1, <2>2 DEF Top, TypeInv
<1>3. CASE Decide
  BY <1>3, SMTT(30) DEF Decide, TypeInv
<1>4. CASE Wake
  BY <1>4 DEF Wake, TypeInv
<1>5. CASE Route
  BY <1>5 DEF Route, TypeInv, Slots
<1>6. CASE NextBatch
  <2>1. tries' \in [Slots -> Nat]
    <3>1. tries[slot] + 1 \in Nat
      BY DEF TypeInv
    <3>2. tries' = [tries EXCEPT ![slot] = tries[slot] + 1] \/ UNCHANGED tries
      BY <1>6 DEF NextBatch
    <3> QED
      BY <3>1, <3>2 DEF TypeInv
  <2>2. pc' \in {"asked", "returned"} /\ result'.kind \in {None, "error", "answer"}
    BY <1>6 DEF NextBatch, TypeInv
  <2> QED
    BY <1>6, <2>1, <2>2 DEF NextBatch, TypeInv
<1>7. CASE Token
  <2> DEFINE t == <<tries[slot], sent.tokens + 1>>
  <2>1. t \in Nat \X Nat
    BY DEF TypeInv
  <2>2. Append(shown, t) \in Seq(Nat \X Nat) /\ Append(acc.content, t) \in Seq(Nat \X Nat)
    BY <2>1, AppendProperties DEF TypeInv
  <2>3. sent' = [sent EXCEPT !.tokens = sent.tokens + 1]
        /\ acc' = [acc EXCEPT !.content = Append(acc.content, t)] /\ shown' = Append(shown, t)
    BY <1>7 DEF Token
  <2> HIDE DEF t
  <2>6. sent.tokens + 1 \in Nat
    BY DEF TypeInv
  <2>4. sent' \in [tokens : Nat, pieces : [Indices -> Nat]]
    BY <2>3, <2>6 DEF TypeInv
  <2>5. acc' \in [content : Seq(Nat \X Nat),
                  calls   : [Indices -> [id : Int, args : Seq(Nat)]],
                  seen    : SUBSET Indices]
    BY <2>2, <2>3 DEF TypeInv
  <2> QED
    BY <1>7, <2>2, <2>3, <2>4, <2>5 DEF Token, TypeInv
<1>8. CASE \E i \in Indices : Piece(i)
  <2>1. PICK i \in Indices : Piece(i)
    BY <1>8
  <2> DEFINE n == sent.pieces[i] + 1
             c == [id   |-> IF n = 1 THEN i ELSE acc.calls[i].id,
                   args |-> Append(acc.calls[i].args, n)]
  <2>2. n \in Nat /\ i \in Int /\ acc.calls[i] \in [id : Int, args : Seq(Nat)]
    BY ConstantTypes DEF TypeInv
  <2>3. c \in [id : Int, args : Seq(Nat)]
    BY <2>2, AppendProperties
  <2>4. sent' = [sent EXCEPT !.pieces[i] = n]
        /\ acc' = [acc EXCEPT !.calls[i] = c, !.seen = acc.seen \cup {i}]
    BY <2>1 DEF Piece, CallOf
  <2> HIDE DEF n, c
  <2>5. sent' \in [tokens : Nat, pieces : [Indices -> Nat]]
    BY <2>2, <2>4 DEF TypeInv
  <2>6. acc' \in [content : Seq(Nat \X Nat),
                  calls   : [Indices -> [id : Int, args : Seq(Nat)]],
                  seen    : SUBSET Indices]
    BY <2>3, <2>4 DEF TypeInv
  <2> QED
    BY <2>1, <2>5, <2>6 DEF Piece, TypeInv
<1>9. CASE \E e \in Errors : AttemptFails(e)
  BY <1>9 DEF AttemptFails, Retryable, TypeInv
<1>10. CASE \E e \in Errors : StreamBreaks(e)
  BY <1>10 DEF StreamBreaks, RetryBody, TypeInv
<1>11. CASE \E e \in Errors : BatchFails(e)
  BY <1>11 DEF BatchFails, TypeInv
<1>12. CASE Answered
  BY <1>12 DEF Answered, TypeInv
<1>13. CASE BodyBegins
  <2>1. sent' \in [tokens : Nat, pieces : [Indices -> Nat]]
    BY <1>13 DEF BodyBegins, Nothing
  <2>2. acc' \in [content : Seq(Nat \X Nat),
                  calls   : [Indices -> [id : Int, args : Seq(Nat)]],
                  seen    : SUBSET Indices]
    BY <1>13 DEF BodyBegins, Empty
  <2> QED
    BY <1>13, <2>1, <2>2 DEF BodyBegins, TypeInv
<1>14. CASE StreamEnds
  BY <1>14 DEF StreamEnds, Message, TypeInv
<1>15. CASE \E data \in BoundedSeq(1 .. Count + 1, Count) : BatchArrives(data)
  <2>1. PICK data \in BoundedSeq(1 .. Count + 1, Count) : BatchArrives(data)
    BY <1>15
  <2> DEFINE more == [i \in 1 .. Count |-> start + Placed(data)[i]]
  <2>2. \A i \in 1 .. Count : Placed(data)[i] \in Nat
    BY CountType DEF Placed
  <2>3. more \in Seq(Nat)
    <3>1. \A i \in 1 .. Count : start + Placed(data)[i] \in Nat
      BY <2>2, ConstantTypes DEF TypeInv
    <3> HIDE DEF Placed
    <3> QED
      BY <3>1, CountType
  <2>4. \/ /\ out' = out \o more /\ start' = start + Count /\ pc' = "top" /\ UNCHANGED result
        \/ /\ UNCHANGED <<out, start>> /\ pc' = "returned" /\ result' = Error("broken")
    BY <2>1 DEF BatchArrives
  <2> HIDE DEF more
  <2>5. out' \in Seq(Nat) /\ start' \in 0 .. Texts
    <3>1. out \o more \in Seq(Nat) /\ out \in Seq(Nat) /\ start \in 0 .. Texts
      BY <2>3, ConcatProperties DEF TypeInv
    <3> QED
      BY <2>4, <3>1, CountType
  <2> QED
    BY <2>1, <2>4, <2>5 DEF BatchArrives, TypeInv
<1>16. CASE UNCHANGED vars
  BY <1>16 DEF vars, TypeInv
<1> QED
  BY <1>1, <1>2, <1>3, <1>4, <1>5, <1>6, <1>7, <1>8, <1>9, <1>10, <1>11, <1>12, <1>13, <1>14,
     <1>15, <1>16 DEF Next, Reply

(* A step that neither asks a provider nor changes which one is at work.    *)
LEMMA AttemptKept ==
  ASSUME TypeInv, AttemptInv, SlotInv,
         UNCHANGED <<mode, first, slot, attempt, tries>>, over' = over \/ over' = TRUE,
         mode # "embed" =>
           \/ pc' = pc
           \/ pc \in {"top", "sleeping"} /\ pc' \in {"top", "sleeping"}
           \/ pc \in {"asked", "body", "failed"} /\ pc' \in {"asked", "body", "failed"}
           \/ pc' \in {"returned", "done"}
  PROVE  AttemptInv' /\ SlotInv'
BY DEF TypeInv, AttemptInv, SlotInv, Exhausted, Attempts, RetryBudget

LEMMA AttemptStep ==
  TypeInv /\ ResultInv /\ AttemptInv /\ ErrorInv /\ SlotInv /\ [Next]_vars =>
    ResultInv' /\ AttemptInv' /\ ErrorInv' /\ SlotInv'
<1> SUFFICES ASSUME TypeInv, ResultInv, AttemptInv, ErrorInv, SlotInv, [Next]_vars
             PROVE  ResultInv' /\ AttemptInv' /\ ErrorInv' /\ SlotInv'
  OBVIOUS
<1> USE DEF stream, embed, Returns, Error
<1>1. CASE ContextEnds
  <2>1. AttemptInv' /\ SlotInv'
    BY <1>1, AttemptKept DEF ContextEnds
  <2>2. ResultInv' /\ ErrorInv'
    BY <1>1 DEF ContextEnds, ResultInv, ErrorInv, Exhausted, Attempts, RetryBudget
  <2> QED
    BY <2>1, <2>2
<1>2. CASE Top
  <2>1. UNCHANGED <<mode, first, slot, attempt, err, retry, over>> /\ mode # "embed" /\ pc = "top"
    BY <1>2 DEF Top
  <2>2. CASE ~over
    <3>1. pc' = "asked" /\ tries' = [tries EXCEPT ![slot] = attempt + 1] /\ UNCHANGED result
      BY <1>2, <2>2 DEF Top, MayTry, Ask, AttemptInv
    <3>2. tries'[slot] = attempt + 1 /\ \A s \in Slots \ {slot} : tries'[s] = tries[s]
      BY <3>1 DEF TypeInv
    <3>3. AttemptInv'
      BY <2>1, <3>1, <3>2, ConstantTypes DEF AttemptInv, TypeInv, Attempts, RetryBudget
    <3>4. SlotInv'
      BY <2>1, <2>2, <3>1, <3>2 DEF SlotInv, TypeInv, Slots, Exhausted, Attempts, RetryBudget
    <3> QED
      BY <2>1, <3>1, <3>3, <3>4 DEF ResultInv, ErrorInv
  <2>3. CASE over
    <3>1. pc' = "returned" /\ UNCHANGED tries /\ over'
      BY <1>2, <2>1, <2>3 DEF Top, MayTry
    <3>2. AttemptInv' /\ SlotInv'
      BY <2>1, <3>1, AttemptKept
    <3> QED
      BY <3>1, <3>2 DEF ResultInv, ErrorInv
  <2> QED
    BY <2>2, <2>3 DEF TypeInv
<1>3. CASE Decide
  <2>1. UNCHANGED <<mode, first, slot, err, retry, over, tries>> /\ pc = "failed" /\ result.kind = None
    BY <1>3 DEF Decide, ResultInv
  <2>2. CASE ~retry \/ attempt = Attempts - 1 \/ over
    <3>1. UNCHANGED attempt /\ pc' = "returned" /\ result'.kind = "error"
      BY <1>3, <2>2 DEF Decide
    <3>2. AttemptInv' /\ SlotInv'
      BY <2>1, <3>1, AttemptKept
    <3>3. ErrorInv'
      <4> SUFFICES ASSUME mode # "embed", FallsBack(result'.err), ~over
                   PROVE  (Exhausted(result.err, slot))'
        BY <2>1, <3>1, Zenon DEF ErrorInv
      <4>1. result' = Error(err)
        <5>1. ~over' /\ result'.err \in {"transport", "busy", "named"}
          BY <2>1 DEF FallsBack
        <5>2. result' = Error(err) \/ result' = Error("ended")
          BY <1>3, <2>2 DEF Decide
        <5> QED
          BY <5>1, <5>2
      <4>2. result'.err = err
        BY <4>1
      <4>3. CASE ~retry
        BY <2>1, <4>2, <4>3 DEF ErrorInv, FallsBack, Exhausted, Attempts, RetryBudget
      <4>4. CASE attempt = Attempts - 1
        <5>1. tries[slot] = Attempts
          BY <2>1, <4>4, ConstantTypes DEF AttemptInv
        <5> QED
          BY <2>1, <4>2, <5>1 DEF FallsBack, Exhausted, Attempts, RetryBudget
      <4> QED
        BY <2>2, <4>3, <4>4
    <3> QED
      BY <3>1, <3>2, <3>3 DEF ResultInv
  <2>3. CASE retry /\ attempt # Attempts - 1 /\ ~over
    <3>1. pc' = "sleeping" /\ attempt' = attempt + 1 /\ UNCHANGED result
      BY <1>3, <2>3 DEF Decide
    <3>4. Attempts' = Attempts /\ Attempts \in Nat
      BY ConstantTypes DEF Attempts, RetryBudget
    <3>5. mode # "embed" => tries[slot] = attempt + 1 /\ attempt < Attempts /\ attempt \in Nat
      BY <2>1 DEF AttemptInv, TypeInv
    <3>2. AttemptInv'
      BY <2>1, <2>3, <3>1, <3>4, <3>5 DEF AttemptInv
    <3>3. SlotInv'
      BY <2>1, <3>1 DEF SlotInv, Exhausted, Attempts, RetryBudget
    <3> QED
      BY <2>1, <3>1, <3>2, <3>3 DEF ResultInv, ErrorInv
  <2> QED
    BY <2>2, <2>3
<1>4. CASE Wake
  <2>1. AttemptInv' /\ SlotInv'
    BY <1>4, AttemptKept DEF Wake
  <2> QED
    BY <1>4, <2>1 DEF Wake, ResultInv, ErrorInv
<1>5. CASE Route
  <2>1. UNCHANGED <<backup, retry, over, tries>> /\ pc = "returned"
    BY <1>5 DEF Route
  <2>2. CASE /\ slot = "primary" /\ mode # "embed" /\ backup
             /\ result.kind = "error" /\ FallsBack(result.err)
    <3>1. /\ slot' = "fallback" /\ mode' = "chat" /\ pc' = "top" /\ attempt' = 0
          /\ first' = result.err /\ result'.kind = None
      BY <1>5, <2>2 DEF Route
    <3>2. tries["fallback"] = 0 /\ tries["summary"] = 0 /\ tries["primary"] <= Attempts
      BY <2>2 DEF SlotInv, AttemptInv
    <3>3. AttemptInv'
      BY <2>1, <3>1, <3>2, ConstantTypes DEF AttemptInv, Attempts, RetryBudget
    <3>4. over \/ Exhausted(result.err, "primary")
      BY <2>1, <2>2 DEF ErrorInv
    <3>5. SlotInv'
      BY <2>1, <3>1, <3>2, <3>4 DEF SlotInv, Exhausted, Attempts, RetryBudget
    <3> QED
      BY <3>1, <3>3, <3>5 DEF ResultInv, ErrorInv
  <2>3. CASE ~ (/\ slot = "primary" /\ mode # "embed" /\ backup
                /\ result.kind = "error" /\ FallsBack(result.err))
    <3>1. pc' = "done" /\ UNCHANGED <<slot, mode, attempt, err, first, result>>
      BY <1>5, <2>3 DEF Route
    <3>2. AttemptInv' /\ SlotInv'
      BY <2>1, <3>1, AttemptKept
    <3> QED
      BY <3>1, <3>2 DEF ResultInv, ErrorInv
  <2> QED
    BY <2>2, <2>3
<1>6. CASE NextBatch
  <2>1. UNCHANGED <<mode, first, slot, attempt, err, retry, over>> /\ mode = "embed" /\ pc = "top"
    BY <1>6 DEF NextBatch
  <2>2. slot = "primary"
    BY <2>1 DEF SlotInv, TypeInv, Slots
  <2>3. tries'["fallback"] = tries["fallback"] /\ tries'["summary"] = tries["summary"]
    BY <1>6, <2>2 DEF NextBatch, Ask, TypeInv, Slots
  <2>4. SlotInv'
    BY <2>1, <2>2, <2>3 DEF SlotInv
  <2>5. ResultInv'
    BY <1>6 DEF NextBatch, Ask, ResultInv
  <2> QED
    BY <2>1, <2>4, <2>5 DEF AttemptInv, ErrorInv
<1>7. CASE Token \/ \E i \in Indices : Piece(i)
  <2>1. UNCHANGED <<mode, first, slot, pc, attempt, err, retry, over, tries, result>>
    BY <1>7 DEF Token, Piece
  <2>2. AttemptInv' /\ SlotInv'
    BY <2>1, AttemptKept
  <2> QED
    BY <2>1, <2>2 DEF ResultInv, ErrorInv, Exhausted, Attempts, RetryBudget
<1>8. CASE \E e \in Errors : AttemptFails(e)
  <2>1. PICK e \in Errors : AttemptFails(e)
    BY <1>8
  <2>2. AttemptInv' /\ SlotInv'
    BY <2>1, AttemptKept DEF AttemptFails
  <2>3. ErrorInv' /\ ResultInv'
    BY <2>1 DEF AttemptFails, Retryable, ErrorInv, ResultInv
  <2> QED
    BY <2>2, <2>3
<1>9. CASE \E e \in Errors : StreamBreaks(e)
  <2>1. PICK e \in Errors : StreamBreaks(e)
    BY <1>9
  <2>2. AttemptInv' /\ SlotInv'
    BY <2>1, AttemptKept DEF StreamBreaks
  <2>3. ErrorInv' /\ ResultInv'
    BY <2>1 DEF StreamBreaks, ErrorInv, ResultInv
  <2> QED
    BY <2>2, <2>3
<1>10. CASE \/ \E e \in Errors : BatchFails(e)
            \/ \E data \in BoundedSeq(1 .. Count + 1, Count) : BatchArrives(data)
  <2>1. UNCHANGED <<mode, first, slot, attempt, err, retry, over, tries>> /\ mode = "embed"
    BY <1>10 DEF BatchFails, BatchArrives
  <2>2. ResultInv'
    BY <1>10 DEF BatchFails, BatchArrives, ResultInv
  <2>3. AttemptInv' /\ SlotInv'
    BY <2>1, AttemptKept
  <2> QED
    BY <2>1, <2>2, <2>3 DEF ErrorInv
<1>11. CASE Answered \/ StreamEnds
  <2>1. UNCHANGED <<mode, first, slot, attempt, over, tries>> /\ pc' = "returned"
    BY <1>11 DEF Answered, StreamEnds
  <2>2. AttemptInv' /\ SlotInv'
    BY <2>1, AttemptKept
  <2>3. result'.kind = "answer"
    BY <1>11 DEF Answered, StreamEnds, Message
  <2> QED
    BY <2>1, <2>2, <2>3 DEF ResultInv, ErrorInv
<1>12. CASE BodyBegins
  <2>1. AttemptInv' /\ SlotInv'
    BY <1>12, AttemptKept DEF BodyBegins
  <2> QED
    BY <1>12, <2>1 DEF BodyBegins, ResultInv, ErrorInv
<1>13. CASE UNCHANGED vars
  <2>1. AttemptInv' /\ SlotInv'
    BY <1>13, AttemptKept DEF vars
  <2> QED
    BY <1>13, <2>1 DEF vars, ResultInv, ErrorInv, Exhausted, Attempts, RetryBudget
<1> QED
  BY <1>1, <1>2, <1>3, <1>4, <1>5, <1>6, <1>7, <1>8, <1>9, <1>10, <1>11, <1>12, <1>13
     DEF Next, Reply

(* A step that shows nothing, and begins or goes on with no body            *)
LEMMA ShownKept ==
  ASSUME ShownInv, UNCHANGED <<mode, sent, acc, shown, tries>>,
         pc' # "body" \/ (pc' = pc /\ UNCHANGED slot),
         \/ pc' \in {"top", "asked", "sleeping"} => pc \in {"top", "asked", "sleeping"}
         \/ mode # "stream",
         pc' = "failed" /\ retry' => shown = <<>> \/ mode # "stream",
         result'.kind = "answer" => mode # "stream" \/ UNCHANGED result
  PROVE  ShownInv'
BY DEF ShownInv

LEMMA ShownStep ==
  TypeInv /\ ResultInv /\ ShownInv /\ [Next]_vars => ShownInv'
<1> SUFFICES ASSUME TypeInv, ResultInv, ShownInv, [Next]_vars PROVE ShownInv'
  OBVIOUS
<1> USE DEF stream, embed, Returns, Error, None
<1>1. CASE ContextEnds \/ UNCHANGED vars
  BY <1>1, ShownKept DEF ContextEnds, vars, ShownInv
<1>2. CASE NextBatch \/ (\E e \in Errors : BatchFails(e))
           \/ (\E data \in BoundedSeq(1 .. Count + 1, Count) : BatchArrives(data))
  <2>1. mode = "embed" /\ UNCHANGED <<mode, shown>> /\ pc' # "body"
    BY <1>2 DEF NextBatch, BatchFails, BatchArrives, Ask
  <2> QED
    BY <2>1 DEF ShownInv
<1>3. CASE Top
  <2>1. UNCHANGED <<mode, shown>> /\ pc' \in {"asked", "returned"} /\ pc = "top"
        /\ result'.kind # "answer"
    BY <1>3 DEF Top, Ask, ResultInv
  <2> QED
    BY <2>1 DEF ShownInv
<1>4. CASE Decide
  <2>1. UNCHANGED <<mode, shown>> /\ pc = "failed" /\ pc' \in {"sleeping", "returned"}
        /\ (pc' = "sleeping" => retry) /\ result'.kind # "answer"
    BY <1>4 DEF Decide, ResultInv
  <2> QED
    BY <2>1 DEF ShownInv
<1>5. CASE Wake
  BY <1>5, ShownKept DEF Wake
<1>6. CASE Route
  <2>1. /\ UNCHANGED shown
        /\ (mode' # "stream" \/ (UNCHANGED <<mode, result>> /\ pc' = "done")) /\ pc' # "body"
    BY <1>6 DEF Route
  <2>2. pc' # "body"
    BY <1>6 DEF Route
  <2> QED
    BY <2>1, <2>2 DEF ShownInv
<1>7. CASE Token
  <2> DEFINE t == <<tries[slot], sent.tokens + 1>>
             n == Len(shown)
  <2>1. /\ sent'.tokens = sent.tokens + 1 /\ acc'.content = Append(acc.content, t)
        /\ shown' = Append(shown, t) /\ UNCHANGED <<mode, slot, pc, retry, tries, result>>
        /\ pc = "body"
    BY <1>7 DEF Token, TypeInv
  <2>2. /\ n \in Nat /\ shown \in Seq(Nat \X Nat) /\ n = sent.tokens /\ acc.content = shown
        /\ mode = "stream"
        /\ \A k \in 1 .. n : shown[k] = <<tries[slot], k>>
    BY <2>1 DEF ShownInv, TypeInv
  <2>3. t \in Nat \X Nat /\ t = <<tries[slot], n + 1>>
    BY <2>2 DEF TypeInv
  <2>4. /\ Len(shown') = n + 1 /\ shown'[n + 1] = t
        /\ \A k \in 1 .. n : shown'[k] = shown[k]
    BY <2>1, <2>2, <2>3, AppendProperties
  <2>5. \A k \in 1 .. Len(shown') : shown'[k] = <<tries[slot], k>>
    <3> TAKE k \in 1 .. Len(shown')
    <3> HIDE DEF t, n
    <3>1. CASE k \in 1 .. n
      BY <2>2, <2>4, <3>1
    <3>2. CASE k = n + 1
      BY <2>3, <2>4, <3>2
    <3> QED
      BY <2>2, <2>4, <3>1, <3>2
  <2>6. shown'[1][1] = tries[slot]
    <3>1. 1 \in 1 .. Len(shown')
      BY <2>2, <2>4
    <3> QED
      BY <2>5, <3>1
  <2>7. result.kind # "answer"
    BY <2>1 DEF ResultInv
  <2> HIDE DEF t, n
  <2> QED
    BY <2>1, <2>2, <2>4, <2>5, <2>6, <2>7 DEF ShownInv
<1>8. CASE \E i \in Indices : Piece(i)
  <2>1. PICK i \in Indices : Piece(i)
    BY <1>8
  <2>2. /\ sent'.tokens = sent.tokens /\ acc'.content = acc.content
        /\ UNCHANGED <<mode, slot, pc, retry, shown, tries, result>>
    BY <2>1 DEF Piece, CallOf, TypeInv
  <2> QED
    BY <2>2 DEF ShownInv
<1>9. CASE \E e \in Errors : AttemptFails(e)
  <2>1. PICK e \in Errors : AttemptFails(e)
    BY <1>9
  <2>2. mode = "stream" => shown = <<>>
    BY <2>1 DEF AttemptFails, ShownInv
  <2> QED
    BY <2>1, <2>2, ShownKept DEF AttemptFails
<1>10. CASE \E e \in Errors : StreamBreaks(e)
  BY <1>10, ShownKept DEF StreamBreaks, RetryBody
<1>11. CASE Answered
  BY <1>11, ShownKept DEF Answered
<1>12. CASE BodyBegins
  <2>1. /\ acc'.content = <<>> /\ sent'.tokens = 0 /\ UNCHANGED <<mode, shown, result>>
        /\ mode = "stream" /\ pc' = "body" /\ pc = "asked"
    BY <1>12 DEF BodyBegins, Nothing, Empty
  <2>2. shown = <<>> /\ Len(shown) = 0 /\ result.kind # "answer"
    BY <2>1 DEF ShownInv, ResultInv
  <2> QED
    BY <2>1, <2>2 DEF ShownInv
<1>13. CASE StreamEnds
  <2>1. /\ result'.content = acc.content /\ UNCHANGED <<mode, shown>> /\ pc = "body"
        /\ pc' = "returned"
    BY <1>13 DEF StreamEnds, Message
  <2> QED
    BY <2>1 DEF ShownInv
<1> QED
  BY <1>1, <1>2, <1>3, <1>4, <1>5, <1>6, <1>7, <1>8, <1>9, <1>10, <1>11, <1>12, <1>13
     DEF Next, Reply

LEMMA AccStep ==
  TypeInv /\ ResultInv /\ ShownInv /\ AccInv /\ [Next]_vars => AccInv'
<1> SUFFICES ASSUME TypeInv, ResultInv, ShownInv, AccInv, [Next]_vars PROVE AccInv'
  OBVIOUS
<1> USE DEF stream, embed, Returns, Error, None
<1>1. ASSUME UNCHANGED <<sent, acc>>,
             mode' # "stream" \/ UNCHANGED mode,
             mode' = "stream" /\ result'.kind = "answer" =>
               UNCHANGED result \/ result' = Message
      PROVE  AccInv'
  <2>1. Message' = Message
    BY <1>1 DEF Message, InOrder
  <2> QED
    BY <1>1, <2>1 DEF AccInv
<1>2. CASE ContextEnds \/ Wake \/ (\E e \in Errors : AttemptFails(e) \/ StreamBreaks(e))
           \/ UNCHANGED vars
  BY <1>1, <1>2 DEF ContextEnds, Wake, AttemptFails, StreamBreaks, vars
<1>3. CASE NextBatch \/ (\E e \in Errors : BatchFails(e)) \/ Answered
           \/ (\E data \in BoundedSeq(1 .. Count + 1, Count) : BatchArrives(data))
  <2>1. mode # "stream" /\ UNCHANGED <<mode, sent, acc>>
    BY <1>3 DEF NextBatch, BatchFails, BatchArrives, Answered
  <2> QED
    BY <1>1, <2>1
<1>4. CASE Top \/ Decide \/ Route
  <2>1. UNCHANGED <<sent, acc>> /\ (mode' # "stream" \/ UNCHANGED mode)
        /\ (result'.kind = "answer" => UNCHANGED result)
    BY <1>4 DEF Top, Decide, Route
  <2> QED
    BY <1>1, <2>1
<1>5. CASE Token
  <2>1. /\ sent'.pieces = sent.pieces /\ acc'.seen = acc.seen /\ acc'.calls = acc.calls
        /\ UNCHANGED <<mode, result>>
    BY <1>5 DEF Token, TypeInv
  <2>2. result.kind # "answer"
    BY <1>5 DEF Token, ResultInv
  <2> QED
    BY <2>1, <2>2 DEF AccInv
<1>6. CASE \E i \in Indices : Piece(i)
  <2>1. PICK i \in Indices : Piece(i)
    BY <1>6
  <2> DEFINE n == sent.pieces[i] + 1
             c == [id   |-> IF n = 1 THEN i ELSE acc.calls[i].id,
                   args |-> Append(acc.calls[i].args, n)]
  <2>2. sent' = [sent EXCEPT !.pieces[i] = n]
        /\ acc' = [acc EXCEPT !.calls[i] = c, !.seen = acc.seen \cup {i}]
    BY <2>1 DEF Piece, CallOf
  <2>3. sent.pieces[i] \in Nat
    BY DEF TypeInv
  <2>4. acc.calls[i].args = Told(sent.pieces[i])
    BY DEF AccInv
  <2>5. Append(Told(sent.pieces[i]), n) = Told(n)
    BY <2>3 DEF Told
  <2>6. n # 1 => acc.calls[i].id = i
    <3>1. n # 1 => i \in acc.seen
      BY <2>3 DEF AccInv
    <3>2. \A j \in acc.seen : acc.calls[j].id = j
      <4> TAKE j \in acc.seen
      <4>1. acc.calls[j] = [id |-> j, args |-> Told(sent.pieces[j])]
        BY DEF AccInv
      <4> QED
        BY <4>1
    <3> QED
      BY <3>1, <3>2
  <2>7. c = [id |-> i, args |-> Told(n)]
    BY <2>4, <2>5, <2>6
  <2>8. n \in Nat /\ n > 0
    BY <2>3
  <2> HIDE DEF n, c
  <2>9. /\ sent'.pieces = [sent.pieces EXCEPT ![i] = n]
        /\ acc'.calls = [acc.calls EXCEPT ![i] = c]
        /\ acc'.seen = acc.seen \cup {i}
    BY <2>2 DEF TypeInv
  <2>10. /\ sent'.pieces[i] = n /\ acc'.calls[i] = c
         /\ \A j \in Indices \ {i} : sent'.pieces[j] = sent.pieces[j] /\ acc'.calls[j] = acc.calls[j]
    BY <2>9 DEF TypeInv
  <2>11. acc'.seen = {j \in Indices : sent'.pieces[j] > 0}
    BY <2>8, <2>9, <2>10 DEF AccInv
  <2>12. \A j \in Indices : acc'.calls[j].args = Told(sent'.pieces[j])
    <3>1. \A j \in Indices : acc.calls[j].args = Told(sent.pieces[j])
      BY DEF AccInv
    <3> QED
      BY <2>7, <2>10, <3>1
  <2>13. \A j \in acc'.seen : acc'.calls[j] = [id |-> j, args |-> Told(sent'.pieces[j])]
    <3>1. \A j \in acc.seen : acc.calls[j] = [id |-> j, args |-> Told(sent.pieces[j])]
      BY DEF AccInv
    <3>2. acc.seen \subseteq Indices
      BY DEF TypeInv
    <3> QED
      BY <2>7, <2>9, <2>10, <3>1, <3>2
  <2>14. result'.kind # "answer"
    BY <2>1 DEF Piece, ResultInv
  <2> QED
    BY <2>11, <2>12, <2>13, <2>14 DEF AccInv
<1>7. CASE BodyBegins
  <2>1. /\ sent'.pieces = [i \in Indices |-> 0] /\ acc'.seen = {}
        /\ acc'.calls = [i \in Indices |-> [id |-> -1, args |-> <<>>]]
        /\ result'.kind # "answer"
    BY <1>7 DEF BodyBegins, Nothing, Empty, ResultInv
  <2>2. [n \in 1 .. 0 |-> n] = <<>>
    OBVIOUS
  <2>3. \A i \in Indices : acc'.calls[i].args = <<>> /\ sent'.pieces[i] = 0
    BY <2>1
  <2>4. \A i \in Indices : acc'.calls[i].args = Told(sent'.pieces[i])
    BY <2>2, <2>3 DEF Told
  <2>5. acc'.seen = {i \in Indices : sent'.pieces[i] > 0}
    BY <2>1, <2>3
  <2> QED
    BY <2>1, <2>4, <2>5 DEF AccInv
<1>8. CASE StreamEnds
  BY <1>1, <1>8 DEF StreamEnds
<1> QED
  BY <1>2, <1>3, <1>4, <1>5, <1>6, <1>7, <1>8 DEF Next, Reply

LEMMA EmbedStep ==
  TypeInv /\ ResultInv /\ EmbedInv /\ [Next]_vars => EmbedInv'
<1> SUFFICES ASSUME TypeInv, ResultInv, EmbedInv, [Next]_vars PROVE EmbedInv'
  OBVIOUS
<1> USE DEF stream, embed, Returns, Error, None
<1>1. ASSUME UNCHANGED <<mode, start, out>>,
             mode = "embed" =>
               /\ pc' \in {"top", "asked", "returned", "done"}
               /\ \/ result'.kind # "answer" \/ UNCHANGED result
                  \/ start = Texts /\ result'.vectors = out
      PROVE  EmbedInv'
  BY <1>1 DEF EmbedInv
<1>2. CASE ContextEnds \/ UNCHANGED vars
  BY <1>2 DEF ContextEnds, vars, EmbedInv
<1>3. CASE Top \/ Token \/ (\E i \in Indices : Piece(i)) \/ Answered \/ BodyBegins \/ StreamEnds
           \/ (\E e \in Errors : AttemptFails(e) \/ StreamBreaks(e))
  <2>1. mode # "embed" /\ UNCHANGED <<mode, start, out>>
    BY <1>3 DEF Top, Token, Piece, Answered, BodyBegins, StreamEnds, AttemptFails, StreamBreaks,
                EmbedInv, TypeInv
  <2> QED
    BY <1>1, <2>1
<1>4. CASE Decide \/ Wake
  <2>1. mode # "embed" /\ UNCHANGED <<mode, start, out>>
    BY <1>4 DEF Decide, Wake, EmbedInv
  <2> QED
    BY <1>1, <2>1
<1>5. CASE Route
  <2>1. UNCHANGED <<start, out>> /\ (mode = "embed" \/ mode' = "embed" => UNCHANGED <<mode, result>>)
        /\ (mode = "embed" => pc' = "done")
    BY <1>5 DEF Route
  <2> QED
    BY <2>1 DEF EmbedInv
<1>6. CASE NextBatch
  <2>1. UNCHANGED <<mode, start, out>> /\ pc' \in {"asked", "returned"}
    BY <1>6 DEF NextBatch, Ask
  <2>2. UNCHANGED result \/ (~(start < Texts) /\ result'.vectors = out)
    BY <1>6 DEF NextBatch, Ask
  <2>3. start \in 0 .. Texts /\ Texts \in Nat
    BY ConstantTypes DEF TypeInv
  <2>4. ~(start < Texts) => start = Texts
    BY <2>3
  <2> QED
    BY <1>1, <2>1, <2>2, <2>4
<1>7. CASE \E e \in Errors : BatchFails(e)
  BY <1>1, <1>7 DEF BatchFails
<1>8. CASE \E data \in BoundedSeq(1 .. Count + 1, Count) : BatchArrives(data)
  <2>1. PICK data \in BoundedSeq(1 .. Count + 1, Count) : BatchArrives(data)
    BY <1>8
  <2> DEFINE n == Count
             part == Placed(data)
  <2>2. CASE \E i \in 1 .. n : part[i] = 0
    <3>1. UNCHANGED <<mode, start, out>> /\ pc' = "returned" /\ result'.kind = "error"
      BY <2>1, <2>2 DEF BatchArrives
    <3> QED
      BY <1>1, <3>1
  <2>3. CASE UNCHANGED embed
    <3>1. pc' \in {"top", "returned"} /\ UNCHANGED mode /\ result'.kind # "answer"
      BY <2>1 DEF BatchArrives, ResultInv
    <3> QED
      BY <1>1, <2>3, <3>1
  <2>4. CASE /\ \A i \in 1 .. n : part[i] # 0
             /\ ~ UNCHANGED embed
    <3>1. /\ out' = out \o [i \in 1 .. n |-> start + part[i]]
          /\ start' = start + n /\ pc' = "top" /\ UNCHANGED <<mode, result>> /\ pc = "asked"
      BY <2>1, <2>4 DEF BatchArrives
    <3>2. \A i \in 1 .. n : part[i] = i
      BY <2>4 DEF Placed
    <3>3. n \in Nat /\ start \in Nat
      BY CountType, ConstantTypes DEF TypeInv
    <3>4. out' = [i \in 1 .. start |-> i] \o [i \in 1 .. n |-> start + i]
      <4>1. [i \in 1 .. n |-> start + part[i]] = [i \in 1 .. n |-> start + i]
        BY <3>2
      <4> QED
        BY <3>1, <4>1 DEF EmbedInv
    <3> HIDE DEF n, part
    <3>5. out' = [i \in 1 .. (start + n) |-> i]
      BY <3>3, <3>4
    <3>6. result.kind # "answer"
      BY <3>1 DEF ResultInv
    <3> QED
      BY <3>1, <3>5, <3>6 DEF EmbedInv
  <2> QED
    BY <2>2, <2>3, <2>4
<1> QED
  BY <1>2, <1>3, <1>4, <1>5, <1>6, <1>7, <1>8 DEF Next, Reply

LEMMA InitInv == Init => IInv
<1> SUFFICES ASSUME Init PROVE IInv
  OBVIOUS
<1> USE DEF Init, None, stream, embed
<1>1. TypeInv
  <2>1. sent \in [tokens : Nat, pieces : [Indices -> Nat]]
    BY DEF Nothing
  <2>2. acc \in [content : Seq(Nat \X Nat),
                 calls   : [Indices -> [id : Int, args : Seq(Nat)]],
                 seen    : SUBSET Indices]
    BY DEF Empty
  <2>3. shown \in Seq(Nat \X Nat) /\ out \in Seq(Nat) /\ start \in 0 .. Texts /\ attempt \in Nat
    BY ConstantTypes
  <2>4. tries \in [Slots -> Nat] /\ slot \in Slots
    BY DEF Slots
  <2> QED
    BY <2>1, <2>2, <2>3, <2>4 DEF TypeInv
<1>2. ResultInv /\ ErrorInv
  BY DEF ResultInv, ErrorInv
<1>3. AttemptInv
  <2>1. tries[slot] = 0
    BY DEF Slots
  <2> QED
    BY <2>1, ConstantTypes DEF AttemptInv
<1>4. SlotInv
  BY DEF SlotInv, Slots
<1>5. ShownInv
  BY DEF ShownInv
<1>6. AccInv
  <2>1. [n \in 1 .. 0 |-> n] = <<>>
    OBVIOUS
  <2>2. \A i \in Indices : acc.calls[i].args = <<>> /\ sent.pieces[i] = 0
    BY DEF Empty, Nothing
  <2>3. \A i \in Indices : acc.calls[i].args = Told(sent.pieces[i])
    BY <2>1, <2>2 DEF Told
  <2>4. acc.seen = {} /\ {i \in Indices : sent.pieces[i] > 0} = {}
    BY <2>2 DEF Empty
  <2> QED
    BY <2>3, <2>4 DEF AccInv
<1>7. EmbedInv
  <2>1. [n \in 1 .. 0 |-> n] = <<>>
    OBVIOUS
  <2> QED
    BY <2>1 DEF EmbedInv
<1> QED
  BY <1>1, <1>2, <1>3, <1>4, <1>5, <1>6, <1>7 DEF IInv

----------------------------------------------------------------------------
(* The inductive invariant of the calls holds in every reachable state.     *)
THEOREM Invariance == Spec => []IInv
<1>1. Init => IInv
  BY InitInv
<1>2. IInv /\ [Next]_vars => IInv'
  BY TypeStep, AttemptStep, ShownStep, AccStep, EmbedStep DEF IInv
<1> QED
  BY <1>1, <1>2, PTL DEF Spec

(* No provider is asked more often than the budget of retries allows, for   *)
(* any budget, and the fallback only when the primary's attempts are used   *)
(* up or its error names a status.                                          *)
THEOREM RetriesBounded == Spec => []RetriesThenFallback
<1>1. IInv => RetriesThenFallback
  <2> SUFFICES ASSUME IInv PROVE RetriesThenFallback
    OBVIOUS
  <2>1. \A s \in Slots : mode # "embed" => tries[s] <= Attempts
    BY ConstantTypes DEF IInv, AttemptInv, SlotInv, TypeInv, Slots
  <2>2. tries["fallback"] > 0 => Exhausted(first, "primary")
    BY DEF IInv, SlotInv
  <2> QED
    BY <2>1, <2>2 DEF RetriesThenFallback, Exhausted
<1> QED
  BY <1>1, Invariance, PTL

(* The caller of a stream is shown each token of one answer once and in     *)
(* order, and gets what it was shown, for an answer of any length.          *)
THEOREM TokensShownOnce == Spec => []TokensOnce
<1>1. IInv => TokensOnce
  BY DEF IInv, ShownInv, TokensOnce
<1> QED
  BY <1>1, Invariance, PTL

(* Tool calls and vectors are put together from what was sent, however many *)
(* there are and however they were mixed.                                   *)
THEOREM AnswersReassembled == Spec => []Reassembled
<1>1. IInv => Reassembled
  <2> SUFFICES ASSUME IInv PROVE Reassembled
    OBVIOUS
  <2>1. ASSUME mode = "stream", result.kind = "answer"
        PROVE  /\ ToSet(result.calls) = CallsSent
               /\ \A m, n \in 1 .. Len(result.calls) :
                    m < n => result.calls[m].id < result.calls[n].id
    <3> DEFINE order == InOrder(acc.seen)
               c == Cardinality(acc.seen)
               sentOf(i) == [id |-> i, args |-> Told(sent.pieces[i])]
    <3>1. acc.seen \in SUBSET Nat /\ IsFiniteSet(acc.seen)
      BY ConstantTypes, FS_Subset DEF IInv, TypeInv
    <3>2. /\ c \in Nat /\ order \in Seq(acc.seen) /\ DOMAIN order = 1 .. c
          /\ \A k, l \in 1 .. c : k < l <=> order[k] < order[l]
          /\ \A i \in acc.seen : \E k \in 1 .. c : order[k] = i
      BY <3>1, InOrderProperties
    <3>3. \A k \in 1 .. c : order[k] \in acc.seen
      BY <3>2
    <3>4. result.calls = [n \in 1 .. c |-> acc.calls[order[n]]]
      BY <2>1, <3>2 DEF IInv, AccInv, Message
    <3>5. \A i \in acc.seen : acc.calls[i] = sentOf(i)
      BY DEF IInv, AccInv
    <3>6. CallsSent = {sentOf(i) : i \in acc.seen}
      BY DEF IInv, AccInv, CallsSent, Told
    <3> HIDE DEF sentOf, order, c
    <3>7. result.calls = [n \in 1 .. c |-> sentOf(order[n])]
      BY <3>3, <3>4, <3>5
    <3>8. DOMAIN result.calls = 1 .. c /\ Len(result.calls) = c
      BY <3>2, <3>7
    <3>9. ToSet(result.calls) = CallsSent
      BY <3>2, <3>3, <3>6, <3>7, <3>8 DEF ToSet
    <3>10. \A m \in 1 .. c : result.calls[m].id = order[m]
      BY <3>7 DEF sentOf
    <3>11. \A m, n \in 1 .. c : m < n => result.calls[m].id < result.calls[n].id
      BY <3>2, <3>10
    <3> QED
      BY <3>8, <3>9, <3>11
  <2>2. mode = "embed" /\ result.kind = "answer" => result.vectors = [n \in 1 .. Texts |-> n]
    BY DEF IInv, EmbedInv
  <2> QED
    BY <2>1, <2>2 DEF Reassembled
<1> QED
  BY <1>1, Invariance, PTL
=============================================================================
