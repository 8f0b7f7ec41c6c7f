----------------------------- MODULE AgentHistory -----------------------------
(***************************************************************************)
(* What an agent does to its message list: agent/history.go, fold.go,      *)
(* summary_llm.go, and the profile block of memory.go.  Pure operators on  *)
(* the flat list the code keeps; AgentLoop applies them.                   *)
(*                                                                         *)
(* A message is [role, run, body].  The code marks the summary and the     *)
(* profile block by a prefix of a system message; here each is a role of   *)
(* its own.  The body of an assistant message is its sequence of tool      *)
(* calls (none in a final answer), of a tool message the call and its      *)
(* content, of the summary its bullets.  Every text is short and not       *)
(* empty: what a user, a tool or a final answer says is one bullet, and    *)
(* text next to tool calls is left out.                                    *)
(***************************************************************************)
EXTENDS Positions

CONSTANTS
  MaxHistoryMessages,   \* the cap on a committed history; 0 is none
  KeepRecentFullTurns,  \* newest turns that keep their tool messages; negative is all
  MaxSummaryBullets,    \* maxSummaryBullets
  SummaryRoom,          \* how many bullets fit into DefaultMaxSummaryRunes
  LLMSummary            \* whether a model compresses the summary

ASSUME HistoryAssumption ==
  /\ MaxHistoryMessages \in Nat
  /\ KeepRecentFullTurns \in Int
  /\ MaxSummaryBullets \in Nat \ {0}
  /\ SummaryRoom \in Nat
  /\ LLMSummary \in BOOLEAN

(* Runs are numbered from 1; a system message belongs to none. *)
NoRun == 0

Message(role, run, body) == [role |-> role, run |-> run, body |-> body]

SystemRoles == {"system", "summary", "profile"}

Where(msgs, Test(_)) == {i \in DOMAIN msgs : Test(msgs[i])}

IsUser(m) == m.role = "user"

IsFinal(m) == m.role = "assistant" /\ m.body = <<>>

IsSummary(m) == m.role = "summary"

(* system, summary, profile: the messages before the first m that is none *)
Leading(msgs) ==
  LET others == Where(msgs, LAMBDA m : m.role \notin SystemRoles) IN
  IF others = {} THEN Len(msgs) ELSE Min(others) - 1

InsertAfter(msgs, n, m) == SubSeq(msgs, 1, n) \o <<m>> \o SubSeq(msgs, n + 1, Len(msgs))

----------------------------------------------------------------------------
(* The profile block *)

Strip(msgs, role) == Pick(msgs, Where(msgs, LAMBDA m : m.role # role))

(* A profile block in the place of any other, after the leading system      *)
(* messages; an empty profile has none.                                     *)
UpsertProfile(msgs, known) ==
  LET filtered == Strip(msgs, "profile") IN
  IF known
  THEN InsertAfter(filtered, Leading(filtered), Message("profile", NoRun, <<>>))
  ELSE filtered

----------------------------------------------------------------------------
(* User turns: a user message and what follows it up to the next one *)

TurnStarts(msgs) == InOrder(Where(msgs, IsUser))

Prefix(msgs) ==
  LET users == Where(msgs, IsUser) IN
  SubSeq(msgs, 1, IF users = {} THEN Len(msgs) ELSE Min(users) - 1)

UserTurns(msgs) ==
  LET starts == TurnStarts(msgs)
      end(k) == IF k = Len(starts) THEN Len(msgs) ELSE starts[k + 1] - 1 IN
  [k \in DOMAIN starts |-> SubSeq(msgs, starts[k], end(k))]

JoinTurns(prefix, turns) == prefix \o FlattenSeq(turns)

(* A folded turn is the user message and the last final answer.  A turn     *)
(* without one does not occur in a committed history; the code then makes   *)
(* one of its tools' outcomes.                                              *)
FoldOneUserTurn(turn) ==
  LET finals == Where(turn, IsFinal) IN
  IF finals # {} THEN <<turn[1], turn[Max(finals)]>>
  ELSE IF Where(turn, LAMBDA m : m.role = "tool") # {}
       THEN <<turn[1], Message("assistant", turn[1].run, <<>>)>>
       ELSE <<turn[1]>>

(* slip: one turn too many *)
FoldOneMore(msgs) ==
  LET turns == UserTurns(msgs) IN
  JoinTurns(Prefix(msgs), [k \in DOMAIN turns |-> FoldOneUserTurn(turns[k])])

(* The default of KeepRecentFullTurns is one. *)
FoldOldTurns(msgs) ==
  LET turns == UserTurns(msgs)
      keep == IF KeepRecentFullTurns = 0 THEN 1 ELSE KeepRecentFullTurns
      cut == Len(turns) - keep IN
  IF keep < 0 \/ cut <= 0 THEN msgs
  ELSE JoinTurns(Prefix(msgs),
         [k \in DOMAIN turns |-> IF k <= cut THEN FoldOneUserTurn(turns[k]) ELSE turns[k]])

----------------------------------------------------------------------------
(* The summary of dropped turns *)

(* Lines that the next trim reads back as bullets: what truncateRunes says   *)
(* of the length it cut, and the header of a compressed summary.            *)
Cut(length) == <<"truncated", length>>
Compressed == <<"header">>

IsFact(bullet) == bullet[1] \notin {"truncated", "header"}

SummaryBody(msgs) ==
  LET i == SelectInSeq(msgs, IsSummary) IN IF i = 0 THEN <<>> ELSE msgs[i].body

FactsFromDropped(dropped) ==
  LET telling(m) == m.role \in {"user", "tool"} \/ IsFinal(m)
      told == Pick(dropped, Where(dropped, telling)) IN
  [i \in DOMAIN told |-> <<told[i].role, told[i].run, told[i].body>>]

Dedupe(bullets) ==
  Pick(bullets, {i \in DOMAIN bullets : \A j \in 1..(i - 1) : bullets[j] # bullets[i]})

(* truncateRunes keeps the beginning; a bullet it cuts in two counts as gone. *)
CapRunes(bullets) ==
  IF Len(bullets) <= SummaryRoom THEN bullets
  ELSE Append(SubSeq(bullets, 1, SummaryRoom), Cut(Len(bullets)))

Newest(bullets, n) ==
  IF Len(bullets) <= n THEN bullets ELSE SubSeq(bullets, Len(bullets) - n + 1, Len(bullets))

BuildSummary(prev, dropped) ==
  CapRunes(Newest(Dedupe(prev \o FactsFromDropped(dropped)), MaxSummaryBullets))

(* The draft, or what a model made of it: any selection of its bullets,     *)
(* under a header of its own.  A model that fails leaves the draft.         *)
Summaries(prev, dropped) ==
  LET draft == BuildSummary(prev, dropped) IN
  {draft} \cup
  IF ~ LLMSummary THEN {}
  ELSE {CapRunes(<<Compressed>> \o Pick(draft, some)) : some \in SUBSET DOMAIN draft}

(* After the first system message, or first; no other summary stays. *)
UpsertSummary(msgs, bullets) ==
  LET filtered == Strip(msgs, "summary")
      at == IF filtered # <<>> /\ filtered[1].role \in SystemRoles THEN 1 ELSE 0 IN
  InsertAfter(filtered, at, Message("summary", NoRun, bullets))

----------------------------------------------------------------------------
(* Trimming *)

(* How many of the oldest turns go: until the rest fits, never the last. *)
ToDrop(msgs) ==
  LET turns == UserTurns(msgs)
      size(k) == Len(Prefix(msgs)) + Len(FlattenSeq(SubSeq(turns, k + 1, Len(turns))))
      enough == {k \in 0..(Len(turns) - 1) : size(k) <= MaxHistoryMessages} IN
  IF turns = <<>> THEN 0 ELSE IF enough = {} THEN Len(turns) - 1 ELSE Min(enough)

(* Drop what must go, and put its facts into the summary. *)
Shrink(msgs) ==
  LET turns == UserTurns(msgs)
      n == ToDrop(msgs)
      gone == FlattenSeq(SubSeq(turns, 1, n))
      kept == JoinTurns(Prefix(msgs), SubSeq(turns, n + 1, Len(turns))) IN
  IF MaxHistoryMessages = 0 \/ Len(msgs) <= MaxHistoryMessages \/ n = 0 THEN {msgs}
  ELSE {UpsertSummary(kept, s) : s \in Summaries(SummaryBody(msgs), gone)}

(* slip: the message a new summary adds is not counted *)
TrimOnce(msgs) == Shrink(msgs)

(* A new summary may be one message too many; after that the summary is in  *)
(* the prefix and a second pass cannot add to the list.                     *)
TrimHistory(msgs) == UNION {Shrink(m) : m \in Shrink(msgs)}
=============================================================================
