----------------------------- MODULE SessionMutex -----------------------------
(***************************************************************************)
(* What the run registry promises its callers about sessions, seen from    *)
(* outside: a session has at most one run at a time, a run has a session   *)
(* once, and nothing takes a session from the run that has it.             *)
(***************************************************************************)
CONSTANTS Runs, Sessions, NoRun

VARIABLES
  owner,   \* the run each session belongs to, or NoRun
  past     \* the runs that have had their session

Init == owner = [s \in Sessions |-> NoRun] /\ past = {}

Acquire(s, r) ==
  /\ owner[s] = NoRun
  /\ r \notin past
  /\ \A x \in Sessions : owner[x] # r
  /\ owner' = [owner EXCEPT ![s] = r]
  /\ past' = past

Release(s) ==
  /\ owner[s] # NoRun
  /\ past' = past \cup {owner[s]}
  /\ owner' = [owner EXCEPT ![s] = NoRun]

Next == \E s \in Sessions : Release(s) \/ \E r \in Runs : Acquire(s, r)

Spec == Init /\ [][Next]_<<owner, past>>
=============================================================================
