----------------------------- MODULE ProfileFile -----------------------------
(***************************************************************************)
(* agent.Memory, the profile a process keeps in memory and in a JSON file. *)
(* The agent of the REPL - or every agent of "serve" - shares one Memory,  *)
(* which parallel tool goroutines update; each background task loads one   *)
(* of its own from the file.  A save writes the whole file.                *)
(*                                                                         *)
(* The file is truncated and then written, under the mutex of its path and *)
(* flock, here one lock.  In between it is empty, which reads as an empty  *)
(* profile; a process that dies or a disk that is full may leave it so, or *)
(* Garbled.  Trimming and clipping of the texts are left out, and likes    *)
(* are the same when EqualFold says so.                                    *)
(***************************************************************************)
EXTENDS Naturals, Sequences, SequencesExt

CONSTANTS
  Goroutines,
  Tasks,      \* those of them that are background tasks, with a Memory of their own
  Values,     \* texts
  None,       \* no text, no goroutine
  Garbled,    \* a file that is not JSON
  Patches,    \* the updates that are made: a name or None, likes and notes
  MaxLikes, MaxNotes,
  MaxUpdates  \* bounds the model: updates made

Shared == "shared"
Copies == {Shared} \cup Tasks
Profiles == [name : Values \cup {None}, likes : Seq(Values), notes : Seq(Values)]

ASSUME ProfileFileAssumption ==
  /\ Tasks \subseteq Goroutines /\ Shared \notin Goroutines
  /\ None \notin Values \cup Goroutines \cup {Shared} /\ Garbled \notin Profiles
  /\ Patches \subseteq Profiles
  /\ {MaxLikes, MaxNotes, MaxUpdates} \subseteq Nat \ {0}

VARIABLES
  up,       \* does the process run?
  file,     \* what a load would read
  lock,     \* the goroutine that holds the lock of the file, or None
  mem,      \* the profile in each Memory
  at,       \* the Memory each goroutine uses, or None: a task that has not begun
  mu,       \* who holds Memory.mu, for each Memory
  pc,       \* "idle", "changed", "writing"
  image,    \* the JSON it is about to write
  updates,  \* updates made so far
  last,     \* the profile last saved as a whole
  author,   \* and the Memory it is from
  stale,    \* the Memories that have not seen the last save
  torn      \* has a save failed or been cut short?

history == <<updates, last, author, stale, torn>>
vars    == <<up, file, lock, mem, at, mu, pc, image, history>>

Empty == [name |-> None, likes |-> <<>>, notes |-> <<>>]
----------------------------------------------------------------------------
(* The text is new: it goes to the end, and the newest are kept. *)
Added(texts, v, max) ==
  IF v \in ToSet(texts) THEN texts
  ELSE LET longer == Append(texts, v)
       IN  IF Len(longer) > max
           THEN SubSeq(longer, Len(longer) - max + 1, Len(longer))
           ELSE longer

(* slip: a list that is full loses one text too many *)
AddNoteShort(notes, v) == Added(notes, v, IF Len(notes) = MaxNotes THEN MaxNotes - 1 ELSE MaxNotes)

AddNote(notes, v) == Added(notes, v, MaxNotes)

AddLike(likes, v) == Added(likes, v, MaxLikes)

(* ApplyPatch; SetField and Remember are patches of one field. *)
Patched(m, p) ==
  [name  |-> IF p.name = None THEN m.name ELSE p.name,
   likes |-> FoldLeft(AddLike, m.likes, p.likes),
   notes |-> FoldLeft(AddNote, m.notes, p.notes)]

Init ==
  /\ up = FALSE
  /\ file = Empty /\ lock = None
  /\ mem = [c \in Copies |-> Empty]
  /\ at = [g \in Goroutines |-> None]
  /\ mu = [c \in Copies |-> None]
  /\ pc = [g \in Goroutines |-> "idle"]
  /\ image = [g \in Goroutines |-> Empty]
  /\ updates = 0
  /\ last = Empty /\ author = None /\ stale = {} /\ torn = FALSE

(* slip: a load does not wait for the lock *)
MayLoadAlways == TRUE

MayLoad == lock = None

(* Who loads a file in which a save has failed has not seen the last whole one. *)
AfterLoad(c) == IF torn THEN stale \cup {c} ELSE stale \ {c}

(* The process starts, unless its profile cannot be read. *)
Start ==
  /\ ~up
  /\ MayLoad
  /\ file # Garbled
  /\ up' = TRUE
  /\ mem' = [mem EXCEPT ![Shared] = file]
  /\ stale' = AfterLoad(Shared)
  /\ at' = [g \in Goroutines |-> IF g \in Tasks THEN None ELSE Shared]
  /\ UNCHANGED <<file, lock, mu, pc, image, updates, last, author, torn>>

(* A task loads a Memory of its own, and shares the other if it cannot. *)
TaskBegins(t) ==
  /\ up /\ t \in Tasks /\ at[t] = None
  /\ MayLoad
  /\ IF file = Garbled
     THEN at' = [at EXCEPT ![t] = Shared] /\ UNCHANGED <<mem, stale>>
     ELSE /\ at' = [at EXCEPT ![t] = t]
          /\ mem' = [mem EXCEPT ![t] = file]
          /\ stale' = AfterLoad(t)
  /\ UNCHANGED <<up, file, lock, mu, pc, image, updates, last, author, torn>>

TaskEnds(t) ==
  /\ t \in Tasks /\ at[t] # None /\ pc[t] = "idle"
  /\ at' = [at EXCEPT ![t] = None]
  /\ UNCHANGED <<up, file, lock, mem, mu, pc, image, history>>

(* slip: mu is given up before the save *)
HeldForChange(g) == None

(* mu is held from the change until the end of the save. *)
Held(g) == g

(* The profile in memory changes and is marshalled. *)
Changes(g, m) ==
  LET c == at[g] IN
  /\ c # None /\ pc[g] = "idle" /\ mu[c] = None
  /\ updates < MaxUpdates
  /\ mu' = [mu EXCEPT ![c] = Held(g)]
  /\ mem' = [mem EXCEPT ![c] = m]
  /\ image' = [image EXCEPT ![g] = m]
  /\ pc' = [pc EXCEPT ![g] = "changed"]
  /\ updates' = updates + 1
  /\ UNCHANGED <<up, file, lock, at, last, author, stale, torn>>

Update(g, p) == at[g] # None /\ Changes(g, Patched(mem[at[g]], p))

(* /memory clear and /new all, of the REPL. *)
Clear(g) == g \notin Tasks /\ Changes(g, Empty)

(* os.WriteFile, under the lock: the file is truncated, *)
Truncate(g) ==
  /\ pc[g] = "changed"
  /\ lock = None
  /\ lock' = g
  /\ file' = Empty
  /\ pc' = [pc EXCEPT ![g] = "writing"]
  /\ UNCHANGED <<up, mem, at, mu, image, history>>

Released(g) ==
  /\ pc' = [pc EXCEPT ![g] = "idle"]
  /\ mu' = [c \in Copies |-> IF mu[c] = g THEN None ELSE mu[c]]
  /\ lock' = IF lock = g THEN None ELSE lock

(* and written. *)
Write(g) ==
  /\ pc[g] = "writing"
  /\ file' = image[g] /\ last' = image[g] /\ author' = at[g]
  /\ stale' = Copies \ {at[g]}
  /\ torn' = FALSE
  /\ Released(g)
  /\ UNCHANGED <<up, mem, at, image, updates>>

(* The error is dropped: the tool reports success. *)
SaveFails(g) ==
  /\ pc[g] \in {"changed", "writing"}
  /\ \/ UNCHANGED file
     \/ pc[g] = "writing" /\ file' = Garbled
  /\ torn' = TRUE
  /\ Released(g)
  /\ UNCHANGED <<up, mem, at, image, updates, last, author, stale>>

(* The process is killed; what was written stays, and the lock goes. *)
Crash ==
  /\ up
  /\ up' = FALSE
  /\ \/ UNCHANGED file
     \/ lock # None /\ file' = Garbled
  /\ torn' = (torn \/ lock # None)
  /\ lock' = None
  /\ at' = [g \in Goroutines |-> None]
  /\ mu' = [c \in Copies |-> None]
  /\ pc' = [g \in Goroutines |-> "idle"]
  /\ UNCHANGED <<mem, image, updates, last, author, stale>>

Next ==
  \/ Start \/ Crash
  \/ \E g \in Goroutines :
       \/ TaskBegins(g) \/ TaskEnds(g)
       \/ Clear(g) \/ \E p \in Patches : Update(g, p)
       \/ Truncate(g) \/ Write(g) \/ SaveFails(g)

Spec == Init /\ [][Next]_vars

----------------------------------------------------------------------------
(* What a profile holds is up to Patched. *)
TypeOK ==
  /\ up \in BOOLEAN /\ torn \in BOOLEAN
  /\ lock \in Goroutines \cup {None}
  /\ DOMAIN mem = Copies /\ DOMAIN image = Goroutines
  /\ author \in Copies \cup {None} /\ stale \subseteq Copies
  /\ at \in [Goroutines -> Copies \cup {None}]
  /\ mu \in [Copies -> Goroutines \cup {None}]
  /\ pc \in [Goroutines -> {"idle", "changed", "writing"}]

(* A load never sees a file that is being written: it reads the profile of  *)
(* the last save, unless a save has failed or the process died in one.      *)
LoadSeesWholeSave == [][~torn =>
  /\ ~up /\ up' => mem'[Shared] = last
  /\ \A t \in Tasks : at[t] = None /\ at'[t] = t => mem'[t] = last]_vars

InUse(c) == c # None /\ \E g \in Goroutines : at[g] = c
Busy(c)  == \E g \in Goroutines : at[g] = c /\ pc[g] # "idle"

(* When nobody is busy with the Memory that was saved last, the file holds  *)
(* what that Memory holds: parallel tool calls never leave an older profile *)
(* behind a newer one.                                                      *)
FileIsNewest ==
  InUse(author) /\ ~Busy(author) /\ lock = None /\ ~torn => file = mem[author]

(* A list of texts has lost one without being full. *)
Lost(old, new, max) == Len(new) # max /\ \E v \in ToSet(old) : v \notin ToSet(new)

Forgets(old, new) ==
  \/ old.name # None /\ new.name = None
  \/ Lost(old.likes, new.likes, MaxLikes)
  \/ Lost(old.notes, new.notes, MaxNotes)

(* A save that forgets a name, or a text that no newer one has pushed out,  *)
(* is a clearing, or a save had failed before it, or its Memory had not     *)
(* seen the last save: nothing but that loses an update.                    *)
OnlyStaleForgets ==
  [][Forgets(last, last') => last' = Empty \/ torn \/ author' \in stale]_vars
=============================================================================
