----------------------------- MODULE DurableTable -----------------------------
(***************************************************************************)
(* What the database promises of its collections: calls change one of them *)
(* at one moment, and not which there are while a save goes on; each file  *)
(* is replaced by a whole one at one moment; the process may end at any    *)
(* moment and takes the table with it; the next one has what was saved,    *)
(* all of it from the moment it serves.  Nothing here has a lock, a        *)
(* temporary file or a loop.                                               *)
(***************************************************************************)
CONSTANTS Names, Ids, Absent, Torn

VARIABLES table,  \* the content of each collection
          saved,  \* that of its file
          seen,   \* the contents it has had since the save began
          phase,  \* "down", "up" or "saving"
          lossy   \* whether a file was ever left incomplete, or unread

vars == <<table, saved, seen, phase, lossy>>

Nowhere(x) == [n \in Names |-> x]

Init ==
  /\ table = Nowhere(Absent) /\ saved = Nowhere(Absent) /\ seen = Nowhere({})
  /\ phase = "down" /\ lossy = FALSE

Create(n) ==
  /\ phase = "up" /\ table[n] = Absent
  /\ table' = [table EXCEPT ![n] = {}] /\ UNCHANGED seen

Drop(n) ==
  /\ phase = "up" /\ table[n] # Absent
  /\ table' = [table EXCEPT ![n] = Absent] /\ UNCHANGED seen

\* Vectors come, or vectors go.
Change(n) ==
  /\ table[n] # Absent
  /\ \E c \in SUBSET Ids :
       /\ c \subseteq table[n] \/ table[n] \subseteq c
       /\ table' = [table EXCEPT ![n] = c]
       /\ seen' = IF phase = "saving" THEN [seen EXCEPT ![n] = @ \cup {c}] ELSE seen

Call ==
  /\ phase # "down" /\ UNCHANGED <<saved, phase, lossy>>
  /\ \E n \in Names : Create(n) \/ Drop(n) \/ Change(n)

BeginSave ==
  /\ phase = "up" /\ phase' = "saving"
  /\ seen' = [n \in Names |-> {table[n]}]
  /\ UNCHANGED <<table, saved, lossy>>

\* Each file has its own moment of the save: the files of a save need not agree.
SaveOne(n) ==
  /\ phase = "saving"
  /\ \E c \in seen[n] \cup (IF lossy THEN {Torn} ELSE {}) :
       c # Absent /\ saved' = [saved EXCEPT ![n] = c]
  /\ UNCHANGED <<table, seen, phase, lossy>>

EndSave ==
  /\ phase = "saving" /\ phase' = "up"
  /\ seen' = Nowhere({})
  /\ UNCHANGED <<table, saved, lossy>>

\* A write that falls short, or a file that cannot be opened.
Lose == lossy' = TRUE /\ UNCHANGED <<table, saved, seen, phase>>

Crash ==
  /\ phase # "down" /\ phase' = "down"
  /\ table' = Nowhere(Absent) /\ seen' = Nowhere({})
  /\ UNCHANGED <<saved, lossy>>

\* After a failure a collection may be missing, and one whose file is incomplete
\* may be anything; a whole file is still never read as what it does not say.
Restore ==
  /\ phase = "down" /\ phase' = "up"
  /\ table' \in [Names -> {Absent} \cup SUBSET Ids]
  /\ \A n \in Names : table'[n] = saved[n] \/ (lossy /\ (table'[n] = Absent \/ saved[n] = Torn))
  /\ UNCHANGED <<saved, seen, lossy>>

Next ==
  \/ Call \/ BeginSave \/ EndSave \/ Lose \/ Crash \/ Restore
  \/ \E n \in Names : SaveOne(n)

Spec == Init /\ [][Next]_vars
==============================================================================
