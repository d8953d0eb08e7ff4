----------------------------- MODULE VectorStore -----------------------------
(***************************************************************************)
(* What a collection promises its callers: a map from ids to vectors on    *)
(* which every call takes effect at one moment between the moment it is    *)
(* made and the moment it returns.  Nothing here has a lock, an index's    *)
(* state or a pending change.                                              *)
(***************************************************************************)
EXTENDS Indices, FiniteSets

CONSTANTS Threads, Names, Requests, TopK

VARIABLES stored,   \* the vectors, by id
          indexed,  \* the names that have an index
          stage,    \* of each thread: "idle", "called" or "done"
          call, ret

vars == <<stored, indexed, stage, call, ret>>

NoAnswer == [ok |-> FALSE, ids |-> {}, got |-> Empty]

Only(m, ids) == [id \in Ids |-> IF id \in ids THEN m[id] ELSE Nil]

Least(a, b) == IF a < b THEN a ELSE b

Init ==
  /\ stored \in Stored
  /\ indexed \in SUBSET Names
  /\ stage = [t \in Threads |-> "idle"]
  /\ call = [t \in Threads |-> Nil]
  /\ ret = [t \in Threads |-> NoAnswer]

Move(t, s) == stage' = [stage EXCEPT ![t] = s]

Answer(t, a) == Move(t, "done") /\ ret' = [ret EXCEPT ![t] = a] /\ UNCHANGED call

Ask(t) ==
  /\ stage[t] = "idle"
  /\ \E c \in Requests : call' = [call EXCEPT ![t] = c]
  /\ Move(t, "called")
  /\ UNCHANGED <<stored, indexed, ret>>

Add(t) ==
  LET c == call[t] IN
  /\ stage[t] = "called" /\ c.op = "add"
  /\ stored' = [id \in Ids |-> IF id \in c.ids THEN c.val ELSE stored[id]]
  /\ Answer(t, [ok |-> TRUE, ids |-> c.ids \ Present(stored), got |-> Empty])
  /\ UNCHANGED indexed

Remove(t) ==
  LET c == call[t] IN
  /\ stage[t] = "called" /\ c.op = "remove"
  /\ stored' = [id \in Ids |-> IF id \in c.ids THEN Nil ELSE stored[id]]
  /\ Answer(t, [ok |-> TRUE, ids |-> c.ids \cap Present(stored), got |-> Empty])
  /\ UNCHANGED indexed

\* The vectors are gone, and the caller is told that the call failed.
RemoveFails(t) ==
  /\ stage[t] = "done" /\ call[t].op = "remove"
  /\ Answer(t, NoAnswer)
  /\ UNCHANGED <<stored, indexed>>

\* Without an index the TopK nearest vectors are all found; an index may miss
\* some, and may have nothing to say, but never returns what is not stored.
Search(t) ==
  LET live == Present(stored) IN
  /\ stage[t] = "called" /\ call[t].op = "search"
  /\ \E found \in SUBSET live, ok \in BOOLEAN :
       /\ Cardinality(found) <= TopK
       /\ call[t].name \notin indexed =>
            ok /\ Cardinality(found) = Least(TopK, Cardinality(live))
       /\ ~ok => found = {}
       /\ Answer(t, [ok |-> ok, ids |-> {}, got |-> Only(stored, found)])
  /\ UNCHANGED <<stored, indexed>>

Save(t) ==
  /\ stage[t] = "called" /\ call[t].op = "save"
  /\ Answer(t, [ok |-> TRUE, ids |-> {}, got |-> stored])
  /\ UNCHANGED <<stored, indexed>>

AddIndex(t) ==
  /\ stage[t] = "called" /\ call[t].op = "add_index"
  /\ indexed' = indexed \cup IF call[t].kind = "unknown" THEN {} ELSE {call[t].name}
  /\ Answer(t, [ok |-> call[t].kind # "unknown", ids |-> {}, got |-> Empty])
  /\ UNCHANGED stored

GetParams(t) ==
  /\ stage[t] = "called" /\ call[t].op = "get_index_params"
  /\ Answer(t, [ok |-> call[t].name \in indexed, ids |-> {}, got |-> Empty])
  /\ UNCHANGED <<stored, indexed>>

Return(t) ==
  /\ stage[t] = "done"
  /\ Move(t, "idle")
  /\ call' = [call EXCEPT ![t] = Nil]
  /\ ret' = [ret EXCEPT ![t] = NoAnswer]
  /\ UNCHANGED <<stored, indexed>>

Next ==
  \E t \in Threads :
    \/ Ask(t) \/ Add(t) \/ Remove(t) \/ RemoveFails(t) \/ Search(t)
    \/ Save(t) \/ AddIndex(t) \/ GetParams(t) \/ Return(t)

Spec == Init /\ [][Next]_vars
==============================================================================
