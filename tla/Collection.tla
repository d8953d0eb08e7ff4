------------------------------ MODULE Collection ------------------------------
(***************************************************************************)
(* One collection and its indices under concurrent calls.  Every RPC worker *)
(* thread runs one call at a time; a call is cut at every lock it takes, so *)
(* that the interleavings are those the locks allow.                       *)
(*                                                                         *)
(* Three kinds of shared_mutex guard a collection: vec_mutex_ its vectors, *)
(* idx_mutex_ the table of its indices, and one mutex_ inside each index.  *)
(* An index reads the vectors back through get_all_vector_ids and          *)
(* get_vector_by_id, which lock vec_mutex_ once more for every read.       *)
(***************************************************************************)
EXTENDS SharedMutex, Indices, FiniteSets

CONSTANTS Threads,   \* worker threads of the pool
          Names,     \* index names a call may mention
          Requests,  \* the calls clients make
          Loaded,    \* the parameters of the indices the collection was loaded with, by name
          Threshold, \* rebuild_threshold_ of the ivf_flat indices
          TopK,      \* k of every search
          MaxCount   \* bound: no new call while an ivf_flat index has counted so far

Ops == {"add", "remove", "search", "add_index", "get_index_params", "save"}

\* val is the vector an add stores, kind the index an add_index asks for, with k
\* clusters if it is ivf_flat: nobody checks that k is not 0.
Request == [op : Ops, ids : SUBSET Ids, val : Vals \cup {Nil}, name : Names,
            kind : Kinds \cup {"unknown"}, k : Nat]

ASSUME IdsAssumption == IsFiniteSet(Ids)
ASSUME ThreadAssumption == NoThread \notin Threads
ASSUME NameAssumption == Nil \notin Names
ASSUME IndexAssumption == Nil \notin Index
ASSUME RequestAssumption ==
  /\ Requests \subseteq Request /\ Nil \notin Requests
  /\ \A c \in Requests : c.op = "add" => c.val # Nil
ASSUME LoadedAssumption == Nil \notin Params /\ Loaded \in [Names -> Params \cup {Nil}]
ASSUME BoundAssumption == Threshold \in Nat /\ TopK \in Nat /\ MaxCount \in Nat

VARIABLES
  vectors,   \* vectors_
  indices,   \* indices_
  vec_mutex, idx_mutex,
  mutex,     \* mutex_ of the index of each name
  pc,        \* where each thread is
  call,      \* the request it serves
  batch,     \* the ids it passes to the indices (_new_ids, _removed_ids)
  left,      \* what remains of the loop over ids it is in
  todo,      \* the indices whose hook it has yet to call
  cur,       \* the index it is in (Nil: none, or the brute-force one)
  seen,      \* the vectors it has read in that loop
  since_read,\* vectors_since_rebuild_ as it loaded it
  ret,       \* what the call returns
  accepting  \* whether clients still make calls

store == <<vectors, indices>>
locks == <<vec_mutex, idx_mutex, mutex>>
locals == <<batch, left, todo, cur, seen, since_read>>
vars == <<store, locks, pc, call, locals, ret, accepting>>

Live == Present(vectors)
Installed == {n \in Names : indices[n] # Nil}

\* ok: the call did what it was asked; ids: the ids it added or removed;
\* got: the vectors it gives back (search) or writes out (save).
Answer == [ok : BOOLEAN, ids : SUBSET Ids, got : Stored]
NoAnswer == [ok |-> FALSE, ids |-> {}, got |-> Empty]

Goto(t, label) == pc' = [pc EXCEPT ![t] = label]

\* The call of t is over with answer a; what the thread knew is gone.
Reply(t, a) ==
  /\ Goto(t, "reply")
  /\ ret' = [ret EXCEPT ![t] = a]
  /\ batch' = [batch EXCEPT ![t] = {}]
  /\ left' = [left EXCEPT ![t] = {}]
  /\ todo' = [todo EXCEPT ![t] = {}]
  /\ cur' = [cur EXCEPT ![t] = Nil]
  /\ seen' = [seen EXCEPT ![t] = Empty]
  /\ since_read' = [since_read EXCEPT ![t] = 0]

(***************************************************************************)
(* A loop over the ids in left that reads each vector under its own shared *)
(* lock (get_vector_by_id) and keeps those that are still there.           *)
(***************************************************************************)
StartLoop(t, ids, label) ==
  /\ left' = [left EXCEPT ![t] = ids]
  /\ seen' = [seen EXCEPT ![t] = Empty]
  /\ Goto(t, label)

ReadNext(t, id) ==
  /\ id \in left[t]
  /\ CanShare(vec_mutex)
  /\ left' = [left EXCEPT ![t] = @ \ {id}]

Keep(t, id) == seen' = [seen EXCEPT ![t][id] = vectors[id]]

\* get_all_vector_ids, then the loop over what it returned.
ReadIds(t, label) ==
  /\ CanShare(vec_mutex)
  /\ StartLoop(t, Live, label)

ReadEach(t) ==
  /\ \E id \in left[t] : ReadNext(t, id) /\ Keep(t, id)
  /\ UNCHANGED <<store, locks, pc, call, batch, todo, cur, since_read, ret, accepting>>

SetIndex(t, i) == indices' = [indices EXCEPT ![cur[t]] = i]
LockCur(t) == mutex' = [mutex EXCEPT ![cur[t]] = Lock(@, t)]
UnlockCur(t) == mutex' = [mutex EXCEPT ![cur[t]] = Unlock(@)]

-----------------------------------------------------------------------------
(* The client's side of a call. *)

First(c) ==
  CASE c.op = "add" -> "addWrite"
    [] c.op = "remove" -> "remErase"
    [] c.op = "search" -> "seIdx"
    [] c.op = "add_index" -> "ixLock"
    [] c.op = "get_index_params" -> "params"
    [] c.op = "save" -> "svVec"

WithinBounds ==
  /\ \A t \in Threads : since_read[t] < MaxCount
  /\ \A n \in Installed : indices[n].kind = "ivf_flat" =>
       /\ indices[n].since < MaxCount
       /\ \A id \in Ids, v \in Vals : indices[n].filed[id][v] < MaxCount

Begin(t) ==
  /\ accepting /\ pc[t] = "idle" /\ WithinBounds
  /\ \E c \in Requests : call' = [call EXCEPT ![t] = c] /\ Goto(t, First(c))
  /\ UNCHANGED <<store, locks, locals, ret, accepting>>

Return(t) ==
  /\ pc[t] = "reply"
  /\ Goto(t, "idle")
  /\ call' = [call EXCEPT ![t] = Nil]
  /\ ret' = [ret EXCEPT ![t] = NoAnswer]
  /\ UNCHANGED <<store, locks, locals, accepting>>

StopCalls ==
  /\ accepting
  /\ accepting' = FALSE
  /\ UNCHANGED <<store, locks, pc, call, locals, ret>>

\* lock() of libc++: the writer is announced before it can enter.
Announce(t) ==
  /\ \/ /\ pc[t] \in {"addWrite", "remErase"} /\ CanAnnounce(vec_mutex)
        /\ vec_mutex' = Lock(vec_mutex, t)
        /\ UNCHANGED <<idx_mutex, mutex>>
     \/ /\ pc[t] = "ixLock" /\ CanAnnounce(idx_mutex)
        /\ call[t].kind # "unknown"
        /\ idx_mutex' = Lock(idx_mutex, t)
        /\ UNCHANGED <<vec_mutex, mutex>>
     \/ /\ pc[t] \in {"hnswNote", "ivfUnfile", "fileLock", "buildLock", "hnBuild"}
        /\ CanAnnounce(mutex[cur[t]])
        /\ LockCur(t)
        /\ UNCHANGED <<vec_mutex, idx_mutex>>
  /\ UNCHANGED <<store, pc, call, locals, ret, accepting>>

-----------------------------------------------------------------------------
(* add_vectors and remove_vectors.  An add lets go of vec_mutex_ before it *)
(* tells the indices; a remove holds on to it until they all know.         *)

\* Mutant: an update in place under a shared lock.
AddWrite_SharedLock(t) ==
  /\ pc[t] = "addWrite" /\ CanShare(vec_mutex)
  /\ vectors' = [id \in Ids |-> IF id \in call[t].ids THEN call[t].val ELSE vectors[id]]
  /\ batch' = [batch EXCEPT ![t] = call[t].ids]
  /\ ret' = [ret EXCEPT ![t] = [ok |-> TRUE, ids |-> call[t].ids \ Live, got |-> Empty]]
  /\ Goto(t, "notify")
  /\ UNCHANGED <<indices, locks, call, left, todo, cur, seen, since_read, accepting>>

\* Mutant: an update counts as an addition.
AddWrite_CountsUpdates(t) ==
  /\ pc[t] = "addWrite" /\ CanLock(vec_mutex, t)
  /\ vec_mutex' = Unlock(vec_mutex)
  /\ vectors' = [id \in Ids |-> IF id \in call[t].ids THEN call[t].val ELSE vectors[id]]
  /\ batch' = [batch EXCEPT ![t] = call[t].ids]
  /\ ret' = [ret EXCEPT ![t] = [ok |-> TRUE, ids |-> call[t].ids, got |-> Empty]]
  /\ Goto(t, "notify")
  /\ UNCHANGED <<indices, idx_mutex, mutex, call, left, todo, cur, seen, since_read, accepting>>

AddWrite(t) ==
  /\ pc[t] = "addWrite" /\ CanLock(vec_mutex, t)
  /\ vec_mutex' = Unlock(vec_mutex)
  /\ vectors' = [id \in Ids |-> IF id \in call[t].ids THEN call[t].val ELSE vectors[id]]
  /\ batch' = [batch EXCEPT ![t] = call[t].ids]
  /\ ret' = [ret EXCEPT ![t] = [ok |-> TRUE, ids |-> call[t].ids \ Live, got |-> Empty]]
  /\ Goto(t, "notify")
  /\ UNCHANGED <<indices, idx_mutex, mutex, call, left, todo, cur, seen, since_read, accepting>>

\* Mutant: the call returns how many ids it was given.
RemErase_CountsAsked(t) ==
  LET removed == call[t].ids \cap Live IN
  /\ pc[t] = "remErase" /\ CanLock(vec_mutex, t)
  /\ vectors' = [id \in Ids |-> IF id \in removed THEN Nil ELSE vectors[id]]
  /\ \/ /\ removed = {}
        /\ vec_mutex' = Unlock(vec_mutex)
        /\ Reply(t, [ok |-> TRUE, ids |-> {}, got |-> Empty])
     \/ /\ removed # {}
        /\ vec_mutex' = Lock(vec_mutex, t)
        /\ batch' = [batch EXCEPT ![t] = removed]
        /\ ret' = [ret EXCEPT ![t] = [ok |-> TRUE, ids |-> call[t].ids, got |-> Empty]]
        /\ Goto(t, "notify")
        /\ UNCHANGED <<left, todo, cur, seen, since_read>>
  /\ UNCHANGED <<indices, idx_mutex, mutex, call, accepting>>

RemErase(t) ==
  LET removed == call[t].ids \cap Live IN
  /\ pc[t] = "remErase" /\ CanLock(vec_mutex, t)
  /\ vectors' = [id \in Ids |-> IF id \in removed THEN Nil ELSE vectors[id]]
  /\ \/ /\ removed = {}
        /\ vec_mutex' = Unlock(vec_mutex)
        /\ Reply(t, [ok |-> TRUE, ids |-> {}, got |-> Empty])
     \/ /\ removed # {}
        /\ vec_mutex' = Lock(vec_mutex, t)
        /\ batch' = [batch EXCEPT ![t] = removed]
        /\ ret' = [ret EXCEPT ![t] = [ok |-> TRUE, ids |-> removed, got |-> Empty]]
        /\ Goto(t, "notify")
        /\ UNCHANGED <<left, todo, cur, seen, since_read>>
  /\ UNCHANGED <<indices, idx_mutex, mutex, call, accepting>>

Notify(t) ==
  /\ pc[t] = "notify" /\ CanShare(idx_mutex)
  /\ idx_mutex' = Share(idx_mutex, t)
  /\ todo' = [todo EXCEPT ![t] = Installed]
  /\ Goto(t, "hook")
  /\ UNCHANGED <<store, vec_mutex, mutex, call, batch, left, cur, seen, since_read, ret, accepting>>

\* Mutant: the hooks file into clusters_ without a look whether there are any.
HookLabel_NoEmptyCheck(t, i) ==
  CASE i.kind = "hnsw" -> "hnswNote"
    [] i.kind = "ivf_flat" -> "ivfLoad"

\* Mutant: an add, like a remove, has nothing to do for an index without clusters.
HookLabel_SkipsEmpty(t, i) ==
  CASE i.kind = "hnsw" -> "hnswNote"
    [] i.kind = "ivf_flat" /\ i.built -> "ivfLoad"
    [] i.kind = "ivf_flat" /\ ~i.built -> "hook"

\* The next index of the loop; ivf_flat looks at clusters_ without a lock.
HookLabel(t, i) ==
  CASE i.kind = "hnsw" -> "hnswNote"
    [] i.kind = "ivf_flat" /\ i.built -> "ivfLoad"
    [] i.kind = "ivf_flat" /\ ~i.built /\ call[t].op = "add" -> "buildLock"
    [] i.kind = "ivf_flat" /\ ~i.built /\ call[t].op = "remove" -> "hook"

HookNext(t) ==
  /\ pc[t] = "hook"
  /\ \E n \in todo[t] :
       /\ todo' = [todo EXCEPT ![t] = @ \ {n}]
       /\ cur' = [cur EXCEPT ![t] = n]
       /\ Goto(t, HookLabel(t, indices[n]))
  /\ UNCHANGED <<store, locks, call, batch, left, seen, since_read, ret, accepting>>

HooksDone(t) ==
  /\ pc[t] = "hook" /\ todo[t] = {}
  /\ idx_mutex' = Unshare(idx_mutex, t)
  /\ vec_mutex' = IF call[t].op = "remove" THEN Unlock(vec_mutex) ELSE vec_mutex
  /\ Reply(t, ret[t])
  /\ UNCHANGED <<store, mutex, call, accepting>>

-----------------------------------------------------------------------------
(* The hooks of an hnsw index only take notes. *)

HnswNote(t) ==
  LET i == indices[cur[t]] IN
  /\ pc[t] = "hnswNote" /\ CanLock(mutex[cur[t]], t)
  /\ UnlockCur(t)
  /\ SetIndex(t, IF call[t].op = "add" THEN HnswAdded(i, batch[t])
                                       ELSE HnswRemoved(i, batch[t]))
  /\ Goto(t, "hook")
  /\ UNCHANGED <<vectors, vec_mutex, idx_mutex, call, locals, ret, accepting>>

-----------------------------------------------------------------------------
(* The hooks of an ivf_flat index count the change, then either rebuild or *)
(* file the ids.  The count is read and written without mutex_.            *)

IvfLoad(t) ==
  /\ pc[t] = "ivfLoad"
  /\ since_read' = [since_read EXCEPT ![t] = indices[cur[t]].since]
  /\ Goto(t, "ivfStore")
  /\ UNCHANGED <<store, locks, call, batch, left, todo, cur, seen, ret, accepting>>

\* Mutant: below the threshold an add leaves the ids for the next rebuild.
IvfStore_Lazy(t) ==
  LET count == since_read[t] + Cardinality(batch[t]) IN
  /\ pc[t] = "ivfStore"
  /\ SetIndex(t, [indices[cur[t]] EXCEPT !.since = count])
  /\ Goto(t, IF count >= Threshold THEN "buildLock"
             ELSE IF call[t].op = "add" THEN "hook" ELSE "ivfUnfile")
  /\ since_read' = [since_read EXCEPT ![t] = 0]
  /\ UNCHANGED <<vectors, locks, call, batch, left, todo, cur, seen, ret, accepting>>

\* Mutant: the hook takes mutex_ for the count, and build takes it again.
IvfStore_Locked(t) ==
  LET count == since_read[t] + Cardinality(batch[t]) IN
  /\ pc[t] = "ivfStore" /\ CanLock(mutex[cur[t]], t)
  /\ SetIndex(t, [indices[cur[t]] EXCEPT !.since = count])
  /\ IF count >= Threshold THEN LockCur(t) /\ Goto(t, "buildLock")
     ELSE UNCHANGED mutex /\ Goto(t, IF call[t].op = "add" THEN "fileLock" ELSE "ivfUnfile")
  /\ since_read' = [since_read EXCEPT ![t] = 0]
  /\ UNCHANGED <<vectors, vec_mutex, idx_mutex, call, batch, left, todo, cur, seen, ret, accepting>>

IvfStore(t) ==
  LET count == since_read[t] + Cardinality(batch[t]) IN
  /\ pc[t] = "ivfStore"
  /\ SetIndex(t, [indices[cur[t]] EXCEPT !.since = count])
  /\ Goto(t, IF count >= Threshold THEN "buildLock"
             ELSE IF call[t].op = "add" THEN "fileLock" ELSE "ivfUnfile")
  /\ since_read' = [since_read EXCEPT ![t] = 0]
  /\ UNCHANGED <<vectors, locks, call, batch, left, todo, cur, seen, ret, accepting>>

FileLock(t) ==
  /\ pc[t] = "fileLock" /\ CanLock(mutex[cur[t]], t)
  /\ LockCur(t)
  /\ StartLoop(t, batch[t], "file")
  /\ UNCHANGED <<store, vec_mutex, idx_mutex, call, batch, todo, cur, since_read, ret, accepting>>

\* With no cluster there is no clusters_[0] to file into.
FileOne(t) ==
  LET i == indices[cur[t]] IN
  /\ pc[t] = "file"
  /\ \E id \in left[t] :
       /\ ReadNext(t, id)
       /\ \/ vectors[id] = Nil /\ UNCHANGED <<indices, pc>>
          \/ vectors[id] # Nil /\ i.built /\ SetIndex(t, IvfFiled(i, id, vectors[id])) /\ UNCHANGED pc
          \/ vectors[id] # Nil /\ ~i.built /\ Goto(t, "undefined") /\ UNCHANGED indices
  /\ UNCHANGED <<vectors, locks, call, batch, todo, cur, seen, since_read, ret, accepting>>

FileDone(t) ==
  /\ pc[t] = "file" /\ left[t] = {}
  /\ UnlockCur(t)
  /\ Goto(t, "hook")
  /\ UNCHANGED <<store, vec_mutex, idx_mutex, call, locals, ret, accepting>>

IvfUnfile(t) ==
  LET i == indices[cur[t]] IN
  /\ pc[t] = "ivfUnfile" /\ CanLock(mutex[cur[t]], t)
  /\ \E pick \in IvfPicks(i, batch[t]) : SetIndex(t, IvfUnfiled(i, pick))
  /\ UnlockCur(t)
  /\ Goto(t, "hook")
  /\ UNCHANGED <<vectors, vec_mutex, idx_mutex, call, locals, ret, accepting>>

(* build() *)

BuildLock(t) ==
  /\ pc[t] = "buildLock" /\ CanLock(mutex[cur[t]], t)
  /\ LockCur(t)
  /\ SetIndex(t, IvfCleared(indices[cur[t]]))
  /\ Goto(t, "buildIds")
  /\ UNCHANGED <<vectors, vec_mutex, idx_mutex, call, locals, ret, accepting>>

BuildIds(t) ==
  /\ pc[t] = "buildIds"
  /\ ReadIds(t, "buildRead")
  /\ UNCHANGED <<store, locks, call, batch, todo, cur, since_read, ret, accepting>>

\* libstdc++: a remove holds vec_mutex_ itself, and lock_shared throws.  Every
\* lock is released on the way out; neither the vectors nor clusters_ come back.
BuildThrow(t) ==
  /\ pc[t] = "buildIds" /\ ~Libcxx /\ vec_mutex.w = t
  /\ UnlockCur(t)
  /\ idx_mutex' = Unshare(idx_mutex, t)
  /\ vec_mutex' = Unlock(vec_mutex)
  /\ Reply(t, NoAnswer)
  /\ UNCHANGED <<store, call, accepting>>

BuildRead(t) == pc[t] = "buildRead" /\ ReadEach(t)

BuildDone(t) ==
  /\ pc[t] = "buildRead" /\ left[t] = {}
  /\ SetIndex(t, IvfRebuilt(indices[cur[t]], seen[t]))
  /\ UnlockCur(t)
  /\ seen' = [seen EXCEPT ![t] = Empty]
  /\ Goto(t, "hook")
  /\ UNCHANGED <<vectors, vec_mutex, idx_mutex, call, batch, left, todo, cur, since_read, ret, accepting>>

-----------------------------------------------------------------------------
(* add_index builds the index while it holds idx_mutex_, and installs it   *)
(* unless the name is taken.                                               *)

IxLock(t) ==
  /\ pc[t] = "ixLock"
  /\ \/ /\ call[t].kind = "unknown"
        /\ Reply(t, NoAnswer)
        /\ UNCHANGED idx_mutex
     \/ /\ call[t].kind # "unknown" /\ CanLock(idx_mutex, t)
        /\ idx_mutex' = Lock(idx_mutex, t)
        /\ Goto(t, "ixIds")
        /\ UNCHANGED <<locals, ret>>
  /\ UNCHANGED <<store, vec_mutex, mutex, call, accepting>>

IxIds(t) ==
  /\ pc[t] = "ixIds"
  /\ ReadIds(t, "ixRead")
  /\ UNCHANGED <<store, locks, call, batch, todo, cur, since_read, ret, accepting>>

IxRead(t) == pc[t] = "ixRead" /\ ReadEach(t)

IxInstall(t) ==
  LET n == call[t].name IN
  /\ pc[t] = "ixRead" /\ left[t] = {}
  /\ indices' = [indices EXCEPT ![n] = IF @ = Nil THEN Fresh(call[t], seen[t]) ELSE @]
  /\ idx_mutex' = Unlock(idx_mutex)
  /\ Reply(t, [ok |-> TRUE, ids |-> {}, got |-> Empty])
  /\ UNCHANGED <<vectors, vec_mutex, mutex, call, accepting>>

-----------------------------------------------------------------------------
(* search_for_top_k takes idx_mutex_, then vec_mutex_, and keeps both. *)

SeIdx(t) ==
  /\ pc[t] = "seIdx" /\ CanShare(idx_mutex)
  /\ idx_mutex' = Share(idx_mutex, t)
  /\ Goto(t, "seVec")
  /\ UNCHANGED <<store, vec_mutex, mutex, call, locals, ret, accepting>>

SearchLabel(i) ==
  CASE i = Nil -> "euIds"
    [] i # Nil /\ i.kind = "hnsw" -> "hnCheck"
    [] i # Nil /\ i.kind = "ivf_flat" -> "ivProbe"

\* Mutant: vec_mutex_ is left to the reads of the search.
SeVec_NoLock(t) ==
  LET n == call[t].name IN
  /\ pc[t] = "seVec" /\ CanShare(vec_mutex)
  /\ cur' = [cur EXCEPT ![t] = IF indices[n] = Nil THEN Nil ELSE n]
  /\ Goto(t, SearchLabel(indices[n]))
  /\ UNCHANGED <<store, locks, call, batch, left, todo, seen, since_read, ret, accepting>>

SeVec(t) ==
  LET n == call[t].name IN
  /\ pc[t] = "seVec" /\ CanShare(vec_mutex)
  /\ vec_mutex' = Share(vec_mutex, t)
  /\ cur' = [cur EXCEPT ![t] = IF indices[n] = Nil THEN Nil ELSE n]
  /\ Goto(t, SearchLabel(indices[n]))
  /\ UNCHANGED <<store, idx_mutex, mutex, call, batch, left, todo, seen, since_read, ret, accepting>>

\* Every lock of the search goes, and it answers.
SeEnd(t, a) ==
  /\ idx_mutex' = Unshare(idx_mutex, t)
  /\ vec_mutex' = Unshare(vec_mutex, t)
  /\ mutex' = [n \in Names |-> IF n = cur[t] THEN Unshare(mutex[n], t) ELSE mutex[n]]
  /\ Reply(t, a)
  /\ UNCHANGED <<store, call, accepting>>

\* The next read of a search that expects the vector: .value() of one that is
\* gone throws.  Brute force turns that into false, hnsw lets it through to the
\* handler; ivf_flat is tolerant and skips the id.
ReadOrFail(t, tolerant) ==
  \E id \in left[t] :
    IF vectors[id] = Nil /\ ~tolerant
    THEN CanShare(vec_mutex) /\ SeEnd(t, NoAnswer)
    ELSE /\ ReadNext(t, id) /\ Keep(t, id)
         /\ UNCHANGED <<store, locks, pc, call, batch, todo, cur, since_read, ret, accepting>>

(* Brute force: every vector is read and ranked, the best TopK read again. *)

EuIds(t) ==
  /\ pc[t] = "euIds"
  /\ ReadIds(t, "euScan")
  /\ UNCHANGED <<store, locks, call, batch, todo, cur, since_read, ret, accepting>>

EuScan(t) == pc[t] = "euScan" /\ ReadOrFail(t, FALSE)

Smaller(a, b) == IF a < b THEN a ELSE b

\* The query is any: so is the set of the nearest.
EuTop(t) ==
  LET found == Present(seen[t]) IN
  /\ pc[t] = "euScan" /\ left[t] = {}
  /\ \E best \in SUBSET found :
       /\ Cardinality(best) = Smaller(TopK, Cardinality(found))
       /\ StartLoop(t, best, "fetch")
  /\ UNCHANGED <<store, locks, call, batch, todo, cur, since_read, ret, accepting>>

(* hnsw: pending changes are applied first, under the exclusive lock; the  *)
(* shared lock is dropped for it and taken again.                          *)

\* Mutant: the shared lock is kept while the exclusive one is asked for.
HnCheck_NoUnlock(t) ==
  /\ pc[t] = "hnCheck" /\ CanShare(mutex[cur[t]])
  /\ mutex' = [mutex EXCEPT ![cur[t]] = Share(@, t)]
  /\ Goto(t, IF HnswPending(indices[cur[t]]) THEN "hnBuild" ELSE "hnKnn")
  /\ UNCHANGED <<store, vec_mutex, idx_mutex, call, locals, ret, accepting>>

HnCheck(t) ==
  /\ pc[t] = "hnCheck" /\ CanShare(mutex[cur[t]])
  /\ \/ HnswPending(indices[cur[t]]) /\ Goto(t, "hnBuild") /\ UNCHANGED mutex
     \/ /\ ~HnswPending(indices[cur[t]]) /\ Goto(t, "hnKnn")
        /\ mutex' = [mutex EXCEPT ![cur[t]] = Share(@, t)]
  /\ UNCHANGED <<store, vec_mutex, idx_mutex, call, locals, ret, accepting>>

HnBuild(t) ==
  LET i == indices[cur[t]] IN
  /\ pc[t] = "hnBuild" /\ CanLock(mutex[cur[t]], t)
  /\ LockCur(t)
  /\ SetIndex(t, HnswPruned(i))
  /\ StartLoop(t, i.to_be_inserted, "hnInsert")
  /\ UNCHANGED <<vectors, vec_mutex, idx_mutex, call, batch, todo, cur, since_read, ret, accepting>>

HnInsert(t) ==
  /\ pc[t] = "hnInsert"
  /\ \E id \in left[t] :
       /\ ReadNext(t, id)
       /\ SetIndex(t, HnswInserted(indices[cur[t]], id, vectors[id]))
  /\ UNCHANGED <<vectors, locks, pc, call, batch, todo, cur, seen, since_read, ret, accepting>>

HnBuilt(t) ==
  /\ pc[t] = "hnInsert" /\ left[t] = {}
  /\ SetIndex(t, HnswSettled(indices[cur[t]]))
  /\ UnlockCur(t)
  /\ Goto(t, "hnRelock")
  /\ UNCHANGED <<vectors, vec_mutex, idx_mutex, call, locals, ret, accepting>>

HnRelock(t) ==
  /\ pc[t] = "hnRelock" /\ CanShare(mutex[cur[t]])
  /\ mutex' = [mutex EXCEPT ![cur[t]] = Share(@, t)]
  /\ Goto(t, "hnKnn")
  /\ UNCHANGED <<store, vec_mutex, idx_mutex, call, locals, ret, accepting>>

\* Which of them the walk does come upon depends on the distances: here, any.
HnKnn(t) ==
  /\ pc[t] = "hnKnn"
  /\ \E best \in SUBSET HnswReach(indices[cur[t]]) :
       /\ Cardinality(best) <= TopK
       /\ StartLoop(t, best, "fetch")
  /\ UNCHANGED <<store, locks, call, batch, todo, cur, since_read, ret, accepting>>

(* ivf_flat: the ids of the probed clusters are read back. *)

IvProbe(t) ==
  LET i == indices[cur[t]] IN
  /\ pc[t] = "ivProbe" /\ CanShare(mutex[cur[t]])
  /\ \/ /\ ~i.built
        /\ SeEnd(t, NoAnswer)
     \/ /\ i.built
        /\ mutex' = [mutex EXCEPT ![cur[t]] = Share(@, t)]
        /\ \E probed \in SUBSET IvfHolds(i) : StartLoop(t, probed, "fetch")
        /\ UNCHANGED <<store, vec_mutex, idx_mutex, call, batch, todo, cur, since_read, ret, accepting>>

IsIvf(t) == cur[t] # Nil /\ indices[cur[t]].kind = "ivf_flat"

Fetch(t) == pc[t] = "fetch" /\ ReadOrFail(t, IsIvf(t))

\* Of the ivf entries only the TopK nearest are kept.
SeDone(t) ==
  /\ pc[t] = "fetch" /\ left[t] = {}
  /\ \E best \in SUBSET Present(seen[t]) :
       /\ Cardinality(best) = Smaller(TopK, Cardinality(Present(seen[t])))
       /\ SeEnd(t, [ok |-> IsIvf(t) => best # {}, ids |-> {},
                    got |-> [id \in Ids |-> IF id \in best THEN seen[t][id] ELSE Nil]])

-----------------------------------------------------------------------------
(* serialize and get_index_params *)

SvVec(t) ==
  /\ pc[t] = "svVec" /\ CanShare(vec_mutex)
  /\ vec_mutex' = Share(vec_mutex, t)
  /\ Goto(t, "svIdx")
  /\ UNCHANGED <<store, idx_mutex, mutex, call, locals, ret, accepting>>

SvIdx(t) ==
  /\ pc[t] = "svIdx" /\ CanShare(idx_mutex)
  /\ vec_mutex' = Unshare(vec_mutex, t)
  /\ Reply(t, [ok |-> TRUE, ids |-> {}, got |-> vectors])
  /\ UNCHANGED <<store, idx_mutex, mutex, call, accepting>>

GetParams(t) ==
  /\ pc[t] = "params" /\ CanShare(idx_mutex)
  /\ Reply(t, [ok |-> indices[call[t].name] # Nil, ids |-> {}, got |-> Empty])
  /\ UNCHANGED <<store, locks, call, accepting>>

-----------------------------------------------------------------------------
\* A new collection is empty; a loaded one has its vectors and, over them,
\* indices that init() has just built.
Init ==
  /\ vectors \in Stored
  /\ indices = [n \in Names |-> IF Loaded[n] = Nil THEN Nil ELSE Fresh(Loaded[n], vectors)]
  /\ vec_mutex = Unlocked /\ idx_mutex = Unlocked
  /\ mutex = [n \in Names |-> Unlocked]
  /\ pc = [t \in Threads |-> "idle"]
  /\ call = [t \in Threads |-> Nil]
  /\ batch = [t \in Threads |-> {}]
  /\ left = [t \in Threads |-> {}]
  /\ todo = [t \in Threads |-> {}]
  /\ cur = [t \in Threads |-> Nil]
  /\ seen = [t \in Threads |-> Empty]
  /\ since_read = [t \in Threads |-> 0]
  /\ ret = [t \in Threads |-> NoAnswer]
  /\ accepting = TRUE

Update(t) ==
  \/ AddWrite(t) \/ RemErase(t) \/ Notify(t) \/ HookNext(t) \/ HooksDone(t) \/ HnswNote(t)

IvfHook(t) ==
  \/ IvfLoad(t) \/ IvfStore(t) \/ FileLock(t) \/ FileOne(t) \/ FileDone(t) \/ IvfUnfile(t)
  \/ BuildLock(t) \/ BuildIds(t) \/ BuildThrow(t) \/ BuildRead(t) \/ BuildDone(t)

AddIndex(t) == IxLock(t) \/ IxIds(t) \/ IxRead(t) \/ IxInstall(t)

Search(t) ==
  \/ SeIdx(t) \/ SeVec(t) \/ EuIds(t) \/ EuScan(t) \/ EuTop(t)
  \/ HnCheck(t) \/ HnBuild(t) \/ HnInsert(t) \/ HnBuilt(t) \/ HnRelock(t) \/ HnKnn(t)
  \/ IvProbe(t) \/ Fetch(t) \/ SeDone(t)

Step(t) ==
  \/ Return(t) \/ Announce(t) \/ Update(t) \/ IvfHook(t) \/ AddIndex(t) \/ Search(t)
  \/ SvVec(t) \/ SvIdx(t) \/ GetParams(t)

AllIdle == \A t \in Threads : pc[t] = "idle"

\* The system may rest once the clients are gone.
Rest == ~accepting /\ AllIdle /\ UNCHANGED vars

Next == (\E t \in Threads : Begin(t) \/ Step(t)) \/ StopCalls \/ Rest

Spec == Init /\ [][Next]_vars

\* A thread that can take its next step is eventually scheduled.
FairSpec == Spec /\ \A t \in Threads : WF_vars(Step(t))

-----------------------------------------------------------------------------
(* Properties *)

Labels == {"idle", "reply", "addWrite", "remErase", "notify", "hook", "hnswNote",
           "ivfLoad", "ivfStore", "fileLock", "file", "ivfUnfile", "undefined",
           "buildLock", "buildIds", "buildRead", "ixLock", "ixIds", "ixRead",
           "seIdx", "seVec", "euIds", "euScan", "hnCheck", "hnBuild", "hnInsert",
           "hnRelock", "hnKnn", "ivProbe", "fetch", "svVec", "svIdx", "params"}

\* Every variable keeps its type; in particular no index counts the entries of an
\* id below none, and each lock has the holders its kind of lock may have.
TypeOK ==
  /\ vectors \in Stored
  /\ indices \in [Names -> Index \cup {Nil}]
  /\ vec_mutex \in Mutex(Threads)
  /\ idx_mutex \in Mutex(Threads)
  /\ mutex \in [Names -> Mutex(Threads)]
  /\ pc \in [Threads -> Labels]
  /\ call \in [Threads -> Requests \cup {Nil}]
  /\ batch \in [Threads -> SUBSET Ids]
  /\ left \in [Threads -> SUBSET Ids]
  /\ todo \in [Threads -> SUBSET Names]
  /\ cur \in [Threads -> Names \cup {Nil}]
  /\ seen \in [Threads -> Stored]
  /\ since_read \in [Threads -> Nat]
  /\ ret \in [Threads -> Answer]
  /\ accepting \in BOOLEAN

\* The threads that search while they hold both locks of search_for_top_k.
Reading == {"euIds", "euScan", "hnCheck", "hnBuild", "hnInsert", "hnRelock", "hnKnn",
            "ivProbe", "fetch"}

\* The brute-force search finds every vector it was told of: its branch that
\* "should never happen" does not, and .value() of what it is about to return
\* does not throw, whatever calls add, remove or index between two of its reads.
NoVanish ==
  \A t \in Threads :
    pc[t] = "euScan" \/ (pc[t] = "fetch" /\ cur[t] = Nil) => left[t] \subseteq Live

\* What a search has read is what the collection holds now, id by id: although
\* it reads one vector at a time, its answer is of one moment.
SearchSnapshot ==
  \A t \in Threads : pc[t] \in {"euScan", "fetch"} =>
    \A id \in Ids : seen[t][id] \in {Nil, vectors[id]}

\* The ids some update has written and not yet told every index about.
InFlight == UNION {batch[t] : t \in Threads}

\* The graph of an hnsw index once its pending changes are applied.
HnswOnceDrained(i) ==
  [id \in Ids |-> IF id \in i.to_be_inserted THEN vectors[id]
                  ELSE IF id \in i.to_be_removed THEN Nil
                  ELSE i.inserted[id]]

\* An hnsw index never loses a change: for every id no update is in flight
\* for, the graph with its pending changes applied holds the vector the
\* collection holds, in the middle of a build too, however the hooks of an add
\* (which come after vec_mutex_ is released) and of a remove are ordered.
HnswCatchesUp ==
  \A n \in Installed : indices[n].kind = "hnsw" =>
    \A id \in Ids \ InFlight : HnswOnceDrained(indices[n])[id] = vectors[id]

IsHnsw(t) == cur[t] # Nil /\ indices[cur[t]].kind = "hnsw"

\* A search that has drained the pending sets walks a graph of live nodes: all
\* that is inserted is in the collection, and .value() in search_knn throws only
\* for a stray: an id that build() did take out of the graph, or one that insert()
\* made the entry point of an empty graph and then found without a vector.
HnswNodesLive ==
  \A t \in Threads :
    /\ pc[t] = "hnKnn" => Present(indices[cur[t]].inserted) \subseteq Live
    /\ pc[t] = "fetch" /\ IsHnsw(t) => left[t] \ indices[cur[t]].stray \subseteq Live

Rebuilding(n) == \E t \in Threads : cur[t] = n /\ pc[t] \in {"buildIds", "buildRead"}

\* An ivf_flat index that has clusters files every vector no update is in
\* flight for, under the vector it has now: however the filing of an add, which
\* reads the vectors back one by one, meets removals and rebuilds.
IvfCatchesUp ==
  \A n \in Installed : indices[n].kind = "ivf_flat" /\ indices[n].built =>
    \A id \in Live \ InFlight : indices[n].filed[id][vectors[id]] > 0

\* Nobody leaves a rebuild to nobody.  An ivf_flat index that was asked for any
\* clusters is without them only while it is being rebuilt, or while every vector
\* there is belongs to an add that has yet to come to it; and where the count of
\* changes stands at rebuild_threshold_ or above, some thread is about to rebuild.
\* (It does not say how many changes that takes: hooks that load the count at the
\* same time lose some, and one that loaded it before a rebuild brings it back.)
IvfRebuilds ==
  \A n \in Installed : indices[n].kind = "ivf_flat" =>
    /\ ~indices[n].built /\ indices[n].k # 0 /\ ~Rebuilding(n) => Live \subseteq InFlight
    /\ indices[n].since > 0 /\ indices[n].since >= Threshold =>
         \E t \in Threads : cur[t] = n /\ pc[t] = "buildLock"

\* No thread files an id into a cluster that is not there (clusters_[0] of an
\* empty vector): the unlocked look at clusters_ that chose the path is stale
\* by the time the thread has mutex_.
NoUndefined == \A t \in Threads : pc[t] # "undefined"

\* The locks a thread asks for next, and whether it asks for them exclusively.
AsksVec(t) ==
  \/ pc[t] \in {"addWrite", "remErase", "buildIds", "ixIds", "seVec", "euIds", "svVec"}
  \/ pc[t] \in {"file", "buildRead", "ixRead", "euScan", "hnInsert", "fetch"} /\ left[t] # {}

AsksIdx(t) ==
  \/ pc[t] \in {"notify", "seIdx", "svIdx", "params"}
  \/ pc[t] = "ixLock" /\ call[t].kind # "unknown"

AsksMutex(t) == pc[t] \in {"hnswNote", "ivfUnfile", "fileLock", "buildLock", "hnCheck",
                           "hnBuild", "hnRelock", "ivProbe"}

AsksForAll(t) == pc[t] \in {"addWrite", "remErase", "ixLock", "hnswNote", "ivfUnfile",
                            "fileLock", "buildLock", "hnBuild"}

\* Who must let go of m before t gets it (t itself, if it holds it already).
InTheWay(m, t) ==
  (IF AsksForAll(t) THEN m.r \cup ({m.w} \ {t}) ELSE {m.w}) \ {NoThread}

WaitsFor(t) ==
  UNION {IF AsksVec(t) THEN InTheWay(vec_mutex, t) ELSE {},
         IF AsksIdx(t) THEN InTheWay(idx_mutex, t) ELSE {},
         IF AsksMutex(t) THEN InTheWay(mutex[cur[t]], t) ELSE {}}

\* A set of threads that wait for each other: none of them ever moves.
Circle(C) == C # {} /\ \A t \in C : WaitsFor(t) \cap C # {}

\* A removal that has erased: it keeps vec_mutex_ until every index is told.
Removing(t) == call[t].op = "remove" /\ vec_mutex.w = t /\ pc[t] # "remErase"

\* It wants idx_mutex_ from an add_index that wants to read the vectors.
RemovalMeetsAddIndex(C) ==
  \E r, a \in C : Removing(r) /\ AsksIdx(r) /\ call[a].op = "add_index" /\ idx_mutex.w = a

\* It wants the mutex_ of an ivf_flat index from an add that wants to read the
\* vectors it files or rebuilds from.
RemovalMeetsAdd(C) ==
  \E r, a \in C : Removing(r) /\ AsksMutex(r) /\ pc[a] \in {"file", "buildIds", "buildRead"}

\* It rebuilds an ivf_flat index itself.
RemovalRebuilds(C) == \E r \in C : Removing(r) /\ pc[r] = "buildIds"

\* libc++: a reader waits for vec_mutex_ behind a writer that waits for readers.
ReaderBehindWriter(C) ==
  \E r, w \in C : AsksVec(r) /\ ~AsksForAll(r) /\ vec_mutex.w = w /\ ~Removing(w)

\* The calls can wait for each other in four ways and in no other, whatever the
\* threads ask of a collection and whichever mutex it has: a removal is in each
\* of the circles, or a writer that waits for vec_mutex_ on libc++.  And no call
\* returns with a lock somebody waits for.
CirclesKnown ==
  /\ \A C \in SUBSET Threads : Circle(C) =>
       RemovalMeetsAddIndex(C) \/ RemovalMeetsAdd(C) \/ RemovalRebuilds(C) \/ ReaderBehindWriter(C)
  /\ \A t \in Threads : \A u \in WaitsFor(t) : pc[u] \notin {"idle", "reply"}

\* Once clients stop calling, every call they made returns: whatever locks the
\* calls take from each other, no set of them waits in a circle.
EveryCallReturns == ~accepting ~> AllIdle

\* remove_vectors "returns count removed": the same, of a removal.
RemoveReturns ==
  \A t \in Threads :
    (~accepting /\ call[t] # Nil /\ call[t].op = "remove") ~> (pc[t] \in {"reply", "idle"})

-----------------------------------------------------------------------------
(* The collection implements VectorStore, in which every call takes effect *)
(* at one moment: an add or a remove where it writes vectors_, every other *)
(* call where it answers.                                                  *)

Stage == [t \in Threads |->
  IF pc[t] = "idle" THEN "idle"
  ELSE IF pc[t] = "reply" \/ (call[t].op \in {"add", "remove"} /\ pc[t] \notin {"addWrite", "remErase"})
       THEN "done" ELSE "called"]

Abstract == INSTANCE VectorStore WITH
              stored <- vectors, indexed <- Installed, stage <- Stage

ImplementsVectorStore == Abstract!Spec
==============================================================================
