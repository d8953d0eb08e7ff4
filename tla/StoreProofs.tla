------------------------------ MODULE StoreProofs ------------------------------
(***************************************************************************)
(* A collection is a VectorStore: whatever its threads do between the locks *)
(* they take, its callers see a map on which each call takes effect at one *)
(* moment.                                                                 *)
(***************************************************************************)
EXTENDS IndexProofs

-----------------------------------------------------------------------------
(* What the refinement needs beside the types, the locks and the snapshots *)
(* of the searches: the code a thread is in is that of its call, an indexed *)
(* search is in the index its call names, and a brute-force search has all *)
(* vectors before it or behind it, and then as many of them as it may give. *)

CallOf(t) ==
  /\ pc[t] \in {"seIdx", "seVec"} \cup Reading => call[t].op = "search"
  /\ pc[t] \in {"ixLock", "ixIds", "ixRead"} => call[t].op = "add_index"
  /\ pc[t] \in {"svVec", "svIdx"} => call[t].op = "save"
  /\ pc[t] = "params" => call[t].op = "get_index_params"
  /\ pc[t] \in Reading /\ cur[t] # Nil => cur[t] = call[t].name

Complete(t) ==
  /\ pc[t] = "euScan" => left[t] \cup Present(seen[t]) = Live
  /\ pc[t] = "fetch" /\ cur[t] = Nil =>
       Cardinality(left[t] \cup Present(seen[t])) = Smaller(TopK, Cardinality(Live))

StoreInv == \A t \in Threads : CallOf(t) /\ Complete(t)

LEMMA Counts ==
  ASSUME NEW S \in SUBSET Ids
  PROVE  /\ IsFiniteSet(S) /\ Cardinality(S) \in Nat
         /\ \A T \in SUBSET S : Cardinality(T) <= Cardinality(S)
  BY IdsAssumption, FS_Subset, FS_CardinalityType

LEMMA CallOfOthers ==
  ASSUME TypeInv, SearchInv, NEW t \in Threads, NEW u \in Threads \ {t},
         Others(t), VectorsGuarded(t), CallOf(u), Complete(u)
  PROVE  CallOf(u)' /\ Complete(u)'
<1>1. /\ pc'[u] = pc[u] /\ call'[u] = call[u] /\ cur'[u] = cur[u]
      /\ left'[u] = left[u] /\ seen'[u] = seen[u]
  BY DEF Others
<1>2. pc[u] \in {"euScan", "fetch"} => Live' = Live
  BY DEF SearchInv, SearchOf, Reading, VectorsGuarded, Live
<1>3. Complete(u)'
  BY <1>1, <1>2 DEF Complete
<1> QED
  BY <1>1, <1>3 DEF CallOf

\* The code that asks nothing of this kind.
LEMMA ElsewhereOK ==
  ASSUME NEW t \in Threads, pc'[t] \in HookLabels \cup {"idle", "reply", "addWrite", "remErase"}
  PROVE  CallOf(t)' /\ Complete(t)'
  BY DEF CallOf, Complete, HookLabels, Reading

\* A step that leaves the call as it is, from one place in its code to another.
LEMMA WithinCall ==
  ASSUME TypeInv, NEW t \in Threads, CallOf(t), call' = call, cur' = cur,
         \/ pc[t] \in Reading /\ pc'[t] \in Reading \ {"euScan", "fetch"}
         \/ pc[t] = "seIdx" /\ pc'[t] = "seVec"
         \/ pc[t] \in {"ixLock", "ixIds"} /\ pc'[t] \in {"ixIds", "ixRead"}
         \/ pc[t] = "ixRead" /\ pc'[t] = "ixRead"
         \/ pc[t] = "svVec" /\ pc'[t] = "svIdx"
  PROVE  CallOf(t)' /\ Complete(t)'
  BY DEF CallOf, Complete, Reading

LEMMA CallOfClient ==
  ASSUME TypeInv, StoreInv, NEW t \in Threads,
         Begin(t) \/ Return(t) \/ Announce(t) \/ SvVec(t) \/ SvIdx(t) \/ GetParams(t)
  PROVE  CallOf(t)' /\ Complete(t)'
<1> USE DEF TypeInv, TypeOK, Goto
<1>1. CASE Begin(t)
  <2>1. PICK c \in Requests : call'[t] = c /\ pc'[t] = First(c)
    BY <1>1 DEF Begin
  <2>2. c.op \in Ops
    BY RequestAssumption DEF Request
  <2> QED
    BY <2>1, <2>2 DEF CallOf, Complete, First, Ops, Reading
<1>2. CASE Return(t) \/ SvIdx(t) \/ GetParams(t)
  BY <1>2, ElsewhereOK DEF Return, SvIdx, GetParams, Reply
<1>3. CASE Announce(t)
  <2>1. UNCHANGED <<vectors, pc, call, cur, left, seen>>
    BY <1>3 DEF Announce, store, locals
  <2> QED
    BY <2>1 DEF StoreInv, CallOf, Complete, Live
<1>4. CASE SvVec(t)
  <2>1. pc[t] = "svVec" /\ pc'[t] = "svIdx" /\ call' = call /\ cur' = cur
    BY <1>4 DEF SvVec, locals
  <2> QED
    BY <2>1, WithinCall DEF StoreInv
<1> QED
  BY <1>1, <1>2, <1>3, <1>4

\* Where a step of an update, of a hook or of an add_index may lead.
LEMMA HookPlaces ==
  ASSUME TypeInv, NEW t \in Threads, Update(t) \/ IvfHook(t)
  PROVE  pc'[t] \in HookLabels \cup {"reply"}
<1> USE DEF TypeInv, TypeOK, Goto
<1>1. CASE AddWrite(t) \/ RemErase(t) \/ Notify(t) \/ HooksDone(t) \/ HnswNote(t)
  <2>1. pc'[t] \in {"notify", "reply", "hook"}
    BY <1>1 DEF AddWrite, RemErase, Notify, HooksDone, HnswNote, Reply
  <2> QED
    BY <2>1 DEF HookLabels
<1>2. CASE HookNext(t)
  <2>1. PICK n \in todo[t] : Goto(t, HookLabel(t, indices[n]))
    BY <1>2 DEF HookNext
  <2>2. n \in Names /\ indices[n] \in Index /\ call[t].op \in {"add", "remove"}
    BY <1>2, <2>1, InstalledIndex DEF HookNext, CallOK, CursorOK, HookLabels
  <2> QED
    BY <2>1, <2>2, KindOf DEF HookLabel, Index, HookLabels
<1>3. CASE IvfHook(t)
  <2>1. pc[t] \in HookLabels
    BY <1>3 DEF IvfHook, IvfLoad, IvfStore, FileLock, FileOne, FileDone, IvfUnfile, BuildLock,
                BuildIds, BuildThrow, BuildRead, BuildDone, HookLabels
  <2>2. pc' = pc \/ \E label \in HookLabels \cup {"reply"} : Goto(t, label)
    BY <1>3 DEF IvfHook, IvfLoad, IvfStore, FileLock, FileOne, FileDone, IvfUnfile, BuildLock,
                BuildIds, BuildThrow, BuildRead, BuildDone, ReadIds, ReadEach, StartLoop, Reply,
                HookLabels
  <2> QED
    BY <2>1, <2>2
<1> QED
  BY <1>1, <1>2, <1>3 DEF Update

LEMMA CallOfAddIndex ==
  ASSUME TypeInv, StoreInv, NEW t \in Threads, AddIndex(t)
  PROVE  CallOf(t)' /\ Complete(t)'
<1> USE DEF TypeInv, TypeOK, Goto
<1>1. CASE pc'[t] = "reply"
  BY <1>1, ElsewhereOK
<1>2. CASE pc'[t] # "reply"
  <2>1. /\ call' = call /\ cur' = cur
        /\ \/ pc[t] \in {"ixLock", "ixIds"} /\ pc'[t] \in {"ixIds", "ixRead"}
           \/ pc[t] = "ixRead" /\ pc'[t] = "ixRead"
    BY <1>2 DEF AddIndex, IxLock, IxIds, IxRead, IxInstall, ReadIds, ReadEach, StartLoop, Reply, locals
  <2> QED
    BY <2>1, WithinCall DEF StoreInv
<1> QED
  BY <1>1, <1>2

\* A read of a brute-force search, or of what a search is to return.
LEMMA CompleteRead ==
  ASSUME TypeInv, SearchInv, StoreInv, NEW t \in Threads, pc[t] \in {"euScan", "fetch"},
         NEW tolerant, ReadOrFail(t, tolerant)
  PROVE  CallOf(t)' /\ Complete(t)'
<1> USE DEF TypeInv, TypeOK
<1>1. CASE SeEnd(t, NoAnswer)
  BY <1>1, ElsewhereOK DEF SeEnd, Reply, Goto
<1>2. CASE /\ \E id \in left[t] : ReadNext(t, id) /\ Keep(t, id)
           /\ UNCHANGED <<store, locks, pc, call, batch, todo, cur, since_read, ret, accepting>>
  <2>1. PICK id \in left[t] : ReadNext(t, id) /\ Keep(t, id)
    BY <1>2
  <2>2. UNCHANGED <<vectors, pc, call, cur>> /\ Live' = Live
    BY <1>2 DEF store, Live
  <2>3. /\ left'[t] = left[t] \ {id} /\ id \in Ids
        /\ seen'[t] = [seen[t] EXCEPT ![id] = vectors[id]] /\ seen[t] \in Stored
    BY <2>1 DEF ReadNext, Keep
  <2>4. vectors[id] # Nil => left'[t] \cup Present(seen'[t]) = left[t] \cup Present(seen[t])
    BY <2>3 DEF Present, Stored
  <2>5. pc[t] = "euScan" \/ (pc[t] = "fetch" /\ cur[t] = Nil) => vectors[id] # Nil
    BY DEF SearchInv, SearchOf, Live, Present
  <2> QED
    BY <2>2, <2>4, <2>5 DEF StoreInv, CallOf, Complete
<1> QED
  BY <1>1, <1>2 DEF ReadOrFail

LEMMA CallOfSearch ==
  ASSUME TypeInv, SearchInv, StoreInv, NEW t \in Threads, Search(t)
  PROVE  CallOf(t)' /\ Complete(t)'
<1> USE DEF TypeInv, TypeOK, Goto
<1>1. CASE SeIdx(t)
  <2>1. pc[t] = "seIdx" /\ pc'[t] = "seVec" /\ call' = call /\ cur' = cur
    BY <1>1 DEF SeIdx, locals
  <2> QED
    BY <2>1, WithinCall DEF StoreInv
<1>2. CASE SeVec(t)
  <2>1. call[t].name \in Names /\ call[t].op = "search"
    BY <1>2, RequestAssumption DEF SeVec, CallOK, Request, StoreInv, CallOf
  <2>2. SearchLabel(indices[call[t].name]) \in {"euIds", "hnCheck", "ivProbe"}
    BY <2>1, KindOf DEF SearchLabel, Index
  <2>3. cur'[t] \in {Nil, call[t].name} /\ pc'[t] \in {"euIds", "hnCheck", "ivProbe"} /\ call' = call
    BY <1>2, <2>1, <2>2 DEF SeVec
  <2> QED
    BY <2>1, <2>3 DEF CallOf, Complete, Reading
<1>3. CASE EuIds(t)
  <2>1. /\ pc[t] = "euIds" /\ pc'[t] = "euScan" /\ left'[t] = Live /\ seen'[t] = Empty
        /\ UNCHANGED <<vectors, call, cur>>
    BY <1>3 DEF EuIds, ReadIds, StartLoop, store
  <2>2. Live' = Live /\ Present(seen'[t]) = {}
    BY <2>1 DEF Live, Present, Empty
  <2> QED
    BY <2>1, <2>2 DEF StoreInv, CallOf, Complete, Reading
<1>4. CASE EuScan(t) \/ Fetch(t)
  BY <1>4, CompleteRead DEF EuScan, Fetch
<1>5. CASE EuTop(t)
  <2>1. PICK best \in SUBSET Present(seen[t]) :
          /\ Cardinality(best) = Smaller(TopK, Cardinality(Present(seen[t])))
          /\ StartLoop(t, best, "fetch")
    BY <1>5 DEF EuTop
  <2>2. Present(seen[t]) = Live
    BY <1>5 DEF EuTop, StoreInv, Complete
  <2>3. /\ pc[t] = "euScan" /\ pc'[t] = "fetch" /\ left'[t] = best /\ seen'[t] = Empty
        /\ UNCHANGED <<vectors, call, cur>>
    BY <1>5, <2>1 DEF EuTop, StartLoop, store
  <2>4. Live' = Live /\ left'[t] \cup Present(seen'[t]) = best
    BY <2>3 DEF Live, Present, Empty
  <2> QED
    BY <2>1, <2>2, <2>3, <2>4 DEF StoreInv, CallOf, Complete, Reading
<1>6. CASE HnCheck(t) \/ HnBuild(t) \/ HnInsert(t) \/ HnBuilt(t) \/ HnRelock(t)
  <2>1. /\ pc[t] \in Reading /\ call' = call /\ cur' = cur
        /\ pc'[t] \in Reading \ {"euScan", "fetch"}
    BY <1>6 DEF HnCheck, HnBuild, HnInsert, HnBuilt, HnRelock, StartLoop, Reading, locals
  <2> QED
    BY <2>1, WithinCall DEF StoreInv
<1>7. CASE HnKnn(t)
  <2>1. pc[t] = "hnKnn" /\ pc'[t] = "fetch" /\ call' = call /\ cur' = cur /\ cur[t] # Nil
    BY <1>7, NameAssumption DEF HnKnn, StartLoop, CursorOK, HnswLabels
  <2> QED
    BY <2>1 DEF StoreInv, CallOf, Complete, Reading
<1>8. CASE IvProbe(t)
  <2>1. CASE pc'[t] = "reply"
    BY <2>1, ElsewhereOK
  <2>2. CASE pc'[t] # "reply"
    <3>1. pc[t] = "ivProbe" /\ pc'[t] = "fetch" /\ call' = call /\ cur' = cur /\ cur[t] # Nil
      BY <1>8, <2>2, NameAssumption DEF IvProbe, StartLoop, SeEnd, Reply, CursorOK, IvfLabels
    <3> QED
      BY <3>1 DEF StoreInv, CallOf, Complete, Reading
  <2> QED
    BY <2>1, <2>2
<1>9. CASE SeDone(t)
  BY <1>9, ElsewhereOK DEF SeDone, SeEnd, Reply
<1> QED
  BY <1>1, <1>2, <1>3, <1>4, <1>5, <1>6, <1>7, <1>8, <1>9 DEF Search

LEMMA StoreThread ==
  ASSUME TypeInv, SearchInv, StoreInv, NEW t \in Threads, Begin(t) \/ Step(t)
  PROVE  StoreInv'
<1>1. Others(t) /\ VectorsGuarded(t)
  BY ThreadStep, Guarded DEF StepOK
<1>2. CallOf(t)' /\ Complete(t)'
  BY CallOfClient, HookPlaces, ElsewhereOK, CallOfAddIndex, CallOfSearch DEF Step
<1> QED
  BY <1>1, <1>2, CallOfOthers DEF StoreInv

LEMMA StoreInvStep == TypeInv /\ SearchInv /\ StoreInv /\ [Next]_vars => StoreInv'
<1>1. ASSUME StoreInv, StopCalls \/ UNCHANGED vars PROVE StoreInv'
  BY <1>1 DEF StopCalls, vars, StoreInv, CallOf, Complete, Live, store, locks, locals
<1> QED
  BY <1>1, StoreThread DEF Next, Rest

LEMMA StoreInvariant == Spec => []StoreInv
<1>1. Init => StoreInv
  BY DEF Init, StoreInv, CallOf, Complete, Reading
<1> QED
  BY <1>1, StoreInvStep, TypeInvariant, SearchInvariant, PTL DEF Spec

-----------------------------------------------------------------------------
(* The steps.  Most of them are none of the store: what they change, locks, *)
(* indices, places in the code, it does not have.                          *)

StageAt(label, op) ==
  IF label = "idle" THEN "idle"
  ELSE IF label = "reply" \/ (op \in {"add", "remove"} /\ label \notin {"addWrite", "remErase"})
       THEN "done" ELSE "called"

LEMMA StageOf ==
  /\ \A t \in Threads : Stage[t] = StageAt(pc[t], call[t].op)
  /\ \A t \in Threads : Stage'[t] = StageAt(pc'[t], call'[t].op)
  BY DEF Stage, StageAt

\* What a step of t does to the stages: it may move that of t.
LEMMA StageMoves ==
  ASSUME TypeInv, NEW t \in Threads, Others(t)
  PROVE  /\ Stage' = [Stage EXCEPT ![t] = Stage'[t]]
         /\ Stage'[t] = Stage[t] => Stage' = Stage
<1>1. /\ Stage = [u \in Threads |-> Stage[u]]
      /\ Stage' = [u \in Threads |-> Stage'[u]]
  BY DEF Stage
<1>2. \A u \in Threads \ {t} : Stage'[u] = Stage[u]
  BY StageOf DEF Others
<1> HIDE DEF Stage
<1> QED
  BY <1>1, <1>2

\* Hooks run when the call has taken effect.
LEMMA HooksAreDone ==
  ASSUME TypeInv, NEW t \in Threads
  PROVE  /\ pc[t] \in HookLabels => Stage[t] = "done"
         /\ pc'[t] \in HookLabels \cup {"reply"} /\ call'[t].op \in {"add", "remove"} => Stage'[t] = "done"
  BY StageOf DEF TypeInv, CallOK, StageAt, HookLabels

\* No step installs an index but the last one of add_index.
LEMMA SameNames ==
  ASSUME TypeInv, NEW t \in Threads, KindsStay,
         indices' = indices \/ (cur[t] \in Installed /\ \E i : SetIndex(t, i))
  PROVE  Installed' = Installed
<1>1. ASSUME NEW n \in Installed PROVE n \in Installed'
  BY InstalledIndex, IndexAssumption DEF TypeInv, TypeOK, Installed, KindsStay, Index
<1>2. ASSUME NEW n \in Installed' PROVE n \in Installed
  BY DEF Installed, SetIndex, TypeInv, TypeOK
<1> QED
  BY <1>1, <1>2

LEMMA Stutters ==
  ASSUME TypeInv, NEW t \in Threads, Others(t), Stage'[t] = Stage[t], Installed' = Installed,
         UNCHANGED <<vectors, call, ret>>
  PROVE  UNCHANGED Abstract!vars
  BY StageMoves DEF Abstract!vars

Simulates == Abstract!Next \/ UNCHANGED Abstract!vars

\* The store and the collection speak of vectors in the same words.
LEMMA SameWords ==
  /\ Abstract!Empty = Empty /\ Abstract!NoAnswer = NoAnswer
  /\ \A m : Abstract!Present(m) = Present(m)
  /\ \A a, b : Abstract!Least(a, b) = Smaller(a, b)
  /\ \A S : Abstract!Cardinality(S) = Cardinality(S)
<1>1. ASSUME NEW S PROVE Abstract!Cardinality(S) = Cardinality(S)
  BY DEF Abstract!Cardinality, Cardinality
<1> QED
  BY <1>1 DEF Abstract!Empty, Abstract!NoAnswer, Abstract!Present, Abstract!Least,
         Empty, NoAnswer, Present, Smaller

LEMMA SimulatesHook ==
  ASSUME TypeInv, IndexInv, NEW t \in Threads, StepOK(t), IvfHook(t)
  PROVE  Simulates
<1> USE DEF TypeInv, TypeOK
<1>1. /\ pc[t] \in HookLabels /\ call[t].op \in {"add", "remove"} /\ cur[t] \in Installed
  <2>1. pc[t] \in HookLabels \cap IvfLabels
    BY DEF IvfHook, IvfLoad, IvfStore, FileLock, FileOne, FileDone, IvfUnfile, BuildLock,
           BuildIds, BuildThrow, BuildRead, BuildDone, HookLabels, IvfLabels
  <2> QED
    BY <2>1, InstalledIndex DEF CallOK, CursorOK, Index
<1>2. /\ call' = call /\ vectors' = vectors
      /\ indices' = indices \/ \E i : SetIndex(t, i)
  BY DEF IvfHook, IvfLoad, IvfStore, FileLock, FileOne, FileDone, IvfUnfile, BuildLock,
         BuildIds, BuildThrow, BuildRead, ReadEach, BuildDone, store
<1>3. Stage[t] = "done" /\ Stage'[t] = "done" /\ Installed' = Installed /\ Others(t)
  BY <1>1, <1>2, HooksAreDone, HookPlaces, SameNames DEF StepOK
<1>4. CASE BuildThrow(t)
  <2>1. call[t].op = "remove"
    BY <1>4, ThreadAssumption DEF BuildThrow, IndexInv, Works, LockOf
  <2>2. Stage' = [Stage EXCEPT ![t] = "done"] /\ ret' = [ret EXCEPT ![t] = NoAnswer]
    BY <1>3, <1>4, StageMoves DEF BuildThrow, Reply
  <2>3. Abstract!RemoveFails(t)
    BY <1>2, <1>3, <2>1, <2>2, SameWords
    DEF Abstract!RemoveFails, Abstract!Answer, Abstract!Move
  <2> QED
    BY <2>3 DEF Simulates, Abstract!Next
<1>5. CASE ~BuildThrow(t)
  <2>1. ret' = ret
    BY <1>5 DEF IvfHook, IvfLoad, IvfStore, FileLock, FileOne, FileDone, IvfUnfile, BuildLock,
                BuildIds, BuildRead, ReadEach, BuildDone, locals
  <2> QED
    BY <1>2, <1>3, <2>1, Stutters DEF Simulates
<1> QED
  BY <1>4, <1>5

LEMMA SimulatesUpdate ==
  ASSUME TypeInv, NEW t \in Threads, StepOK(t), Update(t)
  PROVE  Simulates
<1> USE DEF TypeInv, TypeOK
<1>1. Others(t) /\ KindsStay
  BY DEF StepOK
<1>2. CASE AddWrite(t)
  <2>1. /\ pc[t] = "addWrite" /\ call[t].op = "add" /\ call' = call /\ indices' = indices
        /\ pc'[t] = "notify"
    BY <1>2 DEF AddWrite, CallOK, Goto
  <2>2. Stage[t] = "called" /\ Stage' = [Stage EXCEPT ![t] = "done"] /\ Installed' = Installed
    BY <1>1, <2>1, StageOf, StageMoves DEF StageAt, Installed
  <2>3. Abstract!Add(t)
    BY <1>2, <2>1, <2>2, SameWords DEF AddWrite, Abstract!Add, Abstract!Answer, Abstract!Move, Live
  <2> QED
    BY <2>3 DEF Simulates, Abstract!Next
<1>3. CASE RemErase(t)
  <2> DEFINE removed == call[t].ids \cap Live
  <2>1. /\ pc[t] = "remErase" /\ call[t].op = "remove" /\ call' = call /\ indices' = indices
        /\ pc'[t] \in {"notify", "reply"}
    BY <1>3 DEF RemErase, CallOK, Goto, Reply
  <2>2. Stage[t] = "called" /\ Stage' = [Stage EXCEPT ![t] = "done"] /\ Installed' = Installed
    BY <1>1, <2>1, StageOf, StageMoves DEF StageAt, Installed
  <2>3. ret' = [ret EXCEPT ![t] = [ok |-> TRUE, ids |-> removed, got |-> Empty]]
    BY <1>3 DEF RemErase, Reply
  <2>4. vectors' = [id \in Ids |-> IF id \in call[t].ids THEN Nil ELSE vectors[id]]
    BY <1>3 DEF RemErase, Live, Present
  <2>5. Abstract!Remove(t)
    BY <2>1, <2>2, <2>3, <2>4, SameWords DEF Abstract!Remove, Abstract!Answer, Abstract!Move, Live
  <2> QED
    BY <2>5 DEF Simulates, Abstract!Next
<1>4. CASE Notify(t) \/ HookNext(t) \/ HooksDone(t) \/ HnswNote(t)
  <2>1. /\ pc[t] \in HookLabels /\ call[t].op \in {"add", "remove"}
        /\ UNCHANGED <<vectors, call, ret>>
    BY <1>4 DEF Notify, HookNext, HooksDone, HnswNote, Reply, CallOK, HookLabels, store, locals
  <2>2. Stage'[t] = Stage[t]
    BY <2>1, HooksAreDone, HookPlaces
  <2>3. indices' = indices \/ (cur[t] \in Installed /\ \E i : SetIndex(t, i))
    <3>1. CASE HnswNote(t)
      BY <3>1, InstalledIndex DEF HnswNote, CursorOK, HnswLabels, Index
    <3> QED
      BY <1>4, <3>1 DEF Notify, HookNext, HooksDone, store
  <2>4. Installed' = Installed
    BY <1>1, <2>3, SameNames
  <2> QED
    BY <1>1, <2>1, <2>2, <2>4, Stutters DEF Simulates
<1> QED
  BY <1>2, <1>3, <1>4 DEF Update

\* Up to its answer a call that changes no vector has not taken effect.
LEMMA StillCalled ==
  ASSUME TypeInv, NEW t \in Threads, CallOf(t),
         pc[t] \in {"seIdx", "seVec", "ixLock", "ixIds", "ixRead", "svVec", "svIdx", "params"} \cup Reading
  PROVE  /\ Stage[t] = "called" /\ call[t].op \notin {"add", "remove"}
         /\ call' = call /\ pc'[t] \notin {"idle", "reply"} => Stage'[t] = "called"
  BY StageOf DEF CallOf, StageAt, Reading

LEMMA Answers ==
  ASSUME TypeInv, NEW t \in Threads, Others(t), NEW a, Reply(t, a), call' = call
  PROVE  Abstract!Answer(t, a)
<1>1. pc'[t] = "reply"
  BY DEF Reply, Goto, TypeInv, TypeOK
<1>2. Stage' = [Stage EXCEPT ![t] = "done"]
  BY <1>1, StageOf, StageMoves DEF StageAt
<1> QED
  BY <1>2 DEF Reply, Abstract!Answer, Abstract!Move

LEMMA SimulatesAddIndex ==
  ASSUME TypeInv, StoreInv, NEW t \in Threads, StepOK(t), AddIndex(t)
  PROVE  Simulates
<1> USE DEF TypeInv, TypeOK
<1>1. Others(t) /\ CallOf(t) /\ Stage[t] = "called" /\ call[t].op = "add_index"
  <2>1. pc[t] \in {"ixLock", "ixIds", "ixRead"}
    BY DEF AddIndex, IxLock, IxIds, IxRead, IxInstall
  <2> QED
    BY <2>1, StillCalled DEF StepOK, StoreInv, CallOf
<1>2. CASE pc'[t] # "reply"
  <2>1. /\ pc[t] \in {"ixLock", "ixIds", "ixRead"} /\ pc'[t] \in {"ixIds", "ixRead"}
        /\ UNCHANGED <<vectors, indices, call, ret>>
    BY <1>2 DEF AddIndex, IxLock, IxIds, IxRead, IxInstall, ReadIds, ReadEach, StartLoop, Reply,
                Goto, locals, store
  <2>2. Stage'[t] = Stage[t] /\ Installed' = Installed
    BY <1>1, <2>1, StillCalled DEF Installed
  <2> QED
    BY <1>1, <2>1, <2>2, Stutters DEF Simulates
<1>3. CASE IxLock(t) /\ pc'[t] = "reply"
  <2>1. /\ call[t].kind = "unknown" /\ Reply(t, NoAnswer)
        /\ UNCHANGED <<vectors, indices, call>>
    BY <1>3 DEF IxLock, Goto, store
  <2>2. Abstract!Answer(t, NoAnswer) /\ Installed' = Installed
    BY <1>1, <2>1, Answers DEF Installed
  <2>3. Abstract!AddIndex(t)
    BY <1>1, <2>1, <2>2, SameWords DEF Abstract!AddIndex, NoAnswer
  <2> QED
    BY <2>3 DEF Simulates, Abstract!Next
<1>4. CASE IxInstall(t)
  <2> DEFINE n == call[t].name
  <2>1. /\ pc[t] = "ixRead" /\ call[t] \in Requests /\ call[t].kind \in Kinds
        /\ UNCHANGED <<vectors, call>>
        /\ Reply(t, [ok |-> TRUE, ids |-> {}, got |-> Empty])
    BY <1>4 DEF IxInstall, CallOK
  <2>2. n \in Names /\ call[t].kind # "unknown"
    BY <2>1, RequestAssumption DEF Request, Kinds
  <2>3. Fresh(call[t], seen[t]) \in Index
    BY <1>4, <2>1, CallParams, FreshTypes DEF Index, Kinds
  <2>4. indices' = [indices EXCEPT ![n] = IF @ = Nil THEN Fresh(call[t], seen[t]) ELSE @]
    BY <1>4 DEF IxInstall
  <2>5. Installed' = Installed \cup {n}
    BY <2>2, <2>3, <2>4, IndexAssumption DEF Installed
  <2>6. Abstract!Answer(t, [ok |-> TRUE, ids |-> {}, got |-> Empty])
    BY <1>1, <2>1, Answers
  <2>7. Abstract!AddIndex(t)
    BY <1>1, <2>1, <2>2, <2>5, <2>6, SameWords DEF Abstract!AddIndex
  <2> QED
    BY <2>7 DEF Simulates, Abstract!Next
<1>5. CASE (IxIds(t) \/ IxRead(t)) /\ pc'[t] = "reply"
  BY <1>5 DEF IxIds, ReadIds, StartLoop, IxRead, ReadEach, Goto
<1> QED
  BY <1>2, <1>3, <1>4, <1>5 DEF AddIndex

\* An answer of a search: some vectors of the collection, none if it fails; and
\* without an index as many as there are, up to TopK.
LEMMA SimulatesAnswer ==
  ASSUME TypeInv, StoreInv, NEW t \in Threads, StepOK(t), pc[t] \in Reading,
         NEW found \in SUBSET Live, NEW ok \in BOOLEAN,
         SeEnd(t, [ok |-> ok, ids |-> {}, got |-> [id \in Ids |-> IF id \in found THEN vectors[id] ELSE Nil]]),
         Cardinality(found) <= TopK, ~ok => found = {},
         call[t].name \notin Installed => ok /\ Cardinality(found) = Smaller(TopK, Cardinality(Live))
  PROVE  Simulates
<1> DEFINE a == [ok |-> ok, ids |-> {}, got |-> [id \in Ids |-> IF id \in found THEN vectors[id] ELSE Nil]]
<1>1. Reply(t, a) /\ UNCHANGED <<vectors, indices, call>> /\ Others(t)
  BY DEF SeEnd, store, StepOK
<1>2. Abstract!Answer(t, a)
  BY <1>1, Answers
<1>3. Stage[t] = "called" /\ call[t].op = "search" /\ Installed' = Installed
  BY <1>1, StillCalled DEF StoreInv, CallOf, Installed
<1>4. a.got = Abstract!Only(vectors, found)
  BY DEF Abstract!Only
<1>5. Abstract!Answer(t, [ok |-> ok, ids |-> {}, got |-> Abstract!Only(vectors, found)])
  BY <1>2, <1>4
<1> HIDE DEF a
<1>6. /\ found \in SUBSET Abstract!Present(vectors)
      /\ Smaller(TopK, Cardinality(Live)) = Abstract!Least(TopK, Abstract!Cardinality(Abstract!Present(vectors)))
  BY SameWords DEF Live
<1>7. /\ found \in SUBSET Abstract!Present(vectors) /\ Abstract!Cardinality(found) <= TopK
      /\ call[t].name \notin Installed =>
           ok /\ Abstract!Cardinality(found) = Abstract!Least(TopK, Abstract!Cardinality(Abstract!Present(vectors)))
      /\ ~ok => found = {}
  BY <1>6, SameWords
<1>8. Abstract!Search(t)
  <2>1. \E f \in SUBSET Abstract!Present(vectors), o \in BOOLEAN :
          /\ Abstract!Cardinality(f) <= TopK
          /\ call[t].name \notin Installed =>
               o /\ Abstract!Cardinality(f) = Abstract!Least(TopK, Abstract!Cardinality(Abstract!Present(vectors)))
          /\ ~o => f = {}
          /\ Abstract!Answer(t, [ok |-> o, ids |-> {}, got |-> Abstract!Only(vectors, f)])
    BY <1>5, <1>7
  <2> QED
    BY <1>1, <1>3, <2>1 DEF Abstract!Search
<1> QED
  BY <1>8 DEF Simulates, Abstract!Next

LEMMA SimulatesFailure ==
  ASSUME TypeInv, StoreInv, NEW t \in Threads, StepOK(t), pc[t] \in Reading,
         call[t].name \in Installed, SeEnd(t, NoAnswer)
  PROVE  Simulates
<1>1. NoAnswer = [ok |-> FALSE, ids |-> {}, got |-> [id \in Ids |-> IF id \in {} THEN vectors[id] ELSE Nil]]
  BY DEF NoAnswer, Empty
<1>2. Cardinality({}) <= TopK /\ {} \in SUBSET Live
  BY FS_EmptySet, BoundAssumption
<1>3. SeEnd(t, [ok |-> FALSE, ids |-> {},
                got |-> [id \in Ids |-> IF id \in {} THEN vectors[id] ELSE Nil]])
  BY <1>1
<1> QED
  BY <1>2, <1>3, SimulatesAnswer, Zenon

LEMMA SimulatesRead ==
  ASSUME TypeInv, SearchInv, StoreInv, NEW t \in Threads, StepOK(t), pc[t] \in {"euScan", "fetch"},
         cur[t] # Nil => pc[t] = "fetch", NEW tolerant, ReadOrFail(t, tolerant)
  PROVE  Simulates
<1> USE DEF TypeInv, TypeOK
<1>1. CASE SeEnd(t, NoAnswer) /\ \E id \in left[t] : vectors[id] = Nil
  <2>1. cur[t] # Nil
    BY <1>1 DEF SearchInv, SearchOf, Live, Present
  <2>2. call[t].name = cur[t] /\ cur[t] \in Installed
    BY <2>1, InstalledIndex DEF StoreInv, CallOf, Reading, CursorOK
  <2> QED
    BY <1>1, <2>2, SimulatesFailure DEF Reading
<1>2. CASE UNCHANGED <<store, locks, pc, call, batch, todo, cur, since_read, ret, accepting>>
  <2>1. Stage'[t] = Stage[t] /\ Installed' = Installed
    BY <1>2, StageOf DEF Installed, store
  <2> QED
    BY <1>2, <2>1, Stutters DEF Simulates, StepOK, store
<1> QED
  BY <1>1, <1>2 DEF ReadOrFail

LEMMA SimulatesDone ==
  ASSUME TypeInv, SearchInv, StoreInv, NEW t \in Threads, StepOK(t), SeDone(t)
  PROVE  Simulates
<1> USE DEF TypeInv, TypeOK
<1>1. PICK best \in SUBSET Present(seen[t]) :
        /\ Cardinality(best) = Smaller(TopK, Cardinality(Present(seen[t])))
        /\ SeEnd(t, [ok |-> IsIvf(t) => best # {}, ids |-> {},
                     got |-> [id \in Ids |-> IF id \in best THEN seen[t][id] ELSE Nil]])
  BY DEF SeDone
<1>2. pc[t] = "fetch" /\ pc[t] \in Reading /\ left[t] = {}
  BY DEF SeDone, Reading
<1>3. \A id \in best : seen[t][id] = vectors[id] /\ id \in Live
  BY <1>2 DEF SearchInv, SearchOf, Present, Live
<1>4. /\ best \in SUBSET Live
      /\ [id \in Ids |-> IF id \in best THEN seen[t][id] ELSE Nil]
           = [id \in Ids |-> IF id \in best THEN vectors[id] ELSE Nil]
  BY <1>3
<1>5. Cardinality(Present(seen[t])) \in Nat /\ Cardinality(Live) \in Nat
  BY Counts DEF Present, Live
<1>6. Cardinality(best) <= TopK
  BY <1>1, <1>5, BoundAssumption DEF Smaller
<1>7. ASSUME call[t].name \notin Installed
      PROVE  ~IsIvf(t) /\ Cardinality(best) = Smaller(TopK, Cardinality(Live))
  <2>1. cur[t] = Nil
    BY <1>2, <1>7, InstalledIndex DEF StoreInv, CallOf, CursorOK
  <2>2. Cardinality(Present(seen[t])) = Smaller(TopK, Cardinality(Live))
    BY <1>2, <2>1 DEF StoreInv, Complete
  <2> QED
    BY <1>1, <1>5, <2>1, <2>2, BoundAssumption DEF Smaller, IsIvf
<1> DEFINE ok == IsIvf(t) => best # {}
<1>8. ok \in BOOLEAN /\ (~ok => best = {}) /\ (call[t].name \notin Installed => ok)
  BY <1>7
<1>9. SeEnd(t, [ok |-> ok, ids |-> {}, got |-> [id \in Ids |-> IF id \in best THEN vectors[id] ELSE Nil]])
  BY <1>1, <1>4
<1> HIDE DEF ok
<1> QED
  BY <1>2, <1>4, <1>6, <1>7, <1>8, <1>9, SimulatesAnswer

LEMMA SimulatesSearch ==
  ASSUME TypeInv, SearchInv, StoreInv, NEW t \in Threads, StepOK(t), Search(t)
  PROVE  Simulates
<1> USE DEF TypeInv, TypeOK
<1>1. CASE EuScan(t) \/ Fetch(t)
  BY <1>1, SimulatesRead DEF EuScan, Fetch, CursorOK
<1>2. CASE SeDone(t)
  BY <1>2, SimulatesDone
<1>3. CASE SeIdx(t) \/ SeVec(t) \/ EuIds(t) \/ EuTop(t) \/ HnCheck(t) \/ HnRelock(t) \/ HnKnn(t)
           \/ HnBuild(t) \/ HnInsert(t) \/ HnBuilt(t)
  <2>1. /\ pc[t] \in {"seIdx", "seVec"} \cup Reading /\ UNCHANGED <<vectors, call, ret>>
        /\ indices' = indices \/ (pc[t] \in HnswLabels /\ \E i : SetIndex(t, i))
    BY <1>3 DEF SeIdx, SeVec, EuIds, EuTop, HnCheck, HnRelock, HnKnn, HnBuild, HnInsert, HnBuilt,
                Reading, HnswLabels, store, locals
  <2>2. pc'[t] \notin {"idle", "reply"}
    <3>1. CASE SeVec(t)
      <4>1. call[t].name \in Names
        BY <3>1, RequestAssumption DEF SeVec, CallOK, Request
      <4>2. SearchLabel(indices[call[t].name]) \in {"euIds", "hnCheck", "ivProbe"}
        BY <4>1, KindOf DEF SearchLabel, Index
      <4> QED
        BY <3>1, <4>2 DEF SeVec, Goto
    <3>2. CASE ~SeVec(t)
      BY <1>3, <3>2 DEF SeIdx, EuIds, ReadIds, EuTop, HnCheck, HnRelock, HnKnn, HnBuild, HnInsert,
                        HnBuilt, StartLoop, Goto
    <3> QED
      BY <3>1, <3>2
  <2>3. Stage'[t] = Stage[t]
    BY <2>1, <2>2, StillCalled DEF StoreInv
  <2>4. Installed' = Installed
    BY <2>1, SameNames, InstalledIndex DEF StepOK, CursorOK, Index
  <2> QED
    BY <2>1, <2>3, <2>4, Stutters DEF Simulates, StepOK
<1>4. CASE IvProbe(t)
  <2>1. pc[t] = "ivProbe" /\ cur[t] \in Names /\ cur[t] \in Installed
    BY <1>4, InstalledIndex DEF IvProbe, CursorOK, IvfLabels, Index
  <2>2. CASE SeEnd(t, NoAnswer)
    <3>1. call[t].name = cur[t]
      BY <2>1, NameAssumption DEF StoreInv, CallOf, Reading
    <3> QED
      BY <2>1, <2>2, <3>1, SimulatesFailure DEF Reading
  <2>3. CASE ~SeEnd(t, NoAnswer)
    <3>1. /\ pc'[t] = "fetch" /\ UNCHANGED <<store, call, ret>>
      BY <1>4, <2>3 DEF IvProbe, StartLoop, Goto
    <3>2. Stage'[t] = Stage[t] /\ Installed' = Installed
      BY <2>1, <3>1, StillCalled DEF StoreInv, Reading, Installed, store
    <3> QED
      BY <3>1, <3>2, Stutters DEF Simulates, StepOK, store
  <2> QED
    BY <2>2, <2>3
<1> QED
  BY <1>1, <1>2, <1>3, <1>4 DEF Search

LEMMA SimulatesClient ==
  ASSUME TypeInv, StoreInv, NEW t \in Threads, StepOK(t),
         Begin(t) \/ Return(t) \/ Announce(t) \/ SvVec(t) \/ SvIdx(t) \/ GetParams(t)
  PROVE  Simulates
<1> USE DEF TypeInv, TypeOK
<1>1. Others(t) /\ UNCHANGED store /\ Installed' = Installed
  BY DEF Begin, Return, Announce, SvVec, SvIdx, GetParams, StepOK, store, Installed
<1>2. CASE Begin(t)
  <2>1. PICK c \in Requests : call' = [call EXCEPT ![t] = c] /\ Goto(t, First(c))
    BY <1>2 DEF Begin
  <2>2. c.op \in Ops /\ pc'[t] = First(c) /\ call'[t] = c
    BY <2>1, RequestAssumption DEF Request, Goto
  <2>3. Stage'[t] = "called" /\ Stage[t] = "idle"
    BY <1>2, <2>2, StageOf DEF Begin, StageAt, First, Ops
  <2>4. Abstract!Ask(t)
    BY <1>1, <1>2, <2>1, <2>3, StageMoves DEF Begin, Abstract!Ask, Abstract!Move, store
  <2> QED
    BY <2>4 DEF Simulates, Abstract!Next
<1>3. CASE Return(t)
  <2>1. Stage'[t] = "idle" /\ Stage[t] = "done"
    BY <1>3, StageOf DEF Return, Goto, StageAt
  <2>2. Abstract!Return(t)
    BY <1>1, <1>3, <2>1, StageMoves, SameWords DEF Return, Abstract!Return, Abstract!Move, store
  <2> QED
    BY <2>2 DEF Simulates, Abstract!Next
<1>4. CASE Announce(t)
  <2>1. Stage'[t] = Stage[t]
    BY <1>4, StageOf DEF Announce
  <2> QED
    BY <1>1, <1>4, <2>1, Stutters DEF Announce, Simulates, store
<1>5. CASE SvVec(t)
  <2>1. Stage'[t] = Stage[t]
    BY <1>5, StillCalled DEF SvVec, Goto, StoreInv
  <2> QED
    BY <1>1, <1>5, <2>1, Stutters DEF SvVec, Simulates, store
<1>6. CASE SvIdx(t)
  <2>1. Abstract!Answer(t, [ok |-> TRUE, ids |-> {}, got |-> vectors]) /\ call[t].op = "save"
    BY <1>1, <1>6, Answers DEF SvIdx, StoreInv, CallOf
  <2>2. Abstract!Save(t)
    BY <1>1, <1>6, <2>1, StillCalled DEF SvIdx, StoreInv, Abstract!Save, store
  <2> QED
    BY <2>2 DEF Simulates, Abstract!Next
<1>7. CASE GetParams(t)
  <2> DEFINE a == [ok |-> indices[call[t].name] # Nil, ids |-> {}, got |-> Empty]
  <2>1. Abstract!Answer(t, a) /\ call[t].op = "get_index_params" /\ Stage[t] = "called"
    BY <1>1, <1>7, Answers, StillCalled DEF GetParams, StoreInv, CallOf
  <2>2. call[t].name \in Names
    BY <1>7, RequestAssumption DEF GetParams, CallOK, Request
  <2>3. (indices[call[t].name] # Nil) = (call[t].name \in Installed)
    BY <2>2 DEF Installed
  <2>4. Abstract!GetParams(t)
    BY <1>1, <2>1, <2>3, SameWords DEF Abstract!GetParams, store
  <2> QED
    BY <2>4 DEF Simulates, Abstract!Next
<1> QED
  BY <1>2, <1>3, <1>4, <1>5, <1>6, <1>7

LEMMA SimulatesStep ==
  TypeInv /\ SearchInv /\ IndexInv /\ StoreInv /\ [Next]_vars => [Abstract!Next]_(Abstract!vars)
<1> SUFFICES ASSUME TypeInv, SearchInv, IndexInv, StoreInv, [Next]_vars
             PROVE  Simulates
  BY DEF Simulates
<1>1. ASSUME NEW t \in Threads, Begin(t) \/ Step(t) PROVE Simulates
  BY <1>1, ThreadStep, SimulatesClient, SimulatesUpdate, SimulatesHook, SimulatesAddIndex,
     SimulatesSearch DEF Step
<1>2. CASE StopCalls \/ UNCHANGED vars
  BY <1>2 DEF StopCalls, vars, store, Simulates, Abstract!vars, Stage, Installed
<1> QED
  BY <1>1, <1>2 DEF Next, Rest

\* The collection is the map its callers take it for: whatever the interleaving
\* of its threads, each add and remove takes effect at the moment it writes
\* vectors_, and each other call at the moment it answers, with an answer from
\* the vectors of that moment.
THEOREM CollectionIsStore == Spec => ImplementsVectorStore
<1>1. Init => Abstract!Init
  BY SameWords DEF Init, Abstract!Init, Stage, Installed, Abstract!Stored, Stored
<1> QED
  BY <1>1, SimulatesStep, TypeInvariant, SearchInvariant, IndexInvariant, StoreInvariant, PTL
  DEF Spec, ImplementsVectorStore, Abstract!Spec
==============================================================================
