------------------------------ MODULE IndexProofs ------------------------------
(***************************************************************************)
(* What an index of a collection knows, for any number of threads, ids,     *)
(* vectors and index names.  The idea is the same for every kind of index:  *)
(* an id whose vector the index does not hold as it is now is owed to the   *)
(* index by some thread, whose next hooks will tell it.                    *)
(***************************************************************************)
EXTENDS CollectionProofs

-----------------------------------------------------------------------------
(* The locks.  Who has a mutex exclusively keeps it until its own step lets *)
(* go, and nobody joins it meanwhile.                                      *)

MutexLabels == {"file", "undefined", "buildIds", "buildRead", "hnInsert"}

LockOf(t) ==
  /\ pc[t] \in HookLabels /\ call[t].op = "remove" => vec_mutex.w = t /\ vec_mutex.r = {}
  /\ vec_mutex.w = t => \/ pc[t] \in {"addWrite", "remErase"}
                        \/ pc[t] \in HookLabels /\ call[t].op = "remove"
  /\ pc[t] \in {"ixIds", "ixRead"} => idx_mutex.w = t
  /\ pc[t] \in MutexLabels => mutex[cur[t]].w = t

\* What a step of t may do to a mutex.
Orderly(m, m1, t) ==
  /\ m1.w = m.w \/ {m.w, m1.w} \subseteq {t, NoThread}
  /\ m1.r \subseteq m.r \/ m.w = NoThread

LEMMA OrderlySteps ==
  ASSUME NEW m \in Mutex(Threads), NEW t \in Threads
  PROVE  /\ Orderly(m, m, t)
         /\ CanShare(m) => Orderly(m, Share(m, t), t)
         /\ Orderly(m, Unshare(m, t), t)
         /\ CanLock(m, t) \/ CanAnnounce(m) \/ m.w = t =>
              Orderly(m, Lock(m, t), t) /\ Orderly(m, Unlock(m), t)
  BY LibcxxAssumption DEF Mutex, Orderly, CanShare, CanLock, CanAnnounce, Share, Unshare, Lock, Unlock

OrderlyLocks(t) ==
  /\ Orderly(vec_mutex, vec_mutex', t)
  /\ Orderly(idx_mutex, idx_mutex', t)
  /\ \A n \in Names : Orderly(mutex[n], mutex'[n], t)

LEMMA SameLocks == ASSUME TypeInv, NEW t \in Threads, UNCHANGED locks PROVE OrderlyLocks(t)
  BY OrderlySteps DEF OrderlyLocks, locks, TypeInv, TypeOK

\* A step that touches only the mutex_ of the index the thread is in.
LEMMA OrderlyCur ==
  ASSUME TypeInv, NEW t \in Threads, cur[t] \in Names, UNCHANGED <<vec_mutex, idx_mutex>>,
         NEW m1, mutex' = [mutex EXCEPT ![cur[t]] = m1], Orderly(mutex[cur[t]], m1, t)
  PROVE  OrderlyLocks(t)
<1>1. ASSUME NEW n \in Names PROVE Orderly(mutex[n], mutex'[n], t)
  BY OrderlySteps DEF TypeInv, TypeOK
<1> QED
  BY <1>1, OrderlySteps DEF OrderlyLocks, TypeInv, TypeOK

LEMMA OrderlyUpdate ==
  ASSUME TypeInv, NEW t \in Threads, LockOf(t), Update(t)
  PROVE  OrderlyLocks(t)
<1> USE OrderlySteps DEF TypeInv, TypeOK
<1>1. CASE AddWrite(t)
  BY <1>1 DEF AddWrite, OrderlyLocks
<1>2. CASE RemErase(t)
  BY <1>2 DEF RemErase, OrderlyLocks
<1>3. CASE Notify(t)
  BY <1>3 DEF Notify, OrderlyLocks
<1>4. CASE HookNext(t)
  BY <1>4, SameLocks DEF HookNext
<1>5. CASE HooksDone(t)
  BY <1>5 DEF HooksDone, OrderlyLocks, LockOf, HookLabels
<1>6. CASE HnswNote(t)
  BY <1>6, OrderlyCur DEF HnswNote, UnlockCur, CursorOK, HnswLabels
<1> QED
  BY <1>1, <1>2, <1>3, <1>4, <1>5, <1>6 DEF Update

LEMMA OrderlyHook ==
  ASSUME TypeInv, NEW t \in Threads, LockOf(t), IvfHook(t)
  PROVE  OrderlyLocks(t)
<1> USE OrderlySteps DEF TypeInv, TypeOK
<1>1. CASE IvfLoad(t) \/ IvfStore(t) \/ FileOne(t) \/ BuildIds(t) \/ BuildRead(t)
  BY <1>1, SameLocks DEF IvfLoad, IvfStore, FileOne, BuildIds, BuildRead, ReadEach
<1>2. CASE FileLock(t)
  BY <1>2, OrderlyCur DEF FileLock, LockCur, CursorOK, IvfLabels
<1>3. CASE FileDone(t)
  BY <1>3, OrderlyCur DEF FileDone, UnlockCur, CursorOK, IvfLabels, LockOf, MutexLabels
<1>4. CASE IvfUnfile(t)
  BY <1>4, OrderlyCur DEF IvfUnfile, UnlockCur, CursorOK, IvfLabels
<1>5. CASE BuildLock(t)
  BY <1>5, OrderlyCur DEF BuildLock, LockCur, CursorOK, IvfLabels
<1>6. CASE BuildThrow(t)
  <2>1. cur[t] \in Names /\ mutex[cur[t]].w = t /\ vec_mutex.w = t
    BY <1>6 DEF BuildThrow, CursorOK, IvfLabels, LockOf, MutexLabels
  <2>2. \A n \in Names : Orderly(mutex[n], mutex'[n], t)
    BY <1>6, <2>1 DEF BuildThrow, UnlockCur
  <2> QED
    BY <1>6, <2>1, <2>2 DEF BuildThrow, OrderlyLocks
<1>7. CASE BuildDone(t)
  BY <1>7, OrderlyCur DEF BuildDone, UnlockCur, CursorOK, IvfLabels, LockOf, MutexLabels
<1> QED
  BY <1>1, <1>2, <1>3, <1>4, <1>5, <1>6, <1>7 DEF IvfHook

LEMMA OrderlyAddIndex ==
  ASSUME TypeInv, NEW t \in Threads, LockOf(t), AddIndex(t)
  PROVE  OrderlyLocks(t)
<1> USE OrderlySteps DEF TypeInv, TypeOK
<1>1. CASE IxLock(t)
  BY <1>1 DEF IxLock, OrderlyLocks
<1>2. CASE IxIds(t) \/ IxRead(t)
  BY <1>2, SameLocks DEF IxIds, IxRead, ReadEach
<1>3. CASE IxInstall(t)
  BY <1>3 DEF IxInstall, OrderlyLocks, LockOf
<1> QED
  BY <1>1, <1>2, <1>3 DEF AddIndex

LEMMA OrderlyEnd ==
  ASSUME TypeInv, NEW t \in Threads, NEW a, SeEnd(t, a)
  PROVE  OrderlyLocks(t)
  BY OrderlySteps DEF SeEnd, OrderlyLocks, TypeInv, TypeOK

LEMMA OrderlyRead ==
  ASSUME TypeInv, NEW t \in Threads, NEW tolerant, ReadOrFail(t, tolerant)
  PROVE  OrderlyLocks(t)
  BY OrderlyEnd, SameLocks DEF ReadOrFail

LEMMA OrderlySearch ==
  ASSUME TypeInv, NEW t \in Threads, LockOf(t), Search(t)
  PROVE  OrderlyLocks(t)
<1> USE OrderlySteps DEF TypeInv, TypeOK
<1>1. CASE SeIdx(t)
  BY <1>1 DEF SeIdx, OrderlyLocks
<1>2. CASE SeVec(t)
  BY <1>2 DEF SeVec, OrderlyLocks
<1>3. CASE EuIds(t) \/ EuTop(t) \/ HnInsert(t) \/ HnKnn(t)
  BY <1>3, SameLocks DEF EuIds, EuTop, HnInsert, HnKnn
<1>4. CASE EuScan(t) \/ Fetch(t)
  BY <1>4, OrderlyRead DEF EuScan, Fetch
<1>5. CASE HnCheck(t)
  <2>1. cur[t] \in Names /\ CanShare(mutex[cur[t]])
    BY <1>5 DEF HnCheck, CursorOK, HnswLabels
  <2>2. CASE UNCHANGED mutex
    BY <1>5, <2>2, SameLocks DEF HnCheck, locks
  <2>3. CASE mutex' = [mutex EXCEPT ![cur[t]] = Share(@, t)]
    BY <1>5, <2>1, <2>3, OrderlyCur DEF HnCheck
  <2> QED
    BY <1>5, <2>2, <2>3 DEF HnCheck
<1>6. CASE HnBuild(t)
  BY <1>6, OrderlyCur DEF HnBuild, LockCur, CursorOK, HnswLabels
<1>7. CASE HnBuilt(t)
  BY <1>7, OrderlyCur DEF HnBuilt, UnlockCur, CursorOK, HnswLabels, LockOf, MutexLabels
<1>8. CASE HnRelock(t)
  BY <1>8, OrderlyCur DEF HnRelock, CursorOK, HnswLabels
<1>9. CASE IvProbe(t)
  <2>1. cur[t] \in Names /\ CanShare(mutex[cur[t]])
    BY <1>9 DEF IvProbe, CursorOK, IvfLabels
  <2>2. CASE SeEnd(t, NoAnswer)
    BY <2>2, OrderlyEnd
  <2>3. CASE mutex' = [mutex EXCEPT ![cur[t]] = Share(@, t)] /\ UNCHANGED <<vec_mutex, idx_mutex>>
    BY <2>1, <2>3, OrderlyCur
  <2> QED
    BY <1>9, <2>2, <2>3 DEF IvProbe
<1>10. CASE SeDone(t)
  BY <1>10, OrderlyEnd DEF SeDone
<1> QED
  BY <1>1, <1>2, <1>3, <1>4, <1>5, <1>6, <1>7, <1>8, <1>9, <1>10 DEF Search

LEMMA OrderlyStep ==
  ASSUME TypeInv, NEW t \in Threads, LockOf(t), Begin(t) \/ Step(t)
  PROVE  OrderlyLocks(t)
<1>1. CASE Begin(t) \/ Return(t)
  BY <1>1, SameLocks DEF Begin, Return
<1>2. CASE Announce(t)
  <2>1. CASE pc[t] \in {"hnswNote", "ivfUnfile", "fileLock", "buildLock", "hnBuild"}
    BY <1>2, <2>1, OrderlyCur, OrderlySteps
    DEF Announce, LockCur, CursorOK, HnswLabels, IvfLabels, TypeInv, TypeOK
  <2>2. CASE pc[t] \notin {"hnswNote", "ivfUnfile", "fileLock", "buildLock", "hnBuild"}
    BY <1>2, <2>2, OrderlySteps DEF Announce, OrderlyLocks, TypeInv, TypeOK
  <2> QED
    BY <2>1, <2>2
<1>3. CASE SvVec(t) \/ SvIdx(t) \/ GetParams(t)
  BY <1>3, OrderlySteps, SameLocks DEF SvVec, SvIdx, GetParams, OrderlyLocks, TypeInv, TypeOK
<1> QED
  BY <1>1, <1>2, <1>3, OrderlyUpdate, OrderlyHook, OrderlyAddIndex, OrderlySearch DEF Step

LEMMA LockOfOthers ==
  ASSUME TypeInv, NEW t \in Threads, NEW u \in Threads \ {t}, OrderlyLocks(t), Others(t), LockOf(u)
  PROVE  LockOf(u)'
<1>1. pc'[u] = pc[u] /\ call'[u] = call[u] /\ cur'[u] = cur[u] /\ u # NoThread
  BY ThreadAssumption DEF Others
<1>2. /\ vec_mutex'.w = u <=> vec_mutex.w = u
      /\ vec_mutex.w = u /\ vec_mutex.r = {} => vec_mutex'.r = {}
      /\ idx_mutex.w = u => idx_mutex'.w = u
  BY <1>1 DEF OrderlyLocks, Orderly
<1>3. pc[u] \in MutexLabels => cur[u] \in Names
  BY DEF TypeInv, CursorOK, MutexLabels, HnswLabels, IvfLabels
<1>4. pc[u] \in MutexLabels => mutex'[cur[u]].w = u
  BY <1>1, <1>3 DEF OrderlyLocks, Orderly, LockOf
<1> QED
  BY <1>1, <1>2, <1>4 DEF LockOf

\* Outside the code that holds a mutex exclusively nothing is asked of t but
\* that it has vec_mutex_ for no longer than it writes.
LEMMA LockOfOutside ==
  ASSUME TypeInv, NEW t \in Threads,
         pc'[t] \notin HookLabels \cup MutexLabels \cup {"ixIds", "ixRead"},
         pc'[t] \in {"addWrite", "remErase"} \/ vec_mutex'.w # t
  PROVE  LockOf(t)'
  BY DEF LockOf

LEMMA LockOfUpdate ==
  ASSUME TypeInv, NEW t \in Threads, LockOf(t), Update(t)
  PROVE  LockOf(t)'
<1> USE ThreadAssumption DEF TypeInv, TypeOK, Goto
<1>1. CASE AddWrite(t)
  BY <1>1 DEF AddWrite, LockOf, CallOK, HookLabels, MutexLabels, Unlock, Mutex
<1>2. CASE RemErase(t)
  <2>1. vec_mutex.r = {}
    BY <1>2 DEF RemErase, CanLock
  <2>2. CASE vec_mutex' = Unlock(vec_mutex) /\ pc'[t] = "reply"
    BY <2>2, LockOfOutside DEF Unlock, Mutex, HookLabels, MutexLabels
  <2>3. CASE vec_mutex' = Lock(vec_mutex, t) /\ pc'[t] = "notify"
    BY <1>2, <2>1, <2>3 DEF RemErase, LockOf, CallOK, HookLabels, MutexLabels, Lock, Mutex
  <2> QED
    BY <1>2, <2>2, <2>3 DEF RemErase, Reply
<1>3. CASE Notify(t)
  BY <1>3 DEF Notify, LockOf, HookLabels, MutexLabels
<1>4. CASE HookNext(t)
  <2>1. PICK n \in todo[t] : Goto(t, HookLabel(t, indices[n]))
    BY <1>4 DEF HookNext
  <2>2. n \in Names /\ indices[n] \in Index /\ call[t].op \in {"add", "remove"}
    BY <1>4, InstalledIndex DEF HookNext, CursorOK, CallOK, HookLabels
  <2>3. pc'[t] \in HookLabels \ MutexLabels
    BY <2>1, <2>2, KindOf DEF HookLabel, Index, HookLabels, MutexLabels
  <2> QED
    BY <1>4, <2>3 DEF HookNext, LockOf, HookLabels, locks
<1>5. CASE HooksDone(t)
  <2>1. vec_mutex'.w # t
    BY <1>5 DEF HooksDone, LockOf, HookLabels, CallOK, Unlock, Mutex
  <2> QED
    BY <1>5, <2>1, LockOfOutside DEF HooksDone, Reply, HookLabels, MutexLabels
<1>6. CASE HnswNote(t)
  BY <1>6 DEF HnswNote, LockOf, HookLabels, MutexLabels
<1> QED
  BY <1>1, <1>2, <1>3, <1>4, <1>5, <1>6 DEF Update

LEMMA LockOfHook ==
  ASSUME TypeInv, NEW t \in Threads, LockOf(t), IvfHook(t)
  PROVE  LockOf(t)'
<1> USE ThreadAssumption DEF TypeInv, TypeOK, Goto
<1>1. CASE IvfLoad(t) \/ IvfStore(t)
  BY <1>1 DEF IvfLoad, IvfStore, LockOf, HookLabels, MutexLabels, locks
<1>2. CASE FileLock(t)
  BY <1>2 DEF FileLock, LockCur, StartLoop, LockOf, HookLabels, MutexLabels, IvfLabels, CursorOK,
              Lock, Mutex
<1>3. CASE FileOne(t)
  BY <1>3 DEF FileOne, LockOf, HookLabels, MutexLabels, locks
<1>4. CASE FileDone(t) \/ IvfUnfile(t) \/ BuildDone(t)
  BY <1>4 DEF FileDone, IvfUnfile, BuildDone, LockOf, HookLabels, MutexLabels
<1>5. CASE BuildLock(t)
  <2>1. mutex'[cur'[t]].w = t
    BY <1>5 DEF BuildLock, LockCur, CursorOK, IvfLabels, Lock, Mutex, locals
  <2> QED
    BY <1>5, <2>1 DEF BuildLock, LockOf, HookLabels, MutexLabels
<1>6. CASE BuildIds(t) \/ BuildRead(t)
  BY <1>6 DEF BuildIds, ReadIds, StartLoop, BuildRead, ReadEach, LockOf, HookLabels, MutexLabels, locks
<1>7. CASE BuildThrow(t)
  BY <1>7, LockOfOutside DEF BuildThrow, Reply, HookLabels, MutexLabels, Unlock, Mutex
<1> QED
  BY <1>1, <1>2, <1>3, <1>4, <1>5, <1>6, <1>7 DEF IvfHook

LEMMA LockOfAddIndex ==
  ASSUME TypeInv, NEW t \in Threads, LockOf(t), AddIndex(t)
  PROVE  LockOf(t)'
<1> USE DEF TypeInv, TypeOK, Goto
<1>1. CASE IxLock(t)
  BY <1>1 DEF IxLock, Reply, LockOf, HookLabels, MutexLabels, Lock, Mutex
<1>2. CASE IxIds(t) \/ IxRead(t)
  BY <1>2 DEF IxIds, ReadIds, StartLoop, IxRead, ReadEach, LockOf, HookLabels, MutexLabels, locks
<1>3. CASE IxInstall(t)
  BY <1>3, LockOfOutside DEF IxInstall, Reply, LockOf, HookLabels, MutexLabels
<1> QED
  BY <1>1, <1>2, <1>3 DEF AddIndex

LEMMA LockOfEnd ==
  ASSUME TypeInv, NEW t \in Threads, LockOf(t), NEW a, SeEnd(t, a), pc[t] \in Reading
  PROVE  LockOf(t)'
<1>1. vec_mutex'.w # t
  BY DEF SeEnd, LockOf, Reading, HookLabels, Unshare, TypeInv, TypeOK, Mutex
<1> QED
  BY <1>1, LockOfOutside DEF SeEnd, Reply, Goto, HookLabels, MutexLabels, TypeInv, TypeOK

LEMMA LockOfRead ==
  ASSUME TypeInv, NEW t \in Threads, LockOf(t), NEW tolerant, ReadOrFail(t, tolerant),
         pc[t] \in {"euScan", "fetch"}
  PROVE  LockOf(t)'
<1>1. ASSUME UNCHANGED <<store, locks, pc, call, batch, todo, cur, since_read, ret, accepting>>
      PROVE  LockOf(t)'
  BY <1>1 DEF LockOf, HookLabels, MutexLabels, locks
<1> QED
  BY <1>1, LockOfEnd DEF ReadOrFail, Reading

LEMMA LockOfSearch ==
  ASSUME TypeInv, NEW t \in Threads, LockOf(t), Search(t)
  PROVE  LockOf(t)'
<1> USE DEF TypeInv, TypeOK, Goto
<1>1. CASE SeIdx(t)
  BY <1>1, LockOfOutside DEF SeIdx, LockOf, HookLabels, MutexLabels
<1>2. CASE SeVec(t)
  <2>1. call[t].name \in Names
    BY <1>2, RequestAssumption DEF SeVec, CallOK, Request
  <2>2. SearchLabel(indices[call[t].name]) \in {"euIds", "hnCheck", "ivProbe"}
    BY <2>1, KindOf DEF SearchLabel, Index
  <2>3. vec_mutex'.w # t
    BY <1>2, ThreadAssumption DEF SeVec, CanShare, Share, Mutex
  <2>4. pc'[t] \in {"euIds", "hnCheck", "ivProbe"}
    BY <1>2, <2>2 DEF SeVec
  <2> QED
    BY <2>3, <2>4, LockOfOutside DEF HookLabels, MutexLabels
<1>3. CASE EuIds(t) \/ EuTop(t) \/ HnKnn(t)
  BY <1>3, LockOfOutside
  DEF EuIds, ReadIds, EuTop, HnKnn, StartLoop, LockOf, HookLabels, MutexLabels, locks
<1>4. CASE EuScan(t) \/ Fetch(t)
  BY <1>4, LockOfRead DEF EuScan, Fetch
<1>5. CASE HnCheck(t) \/ HnBuilt(t) \/ HnRelock(t)
  BY <1>5, LockOfOutside DEF HnCheck, HnBuilt, HnRelock, LockOf, HookLabels, MutexLabels
<1>6. CASE HnBuild(t)
  <2>1. mutex'[cur'[t]].w = t
    BY <1>6 DEF HnBuild, LockCur, StartLoop, CursorOK, HnswLabels, Lock, Mutex
  <2> QED
    BY <1>6, <2>1 DEF HnBuild, StartLoop, LockOf, HookLabels, MutexLabels
<1>7. CASE HnInsert(t)
  BY <1>7 DEF HnInsert, LockOf, HookLabels, MutexLabels, locks
<1>8. CASE IvProbe(t)
  <2>1. CASE SeEnd(t, NoAnswer)
    BY <1>8, <2>1, LockOfEnd DEF IvProbe, Reading
  <2>2. CASE UNCHANGED vec_mutex /\ pc'[t] = "fetch"
    BY <1>8, <2>2, LockOfOutside DEF IvProbe, LockOf, HookLabels, MutexLabels
  <2> QED
    BY <1>8, <2>1, <2>2 DEF IvProbe, StartLoop
<1>9. CASE SeDone(t)
  BY <1>9, LockOfEnd DEF SeDone, Reading
<1> QED
  BY <1>1, <1>2, <1>3, <1>4, <1>5, <1>6, <1>7, <1>8, <1>9 DEF Search

LEMMA LockOfStep ==
  ASSUME TypeInv, NEW t \in Threads, LockOf(t), Begin(t) \/ Step(t)
  PROVE  LockOf(t)'
<1>1. CASE Begin(t)
  <2>1. PICK c \in Requests : call' = [call EXCEPT ![t] = c] /\ Goto(t, First(c))
    BY <1>1 DEF Begin
  <2>2. First(c) \notin HookLabels \cup MutexLabels \cup {"ixIds", "ixRead"}
    BY RequestAssumption DEF Request, Ops, First, HookLabels, MutexLabels
  <2>3. vec_mutex'.w # t
    BY <1>1 DEF Begin, LockOf, HookLabels, locks
  <2> QED
    BY <2>1, <2>2, <2>3, LockOfOutside DEF Goto, TypeInv, TypeOK
<1>2. CASE Return(t)
  BY <1>2, LockOfOutside DEF Return, Goto, LockOf, HookLabels, MutexLabels, locks, TypeInv, TypeOK
<1>3. CASE Announce(t)
  <2>1. pc[t] \notin MutexLabels \cup {"ixIds", "ixRead"}
    BY <1>3 DEF Announce, MutexLabels
  <2>2. \/ pc[t] \in {"addWrite", "remErase"}
        \/ vec_mutex' = vec_mutex
    BY <1>3 DEF Announce
  <2> QED
    BY <1>3, <2>1, <2>2 DEF Announce, LockOf, HookLabels
<1>4. CASE SvVec(t) \/ SvIdx(t) \/ GetParams(t)
  <2>1. vec_mutex'.w # t
    BY <1>4 DEF SvVec, SvIdx, GetParams, LockOf, HookLabels, Share, Unshare, locks, TypeInv, TypeOK, Mutex
  <2> QED
    BY <1>4, <2>1, LockOfOutside
    DEF SvVec, SvIdx, GetParams, Reply, Goto, HookLabels, MutexLabels, TypeInv, TypeOK
<1> QED
  BY <1>1, <1>2, <1>3, <1>4, LockOfUpdate, LockOfHook, LockOfAddIndex, LockOfSearch DEF Step

-----------------------------------------------------------------------------
(* What a thread has written and has yet to tell the index of n: its whole *)
(* batch until the hook of n takes it up, then what the hook has not filed *)
(* yet.  A rebuild owes nothing: it reads the vectors anew.                *)

Owes(t, n, id) ==
  \/ /\ id \in batch[t]
     /\ \/ pc[t] = "notify"
        \/ pc[t] \in HookLabels /\ n \in todo[t]
        \/ cur[t] = n /\ pc[t] \in {"hnswNote", "ivfLoad", "ivfStore", "fileLock", "ivfUnfile",
                                    "undefined", "buildLock"}
  \/ id \in left[t] /\ cur[t] = n /\ pc[t] = "file"

Owed(n, id) == \E t \in Threads : Owes(t, n, id)

\* Written, and told to no index at all so far.
Announced(id) == \E t \in Threads : pc[t] = "notify" /\ id \in batch[t]

\* What a removal tells of is gone; what an add is filing is of its batch.
BatchOf(t) ==
  /\ pc[t] \in HookLabels /\ call[t].op = "remove" => batch[t] \cap Live = {}
  /\ pc[t] = "ivfUnfile" => call[t].op = "remove"
  /\ pc[t] = "file" => left[t] \subseteq batch[t]

\* A step writes vectors_ alone and owes what it wrote.
LEMMA Writes ==
  ASSUME TypeInv, NEW t \in Threads, Begin(t) \/ Step(t)
  PROVE  \/ vectors' = vectors
         \/ /\ pc[t] \in {"addWrite", "remErase"} /\ CanLock(vec_mutex, t)
            /\ \A id \in Ids : \/ vectors'[id] = vectors[id]
                               \/ pc'[t] = "notify" /\ id \in batch'[t]
<1>1. CASE Begin(t) \/ Return(t) \/ Announce(t) \/ SvVec(t) \/ SvIdx(t) \/ GetParams(t)
  BY <1>1 DEF Begin, Return, Announce, SvVec, SvIdx, GetParams, store
<1>2. CASE Update(t)
  <2>1. CASE AddWrite(t)
    BY <2>1 DEF AddWrite, Goto, TypeInv, TypeOK
  <2>2. CASE RemErase(t)
    <3>1. CASE call[t].ids \cap Live = {}
      BY <2>2, <3>1 DEF RemErase, TypeInv, TypeOK, Stored
    <3>2. CASE call[t].ids \cap Live # {}
      BY <2>2, <3>2 DEF RemErase, Goto, TypeInv, TypeOK
    <3> QED
      BY <3>1, <3>2
  <2>3. CASE Notify(t) \/ HookNext(t) \/ HooksDone(t) \/ HnswNote(t)
    BY <2>3 DEF Notify, HookNext, HooksDone, HnswNote, store
  <2> QED
    BY <1>2, <2>1, <2>2, <2>3 DEF Update
<1>3. CASE IvfHook(t)
  BY <1>3 DEF IvfHook, IvfLoad, IvfStore, FileLock, FileOne, FileDone, IvfUnfile, BuildLock,
              BuildIds, BuildThrow, BuildRead, BuildDone, ReadEach, store
<1>4. CASE AddIndex(t)
  BY <1>4 DEF AddIndex, IxLock, IxIds, IxRead, IxInstall, ReadEach, store
<1>5. CASE Search(t)
  BY <1>5 DEF Search, SeIdx, SeVec, EuIds, EuScan, EuTop, HnCheck, HnBuild, HnInsert, HnBuilt,
              HnRelock, HnKnn, IvProbe, Fetch, SeDone, ReadOrFail, SeEnd, store
<1> QED
  BY <1>1, <1>2, <1>3, <1>4, <1>5 DEF Step

LEMMA BatchOfOthers ==
  ASSUME TypeInv, NEW t \in Threads, NEW u \in Threads \ {t}, Begin(t) \/ Step(t),
         Others(t), LockOf(u), BatchOf(u)
  PROVE  BatchOf(u)'
<1>1. /\ pc'[u] = pc[u] /\ call'[u] = call[u] /\ batch'[u] = batch[u] /\ left'[u] = left[u]
      /\ u # NoThread
  BY ThreadAssumption DEF Others
<1>2. pc[u] \in HookLabels /\ call[u].op = "remove" => vectors' = vectors
  BY <1>1, Writes DEF LockOf, CanLock
<1> QED
  BY <1>1, <1>2 DEF BatchOf, Live

LEMMA BatchOfHook ==
  ASSUME TypeInv, NEW t \in Threads, BatchOf(t), IvfHook(t)
  PROVE  BatchOf(t)'
<1> USE DEF TypeInv, TypeOK, Goto
<1>1. Live' = Live
  BY DEF IvfHook, IvfLoad, IvfStore, FileLock, FileOne, FileDone, IvfUnfile, BuildLock,
         BuildIds, BuildThrow, BuildRead, BuildDone, ReadEach, Live, store
<1>2. pc[t] \in HookLabels /\ call'[t] = call[t] /\ batch'[t] \in {batch[t], {}}
  BY DEF IvfHook, IvfLoad, IvfStore, FileLock, FileOne, FileDone, IvfUnfile, BuildLock,
         BuildIds, BuildThrow, BuildRead, BuildDone, ReadEach, Reply, HookLabels, locals
<1>3. pc'[t] = "ivfUnfile" => call[t].op = "remove"
  BY <1>2 DEF IvfHook, IvfLoad, IvfStore, FileLock, FileOne, FileDone, IvfUnfile, BuildLock,
         BuildIds, BuildThrow, BuildRead, BuildDone, ReadEach, Reply, ReadIds, StartLoop, CallOK
<1>4. pc'[t] = "file" => left'[t] \subseteq batch'[t]
  <2>1. CASE FileLock(t)
    BY <2>1 DEF FileLock, StartLoop
  <2>2. CASE FileOne(t)
    BY <2>2 DEF FileOne, ReadNext, BatchOf
  <2>3. CASE ~FileLock(t) /\ ~FileOne(t)
    BY <2>3 DEF IvfHook, IvfLoad, IvfStore, FileDone, IvfUnfile, BuildLock,
                BuildIds, BuildThrow, BuildRead, BuildDone, ReadEach, Reply, ReadIds, StartLoop
  <2> QED
    BY <2>1, <2>2, <2>3
<1> QED
  BY <1>1, <1>2, <1>3, <1>4 DEF BatchOf

\* Away from the hooks nothing is asked of the batch.
LEMMA BatchOfOutside ==
  ASSUME NEW t \in Threads, pc'[t] \notin HookLabels
  PROVE  BatchOf(t)'
  BY DEF BatchOf, HookLabels

LEMMA BatchOfUpdate ==
  ASSUME TypeInv, NEW t \in Threads, BatchOf(t), Update(t)
  PROVE  BatchOf(t)'
<1> USE DEF TypeInv, TypeOK, Goto
<1>1. CASE AddWrite(t)
  BY <1>1 DEF AddWrite, BatchOf, CallOK
<1>2. CASE RemErase(t)
  <2>1. CASE call[t].ids \cap Live = {}
    <3>1. pc'[t] = "reply"
      BY <1>2, <2>1 DEF RemErase, Reply
    <3> QED
      BY <3>1, BatchOfOutside DEF HookLabels
  <2>2. CASE call[t].ids \cap Live # {}
    <3>1. pc'[t] = "notify" /\ batch'[t] = call[t].ids \cap Live
      BY <1>2, <2>2 DEF RemErase
    <3>2. (call[t].ids \cap Live) \cap Live' = {}
      BY <1>2 DEF RemErase, Live, Present
    <3> QED
      BY <3>1, <3>2 DEF BatchOf
  <2> QED
    BY <2>1, <2>2
<1>3. CASE HooksDone(t)
  BY <1>3, BatchOfOutside DEF HooksDone, Reply, HookLabels
<1>4. CASE HookNext(t)
  <2>1. PICK n \in todo[t] : Goto(t, HookLabel(t, indices[n]))
    BY <1>4 DEF HookNext
  <2>2. n \in Names /\ indices[n] \in Index /\ call[t].op \in {"add", "remove"}
    BY <1>4, InstalledIndex DEF HookNext, CursorOK, CallOK, HookLabels
  <2>3. pc'[t] \in HookLabels \ {"file", "ivfUnfile"}
    BY <2>1, <2>2, KindOf DEF HookLabel, Index, HookLabels
  <2> QED
    BY <1>4, <2>3 DEF HookNext, BatchOf, HookLabels, Live, store
<1>5. CASE Notify(t) \/ HnswNote(t)
  BY <1>5 DEF Notify, HnswNote, BatchOf, HookLabels, Live, store, locals
<1> QED
  BY <1>1, <1>2, <1>3, <1>4, <1>5 DEF Update

LEMMA BatchOfStep ==
  ASSUME TypeInv, NEW t \in Threads, BatchOf(t), Begin(t) \/ Step(t)
  PROVE  BatchOf(t)'
<1> USE DEF TypeInv, TypeOK, Goto
<1>1. CASE Begin(t)
  <2>1. PICK c \in Requests : call' = [call EXCEPT ![t] = c] /\ Goto(t, First(c))
    BY <1>1 DEF Begin
  <2>2. First(c) \notin HookLabels
    BY RequestAssumption DEF Request, Ops, First, HookLabels
  <2> QED
    BY <2>1, <2>2, BatchOfOutside
<1>2. CASE Announce(t)
  BY <1>2 DEF Announce, BatchOf, Live, store, locals
<1>3. CASE Return(t) \/ SvVec(t) \/ SvIdx(t) \/ GetParams(t)
  BY <1>3, BatchOfOutside DEF Return, SvVec, SvIdx, GetParams, Reply, HookLabels
<1>4. CASE AddIndex(t)
  <2>1. pc'[t] \in {"reply", "ixIds", "ixRead"}
    BY <1>4 DEF AddIndex, IxLock, IxIds, IxRead, IxInstall, Reply, ReadIds, StartLoop, ReadEach
  <2> QED
    BY <2>1, BatchOfOutside DEF HookLabels
<1>5. CASE Search(t)
  <2>1. CASE SeVec(t)
    <3>1. call[t].name \in Names
      BY <2>1, RequestAssumption DEF SeVec, CallOK, Request
    <3>2. SearchLabel(indices[call[t].name]) \in {"euIds", "hnCheck", "ivProbe"}
      BY <3>1, KindOf DEF SearchLabel, Index
    <3> QED
      BY <2>1, <3>2, BatchOfOutside DEF SeVec, HookLabels
  <2>2. CASE ~SeVec(t)
    <3>1. pc'[t] \in {"reply", "seVec", "euScan", "fetch", "hnBuild", "hnKnn", "hnInsert", "hnRelock"}
      BY <1>5, <2>2 DEF Search, SeIdx, EuIds, EuScan, EuTop, HnCheck, HnBuild, HnInsert, HnBuilt,
           HnRelock, HnKnn, IvProbe, Fetch, SeDone, ReadOrFail, SeEnd, Reply, ReadIds, StartLoop
    <3> QED
      BY <3>1, BatchOfOutside DEF HookLabels
  <2> QED
    BY <2>1, <2>2
<1> QED
  BY <1>1, <1>2, <1>3, <1>4, <1>5, BatchOfUpdate, BatchOfHook DEF Step

\* A step that owes less than before has paid: it noted the id in an hnsw
\* index, filed it, or is about to read everything anew; or nothing is left to
\* tell of, since the id is gone.
Kept(t) ==
  \A n \in Installed, id \in Ids : Owes(t, n, id) =>
    \/ Owes(t, n, id)'
    \/ cur[t] = n /\ HnswNote(t)
    \/ id \notin Live' /\ (indices[n] \in IvfIndex \/ BuildThrow(t))
    \/ cur[t] = n /\ pc[t] = "file" /\ indices'[n].filed[id][vectors'[id]] > 0
    \/ cur[t] = n /\ pc[t] = "buildLock" /\ mutex'[n].w = t /\ ~indices'[n].built

LEMMA OwesInHooks ==
  ASSUME NEW t \in Threads, NEW n, NEW id, Owes(t, n, id)
  PROVE  pc[t] \in HookLabels
  BY DEF Owes, HookLabels

LEMMA KeptOutside == ASSUME NEW t \in Threads, pc[t] \notin HookLabels PROVE Kept(t)
  BY OwesInHooks DEF Kept

\* A step that leaves the thread at the same place, or at one that owes as much.
LEMMA KeptStill ==
  ASSUME NEW t \in Threads, batch'[t] = batch[t], todo'[t] = todo[t], cur'[t] = cur[t],
         \/ pc'[t] = pc[t] /\ left'[t] = left[t]
         \/ /\ pc[t] \in HookLabels \ {"notify", "file"}
            /\ pc'[t] \in {"hnswNote", "ivfLoad", "ivfStore", "fileLock", "ivfUnfile",
                           "undefined", "buildLock"}
         \/ /\ pc[t] \in {"hook", "buildIds", "buildRead"}
            /\ pc'[t] \in HookLabels
  PROVE  Kept(t)
  BY DEF Kept, Owes, HookLabels

LEMMA KeptUpdate ==
  ASSUME TypeInv, NEW t \in Threads, BatchOf(t), Update(t)
  PROVE  Kept(t)
<1> USE DEF TypeInv, TypeOK, Goto
<1>1. CASE AddWrite(t) \/ RemErase(t)
  BY <1>1, KeptOutside DEF AddWrite, RemErase, HookLabels
<1>2. CASE Notify(t)
  BY <1>2 DEF Notify, Kept, Owes, HookLabels
<1>3. CASE HookNext(t)
  <2>1. PICK m \in todo[t] : /\ todo' = [todo EXCEPT ![t] = @ \ {m}]
                             /\ cur' = [cur EXCEPT ![t] = m]
                             /\ Goto(t, HookLabel(t, indices[m]))
    BY <1>3 DEF HookNext
  <2>2. m \in Names /\ indices[m] \in Index /\ call[t].op \in {"add", "remove"}
    BY <1>3, InstalledIndex DEF HookNext, CursorOK, CallOK, HookLabels
  <2>3. pc[t] = "hook" /\ batch'[t] = batch[t] /\ cur'[t] = m /\ todo'[t] = todo[t] \ {m} /\ Live' = Live
    BY <1>3, <2>1 DEF HookNext, Live, store
  <2>4. \/ pc'[t] \in {"hnswNote", "ivfLoad", "buildLock"}
        \/ pc'[t] = "hook" /\ indices[m] \in IvfIndex /\ call[t].op = "remove"
    BY <2>1, <2>2, KindOf DEF HookLabel, Index
  <2>5. ASSUME NEW n \in Installed, NEW id \in Ids, Owes(t, n, id)
        PROVE  Owes(t, n, id)' \/ (id \notin Live' /\ indices[n] \in IvfIndex)
    <3>1. id \in batch[t] /\ n \in todo[t]
      BY <2>3, <2>5 DEF Owes
    <3>2. CASE n # m
      BY <2>3, <2>4, <3>1, <3>2 DEF Owes, HookLabels
    <3>3. CASE n = m /\ pc'[t] = "hook"
      BY <2>3, <2>4, <3>1, <3>3 DEF BatchOf, HookLabels
    <3>4. CASE n = m /\ pc'[t] # "hook"
      BY <2>3, <2>4, <3>1, <3>4 DEF Owes
    <3> QED
      BY <3>2, <3>3, <3>4
  <2> QED
    BY <2>5 DEF Kept
<1>4. CASE HooksDone(t)
  BY <1>4 DEF HooksDone, Kept, Owes
<1>5. CASE HnswNote(t)
  BY <1>5 DEF HnswNote, Kept, Owes, HookLabels, locals
<1> QED
  BY <1>1, <1>2, <1>3, <1>4, <1>5 DEF Update

LEMMA FiledCount ==
  ASSUME NEW i \in IvfIndex, NEW id \in Ids, NEW vec \in Vals
  PROVE  /\ IvfFiled(i, id, vec).filed[id][vec] > 0
         /\ \A d \in Ids, v \in Vals : IvfFiled(i, id, vec).filed[d][v] >= i.filed[d][v]
         /\ IvfFiled(i, id, vec).built = i.built
<1> DEFINE row == [i.filed[id] EXCEPT ![vec] = @ + 1]
<1>1. i.filed \in Filing /\ row \in [Vals -> Nat]
  BY DEF IvfIndex, Filing
<1>2. IvfFiled(i, id, vec) = [i EXCEPT !.filed = [i.filed EXCEPT ![id] = row]]
  BY DEF IvfFiled, IvfIndex
<1>3. IvfFiled(i, id, vec).filed = [i.filed EXCEPT ![id] = row] /\ IvfFiled(i, id, vec).built = i.built
  BY <1>2 DEF IvfIndex
<1>4. row[vec] = i.filed[id][vec] + 1 /\ \A v \in Vals : row[v] >= i.filed[id][v]
  BY <1>1 DEF Filing
<1> HIDE DEF row
<1> QED
  BY <1>1, <1>3, <1>4 DEF Filing

LEMMA KeptFileOne ==
  ASSUME TypeInv, NEW t \in Threads, BatchOf(t), FileOne(t)
  PROVE  Kept(t)
<1> USE DEF TypeInv, TypeOK
<1> DEFINE i == indices[cur[t]]
<1>1. cur[t] \in Names /\ i \in IvfIndex /\ pc[t] = "file"
  BY DEF FileOne, CursorOK, IvfLabels
<1>2. PICK d \in left[t] :
        /\ ReadNext(t, d)
        /\ \/ vectors[d] = Nil /\ UNCHANGED <<indices, pc>>
           \/ vectors[d] # Nil /\ i.built /\ SetIndex(t, IvfFiled(i, d, vectors[d])) /\ UNCHANGED pc
           \/ vectors[d] # Nil /\ ~i.built /\ Goto(t, "undefined") /\ UNCHANGED indices
  BY DEF FileOne
<1>3. /\ left'[t] = left[t] \ {d} /\ d \in Ids /\ vectors[d] \in Vals \cup {Nil}
      /\ vectors' = vectors /\ cur' = cur /\ batch' = batch /\ todo' = todo
  BY <1>2 DEF FileOne, ReadNext, Stored
<1> HIDE DEF i
<1>4. pc'[t] \in {"file", "undefined"}
  BY <1>1, <1>2 DEF Goto
<1>5. ASSUME NEW n \in Installed, NEW id \in Ids, Owes(t, n, id)
      PROVE  \/ Owes(t, n, id)'
             \/ id \notin Live' /\ indices[n] \in IvfIndex
             \/ cur[t] = n /\ pc[t] = "file" /\ indices'[n].filed[id][vectors'[id]] > 0
  <2>1. CASE id \in batch[t] /\ n \in todo[t]
    BY <1>3, <1>4, <2>1 DEF Owes, HookLabels
  <2>2. CASE id \in left[t] /\ cur[t] = n
    <3>1. CASE pc'[t] = "undefined"
      BY <1>1, <1>3, <2>2, <3>1 DEF Owes, BatchOf
    <3>2. CASE pc'[t] = "file" /\ id # d
      BY <1>3, <2>2, <3>2 DEF Owes
    <3>3. CASE pc'[t] = "file" /\ id = d /\ vectors[d] = Nil
      BY <1>1, <1>3, <2>2, <3>3 DEF Live, Present, i
    <3>4. CASE pc'[t] = "file" /\ id = d /\ vectors[d] # Nil
      <4>1. indices'[cur[t]] = IvfFiled(i, d, vectors[d])
        BY <1>1, <1>2, <3>4 DEF SetIndex, Goto
      <4> QED
        BY <1>1, <1>3, <2>2, <3>4, <4>1, FiledCount
    <3> QED
      BY <1>4, <3>1, <3>2, <3>3, <3>4
  <2> QED
    BY <1>1, <1>5, <2>1, <2>2 DEF Owes
<1> QED
  BY <1>5 DEF Kept

LEMMA KeptHook ==
  ASSUME TypeInv, NEW t \in Threads, LockOf(t), BatchOf(t), IvfHook(t)
  PROVE  Kept(t)
<1> USE DEF TypeInv, TypeOK, Goto
<1>1. CASE IvfLoad(t)
  BY <1>1, KeptStill DEF IvfLoad, HookLabels
<1>2. CASE IvfStore(t)
  BY <1>2, KeptStill DEF IvfStore, HookLabels
<1>3. CASE FileLock(t)
  BY <1>3 DEF FileLock, StartLoop, Kept, Owes, HookLabels
<1>4. CASE FileDone(t)
  BY <1>4 DEF FileDone, Kept, Owes, HookLabels, locals
<1>5. CASE IvfUnfile(t)
  <2>1. cur[t] \in Names /\ indices[cur[t]] \in IvfIndex /\ batch[t] \cap Live = {} /\ Live' = Live
    BY <1>5 DEF IvfUnfile, CursorOK, IvfLabels, BatchOf, HookLabels, Live
  <2> QED
    BY <1>5, <2>1 DEF IvfUnfile, Kept, Owes, HookLabels, locals
<1>6. CASE BuildLock(t)
  <2>1. cur[t] \in Names /\ indices[cur[t]] \in IvfIndex
    BY <1>6 DEF BuildLock, CursorOK, IvfLabels
  <2>2. mutex'[cur[t]].w = t /\ indices'[cur[t]].built = FALSE
    BY <1>6, <2>1 DEF BuildLock, LockCur, Lock, Mutex, SetIndex, IvfCleared, IvfIndex
  <2> QED
    BY <1>6, <2>2 DEF BuildLock, Kept, Owes, HookLabels, locals
<1>7. CASE BuildIds(t)
  BY <1>7, KeptStill DEF BuildIds, ReadIds, StartLoop, HookLabels
<1>8. CASE BuildThrow(t)
  <2>1. batch[t] \cap Live' = {}
    BY <1>8 DEF BuildThrow, LockOf, BatchOf, HookLabels, Live, store
  <2> QED
    BY <1>8, <2>1 DEF BuildThrow, Kept, Owes
<1>9. CASE BuildRead(t)
  BY <1>9, KeptStill DEF BuildRead, ReadEach, HookLabels
<1>10. CASE BuildDone(t)
  BY <1>10, KeptStill DEF BuildDone, HookLabels
<1> QED
  BY <1>1, <1>2, <1>3, <1>4, <1>5, <1>6, <1>7, <1>8, <1>9, <1>10, KeptFileOne DEF IvfHook

LEMMA KeptStep ==
  ASSUME TypeInv, NEW t \in Threads, LockOf(t), BatchOf(t), Begin(t) \/ Step(t)
  PROVE  Kept(t)
<1>1. CASE Announce(t)
  BY <1>1, KeptStill DEF Announce, locals
<1>2. CASE pc[t] \notin HookLabels
  BY <1>2, KeptOutside
<1>3. CASE ~Announce(t) /\ ~Update(t) /\ ~IvfHook(t)
  <2>1. pc[t] \notin HookLabels
    BY <1>3 DEF Begin, Step, Return, SvVec, SvIdx, GetParams, AddIndex, IxLock, IxIds, IxRead,
         IxInstall, Search, SeIdx, SeVec, EuIds, EuScan, EuTop, HnCheck, HnBuild, HnInsert, HnBuilt,
         HnRelock, HnKnn, IvProbe, Fetch, SeDone, HookLabels
  <2> QED
    BY <2>1, KeptOutside
<1> QED
  BY <1>1, <1>2, <1>3, KeptUpdate, KeptHook

-----------------------------------------------------------------------------
(* What an index that is being built has read, and what one that is built  *)
(* has filed: all but what is still owed to it.                            *)

ReadsBuild(t) == pc[t] = "buildRead" =>
  \A id \in Live : id \in left[t] \/ seen[t][id] = vectors[id] \/ Owed(cur[t], id)

\* A new index has no name yet by which it could be owed anything: it relies on
\* the threads that wait for idx_mutex_ to tell it.
ReadsNew(t) == pc[t] = "ixRead" =>
  \A id \in Ids : id \in left[t] \/ seen[t][id] = vectors[id] \/ Announced(id)

FilesAll(n) == indices[n] \in IvfIndex /\ indices[n].built =>
  \A id \in Live : indices[n].filed[id][vectors[id]] > 0 \/ Owed(n, id)

LEMMA OwesOthers ==
  ASSUME NEW t \in Threads, NEW u \in Threads \ {t}, Others(t), NEW n, NEW id
  PROVE  Owes(u, n, id)' <=> Owes(u, n, id)
<1>1. /\ pc'[u] = pc[u] /\ cur'[u] = cur[u] /\ todo'[u] = todo[u]
      /\ batch'[u] = batch[u] /\ left'[u] = left[u]
  BY DEF Others
<1> QED
  BY <1>1 DEF Owes

LEMMA OwedKept ==
  ASSUME NEW t \in Threads, Others(t), Kept(t), NEW n \in Installed, NEW id \in Ids, Owed(n, id)
  PROVE  \/ Owed(n, id)'
         \/ cur[t] = n /\ HnswNote(t)
         \/ id \notin Live' /\ (indices[n] \in IvfIndex \/ BuildThrow(t))
         \/ cur[t] = n /\ pc[t] = "file" /\ indices'[n].filed[id][vectors'[id]] > 0
         \/ cur[t] = n /\ pc[t] = "buildLock" /\ mutex'[n].w = t /\ ~indices'[n].built
<1>1. PICK u \in Threads : Owes(u, n, id)
  BY DEF Owed
<1>2. CASE u = t
  BY <1>1, <1>2 DEF Kept, Owed
<1>3. CASE u # t
  BY <1>1, <1>3, OwesOthers DEF Owed
<1> QED
  BY <1>2, <1>3

\* What has just been written is owed to every index.
LEMMA WrittenOwed ==
  ASSUME TypeInv, NEW t \in Threads, Begin(t) \/ Step(t), NEW id \in Ids, vectors'[id] # vectors[id]
  PROVE  /\ \A n : Owed(n, id)'
         /\ Announced(id)'
<1>1. pc'[t] = "notify" /\ id \in batch'[t]
  BY Writes
<1> QED
  BY <1>1 DEF Owed, Owes, Announced

LEMMA ReadsBuildOthers ==
  ASSUME TypeInv, NEW t \in Threads, NEW u \in Threads \ {t}, Begin(t) \/ Step(t), Others(t),
         LockOf(u), LockOf(t), Kept(t), OrderlyLocks(t), ReadsBuild(u)
  PROVE  ReadsBuild(u)'
<1> SUFFICES ASSUME pc[u] = "buildRead", NEW id \in Ids, id \in Live', NEW n, n = cur[u]
             PROVE  id \in left[u] \/ seen[u][id] = vectors'[id] \/ Owed(n, id)'
  <2>1. pc'[u] = pc[u] /\ cur'[u] = cur[u] /\ left'[u] = left[u] /\ seen'[u] = seen[u]
    BY DEF Others
  <2> QED
    BY <2>1 DEF ReadsBuild, Live, Present, Owed
<1>1. n \in Names /\ indices[n] \in IvfIndex /\ n \in Installed
  BY InstalledIndex DEF TypeInv, CursorOK, IvfLabels, Index
<1>2. mutex[n].w = u /\ mutex'[n].w = u
  BY <1>1, ThreadAssumption DEF LockOf, MutexLabels, OrderlyLocks, Orderly
<1>3. CASE vectors'[id] # vectors[id]
  BY <1>3, WrittenOwed
<1>4. CASE vectors'[id] = vectors[id]
  <2>1. id \in Live
    BY <1>4 DEF Live, Present
  <2>2. CASE Owed(n, id)
    <3>1. ~(cur[t] = n /\ HnswNote(t))
      BY <1>1, KindOf DEF TypeInv, CursorOK, HnswLabels, HnswNote
    <3>2. ~(cur[t] = n /\ pc[t] = "file")
      BY <1>2 DEF LockOf, MutexLabels
    <3>3. ~(mutex'[n].w = t)
      BY <1>2
    <3> QED
      BY <1>1, <2>2, <3>1, <3>2, <3>3, OwedKept
  <2> QED
    BY <1>4, <2>1, <2>2 DEF ReadsBuild
<1> QED
  BY <1>3, <1>4

\* Nobody gets past idx_mutex_ while an add_index holds it.
LEMMA NotifierWaits ==
  ASSUME NEW t \in Threads, Begin(t) \/ Step(t), idx_mutex.w \in Threads
  PROVE  pc[t] # "notify"
<1> SUFFICES ASSUME pc[t] = "notify" PROVE FALSE
  OBVIOUS
<1>1. ~Notify(t)
  BY ThreadAssumption DEF Notify, CanShare
<1>2. CASE Update(t)
  BY <1>1, <1>2 DEF Update, AddWrite, RemErase, HookNext, HooksDone, HnswNote
<1>3. CASE IvfHook(t)
  BY <1>3 DEF IvfHook, IvfLoad, IvfStore, FileLock, FileOne, FileDone, IvfUnfile,
              BuildLock, BuildIds, BuildThrow, BuildRead, BuildDone
<1>4. CASE ~Update(t) /\ ~IvfHook(t)
  BY <1>4 DEF Begin, Step, Return, Announce, SvVec, SvIdx, GetParams, AddIndex,
       IxLock, IxIds, IxRead, IxInstall, Search, SeIdx, SeVec, EuIds, EuScan, EuTop, HnCheck,
       HnBuild, HnInsert, HnBuilt, HnRelock, HnKnn, IvProbe, Fetch, SeDone
<1> QED
  BY <1>2, <1>3, <1>4

LEMMA AnnouncedStays ==
  ASSUME NEW t \in Threads, Begin(t) \/ Step(t), Others(t), idx_mutex.w \in Threads,
         NEW id, Announced(id)
  PROVE  Announced(id)'
  BY NotifierWaits DEF Others, Announced

LEMMA ReadsNewOthers ==
  ASSUME TypeInv, NEW t \in Threads, NEW u \in Threads \ {t}, Begin(t) \/ Step(t), Others(t),
         LockOf(u), ReadsNew(u)
  PROVE  ReadsNew(u)'
<1> SUFFICES ASSUME pc[u] = "ixRead", NEW id \in Ids
             PROVE  id \in left[u] \/ seen[u][id] = vectors'[id] \/ Announced(id)'
  <2>1. pc'[u] = pc[u] /\ left'[u] = left[u] /\ seen'[u] = seen[u]
    BY DEF Others
  <2> QED
    BY <2>1 DEF ReadsNew, Announced
<1>1. idx_mutex.w \in Threads
  BY DEF LockOf
<1>2. CASE vectors'[id] # vectors[id]
  BY <1>2, WrittenOwed
<1>3. CASE vectors'[id] = vectors[id]
  BY <1>1, <1>3, AnnouncedStays DEF ReadsNew
<1> QED
  BY <1>2, <1>3

\* A step under which every entry of a built index stays.
LEMMA FilesAllFrame ==
  ASSUME TypeInv, NEW t \in Threads, Begin(t) \/ Step(t), Others(t), Kept(t),
         NEW n \in Names, FilesAll(n),
         indices'[n] \in IvfIndex /\ indices'[n].built =>
           /\ indices[n] \in IvfIndex /\ indices[n].built
           /\ \A id \in Live \cap Live', v \in Vals :
                indices[n].filed[id][v] > 0 => indices'[n].filed[id][v] > 0
  PROVE  FilesAll(n)'
<1> SUFFICES ASSUME indices'[n] \in IvfIndex, indices'[n].built, NEW id \in Ids, id \in Live'
             PROVE  indices'[n].filed[id][vectors'[id]] > 0 \/ Owed(n, id)'
  BY DEF FilesAll, Live, Present, Owed
<1>1. indices[n] \in IvfIndex /\ n \in Installed
  BY InstalledIndex DEF TypeInv, Index
<1>2. CASE vectors'[id] # vectors[id]
  BY <1>2, WrittenOwed
<1>3. CASE vectors'[id] = vectors[id]
  <2>1. id \in Live /\ vectors[id] \in Vals
    BY <1>3 DEF Live, Present, TypeInv, TypeOK, Stored
  <2>2. CASE indices[n].filed[id][vectors[id]] > 0
    BY <1>3, <2>1, <2>2
  <2>3. CASE Owed(n, id)
    <3>1. ~(cur[t] = n /\ HnswNote(t))
      BY <1>1, KindOf DEF TypeInv, CursorOK, HnswLabels, HnswNote
    <3> QED
      BY <1>1, <2>3, <3>1, OwedKept
  <2> QED
    BY <2>1, <2>2, <2>3 DEF FilesAll
<1> QED
  BY <1>2, <1>3

\* Where a thread can have come from.
LEMMA Arrives ==
  ASSUME TypeInv, NEW t \in Threads, Begin(t) \/ Step(t)
  PROVE  /\ pc'[t] = "ivfLoad" => HookNext(t)
         /\ pc'[t] = "ivfStore" => IvfLoad(t)
         /\ pc'[t] = "fileLock" => IvfStore(t) \/ Announce(t)
         /\ pc'[t] = "file" => FileLock(t) \/ FileOne(t)
         /\ pc'[t] = "undefined" => FileOne(t)
         /\ pc'[t] = "buildIds" => BuildLock(t)
         /\ pc'[t] = "buildRead" => BuildIds(t) \/ BuildRead(t)
         /\ pc'[t] = "ixRead" => IxIds(t) \/ IxRead(t)
         /\ pc'[t] = "hnInsert" => HnBuild(t) \/ HnInsert(t)
         /\ pc'[t] = "hnRelock" => HnBuilt(t)
         /\ pc'[t] = "hnKnn" => HnCheck(t) \/ HnRelock(t)
         /\ pc'[t] = "fetch" => EuTop(t) \/ HnKnn(t) \/ IvProbe(t) \/ Fetch(t)
<1> DEFINE Of == {"ivfLoad", "ivfStore", "fileLock", "file", "undefined", "buildIds", "buildRead",
                  "ixRead", "hnInsert", "hnRelock", "hnKnn", "fetch"}
<1> USE DEF TypeInv, TypeOK, Goto
<1>1. CASE Begin(t)
  <2>1. PICK c \in Requests : Goto(t, First(c))
    BY <1>1 DEF Begin
  <2>2. First(c) \notin Of
    BY RequestAssumption DEF Request, Ops, First
  <2> QED
    BY <2>1, <2>2
<1>2. CASE HookNext(t)
  <2>1. PICK n \in todo[t] : Goto(t, HookLabel(t, indices[n]))
    BY <1>2 DEF HookNext
  <2>2. n \in Names /\ indices[n] \in Index /\ call[t].op \in {"add", "remove"}
    BY <1>2, InstalledIndex DEF HookNext, CursorOK, CallOK, HookLabels
  <2>3. pc'[t] \in {"hnswNote", "ivfLoad", "buildLock", "hook"}
    BY <2>1, <2>2, KindOf DEF HookLabel, Index
  <2> QED
    BY <1>2, <2>3
<1>3. CASE SeVec(t)
  <2>1. call[t].name \in Names
    BY <1>3, RequestAssumption DEF SeVec, CallOK, Request
  <2>2. SearchLabel(indices[call[t].name]) \in {"euIds", "hnCheck", "ivProbe"}
    BY <2>1, KindOf DEF SearchLabel, Index
  <2>3. pc'[t] \notin Of
    BY <1>3, <2>2 DEF SeVec
  <2> QED
    BY <2>3
<1>4. CASE Announce(t)
  <2>1. pc'[t] \notin Of \ {"fileLock"}
    BY <1>4 DEF Announce
  <2> QED
    BY <1>4, <2>1
<1>5. CASE Return(t) \/ SvVec(t) \/ SvIdx(t) \/ GetParams(t) \/ (Update(t) /\ ~HookNext(t))
  <2>1. pc'[t] \notin Of
    BY <1>5 DEF Return, SvVec, SvIdx, GetParams, Update, AddWrite, RemErase, Notify, HooksDone,
                HnswNote, Reply
  <2> QED
    BY <2>1
<1>6. CASE IvfHook(t)
  BY <1>6 DEF IvfHook, IvfLoad, IvfStore, FileLock, FileOne, FileDone, IvfUnfile, BuildLock,
              BuildIds, BuildThrow, BuildRead, BuildDone, Reply, ReadIds, StartLoop, ReadEach
<1>7. CASE AddIndex(t)
  BY <1>7 DEF AddIndex, IxLock, IxIds, IxRead, IxInstall, Reply, ReadIds, StartLoop, ReadEach
<1>8. CASE Search(t) /\ ~SeVec(t)
  BY <1>8 DEF Search, SeIdx, EuIds, EuScan, EuTop, HnCheck, HnBuild, HnInsert, HnBuilt,
         HnRelock, HnKnn, IvProbe, Fetch, SeDone, ReadOrFail, SeEnd, Reply, ReadIds, StartLoop
<1> QED
  BY <1>1, <1>2, <1>3, <1>4, <1>5, <1>6, <1>7, <1>8 DEF Step

LEMMA ReadsBuildStep ==
  ASSUME TypeInv, NEW t \in Threads, Begin(t) \/ Step(t), Others(t), Kept(t), ReadsBuild(t)
  PROVE  ReadsBuild(t)'
<1> USE DEF TypeInv, TypeOK, Goto
<1>1. CASE BuildIds(t)
  BY <1>1 DEF BuildIds, ReadIds, StartLoop, ReadsBuild, Live, store
<1>2. CASE BuildRead(t)
  <2>1. PICK d \in left[t] : ReadNext(t, d) /\ Keep(t, d)
    BY <1>2 DEF BuildRead, ReadEach
  <2>2. /\ pc[t] = "buildRead" /\ cur' = cur /\ vectors' = vectors /\ Live' = Live /\ d \in Ids
        /\ left'[t] = left[t] \ {d} /\ seen'[t] = [seen[t] EXCEPT ![d] = vectors[d]]
        /\ ~BuildThrow(t) /\ ~HnswNote(t)
    BY <1>2, <2>1 DEF BuildRead, ReadEach, ReadNext, Keep, BuildThrow, HnswNote, Live, store
  <2>3. PICK n \in Names : n = cur[t] /\ n \in Installed
    BY <2>2, InstalledIndex DEF CursorOK, IvfLabels, Index
  <2>4. ASSUME NEW id \in Live
        PROVE  id \in left'[t] \/ seen'[t][id] = vectors[id] \/ Owed(n, id)'
    <3>1. CASE Owed(n, id)
      BY <2>2, <2>3, <3>1, OwedKept DEF Live, Present
    <3>2. CASE ~Owed(n, id)
      BY <2>2, <2>3, <3>2 DEF ReadsBuild, Live, Present, Stored
    <3> QED
      BY <3>1, <3>2
  <2> QED
    BY <2>2, <2>3, <2>4 DEF ReadsBuild, Owed
<1>3. CASE pc'[t] # "buildRead"
  BY <1>3 DEF ReadsBuild
<1> QED
  BY <1>1, <1>2, <1>3, Arrives

LEMMA ReadsNewStep ==
  ASSUME TypeInv, NEW t \in Threads, Begin(t) \/ Step(t), Others(t), LockOf(t), ReadsNew(t)
  PROVE  ReadsNew(t)'
<1> USE DEF TypeInv, TypeOK, Goto
<1>1. CASE IxIds(t)
  <2>1. /\ left'[t] = Live /\ seen'[t] = Empty /\ vectors' = vectors
    BY <1>1 DEF IxIds, ReadIds, StartLoop, store
  <2> QED
    BY <2>1 DEF ReadsNew, Empty, Live, Present
<1>2. CASE IxRead(t)
  <2>1. PICK d \in left[t] : ReadNext(t, d) /\ Keep(t, d)
    BY <1>2 DEF IxRead, ReadEach
  <2>2. /\ pc[t] = "ixRead" /\ vectors' = vectors /\ d \in Ids /\ idx_mutex.w \in Threads
        /\ left'[t] = left[t] \ {d} /\ seen'[t] = [seen[t] EXCEPT ![d] = vectors[d]]
    BY <1>2, <2>1 DEF IxRead, ReadEach, ReadNext, Keep, LockOf, store
  <2>3. ASSUME NEW id \in Ids
        PROVE  id \in left'[t] \/ seen'[t][id] = vectors[id] \/ Announced(id)'
    <3>1. CASE Announced(id)
      BY <2>2, <3>1, AnnouncedStays
    <3>2. CASE ~Announced(id)
      BY <2>2, <3>2 DEF ReadsNew, Stored
    <3> QED
      BY <3>1, <3>2
  <2> QED
    BY <2>2, <2>3 DEF ReadsNew, Announced
<1>3. CASE pc'[t] # "ixRead"
  BY <1>3 DEF ReadsNew
<1> QED
  BY <1>1, <1>2, <1>3, Arrives

\* A step that writes no index, or one that is not an ivf_flat index.
LEMMA FilesAllSame ==
  ASSUME TypeInv, NEW t \in Threads, Begin(t) \/ Step(t), Others(t), Kept(t),
         NEW n \in Names, FilesAll(n), indices'[n] = indices[n] \/ indices'[n] \notin IvfIndex
  PROVE  FilesAll(n)'
  BY FilesAllFrame

\* The step writes at most the index of this name.
WritesAt(t) ==
  IF pc[t] = "ixRead" THEN call[t].name
  ELSE IF pc[t] \in HnswLabels \cup IvfLabels THEN cur[t] ELSE Nil

LEMMA WritesOne ==
  ASSUME TypeInv, NEW t \in Threads, Begin(t) \/ Step(t), NEW n \in Names, n # WritesAt(t)
  PROVE  indices'[n] = indices[n]
<1> USE DEF TypeInv, TypeOK, WritesAt
<1>1. CASE IxInstall(t)
  BY <1>1, RequestAssumption DEF IxInstall, CallOK, Request
<1>2. CASE HnswNote(t) \/ IvfStore(t) \/ FileOne(t) \/ IvfUnfile(t) \/ BuildLock(t) \/ BuildDone(t)
  BY <1>2 DEF HnswNote, IvfStore, FileOne, IvfUnfile, BuildLock, BuildDone, SetIndex,
              HnswLabels, IvfLabels, store
<1>3. CASE HnBuild(t) \/ HnInsert(t) \/ HnBuilt(t)
  BY <1>3 DEF HnBuild, HnInsert, HnBuilt, SetIndex, HnswLabels, IvfLabels
<1>4. CASE Update(t) /\ ~HnswNote(t)
  BY <1>4 DEF Update, AddWrite, RemErase, Notify, HookNext, HooksDone, store
<1>5. CASE IvfLoad(t) \/ FileLock(t) \/ FileDone(t) \/ BuildIds(t) \/ BuildThrow(t) \/ BuildRead(t)
  BY <1>5 DEF IvfLoad, FileLock, FileDone, BuildIds, BuildThrow, BuildRead, ReadEach, store
<1>6. CASE IxLock(t) \/ IxIds(t) \/ IxRead(t)
  BY <1>6 DEF IxLock, IxIds, IxRead, ReadEach, store
<1>7. CASE Search(t) /\ ~HnBuild(t) /\ ~HnInsert(t) /\ ~HnBuilt(t)
  BY <1>7 DEF Search, SeIdx, SeVec, EuIds, EuScan, EuTop, HnCheck, HnRelock, HnKnn, IvProbe,
              Fetch, SeDone, ReadOrFail, SeEnd, store
<1>8. CASE Begin(t) \/ Return(t) \/ Announce(t) \/ SvVec(t) \/ SvIdx(t) \/ GetParams(t)
  BY <1>8 DEF Begin, Return, Announce, SvVec, SvIdx, GetParams, store
<1> QED
  BY <1>1, <1>2, <1>3, <1>4, <1>5, <1>6, <1>7, <1>8 DEF Step, IvfHook, AddIndex

LEMMA FiledOfCount ==
  ASSUME NEW read \in Stored, NEW id \in Ids, read[id] \in Vals
  PROVE  FiledOf(read)[id][read[id]] > 0
  BY DEF FiledOf

LEMMA FilesAllFileOne ==
  ASSUME TypeInv, NEW t \in Threads, FileOne(t), Others(t), Kept(t),
         NEW n \in Names, n = cur[t], FilesAll(n)
  PROVE  FilesAll(n)'
<1> USE DEF TypeInv, TypeOK
<1>1. n = cur[t] /\ indices[n] \in IvfIndex
  BY DEF FileOne, CursorOK, IvfLabels
<1>2. PICK d \in left[t] :
        \/ UNCHANGED indices
        \/ vectors[d] # Nil /\ indices[n].built /\ SetIndex(t, IvfFiled(indices[n], d, vectors[d]))
  BY <1>1 DEF FileOne
<1>3. CASE UNCHANGED indices
  BY <1>3, FilesAllSame DEF Step, IvfHook
<1>4. CASE vectors[d] # Nil /\ indices[n].built /\ SetIndex(t, IvfFiled(indices[n], d, vectors[d]))
  <2>1. d \in Ids /\ vectors[d] \in Vals
    BY <1>4 DEF Stored
  <2>2. indices'[n] = IvfFiled(indices[n], d, vectors[d])
    BY <1>1, <1>4 DEF SetIndex
  <2>3. indices[n].filed \in Filing
    BY <1>1 DEF IvfIndex
  <2>4. ASSUME NEW id \in Live, NEW v \in Vals, indices[n].filed[id][v] > 0
        PROVE  indices'[n].filed[id][v] > 0
    <3>1. IvfFiled(indices[n], d, vectors[d]).filed[id][v] >= indices[n].filed[id][v]
      BY <1>1, <2>1, FiledCount DEF Live, Present
    <3>2. IvfFiled(indices[n], d, vectors[d]).filed \in Filing
      BY <1>1, <2>1, IvfFiledType DEF IvfIndex
    <3>3. indices'[n].filed[id][v] \in Nat /\ indices[n].filed[id][v] \in Nat
      BY <2>2, <2>3, <3>2 DEF Filing, Live, Present
    <3> QED
      BY <2>2, <2>4, <3>1, <3>3
  <2> QED
    BY <1>1, <1>4, <2>4, FilesAllFrame DEF Step, IvfHook
<1> QED
  BY <1>2, <1>3, <1>4

LEMMA FilesAllUnfile ==
  ASSUME TypeInv, NEW t \in Threads, IvfUnfile(t), Others(t), Kept(t), BatchOf(t),
         NEW n \in Names, n = cur[t], FilesAll(n)
  PROVE  FilesAll(n)'
<1> USE DEF TypeInv, TypeOK
<1>1. n = cur[t] /\ indices[n] \in IvfIndex /\ batch[t] \cap Live = {}
  BY DEF IvfUnfile, CursorOK, IvfLabels, BatchOf, HookLabels
<1>2. PICK pick \in IvfPicks(indices[n], batch[t]) : indices'[n] = IvfUnfiled(indices[n], pick)
  BY <1>1 DEF IvfUnfile, SetIndex
<1>3. /\ indices'[n].built = indices[n].built
      /\ \A id \in Live, v \in Vals : indices'[n].filed[id][v] = indices[n].filed[id][v]
  <2>1. DOMAIN pick = batch[t]
    BY DEF IvfPicks
  <2>2. indices'[n].built = indices[n].built
    BY <1>1, <1>2 DEF IvfUnfiled, IvfIndex
  <2>3. ASSUME NEW id \in Live, NEW v \in Vals
        PROVE  indices'[n].filed[id][v] = indices[n].filed[id][v]
    <3>1. id \in Ids /\ id \notin DOMAIN pick
      BY <1>1, <2>1 DEF Live, Present
    <3> QED
      BY <1>1, <1>2, <3>1 DEF IvfUnfiled, IvfIndex, Filing
  <2> QED
    BY <2>2, <2>3
<1> QED
  BY <1>1, <1>3, FilesAllFrame DEF Step, IvfHook

LEMMA FilesAllBuilt ==
  ASSUME TypeInv, NEW t \in Threads, BuildDone(t), Others(t), Kept(t), ReadsBuild(t),
         NEW n \in Names, n = cur[t]
  PROVE  FilesAll(n)'
<1> SUFFICES ASSUME indices'[n].built PROVE FilesAll(n)'
  BY DEF FilesAll
<1> USE DEF TypeInv, TypeOK
<1>1. n = cur[t] /\ indices[n] \in IvfIndex /\ n \in Installed
  BY InstalledIndex DEF BuildDone, CursorOK, IvfLabels, Index
<1>2. indices'[n] = IvfRebuilt(indices[n], seen[t]) /\ vectors' = vectors
  BY <1>1 DEF BuildDone, SetIndex
<1>3. indices'[n].filed = FiledOf(seen[t])
  BY <1>1, <1>2 DEF IvfRebuilt, IvfIndex, Clustered
<1>4. ASSUME NEW id \in Live PROVE indices'[n].filed[id][vectors[id]] > 0 \/ Owed(n, id)'
  <2>1. id \in Ids /\ vectors[id] \in Vals
    BY DEF Live, Present, Stored
  <2>2. CASE seen[t][id] = vectors[id]
    BY <1>3, <2>1, <2>2, FiledOfCount
  <2>3. CASE Owed(n, id)
    BY <1>1, <1>2, <2>1, <2>3, OwedKept DEF BuildDone, BuildThrow, HnswNote, Live, Present
  <2> QED
    BY <1>1, <2>2, <2>3 DEF ReadsBuild, BuildDone
<1> QED
  BY <1>2, <1>4 DEF FilesAll, Live, Present, Owed

\* An add_index brings a number of clusters.
LEMMA CallParams ==
  ASSUME TypeInv, NEW t \in Threads, IxInstall(t)
  PROVE  call[t].k \in Nat /\ call[t].kind \in Kinds /\ seen[t] \in Stored
  BY RequestAssumption DEF IxInstall, TypeInv, TypeOK, CallOK, Request

\* Clusters that a new index has hold what it read.
LEMMA IvfOfBuilt ==
  ASSUME NEW k, NEW read
  PROVE  /\ IvfOf(k, read).built => IvfOf(k, read).filed = FiledOf(read)
         /\ IvfOf(k, read).built <=> k # 0 /\ read # Empty
         /\ IvfOf(k, read).k = k /\ IvfOf(k, read).since = 0
<1>1. CASE k = 0
  BY <1>1 DEF IvfOf, Clustered
<1>2. CASE k # 0
  BY <1>2 DEF IvfOf, Clustered
<1> QED
  BY <1>1, <1>2

LEMMA FilesAllNew ==
  ASSUME TypeInv, NEW t \in Threads, IxInstall(t), Others(t), Kept(t), LockOf(t), ReadsNew(t),
         NEW n \in Names, n = call[t].name, FilesAll(n)
  PROVE  FilesAll(n)'
<1> USE DEF TypeInv, TypeOK
<1>1. CASE indices[n] # Nil
  <2>1. indices'[n] = indices[n]
    BY <1>1 DEF IxInstall
  <2> QED
    BY <2>1, FilesAllSame DEF Step, AddIndex
<1>2. CASE indices[n] = Nil
  <2>1. /\ indices'[n] = Fresh(call[t], seen[t]) /\ vectors' = vectors
        /\ call[t].kind \in Kinds /\ pc[t] = "ixRead" /\ left[t] = {}
    BY <1>2 DEF IxInstall, CallOK
  <2>2. CASE call[t].kind = "hnsw"
    <3>1. indices'[n] \notin IvfIndex
      BY <2>1, <2>2, CallParams, FreshTypes, KindOf
    <3> QED
      BY <3>1 DEF FilesAll
  <2>3. CASE call[t].kind = "ivf_flat" /\ ~indices'[n].built
    BY <2>3 DEF FilesAll
  <2>4. CASE call[t].kind = "ivf_flat" /\ indices'[n].built
    <3>1. indices'[n].filed = FiledOf(seen[t])
      <4>1. indices'[n] = IvfOf(call[t].k, seen[t])
        BY <2>1, <2>4 DEF Fresh
      <4> QED
        BY <2>4, <4>1, IvfOfBuilt
    <3>2. ASSUME NEW id \in Live PROVE indices'[n].filed[id][vectors[id]] > 0 \/ Owed(n, id)'
      <4>1. id \in Ids /\ vectors[id] \in Vals
        BY DEF Live, Present, Stored
      <4>2. CASE seen[t][id] = vectors[id]
        BY <3>1, <4>1, <4>2, FiledOfCount
      <4>3. CASE Announced(id)
        <5>1. Announced(id)'
          BY <2>1, <4>3, AnnouncedStays DEF LockOf, Step, AddIndex
        <5> QED
          BY <5>1 DEF Announced, Owed, Owes
      <4> QED
        BY <2>1, <4>1, <4>2, <4>3 DEF ReadsNew
    <3> QED
      BY <2>1, <3>2 DEF FilesAll, Live, Present, Owed
  <2> QED
    BY <2>1, <2>2, <2>3, <2>4 DEF Kinds
<1> QED
  BY <1>1, <1>2

LEMMA FilesAllHook ==
  ASSUME TypeInv, NEW t \in Threads, Begin(t) \/ Step(t), Others(t), Kept(t), BatchOf(t),
         ReadsBuild(t), NEW n \in Names, n = cur[t], pc[t] \in IvfLabels, FilesAll(n)
  PROVE  FilesAll(n)'
<1> USE DEF TypeInv, TypeOK
<1>1. n = cur[t] /\ indices[n] \in IvfIndex
  BY DEF CursorOK
<1>2. CASE IvfStore(t)
  <2>1. /\ indices'[n].built = indices[n].built
        /\ indices'[n].filed = indices[n].filed
    BY <1>1, <1>2 DEF IvfStore, SetIndex, IvfIndex
  <2> QED
    BY <1>1, <2>1, FilesAllFrame
<1>3. CASE BuildLock(t)
  <2>1. indices'[n].built = FALSE
    BY <1>1, <1>3 DEF BuildLock, SetIndex, IvfCleared, IvfIndex
  <2> QED
    BY <2>1 DEF FilesAll
<1>4. CASE indices' = indices
  BY <1>4, FilesAllSame
<1>5. CASE ~IvfStore(t) /\ ~BuildLock(t) /\ ~FileOne(t) /\ ~IvfUnfile(t) /\ ~BuildDone(t)
  <2>1. CASE Begin(t) \/ Return(t) \/ Announce(t) \/ SvVec(t) \/ SvIdx(t) \/ GetParams(t)
    BY <1>4, <2>1 DEF Begin, Return, Announce, SvVec, SvIdx, GetParams, store
  <2>2. CASE IvfHook(t)
    BY <1>4, <1>5, <2>2 DEF IvfHook, IvfLoad, FileLock, FileDone, BuildIds, BuildThrow, BuildRead,
                            ReadEach, store
  <2>3. CASE Update(t) \/ AddIndex(t)
    BY <2>3 DEF Update, AddWrite, RemErase, Notify, HookNext, HooksDone, HnswNote, AddIndex,
                IxLock, IxIds, IxRead, IxInstall, IvfLabels
  <2>4. CASE Search(t)
    <3>1. IvProbe(t)
      BY <2>4 DEF Search, SeIdx, SeVec, EuIds, EuScan, EuTop, HnCheck, HnBuild, HnInsert, HnBuilt,
                  HnRelock, HnKnn, Fetch, SeDone, IvfLabels
    <3> QED
      BY <1>4, <3>1 DEF IvProbe, SeEnd, store
  <2> QED
    BY <2>1, <2>2, <2>3, <2>4 DEF Step
<1> QED
  BY <1>2, <1>3, <1>5, FilesAllFileOne, FilesAllUnfile, FilesAllBuilt

\* Where an add_index has read the vectors it reads on or installs the index.
LEMMA IxReadSteps ==
  ASSUME NEW t \in Threads, Begin(t) \/ Step(t), pc[t] = "ixRead"
  PROVE  IxRead(t) \/ IxInstall(t)
  BY DEF Begin, Step, Return, Announce, Update, AddWrite, RemErase, Notify, HookNext,
         HooksDone, HnswNote, IvfHook, IvfLoad, IvfStore, FileLock, FileOne, FileDone, IvfUnfile,
         BuildLock, BuildIds, BuildThrow, BuildRead, BuildDone, AddIndex, IxLock, IxIds,
         Search, SeIdx, SeVec, EuIds, EuScan, EuTop, HnCheck, HnBuild, HnInsert, HnBuilt,
         HnRelock, HnKnn, IvProbe, Fetch, SeDone, SvVec, SvIdx, GetParams

LEMMA FilesAllStep ==
  ASSUME TypeInv, NEW t \in Threads, Begin(t) \/ Step(t), StepOK(t), Kept(t), LockOf(t), BatchOf(t),
         ReadsBuild(t), ReadsNew(t), NEW n \in Names, FilesAll(n)
  PROVE  FilesAll(n)'
<1>0. Others(t) /\ KindsStay
  BY DEF StepOK
<1>1. CASE n # WritesAt(t)
  BY <1>0, <1>1, WritesOne, FilesAllSame
<1>2. CASE n = WritesAt(t) /\ pc[t] = "ixRead"
  <2>1. n = call[t].name
    BY <1>2 DEF WritesAt
  <2>2. CASE IxInstall(t)
    BY <1>0, <2>1, <2>2, FilesAllNew
  <2>3. CASE ~IxInstall(t)
    <3>1. IxRead(t)
      BY <1>2, <2>3, IxReadSteps
    <3> QED
      BY <1>0, <3>1, FilesAllSame DEF IxRead, ReadEach, store
  <2> QED
    BY <2>2, <2>3
<1>3. CASE n = WritesAt(t) /\ pc[t] \in HnswLabels
  <2>1. indices[n] \in HnswIndex
    BY <1>3 DEF WritesAt, HnswLabels, TypeInv, CursorOK
  <2>2. indices'[n] \notin IvfIndex
    BY <1>0, <2>1, KindOf DEF KindsStay
  <2> QED
    BY <1>0, <2>2, FilesAllSame
<1>4. CASE n = WritesAt(t) /\ pc[t] \in IvfLabels
  <2>1. n = cur[t]
    BY <1>4 DEF WritesAt, IvfLabels
  <2> QED
    BY <1>0, <1>4, <2>1, FilesAllHook
<1>5. WritesAt(t) = Nil \/ pc[t] \in {"ixRead"} \cup HnswLabels \cup IvfLabels
  BY DEF WritesAt
<1> QED
  BY <1>1, <1>2, <1>3, <1>4, <1>5, NameAssumption

-----------------------------------------------------------------------------
(* The four parts are inductive together with the types of Collection. *)

Works(t) == LockOf(t) /\ BatchOf(t) /\ ReadsBuild(t) /\ ReadsNew(t)

IndexInv == (\A t \in Threads : Works(t)) /\ (\A n \in Names : FilesAll(n))

LEMMA InitIndex == Init => IndexInv
<1> SUFFICES ASSUME Init PROVE IndexInv
  OBVIOUS
<1>1. ASSUME NEW t \in Threads PROVE Works(t)
  BY ThreadAssumption DEF Init, Works, LockOf, BatchOf, ReadsBuild, ReadsNew, HookLabels, MutexLabels,
                          Unlocked
<1>2. ASSUME NEW n \in Names PROVE FilesAll(n)
  <2>1. vectors \in Stored /\ indices[n] = IF Loaded[n] = Nil THEN Nil ELSE Fresh(Loaded[n], vectors)
    BY DEF Init
  <2>2. indices[n] \in IvfIndex /\ indices[n].built => indices[n].filed = FiledOf(vectors)
    <3>1. indices[n] \in IvfIndex => indices[n] = IvfOf(Loaded[n].k, vectors)
      BY <2>1, LoadedTypes, KindOf, IndexAssumption DEF Fresh, Index
    <3> QED
      BY <3>1, IvfOfBuilt
  <2> QED
    BY <2>1, <2>2, FiledOfCount DEF FilesAll, Live, Present, Stored
<1> QED
  BY <1>1, <1>2 DEF IndexInv

LEMMA IndexThread ==
  ASSUME TypeInv, IndexInv, NEW t \in Threads, Begin(t) \/ Step(t)
  PROVE  IndexInv'
<1>1. StepOK(t) /\ Others(t)
  BY ThreadStep DEF StepOK
<1>2. LockOf(t) /\ BatchOf(t) /\ ReadsBuild(t) /\ ReadsNew(t)
  BY DEF IndexInv, Works
<1>3. OrderlyLocks(t) /\ Kept(t)
  BY <1>2, OrderlyStep, KeptStep
<1>4. ASSUME NEW u \in Threads \ {t} PROVE Works(u)'
  <2>1. LockOf(u) /\ BatchOf(u) /\ ReadsBuild(u) /\ ReadsNew(u)
    BY DEF IndexInv, Works
  <2> QED
    BY <1>1, <1>2, <1>3, <2>1, LockOfOthers, BatchOfOthers, ReadsBuildOthers, ReadsNewOthers DEF Works
<1>5. Works(t)'
  BY <1>1, <1>2, <1>3, LockOfStep, BatchOfStep, ReadsBuildStep, ReadsNewStep DEF Works
<1>6. ASSUME NEW n \in Names PROVE FilesAll(n)'
  BY <1>1, <1>2, <1>3, FilesAllStep DEF IndexInv
<1> QED
  BY <1>4, <1>5, <1>6 DEF IndexInv

LEMMA IndexStep == TypeInv /\ IndexInv /\ [Next]_vars => IndexInv'
<1> SUFFICES ASSUME TypeInv, IndexInv, [Next]_vars PROVE IndexInv'
  OBVIOUS
<1>1. CASE StopCalls \/ UNCHANGED vars
  <2>1. UNCHANGED <<store, locks, pc, call, locals>>
    BY <1>1 DEF StopCalls, vars
  <2>2. ASSUME NEW n, NEW id PROVE Owed(n, id)' <=> Owed(n, id)
    BY <2>1 DEF Owed, Owes, locals
  <2>3. ASSUME NEW t \in Threads PROVE Works(t)'
    <3>1. PICK n : n = cur[t]
      OBVIOUS
    <3>2. LockOf(t)' /\ BatchOf(t)' /\ ReadsNew(t)'
      BY <2>1 DEF IndexInv, Works, LockOf, BatchOf, ReadsNew, Announced, Live, store, locks, locals
    <3>3. ReadsBuild(t)'
      BY <2>1, <2>2, <3>1 DEF IndexInv, Works, ReadsBuild, Owed, Live, store, locals
    <3> QED
      BY <3>2, <3>3 DEF Works
  <2>4. ASSUME NEW n \in Names PROVE FilesAll(n)'
    BY <2>1, <2>2 DEF IndexInv, FilesAll, Owed, Live, store
  <2> QED
    BY <2>3, <2>4 DEF IndexInv
<1> QED
  BY <1>1, IndexThread DEF Next, Rest

LEMMA IndexInvariant == Spec => []IndexInv
  BY InitIndex, IndexStep, TypeInvariant, PTL DEF Spec

\* Only an update that is under way can owe an index anything.
LEMMA OwedInFlight ==
  ASSUME TypeInv, IndexInv, NEW n, NEW id, Owed(n, id)
  PROVE  id \in InFlight
  BY DEF Owed, Owes, InFlight, IndexInv, Works, BatchOf

\* However adds, which tell an index after they have let go of vec_mutex_, meet
\* removals, rebuilds and the building of a new index: an ivf_flat index with
\* clusters has filed every vector that no update is still busy with, in the
\* cluster of the vector it has now.
THEOREM IvfMissesNothing == Spec => []IvfCatchesUp
<1>1. TypeInv /\ IndexInv => IvfCatchesUp
  <2> SUFFICES ASSUME TypeInv, IndexInv, NEW n \in Installed, indices[n].kind = "ivf_flat",
                      indices[n].built, NEW id \in Live \ InFlight
               PROVE  indices[n].filed[id][vectors[id]] > 0
    BY DEF IvfCatchesUp
  <2>1. n \in Names /\ indices[n] \in IvfIndex
    BY InstalledIndex, KindOf DEF TypeInv, Installed, Index
  <2> QED
    BY <2>1, OwedInFlight DEF IndexInv, FilesAll
<1> QED
  BY <1>1, IndexInvariant, TypeInvariant, PTL

-----------------------------------------------------------------------------
(* hnsw indices.  A removal that rebuilds an ivf_flat index on libstdc++    *)
(* leaves without telling the indices after it; but for that, the graph of *)
(* an hnsw index with its pending changes applied is the collection.       *)

NoIvf == /\ \A n \in Names : Loaded[n] # Nil => Loaded[n].kind # "ivf_flat"
         /\ \A c \in Requests : c.kind # "ivf_flat"

\* A build under way: what it has still to insert has no node yet, and what it
\* has inserted is what the collection holds.
Settling(t) == pc[t] = "hnInsert" =>
  LET i == indices[cur[t]] IN
  /\ i.to_be_removed = {} /\ left[t] \subseteq i.to_be_inserted
  /\ \A id \in i.to_be_inserted : i.inserted[id] = IF id \in left[t] THEN Nil ELSE vectors[id]

\* A vector that replaces another waits for the node of the old one to go.
Replaces(n) ==
  \/ indices[n].to_be_inserted \cap Present(indices[n].inserted) \subseteq indices[n].to_be_removed
  \/ \E t \in Threads : pc[t] = "hnInsert" /\ cur[t] = n

CatchesUp(n) == \A id \in Ids : Owed(n, id) \/ HnswOnceDrained(indices[n])[id] = vectors[id]

\* A node whose vector is gone is noted for removal, or the removal still is to
\* tell of it.
DeadNoted(n) == \A id \in Present(indices[n].inserted) \ Live :
  \/ id \in indices[n].to_be_removed
  \/ \E t \in Threads : Owes(t, n, id) /\ call[t].op = "remove"

Mirrors(n) == indices[n] \in HnswIndex => Replaces(n) /\ CatchesUp(n) /\ DeadNoted(n)

DeadNew(t) == pc[t] = "ixRead" => \A id \in Present(seen[t]) \ Live :
  \E u \in Threads : pc[u] = "notify" /\ id \in batch[u] /\ call[u].op = "remove"

LiveNodes(t) ==
  /\ pc[t] \in {"hnInsert", "hnRelock", "hnKnn"} => Present(indices[cur[t]].inserted) \subseteq Live
  /\ pc[t] = "fetch" /\ IsHnsw(t) => left[t] \ indices[cur[t]].stray \subseteq Live

Draws(t) == Settling(t) /\ DeadNew(t) /\ LiveNodes(t)

MirrorInv == /\ \A t \in Threads : Draws(t)
             /\ \A n \in Names : Mirrors(n)
             /\ Libcxx \/ \A n \in Names : indices[n] \notin IvfIndex

-----------------------------------------------------------------------------
(* What the operations of an hnsw index do, field by field. *)

LEMMA AddedFields ==
  ASSUME NEW i \in HnswIndex, NEW ids \in SUBSET Ids
  PROVE  LET j == HnswAdded(i, ids) IN
         /\ j.inserted = i.inserted /\ j.stray = i.stray
         /\ j.to_be_inserted = i.to_be_inserted \cup ids
         /\ j.to_be_removed = i.to_be_removed \cup (ids \cap Present(i.inserted))
  BY DEF HnswIndex, HnswAdded

LEMMA RemovedFields ==
  ASSUME NEW i \in HnswIndex, NEW ids \in SUBSET Ids
  PROVE  LET j == HnswRemoved(i, ids) IN
         /\ j.inserted = i.inserted /\ j.stray = i.stray
         /\ j.to_be_inserted = i.to_be_inserted \ ids
         /\ j.to_be_removed = i.to_be_removed \cup (ids \ i.to_be_inserted)
  BY DEF HnswIndex, HnswRemoved

LEMMA PrunedFields ==
  ASSUME NEW i \in HnswIndex
  PROVE  LET j == HnswPruned(i) IN
         /\ j.inserted = [id \in Ids |-> IF id \in i.to_be_removed THEN Nil ELSE i.inserted[id]]
         /\ j.stray = i.stray \cup (i.to_be_removed \cap Present(i.inserted))
         /\ j.to_be_inserted = i.to_be_inserted /\ j.to_be_removed = {}
  BY DEF HnswIndex, HnswPruned

LEMMA InsertedFields ==
  ASSUME NEW i \in HnswIndex, NEW id \in Ids, NEW vec \in Vals \cup {Nil}
  PROVE  LET j == HnswInserted(i, id, vec) IN
         /\ j.to_be_inserted = i.to_be_inserted /\ j.to_be_removed = i.to_be_removed
         /\ vec = Nil => j.inserted = i.inserted
         /\ vec # Nil => j.inserted[id] = vec
         /\ vec = Nil => i.stray \subseteq j.stray
         /\ vec # Nil => i.stray \ {id} \subseteq j.stray
         /\ \A d \in Ids \ {id} : j.inserted[d] = i.inserted[d]
<1>1. CASE vec = Nil
  BY <1>1 DEF HnswIndex, HnswInserted
<1>2. CASE vec # Nil
  BY <1>2 DEF HnswIndex, HnswInserted, Stored
<1> QED
  BY <1>1, <1>2

LEMMA SettledFields ==
  ASSUME NEW i \in HnswIndex
  PROVE  LET j == HnswSettled(i) IN
         /\ j.inserted = i.inserted /\ j.stray = i.stray
         /\ j.to_be_inserted = {} /\ j.to_be_removed = {}
  BY DEF HnswIndex, HnswSettled

\* The steps that write an hnsw index.
LEMMA GraphSteps ==
  ASSUME TypeInv, NEW t \in Threads, Begin(t) \/ Step(t), NEW n \in Names, indices[n] \in HnswIndex
  PROVE  \/ indices'[n] = indices[n]
         \/ /\ n = cur[t]
            /\ HnswNote(t) \/ HnBuild(t) \/ HnInsert(t) \/ HnBuilt(t)
<1> USE DEF TypeInv, TypeOK
<1>1. CASE n # WritesAt(t)
  BY <1>1, WritesOne
<1>2. CASE n = WritesAt(t) /\ pc[t] = "ixRead"
  <2>1. n = call[t].name /\ indices[n] # Nil
    BY <1>2, IndexAssumption DEF WritesAt, Index
  <2>2. CASE IxInstall(t)
    BY <2>1, <2>2 DEF IxInstall
  <2>3. CASE ~IxInstall(t)
    <3>1. IxRead(t)
      BY <1>2, <2>3, IxReadSteps
    <3> QED
      BY <3>1 DEF IxRead, ReadEach, store
  <2> QED
    BY <2>2, <2>3
<1>3. CASE n = WritesAt(t) /\ pc[t] \in IvfLabels
  BY <1>3, KindOf DEF WritesAt, IvfLabels, CursorOK
<1>4. CASE n = WritesAt(t) /\ pc[t] \in HnswLabels
  <2>1. n = cur[t]
    BY <1>4 DEF WritesAt, HnswLabels
  <2>2. CASE HnCheck(t) \/ HnRelock(t) \/ HnKnn(t) \/ Announce(t)
    BY <2>2 DEF HnCheck, HnRelock, HnKnn, Announce, store
  <2>3. CASE ~(HnCheck(t) \/ HnRelock(t) \/ HnKnn(t) \/ Announce(t))
    <3>1. HnswNote(t) \/ HnBuild(t) \/ HnInsert(t) \/ HnBuilt(t)
      BY <1>4, <2>3 DEF Begin, Step, Return, Update, AddWrite, RemErase, Notify, HookNext,
           HooksDone, IvfHook, IvfLoad, IvfStore, FileLock, FileOne, FileDone, IvfUnfile,
           BuildLock, BuildIds, BuildThrow, BuildRead, BuildDone, AddIndex, IxLock, IxIds, IxRead,
           IxInstall, Search, SeIdx, SeVec, EuIds, EuScan, EuTop, IvProbe, Fetch, SeDone,
           SvVec, SvIdx, GetParams, HnswLabels
    <3> QED
      BY <2>1, <3>1
  <2> QED
    BY <2>2, <2>3
<1>5. WritesAt(t) = Nil \/ pc[t] \in {"ixRead"} \cup HnswLabels \cup IvfLabels
  BY DEF WritesAt
<1> QED
  BY <1>1, <1>2, <1>3, <1>4, <1>5, NameAssumption

-----------------------------------------------------------------------------
(* An hnsw index mirrors the collection after every step. *)

LEMMA NotThrown ==
  ASSUME TypeInv, NEW t \in Threads, Libcxx \/ \A n \in Names : indices[n] \notin IvfIndex
  PROVE  ~BuildThrow(t)
  BY DEF BuildThrow, TypeInv, CursorOK, IvfLabels

LEMMA CallInHooks ==
  ASSUME TypeInv, NEW t \in Threads, Begin(t) \/ Step(t), pc[t] \in HookLabels
  PROVE  call'[t] = call[t]
<1>1. CASE Begin(t) \/ Return(t)
  BY <1>1 DEF Begin, Return, HookLabels
<1>2. CASE Announce(t) \/ Update(t) \/ IvfHook(t)
  BY <1>2 DEF Announce, Update, AddWrite, RemErase, Notify, HookNext, HooksDone, HnswNote, IvfHook,
       IvfLoad, IvfStore, FileLock, FileOne, FileDone, IvfUnfile, BuildLock, BuildIds, BuildThrow,
       BuildRead, BuildDone, ReadEach
<1>3. CASE AddIndex(t) \/ Search(t) \/ SvVec(t) \/ SvIdx(t) \/ GetParams(t)
  BY <1>3 DEF AddIndex, IxLock, IxIds, IxRead, IxInstall, Search, SeIdx, SeVec, EuIds, EuScan,
       EuTop, HnCheck, HnBuild, HnInsert, HnBuilt, HnRelock, HnKnn, IvProbe, Fetch, SeDone, SvVec,
       SvIdx, GetParams, HookLabels
<1> QED
  BY <1>1, <1>2, <1>3 DEF Step

\* A vector disappears by a removal, which is then to tell every index.
LEMMA Erased ==
  ASSUME TypeInv, NEW t \in Threads, Begin(t) \/ Step(t), NEW id \in Ids, id \in Live, id \notin Live'
  PROVE  pc'[t] = "notify" /\ id \in batch'[t] /\ call'[t].op = "remove"
<1> USE DEF TypeInv, TypeOK
<1>1. vectors[id] # Nil /\ vectors'[id] = Nil
  BY DEF Live, Present
<1>2. pc[t] \in {"addWrite", "remErase"} /\ pc'[t] = "notify" /\ id \in batch'[t]
  BY <1>1, Writes
<1>3. CASE AddWrite(t)
  <2>1. call[t].val # Nil
    BY <1>3, RequestAssumption DEF AddWrite, CallOK
  <2> QED
    BY <1>1, <1>3, <2>1 DEF AddWrite
<1>4. CASE RemErase(t)
  BY <1>2, <1>4 DEF RemErase, CallOK
<1>5. CASE ~AddWrite(t) /\ ~RemErase(t)
  <2>1. Announce(t)
    BY <1>2, <1>5 DEF Begin, Step, Return, Update, Notify, HookNext, HooksDone, HnswNote, IvfHook,
       IvfLoad, IvfStore, FileLock, FileOne, FileDone, IvfUnfile, BuildLock, BuildIds, BuildThrow,
       BuildRead, BuildDone, AddIndex, IxLock, IxIds, IxRead, IxInstall, Search, SeIdx, SeVec,
       EuIds, EuScan, EuTop, HnCheck, HnBuild, HnInsert, HnBuilt, HnRelock, HnKnn, IvProbe, Fetch,
       SeDone, SvVec, SvIdx, GetParams
  <2> QED
    BY <1>1, <2>1 DEF Announce, store
<1> QED
  BY <1>3, <1>4, <1>5

\* What was owed to an hnsw index still is, unless it has just taken its notes;
\* and what a removal owed is owed by a removal.
LEMMA HnswOwedKept ==
  ASSUME TypeInv, NEW t \in Threads, Begin(t) \/ Step(t), Others(t), Kept(t), ~BuildThrow(t),
         NEW n \in Names, indices[n] \in HnswIndex, ~(cur[t] = n /\ HnswNote(t)), NEW id \in Ids
  PROVE  /\ Owed(n, id) => Owed(n, id)'
         /\ \A u \in Threads : Owes(u, n, id) /\ call[u].op = "remove" =>
              \E v \in Threads : Owes(v, n, id)' /\ call'[v].op = "remove"
<1>1. n \in Installed /\ indices[n] \notin IvfIndex
  BY InstalledIndex, KindOf DEF TypeInv, Index
<1>2. ~(cur[t] = n /\ pc[t] \in {"file", "buildLock"})
  BY <1>1 DEF TypeInv, CursorOK, IvfLabels
<1>3. Owes(t, n, id) => Owes(t, n, id)' /\ call'[t] = call[t]
  BY <1>1, <1>2, OwesInHooks, CallInHooks DEF Kept
<1>4. ASSUME NEW u \in Threads, Owes(u, n, id) PROVE Owes(u, n, id)' /\ call'[u] = call[u]
  <2>1. CASE u = t
    BY <1>3, <1>4, <2>1
  <2>2. CASE u # t
    <3>1. Owes(u, n, id)'
      BY <1>4, <2>2, OwesOthers
    <3> QED
      BY <2>2, <3>1 DEF Others
  <2> QED
    BY <2>1, <2>2
<1>5. Owed(n, id) => Owed(n, id)'
  BY <1>4 DEF Owed
<1>6. ASSUME NEW u \in Threads, Owes(u, n, id), call[u].op = "remove"
      PROVE  \E v \in Threads : Owes(v, n, id)' /\ call'[v].op = "remove"
  <2>1. Owes(u, n, id)' /\ call'[u].op = "remove"
    BY <1>4, <1>6
  <2> QED
    BY <2>1
<1> QED
  BY <1>5, <1>6

\* The same of the nodes whose vectors are gone, now or since before the step.
LEMMA DeadOwed ==
  ASSUME TypeInv, NEW t \in Threads, Begin(t) \/ Step(t), Others(t), Kept(t), ~BuildThrow(t),
         NEW n \in Names, indices[n] \in HnswIndex, ~(cur[t] = n /\ HnswNote(t)), DeadNoted(n),
         NEW id \in Present(indices[n].inserted), id \notin Live', id \notin indices[n].to_be_removed
  PROVE  \E u \in Threads : Owes(u, n, id)' /\ call'[u].op = "remove"
<1>1. id \in Ids
  BY DEF Present
<1>2. CASE id \in Live
  <2>1. pc'[t] = "notify" /\ id \in batch'[t] /\ call'[t].op = "remove"
    BY <1>1, <1>2, Erased
  <2>2. Owes(t, n, id)'
    BY <2>1 DEF Owes
  <2> QED
    BY <2>1, <2>2
<1>3. CASE id \notin Live
  BY <1>1, <1>3, HnswOwedKept DEF DeadNoted
<1> QED
  BY <1>2, <1>3

LEMMA MirrorsSame ==
  ASSUME TypeInv, NEW t \in Threads, Begin(t) \/ Step(t), Others(t), Kept(t), ~BuildThrow(t),
         NEW n \in Names, Mirrors(n), indices'[n] = indices[n],
         n = cur[t] => ~HnswNote(t) /\ ~HnInsert(t) /\ ~HnBuilt(t)
  PROVE  Mirrors(n)'
<1> SUFFICES ASSUME indices[n] \in HnswIndex PROVE (Replaces(n) /\ CatchesUp(n) /\ DeadNoted(n))'
  BY DEF Mirrors
<1>1. Replaces(n) /\ CatchesUp(n) /\ DeadNoted(n)
  BY DEF Mirrors
<1>2. Replaces(n)'
  <2>1. CASE indices[n].to_be_inserted \cap Present(indices[n].inserted) \subseteq indices[n].to_be_removed
    BY <2>1 DEF Replaces, Present
  <2>2. ASSUME NEW u \in Threads, pc[u] = "hnInsert", cur[u] = n PROVE Replaces(n)'
    <3>1. CASE u = t
      <4>1. ~HnInsert(t) /\ ~HnBuilt(t) /\ pc[t] = "hnInsert"
        BY <2>2, <3>1
      <4> QED
        BY <4>1 DEF Begin, Step, Return, Announce, Update, AddWrite, RemErase, Notify, HookNext,
           HooksDone, HnswNote, IvfHook, IvfLoad, IvfStore, FileLock, FileOne, FileDone, IvfUnfile,
           BuildLock, BuildIds, BuildThrow, BuildRead, BuildDone, AddIndex, IxLock, IxIds, IxRead,
           IxInstall, Search, SeIdx, SeVec, EuIds, EuScan, EuTop, HnCheck, HnBuild, HnRelock,
           HnKnn, IvProbe, Fetch, SeDone, SvVec, SvIdx, GetParams
    <3>2. CASE u # t
      BY <2>2, <3>2 DEF Others, Replaces
    <3> QED
      BY <3>1, <3>2
  <2> QED
    BY <1>1, <2>1, <2>2 DEF Replaces
<1>3. CatchesUp(n)'
  <2>1. ASSUME NEW id \in Ids
        PROVE  Owed(n, id)' \/ HnswOnceDrained(indices[n])'[id] = vectors'[id]
    <3>1. CASE vectors'[id] # vectors[id]
      BY <3>1, WrittenOwed
    <3>2. CASE vectors'[id] = vectors[id]
      <4>1. HnswOnceDrained(indices[n])'[id] = HnswOnceDrained(indices[n])[id]
        BY <3>2 DEF HnswOnceDrained
      <4> QED
        BY <1>1, <3>2, <4>1, HnswOwedKept DEF CatchesUp
    <3> QED
      BY <3>1, <3>2
  <2> QED
    BY <2>1 DEF CatchesUp
<1>4. DeadNoted(n)'
  <2>1. ASSUME NEW id \in Present(indices[n].inserted), id \notin Live', id \notin indices[n].to_be_removed
        PROVE  \E u \in Threads : Owes(u, n, id)' /\ call'[u].op = "remove"
    BY <1>1, <2>1, DeadOwed
  <2> QED
    BY <2>1 DEF DeadNoted, Present
<1> QED
  BY <1>2, <1>3, <1>4

\* Nobody is in the middle of a build of an index whose mutex_ t may lock.
LEMMA NoBuilder ==
  ASSUME TypeInv, \A u \in Threads : LockOf(u), NEW t \in Threads, NEW n \in Names,
         CanLock(mutex[n], t), pc[t] # "hnInsert", Replaces(n)
  PROVE  indices[n].to_be_inserted \cap Present(indices[n].inserted) \subseteq indices[n].to_be_removed
<1>1. ASSUME NEW u \in Threads, pc[u] = "hnInsert", cur[u] = n PROVE FALSE
  <2>1. mutex[n].w = u /\ u # NoThread
    BY <1>1, ThreadAssumption DEF LockOf, MutexLabels
  <2> QED
    BY <1>1, <2>1 DEF CanLock
<1> QED
  BY <1>1 DEF Replaces

LEMMA MirrorsNote ==
  ASSUME TypeInv, NEW t \in Threads, HnswNote(t), Others(t), \A u \in Threads : LockOf(u), BatchOf(t),
         NEW n \in Names, n = cur[t], indices[n] \in HnswIndex, Mirrors(n)
  PROVE  (Replaces(n) /\ CatchesUp(n) /\ DeadNoted(n))'
<1> USE DEF TypeInv, TypeOK
<1> DEFINE i == indices[n]
           j == IF call[t].op = "add" THEN HnswAdded(i, batch[t]) ELSE HnswRemoved(i, batch[t])
<1>1. /\ pc[t] = "hnswNote" /\ CanLock(mutex[n], t) /\ n = cur[t] /\ batch[t] \in SUBSET Ids
      /\ call[t].op \in {"add", "remove"}
  BY DEF HnswNote, CallOK, HookLabels
<1>2. indices'[n] = j /\ vectors' = vectors /\ Live' = Live
  BY DEF HnswNote, SetIndex, Live
<1>3. Replaces(n) /\ CatchesUp(n) /\ DeadNoted(n)
  BY DEF Mirrors
<1>4. i.to_be_inserted \cap Present(i.inserted) \subseteq i.to_be_removed
  BY <1>1, <1>3, NoBuilder
<1>5. call[t].op = "remove" => batch[t] \cap Live = {}
  BY <1>1 DEF BatchOf, HookLabels
<1>6. /\ j.inserted = i.inserted
      /\ j.to_be_inserted = IF call[t].op = "add" THEN i.to_be_inserted \cup batch[t]
                                                 ELSE i.to_be_inserted \ batch[t]
      /\ j.to_be_removed = IF call[t].op = "add"
                           THEN i.to_be_removed \cup (batch[t] \cap Present(i.inserted))
                           ELSE i.to_be_removed \cup (batch[t] \ i.to_be_inserted)
  BY <1>1, AddedFields, RemovedFields
<1> HIDE DEF j
<1>7. ASSUME NEW id, NEW u \in Threads, Owes(u, n, id)
      PROVE  (u = t /\ id \in batch[t]) \/ (u # t /\ Owes(u, n, id)' /\ call'[u] = call[u])
  <2>1. CASE u = t
    BY <1>1, <1>7, <2>1 DEF Owes
  <2>2. CASE u # t
    <3>1. Owes(u, n, id)'
      BY <1>7, <2>2, OwesOthers
    <3> QED
      BY <2>2, <3>1 DEF Others
  <2> QED
    BY <2>1, <2>2
<1>8. Replaces(n)'
  <2>1. j.to_be_inserted \cap Present(j.inserted) \subseteq j.to_be_removed
    BY <1>1, <1>4, <1>6
  <2> QED
    BY <1>2, <2>1 DEF Replaces, Present
<1>9. CatchesUp(n)'
  <2>1. ASSUME NEW id \in Ids, ~Owed(n, id)'
        PROVE  (IF id \in j.to_be_inserted THEN vectors[id]
                ELSE IF id \in j.to_be_removed THEN Nil ELSE j.inserted[id]) = vectors[id]
    <3>1. CASE id \in batch[t] /\ call[t].op = "add"
      BY <1>6, <3>1
    <3>2. CASE id \in batch[t] /\ call[t].op = "remove"
      <4>1. vectors[id] = Nil
        BY <1>5, <3>2 DEF Live, Present
      <4>2. id \in i.to_be_inserted /\ id \notin i.to_be_removed => i.inserted[id] = Nil
        BY <1>4 DEF Present
      <4> QED
        BY <1>6, <3>2, <4>1, <4>2
    <3>3. CASE id \notin batch[t]
      <4>1. ~Owed(n, id)
        BY <1>7, <2>1, <3>3 DEF Owed
      <4>2. HnswOnceDrained(i)[id] = vectors[id]
        BY <1>3, <4>1 DEF CatchesUp
      <4> QED
        BY <1>6, <3>3, <4>2 DEF HnswOnceDrained
    <3> QED
      BY <1>1, <3>1, <3>2, <3>3
  <2> QED
    BY <1>2, <2>1 DEF CatchesUp, HnswOnceDrained
<1>10. DeadNoted(n)'
  <2>1. ASSUME NEW id \in Present(j.inserted), id \notin Live, id \notin j.to_be_removed
        PROVE  \E u \in Threads : Owes(u, n, id)' /\ call'[u].op = "remove"
    <3>1. id \in Present(i.inserted) /\ id \notin i.to_be_removed
      BY <1>6, <2>1 DEF Present
    <3>2. PICK u \in Threads : Owes(u, n, id) /\ call[u].op = "remove"
      BY <1>3, <2>1, <3>1 DEF DeadNoted
    <3>3. CASE u = t
      BY <1>4, <1>6, <1>7, <2>1, <3>1, <3>2, <3>3
    <3>4. CASE u # t
      BY <1>7, <3>2, <3>4
    <3> QED
      BY <3>3, <3>4
  <2> QED
    BY <1>2, <2>1 DEF DeadNoted, Present
<1> QED
  BY <1>8, <1>9, <1>10

LEMMA MirrorsDrain ==
  ASSUME TypeInv, NEW t \in Threads, HnBuild(t) \/ HnInsert(t) \/ HnBuilt(t), Others(t), Kept(t),
         Settling(t), NEW n \in Names, n = cur[t], indices[n] \in HnswIndex, Mirrors(n)
  PROVE  (Replaces(n) /\ CatchesUp(n) /\ DeadNoted(n))'
<1> USE DEF TypeInv, TypeOK
<1> DEFINE i == indices[n]
<1>1. /\ vectors' = vectors /\ Live' = Live /\ ~BuildThrow(t) /\ ~HnswNote(t)
      /\ Begin(t) \/ Step(t)
  BY DEF HnBuild, HnInsert, HnBuilt, BuildThrow, HnswNote, Step, Search, Live
<1>2. Replaces(n) /\ CatchesUp(n) /\ DeadNoted(n)
  BY DEF Mirrors
<1>3. ASSUME NEW j, indices'[n] = j, Present(j.inserted) \cap (Ids \ Live) \subseteq Present(i.inserted),
             Present(j.inserted) \cap i.to_be_removed \subseteq j.to_be_removed
      PROVE  DeadNoted(n)'
  <2>1. ASSUME NEW id \in Present(j.inserted), id \notin Live, id \notin j.to_be_removed
        PROVE  \E u \in Threads : Owes(u, n, id)' /\ call'[u].op = "remove"
    <3>1. id \in Present(i.inserted) /\ id \notin i.to_be_removed
      BY <1>3, <2>1 DEF Present
    <3> QED
      BY <1>1, <1>2, <2>1, <3>1, DeadOwed
  <2> QED
    BY <1>1, <1>3, <2>1 DEF DeadNoted, Present
<1>4. ASSUME NEW j, indices'[n] = j,
             \A id \in Ids : HnswOnceDrained(i)[id] = vectors[id] =>
               (IF id \in j.to_be_inserted THEN vectors[id]
                ELSE IF id \in j.to_be_removed THEN Nil ELSE j.inserted[id]) = vectors[id]
      PROVE  CatchesUp(n)'
  <2>1. ASSUME NEW id \in Ids PROVE Owed(n, id)' \/ HnswOnceDrained(indices[n])'[id] = vectors'[id]
    <3>1. CASE Owed(n, id)
      BY <1>1, <3>1, HnswOwedKept
    <3>2. CASE ~Owed(n, id)
      BY <1>1, <1>2, <1>4, <3>2 DEF CatchesUp, HnswOnceDrained
    <3> QED
      BY <3>1, <3>2
  <2> QED
    BY <2>1 DEF CatchesUp
<1>5. CASE HnBuild(t)
  <2> DEFINE j == HnswPruned(i)
  <2>1. indices'[n] = j /\ pc'[t] = "hnInsert" /\ cur'[t] = n
    BY <1>5 DEF HnBuild, SetIndex, StartLoop, Goto
  <2>2. /\ j.inserted = [id \in Ids |-> IF id \in i.to_be_removed THEN Nil ELSE i.inserted[id]]
        /\ j.to_be_inserted = i.to_be_inserted /\ j.to_be_removed = {}
    BY PrunedFields
  <2> HIDE DEF j
  <2>3. Replaces(n)'
    BY <2>1 DEF Replaces
  <2>4. DeadNoted(n)'
    BY <1>3, <2>1, <2>2 DEF Present
  <2>5. CatchesUp(n)'
    BY <1>4, <2>1, <2>2 DEF HnswOnceDrained
  <2> QED
    BY <2>3, <2>4, <2>5
<1>6. CASE HnInsert(t)
  <2>1. PICK d \in left[t] : SetIndex(t, HnswInserted(indices[cur[t]], d, vectors[d]))
    BY <1>6 DEF HnInsert
  <2> DEFINE j == HnswInserted(i, d, vectors[d])
  <2>2. indices'[n] = j /\ pc'[t] = "hnInsert" /\ cur'[t] = n /\ d \in i.to_be_inserted
    BY <1>6, <2>1 DEF HnInsert, SetIndex, Settling
  <2>3. d \in Ids /\ vectors[d] \in Vals \cup {Nil}
    BY DEF Stored
  <2>4. PICK vec \in Vals \cup {Nil} : vec = vectors[d] /\ j = HnswInserted(i, d, vec)
    BY <2>3
  <2>5. i \in HnswIndex /\ i.inserted \in Stored
    BY DEF HnswIndex
  <2> HIDE DEF i, j
  <2>6. /\ j.to_be_inserted = i.to_be_inserted /\ j.to_be_removed = i.to_be_removed
        /\ vec = Nil => j.inserted = i.inserted
        /\ vec # Nil => j.inserted[d] = vec
        /\ \A id \in Ids \ {d} : j.inserted[id] = i.inserted[id]
    BY <2>3, <2>4, <2>5, InsertedFields
  <2>7. Replaces(n)'
    BY <2>2 DEF Replaces
  <2>8. DeadNoted(n)'
    <3>1. Present(j.inserted) \cap (Ids \ Live) \subseteq Present(i.inserted)
      BY <2>4, <2>6 DEF Present, Live
    <3>2. indices'[n] = j /\ Present(j.inserted) \cap i.to_be_removed \subseteq j.to_be_removed
      BY <2>2, <2>6
    <3> QED
      BY <1>3, <3>1, <3>2
  <2>9. CatchesUp(n)'
    <3>1. ASSUME NEW id \in Ids, HnswOnceDrained(i)[id] = vectors[id]
          PROVE  (IF id \in j.to_be_inserted THEN vectors[id]
                  ELSE IF id \in j.to_be_removed THEN Nil ELSE j.inserted[id]) = vectors[id]
      BY <2>2, <2>4, <2>6, <3>1 DEF HnswOnceDrained
    <3> QED
      BY <1>4, <2>2, <3>1
  <2> QED
    BY <2>7, <2>8, <2>9
<1>7. CASE HnBuilt(t)
  <2> DEFINE j == HnswSettled(i)
  <2>1. indices'[n] = j
    BY <1>7 DEF HnBuilt, SetIndex
  <2>2. j.inserted = i.inserted /\ j.to_be_inserted = {} /\ j.to_be_removed = {}
    BY SettledFields
  <2>3. /\ i.to_be_removed = {}
        /\ \A id \in i.to_be_inserted : i.inserted[id] = vectors[id]
    BY <1>7 DEF HnBuilt, Settling
  <2> HIDE DEF j
  <2>4. Replaces(n)'
    BY <2>1, <2>2 DEF Replaces
  <2>5. DeadNoted(n)'
    BY <1>3, <2>1, <2>2, <2>3 DEF Present
  <2>6. CatchesUp(n)'
    BY <1>4, <2>1, <2>2, <2>3 DEF HnswOnceDrained
  <2> QED
    BY <2>4, <2>5, <2>6
<1> QED
  BY <1>5, <1>6, <1>7

LEMMA MirrorsNew ==
  ASSUME TypeInv, NEW t \in Threads, IxInstall(t), Others(t), LockOf(t), ReadsNew(t), DeadNew(t),
         NEW n \in Names, n = call[t].name, indices[n] = Nil
  PROVE  Mirrors(n)'
<1> USE DEF TypeInv, TypeOK
<1>1. /\ indices'[n] = Fresh(call[t], seen[t]) /\ vectors' = vectors /\ Live' = Live
      /\ call[t].kind \in Kinds /\ pc[t] = "ixRead" /\ left[t] = {} /\ seen[t] \in Stored
      /\ idx_mutex.w \in Threads
      /\ Begin(t) \/ Step(t)
  BY DEF IxInstall, CallOK, LockOf, Live, Step, AddIndex
<1>2. CASE call[t].kind = "ivf_flat"
  <2>1. indices'[n] \notin HnswIndex
    BY <1>1, <1>2, CallParams, FreshTypes, KindOf
  <2> QED
    BY <2>1 DEF Mirrors
<1>3. CASE call[t].kind = "hnsw"
  <2> DEFINE j == indices'[n]
  <2>1. j.inserted = seen[t] /\ j.to_be_inserted = {} /\ j.to_be_removed = {}
    BY <1>1, <1>3 DEF Fresh, HnswOf
  <2> HIDE DEF j
  <2>2. Replaces(n)'
    BY <2>1 DEF Replaces, j
  <2>3. CatchesUp(n)'
    <3>1. ASSUME NEW id \in Ids PROVE Owed(n, id)' \/ seen[t][id] = vectors[id]
      <4>1. CASE Announced(id)
        <5>1. Announced(id)'
          BY <1>1, <4>1, AnnouncedStays
        <5> QED
          BY <5>1 DEF Announced, Owed, Owes
      <4> QED
        BY <1>1, <4>1 DEF ReadsNew
    <3> QED
      BY <1>1, <2>1, <3>1 DEF CatchesUp, HnswOnceDrained, j
  <2>4. DeadNoted(n)'
    <3>1. ASSUME NEW id \in Present(seen[t]), id \notin Live
          PROVE  \E u \in Threads : Owes(u, n, id)' /\ call'[u].op = "remove"
      <4>1. PICK u \in Threads : pc[u] = "notify" /\ id \in batch[u] /\ call[u].op = "remove"
        BY <1>1, <3>1 DEF DeadNew
      <4>2. pc'[u] = "notify" /\ id \in batch'[u] /\ call'[u].op = "remove"
        BY <1>1, <4>1 DEF Others
      <4> QED
        BY <4>2 DEF Owes
    <3> QED
      BY <1>1, <2>1, <3>1 DEF DeadNoted, Present, j
  <2> QED
    BY <2>2, <2>3, <2>4 DEF Mirrors
<1> QED
  BY <1>1, <1>2, <1>3 DEF Kinds

\* A name gets an index from add_index only.
LEMMA NilStays ==
  ASSUME TypeInv, NEW t \in Threads, Begin(t) \/ Step(t), NEW n \in Names, indices[n] = Nil,
         ~(IxInstall(t) /\ n = call[t].name)
  PROVE  indices'[n] = Nil
<1>1. CASE n # WritesAt(t)
  BY <1>1, WritesOne
<1>2. CASE n = WritesAt(t)
  <2>1. pc[t] = "ixRead"
    BY <1>2, IndexAssumption, NameAssumption
    DEF WritesAt, TypeInv, CursorOK, HnswLabels, IvfLabels, Index
  <2>2. ~IxInstall(t)
    BY <1>2, <2>1 DEF WritesAt
  <2>3. IxRead(t)
    BY <2>1, <2>2, IxReadSteps
  <2> QED
    BY <2>3 DEF IxRead, ReadEach, store
<1> QED
  BY <1>1, <1>2

LEMMA MirrorsStep ==
  ASSUME TypeInv, NEW t \in Threads, Begin(t) \/ Step(t), StepOK(t), Kept(t), ~BuildThrow(t),
         \A u \in Threads : Works(u), Draws(t), NEW n \in Names, Mirrors(n)
  PROVE  Mirrors(n)'
<1>1. /\ Others(t) /\ KindsStay /\ LockOf(t) /\ BatchOf(t) /\ ReadsNew(t)
      /\ Settling(t) /\ DeadNew(t) /\ \A u \in Threads : LockOf(u)
  BY DEF StepOK, Works, Draws
<1>2. CASE indices[n] \in HnswIndex
  <2>1. CASE n = cur[t] /\ HnswNote(t)
    BY <1>1, <1>2, <2>1, MirrorsNote DEF Mirrors
  <2>2. CASE n = cur[t] /\ (HnBuild(t) \/ HnInsert(t) \/ HnBuilt(t))
    BY <1>1, <1>2, <2>2, MirrorsDrain DEF Mirrors
  <2>3. CASE ~(n = cur[t] /\ (HnswNote(t) \/ HnBuild(t) \/ HnInsert(t) \/ HnBuilt(t)))
    <3>1. indices'[n] = indices[n]
      BY <1>2, <2>3, GraphSteps
    <3> QED
      BY <1>1, <2>3, <3>1, MirrorsSame
  <2> QED
    BY <2>1, <2>2, <2>3
<1>3. CASE indices[n] \in IvfIndex
  BY <1>1, <1>3, KindOf DEF KindsStay, Mirrors
<1>4. CASE indices[n] = Nil
  <2>1. CASE IxInstall(t) /\ n = call[t].name
    BY <1>1, <1>4, <2>1, MirrorsNew
  <2>2. CASE ~(IxInstall(t) /\ n = call[t].name)
    BY <1>4, <2>2, NilStays, IndexAssumption DEF Mirrors, Index
  <2> QED
    BY <2>1, <2>2
<1> QED
  BY <1>2, <1>3, <1>4 DEF TypeInv, TypeOK, Index

-----------------------------------------------------------------------------
(* What a search that drains or walks a graph, and an add_index that reads  *)
(* the vectors, rely on: the steps of the others.                          *)

\* A node that is new, or no longer stray, is live.
LEMMA GraphLive ==
  ASSUME TypeInv, NEW t \in Threads, Begin(t) \/ Step(t), NEW n \in Names, indices[n] \in HnswIndex
  PROVE  /\ Present(indices'[n].inserted) \subseteq Present(indices[n].inserted) \cup Live
         /\ indices[n].stray \ indices'[n].stray \subseteq Live
<1> USE DEF TypeInv, TypeOK
<1> DEFINE i == indices[n]
<1>1. CASE indices'[n] = indices[n]
  BY <1>1
<1>2. CASE n = cur[t] /\ HnswNote(t)
  <2>1. indices'[n] = HnswAdded(i, batch[t]) \/ indices'[n] = HnswRemoved(i, batch[t])
    BY <1>2 DEF HnswNote, SetIndex
  <2> QED
    BY <2>1, AddedFields, RemovedFields
<1>3. CASE n = cur[t] /\ HnBuild(t)
  <2>1. indices'[n] = HnswPruned(i)
    BY <1>3 DEF HnBuild, SetIndex
  <2>2. /\ indices'[n].inserted = [id \in Ids |-> IF id \in i.to_be_removed THEN Nil ELSE i.inserted[id]]
        /\ i.stray \subseteq indices'[n].stray
    BY <2>1, PrunedFields
  <2> QED
    BY <2>2 DEF Present
<1>4. CASE n = cur[t] /\ HnInsert(t)
  <2>1. PICK d \in left[t] : SetIndex(t, HnswInserted(indices[cur[t]], d, vectors[d]))
    BY <1>4 DEF HnInsert
  <2>2. indices'[n] = HnswInserted(i, d, vectors[d]) /\ d \in Ids /\ vectors[d] \in Vals \cup {Nil}
    BY <1>4, <2>1 DEF SetIndex, Stored
  <2>3. PICK vec \in Vals \cup {Nil} : vec = vectors[d] /\ indices'[n] = HnswInserted(i, d, vec)
    BY <2>2
  <2> DEFINE j == HnswInserted(i, d, vec)
  <2> HIDE DEF i, j, TypeInv, TypeOK
  <2>4. /\ vec = Nil => j.inserted = i.inserted
        /\ \A id \in Ids \ {d} : j.inserted[id] = i.inserted[id]
        /\ vec = Nil => i.stray \subseteq j.stray
        /\ vec # Nil => i.stray \ {d} \subseteq j.stray
    <3>1. i \in HnswIndex
      BY DEF i
    <3> QED
      BY <2>2, <3>1, InsertedFields DEF j
  <2>5. vec # Nil => d \in Live
    BY <2>2, <2>3 DEF Live, Present
  <2> QED
    BY <2>3, <2>4, <2>5 DEF Present, i, j
<1>5. CASE n = cur[t] /\ HnBuilt(t)
  <2>1. indices'[n] = HnswSettled(i)
    BY <1>5 DEF HnBuilt, SetIndex
  <2> QED
    BY <2>1, SettledFields
<1> QED
  BY <1>1, <1>2, <1>3, <1>4, <1>5, GraphSteps

LEMMA SettlingOthers ==
  ASSUME TypeInv, NEW t \in Threads, NEW u \in Threads \ {t}, Begin(t) \/ Step(t), Others(t),
         vectors' = vectors, LockOf(t), LockOf(u), Settling(u), pc[u] = "hnInsert"
  PROVE  Settling(u)'
<1>1. PICK n : n = cur[u]
  OBVIOUS
<1>2. n \in Names /\ indices[n] \in HnswIndex /\ mutex[n].w = u /\ u # NoThread
  BY <1>1, ThreadAssumption DEF TypeInv, CursorOK, HnswLabels, LockOf, MutexLabels
<1>3. ~(n = cur[t] /\ (HnswNote(t) \/ HnBuild(t)))
  BY <1>2 DEF HnswNote, HnBuild, CanLock
<1>4. ~(n = cur[t] /\ (HnInsert(t) \/ HnBuilt(t)))
  BY <1>2 DEF HnInsert, HnBuilt, LockOf, MutexLabels
<1>5. indices'[n] = indices[n]
  BY <1>2, <1>3, <1>4, GraphSteps
<1>6. pc'[u] = "hnInsert" /\ cur'[u] = n /\ left'[u] = left[u]
  BY <1>1 DEF Others
<1> QED
  BY <1>1, <1>5, <1>6 DEF Settling

LEMMA DeadNewOthers ==
  ASSUME TypeInv, NEW t \in Threads, NEW u \in Threads \ {t}, Begin(t) \/ Step(t), Others(t),
         LockOf(u), DeadNew(u)
  PROVE  DeadNew(u)'
<1>1. pc'[u] = pc[u] /\ seen'[u] = seen[u]
  BY DEF Others
<1> SUFFICES ASSUME pc[u] = "ixRead", NEW id \in Present(seen[u]), id \notin Live'
             PROVE  \E v \in Threads : pc'[v] = "notify" /\ id \in batch'[v] /\ call'[v].op = "remove"
  BY <1>1 DEF DeadNew, Present
<1>2. idx_mutex.w \in Threads /\ id \in Ids
  BY DEF LockOf, Present
<1>3. CASE id \in Live
  BY <1>2, <1>3, Erased
<1>4. CASE id \notin Live
  <2>1. PICK v \in Threads : pc[v] = "notify" /\ id \in batch[v] /\ call[v].op = "remove"
    BY <1>4 DEF DeadNew
  <2>2. v # t
    BY <1>2, <2>1, NotifierWaits
  <2> QED
    BY <2>1, <2>2 DEF Others
<1> QED
  BY <1>3, <1>4

LEMMA LiveNodesOthers ==
  ASSUME TypeInv, NEW t \in Threads, NEW u \in Threads \ {t}, Begin(t) \/ Step(t), Others(t), KindsStay,
         vectors' = vectors, LiveNodes(u)
  PROVE  LiveNodes(u)'
<1>1. PICK n : n = cur[u]
  OBVIOUS
<1>2. pc'[u] = pc[u] /\ cur'[u] = n /\ left'[u] = left[u] /\ Live' = Live
  BY <1>1 DEF Others, Live
<1>3. ASSUME pc[u] \in {"hnInsert", "hnRelock", "hnKnn"}
      PROVE  Present(indices'[n].inserted) \subseteq Live
  <2>1. n \in Names /\ indices[n] \in HnswIndex
    BY <1>1, <1>3 DEF TypeInv, CursorOK, HnswLabels
  <2> QED
    BY <1>1, <1>3, <2>1, GraphLive DEF LiveNodes
<1>4. ASSUME pc[u] = "fetch", n # Nil, indices'[n].kind = "hnsw"
      PROVE  left[u] \ indices'[n].stray \subseteq Live
  <2>1. n \in Names /\ indices[n] \in Index
    BY <1>1, <1>4 DEF TypeInv, CursorOK
  <2>2. indices[n] \in HnswIndex /\ indices[n].kind = "hnsw"
    BY <1>4, <2>1, KindOf DEF KindsStay, Index
  <2>3. left[u] \ indices[n].stray \subseteq Live
    BY <1>1, <1>4, <2>2 DEF LiveNodes, IsHnsw
  <2> QED
    BY <2>1, <2>2, <2>3, GraphLive
<1> QED
  BY <1>2, <1>3, <1>4 DEF LiveNodes, IsHnsw, Present

LEMMA DrawsOthers ==
  ASSUME TypeInv, SearchInv, NEW t \in Threads, NEW u \in Threads \ {t}, Begin(t) \/ Step(t),
         StepOK(t), LockOf(t), LockOf(u), Draws(u)
  PROVE  Draws(u)'
<1>1. Others(t) /\ KindsStay /\ Settling(u) /\ DeadNew(u) /\ LiveNodes(u)
  BY DEF StepOK, Draws
<1>2. pc'[u] = pc[u]
  BY <1>1 DEF Others
<1>3. CASE pc[u] \in Reading
  <2>1. vectors' = vectors
    BY <1>3, Guarded DEF SearchInv, SearchOf, VectorsGuarded
  <2>2. Settling(u)'
    BY <1>1, <1>2, <2>1, SettlingOthers DEF Settling
  <2> QED
    BY <1>1, <2>1, <2>2, DeadNewOthers, LiveNodesOthers DEF Draws
<1>4. CASE pc[u] \notin Reading
  <2>1. Settling(u)' /\ LiveNodes(u)'
    BY <1>2, <1>4 DEF Settling, LiveNodes, Reading
  <2> QED
    BY <1>1, <2>1, DeadNewOthers DEF Draws
<1> QED
  BY <1>3, <1>4

-----------------------------------------------------------------------------
(* The steps of the thread itself. *)

\* Where it can have come from.
LEMMA PlacesOf ==
  ASSUME TypeInv, NEW t \in Threads, Begin(t) \/ Step(t)
  PROVE  /\ pc'[t] = "hnInsert" => HnBuild(t) \/ HnInsert(t)
         /\ pc'[t] = "hnRelock" => HnBuilt(t)
         /\ pc'[t] = "hnKnn" => HnCheck(t) \/ HnRelock(t)
         /\ pc'[t] = "fetch" => EuTop(t) \/ HnKnn(t) \/ IvProbe(t) \/ Fetch(t)
         /\ pc'[t] = "ixRead" => IxIds(t) \/ IxRead(t)
<1> USE DEF TypeInv, TypeOK
<1> DEFINE Places == {"hnInsert", "hnRelock", "hnKnn", "fetch", "ixRead"}
<1>1. CASE Begin(t)
  <2>1. PICK c \in Requests : Goto(t, First(c))
    BY <1>1 DEF Begin
  <2>2. First(c) \notin Places
    BY RequestAssumption DEF Request, Ops, First
  <2> QED
    BY <2>1, <2>2 DEF Goto
<1>2. CASE Return(t) \/ SvVec(t) \/ SvIdx(t) \/ GetParams(t)
  BY <1>2 DEF Return, SvVec, SvIdx, GetParams, Reply, Goto
<1>3. CASE Announce(t)
  BY <1>3 DEF Announce
<1>4. CASE Update(t)
  <2>1. CASE HookNext(t)
    <3>1. PICK n \in todo[t] : Goto(t, HookLabel(t, indices[n]))
      BY <2>1 DEF HookNext
    <3>2. n \in Names /\ indices[n] \in Index /\ call[t].op \in {"add", "remove"}
      BY <2>1, InstalledIndex DEF HookNext, CallOK, CursorOK, HookLabels
    <3>3. HookLabel(t, indices[n]) \notin Places
      BY <3>2, KindOf DEF HookLabel, Index, IvfIndex
    <3> QED
      BY <3>1, <3>3 DEF Goto
  <2>2. CASE AddWrite(t) \/ RemErase(t) \/ Notify(t) \/ HooksDone(t) \/ HnswNote(t)
    BY <2>2 DEF AddWrite, RemErase, Notify, HooksDone, HnswNote, Reply, Goto
  <2> QED
    BY <1>4, <2>1, <2>2 DEF Update
<1>5. CASE IvfHook(t)
  BY <1>5 DEF IvfHook, IvfLoad, IvfStore, FileLock, FileOne, FileDone, IvfUnfile, BuildLock,
              BuildIds, BuildThrow, BuildRead, BuildDone, ReadIds, ReadEach, StartLoop, Reply, Goto
<1>6. CASE AddIndex(t)
  BY <1>6 DEF AddIndex, IxLock, IxIds, IxRead, IxInstall, ReadIds, StartLoop, ReadEach, Reply, Goto
<1>7. CASE SeIdx(t) \/ SeVec(t) \/ EuIds(t) \/ EuScan(t)
  <2>1. CASE SeVec(t)
    <3>1. call[t].name \in Names
      BY <2>1, RequestAssumption DEF SeVec, CallOK, Request
    <3>2. SearchLabel(indices[call[t].name]) \in {"euIds", "hnCheck", "ivProbe"}
      BY <3>1, KindOf DEF SearchLabel, Index
    <3> QED
      BY <2>1, <3>2 DEF SeVec, Goto
  <2> QED
    BY <1>7, <2>1 DEF SeIdx, EuIds, EuScan, ReadIds, ReadOrFail, SeEnd, StartLoop, Reply, Goto
<1>8. CASE EuTop(t) \/ HnCheck(t) \/ HnBuild(t) \/ HnInsert(t) \/ HnBuilt(t) \/ HnRelock(t)
  BY <1>8 DEF EuTop, HnCheck, HnBuild, HnInsert, HnBuilt, HnRelock, StartLoop, Goto
<1>9. CASE HnKnn(t) \/ IvProbe(t) \/ Fetch(t) \/ SeDone(t)
  BY <1>9 DEF HnKnn, IvProbe, Fetch, SeDone, ReadOrFail, SeEnd, StartLoop, Reply, Goto
<1> QED
  BY <1>1, <1>2, <1>3, <1>4, <1>5, <1>6, <1>7, <1>8, <1>9 DEF Step, Search

LEMMA SettlingStep ==
  ASSUME TypeInv, NEW t \in Threads, Begin(t) \/ Step(t), \A u \in Threads : LockOf(u), Settling(t),
         \A n \in Names : Mirrors(n)
  PROVE  Settling(t)'
<1> SUFFICES ASSUME pc'[t] = "hnInsert" PROVE Settling(t)'
  BY DEF Settling
<1> USE DEF TypeInv, TypeOK
<1>1. PICK n : n = cur[t]
  OBVIOUS
<1>2. /\ cur'[t] = n /\ vectors' = vectors /\ n \in Names /\ indices[n] \in HnswIndex
      /\ HnBuild(t) \/ HnInsert(t)
  BY <1>1, PlacesOf DEF HnBuild, HnInsert, CursorOK, HnswLabels
<1> DEFINE i == indices[n]
<1>3. CASE HnBuild(t)
  <2> DEFINE j == HnswPruned(i)
  <2>1. indices'[n] = j /\ left'[t] = i.to_be_inserted
    BY <1>1, <1>2, <1>3 DEF HnBuild, SetIndex, StartLoop
  <2>2. i.to_be_inserted \cap Present(i.inserted) \subseteq i.to_be_removed
    BY <1>1, <1>2, <1>3, NoBuilder DEF Mirrors, HnBuild
  <2>3. /\ j.inserted = [id \in Ids |-> IF id \in i.to_be_removed THEN Nil ELSE i.inserted[id]]
        /\ j.to_be_inserted = i.to_be_inserted /\ j.to_be_removed = {}
    BY <1>2, PrunedFields
  <2>4. i.to_be_inserted \subseteq Ids
    BY <1>2 DEF HnswIndex
  <2> HIDE DEF j
  <2>5. \A id \in i.to_be_inserted : j.inserted[id] = Nil
    BY <2>2, <2>3, <2>4 DEF Present
  <2> QED
    BY <1>2, <2>1, <2>3, <2>5 DEF Settling
<1>4. CASE HnInsert(t)
  <2>1. PICK d \in left[t] : /\ left' = [left EXCEPT ![t] = @ \ {d}]
                             /\ SetIndex(t, HnswInserted(indices[cur[t]], d, vectors[d]))
    BY <1>4 DEF HnInsert, ReadNext
  <2>2. d \in Ids /\ vectors[d] \in Vals \cup {Nil}
    BY DEF Stored
  <2>3. PICK vec \in Vals \cup {Nil} : vec = vectors[d] /\ indices'[n] = HnswInserted(i, d, vec)
    BY <1>1, <1>2, <2>1, <2>2 DEF SetIndex
  <2>4. /\ i.to_be_removed = {} /\ left[t] \subseteq i.to_be_inserted
        /\ \A id \in i.to_be_inserted : i.inserted[id] = IF id \in left[t] THEN Nil ELSE vectors[id]
    BY <1>1, <1>4 DEF Settling, HnInsert
  <2>5. left'[t] = left[t] \ {d} /\ i.to_be_inserted \subseteq Ids
    BY <1>2, <2>1 DEF HnswIndex
  <2> DEFINE j == HnswInserted(i, d, vec)
  <2>6. i \in HnswIndex
    BY <1>2
  <2> HIDE DEF i, j, TypeInv, TypeOK
  <2>7. /\ j.to_be_inserted = i.to_be_inserted /\ j.to_be_removed = i.to_be_removed
        /\ vec = Nil => j.inserted = i.inserted
        /\ vec # Nil => j.inserted[d] = vec
        /\ \A id \in Ids \ {d} : j.inserted[id] = i.inserted[id]
    BY <2>2, <2>6, InsertedFields DEF j
  <2>8. \A id \in i.to_be_inserted : j.inserted[id] = IF id \in left[t] \ {d} THEN Nil ELSE vectors[id]
    BY <2>3, <2>4, <2>5, <2>7
  <2> QED
    BY <1>2, <2>3, <2>4, <2>5, <2>7, <2>8 DEF Settling, j
<1> QED
  BY <1>2, <1>3, <1>4

LEMMA DeadNewStep ==
  ASSUME TypeInv, NEW t \in Threads, Begin(t) \/ Step(t), Others(t), DeadNew(t)
  PROVE  DeadNew(t)'
<1> SUFFICES ASSUME pc'[t] = "ixRead" PROVE DeadNew(t)'
  BY DEF DeadNew
<1> USE DEF TypeInv, TypeOK
<1>1. CASE IxIds(t)
  <2>1. seen'[t] = Empty
    BY <1>1 DEF IxIds, ReadIds, StartLoop
  <2> QED
    BY <2>1 DEF DeadNew, Present, Empty
<1>2. CASE IxRead(t)
  <2>1. PICK d \in left[t] : Keep(t, d)
    BY <1>2 DEF IxRead, ReadEach
  <2>2. vectors' = vectors /\ Live' = Live /\ pc[t] = "ixRead" /\ pc'[t] = pc[t]
    BY <1>2 DEF IxRead, ReadEach, store, Live
  <2>3. \A id \in Ids : seen'[t][id] \in {seen[t][id], vectors[id]}
    BY <2>1 DEF Keep, Stored
  <2>4. ASSUME NEW id \in Present(seen'[t]), id \notin Live
        PROVE  \E u \in Threads : pc'[u] = "notify" /\ id \in batch'[u] /\ call'[u].op = "remove"
    <3>1. id \in Present(seen[t])
      BY <2>3, <2>4 DEF Present, Live
    <3>2. PICK u \in Threads : pc[u] = "notify" /\ id \in batch[u] /\ call[u].op = "remove"
      BY <2>2, <2>4, <3>1 DEF DeadNew
    <3>3. u # t
      BY <2>2, <3>2
    <3> QED
      BY <3>2, <3>3 DEF Others
  <2> QED
    BY <2>2, <2>4 DEF DeadNew, Present
<1> QED
  BY <1>1, <1>2, PlacesOf

\* In a graph without pending removals every node is live as long as somebody
\* has vec_mutex_ shared: no removal is on its way to the index then.
LEMMA AllLive ==
  ASSUME \A u \in Threads : LockOf(u), vec_mutex.r # {}, NEW n \in Names, DeadNoted(n)
  PROVE  Present(indices[n].inserted) \subseteq Live \cup indices[n].to_be_removed
<1>1. ASSUME NEW u \in Threads, NEW id, Owes(u, n, id), call[u].op = "remove" PROVE FALSE
  BY <1>1, OwesInHooks DEF LockOf
<1> QED
  BY <1>1 DEF DeadNoted, Present

LEMMA LiveNodesStep ==
  ASSUME TypeInv, SearchInv, NEW t \in Threads, Begin(t) \/ Step(t), \A u \in Threads : LockOf(u),
         LiveNodes(t), \A n \in Names : Mirrors(n)
  PROVE  LiveNodes(t)'
<1> USE DEF TypeInv, TypeOK
<1>1. PICK n : n = cur[t]
  OBVIOUS
<1>2. ASSUME pc[t] \in {"hnCheck", "hnBuild"}, n \in Names, indices[n] \in HnswIndex
      PROVE  Present(indices[n].inserted) \subseteq Live \cup indices[n].to_be_removed
  <2>1. t \in vec_mutex.r
    BY <1>2 DEF SearchInv, SearchOf, Reading
  <2>2. DeadNoted(n)
    BY <1>2 DEF Mirrors
  <2> QED
    BY <1>2, <2>1, <2>2, AllLive
<1>3. CASE pc'[t] \in {"hnInsert", "hnRelock", "hnKnn"}
  <2>1. HnBuild(t) \/ HnInsert(t) \/ HnBuilt(t) \/ HnCheck(t) \/ HnRelock(t)
    BY <1>3, PlacesOf
  <2>2. /\ cur'[t] = n /\ vectors' = vectors /\ Live' = Live
        /\ n \in Names /\ indices[n] \in HnswIndex
    BY <1>1, <2>1 DEF HnBuild, HnInsert, HnBuilt, HnCheck, HnRelock, CursorOK, HnswLabels, store,
                      locals, Live
  <2>3. CASE HnBuild(t)
    <3>1. indices'[n] = HnswPruned(indices[n]) /\ pc[t] = "hnBuild"
      BY <1>1, <2>2, <2>3 DEF HnBuild, SetIndex
    <3>2. indices'[n].inserted =
            [id \in Ids |-> IF id \in indices[n].to_be_removed THEN Nil ELSE indices[n].inserted[id]]
      BY <2>2, <3>1, PrunedFields
    <3>3. Present(indices'[n].inserted) \subseteq Live
      BY <1>2, <2>2, <3>1, <3>2 DEF Present
    <3> QED
      BY <1>3, <2>2, <3>3 DEF LiveNodes, Present
  <2>4. CASE HnInsert(t) \/ HnBuilt(t) \/ HnRelock(t)
    <3>1. Present(indices[n].inserted) \subseteq Live
      BY <1>1, <2>4 DEF LiveNodes, HnInsert, HnBuilt, HnRelock
    <3>2. Present(indices'[n].inserted) \subseteq Live
      BY <2>2, <3>1, GraphLive
    <3> QED
      BY <1>3, <2>2, <3>2 DEF LiveNodes, Present
  <2>5. CASE HnCheck(t)
    <3>1. indices' = indices /\ indices[n].to_be_removed = {} /\ pc[t] = "hnCheck"
      BY <1>1, <1>3, <2>5 DEF HnCheck, HnswPending, Goto, store
    <3> QED
      BY <1>2, <1>3, <2>2, <3>1 DEF LiveNodes, Present
  <2> QED
    BY <2>1, <2>3, <2>4, <2>5
<1>4. CASE pc'[t] = "fetch"
  <2>1. UNCHANGED <<vectors, indices, cur>> /\ Live' = Live
    BY <1>4, PlacesOf DEF EuTop, HnKnn, IvProbe, Fetch, ReadOrFail, SeEnd, Reply, Goto, store, Live
  <2> SUFFICES ASSUME IsHnsw(t) PROVE left'[t] \ indices[n].stray \subseteq Live
    BY <1>1, <1>4, <2>1 DEF LiveNodes, IsHnsw
  <2>2. CASE EuTop(t) \/ IvProbe(t)
    <3>1. cur[t] = Nil \/ indices[cur[t]] \in IvfIndex
      BY <2>2 DEF EuTop, IvProbe, CursorOK, IvfLabels
    <3>2. cur[t] # Nil /\ indices[cur[t]].kind = "hnsw"
      BY DEF IsHnsw
    <3> QED
      BY <3>1, <3>2, KindOf
  <2>3. CASE HnKnn(t)
    <3>1. Present(indices[n].inserted) \subseteq Live
      BY <1>1, <2>3 DEF LiveNodes, HnKnn
    <3>2. left'[t] \subseteq HnswReach(indices[n])
      BY <1>1, <2>3 DEF HnKnn, StartLoop
    <3> QED
      BY <3>1, <3>2 DEF HnswReach
  <2>4. CASE Fetch(t)
    <3>1. left'[t] \subseteq left[t] /\ pc[t] = "fetch"
      BY <1>4, <2>4 DEF Fetch, ReadOrFail, ReadNext, SeEnd, Reply, Goto
    <3> QED
      BY <1>1, <3>1 DEF LiveNodes
  <2> QED
    BY <1>4, <2>2, <2>3, <2>4, PlacesOf
<1> QED
  BY <1>3, <1>4 DEF LiveNodes

-----------------------------------------------------------------------------
(* The parts together. *)

LEMMA InitMirrors ==
  ASSUME Libcxx \/ NoIvf, Init
  PROVE  MirrorInv
<1>1. ASSUME NEW t \in Threads PROVE Draws(t)
  BY DEF Init, Draws, Settling, DeadNew, LiveNodes
<1>2. ASSUME NEW n \in Names PROVE Mirrors(n) /\ (NoIvf => indices[n] \notin IvfIndex)
  <2>1. vectors \in Stored /\ indices[n] = IF Loaded[n] = Nil THEN Nil ELSE Fresh(Loaded[n], vectors)
    BY DEF Init
  <2>2. Nil \notin HnswIndex /\ Nil \notin IvfIndex
    BY IndexAssumption DEF Index
  <2>3. indices[n] \in HnswIndex =>
          indices[n].inserted = vectors /\ indices[n].to_be_inserted = {} /\ indices[n].to_be_removed = {}
    BY <2>1, <2>2, LoadedTypes, KindOf DEF Fresh, HnswOf
  <2>4. NoIvf => indices[n] \notin IvfIndex
    BY <2>1, <2>2, LoadedTypes, KindOf DEF NoIvf
  <2> QED
    BY <2>3, <2>4 DEF Mirrors, Replaces, CatchesUp, DeadNoted, HnswOnceDrained, Live
<1> QED
  BY <1>1, <1>2 DEF MirrorInv

LEMMA NoIvfStays ==
  ASSUME TypeInv, NoIvf, NEW t \in Threads, Begin(t) \/ Step(t), KindsStay,
         NEW n \in Names, indices[n] \notin IvfIndex
  PROVE  indices'[n] \notin IvfIndex
<1>1. CASE indices[n] \in HnswIndex
  BY <1>1, KindOf DEF KindsStay
<1>2. CASE indices[n] = Nil
  <2>1. CASE IxInstall(t) /\ n = call[t].name
    <3>1. indices'[n] = Fresh(call[t], seen[t]) /\ seen[t] \in Stored /\ call[t].k \in Nat
      BY <1>2, <2>1, CallParams DEF IxInstall, TypeInv, TypeOK
    <3>2. call[t].kind = "hnsw"
      BY <2>1 DEF IxInstall, TypeInv, CallOK, NoIvf, Kinds
    <3> QED
      BY <3>1, <3>2, FreshTypes, KindOf
  <2>2. CASE ~(IxInstall(t) /\ n = call[t].name)
    BY <1>2, <2>2, NilStays, IndexAssumption DEF Index
  <2> QED
    BY <2>1, <2>2
<1> QED
  BY <1>1, <1>2 DEF TypeInv, TypeOK, Index

LEMMA MirrorThread ==
  ASSUME Libcxx \/ NoIvf, TypeInv, SearchInv, IndexInv, MirrorInv,
         NEW t \in Threads, Begin(t) \/ Step(t)
  PROVE  MirrorInv'
<1>1. StepOK(t) /\ Others(t) /\ KindsStay
  BY ThreadStep DEF StepOK
<1>2. /\ \A u \in Threads : Works(u) /\ LockOf(u) /\ Draws(u)
      /\ \A n \in Names : Mirrors(n)
      /\ LockOf(t) /\ BatchOf(t) /\ Settling(t) /\ DeadNew(t) /\ LiveNodes(t)
  BY DEF IndexInv, Works, MirrorInv, Draws
<1>3. Kept(t) /\ ~BuildThrow(t)
  BY <1>2, KeptStep, NotThrown DEF MirrorInv
<1>4. ASSUME NEW u \in Threads PROVE Draws(u)'
  <2>1. CASE u = t
    BY <1>1, <1>2, <2>1, SettlingStep, DeadNewStep, LiveNodesStep DEF Draws
  <2>2. CASE u # t
    BY <1>1, <1>2, <2>2, DrawsOthers
  <2> QED
    BY <2>1, <2>2
<1>5. ASSUME NEW n \in Names PROVE Mirrors(n)'
  BY <1>1, <1>2, <1>3, MirrorsStep
<1>6. Libcxx \/ \A n \in Names : indices'[n] \notin IvfIndex
  BY <1>1, NoIvfStays DEF MirrorInv
<1> QED
  BY <1>4, <1>5, <1>6 DEF MirrorInv

LEMMA MirrorStep ==
  ASSUME Libcxx \/ NoIvf
  PROVE  TypeInv /\ SearchInv /\ IndexInv /\ MirrorInv /\ [Next]_vars => MirrorInv'
<1> SUFFICES ASSUME TypeInv, SearchInv, IndexInv, MirrorInv, [Next]_vars PROVE MirrorInv'
  OBVIOUS
<1>1. CASE StopCalls \/ UNCHANGED vars
  <2>1. UNCHANGED <<vectors, indices, pc, call, batch, left, todo, cur, seen>>
    BY <1>1 DEF StopCalls, vars, store, locals
  <2>2. ASSUME NEW t \in Threads PROVE Draws(t)'
    BY <2>1 DEF MirrorInv, Draws, Settling, DeadNew, LiveNodes, IsHnsw, Live
  <2>3. ASSUME NEW n \in Names PROVE Mirrors(n)'
    BY <2>1 DEF MirrorInv, Mirrors, Replaces, CatchesUp, DeadNoted, HnswOnceDrained, Owed, Owes, Live
  <2> QED
    BY <2>1, <2>2, <2>3 DEF MirrorInv
<1> QED
  BY <1>1, MirrorThread DEF Next, Rest

LEMMA MirrorInvariant ==
  ASSUME Libcxx \/ NoIvf
  PROVE  Spec => []MirrorInv
<1>1. Init => MirrorInv
  BY InitMirrors
<1> QED
  BY <1>1, MirrorStep, TypeInvariant, SearchInvariant, IndexInvariant, PTL DEF Spec

\* However the hooks of an add, which come after it has let go of vec_mutex_,
\* meet the hooks of removals, the builds of searches and add_index: the graph
\* of an hnsw index with its pending changes applied holds what the collection
\* holds, but for the ids an update is still busy with.
THEOREM HnswMissesNothing ==
  ASSUME Libcxx \/ NoIvf
  PROVE  Spec => []HnswCatchesUp
<1>1. TypeInv /\ IndexInv /\ MirrorInv => HnswCatchesUp
  <2> SUFFICES ASSUME TypeInv, IndexInv, MirrorInv, NEW n \in Installed, indices[n].kind = "hnsw",
                      NEW id \in Ids \ InFlight
               PROVE  HnswOnceDrained(indices[n])[id] = vectors[id]
    BY DEF HnswCatchesUp
  <2>1. n \in Names /\ indices[n] \in HnswIndex
    BY InstalledIndex, KindOf DEF TypeInv, Installed, Index
  <2> QED
    BY <2>1, OwedInFlight DEF MirrorInv, Mirrors, CatchesUp
<1> QED
  BY <1>1, MirrorInvariant, IndexInvariant, TypeInvariant, PTL

\* A search that has applied the pending changes of an hnsw index walks from
\* live node to live node: all that can make its .value() throw is an id that
\* the graph still leads to after build() has taken its node away.
THEOREM HnswWalksLiveNodes ==
  ASSUME Libcxx \/ NoIvf
  PROVE  Spec => []HnswNodesLive
<1>1. MirrorInv => HnswNodesLive
  BY DEF MirrorInv, Draws, LiveNodes, HnswNodesLive
<1> QED
  BY <1>1, MirrorInvariant, PTL

-----------------------------------------------------------------------------
(* Rebuilds of ivf_flat indices, when vectors are added but never removed:  *)
(* a removal can empty the collection between two looks at it.             *)

NoRemove == \A c \in Requests : c.op # "remove"

FilerLabels == {"ivfLoad", "ivfStore", "fileLock", "file"}

\* An index without the clusters it was asked for is owed all there is.
Unbuilt(n) == indices[n] \in IvfIndex /\ ~indices[n].built /\ indices[n].k # 0 /\ ~Rebuilding(n) =>
  \A id \in Live : Owed(n, id)

BuiltLive(n) == indices[n] \in IvfIndex /\ indices[n].built =>
  Live # {} /\ indices[n].k # 0 /\ ~Rebuilding(n)

\* A count that has reached the threshold was stored by a thread on its way to
\* the rebuild that sets it back.
Counted(n) == indices[n] \in IvfIndex /\ indices[n].since > 0 /\ indices[n].since >= Threshold =>
  \E t \in Threads : cur[t] = n /\ pc[t] = "buildLock"

\* Who found clusters, or finds them gone since, will have some to file into.
Files(t) == pc[t] \in FilerLabels =>
  Live # {} /\ indices[cur[t]].k # 0 /\ (indices[cur[t]].built \/ Rebuilding(cur[t]))

\* A build that somebody waits for to file into reads something.
Rebuilds(t) == pc[t] \in {"buildRead", "ixRead"} =>
  /\ left[t] \cup Present(seen[t]) \subseteq Live
  /\ pc[t] = "buildRead" /\ left[t] \cup Present(seen[t]) = {} =>
       \A u \in Threads : ~(pc[u] \in FilerLabels /\ cur[u] = cur[t])

RebuildInv == /\ \A t \in Threads : Files(t) /\ Rebuilds(t) /\ pc[t] # "undefined"
              /\ \A n \in Names : Unbuilt(n) /\ BuiltLive(n) /\ Counted(n)

LEMMA OneHolder ==
  ASSUME \A u \in Threads : LockOf(u), NEW t \in Threads, NEW u \in Threads,
         pc[t] \in MutexLabels, pc[u] \in MutexLabels, cur[t] = cur[u]
  PROVE  t = u
  BY DEF LockOf

LEMMA VectorsStay ==
  ASSUME TypeInv, NoRemove, NEW t \in Threads, Begin(t) \/ Step(t), CallOK(t)'
  PROVE  Live \subseteq Live'
<1> SUFFICES ASSUME NEW id \in Live, id \notin Live' PROVE FALSE
  OBVIOUS
<1>1. pc'[t] = "notify" /\ call'[t].op = "remove"
  BY Erased DEF Live, Present
<1> QED
  BY <1>1 DEF CallOK, NoRemove

LEMMA NothingThrown ==
  ASSUME TypeInv, NoRemove, NEW t \in Threads, LockOf(t)
  PROVE  ~BuildThrow(t)
<1> SUFFICES ASSUME BuildThrow(t) PROVE FALSE
  OBVIOUS
<1>1. pc[t] = "buildIds" /\ vec_mutex.w = t
  BY DEF BuildThrow
<1>2. call[t].op = "remove" /\ call[t] \in Requests
  BY <1>1 DEF LockOf, TypeInv, CallOK
<1> QED
  BY <1>2 DEF NoRemove

LEMMA BuiltSteps ==
  ASSUME TypeInv, NEW t \in Threads, Begin(t) \/ Step(t), NEW n \in Names, indices[n] \in IvfIndex
  PROVE  /\ \/ indices'[n].built = indices[n].built
            \/ n = cur[t] /\ (BuildLock(t) \/ BuildDone(t))
         /\ \/ indices'[n].since = indices[n].since
            \/ n = cur[t] /\ (IvfStore(t) \/ BuildLock(t))
         /\ indices'[n].k = indices[n].k
<1> USE DEF TypeInv, TypeOK
<1>1. CASE n # WritesAt(t)
  BY <1>1, WritesOne
<1>2. CASE n = WritesAt(t) /\ pc[t] = "ixRead"
  <2>1. n = call[t].name /\ indices[n] # Nil
    BY <1>2, IndexAssumption DEF WritesAt, Index
  <2> QED
    BY <1>2, <2>1, IxReadSteps DEF IxRead, ReadEach, IxInstall, store
<1>3. CASE n = WritesAt(t) /\ pc[t] \in HnswLabels
  BY <1>3, KindOf DEF WritesAt, HnswLabels, CursorOK
<1>4. CASE n = WritesAt(t) /\ pc[t] \in IvfLabels
  <2>1. n = cur[t]
    BY <1>4 DEF WritesAt, IvfLabels
  <2>2. CASE IvfStore(t) \/ FileOne(t) \/ IvfUnfile(t)
    BY <2>1, <2>2 DEF IvfStore, FileOne, IvfUnfile, SetIndex, IvfFiled, IvfUnfiled, IvfIndex, store
  <2>4. CASE BuildLock(t) \/ BuildDone(t)
    <3>1. CASE BuildLock(t)
      <4>1. indices'[n] = IvfCleared(indices[n])
        BY <2>1, <3>1 DEF BuildLock, SetIndex
      <4> QED
        BY <2>1, <3>1, <4>1 DEF IvfCleared, IvfIndex
    <3>2. CASE BuildDone(t)
      <4>1. indices'[n] = IvfRebuilt(indices[n], seen[t])
        BY <2>1, <3>2 DEF BuildDone, SetIndex
      <4> QED
        BY <2>1, <3>2, <4>1 DEF IvfRebuilt, IvfIndex
    <3> QED
      BY <2>4, <3>1, <3>2
  <2>3. CASE ~(IvfStore(t) \/ FileOne(t) \/ IvfUnfile(t) \/ BuildLock(t) \/ BuildDone(t))
    <3>1. CASE Begin(t) \/ Return(t) \/ Announce(t) \/ Update(t) \/ AddIndex(t)
      BY <1>4, <3>1 DEF Begin, Return, Announce, Update, AddWrite, RemErase, Notify, HookNext,
           HooksDone, HnswNote, AddIndex, IxLock, IxIds, IxRead, IxInstall, store, IvfLabels
    <3>2. CASE IvfHook(t)
      BY <2>3, <3>2 DEF IvfHook, IvfLoad, FileLock, FileDone, BuildIds, BuildThrow, BuildRead,
           ReadEach, store
    <3>3. CASE Search(t) \/ SvVec(t) \/ SvIdx(t) \/ GetParams(t)
      BY <1>4, <3>3 DEF Search, SeIdx, SeVec, EuIds, EuScan, EuTop, HnCheck, HnBuild, HnInsert,
           HnBuilt, HnRelock, HnKnn, IvProbe, Fetch, SeDone, SeEnd, SvVec, SvIdx, GetParams, store,
           IvfLabels
    <3> QED
      BY <3>1, <3>2, <3>3 DEF Step
  <2> QED
    BY <2>1, <2>2, <2>3, <2>4
<1>5. WritesAt(t) = Nil \/ pc[t] \in {"ixRead"} \cup HnswLabels \cup IvfLabels
  BY DEF WritesAt
<1> QED
  BY <1>1, <1>2, <1>3, <1>4, <1>5, NameAssumption

\* Where a thread that fills or rebuilds an ivf_flat index can have come from.
LEMMA IvfPlacesOf ==
  ASSUME TypeInv, NEW t \in Threads, Begin(t) \/ Step(t)
  PROVE  /\ pc'[t] = "ivfLoad" => HookNext(t)
         /\ pc'[t] \in FilerLabels \ {"ivfLoad"} =>
              pc[t] \in FilerLabels /\ cur'[t] = cur[t]
         /\ pc'[t] = "undefined" => FileOne(t)
         /\ pc'[t] = "buildIds" => BuildLock(t)
         /\ pc'[t] = "buildRead" => BuildIds(t) \/ BuildRead(t)
         /\ pc[t] \in {"buildIds", "buildRead"} => BuildIds(t) \/ BuildThrow(t) \/ BuildRead(t) \/ BuildDone(t)
<1> USE DEF TypeInv, TypeOK, FilerLabels
<1> DEFINE Places == FilerLabels \cup {"undefined", "buildIds", "buildRead"}
<1>1. CASE Begin(t)
  <2>1. PICK c \in Requests : Goto(t, First(c))
    BY <1>1 DEF Begin
  <2>2. First(c) \notin Places
    BY RequestAssumption DEF Request, Ops, First
  <2> QED
    BY <1>1, <2>1, <2>2 DEF Begin, Goto
<1>2. CASE Return(t) \/ SvVec(t) \/ SvIdx(t) \/ GetParams(t)
  BY <1>2 DEF Return, SvVec, SvIdx, GetParams, Reply, Goto
<1>3. CASE Announce(t)
  BY <1>3 DEF Announce, locals
<1>4. CASE Update(t)
  <2>1. CASE HookNext(t)
    <3>1. PICK n \in todo[t] : Goto(t, HookLabel(t, indices[n]))
      BY <2>1 DEF HookNext
    <3>2. n \in Names /\ indices[n] \in Index /\ call[t].op \in {"add", "remove"}
      BY <2>1, InstalledIndex DEF HookNext, CallOK, CursorOK, HookLabels
    <3>3. HookLabel(t, indices[n]) \notin Places \ {"ivfLoad"}
      BY <3>2, KindOf DEF HookLabel, Index, IvfIndex
    <3> QED
      BY <2>1, <3>1, <3>3 DEF Goto, HookNext
  <2>2. CASE AddWrite(t) \/ RemErase(t) \/ Notify(t) \/ HooksDone(t) \/ HnswNote(t)
    BY <2>2 DEF AddWrite, RemErase, Notify, HooksDone, HnswNote, Reply, Goto
  <2> QED
    BY <1>4, <2>1, <2>2 DEF Update
<1>5. CASE IvfLoad(t) \/ IvfStore(t) \/ FileLock(t)
  BY <1>5 DEF IvfLoad, IvfStore, FileLock, StartLoop, Goto
<1>6. CASE FileOne(t) \/ FileDone(t) \/ IvfUnfile(t)
  BY <1>6 DEF FileOne, FileDone, IvfUnfile, Goto, locals
<1>7. CASE BuildLock(t) \/ BuildThrow(t) \/ BuildDone(t)
  BY <1>7 DEF BuildLock, BuildThrow, BuildDone, Reply, Goto
<1>8. CASE BuildIds(t) \/ BuildRead(t)
  BY <1>8 DEF BuildIds, BuildRead, ReadIds, ReadEach, StartLoop, Goto
<1>9. CASE AddIndex(t)
  BY <1>9 DEF AddIndex, IxLock, IxIds, IxRead, IxInstall, ReadIds, StartLoop, ReadEach, Reply, Goto
<1>10. CASE SeIdx(t) \/ SeVec(t) \/ EuIds(t) \/ EuScan(t)
  <2>1. CASE SeVec(t)
    <3>1. call[t].name \in Names
      BY <2>1, RequestAssumption DEF SeVec, CallOK, Request
    <3>2. SearchLabel(indices[call[t].name]) \in {"euIds", "hnCheck", "ivProbe"}
      BY <3>1, KindOf DEF SearchLabel, Index
    <3> QED
      BY <2>1, <3>2 DEF SeVec, Goto
  <2> QED
    BY <1>10, <2>1 DEF SeIdx, EuIds, EuScan, ReadIds, ReadOrFail, SeEnd, StartLoop, Reply, Goto
<1>11. CASE EuTop(t) \/ HnCheck(t) \/ HnBuild(t) \/ HnInsert(t) \/ HnBuilt(t) \/ HnRelock(t)
  BY <1>11 DEF EuTop, HnCheck, HnBuild, HnInsert, HnBuilt, HnRelock, StartLoop, Goto
<1>12. CASE HnKnn(t) \/ IvProbe(t) \/ Fetch(t) \/ SeDone(t)
  BY <1>12 DEF HnKnn, IvProbe, Fetch, SeDone, ReadOrFail, SeEnd, StartLoop, Reply, Goto
<1> QED
  BY <1>1, <1>2, <1>3, <1>4, <1>5, <1>6, <1>7, <1>8, <1>9, <1>10, <1>11, <1>12 DEF Step, Search, IvfHook

\* A rebuild starts with BuildLock and ends with BuildDone.
LEMMA RebuildingSteps ==
  ASSUME TypeInv, NEW t \in Threads, Begin(t) \/ Step(t), Others(t), ~BuildThrow(t),
         \A u \in Threads : LockOf(u), NEW n \in Names
  PROVE  /\ n = cur[t] /\ BuildLock(t) => Rebuilding(n)'
         /\ n = cur[t] /\ BuildDone(t) => ~Rebuilding(n)'
         /\ ~(n = cur[t] /\ (BuildLock(t) \/ BuildDone(t))) => (Rebuilding(n)' <=> Rebuilding(n))
<1> USE DEF TypeInv, TypeOK
<1> DEFINE Builder(u) == cur[u] = n /\ pc[u] \in {"buildIds", "buildRead"}
<1>1. ASSUME NEW u \in Threads \ {t} PROVE Builder(u)' <=> Builder(u)
  BY DEF Others
<1>2. n = cur[t] /\ BuildLock(t) => Builder(t)'
  BY DEF BuildLock, Goto, locals
<1>3. n = cur[t] /\ BuildDone(t) => Builder(t) /\ ~Builder(t)'
  BY DEF BuildDone, Goto
<1>4. ~(n = cur[t] /\ (BuildLock(t) \/ BuildDone(t))) => (Builder(t)' <=> Builder(t))
  <2>1. CASE BuildIds(t) \/ BuildRead(t)
    BY <2>1 DEF BuildIds, BuildRead, ReadIds, ReadEach, StartLoop, Goto
  <2>2. CASE BuildLock(t) \/ BuildDone(t)
    BY <2>2 DEF BuildLock, BuildDone, Goto, locals
  <2>3. CASE ~(BuildIds(t) \/ BuildRead(t) \/ BuildLock(t) \/ BuildDone(t))
    BY <2>3, IvfPlacesOf
  <2> QED
    BY <2>1, <2>2, <2>3
<1>5. ASSUME Builder(t), NEW u \in Threads \ {t}, Builder(u) PROVE FALSE
  BY <1>5, OneHolder DEF MutexLabels
<1> QED
  BY <1>1, <1>2, <1>3, <1>4, <1>5 DEF Rebuilding

LEMMA HookOnBuilt ==
  ASSUME TypeInv, NEW t \in Threads, HookNext(t), pc'[t] = "ivfLoad"
  PROVE  \E n \in Names : cur'[t] = n /\ indices[n] \in IvfIndex /\ indices[n].built
<1> USE DEF TypeInv, TypeOK
<1>1. PICK n \in todo[t] : cur' = [cur EXCEPT ![t] = n] /\ Goto(t, HookLabel(t, indices[n]))
  BY DEF HookNext
<1>2. n \in Names /\ indices[n] \in Index /\ call[t].op \in {"add", "remove"}
  BY <1>1, InstalledIndex DEF HookNext, CallOK, CursorOK, HookLabels
<1>3. HookLabel(t, indices[n]) = "ivfLoad"
  BY <1>1 DEF Goto
<1>4. indices[n] \in IvfIndex /\ indices[n].built
  BY <1>2, <1>3, KindOf DEF HookLabel, Index, IvfIndex
<1> QED
  BY <1>1, <1>2, <1>4

\* What the end of a build makes of what it has read.
LEMMA BuildEnds ==
  ASSUME TypeInv, NEW t \in Threads, BuildDone(t), Rebuilds(t), NEW n, n = cur[t]
  PROVE  /\ pc[t] = "buildRead" /\ left[t] = {}
         /\ indices'[n].built = (indices[n].k # 0 /\ seen[t] # Empty)
         /\ seen[t] # Empty <=> Present(seen[t]) # {}
         /\ Present(seen[t]) \subseteq Live
<1> USE DEF TypeInv, TypeOK
<1>1. n \in Names /\ indices[n] \in IvfIndex
  BY DEF BuildDone, CursorOK, IvfLabels
<1>2. indices'[n].built = (indices[n].k # 0 /\ seen[t] # Empty)
  BY <1>1 DEF BuildDone, SetIndex, IvfRebuilt, IvfIndex, Clustered
<1>3. seen[t] # Empty <=> Present(seen[t]) # {}
  BY DEF Stored, Empty, Present
<1> QED
  BY <1>2, <1>3 DEF BuildDone, Rebuilds

LEMMA RebuildsStep ==
  ASSUME TypeInv, NEW t \in Threads, Begin(t) \/ Step(t), Others(t), Live \subseteq Live',
         \A v \in Threads : Files(v), \A n \in Names : BuiltLive(n),
         NEW u \in Threads, Rebuilds(u)
  PROVE  Rebuilds(u)'
<1> USE DEF TypeInv, TypeOK
<1>1. CASE u # t
  <2>1. pc'[u] = pc[u] /\ cur'[u] = cur[u] /\ left'[u] = left[u] /\ seen'[u] = seen[u]
    BY <1>1 DEF Others
  <2>2. ASSUME pc[u] = "buildRead", left[u] \cup Present(seen[u]) = {},
               NEW v \in Threads, pc'[v] \in FilerLabels, cur'[v] = cur[u]
        PROVE  FALSE
    <3>1. ~(pc[v] \in FilerLabels /\ cur[v] = cur[u])
      BY <2>2 DEF Rebuilds
    <3>2. v = t /\ pc'[t] = "ivfLoad" /\ HookNext(t)
      BY <2>2, <3>1, IvfPlacesOf DEF Others
    <3>3. PICK n \in Names : cur[u] = n /\ indices[n] \in IvfIndex /\ indices[n].built
      BY <2>2, <3>2, HookOnBuilt
    <3> QED
      BY <2>2, <3>3 DEF BuiltLive, Rebuilding
  <2> QED
    BY <2>1, <2>2 DEF Rebuilds, Present
<1>2. CASE u = t /\ (IxIds(t) \/ BuildIds(t))
  <2>1. /\ left'[t] = Live /\ seen'[t] = Empty /\ Live' = Live /\ cur' = cur
        /\ pc'[t] \notin FilerLabels
    BY <1>2, LiveType DEF IxIds, BuildIds, ReadIds, StartLoop, Goto, store, Live, FilerLabels
  <2>2. Present(seen'[t]) = {}
    BY <2>1 DEF Present, Empty
  <2>3. ASSUME Live = {}, NEW v \in Threads, pc'[v] \in FilerLabels PROVE FALSE
    <3>1. pc[v] \in FilerLabels
      BY <2>1, <2>3 DEF Others
    <3> QED
      BY <2>3, <3>1 DEF Files
  <2> QED
    BY <1>2, <2>1, <2>2, <2>3 DEF Rebuilds, Present
<1>3. CASE u = t /\ (IxRead(t) \/ BuildRead(t))
  <2>1. PICK d \in left[t] : ReadNext(t, d) /\ Keep(t, d)
    BY <1>3 DEF IxRead, BuildRead, ReadEach
  <2>2. left[t] \cup Present(seen[t]) \subseteq Live /\ d \in Live
    BY <1>3, <2>1 DEF IxRead, BuildRead, Rebuilds
  <2>3. left'[t] = left[t] \ {d} /\ seen'[t] \in Stored /\ seen'[t][d] = vectors[d]
    BY <2>1 DEF ReadNext, Keep, Stored
  <2>4. \A id \in Ids : seen'[t][id] \in {seen[t][id], vectors[id]}
    BY <2>1 DEF Keep, Stored
  <2>5. Present(seen'[t]) \subseteq Live /\ d \in Present(seen'[t])
    BY <2>2, <2>3, <2>4 DEF Present, Live
  <2> QED
    BY <1>3, <2>2, <2>3, <2>5 DEF Rebuilds, Present
<1>4. CASE u = t /\ ~(IxIds(t) \/ BuildIds(t) \/ IxRead(t) \/ BuildRead(t))
  BY <1>4, PlacesOf, IvfPlacesOf DEF Rebuilds
<1> QED
  BY <1>1, <1>2, <1>3, <1>4

LEMMA FilesStep ==
  ASSUME TypeInv, NEW t \in Threads, Begin(t) \/ Step(t), Others(t), ~BuildThrow(t),
         Live \subseteq Live', \A v \in Threads : LockOf(v), \A n \in Names : BuiltLive(n),
         Rebuilds(t), NEW u \in Threads, Files(u)
  PROVE  Files(u)'
<1> SUFFICES ASSUME pc'[u] \in FilerLabels PROVE Files(u)'
  BY DEF Files
<1>1. CASE u = t /\ pc'[t] = "ivfLoad"
  <2>1. HookNext(t)
    BY <1>1, IvfPlacesOf
  <2>2. PICK n \in Names : cur'[t] = n /\ indices[n] \in IvfIndex /\ indices[n].built
    BY <1>1, <2>1, HookOnBuilt
  <2>3. indices' = indices /\ Live # {} /\ Live' # {} /\ indices[n].k # 0
    BY <2>1, <2>2 DEF HookNext, store, BuiltLive
  <2> QED
    BY <1>1, <2>2, <2>3 DEF Files
<1>2. CASE ~(u = t /\ pc'[t] = "ivfLoad")
  <2>1. PICK n : n = cur[u]
    OBVIOUS
  <2>2. pc[u] \in FilerLabels /\ cur'[u] = n
    BY <1>2, <2>1, IvfPlacesOf DEF Others
  <2>3. n \in Names /\ indices[n] \in IvfIndex
    BY <2>1, <2>2 DEF TypeInv, CursorOK, IvfLabels, FilerLabels
  <2>4. Live' # {} /\ indices[n].k # 0 /\ (indices[n].built \/ Rebuilding(n))
    BY <2>1, <2>2 DEF Files
  <2>5. indices'[n].built \/ Rebuilding(n)'
    <3>1. CASE n = cur[t] /\ BuildLock(t)
      BY <2>3, <3>1, RebuildingSteps
    <3>2. CASE n = cur[t] /\ BuildDone(t)
      BY <2>1, <2>2, <2>4, <3>2, BuildEnds DEF Rebuilds
    <3>3. CASE ~(n = cur[t] /\ (BuildLock(t) \/ BuildDone(t)))
      BY <2>3, <2>4, <3>3, RebuildingSteps, BuiltSteps
    <3> QED
      BY <3>1, <3>2, <3>3
  <2>6. \/ indices'[cur'[u]].built
        \/ \E v \in Threads : cur'[v] = cur'[u] /\ pc'[v] \in {"buildIds", "buildRead"}
    BY <2>2, <2>5 DEF Rebuilding
  <2>7. indices'[cur'[u]].k # 0
    BY <2>2, <2>3, <2>4, BuiltSteps
  <2> QED
    BY <2>4, <2>6, <2>7 DEF Files, Rebuilding
<1> QED
  BY <1>1, <1>2

LEMMA DefinedStep ==
  ASSUME TypeInv, NEW t \in Threads, Begin(t) \/ Step(t), Others(t), \A v \in Threads : LockOf(v),
         Files(t), NEW u \in Threads, pc[u] # "undefined"
  PROVE  pc'[u] # "undefined"
<1> SUFFICES ASSUME pc'[u] = "undefined" PROVE FALSE
  OBVIOUS
<1>1. u = t /\ FileOne(t)
  BY IvfPlacesOf DEF Others
<1>2. pc[t] = "file" /\ ~indices[cur[t]].built
  BY <1>1 DEF FileOne, Goto, TypeInv, TypeOK
<1>3. PICK v \in Threads : cur[v] = cur[t] /\ pc[v] \in {"buildIds", "buildRead"}
  BY <1>2 DEF Files, FilerLabels, Rebuilding
<1> QED
  BY <1>2, <1>3, OneHolder DEF MutexLabels

\* A new ivf_flat index has clusters if it is to have any and something was read for it.
LEMMA NewIvf ==
  ASSUME TypeInv, NEW t \in Threads, IxInstall(t), NEW n \in Names, n = call[t].name,
         indices[n] = Nil, indices'[n] \in IvfIndex
  PROVE  /\ indices'[n].built = (indices'[n].k # 0 /\ seen[t] # Empty) /\ indices'[n].since = 0
         /\ left[t] = {} /\ pc[t] = "ixRead"
         /\ seen[t] # Empty <=> Present(seen[t]) # {}
<1> USE DEF TypeInv, TypeOK
<1>1. indices'[n] = Fresh(call[t], seen[t]) /\ seen[t] \in Stored /\ call[t].kind \in Kinds
  BY DEF IxInstall, CallOK
<1>2. call[t].kind = "ivf_flat"
  BY <1>1, CallParams, FreshTypes, KindOf DEF Kinds
<1>3. indices'[n].built = (indices'[n].k # 0 /\ seen[t] # Empty) /\ indices'[n].since = 0
  BY <1>1, <1>2 DEF Fresh, IvfOf, Clustered
<1>4. seen[t] # Empty <=> Present(seen[t]) # {}
  BY <1>1 DEF Stored, Empty, Present
<1> QED
  BY <1>3, <1>4 DEF IxInstall

LEMMA BuiltLiveStep ==
  ASSUME TypeInv, NEW t \in Threads, Begin(t) \/ Step(t), StepOK(t), ~BuildThrow(t),
         Live \subseteq Live', \A v \in Threads : LockOf(v), Rebuilds(t),
         NEW n \in Names, BuiltLive(n)
  PROVE  BuiltLive(n)'
<1> SUFFICES ASSUME indices'[n] \in IvfIndex, indices'[n].built
             PROVE  Live' # {} /\ indices'[n].k # 0 /\ ~Rebuilding(n)'
  BY DEF BuiltLive
<1>1. Others(t) /\ KindsStay
  BY DEF StepOK
<1>2. CASE indices[n] \in IvfIndex
  <2>1. CASE n = cur[t] /\ BuildLock(t)
    <3>1. indices'[n] = IvfCleared(indices[n])
      BY <2>1 DEF BuildLock, SetIndex, TypeInv, TypeOK
    <3> QED
      BY <1>2, <3>1 DEF IvfCleared, IvfIndex
  <2>2. CASE n = cur[t] /\ BuildDone(t)
    <3>1. indices[n].k # 0 /\ Present(seen[t]) # {} /\ Present(seen[t]) \subseteq Live
      BY <2>2, BuildEnds
    <3>2. ~Rebuilding(n)' /\ indices'[n].k = indices[n].k
      BY <1>1, <1>2, <2>2, RebuildingSteps, BuiltSteps
    <3> QED
      BY <3>1, <3>2
  <2>3. CASE ~(n = cur[t] /\ (BuildLock(t) \/ BuildDone(t)))
    BY <1>1, <1>2, <2>3, BuiltSteps, RebuildingSteps DEF BuiltLive
  <2> QED
    BY <2>1, <2>2, <2>3
<1>3. CASE indices[n] = Nil
  <2>1. IxInstall(t) /\ n = call[t].name
    BY <1>3, NilStays, IndexAssumption DEF Index
  <2>2. Live' # {} /\ indices'[n].k # 0
    <3>1. Present(seen[t]) # {} /\ pc[t] = "ixRead" /\ indices'[n].k # 0
      BY <1>3, <2>1, NewIvf
    <3> QED
      BY <3>1 DEF Rebuilds
  <2>3. ~Rebuilding(n) /\ ~(n = cur[t] /\ (BuildLock(t) \/ BuildDone(t)))
    BY <1>3, IndexAssumption DEF Rebuilding, TypeInv, CursorOK, IvfLabels, BuildLock, BuildDone, Index
  <2> QED
    BY <1>1, <2>2, <2>3, RebuildingSteps
<1>4. CASE indices[n] \in HnswIndex
  BY <1>1, <1>4, KindOf DEF KindsStay
<1> QED
  BY <1>2, <1>3, <1>4 DEF TypeInv, TypeOK, Index

\* A thread at buildLock can only ask for the lock, or have it.
LEMMA BuildLockSteps ==
  ASSUME NEW t \in Threads, Begin(t) \/ Step(t), pc[t] = "buildLock"
  PROVE  Announce(t) \/ BuildLock(t)
  BY DEF Begin, Step, Return, Update, AddWrite, RemErase, Notify, HookNext,
         HooksDone, HnswNote, IvfHook, IvfLoad, IvfStore, FileLock, FileOne, FileDone, IvfUnfile,
         BuildIds, BuildThrow, BuildRead, BuildDone, AddIndex, IxLock, IxIds, IxRead, IxInstall,
         Search, SeIdx, SeVec, EuIds, EuScan, EuTop, HnCheck, HnBuild, HnInsert, HnBuilt,
         HnRelock, HnKnn, IvProbe, Fetch, SeDone, SvVec, SvIdx, GetParams

LEMMA BuildLockWaits ==
  ASSUME NEW t \in Threads, Begin(t) \/ Step(t), pc[t] = "buildLock", ~BuildLock(t)
  PROVE  pc'[t] = "buildLock" /\ cur'[t] = cur[t]
  BY BuildLockSteps DEF Announce, locals

LEMMA UnbuiltStep ==
  ASSUME TypeInv, NEW t \in Threads, Begin(t) \/ Step(t), StepOK(t), Kept(t), ~BuildThrow(t),
         \A v \in Threads : LockOf(v), Files(t), Rebuilds(t), ReadsBuild(t), ReadsNew(t),
         NEW n \in Names, Unbuilt(n), BuiltLive(n)
  PROVE  Unbuilt(n)'
<1> SUFFICES ASSUME indices'[n] \in IvfIndex, ~indices'[n].built, indices'[n].k # 0,
                    ~Rebuilding(n)', NEW id \in Live'
             PROVE  Owed(n, id)'
  BY DEF Unbuilt, Owed, Live, Present
<1>1. Others(t) /\ KindsStay /\ id \in Ids
  BY DEF StepOK, Live, Present
<1>2. CASE vectors'[id] # vectors[id]
  BY <1>1, <1>2, WrittenOwed
<1>3. CASE vectors'[id] = vectors[id] /\ indices[n] \in IvfIndex
  <2>1. id \in Live /\ vectors[id] # Nil /\ n \in Installed
    BY <1>1, <1>3, InstalledIndex DEF Live, Present, TypeInv, Index
  <2>2. ~(n = cur[t] /\ BuildLock(t))
    BY <1>1, RebuildingSteps
  <2>3. Owed(n, id)
    <3>1. CASE n = cur[t] /\ BuildDone(t)
      <4>1. pc[t] = "buildRead" /\ left[t] = {} /\ seen[t] = Empty
        BY <1>3, <3>1, BuildEnds, BuiltSteps
      <4>2. seen[t][id] = Nil
        BY <1>1, <4>1 DEF Empty
      <4> QED
        BY <2>1, <3>1, <4>1, <4>2 DEF ReadsBuild
    <3>2. CASE ~(n = cur[t] /\ BuildDone(t))
      BY <1>1, <1>3, <2>1, <2>2, <3>2, BuiltSteps, RebuildingSteps DEF Unbuilt
    <3> QED
      BY <3>1, <3>2
  <2>4. CASE Announce(t)
    BY <2>3, <2>4 DEF Announce, locals, Owed, Owes
  <2>5. CASE ~Announce(t)
    <3>1. ~(cur[t] = n /\ HnswNote(t))
      BY <1>3, KindOf DEF HnswNote, TypeInv, CursorOK, HnswLabels
    <3>2. ~(cur[t] = n /\ pc[t] = "file")
      <4> SUFFICES ASSUME cur[t] = n, pc[t] = "file" PROVE FALSE
        OBVIOUS
      <4>1. ~Rebuilding(n)
        BY OneHolder DEF Rebuilding, MutexLabels
      <4>2. indices[n].built
        BY <4>1 DEF Files, FilerLabels
      <4> QED
        BY <1>3, <4>2, BuiltSteps DEF BuildLock, BuildDone
    <3>3. ~(cur[t] = n /\ pc[t] = "buildLock")
      BY <2>2, <2>5, BuildLockSteps
    <3> QED
      BY <1>1, <2>1, <2>3, <3>1, <3>2, <3>3, OwedKept
  <2> QED
    BY <2>4, <2>5
<1>4. CASE vectors'[id] = vectors[id] /\ indices[n] = Nil
  <2>1. IxInstall(t) /\ n = call[t].name
    BY <1>4, NilStays, IndexAssumption DEF Index
  <2>2. seen[t] = Empty /\ left[t] = {} /\ pc[t] = "ixRead"
    BY <1>4, <2>1, NewIvf
  <2>3. vectors[id] # Nil /\ seen[t][id] = Nil
    BY <1>1, <1>4, <2>2 DEF Live, Present, Empty
  <2>4. Announced(id) /\ idx_mutex.w \in Threads
    BY <1>1, <2>2, <2>3 DEF ReadsNew, LockOf
  <2>5. Announced(id)'
    BY <1>1, <2>4, AnnouncedStays
  <2> QED
    BY <2>5 DEF Announced, Owed, Owes
<1>5. CASE indices[n] \in HnswIndex
  BY <1>1, <1>5, KindOf DEF KindsStay
<1> QED
  BY <1>2, <1>3, <1>4, <1>5 DEF TypeInv, TypeOK, Index

LEMMA CountedStep ==
  ASSUME TypeInv, NEW t \in Threads, Begin(t) \/ Step(t), StepOK(t), NEW n \in Names, Counted(n)
  PROVE  Counted(n)'
<1> SUFFICES ASSUME indices'[n] \in IvfIndex, indices'[n].since > 0, indices'[n].since >= Threshold
             PROVE  \E u \in Threads : cur'[u] = n /\ pc'[u] = "buildLock"
  BY DEF Counted
<1>1. Others(t) /\ KindsStay
  BY DEF StepOK
<1>2. CASE indices[n] \in IvfIndex
  <2>1. CASE n = cur[t] /\ IvfStore(t)
    <3>1. indices[n].since \in Nat /\ since_read[t] + Cardinality(batch[t]) = indices'[n].since
      BY <1>2, <2>1 DEF IvfStore, SetIndex, TypeInv, TypeOK, IvfIndex
    <3>2. pc'[t] = "buildLock" /\ cur'[t] = n
      BY <2>1, <3>1 DEF IvfStore, Goto, TypeInv, TypeOK
    <3> QED
      BY <3>2
  <2>2. CASE n = cur[t] /\ BuildLock(t)
    <3>1. indices'[n] = IvfCleared(indices[n])
      BY <2>2 DEF BuildLock, SetIndex, TypeInv, TypeOK
    <3> QED
      BY <1>2, <3>1 DEF IvfCleared, IvfIndex
  <2>3. CASE ~(n = cur[t] /\ (IvfStore(t) \/ BuildLock(t)))
    <3>1. indices'[n].since = indices[n].since
      BY <1>2, <2>3, BuiltSteps
    <3>2. PICK u \in Threads : cur[u] = n /\ pc[u] = "buildLock"
      BY <1>2, <3>1 DEF Counted
    <3>3. CASE u # t
      BY <1>1, <3>2, <3>3 DEF Others
    <3>4. CASE u = t
      BY <2>3, <3>2, <3>4, BuildLockWaits
    <3> QED
      BY <3>3, <3>4
  <2> QED
    BY <2>1, <2>2, <2>3
<1>3. CASE indices[n] = Nil
  <2>1. IxInstall(t) /\ n = call[t].name
    BY <1>3, NilStays, IndexAssumption DEF Index
  <2> QED
    BY <1>3, <2>1, NewIvf
<1>4. CASE indices[n] \in HnswIndex
  BY <1>1, <1>4, KindOf DEF KindsStay
<1> QED
  BY <1>2, <1>3, <1>4 DEF TypeInv, TypeOK, Index

LEMMA InitRebuild ==
  ASSUME Init
  PROVE  RebuildInv
<1>1. ASSUME NEW t \in Threads PROVE Files(t) /\ Rebuilds(t) /\ pc[t] # "undefined"
  BY DEF Init, Files, Rebuilds, FilerLabels
<1>2. ASSUME NEW n \in Names PROVE Unbuilt(n) /\ BuiltLive(n) /\ Counted(n)
  <2>1. vectors \in Stored /\ indices[n] = IF Loaded[n] = Nil THEN Nil ELSE Fresh(Loaded[n], vectors)
    BY DEF Init
  <2>2. indices[n] \in IvfIndex =>
          (indices[n].built <=> indices[n].k # 0 /\ vectors # Empty) /\ indices[n].since = 0
    <3>1. indices[n] \in IvfIndex => indices[n] = IvfOf(Loaded[n].k, vectors)
      BY <2>1, LoadedTypes, KindOf, IndexAssumption DEF Fresh, Index
    <3> QED
      BY <3>1, IvfOfBuilt
  <2>3. vectors # Empty <=> Live # {}
    BY <2>1 DEF Stored, Empty, Live, Present
  <2>4. ~Rebuilding(n)
    BY DEF Init, Rebuilding
  <2> QED
    BY <2>2, <2>3, <2>4 DEF Unbuilt, BuiltLive, Counted
<1> QED
  BY <1>1, <1>2 DEF RebuildInv

LEMMA RebuildThread ==
  ASSUME NoRemove, TypeInv, IndexInv, RebuildInv, NEW t \in Threads, Begin(t) \/ Step(t)
  PROVE  RebuildInv'
<1>1. StepOK(t) /\ Others(t) /\ CallOK(t)'
  BY ThreadStep DEF StepOK
<1>2. /\ \A u \in Threads : LockOf(u) /\ Files(u) /\ Rebuilds(u) /\ pc[u] # "undefined"
      /\ \A n \in Names : Unbuilt(n) /\ BuiltLive(n) /\ Counted(n)
      /\ LockOf(t) /\ BatchOf(t) /\ ReadsBuild(t) /\ ReadsNew(t)
  BY DEF IndexInv, Works, RebuildInv
<1>3. Kept(t) /\ ~BuildThrow(t) /\ Live \subseteq Live'
  BY <1>1, <1>2, KeptStep, NothingThrown, VectorsStay
<1>4. ASSUME NEW u \in Threads PROVE Files(u)' /\ Rebuilds(u)' /\ pc'[u] # "undefined"
  BY <1>1, <1>2, <1>3, FilesStep, RebuildsStep, DefinedStep
<1>5. ASSUME NEW n \in Names PROVE Unbuilt(n)' /\ BuiltLive(n)' /\ Counted(n)'
  BY <1>1, <1>2, <1>3, UnbuiltStep, BuiltLiveStep, CountedStep
<1> QED
  BY <1>4, <1>5 DEF RebuildInv

LEMMA RebuildStep ==
  ASSUME NoRemove
  PROVE  TypeInv /\ IndexInv /\ RebuildInv /\ [Next]_vars => RebuildInv'
<1> SUFFICES ASSUME TypeInv, IndexInv, RebuildInv, [Next]_vars PROVE RebuildInv'
  OBVIOUS
<1>1. CASE StopCalls \/ UNCHANGED vars
  <2>1. UNCHANGED <<vectors, indices, pc, call, batch, left, todo, cur, seen>>
    BY <1>1 DEF StopCalls, vars, store, locals
  <2>2. ASSUME NEW t \in Threads PROVE Files(t)' /\ Rebuilds(t)' /\ pc'[t] # "undefined"
    BY <2>1 DEF RebuildInv, Files, Rebuilds, Rebuilding, Live
  <2>3. ASSUME NEW n \in Names PROVE Unbuilt(n)' /\ BuiltLive(n)' /\ Counted(n)'
    BY <2>1 DEF RebuildInv, Unbuilt, BuiltLive, Counted, Rebuilding, Owed, Owes, Live
  <2> QED
    BY <2>2, <2>3 DEF RebuildInv
<1> QED
  BY <1>1, RebuildThread DEF Next, Rest

LEMMA RebuildInvariant ==
  ASSUME NoRemove
  PROVE  Spec => []RebuildInv
<1>1. Init => RebuildInv
  BY InitRebuild
<1> QED
  BY <1>1, RebuildStep, TypeInvariant, IndexInvariant, PTL DEF Spec

\* As long as vectors are only added, an ivf_flat index that was asked for any
\* clusters has some, or is being rebuilt, as soon as the collection has a vector no
\* update is busy with: the index is never left empty by two updates that both take
\* it to be the other's to rebuild.  And a count of changes that has reached
\* rebuild_threshold_ always has a thread about to rebuild (on_vectors_added and
\* build of ivfflat.cpp).
THEOREM IvfIsRebuilt ==
  ASSUME NoRemove
  PROVE  Spec => []IvfRebuilds
<1>1. TypeInv /\ IndexInv /\ RebuildInv => IvfRebuilds
  <2> SUFFICES ASSUME TypeInv, IndexInv, RebuildInv, NEW n \in Installed, indices[n].kind = "ivf_flat"
               PROVE  /\ ~indices[n].built /\ indices[n].k # 0 /\ ~Rebuilding(n) => Live \subseteq InFlight
                      /\ indices[n].since > 0 /\ indices[n].since >= Threshold =>
                           \E t \in Threads : cur[t] = n /\ pc[t] = "buildLock"
    BY DEF IvfRebuilds
  <2>1. n \in Names /\ indices[n] \in IvfIndex
    BY InstalledIndex, KindOf DEF TypeInv, Installed, Index
  <2>2. ASSUME ~indices[n].built, indices[n].k # 0, ~Rebuilding(n), NEW id \in Live
        PROVE  id \in InFlight
    <3>1. Owed(n, id)
      BY <2>1, <2>2 DEF RebuildInv, Unbuilt
    <3> QED
      BY <3>1, OwedInFlight
  <2>3. Counted(n)
    BY <2>1 DEF RebuildInv
  <2> QED
    BY <2>1, <2>2, <2>3 DEF Counted
<1> QED
  BY <1>1, RebuildInvariant, IndexInvariant, TypeInvariant, PTL

\* As long as vectors are only added, no add files a vector into clusters that
\* are gone, although it looked for them before it had mutex_: whoever took
\* them away has put new ones there by the time it lets go of mutex_.
THEOREM FilesIntoClusters ==
  ASSUME NoRemove
  PROVE  Spec => []NoUndefined
<1>1. RebuildInv => NoUndefined
  BY DEF RebuildInv, NoUndefined
<1> QED
  BY <1>1, RebuildInvariant, PTL
==============================================================================
