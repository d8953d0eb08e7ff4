----------------------------- MODULE CircleProofs -----------------------------
(***************************************************************************)
(* Which calls of a collection can wait for each other for ever, for any   *)
(* number of threads and indices and for any mix of calls.                 *)
(***************************************************************************)
EXTENDS StoreProofs

-----------------------------------------------------------------------------
(* Where in its code a thread can be when it holds a lock.                 *)

AnnounceLabels == {"hnswNote", "ivfUnfile", "fileLock", "buildLock", "hnBuild"}

VecReaders == Reading \cup {"svIdx"}
IdxReaders == (HookLabels \ {"notify"}) \cup {"seVec"} \cup Reading
MutexReadLabels == {"hnKnn", "fetch"}

HoldsVec(t) == t \in vec_mutex.r => pc[t] \in VecReaders

HoldsIdx(t) ==
  /\ t \in idx_mutex.r => pc[t] \in IdxReaders
  /\ idx_mutex.w = t => pc[t] \in {"ixLock", "ixIds", "ixRead"} /\ call[t].kind # "unknown"

HoldsMutex(t) == \A n \in Names :
  /\ mutex[n].w = t => cur[t] = n /\ pc[t] \in AnnounceLabels \cup MutexLabels
  /\ t \in mutex[n].r => cur[t] = n /\ pc[t] \in MutexReadLabels

\* A removal never files, and it never reads what it rebuilds from: it would have
\* to share the lock it holds.
FilesForAdd(t) == pc[t] \in {"fileLock", "file", "buildRead"} => call[t].op = "add"

Holds(t) == HoldsVec(t) /\ HoldsIdx(t) /\ HoldsMutex(t) /\ FilesForAdd(t)

HoldsInv == \A t \in Threads : Holds(t)

\* What a step of t does to a lock it does to its own hold on it.
Touches(m, m1, t) == m1 \in {m, Lock(m, t), Unlock(m), Share(m, t), Unshare(m, t)}

TouchesAll(t) ==
  /\ Touches(vec_mutex, vec_mutex', t)
  /\ Touches(idx_mutex, idx_mutex', t)
  /\ \A n \in Names : Touches(mutex[n], mutex'[n], t)

LEMMA TouchesOne ==
  ASSUME NEW m \in Mutex(Threads), NEW t \in Threads, NEW m1, Touches(m, m1, t), NEW u \in Threads \ {t}
  PROVE  /\ u \in m1.r => u \in m.r
         /\ m1.w = u => m.w = u
  BY ThreadAssumption DEF Touches, Mutex, Lock, Unlock, Share, Unshare

LEMMA HoldsOthers ==
  ASSUME TypeInv, NEW t \in Threads, NEW u \in Threads \ {t}, TouchesAll(t), Others(t), Holds(u)
  PROVE  Holds(u)'
<1>1. pc'[u] = pc[u] /\ call'[u] = call[u] /\ cur'[u] = cur[u]
  BY DEF Others
<1>2. /\ u \in vec_mutex'.r => u \in vec_mutex.r
      /\ u \in idx_mutex'.r => u \in idx_mutex.r
      /\ idx_mutex'.w = u => idx_mutex.w = u
  BY TouchesOne DEF TypeInv, TypeOK, TouchesAll
<1>3. ASSUME NEW n \in Names
      PROVE  /\ mutex'[n].w = u => mutex[n].w = u
             /\ u \in mutex'[n].r => u \in mutex[n].r
  BY TouchesOne DEF TypeInv, TypeOK, TouchesAll
<1> QED
  BY <1>1, <1>2, <1>3 DEF Holds, HoldsVec, HoldsIdx, HoldsMutex, FilesForAdd

LEMMA TouchesStep ==
  ASSUME TypeInv, NEW t \in Threads, Begin(t) \/ Step(t)
  PROVE  TouchesAll(t)
<1> USE DEF TypeInv, TypeOK
<1>1. ASSUME UNCHANGED locks PROVE TouchesAll(t)
  BY <1>1 DEF TouchesAll, Touches, locks
<1>2. ASSUME UNCHANGED mutex,
             Touches(vec_mutex, vec_mutex', t), Touches(idx_mutex, idx_mutex', t)
      PROVE  TouchesAll(t)
  BY <1>2 DEF TouchesAll, Touches
<1>3. ASSUME Touches(vec_mutex, vec_mutex', t), Touches(idx_mutex, idx_mutex', t), cur[t] \in Names,
             NEW m1, Touches(mutex[cur[t]], m1, t), mutex' = [mutex EXCEPT ![cur[t]] = m1]
      PROVE  TouchesAll(t)
  BY <1>3 DEF TouchesAll, Touches
<1>4. CASE Begin(t) \/ Return(t) \/ GetParams(t)
  BY <1>1, <1>4 DEF Begin, Return, GetParams
<1>5. CASE SvVec(t) \/ SvIdx(t)
  BY <1>2, <1>5 DEF SvVec, SvIdx, Touches
<1>6. CASE Announce(t)
  <2>1. CASE UNCHANGED mutex
    BY <1>2, <1>6, <2>1 DEF Announce, Touches, LockCur
  <2>2. CASE pc[t] \in AnnounceLabels
    <3>1. cur[t] \in Names /\ mutex' = [mutex EXCEPT ![cur[t]] = Lock(mutex[cur[t]], t)]
          /\ UNCHANGED <<vec_mutex, idx_mutex>>
      BY <1>6, <2>2 DEF Announce, LockCur, AnnounceLabels, CursorOK, HnswLabels, IvfLabels
    <3> QED
      BY <1>3, <3>1 DEF Touches
  <2> QED
    BY <1>6, <2>1, <2>2 DEF Announce, AnnounceLabels
<1>7. CASE Update(t)
  <2>1. CASE HnswNote(t)
    BY <1>3, <2>1 DEF HnswNote, UnlockCur, CursorOK, HnswLabels, Touches
  <2>2. CASE ~HnswNote(t)
    BY <1>2, <1>7, <2>2 DEF Update, AddWrite, RemErase, Notify, HookNext, HooksDone, Touches, locks
  <2> QED
    BY <2>1, <2>2
<1>8. CASE IvfHook(t)
  <2>1. cur[t] \in Names
    BY <1>8 DEF IvfHook, IvfLoad, IvfStore, FileLock, FileOne, FileDone, IvfUnfile, BuildLock,
                BuildIds, BuildThrow, BuildRead, BuildDone, CursorOK, IvfLabels
  <2>2. CASE FileLock(t) \/ FileDone(t) \/ IvfUnfile(t) \/ BuildLock(t) \/ BuildDone(t) \/ BuildThrow(t)
    <3>1. /\ Touches(vec_mutex, vec_mutex', t) /\ Touches(idx_mutex, idx_mutex', t)
          /\ LockCur(t) \/ UnlockCur(t)
      BY <2>2 DEF FileLock, FileDone, IvfUnfile, BuildLock, BuildDone, BuildThrow, Touches
    <3> QED
      BY <1>3, <2>1, <3>1 DEF LockCur, UnlockCur, Touches
  <2>3. CASE IvfLoad(t) \/ IvfStore(t) \/ FileOne(t) \/ BuildIds(t) \/ BuildRead(t)
    BY <1>1, <2>3 DEF IvfLoad, IvfStore, FileOne, BuildIds, BuildRead, ReadEach
  <2> QED
    BY <1>8, <2>2, <2>3 DEF IvfHook
<1>9. CASE AddIndex(t)
  BY <1>2, <1>9 DEF AddIndex, IxLock, IxIds, IxRead, ReadEach, IxInstall, Touches, locks
<1>10. CASE Search(t)
  <2>1. ASSUME NEW a, SeEnd(t, a) PROVE TouchesAll(t)
    BY <2>1 DEF SeEnd, TouchesAll, Touches
  <2>2. CASE SeIdx(t) \/ SeVec(t)
    BY <1>2, <2>2 DEF SeIdx, SeVec, Touches
  <2>3. CASE EuIds(t) \/ EuTop(t) \/ HnInsert(t) \/ HnKnn(t)
    BY <1>1, <2>3 DEF EuIds, EuTop, HnInsert, HnKnn
  <2>4. CASE EuScan(t) \/ Fetch(t) \/ SeDone(t)
    BY <1>1, <2>1, <2>4 DEF EuScan, Fetch, SeDone, ReadOrFail
  <2>5. CASE HnCheck(t) \/ HnBuild(t) \/ HnBuilt(t) \/ HnRelock(t) \/ IvProbe(t)
    <3>1. cur[t] \in Names
      BY <2>5 DEF HnCheck, HnBuild, HnBuilt, HnRelock, IvProbe, CursorOK, HnswLabels, IvfLabels
    <3>2. CASE UNCHANGED locks
      BY <1>1, <3>2
    <3>3. CASE /\ UNCHANGED <<vec_mutex, idx_mutex>>
               /\ \E m1 : Touches(mutex[cur[t]], m1, t) /\ mutex' = [mutex EXCEPT ![cur[t]] = m1]
      BY <1>3, <3>1, <3>3 DEF Touches
    <3> QED
      BY <2>1, <2>5, <3>2, <3>3 DEF HnCheck, HnBuild, HnBuilt, HnRelock, IvProbe, LockCur, UnlockCur,
                                    Touches, locks
  <2> QED
    BY <1>10, <2>2, <2>3, <2>4, <2>5 DEF Search
<1> QED
  BY <1>4, <1>5, <1>6, <1>7, <1>8, <1>9, <1>10 DEF Step

-----------------------------------------------------------------------------
(* The locks a thread holds are those of the code it is in. *)

\* A search that ends has let go of everything.
LEMMA HoldsEnd ==
  ASSUME TypeInv, NEW t \in Threads, Holds(t), pc[t] \in {"euScan", "fetch", "ivProbe"}, NEW a, SeEnd(t, a)
  PROVE  Holds(t)'
<1> USE DEF TypeInv, TypeOK
<1>1. /\ pc'[t] = "reply"
      /\ t \notin vec_mutex'.r /\ t \notin idx_mutex'.r /\ idx_mutex'.w # t
  BY DEF SeEnd, Reply, Goto, Unshare, Holds, HoldsIdx, Mutex
<1>2. ASSUME NEW n \in Names
      PROVE  mutex'[n].w # t /\ t \notin mutex'[n].r
  BY DEF SeEnd, Unshare, Holds, HoldsMutex, Mutex, AnnounceLabels, MutexLabels
<1> QED
  BY <1>1, <1>2 DEF Holds, HoldsVec, HoldsIdx, HoldsMutex, FilesForAdd

\* A step that leaves the locks alone keeps the thread where it may hold them.
LEMMA HoldsSame ==
  ASSUME TypeInv, NEW t \in Threads, Holds(t), UNCHANGED <<locks, call, cur>>,
         \/ pc'[t] = pc[t]
         \/ pc[t] = "ivfLoad" /\ pc'[t] = "ivfStore"
         \/ pc[t] = "buildIds" /\ pc'[t] = "buildRead" /\ call[t].op = "add"
         \/ pc[t] = "ixIds" /\ pc'[t] = "ixRead"
         \/ pc[t] = "euIds" /\ pc'[t] = "euScan"
         \/ pc[t] \in {"euScan", "hnKnn"} /\ pc'[t] = "fetch"
         \/ pc[t] = "file" /\ pc'[t] = "undefined"
         \/ pc[t] = "hnCheck" /\ pc'[t] = "hnBuild"
  PROVE  Holds(t)'
  BY DEF Holds, HoldsVec, HoldsIdx, HoldsMutex, FilesForAdd, locks, HookLabels, AnnounceLabels,
         MutexLabels, VecReaders, IdxReaders, MutexReadLabels, Reading

LEMMA HoldsClient ==
  ASSUME TypeInv, NEW t \in Threads, Holds(t), Begin(t) \/ Return(t) \/ GetParams(t) \/ SvVec(t) \/ SvIdx(t)
  PROVE  Holds(t)'
<1> USE DEF TypeInv, TypeOK, Goto
<1>1. ASSUME NEW n \in Names PROVE mutex'[n].w # t /\ t \notin mutex'[n].r
  BY DEF Begin, Return, GetParams, SvVec, SvIdx, Holds, HoldsMutex, AnnounceLabels, MutexLabels,
         MutexReadLabels, locks
<1>2. idx_mutex'.w # t /\ t \notin idx_mutex'.r
  BY DEF Begin, Return, GetParams, SvVec, SvIdx, Holds, HoldsIdx, IdxReaders, HookLabels, Reading, locks
<1>3. CASE Begin(t) \/ Return(t) \/ GetParams(t)
  <2>1. t \notin vec_mutex'.r
    BY <1>3 DEF Begin, Return, GetParams, Holds, HoldsVec, VecReaders, Reading, locks
  <2>2. pc'[t] \notin {"fileLock", "file", "buildRead"}
    <3>1. CASE Begin(t)
      BY <3>1, RequestAssumption DEF Begin, First, Request, Ops
    <3> QED
      BY <1>3, <3>1 DEF Return, GetParams, Reply
  <2> QED
    BY <1>1, <1>2, <2>1, <2>2 DEF Holds, HoldsVec, HoldsIdx, HoldsMutex, FilesForAdd
<1>4. CASE SvVec(t)
  BY <1>1, <1>2, <1>4 DEF SvVec, Holds, HoldsVec, HoldsIdx, HoldsMutex, FilesForAdd, VecReaders
<1>5. CASE SvIdx(t)
  BY <1>1, <1>2, <1>5 DEF SvIdx, Reply, Unshare, Mutex, Holds, HoldsVec, HoldsIdx, HoldsMutex, FilesForAdd
<1> QED
  BY <1>3, <1>4, <1>5

\* A step in an index that takes or leaves the mutex_ of it.
LEMMA HoldsCur ==
  ASSUME TypeInv, NEW t \in Threads, Holds(t), cur[t] \in Names,
         UNCHANGED <<vec_mutex, idx_mutex, call, cur>>,
         NEW m1, mutex' = [mutex EXCEPT ![cur[t]] = m1],
         m1.w = t => pc'[t] \in AnnounceLabels \cup MutexLabels,
         t \in m1.r => pc'[t] \in MutexReadLabels,
         \/ pc[t] \in HookLabels \ {"notify"} /\ pc'[t] \in HookLabels \ {"notify"}
         \/ pc[t] \in Reading /\ pc'[t] \in Reading,
         FilesForAdd(t)'
  PROVE  Holds(t)'
<1>1. HoldsMutex(t)'
  <2>1. ASSUME NEW n \in Names
        PROVE  /\ mutex'[n].w = t => cur'[t] = n /\ pc'[t] \in AnnounceLabels \cup MutexLabels
               /\ t \in mutex'[n].r => cur'[t] = n /\ pc'[t] \in MutexReadLabels
    BY DEF TypeInv, TypeOK, Holds, HoldsMutex
  <2> QED
    BY <2>1 DEF HoldsMutex
<1>2. HoldsVec(t)' /\ HoldsIdx(t)'
  BY DEF Holds, HoldsVec, HoldsIdx, VecReaders, IdxReaders, HookLabels, Reading
<1> QED
  BY <1>1, <1>2 DEF Holds

LEMMA HoldsAnnounce ==
  ASSUME TypeInv, NEW t \in Threads, Holds(t), Announce(t)
  PROVE  Holds(t)'
<1> USE DEF TypeInv, TypeOK
<1>1. CASE pc[t] \in AnnounceLabels
  <2>1. /\ cur[t] \in Names /\ mutex' = [mutex EXCEPT ![cur[t]] = Lock(mutex[cur[t]], t)]
        /\ UNCHANGED <<vec_mutex, idx_mutex, call, cur, pc>>
    BY <1>1 DEF Announce, LockCur, AnnounceLabels, CursorOK, HnswLabels, IvfLabels, locals
  <2>2. FilesForAdd(t)'
    BY <2>1 DEF Holds, FilesForAdd
  <2>3. t \notin Lock(mutex[cur[t]], t).r
    BY <1>1, <2>1 DEF Lock, Mutex, Holds, HoldsMutex, AnnounceLabels, MutexReadLabels
  <2> QED
    BY <1>1, <2>1, <2>2, <2>3, HoldsCur DEF AnnounceLabels, HookLabels, Reading
<1>2. CASE pc[t] \notin AnnounceLabels
  BY <1>2 DEF Announce, AnnounceLabels, Lock, Mutex, locals, Holds, HoldsVec, HoldsIdx, HoldsMutex,
              FilesForAdd, VecReaders, IdxReaders, MutexReadLabels, Reading, HookLabels
<1> QED
  BY <1>1, <1>2

LEMMA HoldsUpdate ==
  ASSUME TypeInv, NEW t \in Threads, LockOf(t), Holds(t), Update(t)
  PROVE  Holds(t)'
<1> USE DEF TypeInv, TypeOK, Goto
<1>1. CASE HnswNote(t)
  <2>1. /\ cur[t] \in Names /\ mutex' = [mutex EXCEPT ![cur[t]] = Unlock(mutex[cur[t]])]
        /\ UNCHANGED <<vec_mutex, idx_mutex, call, cur>> /\ pc'[t] = "hook" /\ pc[t] = "hnswNote"
        /\ mutex[cur[t]].r = {}
    BY <1>1 DEF HnswNote, UnlockCur, CanLock, CursorOK, HnswLabels, locals
  <2>2. t \notin Unlock(mutex[cur[t]]).r /\ Unlock(mutex[cur[t]]).w # t
    BY <2>1, ThreadAssumption DEF Unlock, Mutex
  <2>3. FilesForAdd(t)'
    BY <2>1 DEF FilesForAdd
  <2> QED
    BY <2>1, <2>2, <2>3, HoldsCur DEF HookLabels
<1>2. CASE ~HnswNote(t)
  <2>1. ASSUME NEW n \in Names PROVE mutex'[n].w # t /\ t \notin mutex'[n].r
    BY <1>2 DEF Update, AddWrite, RemErase, Notify, HookNext, HooksDone, locks,
                Holds, HoldsMutex, AnnounceLabels, MutexLabels, MutexReadLabels
  <2>2. t \notin vec_mutex'.r
    BY <1>2 DEF Update, AddWrite, RemErase, Notify, HookNext, HooksDone, locks, Unlock, Lock, Mutex,
                CanLock, Holds, HoldsVec, VecReaders, Reading
  <2>3. idx_mutex'.w # t
    BY <1>2 DEF Update, AddWrite, RemErase, Notify, HookNext, HooksDone, locks, Share, Unshare, Mutex,
                Holds, HoldsIdx
  <2>4. t \in idx_mutex'.r => pc'[t] \in IdxReaders
    <3>1. CASE HookNext(t)
      <4>1. PICK n \in todo[t] : pc' = [pc EXCEPT ![t] = HookLabel(t, indices[n])] /\ UNCHANGED <<locks, call>>
        BY <3>1 DEF HookNext
      <4>2. indices[n] \in Index /\ call[t].op \in {"add", "remove"}
        BY <3>1, <4>1, InstalledIndex DEF HookNext, CursorOK, CallOK, HookLabels, Installed
      <4>3. HookLabel(t, indices[n]) \in {"hnswNote", "ivfLoad", "buildLock", "hook"}
        BY <4>2, KindOf DEF HookLabel, HnswIndex, IvfIndex, Index
      <4> QED
        BY <4>1, <4>3 DEF IdxReaders, HookLabels
    <3>2. CASE AddWrite(t) \/ RemErase(t)
      BY <3>2 DEF AddWrite, RemErase, Holds, HoldsIdx, IdxReaders, HookLabels, Reading
    <3>3. CASE Notify(t)
      BY <3>3 DEF Notify, IdxReaders, HookLabels
    <3>4. CASE HooksDone(t)
      BY <3>4 DEF HooksDone, Unshare, Mutex
    <3> QED
      BY <1>2, <3>1, <3>2, <3>3, <3>4 DEF Update
  <2>5. pc'[t] \notin {"fileLock", "file", "buildRead"}
    <3>1. CASE HookNext(t)
      <4>1. PICK n \in todo[t] : pc' = [pc EXCEPT ![t] = HookLabel(t, indices[n])]
        BY <3>1 DEF HookNext
      <4>2. indices[n] \in Index /\ call[t].op \in {"add", "remove"}
        BY <3>1, <4>1, InstalledIndex DEF HookNext, CursorOK, CallOK, HookLabels, Installed
      <4> QED
        BY <4>1, <4>2, KindOf DEF HookLabel, HnswIndex, IvfIndex, Index
    <3> QED
      BY <1>2, <3>1 DEF Update, AddWrite, RemErase, Notify, HooksDone, Reply
  <2> QED
    BY <2>1, <2>2, <2>3, <2>4, <2>5 DEF Holds, HoldsVec, HoldsIdx, HoldsMutex, FilesForAdd
<1> QED
  BY <1>1, <1>2

LEMMA HoldsIvfHook ==
  ASSUME TypeInv, NEW t \in Threads, LockOf(t), Holds(t), IvfHook(t)
  PROVE  Holds(t)'
<1> USE DEF TypeInv, TypeOK, Goto
<1>1. CASE IvfLoad(t)
  BY <1>1, HoldsSame DEF IvfLoad, locks
<1>2. CASE IvfStore(t)
  <2>1. /\ pc'[t] \in {"buildLock", "fileLock", "ivfUnfile"} /\ pc[t] = "ivfStore"
        /\ pc'[t] = "fileLock" => call[t].op = "add"
        /\ UNCHANGED <<locks, call, cur>>
    BY <1>2 DEF IvfStore, CallOK, HookLabels
  <2> QED
    BY <2>1 DEF Holds, HoldsVec, HoldsIdx, HoldsMutex, FilesForAdd, locks, HookLabels, AnnounceLabels,
                MutexLabels, VecReaders, IdxReaders, MutexReadLabels, Reading
<1>3. CASE FileLock(t) \/ BuildLock(t)
  <2>1. /\ cur[t] \in Names /\ mutex' = [mutex EXCEPT ![cur[t]] = Lock(mutex[cur[t]], t)]
        /\ UNCHANGED <<vec_mutex, idx_mutex, call, cur>> /\ mutex[cur[t]].r = {}
        /\ \/ pc[t] = "fileLock" /\ pc'[t] = "file"
           \/ pc[t] = "buildLock" /\ pc'[t] = "buildIds"
    BY <1>3 DEF FileLock, BuildLock, LockCur, StartLoop, CanLock, CursorOK, IvfLabels, locals
  <2>2. t \notin Lock(mutex[cur[t]], t).r
    BY <2>1 DEF Lock, Mutex
  <2>3. FilesForAdd(t)'
    BY <2>1 DEF Holds, FilesForAdd
  <2> QED
    BY <2>1, <2>2, <2>3, HoldsCur DEF HookLabels, MutexLabels
<1>4. CASE FileDone(t) \/ IvfUnfile(t) \/ BuildDone(t)
  <2>1. /\ cur[t] \in Names /\ mutex' = [mutex EXCEPT ![cur[t]] = Unlock(mutex[cur[t]])]
        /\ UNCHANGED <<vec_mutex, idx_mutex, call, cur>>
        /\ pc[t] \in {"file", "ivfUnfile", "buildRead"} /\ pc'[t] = "hook"
    BY <1>4 DEF FileDone, IvfUnfile, BuildDone, UnlockCur, CursorOK, IvfLabels, locals
  <2>2. t \notin Unlock(mutex[cur[t]]).r /\ Unlock(mutex[cur[t]]).w # t
    BY <2>1, ThreadAssumption DEF Unlock, Mutex, Holds, HoldsMutex, MutexReadLabels
  <2>3. FilesForAdd(t)'
    BY <2>1 DEF FilesForAdd
  <2> QED
    BY <2>1, <2>2, <2>3, HoldsCur DEF HookLabels
<1>5. CASE FileOne(t)
  <2>1. pc[t] = "file" /\ pc'[t] \in {"file", "undefined"} /\ UNCHANGED <<locks, call, cur>>
    BY <1>5 DEF FileOne
  <2> QED
    BY <2>1, HoldsSame
<1>6. CASE BuildIds(t)
  <2>1. call[t].op = "add"
    BY <1>6, ThreadAssumption DEF BuildIds, ReadIds, CanShare, LockOf, HookLabels, CallOK
  <2> QED
    BY <1>6, <2>1, HoldsSame DEF BuildIds, ReadIds, StartLoop
<1>7. CASE BuildThrow(t)
  <2>1. /\ pc'[t] = "reply"
        /\ t \notin vec_mutex'.r /\ t \notin idx_mutex'.r /\ idx_mutex'.w # t
    BY <1>7 DEF BuildThrow, Reply, Unshare, Unlock, Mutex, Holds, HoldsVec, HoldsIdx, VecReaders, Reading
  <2>2. ASSUME NEW n \in Names PROVE mutex'[n].w # t /\ t \notin mutex'[n].r
    BY <1>7, ThreadAssumption DEF BuildThrow, UnlockCur, Unlock, Mutex, Holds, HoldsMutex, MutexReadLabels
  <2> QED
    BY <2>1, <2>2 DEF Holds, HoldsVec, HoldsIdx, HoldsMutex, FilesForAdd
<1>8. CASE BuildRead(t)
  BY <1>8, HoldsSame DEF BuildRead, ReadEach
<1> QED
  BY <1>1, <1>2, <1>3, <1>4, <1>5, <1>6, <1>7, <1>8 DEF IvfHook

LEMMA HoldsAddIndex ==
  ASSUME TypeInv, NEW t \in Threads, Holds(t), AddIndex(t)
  PROVE  Holds(t)'
<1> USE DEF TypeInv, TypeOK, Goto
<1>1. CASE IxIds(t) \/ (IxRead(t) /\ left[t] # {})
  BY <1>1, HoldsSame DEF IxIds, IxRead, ReadIds, ReadEach, StartLoop
<1>2. CASE IxLock(t) \/ IxInstall(t)
  <2>1. ASSUME NEW n \in Names PROVE mutex'[n].w # t /\ t \notin mutex'[n].r
    BY <1>2 DEF IxLock, IxInstall, Holds, HoldsMutex, AnnounceLabels, MutexLabels, MutexReadLabels
  <2>2. t \notin vec_mutex'.r /\ t \notin idx_mutex'.r
    BY <1>2 DEF IxLock, IxInstall, Lock, Unlock, Mutex, Holds, HoldsVec, HoldsIdx, VecReaders, IdxReaders,
                HookLabels, Reading
  <2>3. /\ pc'[t] \in {"ixIds", "reply"}
        /\ idx_mutex'.w = t => pc'[t] = "ixIds" /\ call'[t].kind # "unknown"
    BY <1>2, ThreadAssumption DEF IxLock, IxInstall, Lock, Unlock, Mutex, Reply, Holds, HoldsIdx
  <2> QED
    BY <2>1, <2>2, <2>3 DEF Holds, HoldsVec, HoldsIdx, HoldsMutex, FilesForAdd
<1> QED
  BY <1>1, <1>2 DEF AddIndex, IxRead, ReadEach, ReadNext

\* A step of a search in an index that takes or leaves its mutex_.
LEMMA HoldsDescent ==
  ASSUME TypeInv, NEW t \in Threads, LockOf(t), Holds(t), cur[t] \in Names,
         HnCheck(t) \/ HnBuild(t) \/ HnBuilt(t) \/ HnRelock(t)
  PROVE  Holds(t)'
<1> USE DEF TypeInv, TypeOK, Goto
<1>1. UNCHANGED <<vec_mutex, idx_mutex, call, cur>>
  BY DEF HnCheck, HnBuild, HnBuilt, HnRelock, locals
<1>2. FilesForAdd(t)'
  BY DEF HnCheck, HnBuild, HnBuilt, HnRelock, StartLoop, FilesForAdd
<1>3. CASE HnBuild(t)
  <2>1. /\ pc[t] = "hnBuild" /\ pc'[t] = "hnInsert" /\ mutex[cur[t]].r = {}
        /\ mutex' = [mutex EXCEPT ![cur[t]] = Lock(mutex[cur[t]], t)]
    BY <1>3 DEF HnBuild, StartLoop, LockCur, CanLock
  <2>2. t \notin Lock(mutex[cur[t]], t).r
    BY <2>1 DEF Lock, Mutex
  <2> QED
    BY <1>1, <1>2, <2>1, <2>2, HoldsCur DEF Reading, MutexLabels
<1>4. CASE HnBuilt(t)
  <2>1. /\ pc[t] = "hnInsert" /\ pc'[t] = "hnRelock"
        /\ mutex' = [mutex EXCEPT ![cur[t]] = Unlock(mutex[cur[t]])]
    BY <1>4 DEF HnBuilt, UnlockCur
  <2>2. t \notin Unlock(mutex[cur[t]]).r /\ Unlock(mutex[cur[t]]).w # t
    BY <2>1, ThreadAssumption DEF Unlock, Mutex, Holds, HoldsMutex, MutexReadLabels
  <2> QED
    BY <1>1, <1>2, <2>1, <2>2, HoldsCur DEF Reading
<1>5. CASE HnCheck(t) \/ HnRelock(t)
  <2>1. CASE UNCHANGED mutex
    <3>1. pc[t] \in {"hnCheck", "hnRelock"} /\ pc'[t] \in {"hnBuild", "hnKnn"}
      BY <1>5 DEF HnCheck, HnRelock
    <3>2. \A n \in Names : mutex'[n].w # t /\ t \notin mutex'[n].r
      BY <2>1, <3>1 DEF Holds, HoldsMutex, AnnounceLabels, MutexLabels, MutexReadLabels
    <3> QED
      BY <1>1, <1>2, <3>1, <3>2 DEF Holds, HoldsVec, HoldsIdx, HoldsMutex, VecReaders, IdxReaders,
                                    HookLabels, Reading
  <2>2. CASE mutex' # mutex
    <3>1. /\ pc[t] \in {"hnCheck", "hnRelock"} /\ pc'[t] = "hnKnn" /\ mutex[cur[t]].w = NoThread
          /\ mutex' = [mutex EXCEPT ![cur[t]] = Share(mutex[cur[t]], t)]
      BY <1>5, <2>2 DEF HnCheck, HnRelock, CanShare
    <3>2. Share(mutex[cur[t]], t).w # t
      BY <3>1, ThreadAssumption DEF Share, Mutex
    <3> QED
      BY <1>1, <1>2, <3>1, <3>2, HoldsCur DEF Reading, MutexReadLabels
  <2> QED
    BY <2>1, <2>2
<1> QED
  BY <1>3, <1>4, <1>5

LEMMA HoldsSearch ==
  ASSUME TypeInv, NEW t \in Threads, LockOf(t), Holds(t), Search(t)
  PROVE  Holds(t)'
<1> USE DEF TypeInv, TypeOK, Goto
<1>1. CASE SeIdx(t)
  <2>1. ASSUME NEW n \in Names PROVE mutex'[n].w # t /\ t \notin mutex'[n].r
    BY <1>1 DEF SeIdx, Holds, HoldsMutex, AnnounceLabels, MutexLabels, MutexReadLabels
  <2>2. t \notin vec_mutex'.r /\ idx_mutex'.w # t /\ pc'[t] = "seVec"
    BY <1>1 DEF SeIdx, Share, Mutex, Holds, HoldsVec, HoldsIdx, VecReaders, Reading
  <2> QED
    BY <2>1, <2>2 DEF Holds, HoldsVec, HoldsIdx, HoldsMutex, FilesForAdd, IdxReaders
<1>2. CASE SeVec(t)
  <2>1. ASSUME NEW n \in Names PROVE mutex'[n].w # t /\ t \notin mutex'[n].r
    BY <1>2 DEF SeVec, Holds, HoldsMutex, AnnounceLabels, MutexLabels, MutexReadLabels
  <2>2. /\ idx_mutex'.w # t
        /\ pc'[t] = SearchLabel(indices[call[t].name])
    BY <1>2 DEF SeVec, Holds, HoldsIdx
  <2>3. indices[call[t].name] = Nil \/ indices[call[t].name] \in Index
    BY <1>2, RequestAssumption DEF SeVec, CallOK, Request
  <2>4. pc'[t] \in {"euIds", "hnCheck", "ivProbe"}
    BY <2>2, <2>3, KindOf, IndexAssumption DEF SearchLabel, Index
  <2> QED
    BY <2>1, <2>2, <2>4 DEF Holds, HoldsVec, HoldsIdx, HoldsMutex, FilesForAdd, VecReaders, IdxReaders, Reading
<1>3. CASE EuIds(t) \/ EuTop(t) \/ HnInsert(t) \/ HnKnn(t)
  <2>1. CASE HnKnn(t)
    <3>1. pc[t] = "hnKnn" /\ pc'[t] = "fetch" /\ UNCHANGED <<locks, call, cur>>
      BY <2>1 DEF HnKnn, StartLoop
    <3> QED
      BY <3>1, HoldsSame
  <2>2. CASE EuTop(t)
    <3>1. pc[t] = "euScan" /\ pc'[t] = "fetch" /\ UNCHANGED <<locks, call, cur>>
      BY <2>2 DEF EuTop, StartLoop
    <3> QED
      BY <3>1, HoldsSame
  <2> QED
    BY <1>3, <2>1, <2>2, HoldsSame DEF EuIds, HnInsert, ReadIds, StartLoop
<1>4. CASE EuScan(t) \/ Fetch(t) \/ SeDone(t)
  <2>1. ASSUME NEW a, SeEnd(t, a) PROVE Holds(t)'
    BY <1>4, <2>1, HoldsEnd DEF EuScan, Fetch, SeDone
  <2>2. CASE UNCHANGED <<locks, pc, call, cur>>
    BY <2>2, HoldsSame
  <2> QED
    BY <1>4, <2>1, <2>2 DEF EuScan, Fetch, SeDone, ReadOrFail
<1>5. CASE HnCheck(t) \/ HnBuild(t) \/ HnBuilt(t) \/ HnRelock(t)
  BY <1>5, HoldsDescent DEF HnCheck, HnBuild, HnBuilt, HnRelock, CursorOK, HnswLabels
<1>6. CASE IvProbe(t)
  <2>1. CASE SeEnd(t, NoAnswer)
    BY <1>6, <2>1, HoldsEnd DEF IvProbe
  <2>2. CASE ~SeEnd(t, NoAnswer)
    <3>1. /\ cur[t] \in Names /\ mutex[cur[t]].w = NoThread /\ pc[t] = "ivProbe" /\ pc'[t] = "fetch"
          /\ mutex' = [mutex EXCEPT ![cur[t]] = Share(mutex[cur[t]], t)]
          /\ UNCHANGED <<vec_mutex, idx_mutex, call, cur>>
      BY <1>6, <2>2 DEF IvProbe, StartLoop, CanShare, CursorOK, IvfLabels
    <3>2. Share(mutex[cur[t]], t).w # t
      BY <3>1, ThreadAssumption DEF Share, Mutex
    <3>3. FilesForAdd(t)'
      BY <3>1 DEF FilesForAdd
    <3> QED
      BY <3>1, <3>2, <3>3, HoldsCur DEF Reading, MutexReadLabels
  <2> QED
    BY <2>1, <2>2
<1> QED
  BY <1>1, <1>2, <1>3, <1>4, <1>5, <1>6 DEF Search

LEMMA HoldsInvStep == TypeInv /\ IndexInv /\ HoldsInv /\ [Next]_vars => HoldsInv'
<1>1. ASSUME HoldsInv, StopCalls \/ UNCHANGED vars PROVE HoldsInv'
  BY <1>1 DEF StopCalls, vars, HoldsInv, Holds, HoldsVec, HoldsIdx, HoldsMutex, FilesForAdd, locks, locals
<1>2. ASSUME TypeInv, IndexInv, HoldsInv, NEW t \in Threads, Begin(t) \/ Step(t) PROVE HoldsInv'
  <2>1. Others(t) /\ TouchesAll(t) /\ LockOf(t) /\ Holds(t)
    BY <1>2, ThreadStep, TouchesStep DEF StepOK, IndexInv, Works, HoldsInv
  <2>2. Holds(t)'
    BY <1>2, <2>1, HoldsClient, HoldsAnnounce, HoldsUpdate, HoldsIvfHook, HoldsAddIndex, HoldsSearch DEF Step
  <2>3. ASSUME NEW u \in Threads \ {t} PROVE Holds(u)'
    BY <1>2, <2>1, HoldsOthers DEF HoldsInv
  <2> QED
    BY <2>2, <2>3 DEF HoldsInv
<1> QED
  BY <1>1, <1>2 DEF Next, Rest

LEMMA HoldsInvariant == Spec => []HoldsInv
<1>1. Init => HoldsInv
  BY ThreadAssumption DEF Init, HoldsInv, Holds, HoldsVec, HoldsIdx, HoldsMutex, FilesForAdd, Unlocked
<1> QED
  BY <1>1, HoldsInvStep, TypeInvariant, IndexInvariant, PTL DEF Spec

-----------------------------------------------------------------------------
(* The circles.  Suppose a set of threads that wait for each other in none *)
(* of the four known ways.  None of them waits to share vec_mutex_, for its *)
(* owner would be a removal that itself waits for nobody of them; so none  *)
(* waits for a mutex_, whose holders wait to share vec_mutex_ or for other *)
(* holders that do; so none waits for idx_mutex_, whose holders wait for   *)
(* one of these two; and those that are left, which want vec_mutex_ for    *)
(* themselves, wait for none of their kind but the one announced, which    *)
(* waits for nobody.                                                       *)

Strange(C) ==
  /\ C \in SUBSET Threads /\ Circle(C)
  /\ ~RemovalMeetsAddIndex(C) /\ ~RemovalMeetsAdd(C) /\ ~RemovalRebuilds(C) /\ ~ReaderBehindWriter(C)

CircleInv == TypeInv /\ SearchInv /\ IndexInv /\ StoreInv /\ HoldsInv

\* A thread asks for one lock at a time.
LEMMA AsksOne ==
  ASSUME NEW t \in Threads
  PROVE  /\ AsksVec(t) => WaitsFor(t) = InTheWay(vec_mutex, t)
         /\ AsksIdx(t) => WaitsFor(t) = InTheWay(idx_mutex, t)
         /\ AsksMutex(t) => WaitsFor(t) = InTheWay(mutex[cur[t]], t)
         /\ ~AsksVec(t) /\ ~AsksIdx(t) /\ ~AsksMutex(t) => WaitsFor(t) = {}
<1>1. /\ AsksVec(t) => ~AsksIdx(t) /\ ~AsksMutex(t)
      /\ AsksIdx(t) => ~AsksMutex(t)
  BY DEF AsksVec, AsksIdx, AsksMutex
<1> HIDE DEF AsksVec, AsksIdx, AsksMutex
<1> QED
  BY <1>1 DEF WaitsFor

LEMMA SharesVec ==
  ASSUME CircleInv, NEW C, Strange(C), NEW t \in C
  PROVE  AsksVec(t) => AsksForAll(t)
<1> SUFFICES ASSUME AsksVec(t), ~AsksForAll(t) PROVE FALSE
  OBVIOUS
<1> USE DEF CircleInv, TypeInv, TypeOK
<1> DEFINE w == vec_mutex.w
<1>1. t \in Threads /\ \A u \in C : u \in Threads /\ WaitsFor(u) \cap C # {}
  BY DEF Strange, Circle
<1>2. w \in C
  BY <1>1, AsksOne DEF InTheWay
<1>3. Removing(w)
  BY <1>2 DEF Strange, ReaderBehindWriter
<1>4. pc[w] \in HookLabels /\ call[w].op = "remove" /\ vec_mutex.r = {}
  BY <1>1, <1>2, <1>3 DEF Removing, IndexInv, Works, LockOf, CallOK
<1>5. \A u \in Threads : pc[u] \notin Reading
  BY <1>4 DEF SearchInv, SearchOf
<1>6. pc[w] \notin {"file", "fileLock", "buildRead", "buildIds"}
  BY <1>1, <1>2, <1>3, <1>4 DEF HoldsInv, Holds, FilesForAdd, Strange, RemovalRebuilds
<1>7. CASE pc[w] = "notify"
  <2>1. AsksIdx(w) /\ ~AsksForAll(w)
    BY <1>7 DEF AsksIdx, AsksForAll
  <2>2. idx_mutex.w \in C
    BY <1>1, <1>2, <2>1, AsksOne DEF InTheWay
  <2>3. call[idx_mutex.w].op = "add_index"
    BY <1>1, <2>2 DEF HoldsInv, Holds, HoldsIdx, StoreInv, CallOf
  <2> QED
    BY <1>2, <1>3, <2>1, <2>2, <2>3 DEF Strange, RemovalMeetsAddIndex
<1>8. CASE pc[w] \in {"hnswNote", "ivfUnfile", "buildLock"}
  <2>1. AsksMutex(w) /\ cur[w] \in Names
    BY <1>1, <1>2, <1>8 DEF AsksMutex, CursorOK, HnswLabels, IvfLabels
  <2>2. PICK u \in C : u \in InTheWay(mutex[cur[w]], w)
    BY <1>1, <1>2, <2>1, AsksOne
  <2>3. mutex[cur[w]].r = {}
    BY <1>5, <2>1 DEF HoldsInv, Holds, HoldsMutex, MutexReadLabels, Reading, Mutex
  <2>4. mutex[cur[w]].w = u /\ cur[u] = cur[w] /\ pc[u] \in AnnounceLabels \cup MutexLabels
    BY <1>1, <2>1, <2>2, <2>3 DEF InTheWay, HoldsInv, Holds, HoldsMutex
  <2>5. pc[u] \notin {"file", "buildIds", "buildRead"}
    BY <1>2, <1>3, <2>1 DEF Strange, RemovalMeetsAdd
  <2>6. pc[u] \in {"undefined", "hnswNote", "ivfUnfile", "fileLock", "buildLock"}
    BY <1>1, <1>5, <2>4, <2>5 DEF AnnounceLabels, MutexLabels, Reading
  <2>7. WaitsFor(u) = {}
    <3>1. CASE pc[u] = "undefined"
      BY <3>1, AsksOne, <1>1 DEF AsksVec, AsksIdx, AsksMutex
    <3>2. CASE pc[u] # "undefined"
      <4>1. AsksMutex(u) /\ AsksForAll(u)
        BY <2>6, <3>2 DEF AsksMutex, AsksForAll
      <4> QED
        BY <1>1, <2>3, <2>4, <4>1, AsksOne DEF InTheWay
    <3> QED
      BY <3>1, <3>2
  <2> QED
    BY <1>1, <2>7
<1>9. CASE pc[w] \in {"hook", "ivfLoad", "ivfStore", "undefined"}
  BY <1>1, <1>2, <1>9, AsksOne DEF AsksVec, AsksIdx, AsksMutex
<1> QED
  BY <1>4, <1>6, <1>7, <1>8, <1>9 DEF HookLabels

\* What a thread asks for where it may hold a mutex_.
LEMMA AsksMutexFor ==
  ASSUME CircleInv, NEW C, Strange(C), NEW t \in C
  PROVE  ~AsksMutex(t)
<1> SUFFICES ASSUME AsksMutex(t) PROVE FALSE
  OBVIOUS
<1> USE DEF CircleInv, TypeInv, TypeOK
<1>1. t \in Threads /\ \A u \in C : u \in Threads /\ WaitsFor(u) \cap C # {}
  BY DEF Strange, Circle
<1>2. cur[t] \in Names
  BY <1>1 DEF AsksMutex, CursorOK, HnswLabels, IvfLabels
<1>3. ASSUME NEW u \in C PROVE u \notin mutex[cur[t]].r
  <2>1. pc[u] \notin {"hnKnn", "fetch"}
    BY <1>1, SharesVec, AsksOne DEF AsksVec, AsksIdx, AsksMutex, AsksForAll
  <2> QED
    BY <1>1, <1>2, <2>1 DEF HoldsInv, Holds, HoldsMutex, MutexReadLabels
<1>4. PICK u \in C : u = mutex[cur[t]].w
  BY <1>1, <1>3, AsksOne DEF InTheWay
<1>5. pc[u] \in AnnounceLabels \cup MutexLabels /\ cur[u] = cur[t]
  BY <1>1, <1>2, <1>4 DEF HoldsInv, Holds, HoldsMutex
<1>6. pc[u] \in AnnounceLabels
  BY <1>1, <1>5, SharesVec, AsksOne DEF AsksVec, AsksIdx, AsksMutex, AsksForAll, MutexLabels
<1>7. WaitsFor(u) \subseteq mutex[cur[t]].r
  BY <1>1, <1>4, <1>5, <1>6, AsksOne DEF AsksMutex, AsksForAll, AnnounceLabels, InTheWay
<1> QED
  BY <1>1, <1>3, <1>7

LEMMA AsksIdxFor ==
  ASSUME CircleInv, NEW C, Strange(C), NEW t \in C
  PROVE  ~AsksIdx(t)
<1> SUFFICES ASSUME AsksIdx(t) PROVE FALSE
  OBVIOUS
<1> USE DEF CircleInv, TypeInv, TypeOK
<1>1. t \in Threads /\ \A u \in C : u \in Threads /\ WaitsFor(u) \cap C # {}
  BY DEF Strange, Circle
<1>2. ASSUME NEW u \in C PROVE u \notin idx_mutex.r
  <2>1. pc[u] \notin IdxReaders
    BY <1>1, SharesVec, AsksMutexFor, AsksOne
    DEF AsksVec, AsksIdx, AsksMutex, AsksForAll, IdxReaders, HookLabels, Reading
  <2> QED
    BY <1>1, <2>1 DEF HoldsInv, Holds, HoldsIdx
<1>3. PICK u \in C : u = idx_mutex.w
  BY <1>1, <1>2, AsksOne DEF InTheWay
<1>4. pc[u] \in {"ixLock", "ixIds", "ixRead"} /\ call[u].kind # "unknown"
  BY <1>1, <1>3 DEF HoldsInv, Holds, HoldsIdx
<1>5. pc[u] = "ixLock"
  BY <1>1, <1>4, SharesVec, AsksOne DEF AsksVec, AsksIdx, AsksMutex, AsksForAll
<1>6. WaitsFor(u) \subseteq idx_mutex.r
  BY <1>1, <1>3, <1>4, <1>5, AsksOne DEF AsksIdx, AsksForAll, InTheWay
<1> QED
  BY <1>1, <1>2, <1>6

LEMMA NoStrange ==
  ASSUME CircleInv, NEW C
  PROVE  ~Strange(C)
<1> SUFFICES ASSUME Strange(C) PROVE FALSE
  OBVIOUS
<1> USE DEF CircleInv, TypeInv, TypeOK
<1>1. C # {} /\ \A t \in C : t \in Threads /\ WaitsFor(t) \cap C # {}
  BY DEF Strange, Circle
<1>2. ASSUME NEW t \in C PROVE AsksVec(t) /\ pc[t] \in {"addWrite", "remErase"}
  <2>1. AsksVec(t) /\ AsksForAll(t)
    BY <1>1, SharesVec, AsksMutexFor, AsksIdxFor, AsksOne
  <2> QED
    BY <2>1 DEF AsksVec, AsksForAll
<1>3. ASSUME NEW t \in C PROVE t \notin vec_mutex.r
  BY <1>1, <1>2 DEF HoldsInv, Holds, HoldsVec, VecReaders, Reading
<1>4. ASSUME NEW t \in C PROVE vec_mutex.w \in C /\ vec_mutex.w # t
  <2>1. WaitsFor(t) \subseteq vec_mutex.r \cup ({vec_mutex.w} \ {t})
    BY <1>1, <1>2, AsksOne DEF AsksForAll, InTheWay
  <2> QED
    BY <1>1, <1>3, <2>1
<1> QED
  BY <1>1, <1>4

\* Who is in somebody's way holds a lock, or has announced that it wants it.
LEMMA NobodyAway ==
  ASSUME CircleInv, NEW t \in Threads, NEW u \in WaitsFor(t)
  PROVE  pc[u] \notin {"idle", "reply"}
<1> USE DEF CircleInv, TypeInv, TypeOK
<1>1. ASSUME AsksVec(t) PROVE pc[u] \notin {"idle", "reply"}
  <2>1. u \in Threads /\ (u \in vec_mutex.r \/ u = vec_mutex.w)
    BY <1>1, AsksOne DEF InTheWay, Mutex
  <2> QED
    BY <2>1 DEF HoldsInv, Holds, HoldsVec, VecReaders, Reading, IndexInv, Works, LockOf, HookLabels
<1>2. ASSUME AsksIdx(t) PROVE pc[u] \notin {"idle", "reply"}
  <2>1. u \in Threads /\ (u \in idx_mutex.r \/ u = idx_mutex.w)
    BY <1>2, AsksOne DEF InTheWay, Mutex
  <2> QED
    BY <2>1 DEF HoldsInv, Holds, HoldsIdx, IdxReaders, HookLabels, Reading
<1>3. ASSUME AsksMutex(t) PROVE pc[u] \notin {"idle", "reply"}
  <2>1. cur[t] \in Names
    BY <1>3 DEF AsksMutex, CursorOK, HnswLabels, IvfLabels
  <2>2. u \in Threads /\ (u \in mutex[cur[t]].r \/ u = mutex[cur[t]].w)
    BY <1>3, <2>1, AsksOne DEF InTheWay, Mutex
  <2> QED
    BY <2>1, <2>2 DEF HoldsInv, Holds, HoldsMutex, AnnounceLabels, MutexLabels, MutexReadLabels
<1> QED
  BY <1>1, <1>2, <1>3, AsksOne

\* Whatever the threads ask of a collection, however many they are and whatever
\* indices it has, they can wait for each other in the four known ways and in no
\* other, and no call returns with a lock somebody waits for.
THEOREM CirclesAreKnown == Spec => []CirclesKnown
<1>1. CircleInv => CirclesKnown
  BY NoStrange, NobodyAway DEF CirclesKnown, Strange
<1> QED
  BY <1>1, TypeInvariant, SearchInvariant, IndexInvariant, StoreInvariant, HoldsInvariant, PTL DEF CircleInv
==============================================================================
