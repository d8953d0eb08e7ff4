--------------------------- MODULE CollectionProofs ---------------------------
(***************************************************************************)
(* What holds of Collection for any number of threads, ids, vectors and    *)
(* index names, for any mix of calls and on either library.                *)
(***************************************************************************)
EXTENDS Collection, FiniteSetTheorems, TLAPS

-----------------------------------------------------------------------------
(* The operators of Indices give indices of the kind they were given. *)

LEMMA ClusteredType ==
  ASSUME NEW read \in Stored, NEW k \in Nat
  PROVE  Clustered(k, read) \in Stored
  BY DEF Clustered, Stored, Empty

LEMMA EmptyType == Empty \in Stored
  BY DEF Empty, Stored

LEMMA HnswTypes ==
  ASSUME NEW i \in HnswIndex
  PROVE  /\ \A ids \in SUBSET Ids :
              HnswAdded(i, ids) \in HnswIndex /\ HnswRemoved(i, ids) \in HnswIndex
         /\ \A id \in Ids, vec \in Vals \cup {Nil} : HnswInserted(i, id, vec) \in HnswIndex
         /\ HnswPruned(i) \in HnswIndex
         /\ HnswSettled(i) \in HnswIndex
  BY DEF HnswIndex, Stored, Present, HnswAdded, HnswRemoved, HnswPruned, HnswInserted, HnswSettled

LEMMA FiledOfType ==
  ASSUME NEW read \in Stored
  PROVE  FiledOf(read) \in Filing
  BY DEF FiledOf, Filing

LEMMA IvfTypes ==
  ASSUME NEW i \in IvfIndex, NEW read \in Stored, NEW n \in Nat
  PROVE  /\ IvfCleared(i) \in IvfIndex
         /\ IvfRebuilt(i, read) \in IvfIndex
         /\ [i EXCEPT !.since = n] \in IvfIndex
<1>1. i.k \in Nat /\ FiledOf(Empty) \in Filing
  BY FiledOfType, EmptyType DEF IvfIndex
<1>2. FiledOf(Clustered(i.k, read)) \in Filing
  BY <1>1, ClusteredType, FiledOfType
<1> QED
  BY <1>1, <1>2 DEF IvfIndex, IvfCleared, IvfRebuilt

LEMMA IvfFiledType ==
  ASSUME NEW i \in IvfIndex, NEW id \in Ids, NEW vec \in Vals
  PROVE  IvfFiled(i, id, vec) \in IvfIndex
<1> DEFINE row == [i.filed[id] EXCEPT ![vec] = @ + 1]
<1>1. i.filed \in Filing /\ row \in [Vals -> Nat]
  BY DEF IvfIndex, Filing
<1>2. [i.filed EXCEPT ![id] = row] \in Filing
  BY <1>1 DEF Filing
<1>3. IvfFiled(i, id, vec) = [i EXCEPT !.filed = [i.filed EXCEPT ![id] = row]]
  BY DEF IvfFiled, IvfIndex
<1> QED
  BY <1>2, <1>3 DEF IvfIndex

LEMMA IvfUnfiledType ==
  ASSUME NEW i \in IvfIndex, NEW ids \in SUBSET Ids, NEW pick \in IvfPicks(i, ids)
  PROVE  IvfUnfiled(i, pick) \in IvfIndex
  BY DEF IvfIndex, Filing, IvfUnfiled, IvfPicks

LEMMA FreshTypes ==
  ASSUME NEW read \in Stored, NEW params, params.k \in Nat
  PROVE  /\ params.kind = "hnsw" => Fresh(params, read) \in HnswIndex
         /\ params.kind = "ivf_flat" => Fresh(params, read) \in IvfIndex
<1>1. FiledOf(Clustered(params.k, read)) \in Filing
  BY ClusteredType, FiledOfType
<1>2. HnswOf(read) \in HnswIndex
  BY DEF HnswOf, HnswIndex
<1>3. IvfOf(params.k, read) \in IvfIndex
  BY <1>1 DEF IvfOf, IvfIndex
<1> QED
  BY <1>2, <1>3 DEF Fresh

\* An index the collection was loaded with is of the kind it was loaded as.
LEMMA LoadedTypes ==
  ASSUME NEW read \in Stored, NEW n \in Names
  PROVE  \/ Loaded[n] = Nil
         \/ Loaded[n] # Nil /\ Loaded[n].kind = "hnsw" /\ Fresh(Loaded[n], read) \in HnswIndex
         \/ Loaded[n] # Nil /\ Loaded[n].kind = "ivf_flat" /\ Fresh(Loaded[n], read) \in IvfIndex
<1>1. CASE Loaded[n] = Nil
  BY <1>1
<1>2. CASE Loaded[n] \in Params
  <2>1. Loaded[n] # Nil /\ Loaded[n].k \in Nat /\ Loaded[n].kind \in {"hnsw", "ivf_flat"}
    BY <1>2, LoadedAssumption DEF Params, Kinds
  <2> QED
    BY <2>1, FreshTypes
<1> QED
  BY <1>1, <1>2, LoadedAssumption

LEMMA KindOf ==
  /\ \A i \in HnswIndex : i.kind = "hnsw"
  /\ \A i \in IvfIndex : i.kind = "ivf_flat"
  BY DEF HnswIndex, IvfIndex

-----------------------------------------------------------------------------
(* The type invariant is not inductive by itself: an index hook may only   *)
(* be applied to the kind of index it belongs to.  CallOK and CursorOK say *)
(* what a thread's place in the code tells of its call and its index.      *)

HookLabels == {"notify", "hook", "hnswNote", "ivfLoad", "ivfStore", "fileLock", "file",
               "ivfUnfile", "undefined", "buildLock", "buildIds", "buildRead"}
HnswLabels == {"hnswNote", "hnCheck", "hnBuild", "hnInsert", "hnRelock", "hnKnn"}
IvfLabels == {"ivfLoad", "ivfStore", "fileLock", "file", "ivfUnfile", "undefined",
              "buildLock", "buildIds", "buildRead", "ivProbe"}

CallOK(t) ==
  /\ pc[t] # "idle" => call[t] \in Requests
  /\ pc[t] = "addWrite" => call[t].op = "add"
  /\ pc[t] = "remErase" => call[t].op = "remove"
  /\ pc[t] \in HookLabels => call[t].op \in {"add", "remove"}
  /\ pc[t] \in {"ixIds", "ixRead"} => call[t].kind \in Kinds

CursorOK(t) ==
  /\ pc[t] \in HnswLabels => cur[t] \in Names /\ indices[cur[t]] \in HnswIndex
  /\ pc[t] \in IvfLabels => cur[t] \in Names /\ indices[cur[t]] \in IvfIndex
  /\ pc[t] \in {"euIds", "euScan"} => cur[t] = Nil
  /\ pc[t] = "fetch" => cur[t] = Nil \/ (cur[t] \in Names /\ indices[cur[t]] \in Index)
  /\ todo[t] \subseteq Installed

TypeInv == TypeOK /\ \A t \in Threads : CallOK(t) /\ CursorOK(t)

\* An installed index stays, and stays of its kind.
KindsStay ==
  \A n \in Names :
    /\ indices[n] \in HnswIndex => indices'[n] \in HnswIndex
    /\ indices[n] \in IvfIndex => indices'[n] \in IvfIndex
    /\ indices'[n] \in Index \cup {Nil}

LEMMA InstalledIndex ==
  ASSUME TypeOK, NEW n \in Names
  PROVE  (n \in Installed) <=> (indices[n] \in Index)
  BY IndexAssumption DEF TypeOK, Installed

LEMMA InitType == Init => TypeInv
<1> SUFFICES ASSUME Init PROVE TypeInv
  OBVIOUS
<1>1. indices \in [Names -> Index \cup {Nil}]
  BY LoadedTypes DEF Init, Index
<1>2. NoAnswer \in Answer
  BY EmptyType DEF NoAnswer, Answer
<1>3. TypeOK
  BY <1>1, <1>2, EmptyType DEF Init, TypeOK, Mutex, Unlocked, Labels
<1>4. ASSUME NEW t \in Threads PROVE CallOK(t) /\ CursorOK(t)
  BY DEF Init, CallOK, CursorOK, HookLabels, HnswLabels, IvfLabels
<1> QED
  BY <1>3, <1>4 DEF TypeInv

-----------------------------------------------------------------------------
(* One step of a thread.  StepOK(t) is what such a step must show: it keeps *)
(* the types and the kinds, it leaves the other threads where they were,    *)
(* and it brings t to a place that suits its call and its index.            *)

Others(t) == \A u \in Threads \ {t} :
  /\ pc'[u] = pc[u] /\ call'[u] = call[u] /\ cur'[u] = cur[u] /\ todo'[u] = todo[u]
  /\ batch'[u] = batch[u] /\ left'[u] = left[u] /\ seen'[u] = seen[u]

StepOK(t) == TypeOK' /\ KindsStay /\ Others(t) /\ CallOK(t)' /\ CursorOK(t)'

LEMMA StepOKSuffices ==
  ASSUME TypeInv, NEW t \in Threads, StepOK(t)
  PROVE  TypeInv'
<1>1. ASSUME NEW u \in Threads PROVE CallOK(u)' /\ CursorOK(u)'
  <2>1. CASE u = t
    BY <2>1 DEF StepOK
  <2>2. CASE u # t
    <3>1. /\ pc'[u] = pc[u] /\ call'[u] = call[u]
          /\ cur'[u] = cur[u] /\ todo'[u] = todo[u]
      BY <2>2 DEF StepOK, Others
    <3>2. CallOK(u)'
      BY <3>1 DEF TypeInv, CallOK
    <3>3. todo'[u] \subseteq Installed'
      BY <3>1, IndexAssumption DEF TypeInv, TypeOK, CursorOK, Installed, StepOK, KindsStay, Index
    <3>4. CursorOK(u)'
      BY <3>1, <3>3 DEF TypeInv, CursorOK, StepOK, KindsStay, Index
    <3> QED
      BY <3>2, <3>4
  <2> QED
    BY <2>1, <2>2
<1> QED
  BY <1>1 DEF TypeInv, StepOK

LEMMA MutexTypes ==
  ASSUME NEW m \in Mutex(Threads), NEW t \in Threads
  PROVE  /\ Share(m, t) \in Mutex(Threads)
         /\ Unshare(m, t) \in Mutex(Threads)
         /\ Lock(m, t) \in Mutex(Threads)
         /\ Unlock(m) \in Mutex(Threads)
  BY DEF Mutex, Share, Unshare, Lock, Unlock

\* A step that leaves indices alone keeps the kinds.
LEMMA SameKinds == TypeOK /\ indices' = indices => KindsStay
  BY DEF TypeOK, KindsStay

\* A step that writes one index keeps the kinds if it writes one of the same.
LEMMA OneKind ==
  ASSUME TypeOK, NEW n \in Names, NEW i, indices' = [indices EXCEPT ![n] = i],
         \/ indices[n] \in HnswIndex /\ i \in HnswIndex
         \/ indices[n] \in IvfIndex /\ i \in IvfIndex
  PROVE  KindsStay /\ indices' \in [Names -> Index \cup {Nil}]
  BY KindOf DEF TypeOK, KindsStay, Index

\* The end of a call.
LEMMA ReplyOK ==
  ASSUME TypeInv, NEW t \in Threads, NEW a \in Answer, Reply(t, a),
         pc[t] # "idle", UNCHANGED <<call, accepting>>, KindsStay,
         vectors' \in Stored, indices' \in [Names -> Index \cup {Nil}],
         vec_mutex' \in Mutex(Threads), idx_mutex' \in Mutex(Threads),
         mutex' \in [Names -> Mutex(Threads)]
  PROVE  StepOK(t)
<1>1. TypeOK'
  BY EmptyType DEF Reply, Goto, TypeInv, TypeOK, Labels
<1>2. Others(t)
  BY DEF Reply, Goto, Others, TypeInv, TypeOK
<1>3. CallOK(t)'
  BY DEF Reply, Goto, CallOK, TypeInv, TypeOK, HookLabels
<1>4. CursorOK(t)'
  BY DEF Reply, Goto, CursorOK, TypeInv, TypeOK, HnswLabels, IvfLabels
<1> QED
  BY <1>1, <1>2, <1>3, <1>4 DEF StepOK

LEMMA AnswerTypes ==
  /\ NoAnswer \in Answer
  /\ \A ok \in BOOLEAN, ids \in SUBSET Ids, got \in Stored :
       [ok |-> ok, ids |-> ids, got |-> got] \in Answer
  BY EmptyType DEF NoAnswer, Answer

\* A step that changes no index, no vector and no lock of the collection.
LEMMA QuietOK ==
  ASSUME TypeInv, NEW t \in Threads, Others(t), UNCHANGED <<store, accepting>>,
         CallOK(t)', CursorOK(t)',
         vec_mutex' \in Mutex(Threads), idx_mutex' \in Mutex(Threads),
         mutex' \in [Names -> Mutex(Threads)],
         pc' \in [Threads -> Labels], call' \in [Threads -> Requests \cup {Nil}],
         batch' \in [Threads -> SUBSET Ids], left' \in [Threads -> SUBSET Ids],
         todo' \in [Threads -> SUBSET Names], cur' \in [Threads -> Names \cup {Nil}],
         seen' \in [Threads -> Stored], since_read' \in [Threads -> Nat],
         ret' \in [Threads -> Answer]
  PROVE  StepOK(t)
  BY SameKinds DEF TypeInv, TypeOK, StepOK, store

\* The client's side.
LEMMA ClientOK ==
  ASSUME TypeInv, NEW t \in Threads, Begin(t) \/ Return(t)
  PROVE  StepOK(t)
<1>1. CASE Begin(t)
  <2>1. PICK c \in Requests : call' = [call EXCEPT ![t] = c] /\ Goto(t, First(c))
    BY <1>1 DEF Begin
  <2>2. /\ c.op \in Ops /\ First(c) \in Labels \ {"idle"}
        /\ First(c) \notin HookLabels \cup HnswLabels \cup IvfLabels \cup {"euIds", "euScan", "fetch"}
        /\ First(c) \notin {"ixIds", "ixRead"}
        /\ First(c) = "addWrite" => c.op = "add"
        /\ First(c) = "remErase" => c.op = "remove"
    BY RequestAssumption DEF Request, Ops, First, Labels, HookLabels, HnswLabels, IvfLabels
  <2>3. pc'[t] = First(c) /\ call'[t] = c /\ todo'[t] = todo[t] /\ indices' = indices
    BY <1>1, <2>1 DEF Begin, Goto, TypeInv, TypeOK, store, locals
  <2>4. CallOK(t)'
    BY <2>2, <2>3 DEF CallOK
  <2>5. CursorOK(t)'
    BY <2>2, <2>3 DEF CursorOK, TypeInv, Installed
  <2>6. Others(t)
    BY <1>1, <2>1 DEF Begin, Goto, Others, locals, TypeInv, TypeOK
  <2> QED
    BY <1>1, <2>1, <2>2, <2>4, <2>5, <2>6, QuietOK
    DEF Begin, Goto, TypeInv, TypeOK, store, locks, locals
<1>2. CASE Return(t)
  <2>1. CallOK(t)' /\ CursorOK(t)' /\ Others(t)
    BY <1>2 DEF Return, Goto, CallOK, CursorOK, Others, TypeInv, TypeOK, store, locals, Installed,
                HookLabels, HnswLabels, IvfLabels
  <2> QED
    BY <1>2, <2>1, QuietOK, AnswerTypes
    DEF Return, Goto, TypeInv, TypeOK, store, locks, locals, Labels
<1> QED
  BY <1>1, <1>2

LEMMA AnnounceOK ==
  ASSUME TypeInv, NEW t \in Threads, Announce(t)
  PROVE  StepOK(t)
<1>1. CallOK(t)' /\ CursorOK(t)' /\ Others(t)
  BY DEF Announce, CallOK, CursorOK, Others, TypeInv, store, locals, Installed
<1>2. /\ vec_mutex' \in Mutex(Threads) /\ idx_mutex' \in Mutex(Threads)
      /\ mutex' \in [Names -> Mutex(Threads)]
  <2>1. CASE pc[t] \in {"hnswNote", "ivfUnfile", "fileLock", "buildLock", "hnBuild"}
    <3>1. cur[t] \in Names
      BY <2>1 DEF TypeInv, CursorOK, HnswLabels, IvfLabels
    <3>2. mutex' = [mutex EXCEPT ![cur[t]] = Lock(mutex[cur[t]], t)] /\ UNCHANGED <<vec_mutex, idx_mutex>>
      BY <2>1 DEF Announce, LockCur
    <3> QED
      BY <3>1, <3>2, MutexTypes DEF TypeInv, TypeOK
  <2>2. CASE pc[t] \notin {"hnswNote", "ivfUnfile", "fileLock", "buildLock", "hnBuild"}
    <3>1. mutex' = mutex /\ vec_mutex' \in {vec_mutex, Lock(vec_mutex, t)}
                         /\ idx_mutex' \in {idx_mutex, Lock(idx_mutex, t)}
      BY <2>2 DEF Announce
    <3> QED
      BY <3>1, MutexTypes DEF TypeInv, TypeOK
  <2> QED
    BY <2>1, <2>2
<1> QED
  BY <1>1, <1>2, QuietOK DEF Announce, TypeInv, TypeOK, store, locals

-----------------------------------------------------------------------------
(* add_vectors and remove_vectors *)

LEMMA UpdateOK ==
  ASSUME TypeInv, NEW t \in Threads, Update(t)
  PROVE  StepOK(t)
<1>1. CASE AddWrite(t)
  <2>1. call[t] \in Requests /\ call[t].op = "add"
    BY <1>1 DEF AddWrite, TypeInv, CallOK
  <2>2. call[t].ids \in SUBSET Ids /\ call[t].val \in Vals
    BY <2>1, RequestAssumption DEF Request
  <2>3. vectors' \in Stored /\ [ok |-> TRUE, ids |-> call[t].ids \ Live, got |-> Empty] \in Answer
    BY <1>1, <2>2, EmptyType DEF AddWrite, TypeInv, TypeOK, Stored, Answer
  <2>4. TypeOK'
    BY <1>1, <2>2, <2>3, MutexTypes DEF AddWrite, Goto, TypeInv, TypeOK, Labels
  <2>5. KindsStay
    BY <1>1, SameKinds DEF AddWrite, TypeInv
  <2>6. Others(t)
    BY <1>1 DEF AddWrite, Goto, Others, TypeInv, TypeOK
  <2>7. CallOK(t)' /\ CursorOK(t)'
    BY <1>1, <2>1 DEF AddWrite, Goto, CallOK, CursorOK, TypeInv, TypeOK, Installed,
                      HookLabels, HnswLabels, IvfLabels
  <2> QED
    BY <2>4, <2>5, <2>6, <2>7 DEF StepOK
<1>2. CASE RemErase(t)
  <2> DEFINE removed == call[t].ids \cap Live
  <2>1. call[t] \in Requests /\ call[t].op = "remove" /\ pc[t] = "remErase"
    BY <1>2 DEF RemErase, TypeInv, CallOK
  <2>2. removed \in SUBSET Ids /\ vectors' \in Stored
    BY <1>2 DEF RemErase, TypeInv, TypeOK, Stored, Live, Present
  <2>3. KindsStay
    BY <1>2, SameKinds DEF RemErase, TypeInv
  <2>4. CASE removed = {}
    <3>1. Reply(t, [ok |-> TRUE, ids |-> {}, got |-> Empty]) /\ vec_mutex' = Unlock(vec_mutex)
      BY <1>2, <2>4 DEF RemErase
    <3>2. [ok |-> TRUE, ids |-> {}, got |-> Empty] \in Answer
      BY EmptyType DEF Answer
    <3> QED
      BY <1>2, <2>1, <2>2, <2>3, <3>1, <3>2, ReplyOK, MutexTypes DEF RemErase, TypeInv, TypeOK
  <2>5. CASE removed # {}
    <3>1. [ok |-> TRUE, ids |-> removed, got |-> Empty] \in Answer
      BY <2>2, EmptyType DEF Answer
    <3>2. /\ vec_mutex' = Lock(vec_mutex, t)
          /\ batch' = [batch EXCEPT ![t] = removed]
          /\ ret' = [ret EXCEPT ![t] = [ok |-> TRUE, ids |-> removed, got |-> Empty]]
          /\ Goto(t, "notify")
          /\ UNCHANGED <<left, todo, cur, seen, since_read, indices, idx_mutex, mutex, call, accepting>>
      BY <1>2, <2>5 DEF RemErase
    <3>3. TypeOK'
      <4> HIDE DEF removed
      <4> QED
        BY <2>2, <3>1, <3>2, MutexTypes DEF Goto, TypeInv, TypeOK, Labels
    <3>4. Others(t)
      BY <3>2 DEF Goto, Others, TypeInv, TypeOK
    <3>5. CallOK(t)' /\ CursorOK(t)'
      BY <2>1, <3>2 DEF Goto, CallOK, CursorOK, TypeInv, TypeOK, Installed,
                        HookLabels, HnswLabels, IvfLabels
    <3> QED
      BY <2>3, <3>3, <3>4, <3>5 DEF StepOK
  <2> QED
    BY <2>4, <2>5
<1>3. CASE Notify(t)
  <2>1. Others(t) /\ CallOK(t)' /\ CursorOK(t)'
    BY <1>3 DEF Notify, Goto, Others, CallOK, CursorOK, TypeInv, TypeOK, store, Installed,
                HookLabels, HnswLabels, IvfLabels
  <2> QED
    BY <1>3, <2>1, QuietOK, MutexTypes DEF Notify, Goto, TypeInv, TypeOK, store, Labels, Installed
<1>4. CASE HookNext(t)
  <2>1. PICK n \in todo[t] : /\ todo' = [todo EXCEPT ![t] = @ \ {n}]
                             /\ cur' = [cur EXCEPT ![t] = n]
                             /\ Goto(t, HookLabel(t, indices[n]))
    BY <1>4 DEF HookNext
  <2>2. n \in Names /\ indices[n] \in Index
    BY InstalledIndex DEF TypeInv, TypeOK, CursorOK
  <2>3. call[t] \in Requests /\ call[t].op \in {"add", "remove"}
    BY <1>4 DEF HookNext, TypeInv, CallOK, HookLabels
  <2>4. /\ HookLabel(t, indices[n]) \in {"hnswNote", "ivfLoad", "buildLock", "hook"}
        /\ HookLabel(t, indices[n]) = "hnswNote" => indices[n] \in HnswIndex
        /\ HookLabel(t, indices[n]) \in {"ivfLoad", "buildLock"} => indices[n] \in IvfIndex
    BY <2>2, <2>3, KindOf DEF HookLabel, Index, HnswIndex, IvfIndex
  <2>5. /\ pc'[t] = HookLabel(t, indices[n]) /\ cur'[t] = n /\ todo'[t] \subseteq todo[t]
        /\ indices' = indices /\ call' = call
    BY <1>4, <2>1 DEF HookNext, Goto, TypeInv, TypeOK, store
  <2>6. CallOK(t)' /\ CursorOK(t)'
    BY <2>2, <2>3, <2>4, <2>5 DEF CallOK, CursorOK, TypeInv, Installed,
                                  HookLabels, HnswLabels, IvfLabels
  <2>7. Others(t)
    BY <1>4, <2>1 DEF HookNext, Goto, Others, TypeInv, TypeOK
  <2> QED
    BY <1>4, <2>1, <2>2, <2>4, <2>6, <2>7, QuietOK
    DEF HookNext, Goto, TypeInv, TypeOK, store, locks, Labels
<1>5. CASE HooksDone(t)
  <2>1. ret[t] \in Answer /\ pc[t] = "hook"
    BY <1>5 DEF HooksDone, TypeInv, TypeOK
  <2>2. KindsStay
    BY <1>5, SameKinds DEF HooksDone, TypeInv, store
  <2> QED
    BY <1>5, <2>1, <2>2, ReplyOK, MutexTypes DEF HooksDone, TypeInv, TypeOK, store
<1>6. CASE HnswNote(t)
  <2>1. cur[t] \in Names /\ indices[cur[t]] \in HnswIndex
    BY <1>6 DEF HnswNote, TypeInv, CursorOK, HnswLabels
  <2>2. batch[t] \in SUBSET Ids
    BY DEF TypeInv, TypeOK
  <2>3. \E i \in HnswIndex : indices' = [indices EXCEPT ![cur[t]] = i]
    <3> DEFINE i == indices[cur[t]]
    <3>1. HnswAdded(i, batch[t]) \in HnswIndex /\ HnswRemoved(i, batch[t]) \in HnswIndex
      BY <2>1, <2>2, HnswTypes
    <3> QED
      BY <1>6, <3>1 DEF HnswNote, SetIndex
  <2>4. KindsStay /\ indices' \in [Names -> Index \cup {Nil}]
    BY <2>1, <2>3, OneKind DEF TypeInv
  <2>5. TypeOK'
    BY <1>6, <2>4, MutexTypes DEF HnswNote, Goto, UnlockCur, TypeInv, TypeOK, Labels, locals
  <2>6. Others(t) /\ CallOK(t)'
    BY <1>6 DEF HnswNote, Goto, Others, CallOK, TypeInv, TypeOK, HookLabels, locals
  <2>7. todo'[t] \subseteq Installed'
    BY <1>6, <2>4, IndexAssumption DEF HnswNote, TypeInv, TypeOK, CursorOK, Installed, KindsStay, Index, locals
  <2>8. CursorOK(t)'
    BY <1>6, <2>7 DEF HnswNote, Goto, CursorOK, TypeInv, TypeOK, HnswLabels, IvfLabels
  <2> QED
    BY <2>4, <2>5, <2>6, <2>8 DEF StepOK
<1> QED
  BY <1>1, <1>2, <1>3, <1>4, <1>5, <1>6 DEF Update

-----------------------------------------------------------------------------
(* The hooks of an ivf_flat index *)

\* A step inside an index that writes the index it is in.
LEMMA WriteOK ==
  ASSUME TypeInv, NEW t \in Threads, cur[t] \in Names,
         NEW i \in Index, indices' = [indices EXCEPT ![cur[t]] = i],
         \/ indices[cur[t]] \in HnswIndex /\ i \in HnswIndex
         \/ indices[cur[t]] \in IvfIndex /\ i \in IvfIndex,
         pc'[t] \in HnswLabels => indices[cur[t]] \in HnswIndex,
         pc'[t] \in IvfLabels => indices[cur[t]] \in IvfIndex,
         pc'[t] \notin {"euIds", "euScan", "fetch"}, Others(t), CallOK(t)',
         UNCHANGED <<vectors, vec_mutex, idx_mutex, call, batch, todo, cur, ret, accepting>>,
         mutex' \in [Names -> Mutex(Threads)], pc' \in [Threads -> Labels],
         left' \in [Threads -> SUBSET Ids], seen' \in [Threads -> Stored],
         since_read' \in [Threads -> Nat]
  PROVE  StepOK(t)
<1>1. KindsStay /\ indices' \in [Names -> Index \cup {Nil}]
  BY OneKind DEF TypeInv
<1>2. TypeOK'
  BY <1>1 DEF TypeInv, TypeOK
<1>3. todo'[t] \subseteq Installed'
  BY <1>1, IndexAssumption DEF TypeInv, TypeOK, CursorOK, Installed, KindsStay, Index
<1>4. CursorOK(t)'
  BY <1>1, <1>3 DEF CursorOK, TypeInv, TypeOK, KindsStay
<1> QED
  BY <1>1, <1>2, <1>4 DEF StepOK

LEMMA ReadEachOK ==
  ASSUME TypeInv, NEW t \in Threads, ReadEach(t)
  PROVE  StepOK(t)
<1>1. PICK id \in left[t] : ReadNext(t, id) /\ Keep(t, id)
  BY DEF ReadEach
<1>2. id \in Ids /\ vectors[id] \in Vals \cup {Nil}
  BY DEF TypeInv, TypeOK, Stored
<1>3. seen' \in [Threads -> Stored] /\ left' \in [Threads -> SUBSET Ids]
  BY <1>1, <1>2 DEF Keep, ReadNext, TypeInv, TypeOK, Stored
<1>4. Others(t) /\ CallOK(t)' /\ CursorOK(t)'
  BY <1>1 DEF ReadEach, ReadNext, Keep, Others, CallOK, CursorOK, TypeInv, store, Installed
<1> QED
  BY <1>3, <1>4, QuietOK DEF ReadEach, TypeInv, TypeOK, store, locks

LEMMA BatchCount ==
  ASSUME TypeOK, NEW t \in Threads
  PROVE  Cardinality(batch[t]) \in Nat
  BY IdsAssumption, FS_Subset, FS_CardinalityType DEF TypeOK

LEMMA LiveType == TypeOK => Live \in SUBSET Ids
  BY DEF Live, Present

LEMMA IvfHookOK ==
  ASSUME TypeInv, NEW t \in Threads, IvfHook(t)
  PROVE  StepOK(t)
<1>1. pc[t] \in IvfLabels \ {"ivProbe"}
  BY DEF IvfHook, IvfLoad, IvfStore, FileLock, FileOne, FileDone, IvfUnfile, BuildLock,
         BuildIds, BuildThrow, BuildRead, BuildDone, IvfLabels
<1>2. /\ cur[t] \in Names /\ indices[cur[t]] \in IvfIndex /\ indices[cur[t]] \in Index
      /\ call[t] \in Requests /\ call[t].op \in {"add", "remove"}
      /\ mutex[cur[t]] \in Mutex(Threads)
  BY <1>1 DEF TypeInv, TypeOK, CallOK, CursorOK, IvfLabels, HookLabels, Index
<1> DEFINE i == indices[cur[t]]
<1>3. CASE IvfLoad(t)
  <2>1. i.since \in Nat
    BY <1>2 DEF IvfIndex
  <2>2. Others(t) /\ CallOK(t)' /\ CursorOK(t)'
    BY <1>2, <1>3 DEF IvfLoad, Goto, Others, CallOK, CursorOK, TypeInv, TypeOK, store, Installed,
                      HookLabels, HnswLabels, IvfLabels
  <2> QED
    BY <1>3, <2>1, <2>2, QuietOK DEF IvfLoad, Goto, TypeInv, TypeOK, store, locks, Labels
<1>4. CASE IvfStore(t)
  <2> DEFINE count == since_read[t] + Cardinality(batch[t])
             next == [i EXCEPT !.since = count]
             label == IF count >= Threshold THEN "buildLock"
                      ELSE IF call[t].op = "add" THEN "fileLock" ELSE "ivfUnfile"
  <2>1. count \in Nat
    BY BatchCount DEF TypeInv, TypeOK
  <2>2. next \in IvfIndex /\ next \in Index
    BY <1>2, <2>1, IvfTypes, EmptyType DEF Index
  <2>3. label \in {"buildLock", "fileLock", "ivfUnfile"}
    OBVIOUS
  <2>4. /\ indices' = [indices EXCEPT ![cur[t]] = next]
        /\ pc' = [pc EXCEPT ![t] = label]
        /\ since_read' = [since_read EXCEPT ![t] = 0]
        /\ UNCHANGED <<vectors, locks, call, batch, left, todo, cur, seen, ret, accepting>>
    BY <1>4 DEF IvfStore, SetIndex, Goto
  <2> HIDE DEF label, next, count
  <2>5. Others(t) /\ CallOK(t)'
    BY <1>2, <2>3, <2>4 DEF Others, CallOK, TypeInv, TypeOK, HookLabels
  <2>6. /\ pc'[t] \notin HnswLabels /\ pc'[t] \notin {"euIds", "euScan", "fetch"}
        /\ pc' \in [Threads -> Labels] /\ since_read' \in [Threads -> Nat]
    BY <2>3, <2>4 DEF TypeInv, TypeOK, HnswLabels, Labels
  <2> QED
    BY <1>2, <2>2, <2>4, <2>5, <2>6, WriteOK DEF TypeInv, TypeOK, locks
<1>5. CASE FileLock(t)
  <2>1. Others(t) /\ CallOK(t)' /\ CursorOK(t)'
    BY <1>2, <1>5 DEF FileLock, StartLoop, Goto, Others, CallOK, CursorOK, TypeInv, TypeOK, store,
                      Installed, HookLabels, HnswLabels, IvfLabels
  <2> QED
    BY <1>2, <1>5, <2>1, QuietOK, MutexTypes, EmptyType
    DEF FileLock, LockCur, StartLoop, Goto, TypeInv, TypeOK, store, Labels
<1>6. CASE FileOne(t)
  <2>1. PICK id \in left[t] :
          /\ ReadNext(t, id)
          /\ \/ vectors[id] = Nil /\ UNCHANGED <<indices, pc>>
             \/ vectors[id] # Nil /\ i.built /\ SetIndex(t, IvfFiled(i, id, vectors[id])) /\ UNCHANGED pc
             \/ vectors[id] # Nil /\ ~i.built /\ Goto(t, "undefined") /\ UNCHANGED indices
    BY <1>6 DEF FileOne
  <2>2. id \in Ids /\ vectors[id] \in Vals \cup {Nil} /\ left' \in [Threads -> SUBSET Ids]
    BY <2>1 DEF ReadNext, TypeInv, TypeOK, Stored
  <2>3. pc' \in [Threads -> Labels] /\ pc'[t] \in {"file", "undefined"} /\ call' = call
    BY <1>6, <2>1 DEF FileOne, Goto, TypeInv, TypeOK, Labels
  <2>4. Others(t) /\ CallOK(t)'
    BY <1>2, <1>6, <2>1, <2>3 DEF FileOne, ReadNext, Goto, Others, CallOK, TypeInv, TypeOK, HookLabels
  <2>5. CASE vectors[id] # Nil /\ i.built
    <3>1. IvfFiled(i, id, vectors[id]) \in IvfIndex
      BY <1>2, <2>2, <2>5, IvfFiledType
    <3>2. indices' = [indices EXCEPT ![cur[t]] = IvfFiled(i, id, vectors[id])]
      BY <2>1, <2>5 DEF SetIndex
    <3>3. pc'[t] \notin HnswLabels /\ pc'[t] \notin {"euIds", "euScan", "fetch"}
      BY <2>3 DEF HnswLabels
    <3>4. IvfFiled(i, id, vectors[id]) \in Index
      BY <3>1 DEF Index
    <3> QED
      BY <1>2, <1>6, <2>2, <2>3, <2>4, <3>1, <3>2, <3>3, <3>4, WriteOK
      DEF FileOne, TypeInv, TypeOK, locks
  <2>6. CASE ~(vectors[id] # Nil /\ i.built)
    <3>1. indices' = indices
      BY <2>1, <2>6
    <3>2. CursorOK(t)'
      BY <1>2, <1>6, <2>3, <3>1 DEF FileOne, CursorOK, TypeInv, Installed, HnswLabels, IvfLabels
    <3> QED
      BY <1>6, <2>2, <2>3, <2>4, <3>1, <3>2, QuietOK DEF FileOne, TypeInv, TypeOK, store, locks
  <2> QED
    BY <2>5, <2>6
<1>7. CASE FileDone(t)
  <2>1. Others(t) /\ CallOK(t)' /\ CursorOK(t)'
    BY <1>2, <1>7 DEF FileDone, Goto, Others, CallOK, CursorOK, TypeInv, TypeOK, store, locals,
                      Installed, HookLabels, HnswLabels, IvfLabels
  <2> QED
    BY <1>2, <1>7, <2>1, QuietOK, MutexTypes
    DEF FileDone, UnlockCur, Goto, TypeInv, TypeOK, store, locals, Labels
<1>8. CASE IvfUnfile(t)
  <2>1. PICK pick \in IvfPicks(i, batch[t]) : indices' = [indices EXCEPT ![cur[t]] = IvfUnfiled(i, pick)]
    BY <1>8 DEF IvfUnfile, SetIndex
  <2>2. IvfUnfiled(i, pick) \in IvfIndex /\ IvfUnfiled(i, pick) \in Index
    BY <1>2, IvfUnfiledType DEF TypeInv, TypeOK, Index
  <2>3. Others(t) /\ CallOK(t)'
    BY <1>2, <1>8 DEF IvfUnfile, Goto, Others, CallOK, TypeInv, TypeOK, HookLabels, locals
  <2>4. /\ pc'[t] \notin HnswLabels /\ pc'[t] \notin IvfLabels /\ pc'[t] \notin {"euIds", "euScan", "fetch"}
        /\ pc' \in [Threads -> Labels] /\ mutex' \in [Names -> Mutex(Threads)]
    BY <1>2, <1>8, MutexTypes DEF IvfUnfile, UnlockCur, Goto, TypeInv, TypeOK, HnswLabels, IvfLabels, Labels
  <2> QED
    BY <1>2, <1>8, <2>1, <2>2, <2>3, <2>4, WriteOK DEF IvfUnfile, TypeInv, TypeOK, locals
<1>9. CASE BuildLock(t)
  <2>1. indices' = [indices EXCEPT ![cur[t]] = IvfCleared(i)]
    BY <1>9 DEF BuildLock, SetIndex
  <2>2. IvfCleared(i) \in IvfIndex /\ IvfCleared(i) \in Index
    BY <1>2, IvfTypes, EmptyType DEF Index
  <2>3. Others(t) /\ CallOK(t)'
    BY <1>2, <1>9 DEF BuildLock, Goto, Others, CallOK, TypeInv, TypeOK, HookLabels, locals
  <2>4. /\ pc'[t] \notin HnswLabels /\ pc'[t] \notin {"euIds", "euScan", "fetch"}
        /\ pc' \in [Threads -> Labels] /\ mutex' \in [Names -> Mutex(Threads)]
    BY <1>2, <1>9, MutexTypes DEF BuildLock, LockCur, Goto, TypeInv, TypeOK, HnswLabels, Labels
  <2> QED
    BY <1>2, <1>9, <2>1, <2>2, <2>3, <2>4, WriteOK DEF BuildLock, TypeInv, TypeOK, locals
<1>10. CASE BuildIds(t)
  <2>1. Others(t) /\ CallOK(t)' /\ CursorOK(t)'
    BY <1>2, <1>10 DEF BuildIds, ReadIds, StartLoop, Goto, Others, CallOK, CursorOK, TypeInv, TypeOK,
                       store, Installed, HookLabels, HnswLabels, IvfLabels
  <2> QED
    BY <1>10, <2>1, QuietOK, EmptyType, LiveType
    DEF BuildIds, ReadIds, StartLoop, Goto, TypeInv, TypeOK, store, locks, Labels
<1>11. CASE BuildThrow(t)
  <2>1. Reply(t, NoAnswer) /\ UNCHANGED <<store, call, accepting>> /\ KindsStay /\ pc[t] = "buildIds"
    BY <1>11, SameKinds DEF BuildThrow, TypeInv, store
  <2>2. /\ vec_mutex' \in Mutex(Threads) /\ idx_mutex' \in Mutex(Threads)
        /\ mutex' \in [Names -> Mutex(Threads)]
    BY <1>2, <1>11, MutexTypes DEF BuildThrow, UnlockCur, TypeInv, TypeOK
  <2> QED
    BY <2>1, <2>2, AnswerTypes, ReplyOK DEF TypeInv, TypeOK, store
<1>12. CASE BuildRead(t)
  BY <1>12, ReadEachOK DEF BuildRead
<1>13. CASE BuildDone(t)
  <2>1. indices' = [indices EXCEPT ![cur[t]] = IvfRebuilt(i, seen[t])]
    BY <1>13 DEF BuildDone, SetIndex
  <2>2. IvfRebuilt(i, seen[t]) \in IvfIndex /\ IvfRebuilt(i, seen[t]) \in Index
    BY <1>2, IvfTypes DEF Index, TypeInv, TypeOK
  <2>3. Others(t) /\ CallOK(t)'
    BY <1>2, <1>13 DEF BuildDone, Goto, Others, CallOK, TypeInv, TypeOK, HookLabels
  <2>4. /\ pc'[t] \notin HnswLabels /\ pc'[t] \notin IvfLabels /\ pc'[t] \notin {"euIds", "euScan", "fetch"}
        /\ pc' \in [Threads -> Labels] /\ mutex' \in [Names -> Mutex(Threads)]
        /\ seen' \in [Threads -> Stored]
    BY <1>2, <1>13, MutexTypes, EmptyType
    DEF BuildDone, UnlockCur, Goto, TypeInv, TypeOK, HnswLabels, IvfLabels, Labels
  <2> QED
    BY <1>2, <1>13, <2>1, <2>2, <2>3, <2>4, WriteOK DEF BuildDone, TypeInv, TypeOK
<1> QED
  BY <1>3, <1>4, <1>5, <1>6, <1>7, <1>8, <1>9, <1>10, <1>11, <1>12, <1>13 DEF IvfHook

-----------------------------------------------------------------------------
(* add_index *)

LEMMA AddIndexOK ==
  ASSUME TypeInv, NEW t \in Threads, AddIndex(t)
  PROVE  StepOK(t)
<1>1. CASE IxLock(t)
  <2>1. call[t] \in Requests /\ call[t] \in Request /\ pc[t] = "ixLock"
    BY <1>1, RequestAssumption DEF IxLock, TypeInv, CallOK
  <2>2. KindsStay
    BY <1>1, SameKinds DEF IxLock, TypeInv, store
  <2>3. CASE call[t].kind = "unknown"
    <3>1. Reply(t, NoAnswer)
      BY <1>1, <2>3 DEF IxLock
    <3>2. UNCHANGED <<store, locks, call, accepting>>
      BY <1>1, <2>3 DEF IxLock, locks
    <3> QED
      BY <2>1, <2>2, <3>1, <3>2, ReplyOK, AnswerTypes DEF TypeInv, TypeOK, store, locks
  <2>4. CASE call[t].kind # "unknown"
    <3>1. /\ idx_mutex' = Lock(idx_mutex, t) /\ Goto(t, "ixIds")
          /\ UNCHANGED <<locals, ret, store, vec_mutex, mutex, call, accepting>>
      BY <1>1, <2>4 DEF IxLock
    <3>2. call[t].kind \in Kinds
      BY <2>1, <2>4 DEF Request
    <3>3. Others(t) /\ CallOK(t)' /\ CursorOK(t)'
      BY <2>1, <3>1, <3>2 DEF Goto, Others, CallOK, CursorOK, TypeInv, TypeOK, store, locals,
                              Installed, HookLabels, HnswLabels, IvfLabels
    <3> QED
      BY <3>1, <3>3, QuietOK, MutexTypes DEF Goto, TypeInv, TypeOK, store, locals, Labels
  <2> QED
    BY <2>3, <2>4
<1>2. CASE IxIds(t)
  <2>1. Others(t) /\ CallOK(t)' /\ CursorOK(t)'
    BY <1>2 DEF IxIds, ReadIds, StartLoop, Goto, Others, CallOK, CursorOK, TypeInv, TypeOK,
                store, Installed, HookLabels, HnswLabels, IvfLabels
  <2> QED
    BY <1>2, <2>1, QuietOK, EmptyType, LiveType
    DEF IxIds, ReadIds, StartLoop, Goto, TypeInv, TypeOK, store, locks, Labels
<1>3. CASE IxRead(t)
  BY <1>3, ReadEachOK DEF IxRead
<1>4. CASE IxInstall(t)
  <2> DEFINE n == call[t].name
             new == Fresh(call[t], seen[t])
  <2>1. call[t] \in Requests /\ call[t].kind \in Kinds /\ pc[t] # "idle"
    BY <1>4 DEF IxInstall, TypeInv, CallOK
  <2>2. n \in Names /\ call[t].k \in Nat
    BY <2>1, RequestAssumption DEF Request
  <2>3. new \in Index
    BY <2>1, <2>2, FreshTypes DEF TypeInv, TypeOK, Index, Kinds
  <2>4. indices' = [indices EXCEPT ![n] = IF @ = Nil THEN new ELSE @]
    BY <1>4 DEF IxInstall
  <2> HIDE DEF n, new
  <2>5. indices' \in [Names -> Index \cup {Nil}]
    BY <2>2, <2>3, <2>4 DEF TypeInv, TypeOK
  <2>6. \A m \in Names : indices[m] \in Index => indices'[m] = indices[m]
    BY <2>2, <2>4, IndexAssumption DEF TypeInv, TypeOK
  <2>7. KindsStay
    BY <2>5, <2>6 DEF KindsStay, Index
  <2>8. [ok |-> TRUE, ids |-> {}, got |-> Empty] \in Answer
    BY EmptyType DEF Answer
  <2> QED
    BY <1>4, <2>1, <2>5, <2>7, <2>8, ReplyOK, MutexTypes DEF IxInstall, TypeInv, TypeOK
<1> QED
  BY <1>1, <1>2, <1>3, <1>4 DEF AddIndex

-----------------------------------------------------------------------------
(* search_for_top_k *)

LEMMA SeEndOK ==
  ASSUME TypeInv, NEW t \in Threads, NEW a \in Answer, pc[t] # "idle", SeEnd(t, a)
  PROVE  StepOK(t)
<1>1. /\ vec_mutex' \in Mutex(Threads) /\ idx_mutex' \in Mutex(Threads)
      /\ mutex' \in [Names -> Mutex(Threads)]
  BY MutexTypes DEF SeEnd, TypeInv, TypeOK
<1> QED
  BY <1>1, ReplyOK, SameKinds DEF SeEnd, TypeInv, TypeOK, store

LEMMA ReadOrFailOK ==
  ASSUME TypeInv, NEW t \in Threads, NEW tolerant, pc[t] # "idle", ReadOrFail(t, tolerant)
  PROVE  StepOK(t)
<1>1. CASE SeEnd(t, NoAnswer)
  BY <1>1, SeEndOK, AnswerTypes
<1>2. CASE /\ \E id \in left[t] : ReadNext(t, id) /\ Keep(t, id)
           /\ UNCHANGED <<store, locks, pc, call, batch, todo, cur, since_read, ret, accepting>>
  BY <1>2, ReadEachOK DEF ReadEach
<1> QED
  BY <1>1, <1>2 DEF ReadOrFail

\* A search that starts to read back what it has found.
LEMMA FetchOK ==
  ASSUME TypeInv, NEW t \in Threads, NEW best \in SUBSET Ids, StartLoop(t, best, "fetch"),
         pc[t] # "idle", cur[t] = Nil \/ (cur[t] \in Names /\ indices[cur[t]] \in Index),
         mutex' \in [Names -> Mutex(Threads)],
         UNCHANGED <<store, vec_mutex, idx_mutex, call, batch, todo, cur, since_read, ret, accepting>>
  PROVE  StepOK(t)
<1>1. Others(t) /\ CallOK(t)' /\ CursorOK(t)'
  BY DEF StartLoop, Goto, Others, CallOK, CursorOK, TypeInv, TypeOK, store, Installed,
         HookLabels, HnswLabels, IvfLabels
<1> QED
  BY <1>1, QuietOK, EmptyType DEF StartLoop, Goto, TypeInv, TypeOK, store, Labels

LEMMA BruteForceOK ==
  ASSUME TypeInv, NEW t \in Threads,
         SeIdx(t) \/ SeVec(t) \/ EuIds(t) \/ EuScan(t) \/ EuTop(t)
  PROVE  StepOK(t)
<1>1. CASE SeIdx(t)
  <2>1. Others(t) /\ CallOK(t)' /\ CursorOK(t)'
    BY <1>1 DEF SeIdx, Goto, Others, CallOK, CursorOK, TypeInv, TypeOK, store, locals,
                Installed, HookLabels, HnswLabels, IvfLabels
  <2> QED
    BY <1>1, <2>1, QuietOK, MutexTypes DEF SeIdx, Goto, TypeInv, TypeOK, store, locals, Labels
<1>2. CASE SeVec(t)
  <2> DEFINE n == call[t].name
             next == IF indices[n] = Nil THEN Nil ELSE n
  <2>1. n \in Names
    BY <1>2, RequestAssumption DEF SeVec, TypeInv, CallOK, Request
  <2>2. indices[n] = Nil \/ indices[n] \in Index
    BY <2>1 DEF TypeInv, TypeOK
  <2>3. /\ SearchLabel(indices[n]) \in {"euIds", "hnCheck", "ivProbe"}
        /\ SearchLabel(indices[n]) = "euIds" => next = Nil
        /\ SearchLabel(indices[n]) = "hnCheck" => indices[n] \in HnswIndex /\ next = n
        /\ SearchLabel(indices[n]) = "ivProbe" => indices[n] \in IvfIndex /\ next = n
    BY <2>2, KindOf DEF SearchLabel, Index
  <2>4. next \in Names \cup {Nil}
    BY <2>1
  <2>5. /\ cur' = [cur EXCEPT ![t] = next] /\ Goto(t, SearchLabel(indices[n]))
        /\ vec_mutex' = Share(vec_mutex, t) /\ pc[t] # "idle"
        /\ UNCHANGED <<store, idx_mutex, mutex, call, batch, left, todo, seen, since_read, ret, accepting>>
    BY <1>2 DEF SeVec
  <2> HIDE DEF next, n
  <2>6. pc'[t] = SearchLabel(indices[n]) /\ cur'[t] = next /\ Others(t)
    BY <2>5 DEF Goto, Others, TypeInv, TypeOK
  <2>7. CallOK(t)'
    BY <2>3, <2>5, <2>6 DEF CallOK, TypeInv, HookLabels
  <2>8. CursorOK(t)'
    BY <2>1, <2>3, <2>5, <2>6 DEF CursorOK, TypeInv, store, Installed, HnswLabels, IvfLabels
  <2> QED
    BY <2>3, <2>4, <2>5, <2>6, <2>7, <2>8, QuietOK, MutexTypes DEF Goto, TypeInv, TypeOK, store, Labels
<1>3. CASE EuIds(t)
  <2>1. Others(t) /\ CallOK(t)' /\ CursorOK(t)'
    BY <1>3 DEF EuIds, ReadIds, StartLoop, Goto, Others, CallOK, CursorOK, TypeInv, TypeOK,
                store, Installed, HookLabels, HnswLabels, IvfLabels
  <2> QED
    BY <1>3, <2>1, QuietOK, EmptyType, LiveType
    DEF EuIds, ReadIds, StartLoop, Goto, TypeInv, TypeOK, store, locks, Labels
<1>4. CASE EuScan(t)
  BY <1>4, ReadOrFailOK DEF EuScan
<1>5. CASE EuTop(t)
  <2>1. PICK best \in SUBSET Present(seen[t]) : StartLoop(t, best, "fetch")
    BY <1>5 DEF EuTop
  <2> QED
    BY <1>5, <2>1, FetchOK DEF EuTop, Present, TypeInv, TypeOK, CursorOK, locks
<1> QED
  BY <1>1, <1>2, <1>3, <1>4, <1>5

LEMMA HnswSearchOK ==
  ASSUME TypeInv, NEW t \in Threads,
         \/ HnCheck(t) \/ HnBuild(t) \/ HnInsert(t) \/ HnBuilt(t) \/ HnRelock(t) \/ HnKnn(t)
  PROVE  StepOK(t)
<1>1. pc[t] \in HnswLabels \ {"hnswNote"}
  BY DEF HnCheck, HnBuild, HnInsert, HnBuilt, HnRelock, HnKnn, HnswLabels
<1>2. /\ cur[t] \in Names /\ indices[cur[t]] \in HnswIndex /\ indices[cur[t]] \in Index
      /\ call[t] \in Requests /\ mutex[cur[t]] \in Mutex(Threads)
  BY <1>1 DEF TypeInv, TypeOK, CallOK, CursorOK, HnswLabels, Index
<1> DEFINE i == indices[cur[t]]
<1>3. CASE HnCheck(t)
  <2>1. /\ pc' \in [Threads -> Labels] /\ pc'[t] \in {"hnBuild", "hnKnn"}
        /\ mutex' \in [Names -> Mutex(Threads)]
    <3>1. \E label \in {"hnBuild", "hnKnn"} : pc' = [pc EXCEPT ![t] = label]
      BY <1>3 DEF HnCheck, Goto
    <3>2. mutex' = mutex \/ mutex' = [mutex EXCEPT ![cur[t]] = Share(mutex[cur[t]], t)]
      BY <1>3 DEF HnCheck
    <3>3. Share(mutex[cur[t]], t) \in Mutex(Threads)
      BY <1>2, MutexTypes
    <3>4. mutex' \in [Names -> Mutex(Threads)]
      BY <1>2, <3>2, <3>3 DEF TypeInv, TypeOK
    <3> QED
      BY <3>1, <3>4 DEF TypeInv, TypeOK, Labels
  <2>2. Others(t)
    BY <1>3 DEF HnCheck, Goto, Others, TypeInv, TypeOK, locals
  <2>3. CallOK(t)' /\ CursorOK(t)'
    BY <1>2, <1>3, <2>1 DEF HnCheck, CallOK, CursorOK, TypeInv, TypeOK, store, locals, Installed,
                            HookLabels, HnswLabels, IvfLabels
  <2> QED
    BY <1>3, <2>1, <2>2, <2>3, QuietOK DEF HnCheck, TypeInv, TypeOK, store, locals
<1>4. CASE HnBuild(t)
  <2>1. indices' = [indices EXCEPT ![cur[t]] = HnswPruned(i)]
    BY <1>4 DEF HnBuild, SetIndex
  <2>2. HnswPruned(i) \in HnswIndex /\ HnswPruned(i) \in Index /\ i.to_be_inserted \in SUBSET Ids
    BY <1>2, HnswTypes DEF Index, HnswIndex
  <2>3. Others(t) /\ CallOK(t)'
    BY <1>2, <1>4 DEF HnBuild, StartLoop, Goto, Others, CallOK, TypeInv, TypeOK, HookLabels
  <2>4. /\ pc'[t] \notin IvfLabels /\ pc'[t] \notin {"euIds", "euScan", "fetch"}
        /\ pc' \in [Threads -> Labels] /\ mutex' \in [Names -> Mutex(Threads)]
        /\ left' \in [Threads -> SUBSET Ids] /\ seen' \in [Threads -> Stored]
    BY <1>2, <1>4, <2>2, MutexTypes, EmptyType
    DEF HnBuild, StartLoop, LockCur, Goto, TypeInv, TypeOK, IvfLabels, Labels
  <2> QED
    BY <1>2, <1>4, <2>1, <2>2, <2>3, <2>4, WriteOK DEF HnBuild, TypeInv, TypeOK
<1>5. CASE HnInsert(t)
  <2>1. PICK id \in left[t] :
          ReadNext(t, id) /\ SetIndex(t, HnswInserted(i, id, vectors[id]))
    BY <1>5 DEF HnInsert
  <2>2. id \in Ids /\ vectors[id] \in Vals \cup {Nil} /\ left' \in [Threads -> SUBSET Ids]
    BY <2>1 DEF ReadNext, TypeInv, TypeOK, Stored
  <2>3. /\ HnswInserted(i, id, vectors[id]) \in HnswIndex
        /\ HnswInserted(i, id, vectors[id]) \in Index
    BY <1>2, <2>2, HnswTypes DEF Index
  <2>4. indices' = [indices EXCEPT ![cur[t]] = HnswInserted(i, id, vectors[id])]
    BY <2>1 DEF SetIndex
  <2>5. Others(t) /\ CallOK(t)'
    BY <1>5, <2>1 DEF HnInsert, ReadNext, Others, CallOK, TypeInv, TypeOK
  <2>6. pc'[t] \notin IvfLabels /\ pc'[t] \notin {"euIds", "euScan", "fetch"}
    BY <1>5 DEF HnInsert, IvfLabels
  <2> QED
    BY <1>2, <1>5, <2>2, <2>3, <2>4, <2>5, <2>6, WriteOK DEF HnInsert, TypeInv, TypeOK, locks
<1>6. CASE HnBuilt(t)
  <2>1. indices' = [indices EXCEPT ![cur[t]] = HnswSettled(i)]
    BY <1>6 DEF HnBuilt, SetIndex
  <2>2. HnswSettled(i) \in HnswIndex /\ HnswSettled(i) \in Index
    BY <1>2, HnswTypes DEF Index
  <2>3. Others(t) /\ CallOK(t)'
    BY <1>2, <1>6 DEF HnBuilt, Goto, Others, CallOK, TypeInv, TypeOK, HookLabels, locals
  <2>4. /\ pc'[t] \notin IvfLabels /\ pc'[t] \notin {"euIds", "euScan", "fetch"}
        /\ pc' \in [Threads -> Labels] /\ mutex' \in [Names -> Mutex(Threads)]
    BY <1>2, <1>6, MutexTypes DEF HnBuilt, UnlockCur, Goto, TypeInv, TypeOK, IvfLabels, Labels
  <2> QED
    BY <1>2, <1>6, <2>1, <2>2, <2>3, <2>4, WriteOK DEF HnBuilt, TypeInv, TypeOK, locals
<1>7. CASE HnRelock(t)
  <2>1. Others(t) /\ CallOK(t)' /\ CursorOK(t)'
    BY <1>2, <1>7 DEF HnRelock, Goto, Others, CallOK, CursorOK, TypeInv, TypeOK, store, locals,
                      Installed, HookLabels, HnswLabels, IvfLabels
  <2> QED
    BY <1>2, <1>7, <2>1, QuietOK, MutexTypes DEF HnRelock, Goto, TypeInv, TypeOK, store, locals, Labels
<1>8. CASE HnKnn(t)
  <2>1. PICK best \in SUBSET HnswReach(i) : StartLoop(t, best, "fetch")
    BY <1>8 DEF HnKnn
  <2>2. best \in SUBSET Ids
    BY <1>2, <2>1 DEF HnswReach, Present, HnswIndex
  <2> QED
    BY <1>2, <1>8, <2>1, <2>2, FetchOK DEF HnKnn, TypeInv, TypeOK, locks
<1> QED
  BY <1>3, <1>4, <1>5, <1>6, <1>7, <1>8

LEMMA SearchOK ==
  ASSUME TypeInv, NEW t \in Threads, Search(t)
  PROVE  StepOK(t)
<1>1. CASE IvProbe(t)
  <2>1. /\ cur[t] \in Names /\ indices[cur[t]] \in Index /\ pc[t] # "idle"
        /\ mutex[cur[t]] \in Mutex(Threads)
    BY <1>1 DEF IvProbe, TypeInv, TypeOK, CursorOK, IvfLabels, Index
  <2>2. CASE SeEnd(t, NoAnswer)
    BY <2>1, <2>2, SeEndOK, AnswerTypes
  <2>3. CASE /\ mutex' = [mutex EXCEPT ![cur[t]] = Share(@, t)]
             /\ \E probed \in SUBSET IvfHolds(indices[cur[t]]) : StartLoop(t, probed, "fetch")
             /\ UNCHANGED <<store, vec_mutex, idx_mutex, call, batch, todo, cur, since_read, ret, accepting>>
    <3>1. PICK probed \in SUBSET IvfHolds(indices[cur[t]]) : StartLoop(t, probed, "fetch")
      BY <2>3
    <3>2. probed \in SUBSET Ids /\ mutex' \in [Names -> Mutex(Threads)]
      BY <2>1, <2>3, MutexTypes DEF IvfHolds, TypeInv, TypeOK
    <3> QED
      BY <2>1, <2>3, <3>1, <3>2, FetchOK
  <2> QED
    BY <1>1, <2>2, <2>3 DEF IvProbe
<1>2. CASE Fetch(t)
  BY <1>2, ReadOrFailOK DEF Fetch
<1>3. CASE SeDone(t)
  <2>1. PICK best \in SUBSET Present(seen[t]) :
          SeEnd(t, [ok |-> IsIvf(t) => best # {}, ids |-> {},
                    got |-> [id \in Ids |-> IF id \in best THEN seen[t][id] ELSE Nil]])
    BY <1>3 DEF SeDone
  <2>2. [id \in Ids |-> IF id \in best THEN seen[t][id] ELSE Nil] \in Stored
    BY DEF TypeInv, TypeOK, Stored
  <2>3. (IsIvf(t) => best # {}) \in BOOLEAN /\ pc[t] # "idle"
    BY <1>3 DEF SeDone
  <2> QED
    BY <2>1, <2>2, <2>3, AnswerTypes, SeEndOK
<1> QED
  BY <1>1, <1>2, <1>3, BruteForceOK, HnswSearchOK DEF Search

LEMMA ReadOnlyOK ==
  ASSUME TypeInv, NEW t \in Threads, SvVec(t) \/ SvIdx(t) \/ GetParams(t)
  PROVE  StepOK(t)
<1>1. CASE SvVec(t)
  <2>1. Others(t) /\ CallOK(t)' /\ CursorOK(t)'
    BY <1>1 DEF SvVec, Goto, Others, CallOK, CursorOK, TypeInv, TypeOK, store, locals,
                Installed, HookLabels, HnswLabels, IvfLabels
  <2> QED
    BY <1>1, <2>1, QuietOK, MutexTypes DEF SvVec, Goto, TypeInv, TypeOK, store, locals, Labels
<1>2. CASE SvIdx(t)
  <2>1. [ok |-> TRUE, ids |-> {}, got |-> vectors] \in Answer
    BY DEF TypeInv, TypeOK, Answer
  <2> QED
    BY <1>2, <2>1, ReplyOK, SameKinds, MutexTypes DEF SvIdx, TypeInv, TypeOK, store
<1>3. CASE GetParams(t)
  <2>1. [ok |-> indices[call[t].name] # Nil, ids |-> {}, got |-> Empty] \in Answer
    BY EmptyType DEF Answer
  <2> QED
    BY <1>3, <2>1, ReplyOK, SameKinds DEF GetParams, TypeInv, TypeOK, store, locks
<1> QED
  BY <1>1, <1>2, <1>3

-----------------------------------------------------------------------------
LEMMA ThreadStep ==
  ASSUME TypeInv, NEW t \in Threads, Begin(t) \/ Step(t)
  PROVE  StepOK(t)
  BY ClientOK, AnnounceOK, UpdateOK, IvfHookOK, AddIndexOK, SearchOK, ReadOnlyOK DEF Step

LEMMA TypeStep == TypeInv /\ [Next]_vars => TypeInv'
<1> SUFFICES ASSUME TypeInv, [Next]_vars PROVE TypeInv'
  OBVIOUS
<1>1. ASSUME NEW t \in Threads, Begin(t) \/ Step(t) PROVE TypeInv'
  <2>1. StepOK(t)
    BY <1>1, ThreadStep
  <2> QED
    BY <2>1, StepOKSuffices
<1>2. CASE StopCalls
  <2>1. TypeOK'
    BY <1>2 DEF StopCalls, TypeInv, TypeOK, store, locks, locals
  <2>2. ASSUME NEW u \in Threads PROVE CallOK(u)' /\ CursorOK(u)'
    BY <1>2 DEF StopCalls, TypeInv, CallOK, CursorOK, Installed, store, locals
  <2> QED
    BY <2>1, <2>2 DEF TypeInv
<1>3. CASE UNCHANGED vars
  <2>1. TypeOK'
    BY <1>3 DEF vars, TypeInv, TypeOK, store, locks, locals
  <2>2. ASSUME NEW u \in Threads PROVE CallOK(u)' /\ CursorOK(u)'
    BY <1>3 DEF vars, TypeInv, CallOK, CursorOK, Installed, store, locals
  <2> QED
    BY <2>1, <2>2 DEF TypeInv
<1> QED
  BY <1>1, <1>2, <1>3 DEF Next, Rest

LEMMA TypeInvariant == Spec => []TypeInv
  BY InitType, TypeStep, PTL DEF Spec

\* Whatever calls are interleaved, and on either library, every index hook is
\* applied to an index of its own kind, every loop runs over ids of the
\* collection, and an ivf_flat index never counts an entry below zero.
THEOREM TypeCorrect == Spec => []TypeOK
<1>1. TypeInv => TypeOK
  BY DEF TypeInv
<1> QED
  BY <1>1, TypeInvariant, PTL

-----------------------------------------------------------------------------
(* What a search relies on.  It holds vec_mutex_ shared from its second     *)
(* lock to its end, and vectors_ changes only under the exclusive lock; so  *)
(* the ids it took stay there and what it has read stays what is there.     *)

SearchOf(t) ==
  /\ pc[t] \in Reading => t \in vec_mutex.r
  /\ pc[t] = "euScan" \/ (pc[t] = "fetch" /\ cur[t] = Nil) => left[t] \subseteq Live
  /\ pc[t] \in {"euScan", "fetch"} => \A id \in Ids : seen[t][id] \in {Nil, vectors[id]}

SearchInv == \A t \in Threads : SearchOf(t)

LEMMA MutexReaders ==
  ASSUME NEW m \in Mutex(Threads), NEW t \in Threads, NEW u \in Threads \ {t}, u \in m.r,
         NEW m1 \in {m, Lock(m, t), Unlock(m), Share(m, t), Unshare(m, t)}
  PROVE  u \in m1.r
  BY DEF Mutex, Lock, Unlock, Share, Unshare

\* Who writes vectors_ has vec_mutex_ to itself, and a thread drops no lock
\* but its own.
VectorsGuarded(t) ==
  /\ vectors' = vectors \/ vec_mutex.r = {}
  /\ vec_mutex' \in {vec_mutex, Lock(vec_mutex, t), Unlock(vec_mutex),
                     Share(vec_mutex, t), Unshare(vec_mutex, t)}

LEMMA Guarded ==
  ASSUME NEW t \in Threads, Begin(t) \/ Step(t)
  PROVE  VectorsGuarded(t)
<1>1. CASE Begin(t) \/ Return(t) \/ Announce(t)
  BY <1>1 DEF Begin, Return, Announce, VectorsGuarded, store, locks
<1>2. CASE Update(t)
  BY <1>2 DEF Update, AddWrite, RemErase, Notify, HookNext, HooksDone, HnswNote, VectorsGuarded,
              CanLock, store, locks
<1>3. CASE IvfHook(t)
  BY <1>3 DEF IvfHook, IvfLoad, IvfStore, FileLock, FileOne, FileDone, IvfUnfile, BuildLock,
              BuildIds, BuildThrow, BuildRead, BuildDone, ReadEach, VectorsGuarded, store, locks
<1>4. CASE AddIndex(t)
  BY <1>4 DEF AddIndex, IxLock, IxIds, IxRead, IxInstall, ReadEach, VectorsGuarded, store, locks
<1>5. CASE Search(t)
  BY <1>5 DEF Search, SeIdx, SeVec, EuIds, EuScan, EuTop, HnCheck, HnBuild, HnInsert, HnBuilt,
              HnRelock, HnKnn, IvProbe, Fetch, SeDone, ReadOrFail, SeEnd, VectorsGuarded, store, locks
<1>6. CASE SvVec(t) \/ SvIdx(t) \/ GetParams(t)
  BY <1>6 DEF SvVec, SvIdx, GetParams, VectorsGuarded, store, locks
<1> QED
  BY <1>1, <1>2, <1>3, <1>4, <1>5, <1>6 DEF Step

LEMMA SearchFrame ==
  ASSUME TypeInv, SearchInv, NEW t \in Threads, StepOK(t), VectorsGuarded(t), SearchOf(t)'
  PROVE  SearchInv'
<1>1. ASSUME NEW u \in Threads \ {t} PROVE SearchOf(u)'
  <2>1. pc'[u] = pc[u] /\ cur'[u] = cur[u] /\ left'[u] = left[u] /\ seen'[u] = seen[u]
    BY DEF StepOK, Others
  <2>2. pc[u] \in Reading => u \in vec_mutex'.r
    BY MutexReaders DEF SearchInv, SearchOf, VectorsGuarded, TypeInv, TypeOK
  <2>3. pc[u] \in Reading => vectors' = vectors
    BY DEF SearchInv, SearchOf, VectorsGuarded
  <2>4. "euScan" \in Reading /\ "fetch" \in Reading
    BY DEF Reading
  <2> QED
    BY <2>1, <2>2, <2>3, <2>4 DEF SearchInv, SearchOf, Live
<1> QED
  BY <1>1 DEF SearchInv

LEMMA NotReading ==
  ASSUME NEW t \in Threads, pc'[t] \notin Reading
  PROVE  SearchOf(t)'
  BY DEF SearchOf, Reading

\* What does not search leaves a thread outside the code that searches.
LEMMA NoSearchStep ==
  ASSUME TypeInv, SearchInv, NEW t \in Threads,
         \/ Begin(t) \/ Return(t) \/ Announce(t) \/ Update(t) \/ IvfHook(t) \/ AddIndex(t)
         \/ SvVec(t) \/ SvIdx(t) \/ GetParams(t)
  PROVE  SearchOf(t)'
<1>1. CASE Begin(t)
  <2>1. PICK c \in Requests : Goto(t, First(c))
    BY <1>1 DEF Begin
  <2>2. First(c) \notin Reading
    BY RequestAssumption DEF Request, Ops, First, Reading
  <2> QED
    BY <2>1, <2>2, NotReading DEF Goto, TypeInv, TypeOK
<1>2. CASE Return(t) \/ SvVec(t) \/ SvIdx(t) \/ GetParams(t)
  BY <1>2, NotReading DEF Return, SvVec, SvIdx, GetParams, Reply, Goto, TypeInv, TypeOK, Reading
<1>3. CASE Announce(t)
  <2>1. UNCHANGED <<vectors, pc, cur, left, seen>>
    BY <1>3 DEF Announce, store, locals
  <2>2. pc[t] \in Reading => vec_mutex' = vec_mutex
    BY <1>3 DEF Announce, Reading
  <2> QED
    BY <2>1, <2>2 DEF SearchInv, SearchOf, Live
<1>4. CASE Update(t)
  <2>1. CASE HookNext(t)
    <3>1. PICK n \in todo[t] : Goto(t, HookLabel(t, indices[n]))
      BY <2>1 DEF HookNext
    <3>2. n \in Names /\ indices[n] \in Index /\ call[t].op \in {"add", "remove"}
      BY <2>1, InstalledIndex DEF HookNext, TypeInv, TypeOK, CallOK, CursorOK, HookLabels
    <3>3. HookLabel(t, indices[n]) \in {"hnswNote", "ivfLoad", "buildLock", "hook"}
      BY <3>2, KindOf DEF HookLabel, Index, IvfIndex
    <3> QED
      BY <3>1, <3>3, NotReading DEF Goto, TypeInv, TypeOK, Reading
  <2>2. CASE AddWrite(t) \/ RemErase(t) \/ Notify(t) \/ HooksDone(t) \/ HnswNote(t)
    <3>1. \E label \in {"notify", "reply", "hook"} : Goto(t, label)
      BY <2>2 DEF AddWrite, RemErase, Notify, HooksDone, HnswNote, Reply
    <3> QED
      BY <3>1, NotReading DEF Goto, TypeInv, TypeOK, Reading
  <2> QED
    BY <1>4, <2>1, <2>2 DEF Update
<1>5. CASE IvfHook(t)
  <2>1. pc[t] \in IvfLabels \ {"ivProbe"}
    BY <1>5 DEF IvfHook, IvfLoad, IvfStore, FileLock, FileOne, FileDone, IvfUnfile, BuildLock,
                BuildIds, BuildThrow, BuildRead, BuildDone, IvfLabels
  <2>2. \/ pc' = pc
        \/ \E label \in IvfLabels \ {"ivProbe"} : Goto(t, label)
        \/ Goto(t, "hook") \/ Goto(t, "reply")
    BY <1>5 DEF IvfHook, IvfLoad, IvfStore, FileLock, FileOne, FileDone, IvfUnfile, BuildLock,
                BuildIds, BuildThrow, BuildRead, BuildDone, ReadIds, ReadEach, StartLoop, Reply,
                IvfLabels
  <2> QED
    BY <2>1, <2>2, NotReading DEF Goto, TypeInv, TypeOK, IvfLabels, Reading
<1>6. CASE AddIndex(t)
  <2>1. pc[t] \in {"ixLock", "ixIds", "ixRead"}
    BY <1>6 DEF AddIndex, IxLock, IxIds, IxRead, IxInstall
  <2>2. pc' = pc \/ \E label \in {"ixIds", "ixRead", "reply"} : Goto(t, label)
    BY <1>6 DEF AddIndex, IxLock, IxIds, IxRead, IxInstall, ReadIds, ReadEach, StartLoop, Reply
  <2> QED
    BY <2>1, <2>2, NotReading DEF Goto, TypeInv, TypeOK, Reading
<1> QED
  BY <1>1, <1>2, <1>3, <1>4, <1>5, <1>6

LEMMA StartedLoop ==
  ASSUME TypeInv, SearchInv, NEW t \in Threads, pc[t] \in Reading, NEW ids \in SUBSET Ids,
         NEW label \in {"euScan", "fetch"}, StartLoop(t, ids, label),
         label = "euScan" \/ cur[t] = Nil => ids \subseteq Live,
         UNCHANGED <<vectors, vec_mutex, cur>>
  PROVE  SearchOf(t)'
<1>1. pc'[t] = label /\ left'[t] = ids /\ seen'[t] = Empty
  BY DEF StartLoop, Goto, TypeInv, TypeOK
<1>2. Live' = Live
  BY DEF Live
<1>3. t \in vec_mutex'.r
  BY DEF SearchInv, SearchOf
<1> QED
  BY <1>1, <1>2, <1>3 DEF SearchOf, Empty

\* A read takes what is there, or ends the search.
LEMMA ReadOne ==
  ASSUME TypeInv, SearchInv, NEW t \in Threads, pc[t] \in Reading, NEW tolerant,
         ReadOrFail(t, tolerant)
  PROVE  SearchOf(t)'
<1>1. CASE SeEnd(t, NoAnswer)
  BY <1>1, NotReading DEF SeEnd, Reply, Goto, TypeInv, TypeOK, Reading
<1>2. CASE /\ \E id \in left[t] : ReadNext(t, id) /\ Keep(t, id)
           /\ UNCHANGED <<store, locks, pc, call, batch, todo, cur, since_read, ret, accepting>>
  <2>1. PICK id \in left[t] : ReadNext(t, id) /\ Keep(t, id)
    BY <1>2
  <2>2. UNCHANGED <<vectors, vec_mutex, pc, cur>> /\ Live' = Live
    BY <1>2 DEF store, locks, Live
  <2>3. left'[t] \subseteq left[t]
    BY <2>1 DEF ReadNext, TypeInv, TypeOK
  <2>4. \A x \in Ids : seen'[t][x] \in {seen[t][x], vectors[x]}
    BY <2>1 DEF Keep, TypeInv, TypeOK, Stored
  <2> QED
    BY <2>2, <2>3, <2>4 DEF SearchInv, SearchOf
<1> QED
  BY <1>1, <1>2 DEF ReadOrFail

LEMMA SearchStep ==
  ASSUME TypeInv, SearchInv, NEW t \in Threads, Search(t)
  PROVE  SearchOf(t)'
<1>1. CASE SeIdx(t)
  BY <1>1, NotReading DEF SeIdx, Goto, TypeInv, TypeOK, Reading
<1>2. CASE SeVec(t)
  <2>1. t \in vec_mutex'.r
    BY <1>2 DEF SeVec, Share, TypeInv, TypeOK, Mutex
  <2>2. call[t].name \in Names
    BY <1>2, RequestAssumption DEF SeVec, TypeInv, CallOK, Request
  <2>3. SearchLabel(indices[call[t].name]) \in {"euIds", "hnCheck", "ivProbe"}
    BY <2>2, KindOf DEF SearchLabel, Index, TypeInv, TypeOK
  <2>4. pc'[t] \notin {"euScan", "fetch"}
    BY <1>2, <2>3 DEF SeVec, Goto, TypeInv, TypeOK
  <2> QED
    BY <2>1, <2>4 DEF SearchOf
<1>3. CASE EuIds(t)
  BY <1>3, StartedLoop, LiveType DEF EuIds, ReadIds, TypeInv, Reading, store, locks
<1>4. CASE EuScan(t)
  BY <1>4, ReadOne DEF EuScan, Reading
<1>5. CASE EuTop(t)
  <2>1. PICK best \in SUBSET Present(seen[t]) : StartLoop(t, best, "fetch")
    BY <1>5 DEF EuTop
  <2>2. Present(seen[t]) \subseteq Live
    BY <1>5 DEF EuTop, SearchInv, SearchOf, Present, Live
  <2>3. best \in SUBSET Ids /\ best \subseteq Live
    BY <2>1, <2>2 DEF Present
  <2> QED
    BY <1>5, <2>1, <2>3, StartedLoop DEF EuTop, Reading, store, locks
<1>6. CASE HnCheck(t) \/ HnBuild(t) \/ HnInsert(t) \/ HnBuilt(t) \/ HnRelock(t)
  <2>1. pc[t] \in Reading /\ vec_mutex' = vec_mutex
    BY <1>6 DEF HnCheck, HnBuild, HnInsert, HnBuilt, HnRelock, Reading, locks
  <2>2. \/ pc' = pc /\ pc[t] = "hnInsert"
       \/ \E label \in {"hnBuild", "hnInsert", "hnRelock", "hnKnn"} : Goto(t, label)
    BY <1>6 DEF HnCheck, HnBuild, HnInsert, HnBuilt, HnRelock, StartLoop
  <2>3. pc'[t] \notin {"euScan", "fetch"}
    BY <2>2 DEF Goto, TypeInv, TypeOK
  <2> QED
    BY <2>1, <2>3 DEF SearchInv, SearchOf
<1>7. CASE HnKnn(t)
  <2>1. PICK best \in SUBSET HnswReach(indices[cur[t]]) : StartLoop(t, best, "fetch")
    BY <1>7 DEF HnKnn
  <2>2. best \in SUBSET Ids /\ cur[t] # Nil
    BY <1>7, <2>1, NameAssumption
    DEF HnKnn, HnswReach, Present, HnswIndex, TypeInv, CursorOK, HnswLabels
  <2> QED
    BY <1>7, <2>1, <2>2, StartedLoop DEF HnKnn, Reading, store, locks
<1>8. CASE IvProbe(t)
  <2>1. CASE SeEnd(t, NoAnswer)
    BY <2>1, NotReading DEF SeEnd, Reply, Goto, TypeInv, TypeOK, Reading
  <2>2. CASE /\ \E probed \in SUBSET IvfHolds(indices[cur[t]]) : StartLoop(t, probed, "fetch")
             /\ UNCHANGED <<store, vec_mutex, idx_mutex, call, batch, todo, cur, since_read, ret, accepting>>
    <3>1. PICK probed \in SUBSET IvfHolds(indices[cur[t]]) : StartLoop(t, probed, "fetch")
      BY <2>2
    <3>2. probed \in SUBSET Ids /\ cur[t] # Nil /\ pc[t] \in Reading
      BY <1>8, <3>1, NameAssumption DEF IvProbe, IvfHolds, TypeInv, CursorOK, IvfLabels, Reading
    <3> QED
      BY <2>2, <3>1, <3>2, StartedLoop DEF store
  <2> QED
    BY <1>8, <2>1, <2>2 DEF IvProbe
<1>9. CASE Fetch(t)
  BY <1>9, ReadOne DEF Fetch, Reading
<1>10. CASE SeDone(t)
  <2>1. Goto(t, "reply")
    BY <1>10 DEF SeDone, SeEnd, Reply
  <2> QED
    BY <2>1, NotReading DEF Goto, TypeInv, TypeOK, Reading
<1> QED
  BY <1>1, <1>2, <1>3, <1>4, <1>5, <1>6, <1>7, <1>8, <1>9, <1>10 DEF Search

LEMMA SearchInvStep == TypeInv /\ SearchInv /\ [Next]_vars => SearchInv'
<1> SUFFICES ASSUME TypeInv, SearchInv, [Next]_vars PROVE SearchInv'
  OBVIOUS
<1>1. ASSUME NEW t \in Threads, Begin(t) \/ Step(t) PROVE SearchInv'
  <2>1. StepOK(t)
    BY <1>1, ThreadStep
  <2>2. VectorsGuarded(t)
    BY <1>1, Guarded
  <2>3. SearchOf(t)'
    BY <1>1, NoSearchStep, SearchStep DEF Step
  <2> QED
    BY <2>1, <2>2, <2>3, SearchFrame
<1>2. CASE StopCalls \/ UNCHANGED vars
  BY <1>2 DEF StopCalls, vars, SearchInv, SearchOf, Live, store, locks, locals
<1> QED
  BY <1>1, <1>2 DEF Next, Rest

LEMMA SearchInvariant == Spec => []SearchInv
<1>1. Init => SearchInv
  BY DEF Init, SearchInv, SearchOf, Reading
<1> QED
  BY <1>1, SearchInvStep, TypeInvariant, PTL DEF Spec

\* A brute-force search finds every vector it was told of, and can return
\* every one it ranked.
THEOREM BruteForceMeetsAll == Spec => []NoVanish
<1>1. SearchInv => NoVanish
  BY DEF SearchInv, SearchOf, NoVanish
<1> QED
  BY <1>1, SearchInvariant, PTL

\* A search answers from one moment: each vector it has read is still the one
\* the collection holds.
THEOREM SearchesAreSnapshots == Spec => []SearchSnapshot
<1>1. SearchInv => SearchSnapshot
  BY DEF SearchInv, SearchOf, SearchSnapshot
<1> QED
  BY <1>1, SearchInvariant, PTL
==============================================================================
