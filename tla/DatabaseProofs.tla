---------------------------- MODULE DatabaseProofs ----------------------------
(***************************************************************************)
(* Proofs about Database: nothing is deleted under a call or a save, and a *)
(* process that is killed leaves whole files, which the next one reads.    *)
(*                                                                         *)
(* All three properties rest on the shared lock: who is inside a           *)
(* collection, and the main thread while it saves, is among its holders,   *)
(* and only a thread that finds no holder deletes a collection.  With what *)
(* load() has read so far they make the database a DurableTable.           *)
(***************************************************************************)
EXTENDS Database, TLAPS

\* The lock is held by whom the program text says, and protects them.
LockInv ==
  /\ \A w \in Workers : pc[w] \in {"inside", "leave"} => w \in mutex.r
  /\ \A w \in Workers : pc[w] # "idle" => call[w] \in Request
  /\ \A w \in Workers : pc[w] = "inside" =>
       call[w].op \notin Exclusive /\ collections[call[w].name] # Absent
  /\ main \in {"down", "load"} => \A w \in Workers : pc[w] = "idle"
  /\ Saving => Main \in mutex.r /\ \A n \in left : collections[n] # Absent

\* A content that a save may give to the file of n.
Whole(n, c) == c \in during[n] \ {Absent} \/ (c = Torn /\ ioFailed)

\* What the save under way has written, or is about to.
SaveInv ==
  /\ Saving => \A n \in Names : collections[n] \in during[n]
  /\ main \in {"write", "rename"} => tmp.name \in left
  /\ main = "write" => tmp.holds = Torn
  /\ main = "rename" => Whole(tmp.name, tmp.holds)

\* What is on the disk, and has been read of it.
FileInv ==
  /\ \A n \in Names : disk[n] = Torn => ioFailed
  /\ \A n \in kept : Whole(n, disk[n])
  /\ main = "load" /\ ~ioFailed =>
       \A n \in kept : n \in left \/ collections[n] \in during[n] \ {Absent}

Inv == TypeOK /\ LockInv /\ SaveInv /\ FileInv

-----------------------------------------------------------------------------
\* A content is told from the two marks that stand for none and for a torn file.
LEMMA ContentsAreNoMarks == Absent \notin Contents /\ Torn \notin Contents
BY MarksAssumption

\* The first process starts with no collection, no file and a free lock.
LEMMA InitInv == Init => Inv
<1> SUFFICES ASSUME Init PROVE Inv
  OBVIOUS
<1>1. TypeOK
  BY DEF Init, TypeOK, NoFile, Unlocked, Mutex
<1>2. LockInv
  BY DEF Init, LockInv, Saving
<1>3. SaveInv /\ FileInv
  BY MarksAssumption DEF Init, SaveInv, FileInv, Saving
<1> QED
  BY <1>1, <1>2, <1>3 DEF Inv

\* What add_vectors and delete_vectors make of a content is one again.
LEMMA NewContents ==
  ASSUME NEW c \in Contents, NEW r \in Request
  PROVE  c \cup r.ids \in Contents /\ c \ r.ids \in Contents
BY DEF Contents, Request

\* While it writes, the main thread has a file.
LEMMA BeingWritten ==
  ASSUME Inv, main \in {"write", "rename"}
  PROVE  /\ tmp \in [name : Names, holds : {Torn} \cup Contents]
         /\ tmp.name \in left /\ collections[tmp.name] \in during[tmp.name] \ {Absent}
BY MarksAssumption DEF Inv, TypeOK, LockInv, SaveInv, NoFile, Saving

\* A call keeps the invariant: it is inside only while it holds the lock, and a
\* deletion finds the lock free.
LEMMA WorkerInv ==
  ASSUME Inv, NEW w \in Workers, Worker(w)
  PROVE  Inv'
<1>1. CASE Begin(w)
  <2>1. TypeOK'
    BY <1>1 DEF Begin, files, history, Inv, TypeOK
  <2>2. LockInv'
    BY <1>1 DEF Begin, Inv, TypeOK, LockInv, Saving, Serving
  <2>3. SaveInv'
    BY <1>1 DEF Begin, files, history, Inv, SaveInv, Saving, Whole
  <2>4. FileInv'
    BY <1>1 DEF Begin, files, history, Inv, FileInv, Whole
  <2> QED
    BY <2>1, <2>2, <2>3, <2>4 DEF Inv
<1>2. CASE Enter(w)
  <2>1. TypeOK'
    BY <1>2 DEF Enter, files, history, Done, Share, Mutex, Threads, Inv, TypeOK
  <2>2. LockInv'
    BY <1>2 DEF Enter, Done, Share, Mutex, Inv, TypeOK, LockInv, Saving
  <2>3. SaveInv'
    BY <1>2 DEF Enter, files, history, Inv, SaveInv, Saving, Whole
  <2>4. FileInv'
    BY <1>2 DEF Enter, files, history, Inv, FileInv, Whole
  <2> QED
    BY <2>1, <2>2, <2>3, <2>4 DEF Inv
<1>3. CASE Change(w)
  <2> DEFINE n == call[w].name
  <2>1. /\ pc[w] = "inside" /\ pc' = [pc EXCEPT ![w] = "leave"]
        /\ n \in Names /\ collections[n] \in Contents
        /\ main \notin {"down", "load"}
        /\ UNCHANGED <<mutex, call, main, left, tmp, disk, kept, ioFailed>>
    BY <1>3 DEF Change, Inv, TypeOK, LockInv, Request, files
  <2>2. PICK c \in Contents :
          /\ collections' = [collections EXCEPT ![n] = c]
          /\ during' = IF Saving THEN [during EXCEPT ![n] = @ \cup {c}] ELSE during
    <3>1. CASE UNCHANGED <<collections, during>>
      <4>1. Saving => collections[n] \in during[n]
        BY <2>1 DEF Inv, SaveInv
      <4> QED
        BY <2>1, <3>1, <4>1 DEF Inv, TypeOK
    <3>2. CASE ~UNCHANGED <<collections, during>>
      <4>1. call[w] \in Request
        BY <1>3 DEF Change, Inv, LockInv
      <4> QED
        BY <1>3, <2>1, <3>2, <4>1, NewContents DEF Change, Becomes
    <3> QED
      BY <3>1, <3>2
  <2>3. TypeOK'
    BY <2>1, <2>2 DEF Inv, TypeOK
  <2>4. LockInv'
    BY <2>1, <2>2, ContentsAreNoMarks DEF Inv, TypeOK, LockInv, Saving
  <2>5. SaveInv'
    BY <2>1, <2>2 DEF Inv, TypeOK, SaveInv, Saving, Whole
  <2>6. FileInv'
    BY <2>1, <2>2 DEF Inv, TypeOK, FileInv, Whole
  <2> QED
    BY <2>3, <2>4, <2>5, <2>6 DEF Inv
<1>4. CASE Leave(w)
  <2>1. TypeOK'
    BY <1>4 DEF Leave, Done, Unshare, Mutex, files, history, Inv, TypeOK
  <2>2. LockInv'
    BY <1>4, WorkersAssumption
       DEF Leave, Done, Unshare, Inv, TypeOK, LockInv, Saving
  <2>3. SaveInv'
    BY <1>4 DEF Leave, files, history, Inv, SaveInv, Saving, Whole
  <2>4. FileInv'
    BY <1>4 DEF Leave, files, history, Inv, FileInv, Whole
  <2> QED
    BY <2>1, <2>2, <2>3, <2>4 DEF Inv
<1>5. CASE Announce(w)
  <2>1. TypeOK'
    BY <1>5 DEF Announce, Lock, Mutex, Threads, files, history, Inv, TypeOK
  <2>2. LockInv'
    BY <1>5 DEF Announce, Lock, Inv, LockInv, Saving
  <2>3. SaveInv'
    BY <1>5 DEF Announce, files, history, Inv, SaveInv, Saving, Whole
  <2>4. FileInv'
    BY <1>5 DEF Announce, files, history, Inv, FileInv, Whole
  <2> QED
    BY <2>1, <2>2, <2>3, <2>4 DEF Inv
<1>6. CASE AddCollection(w)
  <2>1. TypeOK'
    BY <1>6
       DEF AddCollection, Becomes, Unlock, Mutex, Done, files, Contents, Inv,
           TypeOK
  <2>2. LockInv'
    BY <1>6 DEF AddCollection, CanLock, Done, Inv, TypeOK, LockInv, Saving
  <2>3. SaveInv'
    BY <1>6 DEF AddCollection, CanLock, Inv, LockInv, SaveInv, Saving
  <2>4. FileInv'
    BY <1>6
       DEF AddCollection, Becomes, CanLock, files, Inv, LockInv, FileInv, Whole
  <2> QED
    BY <2>1, <2>2, <2>3, <2>4 DEF Inv
<1>7. CASE DeleteCollection(w)
  <2>1. TypeOK'
    BY <1>7 DEF DeleteCollection, Becomes, Unlock, Mutex, Done, files, Inv, TypeOK
  <2>2. LockInv'
    BY <1>7 DEF DeleteCollection, CanLock, Done, Inv, TypeOK, LockInv, Saving
  <2>3. SaveInv'
    BY <1>7 DEF DeleteCollection, CanLock, Inv, LockInv, SaveInv, Saving
  <2>4. FileInv'
    BY <1>7 DEF DeleteCollection, Becomes, files, Inv, LockInv, FileInv, Whole
  <2> QED
    BY <2>1, <2>2, <2>3, <2>4 DEF Inv
<1> QED
  BY <1>1, <1>2, <1>3, <1>4, <1>5, <1>6, <1>7 DEF Worker

\* A step of save() keeps the invariant: each file is renamed from a content the
\* collection has had since the save began.
LEMMA SaveStepInv ==
  ASSUME Inv, Save
  PROVE  Inv'
<1>1. CASE SaveLock
  <2>1. TypeOK'
    BY <1>1 DEF SaveLock, Share, Mutex, Threads, Table, files, Inv, TypeOK
  <2>2. LockInv'
    BY <1>1 DEF SaveLock, Share, Table, Inv, LockInv
  <2>3. SaveInv'
    BY <1>1 DEF SaveLock, SaveInv
  <2>4. FileInv'
    BY <1>1 DEF SaveLock, files, Inv, FileInv
  <2> QED
    BY <2>1, <2>2, <2>3, <2>4 DEF Inv
<1>2. CASE SaveWrite
  <2>1. TypeOK'
    BY <1>2, BeingWritten DEF SaveWrite, memory, Inv, TypeOK
  <2>2. LockInv'
    BY <1>2 DEF SaveWrite, memory, Inv, LockInv, Saving
  <2>3. SaveInv'
    BY <1>2, BeingWritten DEF SaveWrite, memory, Inv, SaveInv, Saving, Whole
  <2>4. FileInv'
    BY <1>2 DEF SaveWrite, Inv, FileInv, Whole
  <2> QED
    BY <2>1, <2>2, <2>3, <2>4 DEF Inv
<1>3. CASE SaveRename
  <2>1. TypeOK'
    BY <1>3, BeingWritten DEF SaveRename, memory, Inv, TypeOK
  <2>2. LockInv'
    BY <1>3 DEF SaveRename, memory, Inv, LockInv, Saving
  <2>3. SaveInv'
    BY <1>3 DEF SaveRename, memory, Inv, SaveInv, Saving
  <2>4. FileInv'
    BY <1>3, ContentsAreNoMarks
       DEF SaveRename, Inv, TypeOK, SaveInv, FileInv, Whole
  <2> QED
    BY <2>1, <2>2, <2>3, <2>4 DEF Inv
<1>4. CASE SaveFails
  <2>1. TypeOK'
    BY <1>4 DEF SaveFails, memory, files, history, Inv, TypeOK
  <2>2. LockInv'
    BY <1>4 DEF SaveFails, memory, Inv, LockInv, Saving
  <2>3. SaveInv'
    BY <1>4 DEF SaveFails, memory, history, Inv, SaveInv, Saving
  <2>4. FileInv'
    BY <1>4 DEF SaveFails, files, history, Inv, FileInv, Whole
  <2> QED
    BY <2>1, <2>2, <2>3, <2>4 DEF Inv
<1>5. CASE SaveDone
  <2>1. TypeOK'
    BY <1>5 DEF SaveDone, Unshare, Mutex, files, Inv, TypeOK
  <2>2. LockInv'
    BY <1>5, WorkersAssumption DEF SaveDone, Unshare, Inv, LockInv, Saving
  <2>3. SaveInv'
    BY <1>5 DEF SaveDone, SaveInv, Saving
  <2>4. FileInv'
    BY <1>5 DEF SaveDone, files, Inv, TypeOK, FileInv, Whole
  <2> QED
    BY <2>1, <2>2, <2>3, <2>4 DEF Inv
<1>6. ASSUME NEW n \in Names, SaveOpen(n) PROVE Inv'
  <2>1. TypeOK'
    BY <1>6 DEF SaveOpen, memory, history, Inv, TypeOK
  <2>2. LockInv'
    BY <1>6 DEF SaveOpen, memory, Inv, LockInv, Saving
  <2>3. SaveInv'
    BY <1>6 DEF SaveOpen, memory, history, Inv, SaveInv, Saving
  <2>4. FileInv'
    BY <1>6 DEF SaveOpen, history, Inv, FileInv, Whole
  <2> QED
    BY <2>1, <2>2, <2>3, <2>4 DEF Inv
<1> QED
  BY <1>1, <1>2, <1>3, <1>4, <1>5, <1>6 DEF Save

\* The end of a process leaves the files as they are, and the load reads them.
LEMMA ProcessInv ==
  ASSUME Inv, Signal \/ End \/ Start \/ Load
  PROVE  Inv'
<1>1. CASE Signal
  <2>1. TypeOK'
    BY <1>1 DEF Signal, memory, files, history, Inv, TypeOK
  <2>2. LockInv'
    BY <1>1 DEF Signal, memory, Inv, LockInv, Saving
  <2>3. SaveInv'
    BY <1>1 DEF Signal, SaveInv, Saving
  <2>4. FileInv'
    BY <1>1 DEF Signal, files, history, Inv, FileInv, Whole
  <2> QED
    BY <2>1, <2>2, <2>3, <2>4 DEF Inv
<1>2. CASE End
  <2>1. TypeOK'
    BY <1>2 DEF End, Unlocked, Mutex, history, Inv, TypeOK
  <2>2. LockInv'
    BY <1>2 DEF End, LockInv, Saving
  <2>3. SaveInv'
    BY <1>2 DEF End, SaveInv, Saving
  <2>4. FileInv'
    BY <1>2 DEF End, history, Inv, FileInv, Whole
  <2> QED
    BY <2>1, <2>2, <2>3, <2>4 DEF Inv
<1>3. CASE Start
  <2>1. TypeOK'
    BY <1>3 DEF Start, memory, files, history, Inv, TypeOK
  <2>2. LockInv'
    BY <1>3 DEF Start, memory, Inv, LockInv, Saving
  <2>3. SaveInv'
    BY <1>3 DEF Start, SaveInv, Saving
  <2>4. FileInv'
    BY <1>3 DEF Start, files, history, Inv, TypeOK, FileInv, Whole
  <2> QED
    BY <2>1, <2>2, <2>3, <2>4 DEF Inv
<1>4. CASE LoadDone
  <2>1. TypeOK'
    BY <1>4 DEF LoadDone, memory, files, history, Inv, TypeOK
  <2>2. LockInv'
    BY <1>4 DEF LoadDone, memory, Inv, LockInv, Saving
  <2>3. SaveInv'
    BY <1>4 DEF LoadDone, SaveInv, Saving
  <2>4. FileInv'
    BY <1>4 DEF LoadDone, files, history, Inv, FileInv, Whole
  <2> QED
    BY <2>1, <2>2, <2>3, <2>4 DEF Inv
<1>5. ASSUME NEW n \in Names, LoadFile(n) PROVE Inv'
  <2>1. TypeOK'
    BY <1>5 DEF LoadFile, files, history, Inv, TypeOK
  <2>2. LockInv'
    BY <1>5 DEF LoadFile, Inv, LockInv, Saving
  <2>3. SaveInv'
    BY <1>5 DEF LoadFile, SaveInv, Saving
  <2>4. FileInv'
    BY <1>5 DEF LoadFile, files, history, Inv, TypeOK, FileInv, Whole
  <2> QED
    BY <2>1, <2>2, <2>3, <2>4 DEF Inv
<1>6. ASSUME NEW n \in Names, LoadTorn(n) PROVE Inv'
  <2>1. TypeOK'
    BY <1>6 DEF LoadTorn, files, history, Inv, TypeOK
  <2>2. LockInv'
    BY <1>6 DEF LoadTorn, Inv, LockInv, Saving
  <2>3. SaveInv'
    BY <1>6 DEF LoadTorn, SaveInv, Saving
  <2>4. FileInv'
    BY <1>6 DEF LoadTorn, files, history, Inv, FileInv, Whole
  <2> QED
    BY <2>1, <2>2, <2>3, <2>4 DEF Inv
<1>7. ASSUME NEW n \in Names, LoadSkip(n) PROVE Inv'
  <2>1. TypeOK'
    BY <1>7 DEF LoadSkip, memory, files, Inv, TypeOK
  <2>2. LockInv'
    BY <1>7 DEF LoadSkip, memory, Inv, LockInv, Saving
  <2>3. SaveInv'
    BY <1>7 DEF LoadSkip, SaveInv, Saving
  <2>4. FileInv'
    BY <1>7 DEF LoadSkip, files, Inv, FileInv, Whole
  <2> QED
    BY <2>1, <2>2, <2>3, <2>4 DEF Inv
<1> QED
  BY <1>1, <1>2, <1>3, <1>4, <1>5, <1>6, <1>7 DEF Load

\* The inductive invariant, which the three properties follow from.
THEOREM Invariant == Spec => []Inv
<1>1. ASSUME Inv, [Next]_vars PROVE Inv'
  <2>1. CASE Next
    BY <1>1, <2>1, WorkerInv, SaveStepInv, ProcessInv DEF Next
  <2>2. CASE UNCHANGED vars
    BY <1>1, <2>2
       DEF vars, memory, files, history, Inv, TypeOK, LockInv, SaveInv, FileInv, Whole, Saving
  <2> QED
    BY <1>1, <2>1, <2>2
<1> QED
  BY InitInv, <1>1, PTL DEF Spec

-----------------------------------------------------------------------------
\* Every variable of the database keeps its type.
THEOREM TypeCorrect == Spec => []TypeOK
<1>1. Inv => TypeOK
  BY DEF Inv
<1> QED
  BY Invariant, <1>1, PTL

\* No delete_collection takes a collection away from a call that is inside it,
\* or from a save that has yet to write it.
THEOREM NobodyLosesItsCollection == Spec => []InsideExists
<1>1. Inv => InsideExists
  BY DEF Inv, LockInv, InsideExists
<1> QED
  BY Invariant, <1>1, PTL

\* A process that starts anew finds each collection the last save wrote as it was
\* at some moment of that save, unless a file could not be written or read.
THEOREM SavedIsRestored == Spec => []RestoresSaved
<1>1. Inv => RestoresSaved
  BY DEF Inv, FileInv, RestoresSaved
<1> QED
  BY Invariant, <1>1, PTL

\* A .db file changes only into a whole one, or one whose write fell short.
THEOREM FilesStayWhole == Spec => FilesWhole
<1> DEFINE Kept(n) == disk'[n] # disk[n] =>
                        \/ disk'[n] \in during[n] \ {Absent}
                        \/ disk'[n] = Torn /\ ioFailed
<1>1. ASSUME Inv, [Next]_vars, NEW n \in Names PROVE Kept(n)
  <2>1. CASE SaveRename
    BY <1>1, <2>1 DEF SaveRename, Inv, SaveInv, Whole
  <2>2. CASE ~SaveRename
    <3>1. disk' = disk
      BY <1>1, <2>2
         DEF Next, Worker, Begin, Enter, Change, Leave, Announce, AddCollection, DeleteCollection,
             Signal, Save, SaveLock, SaveOpen, SaveWrite, SaveFails, SaveDone, End, Start,
             Load, LoadFile, LoadTorn, LoadSkip, LoadDone, files, vars
    <3> QED
      BY <3>1
  <2> QED
    BY <2>1, <2>2
<1>2. Inv /\ [Next]_vars => [\A n \in Names : Kept(n)]_vars
  BY <1>1
<1> QED
  BY Invariant, <1>2, PTL DEF Spec, FilesWhole

-----------------------------------------------------------------------------
(* The database is a DurableTable.                                          *)

\* What has been read of the file of n is what it says, unless something failed.
Restored(n) ==
  \/ collections[n] = disk[n]
  \/ ioFailed /\ (collections[n] = Absent \/ disk[n] = Torn)

\* Without a process there is no table, and while it loads, what is in it is from
\* the files it has come to.
TableInv ==
  /\ main = "down" => \A n \in Names : collections[n] = Absent
  /\ main = "load" => /\ \A n \in left : collections[n] = Absent
                      /\ \A n \in Names \ left : Restored(n)

\* A step that is nobody's outside: of the locks, the loops, the temporary file.
LEMMA Stutters ==
  ASSUME UNCHANGED <<disk, ioFailed>>, Loaded' <=> Loaded, Saving' <=> Saving,
         Loaded => UNCHANGED collections, Saving => UNCHANGED during
  PROVE  UNCHANGED Durable!vars
BY DEF Durable!vars

\* No process, no table; the first one starts with none.
LEMMA InitDurable == Init => Durable!Init /\ TableInv
<1> SUFFICES ASSUME Init PROVE Durable!Init /\ TableInv
  OBVIOUS
<1>1. ~Loaded /\ ~Saving
  BY DEF Init, Loaded, Saving
<1>2. Durable!Init
  BY <1>1 DEF Init, Durable!Init, Durable!Nowhere
<1>3. TableInv
  BY DEF Init, TableInv
<1> QED
  BY <1>2, <1>3

\* A call creates, drops or changes a collection when it writes the table.
LEMMA WorkerIsCall ==
  ASSUME Inv, NEW w \in Workers, Worker(w)
  PROVE  [Durable!Next]_(Durable!vars)
<1> DEFINE n == call[w].name
<1>1. UNCHANGED <<main, disk, ioFailed>>
  BY DEF Worker, Begin, Enter, Change, Leave, Announce, AddCollection, DeleteCollection, files, history
<1>2. (Loaded' <=> Loaded) /\ (Saving' <=> Saving)
  BY <1>1 DEF Loaded, Saving
<1>3. CASE UNCHANGED <<collections, during>>
  BY <1>1, <1>2, <1>3, Stutters
<1>4. CASE ~UNCHANGED <<collections, during>>
  <2>1. Change(w) \/ AddCollection(w) \/ DeleteCollection(w)
    BY <1>4 DEF Worker, Begin, Enter, Leave, Announce, history
  <2>2. pc[w] # "idle" /\ call[w] \in Request /\ n \in Names /\ Loaded
    BY <2>1 DEF Change, AddCollection, DeleteCollection, Inv, LockInv, Request, Loaded
  <2>3. (AddCollection(w) \/ DeleteCollection(w)) => ~Saving
    BY DEF AddCollection, DeleteCollection, CanLock, Inv, LockInv
  <2>4. PICK c \in {Absent} \cup SUBSET Ids :
          /\ Becomes(n, c)
          /\ \/ ~Saving /\ collections[n] = Absent /\ c = {}
             \/ ~Saving /\ c = Absent
             \/ /\ collections[n] # Absent /\ c \in SUBSET Ids
                /\ c \subseteq collections[n] \/ collections[n] \subseteq c
    <3>1. CASE AddCollection(w)
      BY <1>4, <2>3, <3>1 DEF AddCollection
    <3>2. CASE DeleteCollection(w)
      BY <2>3, <3>2 DEF DeleteCollection
    <3>3. CASE Change(w)
      <4>1. collections[n] \in SUBSET Ids /\ call[w].ids \in SUBSET Ids
        BY <2>2, <3>3 DEF Change, Inv, TypeOK, Contents, Request
      <4>2. \/ Becomes(n, collections[n] \cup call[w].ids)
            \/ Becomes(n, collections[n] \ call[w].ids)
        BY <1>4, <3>3 DEF Change
      <4> QED
        BY <3>3, <4>1, <4>2 DEF Change
    <3> QED
      BY <2>1, <3>1, <3>2, <3>3
  <2>5. /\ collections' = [collections EXCEPT ![n] = c]
        /\ during' = IF Saving THEN [during EXCEPT ![n] = @ \cup {c}] ELSE during
    BY <2>4 DEF Becomes
  <2>6. c = Absent => collections[n] # Absent
    <3> SUFFICES ASSUME c = Absent, collections[n] = Absent PROVE FALSE
      OBVIOUS
    <3>1. ~Saving
      BY <2>4, MarksAssumption DEF Contents
    <3>2. collections' = collections /\ during' = during
      BY <2>2, <2>5, <3>1 DEF Inv, TypeOK
    <3> QED
      BY <1>4, <3>2
  <2> HIDE DEF n
  <2>7. Durable!Create(n) \/ Durable!Drop(n) \/ Durable!Change(n)
    <3>1. CASE ~Saving /\ collections[n] = Absent /\ c = {}
      BY <1>2, <2>2, <2>5, <3>1 DEF Durable!Create
    <3>2. CASE ~Saving /\ c = Absent
      BY <1>2, <2>2, <2>5, <2>6, <3>2 DEF Durable!Drop
    <3>3. CASE collections[n] # Absent /\ c \in SUBSET Ids /\ (c \subseteq collections[n] \/ collections[n] \subseteq c)
      <4>1. CASE Saving
        BY <1>2, <2>2, <2>5, <3>3, <4>1 DEF Durable!Change
      <4>2. CASE ~Saving
        BY <1>2, <2>2, <2>5, <3>3, <4>2 DEF Durable!Change
      <4> QED
        BY <4>1, <4>2
    <3> QED
      BY <2>4, <3>1, <3>2, <3>3
  <2>8. Durable!Call
    BY <1>1, <1>2, <2>2, <2>7 DEF Durable!Call
  <2> QED
    BY <2>8 DEF Durable!Next
<1> QED
  BY <1>3, <1>4

\* A step of save() begins it, replaces a file, ends it or is not seen.
LEMMA SaveIsSave ==
  ASSUME Inv, Save
  PROVE  [Durable!Next]_(Durable!vars)
<1>1. Loaded /\ Loaded' /\ UNCHANGED collections
  BY DEF Save, SaveLock, SaveOpen, SaveWrite, SaveRename, SaveFails, SaveDone, memory, Loaded
<1>2. CASE SaveLock
  <2>1. ~Saving /\ Saving'
    BY <1>2 DEF SaveLock, Saving
  <2>2. Durable!BeginSave
    BY <1>1, <1>2, <2>1 DEF SaveLock, files, Durable!BeginSave
  <2> QED
    BY <2>2 DEF Durable!Next
<1>3. ASSUME NEW n \in Names, SaveOpen(n) PROVE UNCHANGED Durable!vars
  <2>1. Saving /\ Saving'
    BY <1>3 DEF SaveOpen, Saving
  <2> QED
    BY <1>1, <1>3, <2>1, Stutters DEF SaveOpen, history
<1>4. CASE SaveWrite
  <2>1. Saving /\ Saving'
    BY <1>4 DEF SaveWrite, Saving
  <2>2. CASE ioFailed' = ioFailed
    BY <1>1, <1>4, <2>1, <2>2, Stutters DEF SaveWrite
  <2>3. CASE ioFailed' = TRUE
    <3>1. Durable!Lose
      BY <1>1, <1>4, <2>1, <2>3 DEF SaveWrite, Durable!Lose
    <3> QED
      BY <3>1 DEF Durable!Next
  <2> QED
    BY <1>4, <2>2, <2>3 DEF SaveWrite
<1>5. CASE SaveRename
  <2> DEFINE n == tmp.name
             c == tmp.holds
  <2>1. Saving /\ Saving'
    BY <1>5 DEF SaveRename, Saving
  <2>2. n \in Names
    BY <1>5, BeingWritten DEF SaveRename
  <2>3. c \in during[n] \cup (IF ioFailed THEN {Torn} ELSE {}) /\ c # Absent
    BY <1>5, MarksAssumption DEF SaveRename, Inv, SaveInv, Whole
  <2>4. disk' = [disk EXCEPT ![n] = c] /\ UNCHANGED <<during, ioFailed>>
    BY <1>5 DEF SaveRename
  <2> HIDE DEF n, c
  <2>5. Durable!SaveOne(n)
    BY <1>1, <2>1, <2>3, <2>4 DEF Durable!SaveOne
  <2> QED
    BY <2>2, <2>5 DEF Durable!Next
<1>6. CASE SaveFails
  <2>1. Saving' <=> Saving
    BY <1>6 DEF SaveFails, Saving
  <2> QED
    BY <1>1, <1>6, <2>1, Stutters DEF SaveFails, files, history
<1>7. CASE SaveDone
  <2>1. Saving /\ ~Saving'
    BY <1>7 DEF SaveDone, Saving
  <2>2. Durable!EndSave
    BY <1>1, <1>7, <2>1 DEF SaveDone, files, Durable!EndSave, Durable!Nowhere
  <2> QED
    BY <2>2 DEF Durable!Next
<1> QED
  BY <1>2, <1>3, <1>4, <1>5, <1>6, <1>7 DEF Save

\* A process that ends takes the table with it, and one that starts shows nothing
\* of its own before it has come to the end of its load.
LEMMA ProcessIsProcess ==
  ASSUME Inv, TableInv, Signal \/ End \/ Start \/ Load
  PROVE  [Durable!Next]_(Durable!vars)
<1>1. CASE Signal
  <2>1. Loaded /\ Loaded' /\ ~Saving /\ ~Saving'
    BY <1>1 DEF Signal, Loaded, Saving
  <2> QED
    BY <1>1, <2>1, Stutters DEF Signal, memory, files, history
<1>2. CASE End
  <2>1. ~Loaded' /\ ~Saving' /\ UNCHANGED <<disk, ioFailed>>
    BY <1>2 DEF End, Loaded, Saving, history
  <2>2. CASE ~Loaded
    <3>1. ~Saving
      BY <2>2 DEF Loaded, Saving
    <3> QED
      BY <2>1, <2>2, <3>1, Stutters
  <2>3. CASE Loaded
    <3>1. Durable!Crash
      BY <2>1, <2>3 DEF Durable!Crash, Durable!Nowhere
    <3> QED
      BY <3>1 DEF Durable!Next
  <2> QED
    BY <2>2, <2>3
<1>3. CASE Start
  <2>1. ~Loaded /\ ~Loaded' /\ ~Saving /\ ~Saving'
    BY <1>3 DEF Start, Loaded, Saving
  <2> QED
    BY <1>3, <2>1, Stutters DEF Start, files, history
<1>4. ASSUME NEW n \in Names, LoadFile(n) \/ LoadTorn(n) PROVE UNCHANGED Durable!vars
  <2>1. ~Loaded /\ ~Loaded' /\ ~Saving /\ ~Saving'
    BY <1>4 DEF LoadFile, LoadTorn, Loaded, Saving
  <2> QED
    BY <1>4, <2>1, Stutters DEF LoadFile, LoadTorn, files, history
<1>5. ASSUME NEW n \in Names, LoadSkip(n) PROVE Durable!Lose
  <2>1. ~Loaded /\ ~Loaded' /\ ~Saving /\ ~Saving'
    BY <1>5 DEF LoadSkip, Loaded, Saving
  <2> QED
    BY <1>5, <2>1 DEF LoadSkip, files, Durable!Lose
<1>6. CASE LoadDone
  <2>1. ~Loaded /\ Loaded' /\ ~Saving /\ ~Saving' /\ UNCHANGED <<collections, disk, ioFailed>>
    BY <1>6 DEF LoadDone, Loaded, Saving, memory, files, history
  <2>2. \A n \in Names : collections[n] = disk[n] \/ (ioFailed /\ (collections[n] = Absent \/ disk[n] = Torn))
    BY <1>6 DEF LoadDone, TableInv, Restored
  <2>3. collections \in [Names -> {Absent} \cup SUBSET Ids]
    BY DEF Inv, TypeOK, Contents
  <2>4. Durable!Restore
    BY <2>1, <2>2, <2>3 DEF Durable!Restore
  <2> QED
    BY <2>4 DEF Durable!Next
<1> QED
  BY <1>1, <1>2, <1>3, <1>4, <1>5, <1>6 DEF Load, Durable!Next

\* Loading keeps what the table and the files have to do with each other.
LEMMA TableStep ==
  ASSUME Inv, TableInv, [Next]_vars
  PROVE  TableInv'
<1>1. CASE Loaded'
  BY <1>1 DEF Loaded, TableInv
<1>2. CASE End
  BY <1>2 DEF End, TableInv
<1>3. CASE Start
  <2>1. \A n \in Names : collections'[n] = Absent /\ disk' = disk /\ (n \notin left' <=> disk'[n] = Absent)
    BY <1>3 DEF Start, TableInv, memory, files
  <2>2. main' = "load" /\ left' \subseteq Names
    BY <1>3 DEF Start
  <2> QED
    BY <2>1, <2>2 DEF TableInv, Restored
<1>4. ASSUME NEW n \in Names, LoadFile(n) \/ LoadTorn(n) \/ LoadSkip(n) PROVE TableInv'
  <2>1. main = "load" /\ main' = "load" /\ n \in left /\ disk' = disk /\ left \subseteq Names
    BY <1>4 DEF LoadFile, LoadTorn, LoadSkip, files, Inv, TypeOK
  <2>2. /\ collections \in [Names -> {Absent} \cup Contents]
        /\ \A m \in left : collections[m] = Absent
        /\ \A m \in Names \ left : Restored(m)
    BY <2>1 DEF TableInv, Inv, TypeOK
  <2>3. CASE LoadFile(n)
    BY <2>1, <2>2, <2>3 DEF LoadFile, history, TableInv, Restored
  <2>4. CASE LoadTorn(n)
    <3>1. ioFailed /\ ioFailed' /\ disk[n] = Torn
      BY <2>4 DEF LoadTorn, history, Inv, FileInv
    <3> QED
      BY <2>1, <2>2, <2>4, <3>1 DEF LoadTorn, TableInv, Restored
  <2>5. CASE LoadSkip(n)
    BY <2>1, <2>2, <2>5 DEF LoadSkip, memory, TableInv, Restored
  <2> QED
    BY <1>4, <2>3, <2>4, <2>5
<1>5. CASE UNCHANGED vars
  BY <1>5 DEF vars, memory, files, history, TableInv, Restored
<1>6. CASE (\E w \in Workers : Worker(w)) \/ Signal \/ Save \/ LoadDone
  <2>1. Loaded'
    <3>1. ASSUME NEW w \in Workers, Worker(w) PROVE Loaded'
      BY <3>1 DEF Worker, Begin, Enter, Change, Leave, Announce, AddCollection, DeleteCollection,
                  Inv, LockInv, Loaded, Serving, Saving
    <3>2. ASSUME Signal \/ Save \/ LoadDone PROVE Loaded'
      BY <3>2 DEF Signal, Save, SaveLock, SaveOpen, SaveWrite, SaveRename, SaveFails, SaveDone, LoadDone, Loaded
    <3> QED
      BY <1>6, <3>1, <3>2
  <2> QED
    BY <1>1, <2>1
<1> QED
  BY <1>2, <1>3, <1>4, <1>5, <1>6 DEF Next, Load

\* The database keeps what DurableTable promises: calls change a table, each at one
\* moment, a save gives each file a content its collection had while it went on,
\* and a process that starts has the whole of what was saved before it answers a call.
THEOREM DatabaseIsDurable == Spec => ImplementsDurableTable
<1>1. Init => Durable!Init /\ TableInv
  BY InitDurable
<1>2. Inv /\ TableInv /\ [Next]_vars => TableInv'
  BY TableStep
<1>3. Inv /\ TableInv /\ [Next]_vars => [Durable!Next]_(Durable!vars)
  <2> SUFFICES ASSUME Inv, TableInv, [Next]_vars PROVE [Durable!Next]_(Durable!vars)
    OBVIOUS
  <2>1. CASE UNCHANGED vars
    <3>1. (Loaded' <=> Loaded) /\ (Saving' <=> Saving)
      BY <2>1 DEF vars, Loaded, Saving
    <3> QED
      BY <2>1, <3>1, Stutters DEF vars, memory, files, history
  <2>2. CASE Next
    BY <2>2, WorkerIsCall, SaveIsSave, ProcessIsProcess DEF Next
  <2> QED
    BY <2>1, <2>2
<1> QED
  BY <1>1, <1>2, <1>3, Invariant, PTL DEF Spec, ImplementsDurableTable, Durable!Spec
==============================================================================
