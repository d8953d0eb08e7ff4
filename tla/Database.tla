------------------------------- MODULE Database -------------------------------
(***************************************************************************)
(* The database: a table of collections under one shared_mutex, written to *)
(* a directory when the server shuts down and read back when it starts.    *)
(* What a collection holds is a set of ids (Collection says how a call     *)
(* changes it, at one moment); its indices are left out.                   *)
(*                                                                         *)
(* The process may be killed between any two steps.  Opening a file may    *)
(* fail, and so may writing it: the code notices the first and not the     *)
(* second, and then installs a file that ends too early.  The file a save  *)
(* is busy with is not read by anybody until it has its final name, and a  *)
(* later save starts it anew, so only the current one is kept in tmp.      *)
(***************************************************************************)
EXTENDS SharedMutex, FiniteSets

CONSTANTS Names,    \* of collections
          Ids,      \* of vectors
          Workers,  \* threads of the pool
          Main,     \* the thread that loads and saves
          Absent,   \* no collection of that name, or no file
          Torn      \* a file that ends too early

Threads == Workers \cup {Main}
NoFile == [name |-> Absent, holds |-> Absent]
Contents == SUBSET Ids

ASSUME WorkersAssumption == Main \notin Workers /\ NoThread \notin Threads
ASSUME MarksAssumption ==
  /\ \A c \in Contents : c # Absent /\ c # Torn
  /\ Absent # Torn /\ Absent \notin Names

Ops == {"add_vectors", "delete_vectors", "read", "add_collection", "delete_collection"}
Exclusive == {"add_collection", "delete_collection"}
Request ==
  {c \in [op : Ops, name : Names, ids : Contents] :
     c.ids # {} <=> c.op \in {"add_vectors", "delete_vectors"}}

VARIABLES
  collections, \* collections_
  mutex,       \* mutex_
  pc, call,    \* of each worker; "idle", "start" or "inside" the collection
  main,        \* where the main thread is: "down" when there is no process
  left,        \* names the loop of load or save has yet to come to
  tmp,         \* the file being written
  disk,        \* <name>.db of each collection
  during,      \* the contents each collection had while save() last ran, once
               \* that has returned those of the collections it wrote
  kept,        \* the names of the files that save() has written
  ioFailed     \* whether a file was ever left incomplete, or unread

memory == <<collections, mutex, pc, call>>
files == <<tmp, disk>>
history == <<during, kept, ioFailed>>
vars == <<memory, main, left, files, history>>

Saving == main \in {"save", "write", "rename"}

Becomes(n, c) ==
  /\ collections' = [collections EXCEPT ![n] = c]
  /\ during' = IF Saving THEN [during EXCEPT ![n] = @ \cup {c}] ELSE during

Done(w) ==
  /\ pc' = [pc EXCEPT ![w] = "idle"]
  /\ call' = [call EXCEPT ![w] = Absent]

-----------------------------------------------------------------------------
(* Calls.  Until the process ends the pool goes on with what it has: also  *)
(* while the main thread saves, and after it has.                          *)

Serving == main \in {"serve", "lock", "saved"} \/ Saving

Begin(w) ==
  /\ Serving /\ pc[w] = "idle"
  /\ \E c \in Request : call' = [call EXCEPT ![w] = c]
  /\ pc' = [pc EXCEPT ![w] = "start"]
  /\ UNCHANGED <<collections, mutex, main, left, files, history>>

\* The call finds its collection, or ends with collection_does_not_exist.
Enter(w) ==
  /\ pc[w] = "start" /\ call[w].op \notin Exclusive
  /\ CanShare(mutex)
  /\ \/ /\ collections[call[w].name] # Absent
        /\ mutex' = Share(mutex, w)
        /\ pc' = [pc EXCEPT ![w] = "inside"] /\ UNCHANGED call
     \/ /\ collections[call[w].name] = Absent
        /\ Done(w) /\ UNCHANGED mutex
  /\ UNCHANGED <<collections, main, left, files, history>>

\* Inside, the collection changes at one moment, under its own locks; a batch
\* with a vector of another dimension changes nothing.
Change(w) ==
  LET c == call[w] IN
  /\ pc[w] = "inside" /\ collections[c.name] # Absent
  /\ \/ c.op = "add_vectors" /\ Becomes(c.name, collections[c.name] \cup c.ids)
     \/ c.op = "delete_vectors" /\ Becomes(c.name, collections[c.name] \ c.ids)
     \/ c.op \in {"add_vectors", "read"} /\ UNCHANGED <<collections, during>>
  /\ pc' = [pc EXCEPT ![w] = "leave"]
  /\ UNCHANGED <<mutex, call, main, left, files, kept, ioFailed>>

Leave(w) ==
  /\ pc[w] = "leave"
  /\ mutex' = Unshare(mutex, w)
  /\ Done(w)
  /\ UNCHANGED <<collections, main, left, files, history>>

\* libc++: the writer is announced before it waits for the readers to leave.
Announce(w) ==
  /\ pc[w] = "start" /\ call[w].op \in Exclusive
  /\ CanAnnounce(mutex)
  /\ mutex' = Lock(mutex, w)
  /\ UNCHANGED <<collections, pc, call, main, left, files, history>>

AddCollection(w) ==
  LET n == call[w].name IN
  /\ pc[w] = "start" /\ call[w].op = "add_collection"
  /\ CanLock(mutex, w)
  /\ IF collections[n] = Absent THEN Becomes(n, {}) ELSE UNCHANGED <<collections, during>>
  /\ mutex' = Unlock(mutex)
  /\ Done(w)
  /\ UNCHANGED <<main, left, files, kept, ioFailed>>

\* Mutant: delete_collection takes the lock shared.
DeleteCollection_SharedLock(w) ==
  /\ pc[w] = "start" /\ call[w].op = "delete_collection"
  /\ mutex.w \in {NoThread, w}
  /\ Becomes(call[w].name, Absent)
  /\ mutex' = Unlock(mutex)
  /\ Done(w)
  /\ UNCHANGED <<main, left, files, kept, ioFailed>>

\* The table forgets the collection; its file, if there is one, stays.
DeleteCollection(w) ==
  /\ pc[w] = "start" /\ call[w].op = "delete_collection"
  /\ CanLock(mutex, w)
  /\ Becomes(call[w].name, Absent)
  /\ mutex' = Unlock(mutex)
  /\ Done(w)
  /\ UNCHANGED <<main, left, files, kept, ioFailed>>

Worker(w) ==
  \/ Begin(w) \/ Enter(w) \/ Change(w) \/ Leave(w)
  \/ Announce(w) \/ AddCollection(w) \/ DeleteCollection(w)

-----------------------------------------------------------------------------
(* save(): the table is locked shared throughout, the files are written    *)
(* and renamed one by one                                                  *)

Table == {n \in Names : collections[n] # Absent}

Signal ==
  /\ main = "serve" /\ main' = "lock"
  /\ UNCHANGED <<memory, left, files, history>>

SaveLock ==
  /\ main = "lock" /\ main' = "save"
  /\ CanShare(mutex) /\ mutex' = Share(mutex, Main)
  /\ left' = Table
  /\ during' = [n \in Names |-> {collections[n]}] /\ kept' = {}
  /\ UNCHANGED <<collections, pc, call, files, ioFailed>>

\* Mutant: the file is written in place.
SaveOpen_InPlace(n) ==
  /\ main = "save" /\ n \in left
  /\ main' = "write" /\ tmp' = [name |-> n, holds |-> Torn]
  /\ disk' = [disk EXCEPT ![n] = Torn]
  /\ UNCHANGED <<memory, left, history>>

\* The .tmp file is opened, and emptied; one that cannot be is passed over.
SaveOpen(n) ==
  /\ main = "save" /\ n \in left
  /\ \/ /\ main' = "write" /\ tmp' = [name |-> n, holds |-> Torn]
        /\ UNCHANGED left
     \/ /\ left' = left \ {n}
        /\ UNCHANGED <<main, tmp>>
  /\ UNCHANGED <<memory, disk, history>>

\* collection::serialize reads the collection at one moment.  Whether all of
\* it reaches the file is not looked at.
SaveWrite ==
  /\ main = "write" /\ main' = "rename"
  /\ \/ tmp' = [tmp EXCEPT !.holds = collections[tmp.name]] /\ UNCHANGED ioFailed
     \/ ioFailed' = TRUE /\ UNCHANGED tmp
  /\ UNCHANGED <<memory, left, disk, during, kept>>

\* Mutant: a file that is already there is not replaced.
SaveRename_KeepsOld ==
  /\ main = "rename" /\ main' = "save"
  /\ disk' = [disk EXCEPT ![tmp.name] = IF @ = Absent THEN tmp.holds ELSE @]
  /\ left' = left \ {tmp.name} /\ kept' = kept \cup {tmp.name}
  /\ UNCHANGED <<memory, tmp, during, ioFailed>>

SaveRename ==
  /\ main = "rename" /\ main' = "save"
  /\ disk' = [disk EXCEPT ![tmp.name] = tmp.holds]
  /\ left' = left \ {tmp.name} /\ kept' = kept \cup {tmp.name}
  /\ UNCHANGED <<memory, tmp, during, ioFailed>>

\* An exception ends the loop, or keeps save() from coming to it; the answer is
\* internal_error, and the server does not look at it.
SaveFails ==
  /\ \/ main \in {"write", "rename"} /\ main' = "save" /\ left' = {}
     \/ main = "lock" /\ main' = "saved" /\ UNCHANGED left
  /\ UNCHANGED <<memory, files, history>>

SaveDone ==
  /\ main = "save" /\ left = {} /\ main' = "saved"
  /\ mutex' = Unshare(mutex, Main)
  /\ during' = [n \in Names |-> IF n \in kept THEN during[n] ELSE {}]
  /\ UNCHANGED <<collections, pc, call, left, files, kept, ioFailed>>

Save ==
  \/ SaveLock \/ SaveWrite \/ SaveRename \/ SaveFails \/ SaveDone
  \/ \E n \in Names : SaveOpen(n)

-----------------------------------------------------------------------------
(* The end of the process, killed at any moment or done, and the next one *)

End ==
  /\ main # "down" /\ main' = "down"
  /\ collections' = [n \in Names |-> Absent]
  /\ mutex' = Unlocked
  /\ pc' = [w \in Workers |-> "idle"] /\ call' = [w \in Workers |-> Absent]
  /\ left' = {} /\ tmp' = NoFile
  /\ UNCHANGED <<disk, history>>

\* load() runs before there is any other thread.
Start ==
  /\ main = "down" /\ main' = "load"
  /\ left' = {n \in Names : disk[n] # Absent}
  /\ UNCHANGED <<memory, files, history>>

\* Mutant: a file that ends too early is taken for a whole one.
LoadFile_Unread(n) ==
  /\ main = "load" /\ n \in left
  /\ collections' = [collections EXCEPT ![n] = disk[n]]
  /\ left' = left \ {n}
  /\ UNCHANGED <<mutex, pc, call, main, files, history>>

LoadFile(n) ==
  /\ main = "load" /\ n \in left
  /\ disk[n] # Torn
  /\ collections' = [collections EXCEPT ![n] = disk[n]]
  /\ left' = left \ {n}
  /\ UNCHANGED <<mutex, pc, call, main, files, history>>

\* A file that ends too early is read as far as it goes, and from there on what
\* the reads left of variables that were never set: that makes any collection,
\* one of another name, or an exception, which ends the loop.
LoadTorn(n) ==
  /\ main = "load" /\ n \in left
  /\ disk[n] = Torn
  /\ \/ /\ \E c \in Contents : collections' = [collections EXCEPT ![n] = c]
        /\ left' = left \ {n}
     \/ left' \in {left \ {n}, {}} /\ UNCHANGED collections
  /\ UNCHANGED <<mutex, pc, call, main, files, history>>

\* A file that cannot be opened is passed over.
LoadSkip(n) ==
  /\ main = "load" /\ n \in left
  /\ left' = left \ {n} /\ ioFailed' = TRUE
  /\ UNCHANGED <<memory, main, files, during, kept>>

\* Mutant: the server does not wait for the load to be done.
LoadDone_Early ==
  /\ main = "load" /\ main' = "serve"
  /\ UNCHANGED <<memory, left, files, history>>

LoadDone ==
  /\ main = "load" /\ left = {} /\ main' = "serve"
  /\ UNCHANGED <<memory, left, files, history>>

Load == LoadDone \/ \E n \in Names : LoadFile(n) \/ LoadTorn(n) \/ LoadSkip(n)

-----------------------------------------------------------------------------
Init ==
  /\ collections = [n \in Names |-> Absent]
  /\ mutex = Unlocked
  /\ pc = [w \in Workers |-> "idle"] /\ call = [w \in Workers |-> Absent]
  /\ main = "down" /\ left = {}
  /\ tmp = NoFile /\ disk = [n \in Names |-> Absent]
  /\ during = [n \in Names |-> {}] /\ kept = {} /\ ioFailed = FALSE

Next ==
  \/ \E w \in Workers : Worker(w)
  \/ Signal \/ Save \/ End \/ Start \/ Load

Spec == Init /\ [][Next]_vars

-----------------------------------------------------------------------------
(* Properties *)

\* Every variable keeps its type.
TypeOK ==
  /\ collections \in [Names -> {Absent} \cup Contents]
  /\ mutex \in Mutex(Threads)
  /\ pc \in [Workers -> {"idle", "start", "inside", "leave"}]
  /\ call \in [Workers -> {Absent} \cup Request]
  /\ main \in {"down", "load", "serve", "lock", "save", "write", "rename", "saved"}
  /\ left \subseteq Names /\ kept \subseteq Names
  /\ tmp \in {NoFile} \cup [name : Names, holds : {Torn} \cup Contents]
  /\ disk \in [Names -> {Absent, Torn} \cup Contents]
  /\ during \in [Names -> SUBSET ({Absent} \cup Contents)]
  /\ ioFailed \in BOOLEAN

\* The collection a call works in, or a save has yet to write, is in the table
\* until it is done: no delete_collection takes it away in between.
InsideExists ==
  /\ \A w \in Workers : pc[w] = "inside" => collections[call[w].name] # Absent
  /\ Saving => \A n \in left : collections[n] # Absent

\* Whenever the process is killed, a .db file is as the save before left it, or
\* holds the whole collection as it stood at some moment of the save under way;
\* only a write that fell short unnoticed makes it anything else.
FilesWhole ==
  [][\A n \in Names : disk'[n] # disk[n] =>
       \/ disk'[n] \in during[n] \ {Absent}
       \/ disk'[n] = Torn /\ ioFailed]_vars

\* What save() wrote comes back: the next process, and any after it that the
\* last one did not save for, starts with each of those collections as it was
\* at some moment of that save.
RestoresSaved ==
  main = "load" /\ left = {} /\ ~ioFailed =>
    \A n \in kept : collections[n] \in during[n] \ {Absent}

\* The database is a DurableTable: its table becomes visible with the end of
\* load(), and the contents a file may get are those since save() has the lock.
Loaded == main \notin {"down", "load"}

Durable == INSTANCE DurableTable WITH
             table <- IF Loaded THEN collections ELSE [n \in Names |-> Absent],
             saved <- disk,
             seen  <- IF Saving THEN during ELSE [n \in Names |-> {}],
             phase <- IF ~Loaded THEN "down" ELSE IF Saving THEN "saving" ELSE "up",
             lossy <- ioFailed

ImplementsDurableTable == Durable!Spec
==============================================================================
