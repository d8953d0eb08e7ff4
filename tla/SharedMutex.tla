----------------------------- MODULE SharedMutex -----------------------------
(***************************************************************************)
(* std::shared_mutex, modelled from how the collection and its indices use *)
(* it.  The standard leaves the order in which waiting readers and writers *)
(* are served to the library, and the two libraries differ in a way that   *)
(* decides which of this program's calls can wait for each other:          *)
(*   - libstdc++ (Libcxx = FALSE) wraps the default pthread_rwlock, which  *)
(*     prefers readers: a waiting writer leaves no trace, and lock_shared  *)
(*     by the thread that holds the lock exclusively throws (EDEADLK);     *)
(*   - libc++ (Libcxx = TRUE) prefers writers: lock() first announces the  *)
(*     writer, which holds up every later reader, then waits for the       *)
(*     readers that are inside.                                            *)
(***************************************************************************)
CONSTANTS NoThread, \* no thread holds or has announced the exclusive lock
          Libcxx

ASSUME LibcxxAssumption == Libcxx \in BOOLEAN

\* w: the exclusive holder (or the announced writer); r: the shared holders.
Mutex(threads) == [w : threads \cup {NoThread}, r : SUBSET threads]

Unlocked == [w |-> NoThread, r |-> {}]

CanShare(m) == m.w = NoThread

Share(m, t) == [m EXCEPT !.r = @ \cup {t}]

Unshare(m, t) == [m EXCEPT !.r = @ \ {t}]

\* lock() of libc++ marks the writer before it waits for the readers.
CanAnnounce(m) == Libcxx /\ m.w = NoThread

CanLock(m, t) == m.r = {} /\ m.w = IF Libcxx THEN t ELSE NoThread

Lock(m, t) == [m EXCEPT !.w = t]

Unlock(m) == [m EXCEPT !.w = NoThread]
==============================================================================
