-------------------------------- MODULE Server --------------------------------
(***************************************************************************)
(* The asynchronous gRPC server.  A handler object per call goes through   *)
(* CREATED -> READ -> PROCESSED; polling threads take its completions from *)
(* the queue cq and run run_flow on it, worker threads take its tasks from *)
(* the pool's bounded queue, and the main thread shuts all of them down.   *)
(* A handler deletes itself: whoever still uses it afterwards uses freed   *)
(* memory, which the variable misused records.                             *)
(*                                                                         *)
(* What a call asks of the database is one atomic step here (Collection    *)
(* says what it does); gRPC itself is external: an operation a handler     *)
(* starts completes with one event, and starting one that is already       *)
(* under way aborts the process.                                           *)
(***************************************************************************)
EXTENDS Naturals, Sequences, FiniteSets

CONSTANTS Calls,      \* the calls clients make, each once
          Rpc,        \* of each call, the RPC it is of
          Pollers, Workers,
          MaxQueue,   \* MAX_QUEUE_SIZE of the pool
          MaxBatches, \* bound: messages a client sends on one stream
          None

Rpcs == {"CreateCollection", "DeleteCollection", "Upsert", "Search", "StreamUpsert",
         "DeleteVector", "AddIndex", "GetIndexParams"}

ASSUME CallsAssumption == Rpc \in [Calls -> Rpcs] /\ None \notin Calls
ASSUME ThreadsAssumption == Pollers \cap Workers = {}
ASSUME SizesAssumption == MaxQueue \in Nat \ {0} /\ MaxBatches \in Nat

Threads == Pollers \cup Workers
Streams == {c \in Calls : Rpc[c] = "StreamUpsert"}
Unary == Calls \ Streams

\* What tells the handlers apart: how often each finishes a call that it turns
\* down before the pool, how many changes its task makes if it answers OK, and
\* whether it logs an exception of its task once it has finished the call.
create_collection_handler == [refuses |-> {1}, changes |-> {1}, logsLast |-> FALSE]
delete_collection_handler == [refuses |-> {1}, changes |-> {1}, logsLast |-> FALSE]
upsert_handler == [refuses |-> {1}, changes |-> {1}, logsLast |-> FALSE]
search_handler == [refuses |-> {1}, changes |-> {0}, logsLast |-> FALSE]
stream_upsert_handler == [refuses |-> {}, changes |-> {1}, logsLast |-> FALSE]

\* A DeleteVector without ids is finished twice.  How many vectors the collection
\* did remove is not looked at: none, if it has none of the ids.
delete_vector_handler == [refuses |-> {1, 2}, changes |-> {0, 1}, logsLast |-> TRUE]

\* All is checked in the task, and that the collection could not add the index
\* is not looked at.
add_index_handler == [refuses |-> {}, changes |-> {0, 1}, logsLast |-> TRUE]
get_index_handler == [refuses |-> {1}, changes |-> {0}, logsLast |-> FALSE]

Handler(c) ==
  CASE Rpc[c] = "CreateCollection" -> create_collection_handler
    [] Rpc[c] = "DeleteCollection" -> delete_collection_handler
    [] Rpc[c] = "Upsert" -> upsert_handler
    [] Rpc[c] = "Search" -> search_handler
    [] Rpc[c] = "StreamUpsert" -> stream_upsert_handler
    [] Rpc[c] = "DeleteVector" -> delete_vector_handler
    [] Rpc[c] = "AddIndex" -> add_index_handler
    [] Rpc[c] = "GetIndexParams" -> get_index_handler

\* A completion: of which operation of which call, and whether it succeeded.
Event == [call : Calls, of : {"request", "read", "finish"}, ok : BOOLEAN]

VARIABLES
  running, stopped, \* running_ of the server, stopped of the pool
  main,      \* where the main thread is
  listening, \* how many handlers wait for a new call, by RPC
  life,      \* of each handler: "none", "live" or "deleted"
  state,     \* state_ of each handler
  cq,        \* completions not yet taken
  reading,   \* streams with a Read under way
  batches,   \* messages sent on each stream
  closed,    \* streams their client has ended
  queue,     \* tasks_ of the pool
  pc, on, event, \* of each thread: where it is, the call, the completion
  shut,      \* of each poller: _shutdown, the argument of run_flow
  applied,   \* how often each call has changed the database
  answer,    \* what the client was told
  misused,   \* handlers used after they were deleted
  crashed

handlers == <<listening, life, state, cq, reading, answer>>
clients == <<batches, closed>>
threads == <<pc, on, event, shut>>
control == <<running, stopped, main>>
vars == <<handlers, clients, threads, applied, control, queue, misused, crashed>>

Go(x, label) == pc' = [pc EXCEPT ![x] = label]

\* Thread x is done with its call.
Rest(x) ==
  /\ Go(x, "idle")
  /\ on' = [on EXCEPT ![x] = None]
  /\ event' = [event EXCEPT ![x] = None]
  /\ UNCHANGED shut

Stay(x, label) == Go(x, label) /\ UNCHANGED <<on, event, shut>>

Use(c) == misused' = IF life[c] = "deleted" THEN misused \cup {c} ELSE misused

SetState(c, s) == state' = [state EXCEPT ![c] = s]

Delete(c) == life' = [life EXCEPT ![c] = "deleted"]

Post(e) == cq' = cq \cup {e}

\* responder_.Finish: the completion may arrive at once, at any poller.
Finish(c, a) ==
  IF answer[c] # "none" THEN crashed' = TRUE /\ UNCHANGED <<answer, cq>>
  ELSE /\ answer' = [answer EXCEPT ![c] = a]
       /\ \E ok \in BOOLEAN : Post([call |-> c, of |-> "finish", ok |-> ok])
       /\ UNCHANGED crashed

\* reader_.Read
Read(c) ==
  IF c \in reading THEN crashed' = TRUE /\ UNCHANGED reading
  ELSE reading' = reading \cup {c} /\ UNCHANGED crashed

-----------------------------------------------------------------------------
(* Clients *)

Call(c) ==
  /\ ~crashed
  /\ main \notin {"drain", "done"} /\ life[c] = "none" /\ listening[Rpc[c]] > 0
  /\ listening' = [listening EXCEPT ![Rpc[c]] = @ - 1]
  /\ life' = [life EXCEPT ![c] = "live"]
  /\ Post([call |-> c, of |-> "request", ok |-> TRUE])
  /\ UNCHANGED <<state, reading, answer, clients, threads, applied, control, queue, misused, crashed>>

\* A message completes the Read that waits for it; the end of the stream, or of
\* the call, makes it fail.
ReadEnds(c) ==
  /\ ~crashed
  /\ c \in reading
  /\ reading' = reading \ {c}
  /\ \/ /\ c \notin closed /\ batches[c] < MaxBatches /\ answer[c] = "none"
        /\ batches' = [batches EXCEPT ![c] = @ + 1]
        /\ Post([call |-> c, of |-> "read", ok |-> TRUE])
     \/ /\ c \in closed \/ answer[c] # "none"
        /\ Post([call |-> c, of |-> "read", ok |-> FALSE])
        /\ UNCHANGED batches
  /\ UNCHANGED <<listening, life, state, answer, closed, threads, applied, control, queue, misused, crashed>>

Close(c) ==
  /\ ~crashed
  /\ c \in Streams \ closed /\ life[c] = "live"
  /\ closed' = closed \cup {c}
  /\ UNCHANGED <<handlers, batches, threads, applied, control, queue, misused, crashed>>

-----------------------------------------------------------------------------
(* The pool: a bounded queue, and workers that sleep while it is empty *)

Asleep == {w \in Workers : pc[w] = "asleep"}

\* Mutant: the workers are not notified.
Submit_Silent(p, c) ==
  /\ IF Len(queue) >= MaxQueue THEN crashed' = TRUE /\ UNCHANGED queue
     ELSE queue' = Append(queue, c) /\ UNCHANGED crashed
  /\ Rest(p)

\* Mutant: one task too many.
Submit_OffByOne(p, c) ==
  /\ IF Len(queue) > MaxQueue THEN crashed' = TRUE /\ UNCHANGED queue
     ELSE queue' = Append(queue, c) /\ UNCHANGED crashed
  /\ Asleep = {} /\ Rest(p)

\* submit, by poller p, which is then done.  Nobody catches "Task queue full".
Submit(p, c) ==
  /\ IF Len(queue) >= MaxQueue THEN crashed' = TRUE /\ UNCHANGED queue
     ELSE queue' = Append(queue, c) /\ UNCHANGED crashed
  /\ \/ Asleep = {} /\ Rest(p)
     \/ \E w \in Asleep :
          /\ pc' = [pc EXCEPT ![p] = "idle", ![w] = "idle"]
          /\ on' = [on EXCEPT ![p] = None]
          /\ event' = [event EXCEPT ![p] = None]
          /\ UNCHANGED shut

\* Mutant: the task stays at the front of the queue.
TakeTask_NoPop(w) ==
  /\ ~crashed
  /\ pc[w] = "idle" /\ ~stopped
  /\ \/ /\ queue = <<>>
        /\ Stay(w, "asleep") /\ UNCHANGED queue
     \/ /\ queue # <<>>
        /\ Go(w, "run") /\ on' = [on EXCEPT ![w] = Head(queue)]
        /\ UNCHANGED <<event, shut, queue>>
  /\ UNCHANGED <<handlers, clients, applied, control, misused, crashed>>

TakeTask(w) ==
  /\ ~crashed
  /\ pc[w] = "idle" /\ ~stopped
  /\ \/ /\ queue = <<>>
        /\ Stay(w, "asleep") /\ UNCHANGED queue
     \/ /\ queue # <<>>
        /\ Go(w, "run") /\ on' = [on EXCEPT ![w] = Head(queue)]
        /\ queue' = Tail(queue)
        /\ UNCHANGED <<event, shut>>
  /\ UNCHANGED <<handlers, clients, applied, control, misused, crashed>>

\* The task: the database answers OK, or something else (to which a task may
\* come without asking it), or throws, before or after it has made the change.
Run(w) ==
  LET c == on[w] IN
  /\ ~crashed
  /\ pc[w] = "run"
  /\ Use(c)
  /\ \/ \E n \in Handler(c).changes :
          applied' = [applied EXCEPT ![c] = @ + n] /\ Stay(w, "replyOk")
     \/ UNCHANGED applied /\ Stay(w, "replyError")
     \/ \E n \in {0} \cup Handler(c).changes :
          applied' = [applied EXCEPT ![c] = @ + n] /\ Stay(w, "caught")
  /\ UNCHANGED <<handlers, clients, control, queue, crashed>>

\* Mutant: the state is not set at all.
Reply_NoState(w) ==
  LET c == on[w] IN
  /\ ~crashed
  /\ \/ pc[w] = "replyError"
     \/ pc[w] = "caught" /\ c \in Unary
     \/ pc[w] = "replyOk" /\ c \in Unary
  /\ Use(c)
  /\ Finish(c, IF pc[w] = "replyOk" THEN "ok" ELSE "error")
  /\ IF pc[w] = "caught" /\ Handler(c).logsLast THEN Stay(w, "log") ELSE Rest(w)
  /\ UNCHANGED <<listening, life, state, reading, clients, applied, control, queue>>

Reply(w) ==
  LET c == on[w] IN
  /\ ~crashed
  /\ \/ pc[w] = "replyError"
     \/ pc[w] = "caught" /\ c \in Unary
     \/ pc[w] = "replyOk" /\ c \in Unary
  /\ Use(c)
  /\ SetState(c, "PROCESSED")
  /\ Finish(c, IF pc[w] = "replyOk" THEN "ok" ELSE "error")
  /\ IF pc[w] = "caught" /\ Handler(c).logsLast THEN Stay(w, "log") ELSE Rest(w)
  /\ UNCHANGED <<listening, life, reading, clients, applied, control, queue>>

\* These two handlers log the exception once they have finished the call.
Log(w) ==
  /\ ~crashed
  /\ pc[w] = "log"
  /\ Use(on[w])
  /\ Rest(w)
  /\ UNCHANGED <<handlers, clients, applied, control, queue, crashed>>

\* A stream goes on with do_read; after an exception it is left as it is.
NextBatch(w) ==
  LET c == on[w] IN
  /\ ~crashed
  /\ c \in Streams
  /\ \/ /\ pc[w] = "replyOk"
        /\ Use(c) /\ Read(c) /\ Stay(w, "setRead")
     \/ /\ pc[w] = "caught"
        /\ Rest(w) /\ UNCHANGED <<reading, misused, crashed>>
  /\ UNCHANGED <<listening, life, state, cq, answer, clients, applied, control, queue>>

\* Second half of do_read, in whichever thread: state_ = READ.
SetRead(x) ==
  /\ ~crashed
  /\ pc[x] = "setRead"
  /\ Use(on[x]) /\ SetState(on[x], "READ")
  /\ Rest(x)
  /\ UNCHANGED <<listening, life, cq, reading, answer, clients, applied, control, queue, crashed>>

Worker(w) == TakeTask(w) \/ Run(w) \/ Reply(w) \/ Log(w) \/ NextBatch(w) \/ SetRead(w)

-----------------------------------------------------------------------------
(* run_flow: a poller takes a completion and does what the state asks for *)

Take(p) ==
  /\ ~crashed
  /\ pc[p] = "idle"
  /\ \E e \in cq :
       /\ cq' = cq \ {e}
       /\ on' = [on EXCEPT ![p] = e.call]
       /\ event' = [event EXCEPT ![p] = e]
  /\ Go(p, "flow")
  /\ shut' = [shut EXCEPT ![p] = ~running]
  /\ UNCHANGED <<listening, life, state, reading, answer, clients, applied, control, queue, misused, crashed>>

Flowing(p, c) == ~crashed /\ pc[p] = "flow" /\ on[p] = c
Normally(p, c) == Flowing(p, c) /\ ~shut[p] /\ Use(c)

\* do_delete, at shutdown or when all is done.
FlowDelete(p) ==
  LET c == on[p] IN
  /\ \/ Flowing(p, c) /\ shut[p] /\ Use(c)
     \/ Normally(p, c) /\ state[c] = "PROCESSED"
  /\ Delete(c)
  /\ Rest(p)
  /\ UNCHANGED <<listening, state, cq, reading, answer, clients, applied, control, queue, crashed>>

\* handle_unknown_error; a stream that has stored its batches ends with OK.
FlowFail(p) ==
  LET c == on[p] IN
  /\ Normally(p, c) /\ ~event[p].ok /\ state[c] # "PROCESSED"
  /\ SetState(c, "PROCESSED")
  /\ Finish(c, IF applied[c] > 0 THEN "ok" ELSE "error")
  /\ Stay(p, "mark")
  /\ UNCHANGED <<listening, life, reading, clients, applied, control, queue>>

\* ... and run_flow sets the state once more after it.
Mark(x) ==
  /\ ~crashed
  /\ pc[x] = "mark"
  /\ Use(on[x]) /\ SetState(on[x], "PROCESSED")
  /\ Rest(x)
  /\ UNCHANGED <<listening, life, cq, reading, answer, clients, applied, control, queue, crashed>>

\* Mutant: the template argument of another handler.
NewInstance_Copied(c) ==
  listening' = [listening EXCEPT ![IF c \in Streams THEN Rpc[c] ELSE "Upsert"] = @ + 1]

NewInstance(c) == listening' = [listening EXCEPT ![Rpc[c]] = @ + 1]

\* A new call: another handler takes this one's place, then the call is turned
\* down, or becomes a task, or (a stream) reads its first message.
FlowOpen(p) ==
  LET c == on[p] IN
  /\ Normally(p, c) /\ event[p].ok /\ state[c] = "CREATED"
  /\ NewInstance(c)
  /\ \/ /\ \E times \in Handler(c).refuses : IF times = 2 THEN Stay(p, "again") ELSE Rest(p)
        /\ SetState(c, "PROCESSED") /\ Finish(c, "error")
        /\ UNCHANGED <<reading, queue>>
     \/ /\ c \in Unary
        /\ Submit(p, c)
        /\ UNCHANGED <<state, cq, reading, answer>>
     \/ /\ c \in Streams
        /\ Read(c) /\ Stay(p, "setRead")
        /\ UNCHANGED <<state, cq, answer, queue>>
  /\ UNCHANGED <<life, clients, applied, control>>

\* The second half of a refusal in two: it sets the state and finishes a second time.
FinishAgain(p) ==
  LET c == on[p] IN
  /\ ~crashed
  /\ pc[p] = "again"
  /\ Use(c) /\ SetState(c, "PROCESSED") /\ Finish(c, "error")
  /\ Rest(p)
  /\ UNCHANGED <<listening, life, reading, clients, applied, control, queue>>

FlowProcess(p) ==
  LET c == on[p] IN
  /\ Normally(p, c) /\ event[p].ok /\ state[c] = "READ"
  /\ Submit(p, c)
  /\ UNCHANGED <<handlers, clients, applied, control>>

Poller(p) ==
  \/ Take(p) \/ FlowDelete(p) \/ FlowFail(p) \/ Mark(p) \/ FlowOpen(p) \/ FinishAgain(p)
  \/ FlowProcess(p) \/ SetRead(p)

-----------------------------------------------------------------------------
(* server::shutdown *)

MainGo(from, to) == ~crashed /\ main = from /\ main' = to

Signal ==
  /\ MainGo("run", "save")
  /\ running' = FALSE
  /\ UNCHANGED <<handlers, clients, threads, applied, stopped, queue, misused, crashed>>

\* What a worker still stores from here on is answered, but not saved.
Save ==
  /\ MainGo("save", "pool")
  /\ UNCHANGED <<handlers, clients, threads, applied, running, stopped, queue, misused, crashed>>


\* The tasks still queued are dropped.
StopPool ==
  /\ MainGo("pool", "join")
  /\ stopped' = TRUE
  /\ pc' = [x \in Threads |-> IF x \in Asleep THEN "idle" ELSE pc[x]]
  /\ UNCHANGED <<handlers, clients, on, event, shut, applied, running, queue, misused, crashed>>

JoinWorkers ==
  /\ MainGo("join", "drain")
  /\ \A w \in Workers : pc[w] = "idle"
  /\ listening' = [r \in Rpcs |-> 0]
  /\ UNCHANGED <<life, state, cq, reading, answer, clients, threads, applied, running, stopped,
                 queue, misused, crashed>>

\* server_->Shutdown waits for every call it has accepted.
Drained ==
  /\ MainGo("drain", "done")
  /\ \A c \in Calls : life[c] = "live" => answer[c] # "none"
  /\ cq = {} /\ \A p \in Pollers : pc[p] = "idle"
  /\ UNCHANGED <<handlers, clients, threads, applied, running, stopped, queue, misused, crashed>>

Shutdown == Save \/ StopPool \/ JoinWorkers \/ Drained

-----------------------------------------------------------------------------
Init ==
  /\ running = TRUE /\ stopped = FALSE /\ main = "run"
  /\ listening = [r \in Rpcs |-> 1]
  /\ life = [c \in Calls |-> "none"]
  /\ state = [c \in Calls |-> "CREATED"]
  /\ cq = {} /\ reading = {} /\ closed = {}
  /\ batches = [c \in Calls |-> 0]
  /\ queue = <<>>
  /\ pc = [x \in Threads |-> "idle"]
  /\ on = [x \in Threads |-> None]
  /\ event = [x \in Threads |-> None]
  /\ shut = [p \in Pollers |-> FALSE]
  /\ applied = [c \in Calls |-> 0]
  /\ answer = [c \in Calls |-> "none"]
  /\ misused = {} /\ crashed = FALSE

Next ==
  \/ \E c \in Calls : Call(c) \/ ReadEnds(c) \/ Close(c)
  \/ \E p \in Pollers : Poller(p)
  \/ \E w \in Workers : Worker(w)
  \/ Signal \/ Shutdown

Spec == Init /\ [][Next]_vars

\* Threads are scheduled; clients and the signal come when they please.
FairSpec ==
  /\ Spec
  /\ \A p \in Pollers : WF_vars(Poller(p))
  /\ \A w \in Workers : WF_vars(Worker(w))
  /\ WF_vars(Shutdown)

-----------------------------------------------------------------------------
(* Properties *)

\* Every variable keeps its type, and the pool's queue its bound.
TypeOK ==
  /\ running \in BOOLEAN /\ stopped \in BOOLEAN /\ crashed \in BOOLEAN
  /\ main \in {"run", "save", "pool", "join", "drain", "done"}
  /\ listening \in [Rpcs -> Nat]
  /\ life \in [Calls -> {"none", "live", "deleted"}]
  /\ state \in [Calls -> {"CREATED", "READ", "PROCESSED"}]
  /\ cq \subseteq Event /\ reading \subseteq Streams /\ closed \subseteq Streams
  /\ batches \in [Calls -> 0..MaxBatches]
  /\ queue \in Seq(Calls) /\ Len(queue) <= MaxQueue
  /\ pc \in [Threads -> {"idle", "asleep", "run", "replyOk", "replyError", "caught",
                         "log", "setRead", "mark", "flow", "again"}]
  /\ on \in [Threads -> Calls \cup {None}]
  /\ event \in [Threads -> Event \cup {None}]
  /\ shut \in [Pollers -> BOOLEAN]
  /\ applied \in [Calls -> Nat]
  /\ answer \in [Calls -> {"none", "ok", "error"}]
  /\ misused \subseteq Calls

\* No unary handler is used once it has deleted itself, whichever poller its
\* last completion goes to and however the worker that answered is delayed; but
\* for the two that log after they answer.
UnaryHandlersLive == \A c \in misused \cap Unary : Handler(c).logsLast

\* A handler whose request "has been processed" and that was deleted for it is
\* not used any more, by whatever thread.
HandlersLive == misused = {}

\* Calls of an RPC that are accepted but not yet seen by run_flow.
Unopened(r) ==
  {c \in Calls : /\ Rpc[c] = r
                 /\ \E e \in cq \cup {event[p] : p \in {q \in Pollers : pc[q] = "flow"}} :
                      e.call = c /\ e.of = "request"}

\* While the server runs there is for each unary RPC exactly one handler to take
\* the next call, or a poller about to make it: never none, and they do not pile
\* up, whatever becomes of the calls.
OneListener ==
  running /\ ~crashed =>
    \A r \in Rpcs \ {"StreamUpsert"} : listening[r] + Cardinality(Unopened(r)) = 1

\* A unary call changes the database at most once, and not after its client has
\* been told: by then its task is neither queued nor at work.  A client that is
\* told OK can rely on the one change, unless the RPC makes none (Search,
\* GetIndexParams) or is one whose result the database does not look at: a
\* DeleteVector may have found nothing to remove, an AddIndex may have failed.
AppliedOnce ==
  \A c \in Unary :
    /\ applied[c] <= 1
    /\ answer[c] = "ok" => applied[c] \in Handler(c).changes
    /\ answer[c] # "none" =>
         /\ \A k \in DOMAIN queue : queue[k] # c
         /\ \A w \in Workers : pc[w] \in {"run", "replyOk", "replyError", "caught"} => on[w] # c

\* Every unary call is answered, unless the server is told to stop or dies.
UnaryAnswered ==
  \A c \in Unary : life[c] = "live" ~> (answer[c] # "none" \/ ~running \/ crashed)

Unanswered(c) == life[c] = "live" /\ answer[c] = "none"

==============================================================================
