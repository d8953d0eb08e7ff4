----------------------------- MODULE ServerProofs -----------------------------
(***************************************************************************)
(* Proofs about Server: what becomes of a unary call.                      *)
(*                                                                         *)
(* A unary call is in one place at a time: its request, or the completion  *)
(* of its answer, is in the queue of completions or with one poller, or it *)
(* is a task, in the pool's queue or with one worker.  Whoever has it      *)
(* finds its handler alive, in the state that place goes with.             *)
(***************************************************************************)
EXTENDS Server, TLAPS, FiniteSetTheorems

(* The types, in the parts that steps leave unchanged together *)

Labels == {"idle", "asleep", "run", "replyOk", "replyError", "caught", "log", "setRead", "mark",
           "flow", "again"}

HandlerTypes ==
  /\ listening \in [Rpcs -> Nat]
  /\ life \in [Calls -> {"none", "live", "deleted"}]
  /\ state \in [Calls -> {"CREATED", "READ", "PROCESSED"}]
  /\ cq \subseteq Event /\ reading \subseteq Streams
  /\ answer \in [Calls -> {"none", "ok", "error"}]

ClientTypes == closed \subseteq Streams /\ batches \in [Calls -> 0..MaxBatches]

ThreadTypes ==
  /\ pc \in [Threads -> Labels]
  /\ on \in [Threads -> Calls \cup {None}]
  /\ event \in [Threads -> Event \cup {None}]
  /\ shut \in [Pollers -> BOOLEAN]

ControlTypes ==
  /\ running \in BOOLEAN /\ stopped \in BOOLEAN
  /\ main \in {"run", "save", "pool", "join", "drain", "done"}

QueueTypes == queue \in Seq(Calls) /\ Len(queue) <= MaxQueue

OtherTypes == applied \in [Calls -> Nat] /\ misused \subseteq Calls /\ crashed \in BOOLEAN

LEMMA TypeParts ==
  /\ TypeOK <=> /\ HandlerTypes /\ ClientTypes /\ ThreadTypes
                /\ ControlTypes /\ QueueTypes /\ OtherTypes
  /\ TypeOK' <=> /\ HandlerTypes' /\ ClientTypes' /\ ThreadTypes'
                 /\ ControlTypes' /\ QueueTypes' /\ OtherTypes'
BY DEF TypeOK, HandlerTypes, ClientTypes, ThreadTypes, ControlTypes, QueueTypes, OtherTypes, Labels

LEMMA UnchangedTypes ==
  /\ HandlerTypes /\ UNCHANGED handlers => HandlerTypes'
  /\ ClientTypes /\ UNCHANGED clients => ClientTypes'
  /\ ThreadTypes /\ UNCHANGED threads => ThreadTypes'
  /\ ControlTypes /\ UNCHANGED control => ControlTypes'
  /\ QueueTypes /\ UNCHANGED queue => QueueTypes'
  /\ OtherTypes /\ UNCHANGED <<applied, misused, crashed>> => OtherTypes'
BY DEF handlers, clients, threads, control, HandlerTypes, ClientTypes, ThreadTypes, ControlTypes,
   QueueTypes, OtherTypes

-----------------------------------------------------------------------------
(* The invariant *)

\* Where thread x can be, and with what.
InShape(x) ==
  /\ x \in Pollers => pc[x] \in {"idle", "flow", "setRead", "mark", "again"}
  /\ x \in Workers => pc[x] \in Labels \ {"flow", "mark", "again"}
  /\ pc[x] \notin {"idle", "asleep"} => on[x] \in Calls
  /\ pc[x] \in {"setRead", "mark"} => on[x] \in Streams
  /\ pc[x] \in {"again", "log"} => Handler(on[x]).logsLast
  /\ pc[x] = "again" => answer[on[x]] # "none"
  /\ pc[x] = "flow" => event[x] \in Event /\ event[x].call = on[x]

Shape == \A x \in Threads : InShape(x)

\* Where a thread has a call that nobody else has.
AtWork == {"run", "replyOk", "replyError", "caught"}

\* The task of call c waits for its answer.
Waiting(c) == life[c] = "live" /\ state[c] = "CREATED" /\ answer[c] = "none"

\* e is the request of a call not yet opened, or the completion of its answer.
Right(e) ==
  \/ e.of = "request" /\ e.ok /\ Waiting(e.call) /\ applied[e.call] = 0
  \/ e.of = "finish" /\ life[e.call] = "live" /\ state[e.call] = "PROCESSED" /\ answer[e.call] # "none"

NoEvent(c) == \A e \in cq : e.call # c
NoFlow(c) == \A p \in Pollers : pc[p] = "flow" => on[p] # c
NoQueued(c) == \A k \in 1 .. Len(queue) : queue[k] # c
NoWork(c) == \A w \in Workers : pc[w] \in AtWork => on[w] # c

OneEvent(c) == \E e \in cq : e.call = c /\ Right(e) /\ \A f \in cq : f.call = c => f = e

OneFlow(c) ==
  \E p \in Pollers : /\ pc[p] = "flow" /\ on[p] = c /\ Right(event[p])
                     /\ \A q \in Pollers : pc[q] = "flow" /\ on[q] = c => q = p

OneQueued(c) ==
  \E k \in 1 .. Len(queue) : queue[k] = c /\ \A j \in 1 .. Len(queue) : queue[j] = c => j = k

OneWork(c) ==
  \E w \in Workers : /\ pc[w] \in AtWork /\ on[w] = c
                     /\ pc[w] = "run" => applied[c] = 0
                     /\ pc[w] = "replyOk" => applied[c] \in Handler(c).changes
                     /\ \A v \in Workers : pc[v] \in AtWork /\ on[v] = c => v = w

\* Call c is in one place, or nobody has it.
Placed(c) ==
  \/ NoEvent(c) /\ NoFlow(c) /\ NoQueued(c) /\ NoWork(c)
  \/ OneEvent(c) /\ NoFlow(c) /\ NoQueued(c) /\ NoWork(c)
  \/ NoEvent(c) /\ OneFlow(c) /\ NoQueued(c) /\ NoWork(c)
  \/ NoEvent(c) /\ NoFlow(c) /\ OneQueued(c) /\ NoWork(c) /\ Waiting(c) /\ applied[c] = 0
  \/ NoEvent(c) /\ NoFlow(c) /\ NoQueued(c) /\ OneWork(c) /\ Waiting(c)

\* What has been done for it by the time its client is told.
Answered(c) ==
  /\ life[c] = "none" => state[c] = "CREATED" /\ answer[c] = "none" /\ applied[c] = 0
  /\ applied[c] <= 1
  /\ answer[c] = "ok" => applied[c] \in Handler(c).changes

\* Its request is on its way.
Opening(c) ==
  \/ \E e \in cq : e.call = c /\ e.of = "request"
  \/ \E p \in Pollers : pc[p] = "flow" /\ on[p] = c /\ event[p].of = "request"

\* Of unary RPC r one handler waits, or one request is on its way.
Balanced(r) ==
  \/ listening[r] = 1 /\ \A c \in Calls : Rpc[c] = r => ~Opening(c)
  \/ listening[r] = 0 /\ \E c \in Calls : /\ Rpc[c] = r /\ Opening(c)
                                          /\ \A d \in Calls : Rpc[d] = r /\ Opening(d) => d = c

Listening ==
  /\ running => main = "run" /\ \A p \in Pollers : shut[p] = FALSE
  /\ running /\ ~crashed => \A r \in Rpcs \ {"StreamUpsert"} : Balanced(r)

Inv ==
  /\ TypeOK /\ Shape
  /\ \A c \in Unary : Placed(c) /\ Answered(c)
  /\ UnaryHandlersLive
  /\ Listening

-----------------------------------------------------------------------------
(* What steps leave alone *)

\* Nothing happens to thread x, or to the handler of call c.
SameThread(x) == pc'[x] = pc[x] /\ on'[x] = on[x] /\ event'[x] = event[x]

SameHandler(c) ==
  life'[c] = life[c] /\ state'[c] = state[c] /\ answer'[c] = answer[c] /\ applied'[c] = applied[c]

\* Nobody gets call c or gives it away.
SameEvents(c) == \A e \in Event : e.call = c => (e \in cq' <=> e \in cq)
SameQueued(c) == (NoQueued(c) => NoQueued(c)') /\ (OneQueued(c) => OneQueued(c)')

SameFlow(c) ==
  \A p \in Pollers :
    (pc[p] = "flow" /\ on[p] = c) \/ (pc'[p] = "flow" /\ on'[p] = c) => SameThread(p)

SameWork(c) ==
  \A w \in Workers :
    (pc[w] \in AtWork /\ on[w] = c) \/ (pc'[w] \in AtWork /\ on'[w] = c) => SameThread(w)

Untouched(c) == SameHandler(c) /\ SameEvents(c) /\ SameQueued(c) /\ SameFlow(c) /\ SameWork(c)

LEMMA UntouchedEvents ==
  ASSUME HandlerTypes, HandlerTypes', NEW c \in Calls, SameEvents(c)
  PROVE  /\ NoEvent(c) => NoEvent(c)'
         /\ OneEvent(c) /\ SameHandler(c) => OneEvent(c)'
<1>1. ASSUME NoEvent(c) PROVE NoEvent(c)'
  BY <1>1 DEF SameEvents, NoEvent, HandlerTypes
<1>2. ASSUME OneEvent(c), SameHandler(c) PROVE OneEvent(c)'
  <2>1. PICK e \in cq : e.call = c /\ Right(e) /\ \A f \in cq : f.call = c => f = e
    BY <1>2 DEF OneEvent
  <2>2. e \in cq' /\ \A f \in cq' : f.call = c => f = e
    BY <2>1 DEF SameEvents, HandlerTypes
  <2>3. Right(e)'
    BY <2>1, <1>2 DEF Right, Waiting, SameHandler
  <2> QED
    BY <2>1, <2>2, <2>3 DEF OneEvent
<1> QED
  BY <1>1, <1>2

LEMMA UntouchedFlow ==
  ASSUME NEW c \in Calls, SameFlow(c)
  PROVE  /\ NoFlow(c) => NoFlow(c)'
         /\ OneFlow(c) /\ SameHandler(c) /\ Shape => OneFlow(c)'
<1>1. ASSUME NoFlow(c) PROVE NoFlow(c)'
  BY <1>1 DEF SameFlow, SameThread, NoFlow
<1>2. ASSUME OneFlow(c), SameHandler(c), Shape PROVE OneFlow(c)'
  <2>1. PICK p \in Pollers : /\ pc[p] = "flow" /\ on[p] = c /\ Right(event[p])
                             /\ \A q \in Pollers : pc[q] = "flow" /\ on[q] = c => q = p
    BY <1>2 DEF OneFlow
  <2>2. SameThread(p) /\ \A q \in Pollers : pc'[q] = "flow" /\ on'[q] = c => q = p
    BY <2>1 DEF SameFlow, SameThread
  <2>3. event[p].call = c
    BY <2>1, <1>2 DEF Shape, InShape, Threads
  <2>4. Right(event[p])'
    BY <2>1, <2>2, <2>3, <1>2 DEF Right, Waiting, SameHandler, SameThread
  <2> QED
    BY <2>1, <2>2, <2>4 DEF OneFlow, SameThread
<1> QED
  BY <1>1, <1>2

LEMMA UntouchedWork ==
  ASSUME NEW c \in Calls, SameWork(c)
  PROVE  /\ NoWork(c) => NoWork(c)'
         /\ OneWork(c) /\ SameHandler(c) => OneWork(c)'
<1>1. ASSUME NoWork(c) PROVE NoWork(c)'
  BY <1>1 DEF SameWork, SameThread, NoWork
<1>2. ASSUME OneWork(c), SameHandler(c) PROVE OneWork(c)'
  <2>1. PICK w \in Workers : /\ pc[w] \in AtWork /\ on[w] = c
                             /\ pc[w] = "run" => applied[c] = 0
                             /\ pc[w] = "replyOk" => applied[c] \in Handler(c).changes
                             /\ \A v \in Workers : pc[v] \in AtWork /\ on[v] = c => v = w
    BY <1>2 DEF OneWork
  <2>2. SameThread(w) /\ \A v \in Workers : pc'[v] \in AtWork /\ on'[v] = c => v = w
    BY <2>1 DEF SameWork, SameThread
  <2>3. Handler(c)' = Handler(c)
    BY DEF Handler
  <2> QED
    BY <2>1, <2>2, <2>3, <1>2 DEF OneWork, SameThread, SameHandler
<1> QED
  BY <1>1, <1>2

LEMMA UntouchedCall ==
  ASSUME HandlerTypes, HandlerTypes', Shape, NEW c \in Calls, Untouched(c)
  PROVE  (Placed(c) => Placed(c)') /\ (Answered(c) => Answered(c)')
<1>1. Waiting(c) /\ applied[c] = 0 => (Waiting(c) /\ applied[c] = 0)'
  BY DEF Untouched, SameHandler, Waiting
<1>2. Waiting(c) => Waiting(c)'
  BY DEF Untouched, SameHandler, Waiting
<1>3. Placed(c) => Placed(c)'
  BY <1>1, <1>2, UntouchedEvents, UntouchedFlow, UntouchedWork DEF Untouched, SameQueued, Placed
<1>4. Answered(c) => Answered(c)'
  BY DEF Untouched, SameHandler, Answered, Handler
<1> QED
  BY <1>3, <1>4

LEMMA UntouchedOpening ==
  ASSUME HandlerTypes, HandlerTypes', NEW c \in Calls, SameEvents(c), SameFlow(c)
  PROVE  Opening(c)' <=> Opening(c)
<1>1. (\E e \in cq : e.call = c /\ e.of = "request") <=> (\E e \in cq' : e.call = c /\ e.of = "request")
  BY DEF SameEvents, HandlerTypes
<1>2. ASSUME NEW p \in Pollers
      PROVE  pc[p] = "flow" /\ on[p] = c /\ event[p].of = "request"
               <=> pc'[p] = "flow" /\ on'[p] = c /\ event'[p].of = "request"
  BY DEF SameFlow, SameThread
<1> QED
  BY <1>1, <1>2 DEF Opening

\* Nothing happens to thread x, unless it is woken.
Woken(x) ==
  /\ on'[x] = on[x] /\ event'[x] = event[x]
  /\ pc'[x] = pc[x] \/ (pc[x] = "asleep" /\ pc'[x] = "idle")

Others(x) == \A y \in Threads \ {x} : Woken(y)

\* Answers are not taken back.
Kept == \A c \in Calls : answer[c] # "none" => answer'[c] # "none"

LEMMA WokenShape ==
  ASSUME NEW x \in Threads, InShape(x), Woken(x), Kept
  PROVE  InShape(x)'
<1>1. Handler(on[x])' = Handler(on'[x])
  BY DEF Handler
<1>2. CASE pc'[x] = pc[x]
  BY <1>1, <1>2 DEF InShape, Woken, Kept
<1>3. CASE pc[x] = "asleep" /\ pc'[x] = "idle"
  BY <1>3 DEF InShape, Woken, Labels
<1> QED
  BY <1>2, <1>3 DEF Woken

LEMMA OthersShape ==
  ASSUME Shape, NEW x \in Threads, Others(x), Kept, InShape(x)'
  PROVE  Shape'
BY WokenShape DEF Shape, Others

\* Thread x has nothing to do with call c, before or after the step.
Elsewhere(x, c) ==
  /\ pc[x] \in AtWork \cup {"flow"} => on[x] # c
  /\ pc'[x] \in AtWork \cup {"flow"} => on'[x] # c

LEMMA OthersSame ==
  ASSUME NEW x \in Threads, NEW c \in Calls, Others(x), Elsewhere(x, c)
  PROVE  SameFlow(c) /\ SameWork(c)
BY DEF Others, Woken, Elsewhere, SameFlow, SameWork, SameThread, AtWork, Threads

-----------------------------------------------------------------------------
(* What the helpers of the actions do *)

LEMMA StayDoes ==
  ASSUME ThreadTypes, NEW x \in Threads, NEW label \in Labels, Stay(x, label)
  PROVE  /\ ThreadTypes' /\ Others(x)
         /\ pc'[x] = label /\ on'[x] = on[x] /\ event'[x] = event[x] /\ shut' = shut
<1>1. pc' = [pc EXCEPT ![x] = label] /\ UNCHANGED <<on, event, shut>>
  BY DEF Stay, Go
<1>2. pc' \in [Threads -> Labels] /\ pc'[x] = label /\ \A y \in Threads \ {x} : pc'[y] = pc[y]
  BY <1>1 DEF ThreadTypes
<1>3. ThreadTypes'
  BY <1>1, <1>2 DEF ThreadTypes
<1> QED
  BY <1>1, <1>2, <1>3 DEF Others, Woken

LEMMA RestDoes ==
  ASSUME ThreadTypes, NEW x \in Threads, Rest(x)
  PROVE  ThreadTypes' /\ Others(x) /\ pc'[x] = "idle" /\ shut' = shut
<1>1. /\ pc' = [pc EXCEPT ![x] = "idle"]
      /\ on' = [on EXCEPT ![x] = None] /\ event' = [event EXCEPT ![x] = None] /\ shut' = shut
  BY DEF Rest, Go
<1>2. pc' \in [Threads -> Labels] /\ pc'[x] = "idle" /\ \A y \in Threads \ {x} : pc'[y] = pc[y]
  BY <1>1 DEF ThreadTypes, Labels
<1>3. on' \in [Threads -> Calls \cup {None}] /\ \A y \in Threads \ {x} : on'[y] = on[y]
  BY <1>1 DEF ThreadTypes
<1>4. event' \in [Threads -> Event \cup {None}] /\ \A y \in Threads \ {x} : event'[y] = event[y]
  BY <1>1 DEF ThreadTypes
<1>5. ThreadTypes'
  BY <1>1, <1>2, <1>3, <1>4 DEF ThreadTypes
<1> QED
  BY <1>1, <1>2, <1>3, <1>4, <1>5 DEF Others, Woken

LEMMA UseDoes ==
  ASSUME OtherTypes, NEW c \in Calls, Use(c)
  PROVE  /\ misused' \subseteq misused \cup {c} /\ misused' \subseteq Calls
         /\ life[c] # "deleted" => misused' = misused
BY DEF OtherTypes, Use

LEMMA FinishDoes ==
  ASSUME HandlerTypes, crashed = FALSE, NEW c \in Calls, NEW a \in {"ok", "error"}, Finish(c, a)
  PROVE  /\ answer' \in [Calls -> {"none", "ok", "error"}] /\ cq' \subseteq Event /\ crashed' \in BOOLEAN
         /\ Kept
         /\ \A d \in Calls \ {c} : answer'[d] = answer[d] /\ SameEvents(d)
         /\ answer[c] = "none" => /\ answer'[c] = a /\ crashed' = FALSE
                                  /\ \E ok \in BOOLEAN :
                                       cq' = cq \cup {[call |-> c, of |-> "finish", ok |-> ok]}
         /\ answer[c] # "none" => crashed' = TRUE /\ answer' = answer /\ cq' = cq
<1>1. CASE answer[c] # "none"
  BY <1>1 DEF Finish, HandlerTypes, Kept, SameEvents
<1>2. CASE answer[c] = "none"
  <2>1. answer' = [answer EXCEPT ![c] = a] /\ crashed' = FALSE
    BY <1>2 DEF Finish
  <2>2. PICK ok \in BOOLEAN : cq' = cq \cup {[call |-> c, of |-> "finish", ok |-> ok]}
    BY <1>2 DEF Finish, Post
  <2>3. [call |-> c, of |-> "finish", ok |-> ok] \in Event
    BY DEF Event
  <2>4. cq' \subseteq Event /\ \A d \in Calls \ {c} : SameEvents(d)
    BY <2>2, <2>3 DEF HandlerTypes, SameEvents
  <2>5. /\ answer' \in [Calls -> {"none", "ok", "error"}] /\ answer'[c] = a /\ Kept
        /\ \A d \in Calls \ {c} : answer'[d] = answer[d]
    BY <2>1 DEF HandlerTypes, Kept
  <2> QED
    BY <1>2, <2>1, <2>2, <2>4, <2>5
<1> QED
  BY <1>1, <1>2

\* What becomes of the queue of tasks when one is added or taken.
LEMMA Appended ==
  ASSUME QueueTypes, NEW c \in Calls, Len(queue) < MaxQueue, queue' = Append(queue, c)
  PROVE  /\ QueueTypes'
         /\ \A d \in Calls \ {c} : SameQueued(d)
         /\ NoQueued(c) => OneQueued(c)'
<1>1. /\ queue' \in Seq(Calls) /\ Len(queue') = Len(queue) + 1 /\ Len(queue) \in Nat
      /\ \A k \in 1 .. Len(queue) : queue'[k] = queue[k]
      /\ queue'[Len(queue) + 1] = c
  BY DEF QueueTypes
<1>2. QueueTypes'
  BY <1>1, SizesAssumption DEF QueueTypes
<1>3. ASSUME NEW d \in Calls \ {c} PROVE SameQueued(d)
  <2>1. \A k \in 1 .. Len(queue') : k \in 1 .. Len(queue) \/ queue'[k] # d
    BY <1>1
  <2>2. 1 .. Len(queue) \subseteq 1 .. Len(queue')
    BY <1>1
  <2> QED
    BY <1>1, <2>1, <2>2 DEF SameQueued, NoQueued, OneQueued
<1>4. ASSUME NoQueued(c) PROVE OneQueued(c)'
  <2>1. Len(queue) + 1 \in 1 .. Len(queue')
    BY <1>1
  <2>2. \A k \in 1 .. Len(queue') : queue'[k] = c => k = Len(queue) + 1
    BY <1>1, <1>4 DEF NoQueued
  <2> QED
    BY <1>1, <2>1, <2>2 DEF OneQueued
<1> QED
  BY <1>2, <1>3, <1>4

LEMMA Taken ==
  ASSUME QueueTypes, queue # <<>>, queue' = Tail(queue), NEW c, c = Head(queue)
  PROVE  /\ QueueTypes' /\ c \in Calls
         /\ \A d \in Calls \ {c} : SameQueued(d)
         /\ ~NoQueued(c)
         /\ OneQueued(c) => NoQueued(c)'
<1>1. /\ queue' \in Seq(Calls) /\ Len(queue') = Len(queue) - 1 /\ Len(queue) \in Nat \ {0}
      /\ \A k \in 1 .. Len(queue') : queue'[k] = queue[k + 1]
      /\ c = queue[1] /\ c \in Calls
  BY DEF QueueTypes
<1>2. QueueTypes'
  BY <1>1, SizesAssumption DEF QueueTypes
<1>3. ASSUME NEW d \in Calls \ {c} PROVE SameQueued(d)
  <2>1. \A k \in 1 .. Len(queue') : k + 1 \in 1 .. Len(queue)
    BY <1>1
  <2>2. NoQueued(d) => NoQueued(d)'
    BY <1>1, <2>1 DEF NoQueued
  <2>3. ASSUME OneQueued(d) PROVE OneQueued(d)'
    <3>1. PICK k \in 1 .. Len(queue) : queue[k] = d /\ \A j \in 1 .. Len(queue) : queue[j] = d => j = k
      BY <2>3 DEF OneQueued
    <3>2. k # 1
      BY <1>1, <3>1
    <3>3. k - 1 \in 1 .. Len(queue') /\ queue'[k - 1] = d
      BY <1>1, <3>1, <3>2
    <3>4. \A j \in 1 .. Len(queue') : queue'[j] = d => j = k - 1
      BY <1>1, <2>1, <3>1
    <3> QED
      BY <3>3, <3>4 DEF OneQueued
  <2> QED
    BY <2>2, <2>3 DEF SameQueued
<1>4. 1 \in 1 .. Len(queue)
  BY <1>1
<1>5. ~NoQueued(c)
  BY <1>1, <1>4 DEF NoQueued
<1>6. ASSUME OneQueued(c) PROVE NoQueued(c)'
  <2>1. \A j \in 1 .. Len(queue) : queue[j] = c => j = 1
    BY <1>1, <1>4, <1>6 DEF OneQueued
  <2>2. ASSUME NEW k \in 1 .. Len(queue'), queue'[k] = c PROVE FALSE
    <3>1. k + 1 \in 1 .. Len(queue) /\ queue[k + 1] = c
      BY <1>1, <2>2
    <3> QED
      BY <2>1, <3>1
  <2> QED
    BY <2>2 DEF NoQueued
<1> QED
  BY <1>1, <1>2, <1>3, <1>5, <1>6

LEMMA SubmitDoes ==
  ASSUME ThreadTypes, QueueTypes, crashed = FALSE, NEW p \in Pollers, NEW c \in Calls, Submit(p, c)
  PROVE  /\ ThreadTypes' /\ QueueTypes' /\ Others(p) /\ pc'[p] = "idle" /\ shut' = shut
         /\ \A d \in Calls \ {c} : SameQueued(d)
         /\ \/ crashed' = TRUE /\ SameQueued(c)
            \/ crashed' = FALSE /\ (NoQueued(c) => OneQueued(c)')
<1>1. p \in Threads
  BY DEF Threads
<1>2. ThreadTypes' /\ Others(p) /\ pc'[p] = "idle" /\ shut' = shut
  <2>1. CASE Rest(p)
    BY <2>1, <1>1, RestDoes
  <2>2. ASSUME NEW w \in Asleep,
               pc' = [pc EXCEPT ![p] = "idle", ![w] = "idle"],
               on' = [on EXCEPT ![p] = None], event' = [event EXCEPT ![p] = None], shut' = shut
        PROVE  ThreadTypes' /\ Others(p) /\ pc'[p] = "idle" /\ shut' = shut
    <3>1. w \in Threads /\ pc[w] = "asleep"
      BY DEF Asleep, Threads
    <3>2. /\ pc' \in [Threads -> Labels] /\ pc'[p] = "idle" /\ pc'[w] = "idle"
          /\ \A y \in Threads \ {p, w} : pc'[y] = pc[y]
      BY <2>2, <3>1, <1>1 DEF ThreadTypes, Labels
    <3>3. on' \in [Threads -> Calls \cup {None}] /\ \A y \in Threads \ {p} : on'[y] = on[y]
      BY <2>2, <1>1 DEF ThreadTypes
    <3>4. event' \in [Threads -> Event \cup {None}] /\ \A y \in Threads \ {p} : event'[y] = event[y]
      BY <2>2, <1>1 DEF ThreadTypes
    <3>5. ThreadTypes'
      BY <2>2, <3>2, <3>3, <3>4 DEF ThreadTypes
    <3> QED
      BY <2>2, <3>1, <3>2, <3>3, <3>4, <3>5 DEF Others, Woken
  <2> QED
    BY <2>1, <2>2 DEF Submit
<1>3. CASE Len(queue) >= MaxQueue
  <2>1. crashed' = TRUE /\ queue' = queue
    BY <1>3 DEF Submit
  <2>2. QueueTypes' /\ \A d \in Calls : SameQueued(d)
    BY <2>1 DEF QueueTypes, SameQueued, NoQueued, OneQueued
  <2> QED
    BY <1>2, <2>1, <2>2
<1>4. CASE ~(Len(queue) >= MaxQueue)
  <2>1. crashed' = FALSE /\ queue' = Append(queue, c)
    BY <1>4 DEF Submit
  <2>2. Len(queue) < MaxQueue
    BY <1>4, SizesAssumption DEF QueueTypes
  <2> QED
    BY <1>2, <2>1, <2>2, Appended
<1> QED
  BY <1>3, <1>4

-----------------------------------------------------------------------------
(* What a step must show of the conjuncts that it can disturb *)

\* The handlers that wait, while no request comes or goes.
LEMMA ListeningKept ==
  ASSUME Listening, crashed = FALSE, UNCHANGED <<running, main, listening, shut>>,
         \A c \in Unary : running => (Opening(c)' <=> Opening(c))
  PROVE  Listening'
<1>1. ASSUME NEW r \in Rpcs \ {"StreamUpsert"}, running, Balanced(r) PROVE Balanced(r)'
  <2>1. \A c \in Calls : Rpc[c] = r => (Opening(c)' <=> Opening(c))
    BY <1>1 DEF Unary, Streams
  <2>2. listening'[r] = listening[r]
    OBVIOUS
  <2> QED
    BY <1>1, <2>1, <2>2 DEF Balanced
<1> QED
  BY <1>1 DEF Listening

\* Handlers that are used, but not after their end.
LEMMA UnaryHandlersKept ==
  ASSUME UnaryHandlersLive,
         \A c \in Unary : c \in misused' => c \in misused \/ Handler(c).logsLast
  PROVE  UnaryHandlersLive'
BY DEF UnaryHandlersLive, Handler

\* A call without a handler is nowhere.
LEMMA NotYetCalled ==
  ASSUME NEW c \in Calls, Placed(c), life[c] = "none", Shape
  PROVE  /\ NoEvent(c) /\ NoFlow(c) /\ NoQueued(c) /\ NoWork(c)
         /\ ~Opening(c)
<1>1. ~Waiting(c)
  BY DEF Waiting
<1>2. ~OneEvent(c)
  BY DEF OneEvent, Right, Waiting
<1>3. ~OneFlow(c)
  <2> SUFFICES ASSUME OneFlow(c) PROVE FALSE
    OBVIOUS
  <2>1. PICK p \in Pollers : pc[p] = "flow" /\ on[p] = c /\ Right(event[p])
    BY DEF OneFlow
  <2>2. event[p].call = c
    BY <2>1 DEF Shape, InShape, Threads
  <2> QED
    BY <2>1, <2>2 DEF Right, Waiting
<1>4. NoEvent(c) /\ NoFlow(c) /\ NoQueued(c) /\ NoWork(c)
  BY <1>1, <1>2, <1>3 DEF Placed
<1> QED
  BY <1>4 DEF Opening, NoEvent, NoFlow

\* A step after which every unary call is as it was, or where it should be.
LEMMA StepKeeps ==
  ASSUME Inv, TypeOK', Shape', Listening',
         \A c \in Unary : Untouched(c) \/ (Placed(c)' /\ Answered(c)'),
         \A c \in Unary : c \in misused' => c \in misused \/ Handler(c).logsLast
  PROVE  Inv'
<1>1. HandlerTypes /\ HandlerTypes' /\ Shape /\ UnaryHandlersLive /\ \A c \in Unary : Placed(c) /\ Answered(c)
  BY TypeParts DEF Inv
<1>2. ASSUME NEW c \in Unary, Untouched(c) PROVE Placed(c)' /\ Answered(c)'
  BY <1>1, <1>2, UntouchedCall DEF Unary
<1>3. UnaryHandlersLive'
  BY <1>1, UnaryHandlersKept
<1> QED
  BY <1>2, <1>3 DEF Inv

\* A step that has to do with streams only.
LEMMA StreamStep ==
  ASSUME Inv, TypeOK', Shape', crashed = FALSE, UNCHANGED <<running, main, listening, shut>>,
         \A c \in Unary : Untouched(c),
         \A c \in Unary : c \in misused' => c \in misused
  PROVE  Inv'
<1>1. \A c \in Unary : Opening(c)' <=> Opening(c)
  BY UntouchedOpening, TypeParts DEF Inv, Untouched, Unary
<1>2. Listening'
  BY <1>1, ListeningKept DEF Inv
<1> QED
  BY <1>2, StepKeeps

-----------------------------------------------------------------------------
(* Clients *)

LEMMA CallKeeps ==
  ASSUME Inv, NEW d \in Calls, Call(d)
  PROVE  Inv'
<1> DEFINE e == [call |-> d, of |-> "request", ok |-> TRUE]
<1>0. /\ TypeOK /\ Shape /\ UnaryHandlersLive /\ Listening /\ \A c \in Unary : Placed(c) /\ Answered(c)
      /\ HandlerTypes
  BY TypeParts DEF Inv
<1>1. /\ crashed = FALSE /\ main # "drain" /\ life[d] = "none" /\ listening[Rpc[d]] > 0
      /\ listening' = [listening EXCEPT ![Rpc[d]] = @ - 1]
      /\ life' = [life EXCEPT ![d] = "live"]
      /\ cq' = cq \cup {e}
      /\ UNCHANGED <<state, reading, answer, clients, threads, applied, control, queue, misused, crashed>>
  BY <1>0, TypeParts DEF Call, Post, OtherTypes
<1>2. e \in Event /\ Rpc[d] \in Rpcs
  BY CallsAssumption DEF Event
<1>3. HandlerTypes'
  <2>1. listening' \in [Rpcs -> Nat] /\ life' \in [Calls -> {"none", "live", "deleted"}]
    BY <1>0, <1>1, <1>2 DEF HandlerTypes
  <2> QED
    BY <2>1, <1>0, <1>1, <1>2 DEF HandlerTypes
<1>4. TypeOK'
  BY <1>0, <1>1, <1>3, TypeParts, UnchangedTypes
<1>5. Shape'
  BY <1>0, <1>1, WokenShape DEF Shape, Woken, Kept, threads
<1>6. ASSUME NEW c \in Calls
      PROVE  SameQueued(c) /\ SameFlow(c) /\ SameWork(c) /\ (c # d => SameHandler(c) /\ SameEvents(c))
  BY <1>1, <1>0 DEF threads, SameQueued, NoQueued, OneQueued, SameFlow, SameWork, SameThread, SameHandler,
     SameEvents, HandlerTypes
<1>7. ASSUME NEW c \in Unary PROVE Placed(c)' /\ Answered(c)'
  <2>1. c \in Calls /\ Placed(c) /\ Answered(c)
    BY <1>0 DEF Unary
  <2>2. CASE c # d
    BY <2>1, <2>2, <1>6, <1>0, <1>3, UntouchedCall DEF Untouched
  <2>3. CASE c = d
    <3>1. NoEvent(c) /\ NoFlow(c)' /\ NoQueued(c)' /\ NoWork(c)'
      BY <2>1, <2>3, <1>1, <1>0, <1>6, NotYetCalled, UntouchedFlow, UntouchedWork DEF SameQueued
    <3>2. life'[c] = "live" /\ state'[c] = "CREATED" /\ answer'[c] = "none" /\ applied'[c] = 0
      BY <2>1, <2>3, <1>1, <1>0 DEF Answered, HandlerTypes
    <3>3. Right(e)'
      BY <3>2, <2>3 DEF Right, Waiting
    <3>4. OneEvent(c)'
      BY <3>1, <3>3, <2>3, <1>1 DEF NoEvent, OneEvent
    <3> QED
      BY <3>1, <3>2, <3>4 DEF Placed, Answered
  <2> QED
    BY <2>2, <2>3
<1>8. UnaryHandlersLive'
  BY <1>0, <1>1, UnaryHandlersKept
<1>9. Listening'
  <2>1. running' = running /\ main' = main /\ shut' = shut /\ crashed' = crashed
    BY <1>1 DEF control, threads
  <2>2. ASSUME NEW r \in Rpcs \ {"StreamUpsert"}, Balanced(r) PROVE Balanced(r)'
    <3>1. \A c \in Calls \ {d} : Opening(c)' <=> Opening(c)
      BY <1>6, <1>0, <1>3, UntouchedOpening
    <3>2. CASE r # Rpc[d]
      <4>1. listening'[r] = listening[r]
        BY <3>2, <1>0, <1>1, <1>2 DEF HandlerTypes
      <4> QED
        BY <3>1, <3>2, <4>1, <2>2 DEF Balanced
    <3>3. CASE r = Rpc[d]
      <4>1. listening'[r] = 0 /\ listening[r] = 1
        BY <3>3, <1>0, <1>1, <1>2, <2>2 DEF HandlerTypes, Balanced
      <4>2. Opening(d)'
        <5>1. e \in cq' /\ e.call = d /\ e.of = "request"
          BY <1>1
        <5> QED
          BY <5>1 DEF Opening
      <4> QED
        BY <3>1, <3>3, <4>1, <4>2, <2>2 DEF Balanced
    <3> QED
      BY <3>2, <3>3
  <2> QED
    BY <2>1, <2>2, <1>0 DEF Listening
<1> QED
  BY <1>4, <1>5, <1>7, <1>8, <1>9 DEF Inv

LEMMA ReadEndsKeeps ==
  ASSUME Inv, NEW d \in Calls, ReadEnds(d)
  PROVE  Inv'
<1>0. Shape /\ HandlerTypes /\ ClientTypes /\ TypeOK
  BY TypeParts DEF Inv
<1>1. /\ crashed = FALSE /\ d \in reading /\ reading' = reading \ {d}
      /\ UNCHANGED <<listening, life, state, answer, closed, threads, applied, control, queue, misused, crashed>>
  BY <1>0, TypeParts DEF ReadEnds, OtherTypes
<1>2. d \in Streams
  BY <1>0, <1>1 DEF HandlerTypes
<1>3. PICK ok \in BOOLEAN : cq' = cq \cup {[call |-> d, of |-> "read", ok |-> ok]}
  BY DEF ReadEnds, Post
<1>4. [call |-> d, of |-> "read", ok |-> ok] \in Event
  BY DEF Event
<1>5. HandlerTypes'
  BY <1>0, <1>1, <1>3, <1>4 DEF HandlerTypes
<1>6. ClientTypes'
  <2>1. batches' \in [Calls -> 0 .. MaxBatches]
    <3>1. CASE batches' = batches
      BY <1>0, <3>1 DEF ClientTypes
    <3>2. CASE batches[d] < MaxBatches /\ batches' = [batches EXCEPT ![d] = @ + 1]
      <4>1. batches[d] + 1 \in 0 .. MaxBatches
        BY <1>0, <3>2, SizesAssumption DEF ClientTypes
      <4> QED
        BY <1>0, <3>2, <4>1 DEF ClientTypes
    <3> QED
      BY <3>1, <3>2 DEF ReadEnds
  <2> QED
    BY <1>0, <1>1, <2>1 DEF ClientTypes
<1>7. TypeOK'
  BY <1>0, <1>1, <1>5, <1>6, TypeParts, UnchangedTypes
<1>8. Shape'
  BY <1>0, <1>1, WokenShape DEF Shape, Woken, Kept, threads
<1>9. ASSUME NEW c \in Unary PROVE Untouched(c)
  <2>1. c # d
    BY <1>2 DEF Unary
  <2>2. SameHandler(c) /\ SameEvents(c) /\ SameQueued(c) /\ SameFlow(c) /\ SameWork(c)
    BY <1>1, <1>3, <2>1 DEF threads, SameQueued, NoQueued, OneQueued, SameFlow, SameWork, SameThread, SameHandler,
       SameEvents
  <2> QED
    BY <2>2 DEF Untouched
<1> QED
  BY <1>1, <1>7, <1>8, <1>9, StreamStep DEF control, threads

LEMMA CloseKeeps ==
  ASSUME Inv, NEW d \in Calls, Close(d)
  PROVE  Inv'
<1>0. Shape /\ ClientTypes /\ TypeOK
  BY TypeParts DEF Inv
<1>1. /\ crashed = FALSE /\ d \in Streams /\ closed' = closed \cup {d} /\ batches' = batches
      /\ UNCHANGED <<handlers, threads, applied, control, queue, misused, crashed>>
  BY <1>0, TypeParts DEF Close, OtherTypes
<1>2. TypeOK'
  <2>1. ClientTypes'
    BY <1>0, <1>1 DEF ClientTypes
  <2> QED
    BY <2>1, <1>0, <1>1, TypeParts, UnchangedTypes
<1>3. Shape'
  BY <1>0, <1>1, WokenShape DEF Shape, Woken, Kept, threads, handlers
<1>4. \A c \in Unary : Untouched(c)
  BY <1>1 DEF threads, handlers, SameQueued, NoQueued, OneQueued, SameFlow, SameWork, SameThread, SameHandler,
     SameEvents, Untouched
<1> QED
  BY <1>1, <1>2, <1>3, <1>4, StreamStep DEF control, threads, handlers

-----------------------------------------------------------------------------
(* Who has a call *)

\* The completion that a poller works on.
LEMMA FlowHas ==
  ASSUME Inv, NEW p \in Pollers, pc[p] = "flow", NEW d, d = on[p]
  PROVE  /\ d \in Calls /\ event[p] \in Event /\ event[p].call = d
         /\ d \in Unary => /\ Placed(d) /\ NoEvent(d) /\ NoQueued(d) /\ NoWork(d)
                           /\ Right(event[p]) /\ life[d] = "live"
                           /\ \A q \in Pollers : pc[q] = "flow" /\ on[q] = d => q = p
<1>1. d \in Calls /\ event[p] \in Event /\ event[p].call = d
  BY DEF Inv, Shape, InShape, Threads
<1>2. ASSUME d \in Unary
      PROVE  /\ Placed(d) /\ NoEvent(d) /\ NoQueued(d) /\ NoWork(d) /\ Right(event[p])
             /\ \A q \in Pollers : pc[q] = "flow" /\ on[q] = d => q = p
  <2>1. Placed(d) /\ ~NoFlow(d)
    BY <1>2 DEF Inv, NoFlow
  <2>2. NoEvent(d) /\ NoQueued(d) /\ NoWork(d) /\ OneFlow(d)
    BY <2>1 DEF Placed
  <2>3. PICK q \in Pollers : /\ pc[q] = "flow" /\ on[q] = d /\ Right(event[q])
                             /\ \A r \in Pollers : pc[r] = "flow" /\ on[r] = d => r = q
    BY <2>2 DEF OneFlow
  <2>4. q = p
    BY <2>3
  <2> QED
    BY <2>1, <2>2, <2>3, <2>4
<1>3. Right(event[p]) => life[d] = "live"
  BY <1>1 DEF Right, Waiting
<1> QED
  BY <1>1, <1>2, <1>3

\* The task that a worker is at.
LEMMA WorkHas ==
  ASSUME Inv, NEW w \in Workers, pc[w] \in AtWork, NEW d, d = on[w]
  PROVE  /\ d \in Calls
         /\ d \in Unary => /\ Placed(d) /\ NoEvent(d) /\ NoFlow(d) /\ NoQueued(d) /\ Waiting(d)
                           /\ pc[w] = "run" => applied[d] = 0
                           /\ pc[w] = "replyOk" => applied[d] \in Handler(d).changes
                           /\ \A v \in Workers : pc[v] \in AtWork /\ on[v] = d => v = w
<1>1. d \in Calls
  BY DEF Inv, Shape, InShape, Threads, AtWork
<1>2. ASSUME d \in Unary
      PROVE  /\ Placed(d) /\ NoEvent(d) /\ NoFlow(d) /\ NoQueued(d) /\ Waiting(d)
             /\ pc[w] = "run" => applied[d] = 0
             /\ pc[w] = "replyOk" => applied[d] \in Handler(d).changes
             /\ \A v \in Workers : pc[v] \in AtWork /\ on[v] = d => v = w
  <2>1. Placed(d) /\ ~NoWork(d)
    BY <1>2 DEF Inv, NoWork
  <2>2. NoEvent(d) /\ NoFlow(d) /\ NoQueued(d) /\ Waiting(d) /\ OneWork(d)
    BY <2>1 DEF Placed
  <2>3. PICK v \in Workers : /\ pc[v] \in AtWork /\ on[v] = d
                             /\ pc[v] = "run" => applied[d] = 0
                             /\ pc[v] = "replyOk" => applied[d] \in Handler(d).changes
                             /\ \A u \in Workers : pc[u] \in AtWork /\ on[u] = d => u = v
    BY <2>2 DEF OneWork
  <2>4. v = w
    BY <2>3
  <2> QED
    BY <2>1, <2>2, <2>3, <2>4
<1> QED
  BY <1>1, <1>2

\* A poller has no part in the workers' tasks, a worker none in completions.
LEMMA OwnPart ==
  ASSUME NEW x \in Threads, Others(x), NEW c \in Calls, ThreadTypes
  PROVE  /\ x \in Pollers => SameWork(c)
         /\ x \in Workers => SameFlow(c)
         /\ x \in Pollers /\ pc'[x] # "flow"
              /\ (\A q \in Pollers : pc[q] = "flow" /\ on[q] = c => q = x) => NoFlow(c)'
         /\ x \in Workers /\ pc'[x] \notin AtWork
              /\ (\A v \in Workers : pc[v] \in AtWork /\ on[v] = c => v = x) => NoWork(c)'
<1>1. ASSUME NEW y \in Threads \ {x}
      PROVE  /\ on'[y] = on[y] /\ event'[y] = event[y]
             /\ pc'[y] = "flow" <=> pc[y] = "flow"
             /\ pc'[y] \in AtWork <=> pc[y] \in AtWork
             /\ pc[y] \in AtWork \cup {"flow"} => pc'[y] = pc[y]
  BY DEF Others, Woken, AtWork
<1>2. x \in Pollers => x \notin Workers
  BY ThreadsAssumption
<1>3. x \in Pollers => SameWork(c)
  BY <1>1, <1>2 DEF SameWork, SameThread, Threads
<1>4. x \in Workers => SameFlow(c)
  BY <1>1, <1>2 DEF SameFlow, SameThread, Threads
<1>5. x \in Pollers /\ pc'[x] # "flow"
        /\ (\A q \in Pollers : pc[q] = "flow" /\ on[q] = c => q = x) => NoFlow(c)'
  BY <1>1 DEF NoFlow, Threads
<1>6. x \in Workers /\ pc'[x] \notin AtWork
        /\ (\A v \in Workers : pc[v] \in AtWork /\ on[v] = c => v = x) => NoWork(c)'
  BY <1>1 DEF NoWork, Threads
<1> QED
  BY <1>3, <1>4, <1>5, <1>6

-----------------------------------------------------------------------------
(* Pollers *)

LEMMA TakeKeeps ==
  ASSUME Inv, NEW p \in Pollers, Take(p)
  PROVE  Inv'
<1>0. /\ TypeOK /\ Shape /\ Listening /\ HandlerTypes /\ ThreadTypes
      /\ p \in Threads /\ p \notin Workers
  BY TypeParts, ThreadsAssumption DEF Inv, Threads
<1>1. /\ crashed = FALSE /\ pc[p] = "idle"
      /\ pc' = [pc EXCEPT ![p] = "flow"] /\ shut' = [shut EXCEPT ![p] = ~running]
      /\ UNCHANGED <<listening, life, state, reading, answer, clients, applied, control, queue, misused, crashed>>
  BY <1>0, TypeParts DEF Take, Go, OtherTypes
<1>2. PICK e \in cq : /\ cq' = cq \ {e} /\ on' = [on EXCEPT ![p] = e.call]
                      /\ event' = [event EXCEPT ![p] = e]
  BY DEF Take
<1> DEFINE d == e.call
<1>3. e \in Event /\ d \in Calls
  BY <1>0 DEF HandlerTypes, Event
<1> HIDE DEF d
<1>4. HandlerTypes' /\ \A c \in Calls \ {d} : SameEvents(c)
  BY <1>0, <1>1, <1>2, <1>3 DEF HandlerTypes, SameEvents, d
<1>5. ThreadTypes' /\ Others(p) /\ pc'[p] = "flow" /\ on'[p] = d /\ event'[p] = e
  <2>1. pc' \in [Threads -> Labels] /\ pc'[p] = "flow" /\ \A y \in Threads \ {p} : pc'[y] = pc[y]
    BY <1>0, <1>1 DEF ThreadTypes, Labels
  <2>2. on' \in [Threads -> Calls \cup {None}] /\ on'[p] = d /\ \A y \in Threads \ {p} : on'[y] = on[y]
    BY <1>0, <1>2, <1>3 DEF ThreadTypes, d
  <2>3. /\ event' \in [Threads -> Event \cup {None}] /\ event'[p] = e
        /\ \A y \in Threads \ {p} : event'[y] = event[y]
    BY <1>0, <1>2, <1>3 DEF ThreadTypes
  <2>4. shut' \in [Pollers -> BOOLEAN]
    BY <1>0, <1>1 DEF ThreadTypes
  <2> QED
    BY <2>1, <2>2, <2>3, <2>4 DEF ThreadTypes, Others, Woken
<1>6. TypeOK'
  BY <1>0, <1>1, <1>4, <1>5, TypeParts, UnchangedTypes
<1>7. Shape'
  <2>1. InShape(p)'
    BY <1>0, <1>3, <1>5 DEF InShape, d
  <2> QED
    BY <1>0, <1>1, <1>5, <2>1, OthersShape DEF Kept
<1>8. ASSUME NEW c \in Calls \ {d} PROVE Untouched(c)
  <2>1. SameFlow(c) /\ SameWork(c)
    BY <1>0, <1>1, <1>5, OthersSame DEF Elsewhere, AtWork
  <2>2. SameHandler(c) /\ SameQueued(c)
    BY <1>1 DEF SameHandler, SameQueued, NoQueued, OneQueued
  <2> QED
    BY <2>1, <2>2, <1>4 DEF Untouched
<1>9. ASSUME d \in Unary PROVE Placed(d)' /\ Answered(d)'
  <2>1. Placed(d) /\ Answered(d) /\ ~NoEvent(d)
    BY <1>9 DEF Inv, NoEvent, d
  <2>2. OneEvent(d) /\ NoFlow(d) /\ NoQueued(d) /\ NoWork(d)
    BY <2>1 DEF Placed
  <2>3. Right(e) /\ \A f \in cq : f.call = d => f = e
    BY <2>2 DEF OneEvent, d
  <2>4. NoEvent(d)'
    BY <2>3, <1>2 DEF NoEvent
  <2>5. NoQueued(d)'
    BY <2>2, <1>1 DEF NoQueued
  <2>6. NoWork(d)'
    BY <2>2, <1>0, <1>3, <1>5, OwnPart, UntouchedWork
  <2>7. Right(e)'
    BY <2>3, <1>1 DEF Right, Waiting
  <2>8. \A q \in Pollers : pc'[q] = "flow" /\ on'[q] = d => q = p
    BY <2>2, <1>5 DEF Others, Woken, NoFlow, Threads
  <2>9. OneFlow(d)'
    BY <2>7, <2>8, <1>5 DEF OneFlow
  <2> QED
    BY <2>1, <2>4, <2>5, <2>6, <2>9, <1>1 DEF Placed, Answered, Handler
<1>10. Listening'
  <2>1. \A c \in Calls \ {d} : Opening(c)' <=> Opening(c)
    BY <1>0, <1>4, <1>8, UntouchedOpening DEF Untouched
  <2>2. ASSUME d \in Unary PROVE Opening(d)' <=> Opening(d)
    <3>1. /\ \A f \in cq : f.call = d => f = e
          /\ \A q \in Pollers : pc[q] = "flow" => on[q] # d
      <4>1. Placed(d) /\ ~NoEvent(d)
        BY <2>2 DEF Inv, NoEvent, d
      <4> QED
        BY <4>1 DEF Placed, OneEvent, NoFlow, d
    <3>2. Opening(d) <=> e.of = "request"
      BY <3>1 DEF Opening, d
    <3>3. /\ \A f \in cq' : f.call # d
          /\ \A q \in Pollers : pc'[q] = "flow" /\ on'[q] = d => q = p
      BY <3>1, <1>2, <1>5 DEF Others, Woken, Threads
    <3>4. Opening(d)' <=> e.of = "request"
      BY <3>3, <1>5 DEF Opening
    <3> QED
      BY <3>2, <3>4
  <2>3. running => shut' = shut
    <3> SUFFICES ASSUME running PROVE shut' = shut
      OBVIOUS
    <3>1. shut[p] = FALSE
      BY <1>0 DEF Listening
    <3> QED
      BY <3>1, <1>0, <1>1 DEF ThreadTypes
  <2>4. CASE running
    BY <2>1, <2>2, <2>3, <2>4, <1>0, <1>1, ListeningKept DEF Unary, control
  <2>5. CASE ~running
    BY <2>5, <1>1 DEF Listening, control
  <2> QED
    BY <2>4, <2>5
<1> QED
  BY <1>1, <1>6, <1>7, <1>8, <1>9, <1>10, StepKeeps DEF Unary

LEMMA FlowDeleteKeeps ==
  ASSUME Inv, NEW p \in Pollers, FlowDelete(p)
  PROVE  Inv'
<1>1. PICK d : d = on[p]
  OBVIOUS
<1>2. /\ TypeOK /\ Shape /\ Listening /\ HandlerTypes /\ ThreadTypes /\ OtherTypes
      /\ p \in Threads /\ p \notin Workers
  BY TypeParts, ThreadsAssumption DEF Inv, Threads
<1>3. /\ crashed = FALSE /\ pc[p] = "flow" /\ (shut[p] \/ state[d] = "PROCESSED")
      /\ Use(d) /\ life' = [life EXCEPT ![d] = "deleted"] /\ Rest(p)
      /\ UNCHANGED <<listening, state, cq, reading, answer, clients, applied, control, queue, crashed>>
  BY <1>1, <1>2 DEF FlowDelete, Flowing, Normally, Delete, OtherTypes
<1>4. /\ d \in Calls /\ event[p] \in Event /\ event[p].call = d
      /\ d \in Unary => /\ Placed(d) /\ NoEvent(d) /\ NoQueued(d) /\ NoWork(d)
                        /\ Right(event[p]) /\ life[d] = "live"
                        /\ \A q \in Pollers : pc[q] = "flow" /\ on[q] = d => q = p
  BY <1>1, <1>3, FlowHas
<1>5. ThreadTypes' /\ Others(p) /\ pc'[p] = "idle" /\ shut' = shut
  BY <1>2, <1>3, RestDoes
<1>6. HandlerTypes'
  <2>1. life' \in [Calls -> {"none", "live", "deleted"}]
    BY <1>2, <1>3 DEF HandlerTypes
  <2> QED
    BY <2>1, <1>2, <1>3 DEF HandlerTypes
<1>7. /\ misused' \subseteq misused \cup {d} /\ misused' \subseteq Calls
      /\ life[d] # "deleted" => misused' = misused
  BY <1>2, <1>3, <1>4, UseDoes
<1>8. TypeOK'
  <2>1. OtherTypes'
    BY <1>2, <1>3, <1>7 DEF OtherTypes
  <2> QED
    BY <2>1, <1>2, <1>3, <1>5, <1>6, TypeParts, UnchangedTypes
<1>9. Shape'
  <2>1. InShape(p)'
    BY <1>2, <1>5 DEF InShape
  <2> QED
    BY <2>1, <1>2, <1>3, <1>5, OthersShape DEF Kept
<1>10. ASSUME NEW c \in Calls \ {d} PROVE Untouched(c)
  <2>1. SameFlow(c) /\ SameWork(c)
    BY <1>1, <1>2, <1>3, <1>5, OthersSame DEF Elsewhere, AtWork
  <2>2. SameHandler(c) /\ SameQueued(c) /\ SameEvents(c)
    BY <1>2, <1>3 DEF SameHandler, SameQueued, SameEvents, NoQueued, OneQueued, HandlerTypes
  <2> QED
    BY <2>1, <2>2 DEF Untouched
<1>11. ASSUME d \in Unary
       PROVE  NoEvent(d)' /\ NoFlow(d)' /\ Placed(d)' /\ Answered(d)'
  <2>1. NoEvent(d)' /\ NoQueued(d)'
    BY <1>3, <1>4, <1>11 DEF NoEvent, NoQueued
  <2>2. NoWork(d)'
    BY <1>2, <1>4, <1>5, <1>11, OwnPart, UntouchedWork
  <2>3. NoFlow(d)'
    BY <1>2, <1>4, <1>5, <1>11, OwnPart
  <2>4. Answered(d) /\ life'[d] = "deleted"
    BY <1>2, <1>3, <1>4, <1>11 DEF Inv, HandlerTypes
  <2> QED
    BY <2>1, <2>2, <2>3, <2>4, <1>3 DEF Placed, Answered, Handler
<1>12. Listening'
  <2>1. \A c \in Calls \ {d} : Opening(c)' <=> Opening(c)
    BY <1>2, <1>6, <1>10, UntouchedOpening DEF Untouched
  <2>2. ASSUME d \in Unary, running PROVE Opening(d)' <=> Opening(d)
    <3>1. shut[p] = FALSE
      BY <1>2, <2>2 DEF Listening
    <3>2. event[p].of = "finish"
      BY <3>1, <1>3, <1>4, <2>2 DEF Right, Waiting
    <3>3. ~Opening(d)
      BY <3>2, <1>4, <2>2 DEF Opening, NoEvent
    <3>4. ~Opening(d)'
      BY <1>11, <2>2 DEF Opening, NoEvent, NoFlow
    <3> QED
      BY <3>3, <3>4
  <2> QED
    BY <2>1, <2>2, <1>2, <1>3, <1>5, ListeningKept DEF Unary, control
<1> QED
  BY <1>4, <1>7, <1>8, <1>9, <1>10, <1>11, <1>12, StepKeeps DEF Unary

\* A unary call does not fail before it is opened: its request has no error.
LEMMA FlowFailKeeps ==
  ASSUME Inv, NEW p \in Pollers, FlowFail(p)
  PROVE  Inv'
<1>1. PICK d : d = on[p]
  OBVIOUS
<1>2. /\ TypeOK /\ Shape /\ HandlerTypes /\ ThreadTypes /\ OtherTypes
      /\ p \in Threads /\ p \notin Workers
  BY TypeParts, ThreadsAssumption DEF Inv, Threads
<1>3. /\ crashed = FALSE /\ pc[p] = "flow" /\ ~event[p].ok /\ state[d] # "PROCESSED"
      /\ Use(d) /\ state' = [state EXCEPT ![d] = "PROCESSED"]
      /\ Finish(d, IF applied[d] > 0 THEN "ok" ELSE "error") /\ Stay(p, "mark")
      /\ UNCHANGED <<listening, life, reading, clients, applied, control, queue>>
  BY <1>1, <1>2 DEF FlowFail, Flowing, Normally, SetState, OtherTypes
<1>4. d \in Calls /\ d \in Streams
  <2>1. d \in Calls /\ event[p].call = d /\ (d \in Unary => Right(event[p]))
    BY <1>1, <1>3, FlowHas
  <2> QED
    BY <2>1, <1>3 DEF Right, Unary
<1>5. /\ ThreadTypes' /\ Others(p) /\ pc'[p] = "mark" /\ on'[p] = d /\ shut' = shut
  BY <1>1, <1>2, <1>3, StayDoes DEF Labels
<1>6. /\ answer' \in [Calls -> {"none", "ok", "error"}] /\ cq' \subseteq Event /\ crashed' \in BOOLEAN
      /\ Kept /\ \A c \in Calls \ {d} : answer'[c] = answer[c] /\ SameEvents(c)
  <2>1. (IF applied[d] > 0 THEN "ok" ELSE "error") \in {"ok", "error"}
    OBVIOUS
  <2> QED
    BY <2>1, <1>2, <1>3, <1>4, FinishDoes
<1>7. misused' \subseteq misused \cup {d} /\ misused' \subseteq Calls
  BY <1>2, <1>3, <1>4, UseDoes
<1>8. TypeOK'
  <2>1. state' \in [Calls -> {"CREATED", "READ", "PROCESSED"}]
    BY <1>2, <1>3 DEF HandlerTypes
  <2>2. HandlerTypes'
    BY <2>1, <1>2, <1>3, <1>6 DEF HandlerTypes
  <2>3. OtherTypes'
    BY <1>2, <1>3, <1>6, <1>7 DEF OtherTypes
  <2> QED
    BY <2>2, <2>3, <1>2, <1>3, <1>5, TypeParts, UnchangedTypes
<1>9. Shape'
  <2>1. InShape(p)'
    BY <1>2, <1>4, <1>5 DEF InShape
  <2> QED
    BY <2>1, <1>2, <1>5, <1>6, OthersShape
<1>10. ASSUME NEW c \in Calls \ {d} PROVE Untouched(c)
  <2>1. SameFlow(c) /\ SameWork(c)
    BY <1>1, <1>2, <1>3, <1>5, OthersSame DEF Elsewhere, AtWork
  <2>2. SameHandler(c) /\ SameQueued(c)
    BY <1>2, <1>3, <1>6 DEF SameHandler, SameQueued, NoQueued, OneQueued, HandlerTypes
  <2> QED
    BY <2>1, <2>2, <1>6 DEF Untouched
<1> QED
  BY <1>3, <1>4, <1>5, <1>7, <1>8, <1>9, <1>10, StreamStep DEF Unary, control

\* A thread that comes back to a stream (do_read, or run_flow after an error).
LEMMA SetStateKeeps ==
  ASSUME Inv, NEW x \in Threads, NEW s \in {"READ", "PROCESSED"},
         pc[x] \in {"setRead", "mark"}, crashed = FALSE,
         Use(on[x]), SetState(on[x], s), Rest(x),
         UNCHANGED <<listening, life, cq, reading, answer, clients, applied, control, queue, crashed>>
  PROVE  Inv'
<1>1. PICK d : d = on[x]
  OBVIOUS
<1>2. TypeOK /\ Shape /\ HandlerTypes /\ ThreadTypes /\ OtherTypes
  BY TypeParts DEF Inv
<1>3. Use(d) /\ state' = [state EXCEPT ![d] = s]
  BY <1>1 DEF SetState
<1>4. d \in Calls /\ d \in Streams
  BY <1>1, <1>2 DEF Shape, InShape, Streams
<1>5. ThreadTypes' /\ Others(x) /\ pc'[x] = "idle" /\ shut' = shut
  BY <1>2, RestDoes
<1>6. misused' \subseteq misused \cup {d} /\ misused' \subseteq Calls
  BY <1>2, <1>3, <1>4, UseDoes
<1>7. TypeOK'
  <2>1. state' \in [Calls -> {"CREATED", "READ", "PROCESSED"}]
    BY <1>2, <1>3 DEF HandlerTypes
  <2>2. HandlerTypes' /\ OtherTypes'
    BY <2>1, <1>2, <1>6 DEF HandlerTypes, OtherTypes
  <2> QED
    BY <2>2, <1>2, <1>5, TypeParts, UnchangedTypes
<1>8. Shape'
  <2>1. InShape(x)'
    BY <1>2, <1>5 DEF InShape, Labels
  <2> QED
    BY <2>1, <1>2, <1>5, OthersShape DEF Kept
<1>9. ASSUME NEW c \in Calls \ {d} PROVE Untouched(c)
  <2>1. SameFlow(c) /\ SameWork(c)
    BY <1>1, <1>2, <1>5, OthersSame DEF Elsewhere, AtWork
  <2>2. SameHandler(c) /\ SameQueued(c) /\ SameEvents(c)
    BY <1>2, <1>3 DEF SameHandler, SameQueued, SameEvents, NoQueued, OneQueued, HandlerTypes
  <2> QED
    BY <2>1, <2>2 DEF Untouched
<1> QED
  BY <1>4, <1>5, <1>6, <1>7, <1>8, <1>9, StreamStep DEF Unary, control

LEMMA MarkKeeps ==
  ASSUME Inv, NEW p \in Pollers, Mark(p)
  PROVE  Inv'
BY SetStateKeeps, TypeParts DEF Mark, Inv, OtherTypes, Threads

LEMMA SetReadKeeps ==
  ASSUME Inv, NEW x \in Threads, SetRead(x)
  PROVE  Inv'
BY SetStateKeeps, TypeParts DEF SetRead, Inv, OtherTypes

\* Only a stream is ever in the state READ.
LEMMA FlowProcessKeeps ==
  ASSUME Inv, NEW p \in Pollers, FlowProcess(p)
  PROVE  Inv'
<1>1. PICK d : d = on[p]
  OBVIOUS
<1>2. /\ TypeOK /\ Shape /\ HandlerTypes /\ ThreadTypes /\ OtherTypes /\ QueueTypes
      /\ p \in Threads /\ p \notin Workers
  BY TypeParts, ThreadsAssumption DEF Inv, Threads
<1>3. /\ crashed = FALSE /\ pc[p] = "flow" /\ state[d] = "READ" /\ Use(d) /\ Submit(p, d)
      /\ UNCHANGED <<handlers, clients, applied, control>>
  BY <1>1, <1>2 DEF FlowProcess, Flowing, Normally, OtherTypes
<1>4. d \in Calls /\ d \in Streams
  <2>1. d \in Calls /\ event[p].call = d /\ (d \in Unary => Right(event[p]))
    BY <1>1, <1>3, FlowHas
  <2> QED
    BY <2>1, <1>3 DEF Right, Waiting, Unary
<1>5. /\ ThreadTypes' /\ QueueTypes' /\ Others(p) /\ pc'[p] = "idle" /\ shut' = shut
      /\ crashed' \in BOOLEAN /\ \A c \in Calls \ {d} : SameQueued(c)
  BY <1>2, <1>3, <1>4, SubmitDoes
<1>6. misused' \subseteq misused \cup {d} /\ misused' \subseteq Calls
  BY <1>2, <1>3, <1>4, UseDoes
<1>7. TypeOK'
  <2>1. OtherTypes'
    BY <1>2, <1>3, <1>5, <1>6 DEF OtherTypes
  <2> QED
    BY <2>1, <1>2, <1>3, <1>5, TypeParts, UnchangedTypes
<1>8. Shape'
  <2>1. InShape(p)' /\ Kept
    BY <1>2, <1>3, <1>5 DEF InShape, Kept, handlers
  <2> QED
    BY <2>1, <1>2, <1>5, OthersShape
<1>9. ASSUME NEW c \in Calls \ {d} PROVE Untouched(c)
  <2>1. SameFlow(c) /\ SameWork(c)
    BY <1>1, <1>2, <1>3, <1>5, OthersSame DEF Elsewhere, AtWork
  <2>2. SameHandler(c) /\ SameEvents(c)
    BY <1>3 DEF SameHandler, SameEvents, handlers
  <2> QED
    BY <2>1, <2>2, <1>5 DEF Untouched
<1> QED
  BY <1>3, <1>4, <1>5, <1>6, <1>7, <1>8, <1>9, StreamStep DEF Unary, control, handlers

\* What the proofs need to know of the handlers.
LEMMA Handlers ==
  ASSUME NEW c \in Calls
  PROVE  /\ Handler(c).refuses \subseteq {1, 2}
         /\ Handler(c).changes \subseteq {0, 1}
         /\ 2 \in Handler(c).refuses => Handler(c).logsLast
         /\ c \in Streams => Handler(c).refuses = {}
<1>1. Rpc[c] \in Rpcs
  BY CallsAssumption
<1> QED
  BY <1>1 DEF Rpcs, Handler, Streams, create_collection_handler, delete_collection_handler, upsert_handler,
     search_handler, stream_upsert_handler, delete_vector_handler, add_index_handler, get_index_handler

\* A new call, of which the request is the only trace.
LEMMA FlowOpenKeeps ==
  ASSUME Inv, NEW p \in Pollers, FlowOpen(p)
  PROVE  Inv'
<1>1. PICK d : d = on[p]
  OBVIOUS
<1>2. /\ TypeOK /\ Shape /\ Listening /\ HandlerTypes /\ ThreadTypes /\ OtherTypes /\ QueueTypes
      /\ p \in Threads /\ p \notin Workers
  BY TypeParts, ThreadsAssumption DEF Inv, Threads
<1>3. /\ crashed = FALSE /\ pc[p] = "flow" /\ event[p].ok /\ state[d] = "CREATED" /\ Use(d)
      /\ listening' = [listening EXCEPT ![Rpc[d]] = @ + 1]
      /\ UNCHANGED <<life, clients, applied, control>>
  BY <1>1, <1>2 DEF FlowOpen, Flowing, Normally, NewInstance, OtherTypes
<1>4. /\ d \in Calls /\ Rpc[d] \in Rpcs
      /\ d \in Unary => /\ NoEvent(d) /\ NoQueued(d) /\ NoWork(d)
                        /\ Waiting(d) /\ applied[d] = 0 /\ Opening(d) /\ Answered(d)
                        /\ \A q \in Pollers : pc[q] = "flow" /\ on[q] = d => q = p
  <2>1. d \in Calls /\ event[p].call = d
    BY <1>1, <1>3, FlowHas
  <2>2. ASSUME d \in Unary
        PROVE  /\ NoEvent(d) /\ NoQueued(d) /\ NoWork(d) /\ Right(event[p])
               /\ \A q \in Pollers : pc[q] = "flow" /\ on[q] = d => q = p
    BY <2>2, <1>1, <1>3, FlowHas
  <2>3. ASSUME d \in Unary
        PROVE  Waiting(d) /\ applied[d] = 0 /\ Opening(d) /\ Answered(d)
    <3>1. event[p].of = "request" /\ Waiting(d) /\ applied[d] = 0
      BY <2>1, <2>2, <2>3, <1>3 DEF Right
    <3> QED
      BY <3>1, <2>3, <1>1, <1>3 DEF Opening, Inv
  <2> QED
    BY <2>1, <2>2, <2>3, CallsAssumption
<1> DEFINE Goes ==
      /\ ThreadTypes' /\ QueueTypes' /\ Others(p) /\ pc'[p] \notin AtWork \cup {"flow"} /\ shut' = shut
      /\ state' \in [Calls -> {"CREATED", "READ", "PROCESSED"}] /\ cq' \subseteq Event
      /\ reading' \subseteq Streams /\ answer' \in [Calls -> {"none", "ok", "error"}]
      /\ crashed' \in BOOLEAN /\ Kept /\ InShape(p)'
      /\ \A c \in Calls \ {d} : state'[c] = state[c] /\ answer'[c] = answer[c] /\ SameEvents(c) /\ SameQueued(c)
      /\ d \in Unary /\ NoFlow(d)' /\ NoWork(d)' =>
           Placed(d)' /\ Answered(d)' /\ \A e \in cq' : e.call = d => e.of # "request"
<1>5. ASSUME NEW times \in Handler(d).refuses, IF times = 2 THEN Stay(p, "again") ELSE Rest(p),
             SetState(d, "PROCESSED"), Finish(d, "error"), UNCHANGED <<reading, queue>>
      PROVE  Goes
  <2>1. d \in Unary /\ (times = 2 => Handler(d).logsLast)
    BY <1>4, <1>5, Handlers DEF Unary
  <2>2. answer[d] = "none" /\ NoEvent(d) /\ NoQueued(d) /\ life[d] = "live" /\ applied[d] = 0
    BY <2>1, <1>4 DEF Waiting
  <2>3. /\ ThreadTypes' /\ Others(p) /\ shut' = shut
        /\ pc'[p] = "idle" \/ (times = 2 /\ pc'[p] = "again" /\ on'[p] = d)
    <3>1. CASE times = 2
      BY <3>1, <1>5, <1>1, <1>2, StayDoes DEF Labels
    <3>2. CASE times # 2
      BY <3>2, <1>5, <1>1, <1>2, RestDoes
    <3> QED
      BY <3>1, <3>2
  <2>4. /\ answer' \in [Calls -> {"none", "ok", "error"}] /\ cq' \subseteq Event /\ Kept
        /\ \A c \in Calls \ {d} : answer'[c] = answer[c] /\ SameEvents(c)
        /\ answer'[d] = "error" /\ crashed' = FALSE
        /\ \E ok \in BOOLEAN : cq' = cq \cup {[call |-> d, of |-> "finish", ok |-> ok]}
    BY <1>2, <1>3, <1>4, <1>5, <2>2, FinishDoes
  <2>5. /\ state' \in [Calls -> {"CREATED", "READ", "PROCESSED"}] /\ state'[d] = "PROCESSED"
        /\ \A c \in Calls \ {d} : state'[c] = state[c]
    BY <1>2, <1>4, <1>5 DEF SetState, HandlerTypes
  <2>6. InShape(p)'
    <3>1. CASE pc'[p] = "idle"
      BY <3>1, <1>2 DEF InShape
    <3>2. CASE times = 2 /\ pc'[p] = "again" /\ on'[p] = d
      BY <3>2, <1>2, <1>4, <2>1, <2>4 DEF InShape, Handler
    <3> QED
      BY <3>1, <3>2, <2>3
  <2>7. QueueTypes' /\ reading' \subseteq Streams /\ \A c \in Calls : SameQueued(c)
    BY <1>2, <1>5 DEF QueueTypes, HandlerTypes, SameQueued, NoQueued, OneQueued
  <2>8. PICK ok \in BOOLEAN : cq' = cq \cup {[call |-> d, of |-> "finish", ok |-> ok]}
    BY <2>4
  <2>9. \A e \in cq' : e.call = d => e = [call |-> d, of |-> "finish", ok |-> ok]
    BY <2>2, <2>8 DEF NoEvent
  <2>10. Right([call |-> d, of |-> "finish", ok |-> ok])'
    BY <2>2, <2>4, <2>5, <1>3 DEF Right
  <2>11. OneEvent(d)'
    BY <2>8, <2>9, <2>10 DEF OneEvent
  <2>12. NoQueued(d)'
    BY <2>2, <2>7, <1>4 DEF SameQueued
  <2>13. NoFlow(d)' /\ NoWork(d)' => Placed(d)' /\ Answered(d)'
    BY <2>2, <2>4, <2>11, <2>12, <1>3 DEF Placed, Answered
  <2>14. pc'[p] \notin AtWork \cup {"flow"}
    BY <2>3 DEF AtWork
  <2>15. \A e \in cq' : e.call = d => e.of # "request"
    BY <2>9
  <2> QED
    BY <2>3, <2>4, <2>5, <2>6, <2>7, <2>13, <2>14, <2>15
<1>6. ASSUME d \in Unary, Submit(p, d), UNCHANGED <<state, cq, reading, answer>>
      PROVE  Goes
  <2>1. /\ ThreadTypes' /\ QueueTypes' /\ Others(p) /\ pc'[p] = "idle" /\ shut' = shut
        /\ \A c \in Calls \ {d} : SameQueued(c)
        /\ \/ crashed' = TRUE /\ SameQueued(d)
           \/ crashed' = FALSE /\ (NoQueued(d) => OneQueued(d)')
    BY <1>2, <1>3, <1>4, <1>6, SubmitDoes
  <2>2. InShape(p)' /\ Kept /\ \A c \in Calls : SameEvents(c)
    BY <1>2, <1>6, <2>1 DEF InShape, Kept, SameEvents
  <2>3. Waiting(d)' /\ applied'[d] = 0 /\ NoEvent(d)' /\ (NoQueued(d)' \/ OneQueued(d)')
    BY <1>3, <1>4, <1>6, <2>1 DEF Waiting, NoEvent, SameQueued
  <2>4. NoFlow(d)' /\ NoWork(d)' => Placed(d)' /\ Answered(d)'
    BY <2>3 DEF Placed, Answered, Waiting
  <2>5. \A e \in cq' : e.call # d
    BY <2>3 DEF NoEvent
  <2> QED
    BY <1>2, <1>6, <2>1, <2>2, <2>4, <2>5 DEF AtWork, HandlerTypes
<1>7. ASSUME d \in Streams, Read(d), Stay(p, "setRead"), UNCHANGED <<state, cq, answer, queue>>
      PROVE  Goes
  <2>1. /\ ThreadTypes' /\ Others(p) /\ pc'[p] = "setRead" /\ on'[p] = d /\ shut' = shut
    BY <1>1, <1>2, <1>7, StayDoes DEF Labels
  <2>2. reading' \subseteq Streams /\ crashed' \in BOOLEAN
    BY <1>2, <1>3, <1>7 DEF Read, HandlerTypes
  <2>3. InShape(p)' /\ Kept /\ \A c \in Calls : SameEvents(c) /\ SameQueued(c)
    BY <1>2, <1>4, <1>7, <2>1 DEF InShape, Kept, SameEvents, SameQueued, NoQueued, OneQueued
  <2>4. QueueTypes'
    BY <1>2, <1>7 DEF QueueTypes
  <2> QED
    BY <1>2, <1>7, <2>1, <2>2, <2>3, <2>4 DEF AtWork, HandlerTypes, Unary
<1>8. Goes
  BY <1>1, <1>5, <1>6, <1>7 DEF FlowOpen
<1> HIDE DEF Goes
<1>9. misused' \subseteq misused \cup {d} /\ misused' \subseteq Calls /\ (life[d] # "deleted" => misused' = misused)
  BY <1>2, <1>3, <1>4, UseDoes
<1>10. HandlerTypes'
  <2>1. listening' \in [Rpcs -> Nat]
    BY <1>2, <1>3, <1>4 DEF HandlerTypes
  <2> QED
    BY <2>1, <1>2, <1>3, <1>8 DEF HandlerTypes, Goes
<1>11. TypeOK'
  <2>1. OtherTypes'
    BY <1>2, <1>3, <1>8, <1>9 DEF OtherTypes, Goes
  <2> QED
    BY <2>1, <1>2, <1>3, <1>8, <1>10, TypeParts, UnchangedTypes DEF Goes
<1>12. Shape'
  BY <1>2, <1>8, OthersShape DEF Goes
<1>13. ASSUME NEW c \in Calls \ {d} PROVE Untouched(c)
  <2>1. SameFlow(c) /\ SameWork(c)
    BY <1>1, <1>2, <1>3, <1>8, OthersSame DEF Elsewhere, AtWork, Goes
  <2>2. SameHandler(c) /\ SameQueued(c) /\ SameEvents(c)
    BY <1>3, <1>8 DEF SameHandler, Goes
  <2> QED
    BY <2>1, <2>2 DEF Untouched
<1>14. ASSUME d \in Unary PROVE Placed(d)' /\ Answered(d)' /\ ~Opening(d)'
  <2>1. NoFlow(d)' /\ NoWork(d)'
    BY <1>2, <1>4, <1>8, <1>14, OwnPart, UntouchedWork DEF Goes
  <2>2. Placed(d)' /\ Answered(d)' /\ \A e \in cq' : e.call = d => e.of # "request"
    BY <2>1, <1>8, <1>14 DEF Goes
  <2> QED
    BY <2>1, <2>2 DEF Opening, NoFlow
<1>15. Listening'
  <2>1. ASSUME NEW r \in Rpcs \ {"StreamUpsert"}, Balanced(r) PROVE Balanced(r)'
    <3>1. \A c \in Calls \ {d} : Opening(c)' <=> Opening(c)
      BY <1>2, <1>10, <1>13, UntouchedOpening DEF Untouched
    <3>2. CASE r # Rpc[d]
      <4>1. listening'[r] = listening[r]
        BY <3>2, <1>2, <1>3, <1>4 DEF HandlerTypes
      <4> QED
        BY <3>1, <3>2, <4>1, <2>1 DEF Balanced
    <3>3. CASE r = Rpc[d]
      <4>1. d \in Unary
        BY <3>3, <1>4 DEF Unary, Streams
      <4>2. /\ listening[r] = 0 /\ \A c \in Calls : Rpc[c] = r /\ Opening(c) => c = d
        BY <4>1, <3>3, <1>4, <2>1 DEF Balanced
      <4>3. listening'[r] = 1
        BY <4>2, <3>3, <1>2, <1>3, <1>4 DEF HandlerTypes
      <4> QED
        BY <3>1, <4>1, <4>2, <4>3, <1>14 DEF Balanced
    <3> QED
      BY <3>2, <3>3
  <2> QED
    BY <2>1, <1>2, <1>3, <1>8 DEF Listening, control, Goes
<1>16. \A c \in Unary : c \in misused' => c \in misused
  BY <1>4, <1>9 DEF Waiting
<1> QED
  BY <1>11, <1>12, <1>13, <1>14, <1>15, <1>16, StepKeeps DEF Unary

\* The handler that finishes a refused call twice is one that logs last.
LEMMA FinishAgainKeeps ==
  ASSUME Inv, NEW p \in Pollers, FinishAgain(p)
  PROVE  Inv'
<1>1. PICK d : d = on[p]
  OBVIOUS
<1>2. /\ TypeOK /\ Shape /\ Listening /\ HandlerTypes /\ ThreadTypes /\ OtherTypes
      /\ p \in Threads /\ p \notin Workers
  BY TypeParts, ThreadsAssumption DEF Inv, Threads
<1>3. /\ crashed = FALSE /\ pc[p] = "again" /\ Use(d) /\ state' = [state EXCEPT ![d] = "PROCESSED"]
      /\ Finish(d, "error") /\ Rest(p)
      /\ UNCHANGED <<listening, life, reading, clients, applied, control, queue>>
  BY <1>1, <1>2 DEF FinishAgain, SetState, OtherTypes
<1>4. d \in Calls /\ Handler(d).logsLast /\ answer[d] # "none"
  BY <1>1, <1>2, <1>3 DEF Shape, InShape, Handler
<1>5. ThreadTypes' /\ Others(p) /\ pc'[p] = "idle" /\ shut' = shut
  BY <1>2, <1>3, RestDoes
<1>6. crashed' = TRUE /\ answer' = answer /\ cq' = cq
  BY <1>2, <1>3, <1>4, FinishDoes
<1>7. misused' \subseteq misused \cup {d} /\ misused' \subseteq Calls
  BY <1>2, <1>3, <1>4, UseDoes
<1>8. /\ state' \in [Calls -> {"CREATED", "READ", "PROCESSED"}] /\ state'[d] = "PROCESSED"
      /\ \A c \in Calls \ {d} : state'[c] = state[c]
  BY <1>2, <1>3, <1>4 DEF HandlerTypes
<1>9. HandlerTypes' /\ OtherTypes'
  BY <1>2, <1>3, <1>6, <1>7, <1>8 DEF HandlerTypes, OtherTypes
<1>10. TypeOK'
  BY <1>2, <1>3, <1>5, <1>9, TypeParts, UnchangedTypes
<1>11. Shape'
  <2>1. InShape(p)' /\ Kept
    BY <1>2, <1>5, <1>6 DEF InShape, Kept
  <2> QED
    BY <2>1, <1>2, <1>5, OthersShape
<1>12. ASSUME NEW c \in Calls \ {d} PROVE Untouched(c)
  <2>1. SameFlow(c) /\ SameWork(c)
    BY <1>1, <1>2, <1>3, <1>5, OthersSame DEF Elsewhere, AtWork
  <2>2. SameHandler(c) /\ SameQueued(c) /\ SameEvents(c)
    BY <1>3, <1>6, <1>8 DEF SameHandler, SameQueued, SameEvents, NoQueued, OneQueued
  <2> QED
    BY <2>1, <2>2 DEF Untouched
<1>13. ASSUME d \in Unary PROVE Placed(d)' /\ Answered(d)'
  <2>1. SameFlow(d) /\ SameWork(d)
    BY <1>2, <1>3, <1>4, <1>5, OthersSame DEF Elsewhere, AtWork
  <2>2. SameQueued(d) /\ SameEvents(d)
    BY <1>3, <1>6 DEF SameQueued, SameEvents, NoQueued, OneQueued
  <2>3. Placed(d) /\ Answered(d) /\ ~Waiting(d)
    BY <1>4, <1>13 DEF Inv, Waiting
  <2>4. state[d] = "PROCESSED" => SameHandler(d)
    BY <1>3, <1>6, <1>8 DEF SameHandler
  <2>5. state[d] # "PROCESSED" => ~OneEvent(d) /\ ~OneFlow(d)
    <3> SUFFICES ASSUME state[d] # "PROCESSED" PROVE ~OneEvent(d) /\ ~OneFlow(d)
      OBVIOUS
    <3>1. \A e \in Event : e.call = d => ~Right(e)
      BY <2>3 DEF Right
    <3>2. \A q \in Pollers : pc[q] = "flow" /\ on[q] = d => event[q] \in Event /\ event[q].call = d
      BY <1>2 DEF Shape, InShape, Threads
    <3> QED
      BY <3>1, <3>2, <1>2 DEF OneEvent, OneFlow, HandlerTypes
  <2>6. Placed(d)'
    BY <2>1, <2>2, <2>3, <2>4, <2>5, <1>2, <1>4, <1>9, UntouchedEvents, UntouchedFlow, UntouchedWork
       DEF Placed, SameQueued
  <2>7. Answered(d)'
    BY <2>3, <1>3, <1>4, <1>6 DEF Answered, Handler
  <2> QED
    BY <2>6, <2>7
<1>14. Listening'
  BY <1>2, <1>3, <1>5, <1>6 DEF Listening, control
<1>15. \A c \in Unary : c \in misused' => c \in misused \/ Handler(c).logsLast
  BY <1>4, <1>7
<1> QED
  BY <1>10, <1>11, <1>12, <1>13, <1>14, <1>15, StepKeeps DEF Unary

LEMMA PollerKeeps ==
  ASSUME Inv, NEW p \in Pollers, Poller(p)
  PROVE  Inv'
BY TakeKeeps, FlowDeleteKeeps, FlowFailKeeps, MarkKeeps, FlowOpenKeeps, FinishAgainKeeps, FlowProcessKeeps,
   SetReadKeeps DEF Poller, Threads

-----------------------------------------------------------------------------
(* Workers *)

\* What a worker does leaves the completions, and so the requests, as they are.
LEMMA WorkerListening ==
  ASSUME Inv, HandlerTypes', ThreadTypes', NEW w \in Workers, Others(w), crashed = FALSE,
         UNCHANGED <<running, main, listening, shut>>,
         \A e \in Event : e.of = "request" => (e \in cq' <=> e \in cq)
  PROVE  Listening'
<1>1. w \in Threads /\ HandlerTypes /\ ThreadTypes /\ Listening
  BY TypeParts DEF Inv, Threads
<1>2. ASSUME NEW c \in Unary PROVE Opening(c)' <=> Opening(c)
  <2>1. (\E e \in cq : e.call = c /\ e.of = "request") <=> (\E e \in cq' : e.call = c /\ e.of = "request")
    <3>1. cq \subseteq Event /\ cq' \subseteq Event
      BY <1>1 DEF HandlerTypes
    <3>2. \A e \in cq \cup cq' : e.of = "request" => (e \in cq' <=> e \in cq)
      BY <3>1
    <3> QED
      BY <3>2
  <2>2. SameFlow(c)
    BY <1>1, OwnPart DEF Unary
  <2>3. ASSUME NEW p \in Pollers
        PROVE  pc[p] = "flow" /\ on[p] = c /\ event[p].of = "request"
                 <=> pc'[p] = "flow" /\ on'[p] = c /\ event'[p].of = "request"
    BY <2>2 DEF SameFlow, SameThread
  <2> QED
    BY <2>1, <2>3 DEF Opening
<1> QED
  BY <1>1, <1>2, ListeningKept

LEMMA TakeTaskKeeps ==
  ASSUME Inv, NEW w \in Workers, TakeTask(w)
  PROVE  Inv'
<1>1. /\ TypeOK /\ Shape /\ HandlerTypes /\ ThreadTypes /\ OtherTypes /\ QueueTypes
      /\ w \in Threads /\ w \notin Pollers
  BY TypeParts, ThreadsAssumption DEF Inv, Threads
<1>2. /\ crashed = FALSE /\ pc[w] = "idle"
      /\ UNCHANGED <<handlers, clients, applied, control, misused, crashed>>
  BY <1>1 DEF TakeTask, OtherTypes
<1>3. HandlerTypes' /\ Kept /\ \A c \in Calls : SameHandler(c) /\ SameEvents(c)
  BY <1>1, <1>2, UnchangedTypes DEF Kept, SameHandler, SameEvents, handlers
<1>4. CASE queue = <<>> /\ Stay(w, "asleep") /\ queue' = queue
  <2>1. ThreadTypes' /\ Others(w) /\ pc'[w] = "asleep" /\ shut' = shut
    BY <1>1, <1>4, StayDoes DEF Labels
  <2>2. TypeOK'
    BY <1>1, <1>2, <1>4, <2>1, TypeParts, UnchangedTypes
  <2>3. Shape'
    <3>1. InShape(w)'
      BY <1>1, <2>1 DEF InShape, Labels
    <3> QED
      BY <3>1, <1>1, <1>3, <2>1, OthersShape
  <2>4. ASSUME NEW c \in Calls PROVE Untouched(c)
    <3>1. SameFlow(c) /\ SameWork(c)
      BY <1>1, <1>2, <2>1, OthersSame DEF Elsewhere, AtWork
    <3>2. SameQueued(c)
      BY <1>4 DEF SameQueued, NoQueued, OneQueued
    <3> QED
      BY <3>1, <3>2, <1>3 DEF Untouched
  <2> QED
    BY <1>2, <2>1, <2>2, <2>3, <2>4, StreamStep DEF Unary, control, handlers
<1>5. CASE /\ queue # <<>> /\ Go(w, "run") /\ on' = [on EXCEPT ![w] = Head(queue)]
           /\ queue' = Tail(queue) /\ UNCHANGED <<event, shut>>
  <2>1. PICK d : d = Head(queue)
    OBVIOUS
  <2>2. /\ QueueTypes' /\ d \in Calls
        /\ \A c \in Calls \ {d} : SameQueued(c)
        /\ ~NoQueued(d)
        /\ OneQueued(d) => NoQueued(d)'
    BY <1>1, <1>5, <2>1, Taken
  <2>3. ThreadTypes' /\ Others(w) /\ pc'[w] = "run" /\ on'[w] = d /\ shut' = shut
    <3>1. pc' \in [Threads -> Labels] /\ pc'[w] = "run" /\ \A y \in Threads \ {w} : pc'[y] = pc[y]
      BY <1>1, <1>5 DEF ThreadTypes, Labels, Go
    <3>2. on' \in [Threads -> Calls \cup {None}] /\ on'[w] = d /\ \A y \in Threads \ {w} : on'[y] = on[y]
      BY <1>1, <1>5, <2>1, <2>2 DEF ThreadTypes
    <3> QED
      BY <3>1, <3>2, <1>1, <1>5 DEF ThreadTypes, Others, Woken
  <2>4. TypeOK'
    BY <1>1, <1>2, <2>2, <2>3, TypeParts, UnchangedTypes
  <2>5. Shape'
    <3>1. InShape(w)'
      BY <1>1, <2>2, <2>3 DEF InShape, Labels
    <3> QED
      BY <3>1, <1>1, <1>3, <2>3, OthersShape
  <2>6. ASSUME NEW c \in Calls \ {d} PROVE Untouched(c)
    <3>1. SameFlow(c) /\ SameWork(c)
      BY <1>1, <1>2, <2>3, OthersSame DEF Elsewhere, AtWork
    <3> QED
      BY <3>1, <2>2, <1>3 DEF Untouched
  <2>7. ASSUME d \in Unary PROVE Placed(d)' /\ Answered(d)'
    <3>1. Placed(d) /\ Answered(d)
      BY <2>7 DEF Inv
    <3>2. NoEvent(d) /\ NoFlow(d) /\ OneQueued(d) /\ NoWork(d) /\ Waiting(d) /\ applied[d] = 0
      BY <3>1, <2>2 DEF Placed
    <3>3. NoEvent(d)' /\ NoFlow(d)' /\ NoQueued(d)'
      BY <3>2, <1>1, <1>3, <2>2, <2>3, UntouchedEvents, UntouchedFlow, OwnPart
    <3>4. \A v \in Workers : pc'[v] \in AtWork /\ on'[v] = d => v = w
      BY <3>2, <2>3 DEF NoWork, Others, Woken, AtWork, Threads
    <3>5. Waiting(d)' /\ applied'[d] = 0
      BY <3>2, <1>2 DEF Waiting, handlers
    <3>6. OneWork(d)'
      BY <3>4, <3>5, <2>3 DEF OneWork, AtWork
    <3> QED
      BY <3>1, <3>3, <3>5, <3>6 DEF Placed, Answered, Waiting
  <2>8. Listening'
    BY <1>1, <1>2, <1>3, <2>3, WorkerListening DEF handlers, control
  <2> QED
    BY <1>2, <2>4, <2>5, <2>6, <2>7, <2>8, StepKeeps DEF Unary
<1> QED
  BY <1>4, <1>5 DEF TakeTask

LEMMA RunKeeps ==
  ASSUME Inv, NEW w \in Workers, Run(w)
  PROVE  Inv'
<1>1. PICK d : d = on[w]
  OBVIOUS
<1>2. /\ TypeOK /\ Shape /\ HandlerTypes /\ ThreadTypes /\ OtherTypes
      /\ w \in Threads /\ w \notin Pollers
  BY TypeParts, ThreadsAssumption DEF Inv, Threads
<1>3. /\ crashed = FALSE /\ pc[w] = "run" /\ Use(d)
      /\ UNCHANGED <<handlers, clients, control, queue, crashed>>
  BY <1>1, <1>2 DEF Run, OtherTypes
<1>4. /\ d \in Calls
      /\ d \in Unary => /\ Placed(d) /\ NoEvent(d) /\ NoFlow(d) /\ NoQueued(d) /\ Waiting(d) /\ applied[d] = 0
                        /\ \A v \in Workers : pc[v] \in AtWork /\ on[v] = d => v = w
  BY <1>1, <1>3, WorkHas DEF AtWork
<1>5. PICK label \in {"replyOk", "replyError", "caught"}, n \in {0} \cup Handler(d).changes :
        /\ Stay(w, label) /\ applied' = [applied EXCEPT ![d] = @ + n]
        /\ label = "replyOk" => n \in Handler(d).changes
  <2>1. ASSUME NEW n \in Handler(d).changes, applied' = [applied EXCEPT ![d] = @ + n], Stay(w, "replyOk")
        PROVE  \E label \in {"replyOk", "replyError", "caught"}, m \in {0} \cup Handler(d).changes :
                 /\ Stay(w, label) /\ applied' = [applied EXCEPT ![d] = @ + m]
                 /\ label = "replyOk" => m \in Handler(d).changes
    BY <2>1
  <2>2. ASSUME applied' = applied, Stay(w, "replyError")
        PROVE  \E label \in {"replyOk", "replyError", "caught"}, m \in {0} \cup Handler(d).changes :
                 /\ Stay(w, label) /\ applied' = [applied EXCEPT ![d] = @ + m]
                 /\ label = "replyOk" => m \in Handler(d).changes
    <3>1. applied' = [applied EXCEPT ![d] = @ + 0]
      BY <2>2, <1>2, <1>4 DEF OtherTypes
    <3> QED
      BY <2>2, <3>1
  <2>3. ASSUME NEW n \in {0} \cup Handler(d).changes, applied' = [applied EXCEPT ![d] = @ + n], Stay(w, "caught")
        PROVE  \E label \in {"replyOk", "replyError", "caught"}, m \in {0} \cup Handler(d).changes :
                 /\ Stay(w, label) /\ applied' = [applied EXCEPT ![d] = @ + m]
                 /\ label = "replyOk" => m \in Handler(d).changes
    BY <2>3
  <2> QED
    BY <2>1, <2>2, <2>3, <1>1 DEF Run
<1>6. n \in {0, 1}
  BY <1>4, <1>5, Handlers
<1>7. /\ ThreadTypes' /\ Others(w) /\ pc'[w] = label /\ on'[w] = d /\ shut' = shut
  BY <1>1, <1>2, <1>5, StayDoes DEF Labels
<1>8. misused' \subseteq misused \cup {d} /\ misused' \subseteq Calls /\ (life[d] # "deleted" => misused' = misused)
  BY <1>2, <1>3, <1>4, UseDoes
<1>9. /\ applied' \in [Calls -> Nat] /\ applied'[d] = applied[d] + n
      /\ \A c \in Calls \ {d} : applied'[c] = applied[c]
  <2>1. applied[d] \in Nat /\ applied[d] + n \in Nat
    BY <1>2, <1>4, <1>6 DEF OtherTypes
  <2> QED
    BY <2>1, <1>2, <1>4, <1>5 DEF OtherTypes
<1>10. TypeOK'
  <2>1. OtherTypes'
    BY <1>2, <1>3, <1>8, <1>9 DEF OtherTypes
  <2> QED
    BY <2>1, <1>2, <1>3, <1>7, TypeParts, UnchangedTypes
<1>11. HandlerTypes' /\ Kept
  BY <1>2, <1>3, UnchangedTypes DEF Kept, handlers
<1>12. Shape'
  <2>1. InShape(w)'
    BY <1>2, <1>4, <1>7 DEF InShape, Labels
  <2> QED
    BY <2>1, <1>2, <1>7, <1>11, OthersShape
<1>13. ASSUME NEW c \in Calls \ {d} PROVE Untouched(c)
  <2>1. SameFlow(c) /\ SameWork(c)
    BY <1>1, <1>2, <1>3, <1>7, OthersSame DEF Elsewhere, AtWork
  <2>2. SameHandler(c) /\ SameQueued(c) /\ SameEvents(c)
    BY <1>3, <1>9 DEF SameHandler, SameQueued, SameEvents, NoQueued, OneQueued, handlers
  <2> QED
    BY <2>1, <2>2 DEF Untouched
<1>14. ASSUME d \in Unary PROVE Placed(d)' /\ Answered(d)'
  <2>1. NoEvent(d)' /\ NoFlow(d)' /\ NoQueued(d)'
    <3>1. NoEvent(d)' /\ NoQueued(d)'
      BY <1>3, <1>4, <1>14 DEF NoEvent, NoQueued, handlers
    <3>2. NoFlow(d)'
      BY <1>2, <1>4, <1>7, <1>14, OwnPart, UntouchedFlow
    <3> QED
      BY <3>1, <3>2
  <2>2. Waiting(d)' /\ applied'[d] = n
    BY <1>3, <1>4, <1>6, <1>9, <1>14 DEF Waiting, handlers
  <2>3. \A v \in Workers : pc'[v] \in AtWork /\ on'[v] = d => v = w
    BY <1>4, <1>7, <1>14 DEF Others, Woken, AtWork, Threads
  <2>4. pc'[w] \in AtWork /\ pc'[w] # "run" /\ (pc'[w] = "replyOk" => applied'[d] \in Handler(d).changes)
    BY <1>5, <1>7, <2>2 DEF AtWork
  <2>5. OneWork(d)'
    BY <1>7, <2>3, <2>4 DEF OneWork, Handler
  <2> QED
    BY <2>1, <2>2, <2>5, <1>6 DEF Placed, Answered, Waiting
<1>15. Listening'
  BY <1>2, <1>3, <1>7, <1>11, WorkerListening DEF handlers, control
<1>16. \A c \in Unary : c \in misused' => c \in misused
  BY <1>4, <1>8 DEF Waiting
<1> QED
  BY <1>10, <1>12, <1>13, <1>14, <1>15, <1>16, StepKeeps DEF Unary

LEMMA ReplyKeeps ==
  ASSUME Inv, NEW w \in Workers, Reply(w)
  PROVE  Inv'
<1>1. PICK d : d = on[w]
  OBVIOUS
<1>2. /\ TypeOK /\ Shape /\ HandlerTypes /\ ThreadTypes /\ OtherTypes
      /\ w \in Threads /\ w \notin Pollers
  BY TypeParts, ThreadsAssumption DEF Inv, Threads
<1>3. /\ crashed = FALSE /\ pc[w] \in {"replyOk", "replyError", "caught"} /\ Use(d)
      /\ state' = [state EXCEPT ![d] = "PROCESSED"]
      /\ Finish(d, IF pc[w] = "replyOk" THEN "ok" ELSE "error")
      /\ IF pc[w] = "caught" /\ Handler(d).logsLast THEN Stay(w, "log") ELSE Rest(w)
      /\ UNCHANGED <<listening, life, reading, clients, applied, control, queue>>
  BY <1>1, <1>2 DEF Reply, SetState, OtherTypes
<1>4. /\ d \in Calls
      /\ d \in Unary => /\ Placed(d) /\ NoEvent(d) /\ NoFlow(d) /\ NoQueued(d) /\ Waiting(d)
                        /\ pc[w] = "replyOk" => applied[d] \in Handler(d).changes
                        /\ \A v \in Workers : pc[v] \in AtWork /\ on[v] = d => v = w
  BY <1>1, <1>3, WorkHas DEF AtWork
<1>5. /\ ThreadTypes' /\ Others(w) /\ shut' = shut
      /\ pc'[w] = "idle" \/ (pc'[w] = "log" /\ on'[w] = d /\ Handler(d).logsLast)
  <2>1. CASE pc[w] = "caught" /\ Handler(d).logsLast
    BY <2>1, <1>1, <1>2, <1>3, StayDoes DEF Labels
  <2>2. CASE ~(pc[w] = "caught" /\ Handler(d).logsLast)
    BY <2>2, <1>2, <1>3, RestDoes
  <2> QED
    BY <2>1, <2>2
<1>6. PICK a \in {"ok", "error"} : Finish(d, a) /\ (a = "ok" => pc[w] = "replyOk")
  BY <1>3
<1>7. /\ answer' \in [Calls -> {"none", "ok", "error"}] /\ cq' \subseteq Event /\ crashed' \in BOOLEAN
      /\ Kept /\ \A c \in Calls \ {d} : answer'[c] = answer[c] /\ SameEvents(c)
  BY <1>2, <1>3, <1>4, <1>6, FinishDoes
<1>8. answer[d] = "none" => /\ answer'[d] = a
                            /\ \E ok \in BOOLEAN : cq' = cq \cup {[call |-> d, of |-> "finish", ok |-> ok]}
  BY <1>2, <1>3, <1>4, <1>6, FinishDoes
<1>9. misused' \subseteq misused \cup {d} /\ misused' \subseteq Calls /\ (life[d] # "deleted" => misused' = misused)
  BY <1>2, <1>3, <1>4, UseDoes
<1>10. /\ state' \in [Calls -> {"CREATED", "READ", "PROCESSED"}] /\ state'[d] = "PROCESSED"
       /\ \A c \in Calls \ {d} : state'[c] = state[c]
  BY <1>2, <1>3, <1>4 DEF HandlerTypes
<1>11. HandlerTypes' /\ OtherTypes'
  BY <1>2, <1>3, <1>7, <1>9, <1>10 DEF HandlerTypes, OtherTypes
<1>12. TypeOK'
  BY <1>2, <1>3, <1>5, <1>11, TypeParts, UnchangedTypes
<1>13. Shape'
  <2>1. InShape(w)'
    <3>1. CASE pc'[w] = "idle"
      BY <3>1, <1>2 DEF InShape, Labels
    <3>2. CASE pc'[w] = "log" /\ on'[w] = d /\ Handler(d).logsLast
      BY <3>2, <1>2, <1>4 DEF InShape, Labels, Handler
    <3> QED
      BY <3>1, <3>2, <1>5
  <2> QED
    BY <2>1, <1>2, <1>5, <1>7, OthersShape
<1>14. pc'[w] \notin AtWork \cup {"flow"}
  BY <1>5 DEF AtWork
<1>15. ASSUME NEW c \in Calls \ {d} PROVE Untouched(c)
  <2>1. SameFlow(c) /\ SameWork(c)
    BY <1>1, <1>2, <1>3, <1>5, <1>14, OthersSame DEF Elsewhere, AtWork
  <2>2. SameHandler(c) /\ SameQueued(c) /\ SameEvents(c)
    BY <1>3, <1>7, <1>10 DEF SameHandler, SameQueued, NoQueued, OneQueued
  <2> QED
    BY <2>1, <2>2 DEF Untouched
<1>16. ASSUME d \in Unary PROVE Placed(d)' /\ Answered(d)'
  <2>1. answer[d] = "none" /\ life[d] = "live"
    BY <1>4, <1>16 DEF Waiting
  <2>2. PICK ok \in BOOLEAN : cq' = cq \cup {[call |-> d, of |-> "finish", ok |-> ok]}
    BY <1>8, <2>1
  <2>3. \A e \in cq' : e.call = d => e = [call |-> d, of |-> "finish", ok |-> ok]
    BY <2>2, <1>4, <1>16 DEF NoEvent
  <2>4. life'[d] = "live" /\ state'[d] = "PROCESSED" /\ answer'[d] = a
    BY <2>1, <1>3, <1>8, <1>10
  <2>5. Right([call |-> d, of |-> "finish", ok |-> ok])'
    BY <2>4 DEF Right
  <2>6. OneEvent(d)'
    BY <2>2, <2>3, <2>5 DEF OneEvent
  <2>7. NoFlow(d)' /\ NoWork(d)'
    BY <1>2, <1>4, <1>5, <1>14, <1>16, OwnPart, UntouchedFlow
  <2>8. NoQueued(d)'
    BY <1>3, <1>4, <1>16 DEF NoQueued
  <2>9. Answered(d)'
    <3>1. Answered(d) /\ applied' = applied
      BY <1>3, <1>16 DEF Inv
    <3>2. a = "ok" => applied[d] \in Handler(d).changes
      BY <1>4, <1>6, <1>16
    <3> QED
      BY <3>1, <3>2, <2>4 DEF Answered, Handler
  <2> QED
    BY <2>6, <2>7, <2>8, <2>9 DEF Placed
<1>17. Listening'
  <2>1. CASE answer[d] = "none"
    <3>1. PICK ok \in BOOLEAN : cq' = cq \cup {[call |-> d, of |-> "finish", ok |-> ok]}
      BY <1>8, <2>1
    <3>2. \A e \in Event : e.of = "request" => (e \in cq' <=> e \in cq)
      BY <3>1
    <3> QED
      BY <3>2, <1>3, <1>5, <1>11, WorkerListening DEF control
  <2>2. CASE answer[d] # "none"
    <3>1. cq' = cq
      BY <2>2, <1>2, <1>3, <1>4, <1>6, FinishDoes
    <3> QED
      BY <3>1, <1>3, <1>5, <1>11, WorkerListening DEF control
  <2> QED
    BY <2>1, <2>2
<1>18. \A c \in Unary : c \in misused' => c \in misused
  BY <1>4, <1>9 DEF Waiting
<1> QED
  BY <1>12, <1>13, <1>15, <1>16, <1>17, <1>18, StepKeeps DEF Unary

\* The only unary handlers that are used too late.
LEMMA LogKeeps ==
  ASSUME Inv, NEW w \in Workers, Log(w)
  PROVE  Inv'
<1>1. PICK d : d = on[w]
  OBVIOUS
<1>2. /\ TypeOK /\ Shape /\ Listening /\ HandlerTypes /\ ThreadTypes /\ OtherTypes
      /\ w \in Threads /\ w \notin Pollers
  BY TypeParts, ThreadsAssumption DEF Inv, Threads
<1>3. /\ crashed = FALSE /\ pc[w] = "log" /\ Use(d) /\ Rest(w)
      /\ UNCHANGED <<handlers, clients, applied, control, queue, crashed>>
  BY <1>1, <1>2 DEF Log, OtherTypes
<1>4. d \in Calls /\ Handler(d).logsLast
  BY <1>1, <1>2, <1>3 DEF Shape, InShape, Handler
<1>5. ThreadTypes' /\ Others(w) /\ pc'[w] = "idle" /\ shut' = shut
  BY <1>2, <1>3, RestDoes
<1>6. misused' \subseteq misused \cup {d} /\ misused' \subseteq Calls
  BY <1>2, <1>3, <1>4, UseDoes
<1>7. TypeOK'
  <2>1. OtherTypes'
    BY <1>2, <1>3, <1>6 DEF OtherTypes
  <2> QED
    BY <2>1, <1>2, <1>3, <1>5, TypeParts, UnchangedTypes
<1>8. Shape'
  <2>1. InShape(w)' /\ Kept
    BY <1>2, <1>3, <1>5 DEF InShape, Labels, Kept, handlers
  <2> QED
    BY <2>1, <1>2, <1>5, OthersShape
<1>9. ASSUME NEW c \in Calls PROVE Untouched(c)
  <2>1. SameFlow(c) /\ SameWork(c)
    BY <1>2, <1>3, <1>5, OthersSame DEF Elsewhere, AtWork
  <2>2. SameHandler(c) /\ SameQueued(c) /\ SameEvents(c)
    BY <1>3 DEF SameHandler, SameQueued, SameEvents, NoQueued, OneQueued, handlers
  <2> QED
    BY <2>1, <2>2 DEF Untouched
<1>10. Listening'
  <2>1. HandlerTypes'
    BY <1>2, <1>3, UnchangedTypes
  <2> QED
    BY <2>1, <1>2, <1>3, <1>5, WorkerListening DEF handlers, control
<1>11. \A c \in Unary : c \in misused' => c \in misused \/ Handler(c).logsLast
  BY <1>4, <1>6
<1> QED
  BY <1>7, <1>8, <1>9, <1>10, <1>11, StepKeeps DEF Unary

LEMMA NextBatchKeeps ==
  ASSUME Inv, NEW w \in Workers, NextBatch(w)
  PROVE  Inv'
<1>1. PICK d : d = on[w]
  OBVIOUS
<1>2. /\ TypeOK /\ Shape /\ HandlerTypes /\ ThreadTypes /\ OtherTypes
      /\ w \in Threads /\ w \notin Pollers
  BY TypeParts, ThreadsAssumption DEF Inv, Threads
<1>3. /\ crashed = FALSE /\ d \in Streams /\ d \in Calls
      /\ UNCHANGED <<listening, life, state, cq, answer, clients, applied, control, queue>>
  BY <1>1, <1>2 DEF NextBatch, OtherTypes, Streams
<1>4. /\ ThreadTypes' /\ Others(w) /\ shut' = shut
      /\ pc[w] \in AtWork
      /\ pc'[w] = "idle" \/ (pc'[w] = "setRead" /\ on'[w] = d)
      /\ reading' \subseteq Streams /\ crashed' \in BOOLEAN
      /\ misused' \subseteq misused \cup {d} /\ misused' \subseteq Calls
  <2>1. CASE pc[w] = "replyOk" /\ Use(d) /\ Read(d) /\ Stay(w, "setRead")
    <3>1. reading' \subseteq Streams /\ crashed' \in BOOLEAN
      BY <2>1, <1>2, <1>3 DEF Read, HandlerTypes
    <3>2. ThreadTypes' /\ Others(w) /\ pc'[w] = "setRead" /\ on'[w] = d /\ shut' = shut
      BY <2>1, <1>1, <1>2, StayDoes DEF Labels
    <3>3. misused' \subseteq misused \cup {d} /\ misused' \subseteq Calls
      BY <2>1, <1>2, <1>3, UseDoes
    <3> QED
      BY <2>1, <3>1, <3>2, <3>3 DEF AtWork
  <2>2. CASE pc[w] = "caught" /\ Rest(w) /\ UNCHANGED <<reading, misused, crashed>>
    <3>1. ThreadTypes' /\ Others(w) /\ pc'[w] = "idle" /\ shut' = shut
      BY <2>2, <1>2, RestDoes
    <3> QED
      BY <2>2, <3>1, <1>2, <1>3 DEF AtWork, HandlerTypes, OtherTypes
  <2> QED
    BY <2>1, <2>2, <1>1 DEF NextBatch
<1>5. TypeOK'
  <2>1. HandlerTypes' /\ OtherTypes'
    BY <1>2, <1>3, <1>4 DEF HandlerTypes, OtherTypes
  <2> QED
    BY <2>1, <1>2, <1>3, <1>4, TypeParts, UnchangedTypes
<1>6. Shape'
  <2>1. InShape(w)' /\ Kept
    BY <1>2, <1>3, <1>4 DEF InShape, Labels, Kept
  <2> QED
    BY <2>1, <1>2, <1>4, OthersShape
<1>7. ASSUME NEW c \in Calls \ {d} PROVE Untouched(c)
  <2>1. SameFlow(c) /\ SameWork(c)
    BY <1>1, <1>2, <1>4, OthersSame DEF Elsewhere, AtWork
  <2>2. SameHandler(c) /\ SameQueued(c) /\ SameEvents(c)
    BY <1>3 DEF SameHandler, SameQueued, SameEvents, NoQueued, OneQueued
  <2> QED
    BY <2>1, <2>2 DEF Untouched
<1> QED
  BY <1>3, <1>4, <1>5, <1>6, <1>7, StreamStep DEF Unary, control

LEMMA WorkerKeeps ==
  ASSUME Inv, NEW w \in Workers, Worker(w)
  PROVE  Inv'
BY TakeTaskKeeps, RunKeeps, ReplyKeeps, LogKeeps, NextBatchKeeps, SetReadKeeps DEF Worker, Threads

-----------------------------------------------------------------------------
(* The main thread *)

\* It touches no call; once the server is stopped the handlers need not balance.
LEMMA MainKeeps ==
  ASSUME Inv, Signal \/ Shutdown
  PROVE  Inv'
<1>1. /\ TypeOK /\ Shape /\ Listening /\ HandlerTypes /\ ThreadTypes /\ ControlTypes
  BY TypeParts DEF Inv
<1>2. /\ UNCHANGED <<life, state, cq, reading, answer, clients, on, event, shut, applied, queue, misused, crashed>>
      /\ main' \in {"save", "pool", "join", "drain", "done"}
      /\ running' \in BOOLEAN /\ stopped' \in BOOLEAN
      /\ listening' = listening \/ listening' = [r \in Rpcs |-> 0]
      /\ pc' = pc \/ pc' = [x \in Threads |-> IF x \in Asleep THEN "idle" ELSE pc[x]]
      /\ ~running'
  <2>1. main # "run" => ~running
    BY <1>1 DEF Listening
  <2>2. CASE Signal
    BY <2>2, <1>1 DEF Signal, MainGo, handlers, threads, ControlTypes
  <2>3. CASE Save
    BY <2>1, <2>3, <1>1 DEF Save, MainGo, handlers, threads, ControlTypes
  <2>4. CASE StopPool
    BY <2>1, <2>4, <1>1 DEF StopPool, MainGo, handlers, threads, ControlTypes
  <2>5. CASE JoinWorkers
    BY <2>1, <2>5, <1>1 DEF JoinWorkers, MainGo, handlers, threads, ControlTypes
  <2>6. CASE Drained
    BY <2>1, <2>6, <1>1 DEF Drained, MainGo, handlers, threads, ControlTypes
  <2> QED
    BY <2>2, <2>3, <2>4, <2>5, <2>6 DEF Shutdown
<1>3. HandlerTypes' /\ ControlTypes'
  BY <1>1, <1>2 DEF HandlerTypes, ControlTypes
<1>4. ThreadTypes' /\ \A x \in Threads : Woken(x)
  BY <1>1, <1>2 DEF ThreadTypes, Labels, Woken, Asleep
<1>5. TypeOK'
  BY <1>1, <1>2, <1>3, <1>4, TypeParts, UnchangedTypes
<1>6. Shape'
  BY <1>1, <1>2, <1>4, WokenShape DEF Shape, Kept
<1>7. ASSUME NEW c \in Unary PROVE Untouched(c)
  <2>1. SameFlow(c) /\ SameWork(c)
    BY <1>4 DEF SameFlow, SameWork, SameThread, Woken, AtWork, Threads
  <2>2. SameHandler(c) /\ SameQueued(c) /\ SameEvents(c)
    BY <1>2 DEF SameHandler, SameQueued, SameEvents, NoQueued, OneQueued
  <2> QED
    BY <2>1, <2>2 DEF Untouched
<1>8. Listening'
  BY <1>2 DEF Listening
<1> QED
  BY <1>2, <1>5, <1>6, <1>7, <1>8, StepKeeps

-----------------------------------------------------------------------------
(* The theorems *)

LEMMA InitInv == Init => Inv
<1> SUFFICES ASSUME Init PROVE Inv
  OBVIOUS
<1>1. TypeOK
  <2>1. HandlerTypes /\ ClientTypes
    BY SizesAssumption DEF Init, HandlerTypes, ClientTypes
  <2>2. ThreadTypes /\ ControlTypes
    BY DEF Init, ThreadTypes, Labels, ControlTypes
  <2>3. QueueTypes
    BY SizesAssumption DEF Init, QueueTypes
  <2>4. OtherTypes
    BY DEF Init, OtherTypes
  <2> QED
    BY <2>1, <2>2, <2>3, <2>4, TypeParts
<1>2. Shape
  BY DEF Init, Shape, InShape, Labels
<1>3. ASSUME NEW c \in Unary PROVE Placed(c) /\ Answered(c) /\ ~Opening(c)
  <2>1. NoEvent(c) /\ NoFlow(c) /\ NoWork(c) /\ ~Opening(c)
    BY DEF Init, NoEvent, NoFlow, NoWork, AtWork, Opening, Threads
  <2>2. NoQueued(c)
    BY DEF Init, NoQueued
  <2>3. Answered(c)
    BY DEF Init, Answered, Unary
  <2> QED
    BY <2>1, <2>2, <2>3 DEF Placed
<1>4. Listening
  <2>1. \A r \in Rpcs \ {"StreamUpsert"} : Balanced(r)
    BY <1>3 DEF Init, Balanced, Unary, Streams
  <2> QED
    BY <2>1 DEF Init, Listening
<1>5. UnaryHandlersLive
  BY DEF Init, UnaryHandlersLive
<1> QED
  BY <1>1, <1>2, <1>3, <1>4, <1>5 DEF Inv

LEMMA NextInv == Inv /\ [Next]_vars => Inv'
<1> SUFFICES ASSUME Inv, [Next]_vars PROVE Inv'
  OBVIOUS
<1>1. CASE UNCHANGED vars
  <2>1. TypeOK'
    BY <1>1, TypeParts, UnchangedTypes DEF Inv, vars
  <2>2. Shape' /\ Listening' /\ \A c \in Unary : Untouched(c)
    <3>1. \A x \in Threads : Woken(x)
      BY <1>1 DEF vars, threads, Woken
    <3>2. Kept /\ \A c \in Calls : Untouched(c)
      BY <1>1 DEF vars, handlers, threads, Kept, Untouched, SameHandler, SameEvents, SameQueued, NoQueued,
         OneQueued, SameFlow, SameWork, SameThread
    <3>3. Shape'
      BY <3>1, <3>2, WokenShape DEF Inv, Shape
    <3>4. Listening'
      <4>1. \A r \in Rpcs : Balanced(r)' <=> Balanced(r)
        BY <1>1 DEF vars, handlers, threads, Balanced, Opening
      <4> QED
        BY <4>1, <1>1 DEF Inv, Listening, vars, handlers, threads, control
    <3> QED
      BY <3>2, <3>3, <3>4 DEF Unary
  <2> QED
    BY <1>1, <2>1, <2>2, StepKeeps DEF vars
<1>2. ASSUME NEW c \in Calls, Call(c) \/ ReadEnds(c) \/ Close(c) PROVE Inv'
  BY <1>2, CallKeeps, ReadEndsKeeps, CloseKeeps
<1>3. ASSUME NEW p \in Pollers, Poller(p) PROVE Inv'
  BY <1>3, PollerKeeps
<1>4. ASSUME NEW w \in Workers, Worker(w) PROVE Inv'
  BY <1>4, WorkerKeeps
<1>5. CASE Signal \/ Shutdown
  BY <1>5, MainKeeps
<1> QED
  BY <1>1, <1>2, <1>3, <1>4, <1>5 DEF Next

\* Every unary call is in one place at a time, its handler alive and in the state
\* that place goes with, however pollers, workers, clients and the shutdown interleave.
THEOREM InvHolds == Spec => []Inv
BY InitInv, NextInv, PTL DEF Spec

\* The variables keep their types, and the pool's queue its bound.
THEOREM TypeCorrect == Spec => []TypeOK
<1>1. Inv => TypeOK
  BY DEF Inv
<1> QED
  BY <1>1, InvHolds, PTL

\* No unary handler is used after its end, but for the two that log last
\* (run_flow, do_delete and the tasks of server.cpp).
THEOREM UnaryHandlersAreLive == Spec => []UnaryHandlersLive
<1>1. Inv => UnaryHandlersLive
  BY DEF Inv
<1> QED
  BY <1>1, InvHolds, PTL

\* A unary call changes the database at most once and not after its client was told;
\* one told OK has made its change, if its RPC makes one and the database looks at
\* what came of it (the tasks of server.cpp; database.cpp, 112 and 128, does not look).
THEOREM AppliesOnce == Spec => []AppliedOnce
<1>1. Inv => AppliedOnce
  <2> SUFFICES ASSUME Inv, NEW c \in Unary
               PROVE  /\ applied[c] <= 1
                      /\ answer[c] = "ok" => applied[c] \in Handler(c).changes
                      /\ answer[c] # "none" =>
                           /\ \A k \in DOMAIN queue : queue[k] # c
                           /\ \A w \in Workers : pc[w] \in AtWork => on[w] # c
    BY DEF AppliedOnce, AtWork
  <2>1. Placed(c) /\ Answered(c) /\ queue \in Seq(Calls)
    BY DEF Inv, TypeOK
  <2>2. answer[c] # "none" => NoQueued(c) /\ NoWork(c)
    BY <2>1 DEF Placed, Waiting
  <2>3. DOMAIN queue = 1 .. Len(queue)
    BY <2>1
  <2> QED
    BY <2>1, <2>2, <2>3 DEF Answered, NoQueued, NoWork
<1> QED
  BY <1>1, InvHolds, PTL

\* Of each unary RPC one handler waits for the next call, or is about to be made
\* (new_instance in each handler's process step).
THEOREM OneListens == Spec => []OneListener
<1>1. Inv => OneListener
  <2> SUFFICES ASSUME Inv, running, ~crashed, NEW r \in Rpcs \ {"StreamUpsert"}
               PROVE  listening[r] + Cardinality(Unopened(r)) = 1
    BY DEF OneListener
  <2>1. ASSUME NEW c \in Calls
        PROVE  Opening(c) <=>
                 \E e \in cq \cup {event[p] : p \in {q \in Pollers : pc[q] = "flow"}} :
                   e.call = c /\ e.of = "request"
    <3>1. \A p \in Pollers : pc[p] = "flow" => event[p].call = on[p]
      BY DEF Inv, Shape, InShape, Threads
    <3> QED
      BY <3>1 DEF Opening
  <2>2. Unopened(r) = {c \in Calls : Rpc[c] = r /\ Opening(c)}
    BY <2>1 DEF Unopened
  <2>3. Balanced(r)
    BY DEF Inv, Listening
  <2>4. CASE listening[r] = 1 /\ \A c \in Calls : Rpc[c] = r => ~Opening(c)
    <3>1. Unopened(r) = {}
      BY <2>2, <2>4
    <3> QED
      BY <3>1, <2>4, FS_EmptySet
  <2>5. ASSUME listening[r] = 0, NEW d \in Calls, Rpc[d] = r, Opening(d),
               \A c \in Calls : Rpc[c] = r /\ Opening(c) => c = d
        PROVE  listening[r] + Cardinality(Unopened(r)) = 1
    <3>1. Unopened(r) = {d}
      BY <2>2, <2>5
    <3>2. Cardinality(Unopened(r)) = 1
      BY <3>1, FS_Singleton
    <3> QED
      BY <3>2, <2>5
  <2> QED
    BY <2>3, <2>4, <2>5 DEF Balanced
<1> QED
  BY <1>1, InvHolds, PTL
==============================================================================
