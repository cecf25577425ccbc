---------------------------- MODULE InMemoryBus ----------------------------
(***************************************************************************)
(* The in-memory event bus of the controller (controller/app/bus.py), with *)
(* its publishers (POST /events), its consumer tasks (_consume_bus) and    *)
(* the shutdown hook that closes it (controller/app/main.py).              *)
(*                                                                         *)
(* All of them are tasks of one asyncio event loop, so an action is what   *)
(* runs between two suspension points.  publish() never suspends: it makes *)
(* room before it puts, so the put finds a free slot.  A consumer suspends *)
(* in queue.get() and inside handle_event(); the shutdown hook suspends in *)
(* queue.join().                                                           *)
(*                                                                         *)
(* There is one consumer task when leader election is off.  With it on,    *)
(* every new term of leadership starts one more (main.py:264-276), hence   *)
(* the set of consumers and the action Start.                              *)
(*                                                                         *)
(* Events are numbered in the order of publication.  published, taken and  *)
(* dropped are history variables: no action reads them, except that        *)
(* Publish stops after MaxEvents events.                                   *)
(***************************************************************************)
EXTENDS Naturals, Sequences, FiniteSets, Functions

CONSTANTS
    Consumers,   \* the _consume_bus tasks this process may create
    NoTask,      \* _consumer_task is None
    MaxSize,     \* max_size of the queue
    MaxEvents    \* bound on the number of events published

ASSUME BusAssumption ==
    /\ IsFiniteSet(Consumers)
    /\ NoTask \notin Consumers
    /\ MaxSize \in Nat \ {0}
    /\ MaxEvents \in Nat

VARIABLES
    queue,        \* InMemoryBus.queue: the events waiting
    unfinished,   \* asyncio.Queue's count of items without a task_done()
    shutdown,     \* InMemoryBus._shutdown is set
    pc,           \* where each consumer task is
    holding,      \* the event each consumer handles, 0 for none
    main,         \* the process: serving, in bus.close(), or past _shutdown
    consumerTask, \* main._consumer_task: the last consumer created
    published,    \* history: number of events published
    taken,        \* history: events handed to consumers, in order
    dropped       \* history: events publish() discarded

bus == <<queue, unfinished>>
history == <<published, taken, dropped>>
vars == <<queue, unfinished, shutdown, pc, holding, main, consumerTask,
          published, taken, dropped>>

Queued == Range(queue)
Busy == {c \in Consumers : pc[c] = "handling"}

TypeOK ==
    /\ queue \in Seq(Nat \ {0})
    /\ Len(queue) <= MaxSize
    /\ unfinished \in Nat
    /\ shutdown \in BOOLEAN
    /\ pc \in [Consumers -> {"unborn", "loop", "get", "handling", "done"}]
    /\ holding \in [Consumers -> Nat]
    /\ main \in {"serving", "closing", "stopped"}
    /\ consumerTask \in Consumers \cup {NoTask}
    /\ published \in Nat
    /\ taken \in Seq(Nat \ {0})
    /\ dropped \in SUBSET (Nat \ {0})

Init ==
    /\ queue = <<>>
    /\ unfinished = 0
    /\ shutdown = FALSE
    /\ pc = [c \in Consumers |-> "unborn"]
    /\ holding = [c \in Consumers |-> 0]
    /\ main = "serving"
    /\ consumerTask = NoTask
    /\ published = 0
    /\ taken = <<>>
    /\ dropped = {}

-----------------------------------------------------------------------------
(* Seeded faults.  Each operator is a plausible wrong form of the           *)
(* definition named in its comment; PROJECT.json names the property that    *)
(* must fail when it is put in that definition's place.                     *)

\* PublishRoom: an unbounded put, as in a queue created without maxsize.
PublishRoomUnbounded ==
    /\ queue' = Append(queue, published + 1)
    /\ UNCHANGED dropped

\* PublishRoom: the put goes to the front (a LIFO queue).
PublishRoomInFront ==
    /\ Len(queue) < MaxSize
    /\ queue' = <<published + 1>> \o queue
    /\ UNCHANGED dropped

\* Take: the event is read but stays in the queue.
TakePeeks(c) ==
    /\ queue # <<>>
    /\ queue' = queue
    /\ pc' = [pc EXCEPT ![c] = "handling"]
    /\ holding' = [holding EXCEPT ![c] = Head(queue)]
    /\ taken' = Append(taken, Head(queue))
    /\ UNCHANGED <<unfinished, shutdown, main, consumerTask, published, dropped>>

\* Timeout: the get() that is cancelled had been given the event, which goes with it.
TimeoutLosesEvent(c) ==
    /\ pc[c] = "get"
    /\ queue' = IF queue = <<>> THEN queue ELSE Tail(queue)
    /\ pc' = [pc EXCEPT ![c] = "loop"]
    /\ UNCHANGED <<unfinished, shutdown, holding, main, consumerTask, history>>

\* FinishHandling: an iteration without task_done().
FinishWithoutTaskDone(c) ==
    /\ pc[c] = "handling"
    /\ holding' = [holding EXCEPT ![c] = 0]
    /\ pc' = [pc EXCEPT ![c] = "loop"]
    /\ UNCHANGED <<queue, unfinished, shutdown, main, consumerTask, history>>

\* Stop: the consumer is cancelled without waiting for join().
StopWithoutJoin ==
    /\ main = "closing"
    /\ main' = "stopped"
    /\ pc' = [c \in Consumers |-> IF c = consumerTask THEN "done" ELSE pc[c]]
    /\ UNCHANGED <<bus, shutdown, holding, consumerTask, history>>

\* FinishHandling: an exception of handle_event() ends the consumer task.
FinishKillsConsumer(c) ==
    /\ pc[c] = "handling"
    /\ unfinished' = unfinished - 1
    /\ holding' = [holding EXCEPT ![c] = 0]
    /\ pc' = [pc EXCEPT ![c] = "done"]
    /\ UNCHANGED <<queue, shutdown, main, consumerTask, history>>

-----------------------------------------------------------------------------
(* Publishers.                                                             *)

\* publish() into a queue with a free slot.
PublishRoom ==
    /\ Len(queue) < MaxSize
    /\ queue' = Append(queue, published + 1)
    /\ UNCHANGED dropped

\* publish() into a full queue: the oldest event goes, and nothing tells the
\* queue that it is done with.
PublishFull ==
    /\ Len(queue) = MaxSize
    /\ queue' = Append(Tail(queue), published + 1)
    /\ dropped' = dropped \cup {Head(queue)}

\* Requests are served until the server runs its shutdown hook.
Publish ==
    /\ main = "serving"
    /\ published < MaxEvents
    /\ PublishRoom \/ PublishFull
    /\ unfinished' = unfinished + 1
    /\ published' = published + 1
    /\ UNCHANGED <<shutdown, pc, holding, main, consumerTask, taken>>

-----------------------------------------------------------------------------
(* Consumer tasks: `async for event in bus.subscribe()`.                   *)

\* _start() creates a consumer and forgets the one before it.
Start(c) ==
    /\ main # "stopped"
    /\ pc[c] = "unborn"
    /\ pc' = [pc EXCEPT ![c] = "loop"]
    /\ consumerTask' = c
    /\ UNCHANGED <<bus, shutdown, holding, main, history>>

\* queue.get() hands the oldest event to consumer c.
Take(c) ==
    /\ queue # <<>>
    /\ queue' = Tail(queue)
    /\ pc' = [pc EXCEPT ![c] = "handling"]
    /\ holding' = [holding EXCEPT ![c] = Head(queue)]
    /\ taken' = Append(taken, Head(queue))
    /\ UNCHANGED <<unfinished, shutdown, main, consumerTask, published, dropped>>

\* The loop condition is read, and get() does not wait if there is an event.
EnterLoop(c) ==
    /\ pc[c] = "loop"
    /\ ~shutdown
    /\ \/ Take(c)
       \/ /\ queue = <<>>
          /\ pc' = [pc EXCEPT ![c] = "get"]
          /\ UNCHANGED <<bus, shutdown, holding, main, consumerTask, history>>

\* The loop condition is read after _shutdown was set: the generator ends,
\* whatever is still in the queue.
ExitLoop(c) ==
    /\ pc[c] = "loop"
    /\ shutdown
    /\ pc' = [pc EXCEPT ![c] = "done"]
    /\ UNCHANGED <<bus, shutdown, holding, main, consumerTask, history>>

\* A waiting get() is woken by a put.
Wake(c) ==
    /\ pc[c] = "get"
    /\ Take(c)

\* wait_for's second is over.  The cancelled get() leaves the queue as it is,
\* also when a put had just woken it.
Timeout(c) ==
    /\ pc[c] = "get"
    /\ pc' = [pc EXCEPT ![c] = "loop"]
    /\ UNCHANGED <<bus, shutdown, holding, main, consumerTask, history>>

\* handle_event() returned or raised (_consume_bus logs what it raises); the
\* next iteration of the async-for runs task_done().
FinishHandling(c) ==
    /\ pc[c] = "handling"
    /\ unfinished' = unfinished - 1
    /\ holding' = [holding EXCEPT ![c] = 0]
    /\ pc' = [pc EXCEPT ![c] = "loop"]
    /\ UNCHANGED <<queue, shutdown, main, consumerTask, history>>

ConsumerStep(c) ==
    \/ EnterLoop(c)
    \/ ExitLoop(c)
    \/ Wake(c)
    \/ Timeout(c)
    \/ FinishHandling(c)

-----------------------------------------------------------------------------
(* Shutdown: `await bus.close()`, then the last consumer is cancelled.     *)

Close ==
    /\ main = "serving"
    /\ main' = "closing"
    /\ shutdown' = TRUE
    /\ UNCHANGED <<bus, pc, holding, consumerTask, history>>

\* queue.join() returns and _consumer_task, if any, is cancelled and awaited.
Stop ==
    /\ main = "closing"
    /\ unfinished = 0
    /\ main' = "stopped"
    /\ pc' = [c \in Consumers |-> IF c = consumerTask THEN "done" ELSE pc[c]]
    /\ UNCHANGED <<bus, shutdown, holding, consumerTask, history>>

-----------------------------------------------------------------------------
Next ==
    \/ Publish
    \/ \E c \in Consumers : Start(c) \/ ConsumerStep(c)
    \/ Close
    \/ Stop

Spec == Init /\ [][Next]_vars

\* The event loop runs every ready task, wait_for has a deadline, and every
\* call handle_event() awaits has a timeout of its own.
Fairness ==
    /\ \A c \in Consumers : WF_vars(ConsumerStep(c))
    /\ WF_vars(Stop)

FairSpec == Spec /\ Fairness

-----------------------------------------------------------------------------
(* Properties.                                                             *)

\* Every published event is in exactly one place -- waiting in the queue, handed
\* to a consumer, or dropped by publish() -- and the queue holds the youngest
\* ones in the order of publication (bus.py:39-56).
Conservation ==
    LET older == 1 .. published - Len(queue) IN
    /\ Len(queue) <= published
    /\ \A i \in DOMAIN queue : queue[i] = published - Len(queue) + i
    /\ Range(taken) \cup dropped = older
    /\ Range(taken) \cap dropped = {}

\* No event is handled by two consumer tasks, and the one a consumer works on was
\* handed to it (bus.py:52-56, with the second consumer of main.py:267).
ExclusiveHandling ==
    \A c \in Consumers :
        /\ pc[c] = "handling" <=> holding[c] # 0
        /\ holding[c] # 0 =>
            /\ holding[c] \in Range(taken)
            /\ \A d \in Consumers \ {c} : holding[d] # holding[c]

\* An event is dropped only if max_size younger events were published while it
\* waited: a burst the queue can hold is handled completely (bus.py:40-43).
DropOnlyUnderOverload == \A e \in dropped : e + MaxSize <= published

\* If the shutdown hook gets past close(), every event ever published has been
\* handled to its end, so cancelling the consumer interrupts no handler
\* (bus.py:62-66, main.py:283-292).
StopFindsAllHandled ==
    main = "stopped" =>
        /\ Range(taken) = 1 .. published
        /\ \A c \in Consumers : holding[c] = 0

\* The bus is a lossy FIFO channel of its capacity (bus.py:29-60).
Fifo == INSTANCE LossyFifo WITH
            Capacity <- MaxSize, sent <- published, received <- taken
RefinesLossyFifo == Fifo!Spec

\* While the process serves, no event stays in the queue: the consumer's loop
\* comes back to it (bus.py:50-58, main.py:295-300).
BacklogIsServed ==
    \A e \in 1 .. MaxEvents :
        (e \in Queued /\ consumerTask # NoTask)
            ~> (e \notin Queued \/ shutdown)

\* close() returns if it is called when nothing waits and nothing was ever
\* dropped: only the handlers that run are waited for (bus.py:62-66).
IdleCloseReturns ==
    (main = "closing" /\ unfinished = Cardinality(Busy)) ~> (main = "stopped")

\* "Signal consumer to drain then stop." (bus.py:63): a consumer that was started
\* empties the queue after close() was called.  It does not.
CloseDrainsQueue ==
    (main = "closing" /\ consumerTask # NoTask) ~> (queue = <<>>)

\* "Drain remaining items so task_done() accounting is correct" (bus.py:65): once the
\* queue is drained, join() lets close() return.  It does not if publish() ever dropped
\* an event, which stays unfinished for good (bus.py:40-46).
DrainedCloseReturns ==
    (main = "closing" /\ queue = <<>>) ~> (main = "stopped")
=============================================================================
