--------------------------- MODULE ServiceLifecycle ---------------------------
(***************************************************************************)
(* The life of the runtime process on its event loop: RuntimeRunner starts *)
(* the Orchestrator, which prepares the services, runs each of them and    *)
(* the EventBus as a task, and stops them all when a signal came.          *)
(*                                                                         *)
(* One task at a time has the loop, until it waits for something.          *)
(* Starting never waits, nor do the handlers of the bus, so the bus keeps  *)
(* the loop until its queue is empty.  A fetch runs in a thread of the     *)
(* executor and goes on when its task is cancelled.                        *)
(*                                                                         *)
(* Events come in kinds, handlers of one may publish some of the next:     *)
(* order book, request, report, breach.  Tasks publish too, the market     *)
(* feed order books and the momentum trap requests.                        *)
(***************************************************************************)
EXTENDS Naturals, Sequences, FiniteSets

CONSTANTS
    Services,       \* the services, in the order they are started
    Bus, Runner,    \* the task of the bus, and of RuntimeRunner.run
    Nobody,         \* nobody has the loop
    Subscribers,    \* per kind of event, the services that handle it
    Publishers,     \* services whose task fetches data and publishes,
    KindOf,         \* per publisher, events of this kind
    PortBinders,    \* services whose on_start binds a port
    Fragile,        \* services whose task does outside a try what may raise
    HealthService,  \* the one that serves and records the health status
    LastKind,       \* kind whose handlers publish nothing
    MaxFollowUps,   \* bound: events the handlers of one event publish
    MaxEvents       \* bound: events the tasks publish

ServiceSet == {Services[i] : i \in DOMAIN Services}
Kinds == 0 .. LastKind

ASSUME LifecycleAssumption ==
    /\ Services \in Seq(ServiceSet)
    /\ Bus \notin ServiceSet /\ Runner \notin ServiceSet /\ Bus # Runner
    /\ Nobody \notin ServiceSet \cup {Bus, Runner}
    /\ Subscribers \in [Kinds -> SUBSET ServiceSet]
    /\ Publishers \subseteq ServiceSet /\ PortBinders \subseteq ServiceSet
    /\ HealthService \in ServiceSet /\ Fragile \subseteq ServiceSet
    /\ LastKind \in Nat /\ MaxFollowUps \in Nat /\ MaxEvents \in Nat
    /\ KindOf \in [Publishers -> Kinds]

VARIABLES
    phase,          \* of RuntimeRunner.run
    failed,         \* it ended with an exception
    stopRequested,  \* RuntimeRunner.stop_event
    loop,           \* who has the event loop
    prepared,       \* how many services are prepared
    serving,        \* BaseService.running of each service
    subscribed,     \* services whose callbacks are in EventBus.subscribers
    task,           \* state of each task
    calls,          \* services with a call in a thread of the executor
    listening,      \* the health server accepts requests
    queue,          \* EventBus.queue
    published,      \* history: the events published
    received        \* history: the events each service was called with

runner == <<phase, failed, prepared, serving, subscribed, listening>>
events == <<queue, published, received>>
vars == <<runner, stopRequested, loop, task, calls, events>>

Tasks == ServiceSet \cup {Bus}
Live == {"waiting", "cancelling"}
Over == {"none", "failed", "cancelled"}
Event == [kind : Kinds, by : {"task", "handler"}, number : Nat]
NumberedEvent(kind, by, n) == [kind |-> kind, by |-> by, number |-> n]
NewEvent(kind, by) == NumberedEvent(kind, by, Len(published) + 1)

Init ==
    /\ phase = "built" /\ failed = FALSE /\ stopRequested = FALSE
    /\ loop = Runner
    /\ prepared = 0
    /\ serving = [s \in ServiceSet |-> FALSE]
    /\ subscribed = {}
    /\ task = [t \in Tasks |-> "none"]
    /\ calls = {}
    /\ listening = FALSE
    /\ queue = << >> /\ published = << >>
    /\ received = [s \in ServiceSet |-> << >>]

-----------------------------------------------------------------------------
(* Starting                                                                *)

\* A signal handler only sets the stop event.
Signal ==
    /\ phase # "ended"
    /\ stopRequested' = TRUE
    /\ UNCHANGED <<runner, loop, task, calls, events>>

\* Orchestrator.start creates the task of the bus.
Start ==
    /\ phase = "built"
    /\ phase' = "starting"
    /\ task' = [task EXCEPT ![Bus] = "waiting"]
    /\ UNCHANGED <<failed, prepared, serving, subscribed, listening,
                   stopRequested, loop, calls, events>>

\* Mistake: each service is started as it is prepared, and others get the loop.
Prepare_Run(s) ==
    /\ phase = "starting" /\ prepared < Len(Services) /\ s = Services[prepared + 1]
    /\ prepared' = prepared + 1
    /\ serving' = [serving EXCEPT ![s] = TRUE]
    /\ subscribed' = subscribed \cup {s}
    /\ listening' = (listening \/ s = HealthService)
    /\ task' = [task EXCEPT ![s] = "waiting"]
    /\ loop' = Nobody
    /\ UNCHANGED <<phase, failed, stopRequested, calls, events>>

\* The next service is marked as running and subscribes in its on_start.
Prepare(s) ==
    /\ phase = "starting" /\ prepared < Len(Services) /\ s = Services[prepared + 1]
    /\ prepared' = prepared + 1
    /\ serving' = [serving EXCEPT ![s] = TRUE]
    /\ subscribed' = subscribed \cup {s}
    /\ listening' = (listening \/ s = HealthService)
    /\ UNCHANGED <<phase, failed, stopRequested, loop, task, calls, events>>

\* Its port is in use: the exception ends run, no service is stopped, and
\* asyncio.run cancels what tasks there are.
PrepareFails(s) ==
    /\ phase = "starting" /\ prepared < Len(Services) /\ s = Services[prepared + 1]
    /\ s \in PortBinders
    /\ phase' = "stopping" /\ failed' = TRUE
    /\ serving' = [serving EXCEPT ![s] = TRUE]
    /\ task' = [task EXCEPT ![Bus] = "cancelling"]
    /\ loop' = Nobody
    /\ UNCHANGED <<prepared, subscribed, listening, stopRequested, calls, events>>

\* Mistake: the runner waits for the signal without giving up the loop.
Launch_KeepsLoop ==
    /\ phase = "starting" /\ prepared = Len(Services)
    /\ phase' = "running"
    /\ task' = [t \in Tasks |-> "waiting"]
    /\ UNCHANGED <<failed, prepared, serving, subscribed, listening,
                   stopRequested, loop, calls, events>>

\* All are prepared: their tasks are created, and the runner waits.
Launch ==
    /\ phase = "starting" /\ prepared = Len(Services)
    /\ phase' = "running"
    /\ task' = [t \in Tasks |-> "waiting"]
    /\ loop' = Nobody
    /\ UNCHANGED <<failed, prepared, serving, subscribed, listening,
                   stopRequested, calls, events>>

-----------------------------------------------------------------------------
(* The tasks of the services                                               *)

MayRun(t) == loop = Nobody /\ task[t] = "waiting"

\* A task starts a fetch in a thread and waits for it.
StartCall(s) ==
    /\ MayRun(s) /\ s \in Publishers \ calls
    /\ calls' = calls \cup {s}
    /\ UNCHANGED <<runner, stopRequested, loop, task, events>>

\* The thread is done; a task that still waits may publish what it brought.
CallReturns(s) ==
    /\ s \in calls
    /\ calls' = calls \ {s}
    /\ \/ UNCHANGED events
       \/ /\ MayRun(s)
          /\ Cardinality({i \in DOMAIN published : published[i].by = "task"}) < MaxEvents
          /\ queue' = Append(queue, NewEvent(KindOf[s], "task"))
          /\ published' = Append(published, NewEvent(KindOf[s], "task"))
          /\ UNCHANGED received
    /\ UNCHANGED <<runner, stopRequested, loop, task>>

\* The loop of a service raises, as when the database refuses a health snapshot:
\* the exception ends the task, which is logged; the service stays marked as
\* running, its callbacks are still called and nothing restarts it.
TaskFails(s) ==
    /\ MayRun(s) /\ s \in Fragile
    /\ task' = [task EXCEPT ![s] = "failed"]
    /\ UNCHANGED <<runner, stopRequested, loop, calls, events>>

-----------------------------------------------------------------------------
(* The bus                                                                 *)

\* The services called with an event, and what they may publish: a request per
\* signal, a report, an event per breach.
Called(event) == Subscribers[event.kind] \cap subscribed
FollowUps(event) ==
    LET most == IF event.kind < LastKind /\ Called(event) # {} THEN MaxFollowUps ELSE 0
    IN  {[i \in 1 .. n |-> NumberedEvent(event.kind + 1, "handler", Len(published) + i)] :
            n \in 0 .. most}

\* Mistake: an exception of one callback keeps the event from the others.
Deliver_NotCaught ==
    /\ loop \in {Nobody, Bus} /\ task[Bus] = "waiting" /\ queue # << >>
    /\ \E more \in FollowUps(Head(queue)), reached \in SUBSET Called(Head(queue)) :
         /\ received' = [s \in ServiceSet |->
                          IF s \in reached THEN Append(received[s], Head(queue))
                          ELSE received[s]]
         /\ queue' = Tail(queue) \o more
         /\ published' = published \o more
    /\ loop' = IF queue' = << >> THEN Nobody ELSE Bus
    /\ UNCHANGED <<runner, stopRequested, task, calls>>

\* Mistake: the bus waits after every event, as if it slept.
Deliver_Yields ==
    /\ loop \in {Nobody, Bus} /\ task[Bus] = "waiting" /\ queue # << >>
    /\ \E more \in FollowUps(Head(queue)) :
         /\ received' = [s \in ServiceSet |->
                          IF s \in Called(Head(queue))
                          THEN Append(received[s], Head(queue)) ELSE received[s]]
         /\ queue' = Tail(queue) \o more
         /\ published' = published \o more
    /\ loop' = Nobody
    /\ UNCHANGED <<runner, stopRequested, task, calls>>

\* The bus takes an event and calls every subscriber, whatever any of them
\* raises.  It waits when the queue is empty.
Deliver ==
    /\ loop \in {Nobody, Bus} /\ task[Bus] = "waiting" /\ queue # << >>
    /\ \E more \in FollowUps(Head(queue)) :
         /\ received' = [s \in ServiceSet |->
                          IF s \in Called(Head(queue))
                          THEN Append(received[s], Head(queue)) ELSE received[s]]
         /\ queue' = Tail(queue) \o more
         /\ published' = published \o more
    /\ loop' = IF queue' = << >> THEN Nobody ELSE Bus
    /\ UNCHANGED <<runner, stopRequested, task, calls>>

-----------------------------------------------------------------------------
(* Stopping                                                                *)

\* Mistake: only the services are stopped, the tasks are left to see it.
Stop_TasksLeft ==
    /\ phase = "running" /\ stopRequested /\ loop = Nobody
    /\ phase' = "stopping"
    /\ serving' = [s \in ServiceSet |-> FALSE]
    /\ listening' = FALSE
    /\ UNCHANGED <<failed, prepared, subscribed, stopRequested, loop, task,
                   calls, events>>

\* Orchestrator.stop: every service is stopped, the health server with its
\* service, then every task that is not over is cancelled.  It does not wait
\* in between, so the sentinel it queues for the bus is never taken.
Stop ==
    /\ phase = "running" /\ stopRequested /\ loop = Nobody
    /\ phase' = "stopping"
    /\ serving' = [s \in ServiceSet |-> FALSE]
    /\ listening' = FALSE
    /\ task' = [t \in Tasks |-> IF task[t] = "waiting" THEN "cancelling" ELSE task[t]]
    /\ UNCHANGED <<failed, prepared, subscribed, stopRequested, loop, calls, events>>

\* The cancellation reaches a task where it waits.
Cancelled(t) ==
    /\ task[t] = "cancelling" /\ loop = Nobody
    /\ task' = [task EXCEPT ![t] = "cancelled"]
    /\ UNCHANGED <<runner, stopRequested, loop, calls, events>>

\* The tasks are over; asyncio.run waits for the threads of the executor.
End ==
    /\ phase = "stopping" /\ \A t \in Tasks : task[t] \in Over
    /\ calls = {}
    /\ phase' = "ended"
    /\ UNCHANGED <<failed, prepared, serving, subscribed, listening,
                   stopRequested, loop, task, calls, events>>

Next ==
    \/ Signal \/ Start \/ Launch
    \/ \E s \in ServiceSet : \/ Prepare(s) \/ PrepareFails(s)
                             \/ StartCall(s) \/ CallReturns(s) \/ TaskFails(s)
    \/ Deliver
    \/ Stop \/ \E t \in Tasks : Cancelled(t)
    \/ End

Spec == Init /\ [][Next]_vars

\* The event loop goes on with what is ready, and threads return.
Fairness ==
    /\ WF_vars(Start \/ Launch \/ \E s \in ServiceSet : Prepare(s) \/ PrepareFails(s))
    /\ WF_vars(Deliver)
    /\ SF_vars(Stop)
    /\ \A t \in Tasks : WF_vars(Cancelled(t))
    /\ \A s \in ServiceSet : WF_vars(CallReturns(s))
    /\ WF_vars(End)

FairSpec == Spec /\ Fairness

-----------------------------------------------------------------------------

\* The types of the variables.
TypeOK ==
    /\ phase \in {"built", "starting", "running", "stopping", "ended"}
    /\ failed \in BOOLEAN /\ stopRequested \in BOOLEAN
    /\ loop \in {Nobody, Runner, Bus}
    /\ loop = Runner <=> phase \in {"built", "starting"}
    /\ prepared \in 0 .. Len(Services)
    /\ serving \in [ServiceSet -> BOOLEAN]
    /\ subscribed \subseteq ServiceSet
    /\ task \in [Tasks -> Live \cup Over]
    /\ calls \subseteq Publishers
    /\ listening \in BOOLEAN
    /\ queue \in Seq(Event) /\ published \in Seq(Event)
    /\ received \in [ServiceSet -> Seq(Event)]

\* The numbers of the events that left the queue.
Past == 1 .. Len(published) - Len(queue)

\* Each service has been called once with every event that it handles and that
\* left the queue, in the order of publication: none came before it subscribed
\* and no exception of another callback kept one from it
\* (orchestrator.py:25-37, event_bus.py:28-64).
HandledInOrder ==
    \A s \in ServiceSet :
        LET got == received[s]
        IN  /\ \A i \in DOMAIN got :
                  /\ got[i].number \in Past /\ got[i] = published[got[i].number]
                  /\ s \in Subscribers[got[i].kind]
            /\ \A i, j \in DOMAIN got : i < j => got[i].number < got[j].number
            /\ \A n \in Past : s \in Subscribers[published[n].kind] =>
                  \E i \in DOMAIN got : got[i] = published[n]

\* What a handler published is handled before the process stops: an order that
\* was requested is executed and its report reaches the risk service, for a
\* stop finds only events of the tasks in the queue (event_bus.py:38-64,
\* orchestrator.py:44-54).
FollowUpsHandled ==
    phase \in {"stopping", "ended"} =>
        \A i \in DOMAIN queue : queue[i].by = "task"

\* Once the stop began no service is called any more, so no order is sent
\* (orchestrator.py:44-54, task_supervisor.py:53-61).
QuietAfterStop == [][(phase = "stopping" \/ phase = "ended") => UNCHANGED received]_vars

\* A requested stop ends the process, whatever fetches run and events wait, and
\* so does a service that cannot be started (runtime_runner.py:28-37).
StopEnds == (stopRequested \/ failed) ~> phase = "ended"
=============================================================================
