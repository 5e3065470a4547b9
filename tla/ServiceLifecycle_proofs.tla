----------------------- MODULE ServiceLifecycle_proofs -----------------------
(***************************************************************************)
(* Proofs about ServiceLifecycle, for any services, subscribers and number *)
(* of events.                                                              *)
(***************************************************************************)
EXTENDS ServiceLifecycle, TLAPS

\* While the bus does not have the loop, all that is queued came from tasks.
TurnsEnd == loop # Bus => \A i \in DOMAIN queue : queue[i].by = "task"

\* The services' tasks are created after the last service is prepared.
NotLaunched ==
    phase \in {"built", "starting"} => \A s \in ServiceSet : task[s] = "none"

\* From the stop on no task waits for anything but its cancellation.
Stopped ==
    phase \in {"stopping", "ended"} =>
        /\ loop = Nobody
        /\ \A t \in Tasks : task[t] # "waiting"

-----------------------------------------------------------------------------
(* Type correctness                                                        *)

LEMMA Names ==
    /\ Bus \notin ServiceSet /\ Nobody # Bus /\ Nobody # Runner /\ Bus # Runner
    /\ LastKind \in Nat /\ MaxFollowUps \in Nat /\ Len(Services) \in Nat
    /\ KindOf \in [Publishers -> Kinds]
BY LifecycleAssumption

LEMMA NewEventType ==
    ASSUME published \in Seq(Event), NEW kind \in Kinds,
           NEW by \in {"task", "handler"}
    PROVE  NewEvent(kind, by) \in Event /\ NewEvent(kind, by).by = by
<1>1. Len(published) + 1 \in Nat
  OBVIOUS
<1> QED BY <1>1 DEF NewEvent, NumberedEvent, Event

\* Follow-ups are events, numbered on from the last one published.
LEMMA FollowUpsType ==
    ASSUME published \in Seq(Event), NEW event \in Event,
           NEW more \in FollowUps(event)
    PROVE  /\ more \in Seq(Event)
           /\ \A i \in 1 .. Len(more) : more[i].number = Len(published) + i
<1> DEFINE follow(i) == NumberedEvent(event.kind + 1, "handler", Len(published) + i)
<1>1. PICK n \in 0 .. (IF event.kind < LastKind /\ Called(event) # {}
                       THEN MaxFollowUps ELSE 0) :
        more = [i \in 1 .. n |-> follow(i)]
  BY DEF FollowUps
<1>2. n \in Nat
  BY Names
<1>3. ASSUME NEW i \in 1 .. n
      PROVE  follow(i) \in Event
  <2>1. event.kind < LastKind
    BY <1>1, <1>2, <1>3, Names
  <2>2. event.kind + 1 \in Kinds
    BY <2>1, Names DEF Event, Kinds
  <2>3. Len(published) + i \in Nat
    BY <1>2, <1>3
  <2> QED BY <2>2, <2>3 DEF NumberedEvent, Event
<1>4. \A i \in 1 .. n : follow(i).number = Len(published) + i
  BY DEF NumberedEvent
<1> HIDE DEF follow
<1>5. more \in Seq(Event) /\ Len(more) = n
  BY <1>1, <1>2, <1>3
<1> QED BY <1>1, <1>4, <1>5

LEMMA TypeInit == Init => TypeOK
<1> SUFFICES ASSUME Init
             PROVE  TypeOK
  OBVIOUS
<1>1. /\ queue \in Seq(Event) /\ published \in Seq(Event)
      /\ received \in [ServiceSet -> Seq(Event)]
  BY DEF Init
<1>2. /\ phase = "built" /\ loop = Runner
      /\ prepared \in 0 .. Len(Services)
  BY Names DEF Init
<1>3. /\ serving \in [ServiceSet -> BOOLEAN]
      /\ task \in [Tasks -> Live \cup Over]
  BY DEF Init, Over
<1>4. failed \in BOOLEAN /\ stopRequested \in BOOLEAN /\ listening \in BOOLEAN
  BY DEF Init
<1> QED BY <1>1, <1>2, <1>3, <1>4 DEF Init, TypeOK

LEMMA TypeStep == TypeOK /\ [Next]_vars => TypeOK'
<1> SUFFICES ASSUME TypeOK, [Next]_vars
             PROVE  TypeOK'
  OBVIOUS
<1> USE Names DEF TypeOK, runner, events, Live, Over
<1>1. CASE Signal
  BY <1>1 DEF Signal
<1>2. CASE Start
  BY <1>2 DEF Start, Tasks
<1>3. CASE Launch
  BY <1>3 DEF Launch
<1>4. ASSUME NEW s \in ServiceSet, Prepare(s)
      PROVE  TypeOK'
  <2>1. /\ prepared' \in 0 .. Len(Services)
        /\ serving' \in [ServiceSet -> BOOLEAN]
        /\ subscribed' \subseteq ServiceSet
        /\ listening' \in BOOLEAN
    BY <1>4 DEF Prepare
  <2> QED BY <1>4, <2>1 DEF Prepare
<1>5. ASSUME NEW s \in ServiceSet, PrepareFails(s)
      PROVE  TypeOK'
  BY <1>5 DEF PrepareFails, Tasks
<1>6. ASSUME NEW s \in ServiceSet, StartCall(s)
      PROVE  TypeOK'
  BY <1>6 DEF StartCall
<1>7. ASSUME NEW s \in ServiceSet, CallReturns(s)
      PROVE  TypeOK'
  <2>1. calls' \subseteq Publishers /\ UNCHANGED <<runner, stopRequested, loop, task>>
    BY <1>7 DEF CallReturns
  <2>2. CASE UNCHANGED events
    BY <2>1, <2>2
  <2>3. CASE ~UNCHANGED events
    <3> DEFINE event == NewEvent(KindOf[s], "task")
    <3>1. /\ queue' = Append(queue, event) /\ published' = Append(published, event)
          /\ UNCHANGED received
      BY <1>7, <2>3 DEF CallReturns
    <3>2. KindOf[s] \in Kinds
      BY <1>7 DEF CallReturns
    <3>3. event \in Event
      BY <3>2, NewEventType
    <3> HIDE DEF event
    <3>4. queue' \in Seq(Event) /\ published' \in Seq(Event)
      BY <3>1, <3>3
    <3> QED BY <2>1, <3>1, <3>4
  <2> QED BY <2>2, <2>3
<1>8. ASSUME NEW s \in ServiceSet, TaskFails(s)
      PROVE  TypeOK'
  BY <1>8 DEF TaskFails, MayRun, Tasks
<1>9. CASE Deliver
  <2> DEFINE event == Head(queue)
  <2>1. event \in Event /\ Tail(queue) \in Seq(Event)
    BY <1>9 DEF Deliver
  <2>2. PICK more \in FollowUps(event) :
          /\ received' = [s \in ServiceSet |->
                           IF s \in Called(event) THEN Append(received[s], event)
                           ELSE received[s]]
          /\ queue' = Tail(queue) \o more
          /\ published' = published \o more
    BY <1>9 DEF Deliver
  <2>3. more \in Seq(Event)
    BY <2>1, FollowUpsType
  <2>4. queue' \in Seq(Event) /\ published' \in Seq(Event)
    BY <2>1, <2>2, <2>3
  <2>5. received' \in [ServiceSet -> Seq(Event)]
    <3> HIDE DEF event
    <3>1. \A s \in ServiceSet : Append(received[s], event) \in Seq(Event)
      BY <2>1
    <3> QED BY <2>2, <3>1
  <2>6. /\ loop' \in {Nobody, Bus}
        /\ loop \in {Nobody, Bus}
        /\ UNCHANGED <<runner, stopRequested, task, calls>>
    BY <1>9 DEF Deliver
  <2> QED BY <2>4, <2>5, <2>6
<1>10. CASE Stop
  BY <1>10 DEF Stop
<1>11. ASSUME NEW t \in Tasks, Cancelled(t)
       PROVE  TypeOK'
  BY <1>11 DEF Cancelled
<1>12. CASE End
  BY <1>12 DEF End
<1>13. CASE UNCHANGED vars
  BY <1>13 DEF vars
<1> QED BY <1>1, <1>2, <1>3, <1>4, <1>5, <1>6, <1>7, <1>8, <1>9, <1>10,
           <1>11, <1>12, <1>13 DEF Next

\* Every variable keeps its type, and the runner has the event loop until the
\* services are launched and never again (orchestrator.py:19-42).
THEOREM LifecycleTyped == Spec => []TypeOK
<1> QED BY TypeInit, TypeStep, PTL DEF Spec

-----------------------------------------------------------------------------
(* The turns of the bus                                                    *)

LEMMA TurnStep == TypeOK /\ TurnsEnd /\ [Next]_vars => TurnsEnd'
<1> SUFFICES ASSUME TypeOK, TurnsEnd, [Next]_vars
             PROVE  TurnsEnd'
  OBVIOUS
<1> USE Names DEF TurnsEnd, runner, events
<1>1. ASSUME UNCHANGED queue, loop # Bus
      PROVE  TurnsEnd'
  BY <1>1
<1>2. CASE Signal \/ Start \/ Launch \/ Stop \/ End \/ UNCHANGED vars
  BY <1>2 DEF TypeOK, Signal, Start, Launch, Stop, End, vars
<1>3. ASSUME NEW s \in ServiceSet,
             Prepare(s) \/ PrepareFails(s) \/ StartCall(s) \/ TaskFails(s)
      PROVE  TurnsEnd'
  BY <1>3 DEF TypeOK, Prepare, PrepareFails, StartCall, TaskFails, MayRun
<1>4. ASSUME NEW s \in ServiceSet, CallReturns(s)
      PROVE  TurnsEnd'
  <2>1. CASE UNCHANGED events
    BY <1>4, <2>1 DEF CallReturns
  <2>2. CASE ~UNCHANGED events
    <3> DEFINE event == NewEvent(KindOf[s], "task")
    <3>1. queue' = Append(queue, event) /\ loop = Nobody
      BY <1>4, <2>2 DEF CallReturns, MayRun
    <3>2. event.by = "task"
      BY DEF NewEvent, NumberedEvent
    <3>3. queue \in Seq(Event)
      BY DEF TypeOK
    <3> HIDE DEF event
    <3>4. \A i \in DOMAIN queue' : queue'[i] = event \/ (i \in DOMAIN queue /\ queue'[i] = queue[i])
      BY <3>1, <3>3
    <3> QED BY <3>1, <3>2, <3>4
  <2> QED BY <2>1, <2>2
<1>5. CASE Deliver
  <2>1. CASE queue' = << >>
    BY <2>1
  <2>2. CASE queue' # << >>
    BY <1>5, <2>2 DEF Deliver
  <2> QED BY <2>1, <2>2
<1>6. ASSUME NEW t \in Tasks, Cancelled(t)
      PROVE  TurnsEnd'
  BY <1>6 DEF Cancelled
<1> QED BY <1>2, <1>3, <1>4, <1>5, <1>6 DEF Next

LEMMA StopStep ==
    TypeOK /\ NotLaunched /\ Stopped /\ [Next]_vars => NotLaunched' /\ Stopped'
<1> SUFFICES ASSUME TypeOK, NotLaunched, Stopped, [Next]_vars
             PROVE  NotLaunched' /\ Stopped'
  OBVIOUS
<1> USE Names DEF TypeOK, NotLaunched, Stopped, runner, events, Tasks
<1>1. CASE Signal \/ Stop \/ End \/ UNCHANGED vars
  BY <1>1 DEF Signal, Stop, End, vars
<1>2. CASE Start \/ Launch
  BY <1>2 DEF Start, Launch
<1>3. ASSUME NEW s \in ServiceSet, Prepare(s) \/ PrepareFails(s)
      PROVE  NotLaunched' /\ Stopped'
  BY <1>3 DEF Prepare, PrepareFails
<1>4. ASSUME NEW s \in ServiceSet, StartCall(s) \/ CallReturns(s)
      PROVE  NotLaunched' /\ Stopped'
  BY <1>4 DEF StartCall, CallReturns
<1>5. ASSUME NEW s \in ServiceSet, TaskFails(s)
      PROVE  NotLaunched' /\ Stopped'
  BY <1>5 DEF TaskFails, MayRun
<1>6. CASE Deliver
  BY <1>6 DEF Deliver
<1>7. ASSUME NEW t \in Tasks, Cancelled(t)
      PROVE  NotLaunched' /\ Stopped'
  BY <1>7 DEF Cancelled
<1> QED BY <1>1, <1>2, <1>3, <1>4, <1>5, <1>6, <1>7 DEF Next

LEMMA StopInv == Spec => [](NotLaunched /\ Stopped)
<1>1. Init => NotLaunched /\ Stopped
  BY DEF Init, NotLaunched, Stopped, Tasks
<1>2. TypeOK /\ (NotLaunched /\ Stopped) /\ [Next]_vars => (NotLaunched /\ Stopped)'
  BY StopStep
<1> QED BY <1>1, <1>2, LifecycleTyped, PTL DEF Spec

\* A stop finds only events of tasks in the queue, so no chain from an order
\* book to a report and a breach is cut short (event_bus.py:38-64,
\* orchestrator.py:44-54).
THEOREM ChainsComplete == Spec => []FollowUpsHandled
<1>1. Init => TurnsEnd
  BY DEF Init, TurnsEnd
<1>2. TypeOK /\ TurnsEnd /\ [Next]_vars => TurnsEnd'
  BY TurnStep
<1>3. TurnsEnd /\ Stopped => FollowUpsHandled
  BY Names DEF TurnsEnd, Stopped, FollowUpsHandled
<1> QED BY <1>1, <1>2, <1>3, LifecycleTyped, StopInv, PTL DEF Spec

\* No service is called once the stop began, whatever is queued
\* (orchestrator.py:44-54, task_supervisor.py:53-61).
THEOREM NothingAfterStop == Spec => QuietAfterStop
<1>1. TypeOK /\ Stopped /\ [Next]_vars
        => [(phase = "stopping" \/ phase = "ended") => UNCHANGED received]_vars
  <2> SUFFICES ASSUME TypeOK, Stopped, Next,
                      phase = "stopping" \/ phase = "ended"
               PROVE  UNCHANGED received
    OBVIOUS
  <2> USE DEF TypeOK, Stopped, runner, events, Tasks
  <2>1. ~Deliver
    BY DEF Deliver
  <2>2. ASSUME NEW s \in ServiceSet,
               \/ Prepare(s) \/ PrepareFails(s) \/ StartCall(s) \/ CallReturns(s)
               \/ TaskFails(s)
        PROVE  UNCHANGED received
    BY <2>2 DEF Prepare, PrepareFails, StartCall, CallReturns, TaskFails, MayRun
  <2>3. ASSUME NEW t \in Tasks, Cancelled(t)
        PROVE  UNCHANGED received
    BY <2>3 DEF Cancelled
  <2>4. CASE Signal \/ Start \/ Launch \/ Stop \/ End
    BY <2>4 DEF Signal, Start, Launch, Stop, End
  <2> QED BY <2>1, <2>2, <2>3, <2>4 DEF Next
<1> QED BY <1>1, LifecycleTyped, StopInv, PTL DEF Spec, QuietAfterStop

-----------------------------------------------------------------------------
(* The order of the events                                                 *)

\* Events are numbered as they are published, and the queue holds the last of
\* them.
Numbered ==
    /\ \A i \in 1 .. Len(published) : published[i].number = i
    /\ Len(queue) <= Len(published)
    /\ \A i \in 1 .. Len(queue) :
          queue[i] = published[Len(published) - Len(queue) + i]

\* The services prepared have subscribed, and all of them when the bus runs.
AllSubscribed ==
    /\ \A i \in 1 .. prepared : Services[i] \in subscribed
    /\ phase = "running" => prepared = Len(Services)

\* More events, numbered on.
Published(more) ==
    /\ more \in Seq(Event)
    /\ \A i \in 1 .. Len(more) : more[i].number = Len(published) + i
    /\ published' = published \o more

Calls(event) ==
    received' = [s \in ServiceSet |-> IF s \in Subscribers[event.kind]
                                      THEN Append(received[s], event)
                                      ELSE received[s]]

\* What a step does to the events: nothing, or a task publishes some, or the bus
\* takes the oldest, calls its subscribers and they may publish some.
LEMMA EventsMove ==
    ASSUME TypeOK, Stopped, AllSubscribed, [Next]_vars
    PROVE  \/ UNCHANGED events
           \/ /\ received' = received
              /\ \E more : Published(more) /\ queue' = queue \o more
           \/ /\ queue # << >> /\ Calls(Head(queue))
              /\ \E more : Published(more) /\ queue' = Tail(queue) \o more
<1> USE DEF runner, events
<1>1. CASE UNCHANGED events
  BY <1>1
<1>2. ASSUME NEW s \in ServiceSet, CallReturns(s), ~UNCHANGED events
      PROVE  /\ received' = received
             /\ \E more : Published(more) /\ queue' = queue \o more
  <2> DEFINE e == NewEvent(KindOf[s], "task")
  <2>1. /\ received' = received /\ published' = Append(published, e)
        /\ queue' = Append(queue, e)
    BY <1>2 DEF CallReturns
  <2>2. queue \in Seq(Event) /\ published \in Seq(Event)
    BY DEF TypeOK
  <2>3. KindOf[s] \in Kinds
    BY <1>2, Names DEF CallReturns, TypeOK
  <2>4. e \in Event /\ e.number = Len(published) + 1
    BY <2>2, <2>3, NewEventType DEF NewEvent, NumberedEvent
  <2> HIDE DEF e
  <2>5. <<e>> \in Seq(Event) /\ \A i \in 1 .. Len(<<e>>) : <<e>>[i].number = Len(published) + i
    BY <2>4
  <2>6. queue' = queue \o <<e>> /\ published' = published \o <<e>>
    <3>1. \A q \in Seq(Event) : Append(q, e) = q \o <<e>>
      BY <2>4
    <3> QED BY <2>1, <2>2, <3>1
  <2> QED BY <2>1, <2>5, <2>6 DEF Published
<1>3. ASSUME Deliver
      PROVE  /\ queue # << >> /\ Calls(Head(queue))
             /\ \E more : Published(more) /\ queue' = Tail(queue) \o more
  <2> DEFINE event == Head(queue)
  <2>1. queue # << >> /\ task[Bus] = "waiting" /\ loop # Runner
    BY <1>3, Names DEF Deliver
  <2>2. event \in Event /\ published \in Seq(Event)
    BY <2>1 DEF TypeOK
  <2>3. subscribed = ServiceSet
    <3>1. phase = "running"
      BY <2>1 DEF TypeOK, Stopped, Tasks
    <3>2. \A i \in 1 .. Len(Services) : Services[i] \in subscribed
      BY <3>1 DEF AllSubscribed
    <3>3. DOMAIN Services = 1 .. Len(Services)
      BY LifecycleAssumption
    <3> QED BY <3>2, <3>3 DEF TypeOK, ServiceSet
  <2>4. Called(event) = Subscribers[event.kind]
    BY <2>2, <2>3, LifecycleAssumption DEF Called, Event
  <2> HIDE DEF event
  <2>5. PICK more \in FollowUps(event) :
          /\ received' = [s \in ServiceSet |->
                           IF s \in Called(event) THEN Append(received[s], event)
                           ELSE received[s]]
          /\ queue' = Tail(queue) \o more
          /\ published' = published \o more
    BY <1>3 DEF Deliver, event
  <2>6. Calls(event)
    BY <2>4, <2>5 DEF Calls
  <2>7. Published(more)
    BY <2>2, <2>5, FollowUpsType DEF Published
  <2> QED BY <2>1, <2>5, <2>6, <2>7 DEF event
<1>4. CASE Signal \/ Start \/ Launch \/ Stop \/ End \/ UNCHANGED vars
  BY <1>4 DEF Signal, Start, Launch, Stop, End, vars
<1>5. ASSUME NEW s \in ServiceSet,
             Prepare(s) \/ PrepareFails(s) \/ StartCall(s) \/ TaskFails(s)
      PROVE  UNCHANGED events
  BY <1>5 DEF Prepare, PrepareFails, StartCall, TaskFails, MayRun
<1>6. ASSUME NEW t \in Tasks, Cancelled(t)
      PROVE  UNCHANGED events
  BY <1>6 DEF Cancelled
<1> QED BY <1>1, <1>2, <1>3, <1>4, <1>5, <1>6 DEF Next

\* Launching waits until all are prepared, and nobody unsubscribes.
LEMMA SubscribedStep ==
    ASSUME TypeOK, AllSubscribed, [Next]_vars
    PROVE  AllSubscribed'
<1> USE DEF AllSubscribed, runner
<1>1. ASSUME UNCHANGED <<prepared, subscribed>>,
             phase' = "running" => phase = "running"
      PROVE  AllSubscribed'
  BY <1>1
<1>2. CASE Signal \/ Start \/ Deliver \/ Stop \/ End \/ UNCHANGED vars
  BY <1>1, <1>2 DEF Signal, Start, Deliver, Stop, End, vars
<1>3. CASE Launch
  BY <1>3 DEF Launch
<1>4. ASSUME NEW s \in ServiceSet, Prepare(s)
      PROVE  AllSubscribed'
  <2>1. /\ prepared \in Nat /\ prepared' = prepared + 1
        /\ subscribed' = subscribed \cup {Services[prepared + 1]}
        /\ phase' = "starting"
    BY <1>4, Names DEF Prepare, TypeOK
  <2>2. \A i \in 1 .. prepared' : i \in 1 .. prepared \/ i = prepared + 1
    BY <2>1
  <2> QED BY <2>1, <2>2
<1>5. ASSUME NEW s \in ServiceSet,
             PrepareFails(s) \/ StartCall(s) \/ CallReturns(s) \/ TaskFails(s)
      PROVE  AllSubscribed'
  BY <1>1, <1>5 DEF PrepareFails, StartCall, CallReturns, TaskFails, MayRun
<1>6. ASSUME NEW t \in Tasks, Cancelled(t)
      PROVE  AllSubscribed'
  BY <1>1, <1>6 DEF Cancelled
<1> QED BY <1>2, <1>3, <1>4, <1>5, <1>6 DEF Next

\* Publishing changes no event published before, and numbers the new ones.
LEMMA PublishedKept ==
    ASSUME published \in Seq(Event), NEW more, Published(more)
    PROVE  /\ Len(more) \in Nat /\ Len(published') = Len(published) + Len(more)
           /\ \A i \in 1 .. Len(published) : published'[i] = published[i]
           /\ \A i \in 1 .. Len(more) : /\ published'[Len(published) + i] = more[i]
                                        /\ more[i].number = Len(published) + i
<1>1. more \in Seq(Event) /\ published' = published \o more
  BY DEF Published
<1> QED BY <1>1 DEF Published

\* A queue that holds the last events published still does with the new ones.
LEMMA QueueGrows ==
    ASSUME published \in Seq(Event), NEW rest \in Seq(Event), NEW more, Published(more),
           Len(rest) <= Len(published),
           \A i \in 1 .. Len(rest) : rest[i] = published[Len(published) - Len(rest) + i],
           queue' = rest \o more
    PROVE  /\ Len(queue') <= Len(published')
           /\ Len(published') - Len(queue') = Len(published) - Len(rest)
           /\ \A i \in 1 .. Len(queue') :
                 queue'[i] = published'[Len(published') - Len(queue') + i]
<1> DEFINE n == Len(published)
           k == Len(rest)
           m == Len(more)
<1>1. more \in Seq(Event) /\ n \in Nat /\ k \in Nat /\ m \in Nat /\ k <= n
  BY DEF Published
<1>2. /\ Len(published') = n + m
      /\ \A i \in 1 .. n : published'[i] = published[i]
      /\ \A i \in 1 .. m : published'[n + i] = more[i]
  BY PublishedKept
<1>3. /\ Len(queue') = k + m
      /\ \A i \in 1 .. k : queue'[i] = rest[i]
      /\ \A i \in 1 .. m : queue'[k + i] = more[i]
  BY <1>1
<1>4. \A i \in 1 .. k : rest[i] = published[n - k + i]
  OBVIOUS
<1> HIDE DEF n, k, m
<1>5. (n + m) - (k + m) = n - k /\ k + m <= n + m
  BY <1>1
<1>6. ASSUME NEW i \in 1 .. k + m
      PROVE  queue'[i] = published'[n - k + i]
  <2>1. CASE i \in 1 .. k
    <3>1. n - k + i \in 1 .. n
      BY <1>1, <2>1
    <3> QED BY <1>2, <1>3, <1>4, <2>1, <3>1
  <2>2. CASE i \notin 1 .. k
    <3>1. i - k \in 1 .. m /\ k + (i - k) = i /\ n + (i - k) = n - k + i
      BY <1>1, <2>2
    <3>2. queue'[k + (i - k)] = more[i - k] /\ published'[n + (i - k)] = more[i - k]
      BY <1>2, <1>3, <3>1
    <3> QED BY <3>1, <3>2
  <2> QED BY <2>1, <2>2
<1> QED BY <1>2, <1>3, <1>5, <1>6 DEF n, k

\* The events stay numbered, and the one the bus takes is the next one.
LEMMA NumberedStep ==
    ASSUME TypeOK, Stopped, AllSubscribed, Numbered, [Next]_vars
    PROVE  Numbered'
<1> DEFINE n == Len(published)
           k == Len(queue)
<1>1. queue \in Seq(Event) /\ published \in Seq(Event) /\ n \in Nat /\ k \in Nat
  BY DEF TypeOK
<1>2. /\ \A i \in 1 .. n : published[i].number = i
      /\ k <= n /\ \A i \in 1 .. k : queue[i] = published[n - k + i]
  BY DEF Numbered
<1>3. ASSUME NEW more, Published(more)
      PROVE  \A i \in 1 .. Len(published') : published'[i].number = i
  <2>1. /\ Len(more) \in Nat /\ Len(published') = n + Len(more)
        /\ \A i \in 1 .. n : published'[i] = published[i]
        /\ \A i \in 1 .. Len(more) : published'[n + i] = more[i] /\ more[i].number = n + i
    BY <1>1, <1>3, PublishedKept
  <2> HIDE DEF n
  <2>2. ASSUME NEW i \in 1 .. n + Len(more)
        PROVE  i \in 1 .. n \/ (i - n \in 1 .. Len(more) /\ n + (i - n) = i)
    BY <1>1, <2>1
  <2> QED BY <1>2, <2>1, <2>2
<1>4. CASE UNCHANGED events
  BY <1>4 DEF events, Numbered
<1>5. ASSUME NEW more, Published(more), queue' = queue \o more
      PROVE  Numbered'
  BY <1>1, <1>2, <1>3, <1>5, QueueGrows DEF Numbered
<1>6. ASSUME queue # << >>, NEW more, Published(more), queue' = Tail(queue) \o more
      PROVE  Numbered'
  <2>1. /\ Tail(queue) \in Seq(Event) /\ Len(Tail(queue)) = k - 1 /\ k >= 1
        /\ \A i \in 1 .. k - 1 : Tail(queue)[i] = queue[i + 1]
    BY <1>1, <1>6
  <2>2. ASSUME NEW i \in 1 .. k - 1
        PROVE  queue[i + 1] = published[n - (k - 1) + i]
    <3>1. i + 1 \in 1 .. k /\ n - k + (i + 1) = n - (k - 1) + i
      BY <1>1
    <3> QED BY <1>2, <3>1
  <2>3. \A i \in 1 .. Len(Tail(queue)) : Tail(queue)[i] = published[n - Len(Tail(queue)) + i]
    BY <2>1, <2>2
  <2>4. Len(Tail(queue)) <= n
    BY <1>1, <1>2, <2>1
  <2> QED BY <1>1, <1>3, <1>6, <2>1, <2>3, <2>4, QueueGrows DEF Numbered
<1> QED BY <1>4, <1>5, <1>6, EventsMove

\* What a service was called with, of the first h of all the events.
InOrder(s, got, all, h) ==
    /\ \A i \in DOMAIN got :
          /\ got[i].number \in 1 .. h /\ got[i] = all[got[i].number]
          /\ s \in Subscribers[got[i].kind]
    /\ \A i, j \in DOMAIN got : i < j => got[i].number < got[j].number
    /\ \A n \in 1 .. h : s \in Subscribers[all[n].kind] =>
          \E i \in DOMAIN got : got[i] = all[n]

\* HandledInOrder before and after a step, of one operator.
LEMMA HandledIsInOrder ==
    /\ HandledInOrder <=>
         \A s \in ServiceSet :
            InOrder(s, received[s], published, Len(published) - Len(queue))
    /\ HandledInOrder' <=>
         \A s \in ServiceSet :
            InOrder(s, received'[s], published', Len(published') - Len(queue'))
  BY DEF HandledInOrder, Past, InOrder

\* It does not depend on what is published later.
LEMMA InOrderKept ==
    ASSUME NEW s, NEW got \in Seq(Event), NEW old, NEW new, NEW h \in Nat,
           InOrder(s, got, old, h), \A i \in 1 .. h : new[i] = old[i]
    PROVE  InOrder(s, got, new, h)
  BY DEF InOrder

\* The next event comes last to a service that handles it, and to no other.
LEMMA NextReceived ==
    ASSUME NEW s, NEW got \in Seq(Event), NEW all, NEW h \in Nat,
           InOrder(s, got, all, h), NEW e, all[h + 1] = e, e.number = h + 1
    PROVE  InOrder(s, IF s \in Subscribers[e.kind] THEN Append(got, e) ELSE got,
                   all, h + 1)
<1>1. \A n \in 1 .. h + 1 : n \in 1 .. h \/ n = h + 1
  OBVIOUS
<1>2. 1 .. h \subseteq 1 .. h + 1 /\ h + 1 \in 1 .. h + 1
  OBVIOUS
<1>3. CASE s \notin Subscribers[e.kind]
  BY <1>1, <1>2, <1>3 DEF InOrder
<1>4. CASE s \in Subscribers[e.kind]
  <2> DEFINE more == Append(got, e)
             k == Len(got)
  <2>1. /\ k \in Nat /\ DOMAIN got = 1 .. k /\ DOMAIN more = 1 .. k + 1
        /\ more[k + 1] = e /\ \A i \in 1 .. k : more[i] = got[i]
    OBVIOUS
  <2> HIDE DEF more, k
  <2>2. \A i \in 1 .. k + 1 : i \in 1 .. k \/ i = k + 1
    BY <2>1
  <2>3. \A i \in 1 .. k : got[i].number \in 1 .. h
    BY <2>1 DEF InOrder
  <2>4. ASSUME NEW i \in 1 .. k + 1
        PROVE  /\ more[i].number \in 1 .. h + 1 /\ more[i] = all[more[i].number]
               /\ s \in Subscribers[more[i].kind]
    BY <1>2, <1>4, <2>1, <2>2 DEF InOrder
  <2>5. ASSUME NEW i \in 1 .. k + 1, NEW j \in 1 .. k + 1, i < j
        PROVE  more[i].number < more[j].number
    <3>1. i \in 1 .. k
      BY <2>1, <2>5
    <3>2. CASE j \in 1 .. k
      BY <2>1, <2>5, <3>1, <3>2 DEF InOrder
    <3>3. CASE j = k + 1
      <4>1. more[i].number \in 1 .. h /\ more[j].number = h + 1
        BY <2>1, <2>3, <3>1, <3>3
      <4> QED BY <4>1
    <3> QED BY <2>2, <3>2, <3>3
  <2>6. ASSUME NEW n \in 1 .. h + 1, s \in Subscribers[all[n].kind]
        PROVE  \E i \in 1 .. k + 1 : more[i] = all[n]
    <3>1. CASE n = h + 1
      <4>1. k + 1 \in 1 .. k + 1
        BY <2>1
      <4> QED BY <2>1, <3>1, <4>1
    <3>2. CASE n \in 1 .. h
      <4>1. PICK i \in 1 .. k : got[i] = all[n]
        BY <2>1, <2>6, <3>2 DEF InOrder
      <4>2. i \in 1 .. k + 1
        BY <2>1
      <4> QED BY <2>1, <4>1, <4>2
    <3> QED BY <1>1, <3>1, <3>2
  <2>7. InOrder(s, more, all, h + 1)
    BY <2>1, <2>4, <2>5, <2>6 DEF InOrder
  <2> QED BY <1>4, <2>7 DEF more
<1> QED BY <1>3, <1>4

\* Publishing leaves what was received in order, and so does a delivery.
LEMMA OrderStep ==
    ASSUME TypeOK, Stopped, AllSubscribed, Numbered, HandledInOrder, [Next]_vars
    PROVE  HandledInOrder'
<1> DEFINE h == Len(published) - Len(queue)
           h2 == Len(published') - Len(queue')
<1>1. /\ queue \in Seq(Event) /\ published \in Seq(Event)
      /\ \A s \in ServiceSet : received[s] \in Seq(Event)
      /\ Len(published) \in Nat /\ Len(queue) \in Nat
      /\ h \in Nat /\ h <= Len(published)
  BY DEF TypeOK, Numbered
<1>2. \A s \in ServiceSet : InOrder(s, received[s], published, h)
  BY HandledIsInOrder
<1>3. CASE UNCHANGED events
  BY <1>3 DEF events, HandledInOrder, Past
<1>4. ASSUME received' = received, NEW more, Published(more), queue' = queue \o more
      PROVE  HandledInOrder'
  <2>1. h2 = h
    BY <1>1, <1>4, QueueGrows DEF Numbered
  <2>2. \A i \in 1 .. h : published'[i] = published[i]
    <3>1. \A i \in 1 .. h : i \in 1 .. Len(published)
      BY <1>1
    <3> QED BY <1>1, <1>4, <3>1, PublishedKept
  <2> HIDE DEF h, h2
  <2>3. \A s \in ServiceSet : InOrder(s, received'[s], published', h2)
    BY <1>1, <1>2, <1>4, <2>1, <2>2, InOrderKept
  <2> QED BY <2>3, HandledIsInOrder DEF h2
<1>5. ASSUME queue # << >>, Calls(Head(queue)),
             NEW more, Published(more), queue' = Tail(queue) \o more
      PROVE  HandledInOrder'
  <2> DEFINE event == Head(queue)
             rest == Tail(queue)
  <2>1. h + 1 \in 1 .. Len(published) /\ event = published[h + 1]
    BY <1>1, <1>5 DEF Numbered
  <2>2. event.number = h + 1
    BY <2>1 DEF Numbered
  <2>3. /\ rest \in Seq(Event) /\ Len(rest) = Len(queue) - 1
        /\ \A i \in 1 .. Len(queue) - 1 : rest[i] = queue[i + 1]
    BY <1>1, <1>5
  <2>4. \A i \in 1 .. Len(rest) : rest[i] = published[Len(published) - Len(rest) + i]
    <3>1. ASSUME NEW i \in 1 .. Len(queue) - 1
          PROVE  queue[i + 1] = published[Len(published) - (Len(queue) - 1) + i]
      <4>1. /\ i + 1 \in 1 .. Len(queue)
            /\ Len(published) - Len(queue) + (i + 1) = Len(published) - (Len(queue) - 1) + i
        BY <1>1
      <4> QED BY <4>1 DEF Numbered
    <3> QED BY <2>3, <3>1
  <2>5. \A i \in 1 .. Len(published) : published'[i] = published[i]
    BY <1>1, <1>5, PublishedKept
  <2>6. h2 = h + 1
    <3> HIDE DEF rest
    <3>1. Len(rest) <= Len(published) /\ Len(published) - Len(rest) = h + 1
      BY <1>1, <2>3
    <3>2. queue' = rest \o more
      BY <1>5 DEF rest
    <3> QED BY <1>1, <1>5, <2>3, <2>4, <3>1, <3>2, QueueGrows
  <2>7. \A i \in 1 .. h : i \in 1 .. Len(published)
    BY <1>1
  <2>8. published'[h + 1] = event
    BY <2>1, <2>5
  <2> HIDE DEF event, h, h2
  <2>9. ASSUME NEW s \in ServiceSet
        PROVE  InOrder(s, received'[s], published', h2)
    <3>1. InOrder(s, received[s], published', h)
      BY <1>1, <1>2, <2>5, <2>7, InOrderKept
    <3>2. received'[s] = IF s \in Subscribers[event.kind]
                         THEN Append(received[s], event) ELSE received[s]
      BY <1>5 DEF Calls, event
    <3> QED BY <1>1, <2>2, <2>6, <2>8, <3>1, <3>2, NextReceived
  <2> QED BY <2>9, HandledIsInOrder DEF h2
<1> QED BY <1>3, <1>4, <1>5, EventsMove

\* Every service gets each event it handles once and in the order of
\* publication, whatever callbacks raise and whenever tasks publish or the
\* process stops (orchestrator.py:25-37, event_bus.py:28-64).
THEOREM EventsInOrder == Spec => []HandledInOrder
<1> DEFINE Inv == AllSubscribed /\ Numbered /\ HandledInOrder
<1>1. Init => Inv
  BY DEF Init, AllSubscribed, Numbered, HandledInOrder, Past
<1>2. TypeOK /\ Stopped /\ Inv /\ [Next]_vars => Inv'
  BY SubscribedStep, NumberedStep, OrderStep
<1>3. Inv => HandledInOrder
  OBVIOUS
<1> HIDE DEF Inv
<1> QED BY <1>1, <1>2, <1>3, LifecycleTyped, StopInv, PTL DEF Spec
=============================================================================
