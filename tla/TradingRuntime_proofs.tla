------------------------- MODULE TradingRuntime_proofs -------------------------
(***************************************************************************)
(* Proved of the live runtime for every value of the constants:            *)
(*   - the kill switch ends orders (KillSwitchStops);                      *)
(*   - every variable keeps its type (RuntimeTyped);                       *)
(*   - it implements the order pipeline (PipelineImplemented), so what is  *)
(*     proved of the pipeline holds in it (RuntimeBooks, RuntimeTrades,    *)
(*     RuntimeChecks);                                                     *)
(*   - an exit never sells more than the position (ExitsCovered);          *)
(*   - the strategy enters flat symbols only (EntriesFlat), and none that  *)
(*     is blocked after an exit (NoRebuy);                                 *)
(*   - no critical breach is lost but with the state file (BreachesKill).  *)
(***************************************************************************)
EXTENDS TradingRuntime, FiniteSetTheorems, SequenceTheorems, TLAPS

-----------------------------------------------------------------------------
(* Counting the orders of a queue                                          *)

Asks(q) == Places(q, "ORDER_REQUEST")
Count(q) == Cardinality(Asks(q))

\* A queue asks for finitely many orders.
LEMMA CountType ==
    ASSUME NEW S, NEW q \in Seq(S)
    PROVE  IsFiniteSet(Asks(q)) /\ Count(q) \in Nat
<1>1. IsFiniteSet(1 .. Len(q))
  BY FS_Interval
<1>2. Asks(q) \subseteq 1 .. Len(q)
  BY DEF Asks, Places
<1>3. IsFiniteSet(Asks(q))
  BY <1>1, <1>2, FS_Subset
<1> QED BY <1>3, FS_CardinalityType DEF Count

\* An event more is at most one order more.
LEMMA CountAppend ==
    ASSUME NEW S, NEW q \in Seq(S), NEW e
    PROVE  /\ Append(q, e) \in Seq(S \cup {e})
           /\ Count(Append(q, e)) \in Nat
           /\ Count(Append(q, e)) <= Count(q) + 1
           /\ e.type # "ORDER_REQUEST" => Count(Append(q, e)) <= Count(q)
<1> DEFINE r == Append(q, e)
           n == Len(q) + 1
<1>1. /\ r \in Seq(S \cup {e}) /\ Len(r) = n /\ n \in Nat
      /\ r[n] = e /\ \A i \in 1 .. Len(q) : r[i] = q[i]
  OBVIOUS
<1> HIDE DEF r
<1>2. IsFiniteSet(Asks(q)) /\ Count(q) \in Nat /\ Count(r) \in Nat
  BY <1>1, CountType
<1>3. \A i \in Asks(r) : i \in Asks(q) \/ (i = n /\ e.type = "ORDER_REQUEST")
  BY <1>1 DEF Asks, Places
<1>4. /\ IsFiniteSet(Asks(q) \cup {n})
      /\ Cardinality(Asks(q) \cup {n}) \in Nat
      /\ Cardinality(Asks(q) \cup {n}) <= Count(q) + 1
  <2>1. /\ IsFiniteSet(Asks(q) \cup {n})
        /\ Cardinality(Asks(q) \cup {n})
             = IF n \in Asks(q) THEN Count(q) ELSE Count(q) + 1
    BY <1>2, FS_AddElement DEF Count
  <2> QED BY <1>2, <2>1
<1>5. Asks(r) \subseteq Asks(q) \cup {n}
  BY <1>3
<1>6. Count(r) <= Count(q) + 1
  <2>1. Count(r) <= Cardinality(Asks(q) \cup {n})
    BY <1>4, <1>5, FS_Subset DEF Count
  <2> QED BY <2>1, <1>2, <1>4
<1>7. e.type # "ORDER_REQUEST" => Count(r) <= Count(q)
  <2>1. e.type # "ORDER_REQUEST" => Asks(r) \subseteq Asks(q)
    BY <1>3
  <2> QED BY <2>1, <1>2, FS_Subset DEF Count
<1> QED BY <1>1, <1>2, <1>6, <1>7 DEF r

\* Without its first event a queue has no more orders, and one less if the
\* first event was one.
LEMMA CountTail ==
    ASSUME NEW S, NEW q \in Seq(S), q # << >>
    PROVE  /\ Tail(q) \in Seq(S) /\ Count(Tail(q)) \in Nat
           /\ Count(Tail(q)) <= Count(q)
           /\ Head(q).type = "ORDER_REQUEST" => Count(Tail(q)) + 1 <= Count(q)
<1> DEFINE r == Tail(q)
           later == Asks(q) \ {1}
           f == [i \in Asks(r) |-> i + 1]
<1>1. /\ r \in Seq(S) /\ Len(q) \in Nat \ {0} /\ Len(r) = Len(q) - 1
      /\ Head(q) = q[1] /\ \A i \in 1 .. Len(r) : r[i] = q[i + 1]
  OBVIOUS
<1> HIDE DEF r
<1>2. IsFiniteSet(Asks(q)) /\ Count(q) \in Nat /\ Count(r) \in Nat
  BY <1>1, CountType
<1>3. f \in [Asks(r) -> later]
  BY <1>1 DEF Asks, Places
<1>4. \A i, j \in Asks(r) : f[i] = f[j] => i = j
  <2> SUFFICES ASSUME NEW i \in Asks(r), NEW j \in Asks(r), f[i] = f[j]
               PROVE  i = j
    OBVIOUS
  <2>1. i \in Nat /\ j \in Nat /\ i + 1 = j + 1
    BY <1>1 DEF Asks, Places
  <2> QED BY <2>1
<1>5. f \in Injection(Asks(r), later)
  BY <1>3, <1>4 DEF Injection, IsInjective
<1>6. IsFiniteSet(later) /\ Cardinality(later) \in Nat /\ Cardinality(later) <= Count(q)
  BY <1>2, FS_Subset, FS_CardinalityType DEF Count
<1> HIDE DEF f
<1>7. Count(r) <= Cardinality(later)
  BY <1>5, <1>6, FS_Injection DEF Count
<1>8. Head(q).type = "ORDER_REQUEST" => Cardinality(later) + 1 <= Count(q)
  <2>1. Head(q).type = "ORDER_REQUEST" => 1 \in Asks(q)
    BY <1>1 DEF Asks, Places
  <2>2. 1 \in Asks(q) => Cardinality(later) = Count(q) - 1
    BY <1>2, FS_RemoveElement DEF Count
  <2> QED BY <2>1, <2>2, <1>2
<1> HIDE DEF later
<1> QED BY <1>1, <1>2, <1>6, <1>7, <1>8 DEF r

\* Events that are no orders add none.
LEMMA CountConcat ==
    ASSUME NEW S, NEW q \in Seq(S), NEW T, NEW r \in Seq(T),
           \A e \in T : e.type # "ORDER_REQUEST"
    PROVE  /\ q \o r \in Seq(S \cup T)
           /\ Count(q \o r) \in Nat /\ Count(q \o r) <= Count(q)
<1> DEFINE both == q \o r
<1>1. q \in Seq(S \cup T) /\ r \in Seq(S \cup T) /\ Len(q) \in Nat /\ Len(r) \in Nat
  OBVIOUS
<1>2. /\ both \in Seq(S \cup T) /\ Len(both) = Len(q) + Len(r)
      /\ \A i \in 1 .. Len(q) + Len(r) :
            both[i] = IF i <= Len(q) THEN q[i] ELSE r[i - Len(q)]
  BY <1>1, ConcatProperties
<1> HIDE DEF both
<1>3. Asks(both) \subseteq Asks(q)
  <2> SUFFICES ASSUME NEW i \in Asks(both)
               PROVE  i \in Asks(q)
    OBVIOUS
  <2>1. i \in 1 .. Len(q) + Len(r) /\ both[i].type = "ORDER_REQUEST"
    BY <1>2 DEF Asks, Places
  <2>2. CASE i <= Len(q)
    BY <1>1, <1>2, <2>1, <2>2 DEF Asks, Places
  <2>3. CASE ~(i <= Len(q))
    <3>1. i - Len(q) \in 1 .. Len(r)
      BY <1>1, <2>1, <2>3
    <3>2. r[i - Len(q)] \in T
      BY <3>1
    <3> QED BY <1>2, <2>1, <2>3, <3>2
  <2> QED BY <2>2, <2>3
<1>4. IsFiniteSet(Asks(q)) /\ Count(q) \in Nat /\ Count(both) \in Nat
  BY <1>2, CountType
<1>5. Count(both) <= Count(q)
  BY <1>3, <1>4, FS_Subset DEF Count
<1> QED BY <1>2, <1>4, <1>5 DEF both

\* RiskService publishes breaches, and no orders.
BreachEvents == [type : {"RISK_BREACH"}, code : BreachCodes]

\* What a report's breaches become is no order.
LEMMA RiskEventsType ==
    ASSUME NEW breached \in Seq(BreachCodes)
    PROVE  RiskEvents(breached) \in Seq(BreachEvents)
<1>1. /\ DOMAIN breached = 1 .. Len(breached) /\ Len(breached) \in Nat
      /\ \A i \in DOMAIN breached : breached[i] \in BreachCodes
  OBVIOUS
<1>2. RiskEvents(breached) \in [1 .. Len(breached) -> BreachEvents]
  BY <1>1 DEF RiskEvents, BreachEvents
<1> QED BY <1>1, <1>2

-----------------------------------------------------------------------------
(* The inductive invariant                                                 *)

InFlight == IF scan = NoScan THEN 0 ELSE 1

\* What the kill switch did not stop covers what is still to come: the orders in
\* the queue, and the one the trap may ask for.
Covered ==
    /\ killed \in BOOLEAN /\ grace \in Int
    /\ killed => grace >= Count(bus) + InFlight
    /\ ~killed => grace = 0

IInv == (\E S : bus \in Seq(S)) /\ Covered

\* A step that brings no order, and leaves the kill switch, keeps the invariant.
LEMMA CoveredKept ==
    ASSUME IInv,
           \E S : bus' \in Seq(S),
           killed' = killed, grace' = grace,
           killed => /\ Count(bus') \in Nat
                     /\ Count(bus') + InFlight' <= Count(bus) + InFlight
    PROVE  IInv'
<1>1. Count(bus) \in Nat
  BY CountType DEF IInv
<1>2. InFlight \in Nat /\ InFlight' \in Nat
  BY DEF InFlight
<1>3. killed \in BOOLEAN /\ grace \in Int /\ killed' = killed /\ grace' = grace
  BY DEF IInv, Covered
<1>4. ASSUME killed
      PROVE  grace' >= Count(bus') + InFlight'
  <2>1. grace >= Count(bus) + InFlight
    BY <1>4 DEF IInv, Covered
  <2>2. Count(bus') \in Nat /\ Count(bus') + InFlight' <= Count(bus) + InFlight
    BY <1>4
  <2> HIDE DEF InFlight
  <2> QED BY <1>1, <1>2, <1>3, <2>1, <2>2
<1>5. ~killed => grace' = 0
  BY <1>3 DEF IInv, Covered
<1>6. Covered'
  BY <1>3, <1>4, <1>5 DEF Covered
<1> QED BY <1>6 DEF IInv

\* It holds in the initial states, where nothing is queued or triggered.
LEMMA InvInit == Init => IInv
<1> SUFFICES ASSUME Init
             PROVE  IInv
  OBVIOUS
<1>1. bus = << >> /\ killed = FALSE /\ grace = 0
  BY DEF Init, Pipeline!Init
<1>2. bus \in Seq({})
  BY <1>1
<1>3. 0 \in Int
  OBVIOUS
<1>4. Covered
  BY <1>1, <1>3 DEF Covered
<1> QED BY <1>2, <1>4 DEF IInv

-----------------------------------------------------------------------------
(* The steps                                                               *)

\* The bus is left alone, and no scan begins after the trigger.
LEMMA StepQuiet ==
    ASSUME IInv, UNCHANGED <<bus, killed, grace>>,
           killed => scan' \in {scan, NoScan}
    PROVE  IInv'
<1>1. Count(bus) \in Nat
  BY CountType DEF IInv
<1>2. InFlight \in Nat /\ InFlight' \in Nat /\ (killed => InFlight' <= InFlight)
  BY DEF InFlight
<1>3. Count(bus') = Count(bus)
  BY DEF Count, Asks, Places
<1> HIDE DEF InFlight
<1>4. killed => /\ Count(bus') \in Nat
                /\ Count(bus') + InFlight' <= Count(bus) + InFlight
  BY <1>1, <1>2, <1>3
<1>5. \E S : bus' \in Seq(S)
  BY DEF IInv
<1> QED BY <1>4, <1>5, CoveredKept

\* An event that is no order is published.
LEMMA StepPublishes ==
    ASSUME IInv, UNCHANGED <<killed, grace, scan>>,
           NEW e, e.type # "ORDER_REQUEST", bus' = Append(bus, e)
    PROVE  IInv'
<1>1. PICK S : bus \in Seq(S)
  BY DEF IInv
<1>2. /\ bus' \in Seq(S \cup {e}) /\ Count(bus') \in Nat /\ Count(bus') <= Count(bus)
      /\ Count(bus) \in Nat
  BY <1>1, CountAppend, CountType
<1>3. InFlight' = InFlight /\ InFlight \in Nat
  BY DEF InFlight
<1> HIDE DEF InFlight
<1>4. Count(bus') + InFlight' <= Count(bus) + InFlight
  BY <1>2, <1>3
<1> QED BY <1>2, <1>4, CoveredKept

\* An event is taken off the queue, and nothing else happens.
LEMMA StepTakes ==
    ASSUME IInv, UNCHANGED <<killed, grace, scan>>, bus # << >>, bus' = Tail(bus)
    PROVE  IInv'
<1>1. PICK S : bus \in Seq(S)
  BY DEF IInv
<1>2. /\ bus' \in Seq(S) /\ Count(bus') \in Nat /\ Count(bus') <= Count(bus)
      /\ Count(bus) \in Nat
  BY <1>1, CountTail, CountType
<1>3. InFlight' = InFlight /\ InFlight \in Nat
  BY DEF InFlight
<1> HIDE DEF InFlight
<1>4. Count(bus') + InFlight' <= Count(bus) + InFlight
  BY <1>2, <1>3
<1> QED BY <1>2, <1>4, CoveredKept

\* The strategy asks for orders only while the kill switch is not triggered.
LEMMA StepOnOrderBook == IInv /\ OnOrderBook => IInv'
<1> SUFFICES ASSUME IInv, OnOrderBook
             PROVE  IInv'
  OBVIOUS
<1>1. bus # << >> /\ UNCHANGED <<killed, grace, scan>>
  BY DEF OnOrderBook, OldestIs, trap, risk
<1>2. CASE bus' = Tail(bus)
  BY <1>1, <1>2, StepTakes
<1>3. CASE ~killed /\ \E e : bus' = Append(Tail(bus), e)
  <2>1. PICK S, e : bus \in Seq(S) /\ bus' = Append(Tail(bus), e)
    BY <1>3 DEF IInv
  <2>2. bus' \in Seq(S \cup {e})
    BY <1>1, <2>1, CountTail, CountAppend
  <2> QED BY <1>1, <1>3, <2>2, CoveredKept
<1>4. bus' = Tail(bus) \/ (~killed /\ \E e : bus' = Append(Tail(bus), e))
  BY DEF OnOrderBook, NoSignal, EnterPosition, BlockBadTrend, ExitPosition, Ask
<1> QED BY <1>2, <1>3, <1>4

\* The scan in flight becomes an order in the queue.
LEMMA StepTrapBuys == IInv /\ TrapBuys => IInv'
<1> SUFFICES ASSUME IInv, TrapBuys
             PROVE  IInv'
  OBVIOUS
<1>1. PICK e : bus' = Append(bus, e)
  BY DEF TrapBuys
<1>2. InFlight = 1 /\ InFlight' = 0 /\ UNCHANGED <<killed, grace>>
  BY DEF TrapBuys, InFlight, risk
<1>3. PICK S : bus \in Seq(S)
  BY DEF IInv
<1>4. /\ bus' \in Seq(S \cup {e}) /\ Count(bus') \in Nat
      /\ Count(bus') <= Count(bus) + 1 /\ Count(bus) \in Nat
  BY <1>1, <1>3, CountAppend, CountType
<1>5. Count(bus') + InFlight' <= Count(bus) + InFlight
  BY <1>2, <1>4
<1> QED BY <1>2, <1>4, <1>5, CoveredKept

\* An order that comes after the trigger is one of those it left.
LEMMA StepOnOrderRequest == IInv /\ OnOrderRequest => IInv'
<1> SUFFICES ASSUME IInv, OnOrderRequest
             PROVE  IInv'
  OBVIOUS
<1>1. /\ bus # << >> /\ Head(bus).type = "ORDER_REQUEST" /\ bus' = Tail(bus)
      /\ killed' = killed /\ scan' = scan
      /\ grace' = IF killed THEN grace - 1 ELSE grace
  BY DEF OnOrderRequest, OldestIs, trap
<1>2. PICK S : bus \in Seq(S)
  BY DEF IInv
<1>3. /\ bus' \in Seq(S) /\ Count(bus') \in Nat /\ Count(bus') + 1 <= Count(bus)
      /\ Count(bus) \in Nat
  BY <1>1, <1>2, CountTail, CountType
<1>4. InFlight' = InFlight /\ InFlight \in Nat
  BY <1>1 DEF InFlight
<1>5. killed \in BOOLEAN /\ grace \in Int
  BY DEF IInv, Covered
<1> HIDE DEF InFlight
<1>6. ASSUME killed
      PROVE  grace' \in Int /\ grace' >= Count(bus') + InFlight'
  <2>1. grace >= Count(bus) + InFlight /\ grace' = grace - 1
    BY <1>1, <1>6 DEF IInv, Covered
  <2> QED BY <1>3, <1>4, <1>5, <2>1
<1>7. ~killed => grace' = 0
  BY <1>1 DEF IInv, Covered
<1>8. Covered'
  BY <1>1, <1>5, <1>6, <1>7 DEF Covered
<1> QED BY <1>3, <1>8 DEF IInv

\* The trigger leaves what is in the queue and in flight at that moment.
LEMMA StepOnExecutionReport ==
    bus \in Seq(Events) /\ IInv /\ OnExecutionReport => IInv'
<1> SUFFICES ASSUME bus \in Seq(Events), IInv, OnExecutionReport
             PROVE  IInv'
  OBVIOUS
<1> DEFINE breached == Head(bus).breaches
           triggers == ~killed /\ IsCritical(breached)
<1>0. breached \in Seq(BreachCodes)
  BY DEF OnExecutionReport, OldestIs, Events
<1>1. /\ bus # << >> /\ bus' = Tail(bus) \o RiskEvents(breached) /\ scan' = scan
      /\ killed' = (killed \/ triggers)
      /\ grace' = IF triggers THEN Count(bus) + InFlight ELSE grace
  BY DEF OnExecutionReport, OldestIs, trap, Requested, Count, Asks, InFlight
<1> HIDE DEF breached, triggers
<1>2. PICK S : bus \in Seq(S)
  BY DEF IInv
<1>3. /\ Tail(bus) \in Seq(S) /\ Count(Tail(bus)) \in Nat
      /\ Count(Tail(bus)) <= Count(bus) /\ Count(bus) \in Nat
  BY <1>1, <1>2, CountTail, CountType
<1>4. RiskEvents(breached) \in Seq(BreachEvents)
  BY <1>0, RiskEventsType
<1>5. \A e \in BreachEvents : e.type # "ORDER_REQUEST"
  BY DEF BreachEvents
<1>6. /\ bus' \in Seq(S \cup BreachEvents) /\ Count(bus') \in Nat
      /\ Count(bus') <= Count(Tail(bus))
  BY <1>1, <1>3, <1>4, <1>5, CountConcat
<1>7. InFlight' = InFlight /\ InFlight \in Nat
  BY <1>1 DEF InFlight
<1> HIDE DEF InFlight
<1>8. Count(bus') + InFlight' <= Count(bus) + InFlight
  BY <1>3, <1>6, <1>7
<1>9. CASE triggers
  <2>1. killed' = TRUE /\ grace' = Count(bus) + InFlight
    BY <1>1, <1>9
  <2>2. grace' \in Int /\ grace' >= Count(bus') + InFlight'
    BY <2>1, <1>3, <1>6, <1>7, <1>8
  <2>3. Covered'
    BY <2>1, <2>2 DEF Covered
  <2> QED BY <1>6, <2>3 DEF IInv
<1>10. CASE ~triggers
  <2>1. killed \in BOOLEAN
    BY DEF IInv, Covered
  <2>2. killed' = killed /\ grace' = grace
    BY <1>1, <1>10, <2>1
  <2> QED BY <1>6, <1>8, <2>2, CoveredKept
<1> QED BY <1>9, <1>10

\* submit() publishes at most a report.
LEMMA StepSubmit == IInv /\ SubmitStep => IInv'
<1> SUFFICES ASSUME IInv, SubmitStep
             PROVE  IInv'
  OBVIOUS
<1>1. UNCHANGED <<killed, grace, scan>> /\ Pipeline!SubmitStep
  BY DEF SubmitStep, trap
<1>2. CASE Pipeline!PublishReport
  <2> DEFINE e == [type |-> "EXECUTION_REPORT", breaches |-> breaches]
  <2>1. bus' = Append(bus, e) /\ e.type # "ORDER_REQUEST"
    BY <1>2 DEF Pipeline!PublishReport
  <2> HIDE DEF e
  <2> QED BY <1>1, <2>1, StepPublishes
<1>3. CASE ~Pipeline!PublishReport
  <2>1. bus' = bus
    BY <1>1, <1>3
    DEF Pipeline!SubmitStep, Pipeline!RouteFails, Pipeline!RouteAndCheck,
        Pipeline!CreateOrder, Pipeline!CreateOrderRaises, Pipeline!RecordReport,
        Pipeline!RecordReportRaises, Pipeline!BookFill, Pipeline!NoFill,
        Pipeline!FillWithoutPrice, Pipeline!RecordTrade,
        Pipeline!RecordTradeRaises, Pipeline!ValidateBook, Pipeline!SaveState,
        Pipeline!SaveStateRaises, Pipeline!memory
  <2> QED BY <1>1, <2>1, StepQuiet
<1> QED BY <1>2, <1>3

\* A new process knows neither the trigger nor what was queued.
LEMMA StepNewProcess == IInv /\ (Stop \/ Crash) => IInv'
<1> SUFFICES ASSUME IInv, Stop \/ Crash
             PROVE  IInv'
  OBVIOUS
<1>1. bus' = << >> /\ killed' = FALSE /\ grace' = 0
  BY DEF Stop, Crash, ForgetAll, Pipeline!StopAndRestart,
         Pipeline!CrashAndRestart, Pipeline!Restart
<1>2. bus' \in Seq({})
  BY <1>1
<1>3. 0 \in Int
  OBVIOUS
<1>4. Covered'
  BY <1>1, <1>3 DEF Covered
<1> QED BY <1>2, <1>4 DEF IInv

\* Every step keeps it.
LEMMA InvStep == bus \in Seq(Events) /\ IInv /\ [Next]_vars => IInv'
<1> SUFFICES ASSUME bus \in Seq(Events), IInv, [Next]_vars
             PROVE  IInv'
  OBVIOUS
<1>1. CASE BusStep
  <2>1. CASE OnOrderBook
    BY <2>1, StepOnOrderBook
  <2>2. CASE OnOrderRequest
    BY <2>2, StepOnOrderRequest
  <2>3. CASE SubmitStep
    BY <2>3, StepSubmit
  <2>4. CASE OnExecutionReport
    BY <2>4, StepOnExecutionReport
  <2>5. CASE OnRiskBreach
    <3>1. bus # << >> /\ bus' = Tail(bus) /\ UNCHANGED <<killed, grace, scan>>
      BY <2>5 DEF OnRiskBreach, OldestIs, trap
    <3> QED BY <3>1, StepTakes
  <2> QED BY <1>1, <2>1, <2>2, <2>3, <2>4, <2>5 DEF BusStep
<1>2. ASSUME NEW s \in Symbols, NEW p \in Prices, MarketTick(s, p)
      PROVE  IInv'
  BY <1>2, StepQuiet DEF MarketTick, trap, risk
<1>3. ASSUME NEW s \in Symbols, OrderBook(s)
      PROVE  IInv'
  <2> DEFINE e == [type |-> "ORDERBOOK_SNAPSHOT", symbol |-> s]
  <2>1. /\ bus' = Append(bus, e) /\ e.type # "ORDER_REQUEST"
        /\ UNCHANGED <<killed, grace, scan>>
    BY <1>3 DEF OrderBook, trap, risk
  <2> HIDE DEF e
  <2> QED BY <2>1, StepPublishes
<1>4. ASSUME NEW s \in Symbols, TrapStart(s)
      PROVE  IInv'
  BY <1>4, StepQuiet DEF TrapStart, risk
<1>5. ASSUME NEW s \in Symbols, CooldownEnds(s)
      PROVE  IInv'
  BY <1>5, StepQuiet DEF CooldownEnds, risk
<1>6. CASE TrapBuys
  BY <1>6, StepTrapBuys
<1>7. CASE TrapPasses
  BY <1>7, StepQuiet DEF TrapPasses, risk
<1>8. CASE Stop \/ Crash
  BY <1>8, StepNewProcess
<1>9. CASE LateFill
  BY <1>9, StepQuiet DEF LateFill, Pipeline!LateFill, Pipeline!memory, trap, risk
<1>10. CASE UNCHANGED vars
  BY <1>10, StepQuiet DEF vars, trap, risk
<1> QED BY <1>1, <1>2, <1>3, <1>4, <1>5, <1>6, <1>7, <1>8, <1>9, <1>10 DEF Next

-----------------------------------------------------------------------------
(* What a queue holds at some of its positions                             *)

\* The positions of a finite set are ranked 1 .. Cardinality(I) in their order.
LEMMA RankType ==
    ASSUME NEW I \in SUBSET Nat, IsFiniteSet(I), NEW i \in I
    PROVE  Rank(i, I) \in 1 .. Cardinality(I)
<1> DEFINE upTo == {k \in I : k <= i}
<1>1. /\ IsFiniteSet(upTo) /\ Cardinality(upTo) \in Nat
      /\ Cardinality(I) \in Nat /\ Cardinality(upTo) <= Cardinality(I)
  BY FS_Subset, FS_CardinalityType
<1>2. i \in upTo
  OBVIOUS
<1>3. Cardinality(upTo) # 0
  BY <1>1, <1>2, FS_EmptySet
<1>4. Rank(i, I) = Cardinality(upTo)
  BY DEF Rank
<1> HIDE DEF upTo
<1> QED BY <1>1, <1>3, <1>4

\* A later position has a higher rank,
LEMMA RankMonotone ==
    ASSUME NEW I \in SUBSET Nat, IsFiniteSet(I),
           NEW i \in I, NEW j \in I, i < j
    PROVE  Rank(i, I) < Rank(j, I)
<1> DEFINE low == {k \in I : k <= i}
           high == {k \in I : k <= j}
<1>1. /\ IsFiniteSet(low) /\ Cardinality(low) \in Nat
      /\ IsFiniteSet(high) /\ Cardinality(high) \in Nat
  BY FS_Subset, FS_CardinalityType
<1>2. low \subseteq high \ {j} /\ j \in high
  <2>1. j \in high /\ j \notin low
    OBVIOUS
  <2>2. \A k \in I : k <= i => k <= j
    OBVIOUS
  <2> QED BY <2>1, <2>2
<1>3. Rank(i, I) = Cardinality(low) /\ Rank(j, I) = Cardinality(high)
  BY DEF Rank
<1> HIDE DEF low, high
<1>4. /\ IsFiniteSet(high \ {j})
      /\ Cardinality(high \ {j}) = Cardinality(high) - 1
  BY <1>1, <1>2, FS_RemoveElement
<1>5. Cardinality(low) <= Cardinality(high \ {j})
  BY <1>2, <1>4, FS_Subset
<1> QED BY <1>1, <1>3, <1>4, <1>5

\* so two positions differ in rank,
LEMMA RankDistinct ==
    ASSUME NEW I \in SUBSET Nat, IsFiniteSet(I),
           NEW i \in I, NEW j \in I, Rank(i, I) = Rank(j, I)
    PROVE  i = j
<1>1. i \in Nat /\ j \in Nat /\ Rank(i, I) \in Nat /\ Rank(j, I) \in Nat
  BY RankType, FS_CardinalityType
<1>2. ~(i < j) /\ ~(j < i)
  BY <1>1, RankMonotone
<1> QED BY <1>1, <1>2

\* Every rank is one of a position.
LEMMA RankOnto ==
    ASSUME NEW I \in SUBSET Nat, IsFiniteSet(I), NEW n \in 1 .. Cardinality(I)
    PROVE  \E i \in I : Rank(i, I) = n
<1> DEFINE ranks == 1 .. Cardinality(I)
           f == [i \in I |-> Rank(i, I)]
<1>1. Cardinality(I) \in Nat
  BY FS_CardinalityType
<1>2. IsFiniteSet(ranks) /\ Cardinality(ranks) = Cardinality(I)
  BY <1>1, FS_Interval
<1>3. f \in [I -> ranks]
  BY RankType
<1>4. \A i, j \in I : f[i] = f[j] => i = j
  BY RankDistinct
<1>5. f \in Injection(I, ranks)
  BY <1>3, <1>4 DEF Injection, IsInjective
<1>6. f \in Surjection(I, ranks)
  <2> HIDE DEF f, ranks
  <2> QED BY <1>2, <1>5, FS_Injection
<1>7. \E i \in I : f[i] = n
  <2> HIDE DEF f
  <2> QED BY <1>6 DEF Surjection
<1> QED BY <1>7

\* Subsequence puts what the queue holds at a position at the position's rank.
LEMMA Selected ==
    ASSUME NEW queue, NEW I \in SUBSET Nat, IsFiniteSet(I)
    PROVE  /\ DOMAIN Subsequence(queue, I) = 1 .. Cardinality(I)
           /\ Cardinality(I) \in Nat
           /\ \A i \in I : Subsequence(queue, I)[Rank(i, I)] = queue[i]
<1>1. Cardinality(I) \in Nat
  BY FS_CardinalityType
<1>2. DOMAIN Subsequence(queue, I) = 1 .. Cardinality(I)
  BY DEF Subsequence
<1>3. ASSUME NEW i \in I
      PROVE  Subsequence(queue, I)[Rank(i, I)] = queue[i]
  <2>1. Rank(i, I) \in 1 .. Cardinality(I)
    BY RankType
  <2> DEFINE chosen == CHOOSE j \in I : Rank(j, I) = Rank(i, I)
  <2>2. chosen \in I /\ Rank(chosen, I) = Rank(i, I)
    OBVIOUS
  <2>3. Subsequence(queue, I)[Rank(i, I)] = queue[chosen]
    BY <2>1 DEF Subsequence
  <2> HIDE DEF chosen
  <2>4. chosen = i
    BY <2>2, RankDistinct
  <2> QED BY <2>3, <2>4
<1> QED BY <1>1, <1>2, <1>3

\* It is a sequence of what the queue holds at these positions.
LEMMA SelectedType ==
    ASSUME NEW queue, NEW I \in SUBSET Nat, IsFiniteSet(I), NEW S,
           \A i \in I : queue[i] \in S
    PROVE  /\ Subsequence(queue, I) \in Seq(S)
           /\ Len(Subsequence(queue, I)) = Cardinality(I)
<1> DEFINE sub == Subsequence(queue, I)
           n == Cardinality(I)
<1>1. DOMAIN sub = 1 .. n /\ n \in Nat /\ \A i \in I : sub[Rank(i, I)] = queue[i]
  BY Selected
<1>2. ASSUME NEW k \in 1 .. n
      PROVE  sub[k] \in S
  <2>1. PICK i \in I : Rank(i, I) = k
    BY RankOnto
  <2> QED BY <1>1, <2>1
<1>3. sub = [k \in 1 .. n |-> sub[k]]
  BY DEF Subsequence
<1> HIDE DEF sub, n
<1>4. sub \in [1 .. n -> S]
  BY <1>1, <1>2, <1>3
<1>5. sub \in Seq(S) /\ Len(sub) = n
  BY <1>1, <1>4
<1> QED BY <1>5 DEF sub, n
\* Two queues that hold the same at positions that correspond, in one order,
\* have the same subsequence there.
LEMMA SameSubsequence ==
    ASSUME NEW q, NEW I \in SUBSET Nat, IsFiniteSet(I),
           NEW r, NEW J \in SUBSET Nat, IsFiniteSet(J),
           NEW g \in [I -> J],
           \A j \in J : \E i \in I : g[i] = j,
           \A i, k \in I : i < k => g[i] < g[k],
           \A i \in I : q[i] = r[g[i]]
    PROVE  Subsequence(q, I) = Subsequence(r, J)
<1>1. \A i, k \in I : g[i] <= g[k] <=> i <= k
  <2> SUFFICES ASSUME NEW i \in I, NEW k \in I
               PROVE  g[i] <= g[k] <=> i <= k
    OBVIOUS
  <2>1. i \in Nat /\ k \in Nat /\ g[i] \in Nat /\ g[k] \in Nat
    OBVIOUS
  <2>2. (i < k => g[i] < g[k]) /\ (k < i => g[k] < g[i]) /\ (i = k => g[i] = g[k])
    OBVIOUS
  <2> QED BY <2>1, <2>2
<1>2. \A i, k \in I : g[i] = g[k] => i = k
  <2> SUFFICES ASSUME NEW i \in I, NEW k \in I, g[i] = g[k]
               PROVE  i = k
    OBVIOUS
  <2>1. i \in Nat /\ k \in Nat /\ g[i] \in Nat
    OBVIOUS
  <2>2. i <= k /\ k <= i
    BY <1>1, <2>1
  <2> QED BY <2>1, <2>2
<1>3. ASSUME NEW A \in SUBSET I, NEW B \in SUBSET J,
             \A i \in A : g[i] \in B, \A j \in B : \E i \in A : g[i] = j
      PROVE  Cardinality(A) = Cardinality(B)
  <2> DEFINE h == [i \in A |-> g[i]]
  <2>1. h \in [A -> B]
    BY <1>3
  <2>2. h \in Injection(A, B)
    BY <2>1, <1>2 DEF Injection, IsInjective
  <2>3. h \in Surjection(A, B)
    BY <2>1, <1>3 DEF Surjection
  <2>4. ExistsBijection(A, B)
    BY <2>2, <2>3 DEF Bijection, ExistsBijection
  <2>5. IsFiniteSet(A)
    BY FS_Subset
  <2> QED BY <2>4, <2>5, FS_Bijection
<1>4. Cardinality(I) = Cardinality(J)
  BY <1>3
<1>5. ASSUME NEW i \in I
      PROVE  Rank(g[i], J) = Rank(i, I)
  <2> DEFINE A == {k \in I : k <= i}
             B == {k \in J : k <= g[i]}
  <2>1. \A k \in A : g[k] \in B
    BY <1>1
  <2>2. \A j \in B : \E k \in A : g[k] = j
    BY <1>1
  <2>3. A \in SUBSET I /\ B \in SUBSET J
    OBVIOUS
  <2> HIDE DEF A, B
  <2>4. Cardinality(A) = Cardinality(B)
    BY <1>3, <2>1, <2>2, <2>3
  <2> QED BY <2>4 DEF Rank, A, B
<1>6. ASSUME NEW n \in 1 .. Cardinality(I)
      PROVE  Subsequence(q, I)[n] = Subsequence(r, J)[n]
  <2>1. PICK i \in I : Rank(i, I) = n
    BY RankOnto
  <2>2. Subsequence(q, I)[n] = q[i]
    BY <2>1, Selected
  <2>3. g[i] \in J /\ Rank(g[i], J) = n
    BY <2>1, <1>5
  <2>4. Subsequence(r, J)[n] = r[g[i]]
    BY <2>3, Selected
  <2> QED BY <2>2, <2>4
<1>7. /\ Subsequence(q, I) = [n \in 1 .. Cardinality(I) |-> Subsequence(q, I)[n]]
      /\ Subsequence(r, J) = [n \in 1 .. Cardinality(J) |-> Subsequence(r, J)[n]]
  BY DEF Subsequence
<1> QED BY <1>4, <1>6, <1>7

\* One position more, behind all the others, is one event more at the end.
LEMMA SubsequenceAppend ==
    ASSUME NEW q, NEW I \in SUBSET Nat, IsFiniteSet(I),
           NEW n \in Nat, \A i \in I : i < n
    PROVE  Subsequence(q, I \cup {n}) = Append(Subsequence(q, I), q[n])
<1> DEFINE J == I \cup {n}
           S == {q[i] : i \in J}
           c == Cardinality(I)
           sub == Subsequence(q, I)
           more == Subsequence(q, J)
<1>1. n \notin I
  OBVIOUS
<1>2. J \in SUBSET Nat /\ IsFiniteSet(J) /\ Cardinality(J) = c + 1 /\ c \in Nat
  BY <1>1, FS_AddElement, FS_CardinalityType
<1>3. Rank(n, J) = c + 1
  <2>1. \A k \in J : k <= n
    OBVIOUS
  <2>2. {k \in J : k <= n} = J
    BY <2>1, Zenon
  <2> QED BY <1>2, <2>2 DEF Rank
<1>4. ASSUME NEW i \in I
      PROVE  Rank(i, J) = Rank(i, I)
  <2>1. ~(n <= i)
    OBVIOUS
  <2>2. {k \in J : k <= i} = {k \in I : k <= i}
    BY <2>1
  <2> QED BY <2>2 DEF Rank
<1>5. (\A i \in J : q[i] \in S) /\ (\A i \in I : q[i] \in S) /\ q[n] \in S
  OBVIOUS
<1> HIDE DEF J, S
<1>a. sub \in Seq(S) /\ Len(sub) = c
  BY <1>5, SelectedType
<1>6. more \in Seq(S) /\ Len(more) = c + 1
  BY <1>2, <1>5, SelectedType
<1>7. \A i \in J : more[Rank(i, J)] = q[i]
  BY <1>2, Selected
<1>8. \A i \in I : sub[Rank(i, I)] = q[i]
  BY Selected
<1>9. ASSUME NEW k \in 1 .. c
      PROVE  more[k] = sub[k]
  <2>1. PICK i \in I : Rank(i, I) = k
    BY RankOnto
  <2> QED BY <2>1, <1>4, <1>7, <1>8 DEF J
<1>10. more[c + 1] = q[n]
  BY <1>3, <1>7 DEF J
<1> HIDE DEF more, sub, c
<1>11. /\ Append(sub, q[n]) \in Seq(S) /\ Len(Append(sub, q[n])) = c + 1
       /\ Append(sub, q[n])[c + 1] = q[n]
       /\ \A k \in 1 .. c : Append(sub, q[n])[k] = sub[k]
  BY <1>2, <1>5, <1>a
<1>12. more = Append(sub, q[n])
  <2>1. ASSUME NEW k \in 1 .. Len(more)
        PROVE  more[k] = Append(sub, q[n])[k]
    <3>1. k \in 1 .. c \/ k = c + 1
      BY <1>2, <1>6
    <3> QED BY <3>1, <1>9, <1>10, <1>11
  <2> QED BY <2>1, <1>6, <1>11, SeqEqual
<1> QED BY <1>12 DEF more, sub, J

\* Without its first position it is the tail.
LEMMA SubsequenceTail ==
    ASSUME NEW q, NEW I \in SUBSET Nat, IsFiniteSet(I),
           NEW m \in I, \A i \in I : m <= i
    PROVE  /\ Subsequence(q, I) # << >>
           /\ Tail(Subsequence(q, I)) = Subsequence(q, I \ {m})
<1> DEFINE J == I \ {m}
           S == {q[i] : i \in I}
           c == Cardinality(J)
           sub == Subsequence(q, I)
           rest == Subsequence(q, J)
<1>1. J \in SUBSET Nat /\ IsFiniteSet(J) /\ Cardinality(I) = c + 1 /\ c \in Nat
  <2>1. IsFiniteSet(J) /\ c = Cardinality(I) - 1 /\ Cardinality(I) \in Nat
    BY FS_RemoveElement, FS_CardinalityType
  <2>2. c \in Nat
    BY <2>1, FS_CardinalityType
  <2> HIDE DEF c
  <2> QED BY <2>1, <2>2
<1>2. ASSUME NEW i \in J
      PROVE  Rank(i, I) = Rank(i, J) + 1
  <2> DEFINE upTo == {k \in I : k <= i}
  <2>1. m \in upTo /\ IsFiniteSet(upTo)
    BY FS_Subset
  <2>2. {k \in J : k <= i} = upTo \ {m}
    OBVIOUS
  <2> HIDE DEF upTo
  <2>3. Cardinality(upTo \ {m}) = Cardinality(upTo) - 1 /\ Cardinality(upTo) \in Nat
    BY <2>1, FS_RemoveElement, FS_CardinalityType
  <2>4. Cardinality(upTo) = Cardinality(upTo \ {m}) + 1
    BY <2>3
  <2> QED BY <2>2, <2>4 DEF Rank, upTo
<1>a. (\A i \in J : q[i] \in S) /\ (\A i \in I : q[i] \in S)
  OBVIOUS
<1> HIDE DEF S
<1>3. sub \in Seq(S) /\ Len(sub) = c + 1
  BY <1>1, <1>a, SelectedType
<1>4. rest \in Seq(S) /\ Len(rest) = c
  <2> HIDE DEF J
  <2> QED BY <1>1, <1>a, SelectedType
<1>5. \A i \in I : sub[Rank(i, I)] = q[i]
  BY Selected
<1>6. \A i \in J : rest[Rank(i, J)] = q[i]
  <2> HIDE DEF J
  <2> QED BY <1>1, Selected
<1>7. ASSUME NEW k \in 1 .. c
      PROVE  rest[k] = sub[k + 1]
  <2>1. PICK i \in J : Rank(i, J) = k
    <3> HIDE DEF J
    <3> QED BY <1>1, RankOnto
  <2>2. i \in I /\ Rank(i, I) = k + 1
    BY <2>1, <1>2
  <2> QED BY <2>1, <2>2, <1>5, <1>6
<1> HIDE DEF J, c, sub, rest
<1>8. /\ sub # << >> /\ Tail(sub) \in Seq(S) /\ Len(Tail(sub)) = c
      /\ \A k \in 1 .. c : Tail(sub)[k] = sub[k + 1]
  <2>1. sub # << >>
    BY <1>1, <1>3
  <2> QED BY <1>1, <1>3, <2>1, HeadTailProperties
<1>9. Tail(sub) = rest
  BY <1>4, <1>7, <1>8, SeqEqual
<1> QED BY <1>8, <1>9 DEF sub, rest, J

-----------------------------------------------------------------------------
(* The events of a type in a queue                                         *)

\* The places of a type are finitely many positions of the queue.
LEMMA PlacesType ==
    ASSUME NEW S, NEW q \in Seq(S), NEW type
    PROVE  /\ Places(q, type) \in SUBSET Nat /\ IsFiniteSet(Places(q, type))
           /\ \A i \in Places(q, type) :
                 /\ i \in 1 .. Len(q) /\ q[i] \in S /\ q[i].type = type
<1>1. IsFiniteSet(1 .. Len(q)) /\ Len(q) \in Nat
  BY FS_Interval
<1>2. Places(q, type) \subseteq 1 .. Len(q)
  BY DEF Places
<1>3. IsFiniteSet(Places(q, type))
  BY <1>1, <1>2, FS_Subset
<1> QED BY <1>1, <1>2, <1>3 DEF Places

\* The events of a type that a queue holds, in its order.
Only(q, type) == Subsequence(q, Places(q, type))

\* What a queue holds of a type is of that type.
LEMMA OnlyType ==
    ASSUME NEW S, NEW q \in Seq(S), NEW type
    PROVE  Only(q, type) \in Seq({e \in S : e.type = type})
<1>1. \A i \in Places(q, type) : q[i] \in {e \in S : e.type = type}
  BY PlacesType
<1> QED BY <1>1, PlacesType, SelectedType DEF Only

\* An event put at the end of the queue is put at the end of its type.
LEMMA OnlyAppend ==
    ASSUME NEW S, NEW q \in Seq(S), NEW e, NEW type
    PROVE  /\ e.type = type => Only(Append(q, e), type) = Append(Only(q, type), e)
           /\ e.type # type => Only(Append(q, e), type) = Only(q, type)
<1> DEFINE r == Append(q, e)
           n == Len(q) + 1
           I == Places(q, type)
<1>1. /\ r \in Seq(S \cup {e}) /\ Len(r) = n /\ n \in Nat
      /\ r[n] = e /\ \A i \in 1 .. Len(q) : r[i] = q[i]
  OBVIOUS
<1>2. /\ I \in SUBSET Nat /\ IsFiniteSet(I)
      /\ \A i \in I : i \in 1 .. Len(q) /\ q[i] \in S /\ i < n
  BY PlacesType
<1> HIDE DEF r
<1>3. Subsequence(r, I) = Subsequence(q, I)
  <2> DEFINE g == [i \in I |-> i]
  <2>1. g \in [I -> I] /\ \A i \in I : g[i] = i /\ r[i] = q[g[i]]
    BY <1>1, <1>2
  <2> HIDE DEF g, I
  <2>2. \A i, k \in I : i < k => g[i] < g[k]
    BY <2>1
  <2>3. \A j \in I : \E i \in I : g[i] = j
    BY <2>1
  <2>4. \A i \in I : r[i] = q[g[i]]
    BY <2>1
  <2> QED BY <1>2, <2>1, <2>2, <2>3, <2>4, SameSubsequence
<1>4. \A i \in I : i < n
  BY <1>1, <1>2
<1>5. CASE e.type = type
  <2>1. Places(r, type) = I \cup {n}
    BY <1>1, <1>5 DEF Places
  <2>2. n \in Nat /\ r[n] = e
    BY <1>1
  <2>3. Subsequence(r, I \cup {n}) = Append(Subsequence(r, I), r[n])
    <3> HIDE DEF I, n
    <3> QED BY <1>2, <1>4, <2>2, SubsequenceAppend
  <2> QED BY <1>3, <1>5, <2>1, <2>2, <2>3 DEF Only, r
<1>6. CASE e.type # type
  <2>1. Places(r, type) = I
    BY <1>1, <1>6 DEF Places
  <2> QED BY <1>3, <1>6, <2>1 DEF Only, r
<1> QED BY <1>5, <1>6

\* Taking the oldest event takes the oldest of its type, and no other.
LEMMA OnlyTail ==
    ASSUME NEW S, NEW q \in Seq(S), q # << >>, NEW type
    PROVE  /\ Head(q).type = type =>
                 /\ Only(q, type) # << >>
                 /\ Only(Tail(q), type) = Tail(Only(q, type))
           /\ Head(q).type # type => Only(Tail(q), type) = Only(q, type)
<1> DEFINE r == Tail(q)
           I == Places(q, type) \ {1}
           J == Places(r, type)
           g == [i \in I |-> i - 1]
<1>1. /\ r \in Seq(S) /\ Len(q) \in Nat \ {0} /\ Len(r) = Len(q) - 1
      /\ Head(q) = q[1] /\ \A i \in 1 .. Len(r) : r[i] = q[i + 1]
  OBVIOUS
<1> HIDE DEF r
<1>2. /\ Places(q, type) \in SUBSET Nat /\ IsFiniteSet(Places(q, type))
      /\ I \in SUBSET Nat /\ IsFiniteSet(I)
      /\ J \in SUBSET Nat /\ IsFiniteSet(J)
  BY <1>1, PlacesType, FS_Subset
<1>3. /\ g \in [I -> J]
      /\ \A i \in I : g[i] = i - 1 /\ q[i] = r[g[i]]
  <2> SUFFICES ASSUME NEW i \in I
               PROVE  i - 1 \in J /\ q[i] = r[i - 1]
    OBVIOUS
  <2>1. i \in 2 .. Len(q) /\ q[i].type = type
    BY <1>1 DEF Places
  <2>2. i - 1 \in 1 .. Len(r) /\ (i - 1) + 1 = i
    BY <1>1, <2>1
  <2>3. r[i - 1] = q[i]
    BY <1>1, <2>2
  <2> QED BY <2>1, <2>2, <2>3 DEF Places
<1>4. ASSUME NEW j \in J
      PROVE  j + 1 \in I /\ (j + 1) - 1 = j
  <2>1. j \in 1 .. Len(r) /\ r[j].type = type
    BY <1>1 DEF Places
  <2>2. j + 1 \in 1 .. Len(q) /\ j + 1 # 1 /\ q[j + 1].type = type
    BY <1>1, <2>1
  <2> QED BY <2>1, <2>2 DEF Places
<1>5. \A i, k \in I : i < k => g[i] < g[k]
  BY <1>2, <1>3
<1>6. \A j \in J : \E i \in I : g[i] = j
  BY <1>3, <1>4
<1>7. Subsequence(q, I) = Subsequence(r, J)
  <2>1. g \in [I -> J] /\ \A i \in I : q[i] = r[g[i]]
    BY <1>3
  <2> HIDE DEF g, I, J
  <2> QED BY <1>2, <1>5, <1>6, <2>1, SameSubsequence
<1>8. CASE Head(q).type = type
  <2>1. 1 \in Places(q, type) /\ \A i \in Places(q, type) : 1 <= i
    BY <1>1, <1>8 DEF Places
  <2>2. /\ Only(q, type) # << >>
        /\ Tail(Only(q, type)) = Subsequence(q, I)
    <3> DEFINE K == Places(q, type)
    <3>1. K \in SUBSET Nat /\ IsFiniteSet(K) /\ 1 \in K
      BY <1>2, <2>1
    <3>2. \A i \in K : 1 <= i
      BY <2>1
    <3> HIDE DEF K
    <3>3. /\ Subsequence(q, K) # << >>
          /\ Tail(Subsequence(q, K)) = Subsequence(q, K \ {1})
      BY <3>1, <3>2, SubsequenceTail
    <3> QED BY <3>3 DEF Only, K
  <2> QED BY <1>7, <1>8, <2>2 DEF Only, r
<1>9. CASE Head(q).type # type
  <2>1. Places(q, type) = I
    BY <1>1, <1>9 DEF Places
  <2> QED BY <1>7, <1>9, <2>1 DEF Only, r
<1> QED BY <1>8, <1>9

\* Events of other types behind the queue do not matter.
LEMMA OnlyConcat ==
    ASSUME NEW S, NEW q \in Seq(S), NEW T, NEW r \in Seq(T), NEW type,
           \A e \in T : e.type # type
    PROVE  Only(q \o r, type) = Only(q, type)
<1> DEFINE both == q \o r
           I == Places(q, type)
           g == [i \in I |-> i]
<1>1. q \in Seq(S \cup T) /\ r \in Seq(S \cup T) /\ Len(q) \in Nat /\ Len(r) \in Nat
  OBVIOUS
<1>2. /\ both \in Seq(S \cup T) /\ Len(both) = Len(q) + Len(r)
      /\ \A i \in 1 .. Len(q) + Len(r) :
            both[i] = IF i <= Len(q) THEN q[i] ELSE r[i - Len(q)]
  BY <1>1, ConcatProperties
<1> HIDE DEF both
<1>3. ASSUME NEW i \in Places(both, type)
      PROVE  i \in I
  <2>1. i \in 1 .. Len(q) + Len(r) /\ both[i].type = type
    BY <1>2 DEF Places
  <2>2. CASE i <= Len(q)
    BY <1>1, <1>2, <2>1, <2>2 DEF Places
  <2>3. CASE ~(i <= Len(q))
    <3>1. i - Len(q) \in 1 .. Len(r)
      BY <1>1, <2>1, <2>3
    <3>2. r[i - Len(q)] \in T
      BY <3>1
    <3> QED BY <1>2, <2>1, <2>3, <3>2
  <2> QED BY <2>2, <2>3
<1>4. /\ I \in SUBSET Nat /\ IsFiniteSet(I)
      /\ \A i \in I : i \in 1 .. Len(q) /\ q[i].type = type
  BY PlacesType
<1>5. ASSUME NEW i \in I
      PROVE  both[i] = q[i] /\ i \in Places(both, type)
  <2>1. i \in 1 .. Len(q) + Len(r) /\ i <= Len(q)
    BY <1>1, <1>4
  <2>2. both[i] = q[i]
    BY <1>2, <2>1
  <2> QED BY <1>2, <1>4, <2>1, <2>2 DEF Places
<1>6. Places(both, type) = I
  BY <1>3, <1>5
<1>7. g \in [I -> I] /\ \A i \in I : g[i] = i /\ both[i] = q[g[i]]
  BY <1>5
<1> HIDE DEF g, I
<1>8. \A i, k \in I : i < k => g[i] < g[k]
  BY <1>7
<1>9. \A j \in I : \E i \in I : g[i] = j
  BY <1>7
<1>10. Subsequence(both, I) = Subsequence(q, I)
  BY <1>4, <1>7, <1>8, <1>9, SameSubsequence
<1> QED BY <1>6, <1>10 DEF Only, I, both

-----------------------------------------------------------------------------
(* The steps of the runtime seen from the pipeline                         *)

\* The pipeline with the reports of the bus as its queue, and what is proved of
\* it.  PipelineView is the same instance without the proofs.
View == INSTANCE OrderPipeline_proofs WITH bus <- Queued("EXECUTION_REPORT")

\* The two instances are one specification.
LEMMA SameInit == PipelineView!Init <=> View!Init
  BY DEF PipelineView!Init, PipelineView!NoMarks, PipelineView!NoReport,
         PipelineView!Flat, PipelineView!Sides, View!Init, View!NoMarks,
         View!NoReport, View!Flat, View!Sides

LEMMA SameVars ==
    PipelineView!vars = View!vars /\ PipelineView!vars' = View!vars'
  BY DEF PipelineView!vars, PipelineView!memory, PipelineView!disk,
         PipelineView!exchange, PipelineView!counters, View!vars, View!memory,
         View!disk, View!exchange, View!counters

LEMMA SameNext == PipelineView!Next <=> View!Next
  BY DEF PipelineView!Abs, PipelineView!Larger, PipelineView!Flat,
         PipelineView!MarkOf, PipelineView!Notionals, PipelineView!NetExposure,
         PipelineView!GrossExposure, PipelineView!Overweight,
         PipelineView!CriticalCodes, PipelineView!BreachCodes,
         PipelineView!IfFound, PipelineView!Breaches,
         PipelineView!Cardinality,
         PipelineView!ProjectedGross,
         PipelineView!EffectiveMin, PipelineView!RiskAllows,
         PipelineView!SumFunction, PipelineView!SumFunctionOnSet,
         PipelineView!FoldFunctionOnSet, PipelineView!MapThenFoldSet,
         PipelineView!Sides, PipelineView!Sign, PipelineView!OrderKinds,
         PipelineView!OrderStatuses, PipelineView!Orders,
         PipelineView!Requests, PipelineView!Marks, PipelineView!NoMarks,
         PipelineView!Reports, PipelineView!NoReport, PipelineView!Causes,
         PipelineView!memory, PipelineView!disk, PipelineView!exchange,
         PipelineView!counters, PipelineView!vars, PipelineView!PerSide,
         PipelineView!Books, PipelineView!ExchangePosition, PipelineView!Add,
         PipelineView!Init, PipelineView!Return, PipelineView!Fail,
         PipelineView!Fault, PipelineView!Accept, PipelineView!Submit,
         PipelineView!RouteFails, PipelineView!Precise,
         PipelineView!RouteAndCheck, PipelineView!StatusMap,
         PipelineView!ReportStatus, PipelineView!Execute,
         PipelineView!CreateOrder, PipelineView!CreateOrderRaises,
         PipelineView!RecordReport, PipelineView!RecordReportRaises,
         PipelineView!Between, PipelineView!AfterFill, PipelineView!Delta,
         PipelineView!BookFill, PipelineView!NoFill,
         PipelineView!FillWithoutPrice, PipelineView!RecordTrade,
         PipelineView!RecordTradeRaises, PipelineView!ValidateBook,
         PipelineView!SaveState,
         PipelineView!SaveStateRaises, PipelineView!PublishReport,
         PipelineView!SubmitStep, PipelineView!DeliverReport,
         PipelineView!LateFill, PipelineView!Unsaved, PipelineView!Restart,
         PipelineView!CrashAndRestart, PipelineView!StopAndRestart,
         PipelineView!Environment, PipelineView!Next, View!Abs, View!Larger,
         View!Flat, View!MarkOf, View!Notionals, View!NetExposure,
         View!GrossExposure, View!Overweight, View!CriticalCodes,
         View!BreachCodes, View!IfFound, View!Breaches, View!Cardinality,
         View!ProjectedGross,
         View!EffectiveMin, View!RiskAllows, View!SumFunction,
         View!SumFunctionOnSet, View!FoldFunctionOnSet, View!MapThenFoldSet,
         View!Sides, View!Sign, View!OrderKinds, View!OrderStatuses,
         View!Orders, View!Requests, View!Marks, View!NoMarks, View!Reports,
         View!NoReport, View!Causes, View!memory, View!disk, View!exchange,
         View!counters, View!vars, View!PerSide, View!Books,
         View!ExchangePosition, View!Add, View!Init, View!Return, View!Fail,
         View!Fault, View!Accept, View!Submit, View!RouteFails, View!Precise,
         View!RouteAndCheck, View!StatusMap, View!ReportStatus, View!Execute,
         View!CreateOrder, View!CreateOrderRaises, View!RecordReport,
         View!RecordReportRaises, View!Between, View!AfterFill, View!Delta,
         View!BookFill, View!NoFill, View!FillWithoutPrice, View!RecordTrade,
         View!RecordTradeRaises, View!ValidateBook, View!SaveState,
         View!SaveStateRaises,
         View!PublishReport, View!SubmitStep, View!DeliverReport,
         View!LateFill, View!Unsaved, View!Restart, View!CrashAndRestart,
         View!StopAndRestart, View!Environment, View!Next

\* What the steps are made of does not depend on the bus.
LEMMA SameParts ==
    /\ Pipeline!Fail <=> View!Fail
    /\ Pipeline!Return <=> View!Return
    /\ Pipeline!disk = View!disk /\ Pipeline!disk' = View!disk'
    /\ Pipeline!exchange = View!exchange /\ Pipeline!exchange' = View!exchange'
    /\ Pipeline!counters = View!counters /\ Pipeline!counters' = View!counters'
    /\ Pipeline!StatusMap = View!StatusMap
    /\ \A cause, filled : Pipeline!Fault(cause, filled) <=> View!Fault(cause, filled)
    /\ \A filled, open : Pipeline!Execute(filled, open) <=> View!Execute(filled, open)
    /\ \A side : Pipeline!Sign(side) = View!Sign(side)
    /\ \A qty : Pipeline!Precise(qty) = View!Precise(qty)
    /\ \A raw, filled, qty :
          Pipeline!ReportStatus(raw, filled, qty) = View!ReportStatus(raw, filled, qty)
    /\ \A table, s, side, n :
          Pipeline!Add(table, s, side, n) = View!Add(table, s, side, n)
    /\ \A book, m : Pipeline!Breaches(book, m) = View!Breaches(book, m)
    /\ \A book, m, s, sign, qty, ref :
          Pipeline!RiskAllows(book, m, s, sign, qty, ref)
            <=> View!RiskAllows(book, m, s, sign, qty, ref)
    /\ \A pos, delta, price :
          Pipeline!AfterFill(pos, delta, price) = View!AfterFill(pos, delta, price)
    /\ Pipeline!Delta = View!Delta
  BY DEF Pipeline!Fail, Pipeline!Return, Pipeline!NoMarks,
         Pipeline!NoReport, Pipeline!disk, Pipeline!exchange,
         Pipeline!counters, Pipeline!StatusMap, Pipeline!Fault,
         Pipeline!Execute, Pipeline!Sign, Pipeline!Precise,
         Pipeline!ReportStatus, Pipeline!Add, Pipeline!IfFound,
         Pipeline!Breaches, Pipeline!Cardinality,
         Pipeline!RiskAllows, Pipeline!AfterFill, Pipeline!Between,
         Pipeline!Delta, Pipeline!Abs, Pipeline!Larger, Pipeline!MarkOf,
         Pipeline!Notionals, Pipeline!NetExposure, Pipeline!GrossExposure,
         Pipeline!Overweight, Pipeline!CriticalCodes,
         Pipeline!BreachCodes, Pipeline!ProjectedGross,
         Pipeline!EffectiveMin, Pipeline!SumFunction,
         Pipeline!SumFunctionOnSet, Pipeline!FoldFunctionOnSet,
         Pipeline!MapThenFoldSet, View!Fail, View!Return, View!NoMarks,
         View!NoReport, View!disk, View!exchange, View!counters,
         View!StatusMap, View!Fault, View!Execute, View!Sign,
         View!Precise, View!ReportStatus, View!Add, View!IfFound,
         View!Breaches, View!Cardinality,
         View!RiskAllows, View!AfterFill, View!Between, View!Delta,
         View!Abs, View!Larger, View!MarkOf, View!Notionals,
         View!NetExposure, View!GrossExposure, View!Overweight,
         View!CriticalCodes, View!BreachCodes, View!ProjectedGross,
         View!EffectiveMin, View!SumFunction, View!SumFunctionOnSet,
         View!FoldFunctionOnSet, View!MapThenFoldSet

\* A step of submit() that publishes nothing is the pipeline's own.
LEMMA QuietSubmitStep ==
    ASSUME Pipeline!SubmitStep, ~Pipeline!PublishReport,
           Queued("EXECUTION_REPORT")' = Queued("EXECUTION_REPORT")
    PROVE  View!SubmitStep
<1>1. Pipeline!RouteFails => View!RouteFails
  BY SameParts DEF Pipeline!RouteFails, View!RouteFails
<1>2. Pipeline!RouteAndCheck => View!RouteAndCheck
  BY SameParts DEF Pipeline!RouteAndCheck, View!RouteAndCheck
<1>3. Pipeline!CreateOrder => View!CreateOrder
  BY SameParts DEF Pipeline!CreateOrder, View!CreateOrder
<1>4. Pipeline!CreateOrderRaises => View!CreateOrderRaises
  BY SameParts DEF Pipeline!CreateOrderRaises, View!CreateOrderRaises
<1>5. Pipeline!RecordReport => View!RecordReport
  BY SameParts DEF Pipeline!RecordReport, View!RecordReport
<1>6. Pipeline!RecordReportRaises => View!RecordReportRaises
  BY SameParts DEF Pipeline!RecordReportRaises, View!RecordReportRaises
<1>7. Pipeline!BookFill => View!BookFill
  BY SameParts DEF Pipeline!BookFill, View!BookFill
<1>8. Pipeline!NoFill => View!NoFill
  BY SameParts DEF Pipeline!NoFill, View!NoFill, Pipeline!memory, View!memory
<1>9. Pipeline!FillWithoutPrice => View!FillWithoutPrice
  BY SameParts DEF Pipeline!FillWithoutPrice, View!FillWithoutPrice
<1>10. Pipeline!RecordTrade => View!RecordTrade
  BY SameParts
  DEF Pipeline!RecordTrade, View!RecordTrade, Pipeline!memory, View!memory
<1>11. Pipeline!RecordTradeRaises => View!RecordTradeRaises
  BY SameParts DEF Pipeline!RecordTradeRaises, View!RecordTradeRaises
<1>12. Pipeline!SaveState => View!SaveState
  BY SameParts
  DEF Pipeline!SaveState, View!SaveState, Pipeline!memory, View!memory
<1>13. Pipeline!SaveStateRaises => View!SaveStateRaises
  BY SameParts DEF Pipeline!SaveStateRaises, View!SaveStateRaises
<1>14. Pipeline!ValidateBook => View!ValidateBook
  BY SameParts DEF Pipeline!ValidateBook, View!ValidateBook
<1> QED
  BY <1>1, <1>2, <1>3, <1>4, <1>5, <1>6, <1>7, <1>8, <1>9, <1>10, <1>11, <1>12,
     <1>13, <1>14
  DEF Pipeline!SubmitStep, View!SubmitStep

\* The types the pipeline has for an order, its mark prices and its report are
\* the ones the bus carries.
LEMMA SameTypes ==
    /\ Pipeline!Requests = View!Requests /\ Pipeline!Marks = View!Marks
    /\ Pipeline!Books = View!Books /\ Pipeline!NoMarks = View!NoMarks
    /\ View!BreachCodes = BreachCodes
  BY DEF Pipeline!Requests, Pipeline!Sides, Pipeline!OrderKinds, Pipeline!Marks,
         Pipeline!Books, Pipeline!NoMarks, View!Requests, View!Sides,
         View!OrderKinds, View!Marks, View!Books, View!NoMarks,
         View!BreachCodes, View!CriticalCodes, BreachCodes, CriticalCodes

\* Queued before and after a step, of one operator.
LEMMA QueuedIsOnly ==
    \A type : Queued(type) = Only(bus, type) /\ Queued(type)' = Only(bus', type)
  BY DEF Queued, Only

\* An event that is no report is taken off the bus, or put there, or both.
LEMMA ReportsKept ==
    ASSUME NEW S, bus \in Seq(S),
           \/ bus' = bus
           \/ \E e : e.type # "EXECUTION_REPORT" /\ bus' = Append(bus, e)
           \/ /\ bus # << >> /\ Head(bus).type # "EXECUTION_REPORT"
              /\ \/ bus' = Tail(bus)
                 \/ \E e : /\ e.type # "EXECUTION_REPORT"
                           /\ bus' = Append(Tail(bus), e)
    PROVE  Queued("EXECUTION_REPORT")' = Queued("EXECUTION_REPORT")
<1>1. CASE bus' = bus
  BY <1>1, QueuedIsOnly
<1>2. ASSUME NEW e, e.type # "EXECUTION_REPORT", bus' = Append(bus, e)
      PROVE  Queued("EXECUTION_REPORT")' = Queued("EXECUTION_REPORT")
  BY <1>2, OnlyAppend, QueuedIsOnly
<1>3. ASSUME bus # << >>, Head(bus).type # "EXECUTION_REPORT"
      PROVE  /\ Only(Tail(bus), "EXECUTION_REPORT") = Only(bus, "EXECUTION_REPORT")
             /\ Tail(bus) \in Seq(S)
  BY <1>3, OnlyTail
<1>4. ASSUME bus # << >>, Head(bus).type # "EXECUTION_REPORT", bus' = Tail(bus)
      PROVE  Queued("EXECUTION_REPORT")' = Queued("EXECUTION_REPORT")
  BY <1>3, <1>4, QueuedIsOnly
<1>5. ASSUME bus # << >>, Head(bus).type # "EXECUTION_REPORT",
             NEW e, e.type # "EXECUTION_REPORT", bus' = Append(Tail(bus), e)
      PROVE  Queued("EXECUTION_REPORT")' = Queued("EXECUTION_REPORT")
  BY <1>3, <1>5, OnlyAppend, QueuedIsOnly
<1> QED BY <1>1, <1>2, <1>4, <1>5

\* A step that changes nothing of the pipeline and no report in the queue is a
\* stutter.
LEMMA Stutter ==
    ASSUME UNCHANGED pipeline,
           Queued("EXECUTION_REPORT")' = Queued("EXECUTION_REPORT")
    PROVE  UNCHANGED View!vars
  BY DEF pipeline, View!vars, View!memory, View!disk, View!exchange, View!counters

\* The pipeline's steps seen from the pipeline: every step of the runtime is a
\* step of OrderPipeline or leaves all of it as it was.
LEMMA ViewOnOrderBook ==
    ASSUME bus \in Seq(Events), OnOrderBook
    PROVE  UNCHANGED View!vars
<1>1. /\ bus # << >> /\ Head(bus).type # "EXECUTION_REPORT"
      /\ UNCHANGED pipeline
  BY DEF OnOrderBook, OldestIs
<1>2. \/ bus' = Tail(bus)
      \/ \E e : e.type # "EXECUTION_REPORT" /\ bus' = Append(Tail(bus), e)
  <2>1. \A s, side, qty : OrderRequest(s, side, qty).type # "EXECUTION_REPORT"
    BY DEF OrderRequest
  <2> QED
    BY <2>1 DEF OnOrderBook, NoSignal, EnterPosition, BlockBadTrend, ExitPosition,
                Ask
<1> QED BY <1>1, <1>2, ReportsKept, Stutter

\* An order request handed over is the pipeline's Submit.
LEMMA ViewOnOrderRequest ==
    ASSUME bus \in Seq(Events), OnOrderRequest
    PROVE  View!Next
<1> DEFINE o == Head(bus).order
           m == Head(bus).marks
<1>1. /\ bus # << >> /\ Head(bus).type = "ORDER_REQUEST" /\ bus' = Tail(bus)
      /\ Pipeline!Accept(o, m)
  BY DEF OnOrderRequest, OldestIs
<1>2. o \in Pipeline!Requests /\ m \in Pipeline!Marks
  <2>1. Head(bus) \in Events
    BY <1>1
  <2> QED BY <1>1, <2>1 DEF Events
<1> HIDE DEF o, m
<1>3. Queued("EXECUTION_REPORT")' = Queued("EXECUTION_REPORT")
  BY <1>1, ReportsKept
<1>4. View!Submit(o, m)
  BY <1>1, <1>3, SameParts DEF Pipeline!Accept, View!Submit, View!Accept
<1> QED BY <1>2, <1>4, SameTypes DEF View!Next

\* Of the steps of submit() only the last one publishes.
LEMMA QuietBus ==
    ASSUME Pipeline!SubmitStep, ~Pipeline!PublishReport
    PROVE  bus' = bus
  BY DEF Pipeline!SubmitStep, Pipeline!RouteFails,
        Pipeline!RouteAndCheck, Pipeline!CreateOrder,
        Pipeline!CreateOrderRaises, Pipeline!RecordReport,
        Pipeline!RecordReportRaises, Pipeline!BookFill, Pipeline!NoFill,
        Pipeline!FillWithoutPrice, Pipeline!RecordTrade,
        Pipeline!RecordTradeRaises, Pipeline!ValidateBook, Pipeline!SaveState,
        Pipeline!SaveStateRaises, Pipeline!memory

\* submit() is the pipeline's own; publishing the report lengthens its queue.
LEMMA ViewSubmitStep ==
    ASSUME bus \in Seq(Events), SubmitStep
    PROVE  View!Next
<1>1. CASE Pipeline!PublishReport
  <2> DEFINE e == [type |-> "EXECUTION_REPORT", breaches |-> breaches]
  <2>1. bus' = Append(bus, e) /\ e.type = "EXECUTION_REPORT"
    BY <1>1 DEF Pipeline!PublishReport
  <2>2. Queued("EXECUTION_REPORT")' = Append(Queued("EXECUTION_REPORT"), e)
    <3> HIDE DEF e
    <3> QED BY <2>1, OnlyAppend, QueuedIsOnly
  <2>3. View!PublishReport
    BY <1>1, <2>2, SameParts DEF Pipeline!PublishReport, View!PublishReport
  <2> QED BY <2>3 DEF View!Next, View!SubmitStep
<1>2. CASE ~Pipeline!PublishReport
  <2>1. bus' = bus
    BY <1>2, QuietBus DEF SubmitStep
  <2>2. Queued("EXECUTION_REPORT")' = Queued("EXECUTION_REPORT")
    BY <2>1, QueuedIsOnly
  <2>3. View!SubmitStep
    BY <1>2, <2>2, QuietSubmitStep DEF SubmitStep
  <2> QED BY <2>3 DEF View!Next
<1> QED BY <1>1, <1>2

\* The report handled is the oldest of the pipeline's queue.
LEMMA ViewOnExecutionReport ==
    ASSUME bus \in Seq(Events), OnExecutionReport
    PROVE  View!Next
<1> DEFINE breached == Head(bus).breaches
<1>1. /\ bus # << >> /\ Head(bus).type = "EXECUTION_REPORT" /\ pc = "idle"
      /\ bus' = Tail(bus) \o RiskEvents(breached) /\ UNCHANGED pipeline
  BY DEF OnExecutionReport, OldestIs
<1>2. /\ RiskEvents(breached) \in Seq(BreachEvents)
      /\ \A e \in BreachEvents : e.type # "EXECUTION_REPORT"
  <2>1. breached \in Seq(BreachCodes)
    BY <1>1 DEF Events
  <2> QED BY <2>1, RiskEventsType DEF BreachEvents
<1> HIDE DEF breached
<1>3. /\ Only(bus, "EXECUTION_REPORT") # << >>
      /\ Only(Tail(bus), "EXECUTION_REPORT") = Tail(Only(bus, "EXECUTION_REPORT"))
      /\ Tail(bus) \in Seq(Events)
  BY <1>1, OnlyTail
<1>4. Only(bus', "EXECUTION_REPORT") = Tail(Only(bus, "EXECUTION_REPORT"))
  BY <1>1, <1>2, <1>3, OnlyConcat
<1>5. View!DeliverReport
  BY <1>1, <1>3, <1>4, QueuedIsOnly
  DEF View!DeliverReport, pipeline, View!disk, View!exchange, View!counters
<1> QED BY <1>5 DEF View!Next, View!Environment

\* A new process is the pipeline's restart, whose queue is empty too.
LEMMA ViewEnd ==
    ASSUME Stop \/ Crash
    PROVE  View!Next
<1>1. bus' = << >>
  BY DEF Stop, Crash, Pipeline!StopAndRestart, Pipeline!CrashAndRestart,
         Pipeline!Restart
<1>2. Queued("EXECUTION_REPORT")' = << >>
  <2>1. << >> \in Seq({}) /\ Len(<< >>) = 0
    OBVIOUS
  <2>2. Only(<< >>, "EXECUTION_REPORT")
          \in Seq({e \in {} : e.type = "EXECUTION_REPORT"})
    BY <2>1, OnlyType
  <2>3. Only(<< >>, "EXECUTION_REPORT") = << >>
    BY <2>2
  <2> QED BY <1>1, <2>3, QueuedIsOnly
<1>3. Pipeline!Restart => View!Restart
  BY <1>2, SameParts DEF Pipeline!Restart, View!Restart, Pipeline!Flat, View!Flat
<1>4. View!StopAndRestart \/ View!CrashAndRestart
  BY <1>3, SameParts
  DEF Stop, Crash, Pipeline!StopAndRestart, Pipeline!CrashAndRestart,
      Pipeline!Unsaved, View!StopAndRestart, View!CrashAndRestart, View!Unsaved
<1> QED BY <1>4 DEF View!Next, View!Environment

\* The exchange is the same one.
LEMMA ViewLateFill ==
    ASSUME LateFill
    PROVE  View!Next
<1>1. PICK s \in Symbols, side \in Pipeline!Sides : Pipeline!LateFill(s, side)
  BY DEF LateFill
<1>2. Queued("EXECUTION_REPORT")' = Queued("EXECUTION_REPORT")
  <2>1. bus' = bus
    BY <1>1 DEF Pipeline!LateFill, Pipeline!memory
  <2> QED BY <2>1, QueuedIsOnly
<1>3. View!LateFill(s, side)
  BY <1>1, <1>2, SameParts
  DEF Pipeline!LateFill, Pipeline!memory, View!LateFill, View!memory
<1>4. side \in View!Sides
  BY DEF Pipeline!Sides, View!Sides
<1> QED BY <1>3, <1>4 DEF View!Next, View!Environment

\* Every step of the runtime is a step of the pipeline or a stutter of it.
LEMMA ViewStep == bus \in Seq(Events) /\ [Next]_vars => [View!Next]_View!vars
<1> SUFFICES ASSUME bus \in Seq(Events), [Next]_vars
             PROVE  View!Next \/ UNCHANGED View!vars
  OBVIOUS
<1>1. CASE OnOrderBook
  BY <1>1, ViewOnOrderBook
<1>2. CASE OnOrderRequest
  BY <1>2, ViewOnOrderRequest
<1>3. CASE SubmitStep
  BY <1>3, ViewSubmitStep
<1>4. CASE OnExecutionReport
  BY <1>4, ViewOnExecutionReport
<1>5. CASE OnRiskBreach
  BY <1>5, ReportsKept, Stutter DEF OnRiskBreach, OldestIs
<1>6. ASSUME NEW s \in Symbols, NEW p \in Prices, MarketTick(s, p)
      PROVE  UNCHANGED View!vars
  BY <1>6, ReportsKept, Stutter DEF MarketTick
<1>7. ASSUME NEW s \in Symbols, OrderBook(s)
      PROVE  UNCHANGED View!vars
  <2>1. \E e : e.type # "EXECUTION_REPORT" /\ bus' = Append(bus, e)
    BY <1>7 DEF OrderBook
  <2> QED BY <1>7, <2>1, ReportsKept, Stutter DEF OrderBook
<1>8. ASSUME NEW s \in Symbols, TrapStart(s) \/ CooldownEnds(s)
      PROVE  UNCHANGED View!vars
  BY <1>8, ReportsKept, Stutter DEF TrapStart, CooldownEnds
<1>9. CASE TrapBuys
  <2>1. \E e : e.type # "EXECUTION_REPORT" /\ bus' = Append(bus, e)
    BY <1>9 DEF TrapBuys, OrderRequest
  <2> QED BY <1>9, <2>1, ReportsKept, Stutter DEF TrapBuys
<1>10. CASE TrapPasses
  BY <1>10, ReportsKept, Stutter DEF TrapPasses
<1>11. CASE Stop \/ Crash
  BY <1>11, ViewEnd
<1>12. CASE LateFill
  BY <1>12, ViewLateFill
<1>13. CASE UNCHANGED vars
  BY <1>13, ReportsKept, Stutter DEF vars
<1> QED
  BY <1>1, <1>2, <1>3, <1>4, <1>5, <1>6, <1>7, <1>8, <1>9, <1>10, <1>11, <1>12,
     <1>13
  DEF Next, BusStep

\* The constants are good for the pipeline, too.
LEMMA ViewAssumptions == View!PipelineAssumption /\ View!ExposureAssumption
<1>1. View!IsFiniteSet(Symbols)
  BY ExposureAssumption DEF View!IsFiniteSet, IsFiniteSet
<1> QED
  BY <1>1, RuntimeAssumption, ExposureAssumption
  DEF View!PipelineAssumption, View!ExposureAssumption

\* The initial states are the pipeline's.
LEMMA ViewInit == Init => View!Init
<1> SUFFICES ASSUME Init
             PROVE  View!Init
  OBVIOUS
<1>1. bus = << >>
  BY DEF Init, Pipeline!Init
<1>2. Queued("EXECUTION_REPORT") = << >>
  <2>1. Places(<< >>, "EXECUTION_REPORT") = {}
    BY DEF Places
  <2> QED BY <1>1, <2>1, FS_EmptySet, SelectedType DEF Queued
<1> QED
  BY <1>2
  DEF Init, Pipeline!Init, Pipeline!NoMarks, Pipeline!NoReport, Pipeline!Flat,
      Pipeline!Sides, View!Init, View!NoMarks, View!NoReport, View!Flat, View!Sides

-----------------------------------------------------------------------------
(* Types                                                                   *)

\* The initial states have the types.
LEMMA TypeInit == Init => TypeOK
<1> SUFFICES ASSUME Init
             PROVE  TypeOK
  OBVIOUS
<1>1. bus = << >> /\ pc = "idle" /\ grace = 0 /\ undelivered = 0
  BY DEF Init, Pipeline!Init
<1>2. market \in Pipeline!Marks
  BY DEF Init, Pipeline!NoMarks, Pipeline!Marks
<1>3. blocked \in [Symbols -> BlockReasons \cup {"NO"}]
  BY DEF Init, NothingBlocked
<1>4. bus \in Seq(Events) /\ grace \in Int /\ undelivered \in Int
  BY <1>1
<1> QED BY <1>1, <1>2, <1>3, <1>4 DEF Init, TypeOK

\* Together with the types the pipeline has.
Types == TypeOK /\ View!TypeOK

\* What the bus carries is an event.
LEMMA EventTypes ==
    /\ \A s \in Symbols : [type |-> "ORDERBOOK_SNAPSHOT", symbol |-> s] \in Events
    /\ \A breached \in Seq(BreachCodes) :
          [type |-> "EXECUTION_REPORT", breaches |-> breached] \in Events
    /\ BreachEvents \subseteq Events
  BY DEF Events, BreachEvents

\* What asks for an order is an event.
LEMMA OrderRequestType ==
    ASSUME TypeOK, NEW s \in Symbols, NEW side \in {"BUY", "SELL"},
           NEW qty \in Quantities
    PROVE  OrderRequest(s, side, qty) \in Events
<1>1. market \in Pipeline!Marks
  BY DEF TypeOK
<1> QED
  BY <1>1
  DEF OrderRequest, Events, Pipeline!Requests, Pipeline!Sides, Pipeline!OrderKinds

\* The oldest event is an event and the rest of the queue holds events.
LEMMA BusTail ==
    ASSUME TypeOK, bus # << >>
    PROVE  Head(bus) \in Events /\ Tail(bus) \in Seq(Events)
  BY HeadTailProperties DEF TypeOK

\* The strategy queues requests the pipeline accepts.
LEMMA TypeOnOrderBook ==
    ASSUME Types, OnOrderBook
    PROVE  TypeOK'
<1> DEFINE s == Head(bus).symbol
<1>1. /\ bus # << >> /\ Head(bus).type = "ORDERBOOK_SNAPSHOT" /\ pc = "idle"
      /\ UNCHANGED <<pc, market, trapCool, scan, killed, grace, alarm, undelivered>>
      /\ draining' \in BOOLEAN
  BY DEF OnOrderBook, OldestIs, pipeline, trap, risk, found, KeepsLoop
<1>2. Head(bus) \in Events /\ Tail(bus) \in Seq(Events)
  BY <1>1, BusTail DEF Types
<1>3. s \in Symbols
  BY <1>1, <1>2 DEF Events
<1>4. ledger \in Pipeline!Books
  BY SameTypes DEF Types, View!TypeOK
<1>5. ledger[s].qty \in Int
  BY <1>3, <1>4 DEF Pipeline!Books
<1> HIDE DEF s
<1>6. /\ bus' \in Seq(Events)
      /\ entryCool' \subseteq Symbols /\ exitCool' \subseteq Symbols
      /\ blocked' \in [Symbols -> BlockReasons \cup {"NO"}]
  <2>a. /\ entryCool \subseteq Symbols /\ exitCool \subseteq Symbols
        /\ blocked \in [Symbols -> BlockReasons \cup {"NO"}]
    BY DEF Types, TypeOK
  <2>b. /\ [blocked EXCEPT ![s] = "EXIT"] \in [Symbols -> BlockReasons \cup {"NO"}]
        /\ [blocked EXCEPT ![s] = "TREND"] \in [Symbols -> BlockReasons \cup {"NO"}]
    BY <2>a DEF BlockReasons
  <2>1. CASE NoSignal
    BY <1>2, <2>1, <2>a DEF NoSignal, cooldowns
  <2>2. CASE EnterPosition(s)
    <3>1. PICK side \in EntrySides, q \in EntryQuantities : Ask(s, side, q)
      BY <2>2 DEF EnterPosition
    <3>2. side \in {"BUY", "SELL"} /\ q \in Quantities
      BY RuntimeAssumption DEF EntrySides, Pipeline!Sides
    <3>3. OrderRequest(s, side, q) \in Events
      BY <1>3, <3>2, OrderRequestType DEF Types
    <3>4. bus' \in Seq(Events)
      BY <1>2, <3>1, <3>3 DEF Ask
    <3> QED BY <1>3, <2>2, <2>a, <3>4 DEF EnterPosition
  <2>3. CASE BlockBadTrend(s)
    BY <1>2, <2>3, <2>a, <2>b DEF BlockBadTrend
  <2>4. CASE ExitPosition(s)
    <3> DEFINE qty == ledger[s].qty
               side == IF qty > 0 THEN "SELL" ELSE "BUY"
    <3>1. Ask(s, side, Abs(qty))
      BY <2>4 DEF ExitPosition
    <3>2. side \in {"BUY", "SELL"} /\ Abs(qty) \in Quantities
      BY <2>4 DEF ExitPosition
    <3> HIDE DEF side, qty
    <3>3. OrderRequest(s, side, Abs(qty)) \in Events
      BY <1>3, <3>2, OrderRequestType DEF Types
    <3>4. bus' \in Seq(Events)
      BY <1>2, <3>1, <3>3 DEF Ask
    <3> QED BY <1>3, <2>4, <2>a, <2>b, <3>4 DEF ExitPosition
  <2> QED BY <2>1, <2>2, <2>3, <2>4 DEF OnOrderBook, s
<1> QED BY <1>1, <1>6 DEF Types, TypeOK

\* What a step leaves behind when it touches the bus and the pipeline only.
LEMMA TypeServices ==
    ASSUME TypeOK, bus' \in Seq(Events),
           UNCHANGED <<market, cooldowns, trap, killed>>,
           grace' \in Int, alarm' \in BOOLEAN, undelivered' \in Int, KeepsLoop
    PROVE  TypeOK'
  BY DEF TypeOK, cooldowns, trap, KeepsLoop

\* submit() publishes a report.
LEMMA TypeSubmitStep ==
    ASSUME Types, SubmitStep
    PROVE  TypeOK'
<1>1. UNCHANGED <<market, cooldowns, trap, killed, grace>> /\ KeepsLoop
  BY DEF SubmitStep
<1>2. bus' \in Seq(Events)
  <2>1. CASE Pipeline!PublishReport
    <3>1. breaches \in Seq(BreachCodes)
      BY SameTypes DEF Types, View!TypeOK
    <3>2. [type |-> "EXECUTION_REPORT", breaches |-> breaches] \in Events
      BY <3>1, EventTypes
    <3> QED BY <2>1, <3>2 DEF Pipeline!PublishReport, Types, TypeOK
  <2>2. CASE ~Pipeline!PublishReport
    <3>1. bus' = bus
      BY <2>2, QuietBus DEF SubmitStep
    <3> QED BY <3>1 DEF Types, TypeOK
  <2> QED BY <2>1, <2>2
<1>3. alarm' \in BOOLEAN /\ undelivered' \in Int
  <2>1. alarm \in BOOLEAN /\ undelivered \in Int
    BY DEF Types, TypeOK
  <2>2. View!TypeOK'
    BY ViewSubmitStep, ViewAssumptions, View!TypeStep DEF Types, TypeOK
  <2>3. breaches' \in Seq(BreachCodes)
    BY <2>2, SameTypes DEF View!TypeOK
  <2>4. Len(breaches') \in Nat /\ IsCritical(breaches') \in BOOLEAN
    BY <2>3 DEF IsCritical
  <2> QED BY <2>1, <2>4 DEF SubmitStep, NotesBreaches, found
<1> QED BY <1>1, <1>2, <1>3, TypeServices DEF Types, TypeOK

\* The risk service publishes breaches.
LEMMA TypeOnExecutionReport ==
    ASSUME Types, OnExecutionReport
    PROVE  TypeOK'
<1> DEFINE breached == Head(bus).breaches
           triggers == ~killed /\ IsCritical(breached)
<1>0. breached \in Seq(BreachCodes)
  BY BusTail DEF OnExecutionReport, OldestIs, Events, Types
<1>1. /\ bus # << >> /\ bus' = Tail(bus) \o RiskEvents(breached)
      /\ killed' = (killed \/ triggers)
      /\ grace' = IF triggers THEN Requested + (IF scan = NoScan THEN 0 ELSE 1)
                              ELSE grace
      /\ UNCHANGED <<market, cooldowns, trap, alarm, undelivered>> /\ KeepsLoop
  BY DEF OnExecutionReport, OldestIs, found
<1> HIDE DEF breached, triggers
<1>2. Tail(bus) \in Seq(Events)
  BY <1>1, BusTail DEF Types
<1>3. RiskEvents(breached) \in Seq(Events)
  BY <1>0, RiskEventsType, EventTypes, SeqMonotonic
<1>4. bus' \in Seq(Events)
  BY <1>1, <1>2, <1>3, ConcatProperties
<1>5. Requested \in Nat
  BY CountType DEF Types, TypeOK, Requested, Count, Asks
<1>6. grace' \in Int
  BY <1>1, <1>5 DEF Types, TypeOK
<1>7. killed' \in BOOLEAN
  BY <1>1 DEF Types, TypeOK
<1> QED BY <1>1, <1>4, <1>6, <1>7 DEF Types, TypeOK, cooldowns, trap, KeepsLoop

\* Every step keeps the types of the services,
LEMMA TypeStep == Types /\ [Next]_vars => TypeOK'
<1> SUFFICES ASSUME Types, [Next]_vars
             PROVE  TypeOK'
  OBVIOUS
<1>a. TypeOK
  BY DEF Types
<1>1. CASE OnOrderBook
  BY <1>1, TypeOnOrderBook
<1>2. CASE OnOrderRequest
  <2>1. /\ bus # << >> /\ bus' = Tail(bus) /\ KeepsLoop
        /\ UNCHANGED <<market, cooldowns, trap, killed, alarm, undelivered>>
        /\ grace' \in {grace, grace - 1}
    BY <1>2 DEF OnOrderRequest, OldestIs, found
  <2>2. /\ bus' \in Seq(Events) /\ grace' \in Int
        /\ alarm' \in BOOLEAN /\ undelivered' \in Int
    BY <1>a, <2>1, BusTail DEF TypeOK
  <2> QED BY <1>a, <2>1, <2>2, TypeServices
<1>3. CASE SubmitStep
  BY <1>3, TypeSubmitStep
<1>4. CASE OnExecutionReport
  BY <1>4, TypeOnExecutionReport
<1>5. CASE OnRiskBreach
  <2>1. /\ bus # << >> /\ bus' = Tail(bus) /\ KeepsLoop
        /\ UNCHANGED <<market, cooldowns, trap, killed, grace, alarm>>
        /\ undelivered' = undelivered - 1
    BY <1>5 DEF OnRiskBreach, OldestIs
  <2>2. /\ bus' \in Seq(Events) /\ grace' \in Int
        /\ alarm' \in BOOLEAN /\ undelivered' \in Int
    BY <1>a, <2>1, BusTail DEF TypeOK
  <2> QED BY <1>a, <2>1, <2>2, TypeServices
<1>6. ASSUME NEW s \in Symbols, NEW p \in Prices, MarketTick(s, p)
      PROVE  TypeOK'
  <2>1. market' \in Pipeline!Marks
    BY <1>a, <1>6 DEF MarketTick, TypeOK, Pipeline!Marks
  <2> QED
    BY <1>a, <1>6, <2>1
    DEF MarketTick, TypeOK, pipeline, cooldowns, trap, risk, found
<1>7. ASSUME NEW s \in Symbols, OrderBook(s)
      PROVE  TypeOK'
  <2>1. bus' \in Seq(Events)
    BY <1>a, <1>7, EventTypes DEF OrderBook, TypeOK
  <2> QED
    BY <1>a, <1>7, <2>1
    DEF OrderBook, TypeOK, pipeline, cooldowns, trap, risk, found
<1>8. ASSUME NEW s \in Symbols, TrapStart(s)
      PROVE  TypeOK'
  BY <1>a, <1>8 DEF TrapStart, TypeOK, pipeline, cooldowns, risk, found
<1>9. ASSUME NEW s \in Symbols, CooldownEnds(s)
      PROVE  TypeOK'
  <2>1. /\ entryCool' \subseteq Symbols /\ exitCool' \subseteq Symbols
        /\ trapCool' \subseteq Symbols
        /\ blocked' \in [Symbols -> BlockReasons \cup {"NO"}]
    BY <1>a, <1>9 DEF CooldownEnds, TypeOK
  <2> QED BY <1>a, <1>9, <2>1 DEF CooldownEnds, TypeOK, pipeline, risk, found
<1>10. CASE TrapBuys
  <2>1. PICK q \in EntryQuantities :
           bus' = Append(bus, OrderRequest(scan, "BUY", q))
    BY <1>10 DEF TrapBuys
  <2>2. scan \in Symbols /\ q \in Quantities
    BY <1>a, <1>10, RuntimeAssumption DEF TrapBuys, TypeOK
  <2>3. bus' \in Seq(Events)
    BY <1>a, <2>1, <2>2, OrderRequestType DEF TypeOK
  <2> QED
    BY <1>a, <1>10, <2>2, <2>3 DEF TrapBuys, TypeOK, pipeline, cooldowns, risk, found
<1>11. CASE TrapPasses
  BY <1>a, <1>11 DEF TrapPasses, TypeOK, pipeline, cooldowns, risk, found
<1>12. CASE Stop \/ Crash
  <2>1. bus' = << >> /\ pc' = "idle" /\ ForgetAll
    BY <1>12 DEF Stop, Crash, Pipeline!StopAndRestart, Pipeline!CrashAndRestart,
                 Pipeline!Restart, Pipeline!Return
  <2>2. /\ market' \in Pipeline!Marks
        /\ blocked' \in [Symbols -> BlockReasons \cup {"NO"}]
    BY <2>1 DEF ForgetAll, Pipeline!NoMarks, Pipeline!Marks, NothingBlocked
  <2>3. /\ bus' = << >> /\ grace' = 0 /\ alarm' = FALSE /\ undelivered' = 0
    BY <2>1 DEF ForgetAll
  <2>4. /\ bus' \in Seq(Events) /\ grace' \in Int
        /\ alarm' \in BOOLEAN /\ undelivered' \in Int
    <3>1. bus' \in Seq(Events) /\ grace' \in Int /\ undelivered' \in Int
      BY <2>3
    <3>2. alarm' \in BOOLEAN
      BY <2>3, Zenon
    <3> QED BY <3>1, <3>2
  <2> QED BY <1>a, <2>1, <2>2, <2>4 DEF ForgetAll, TypeOK
<1>13. CASE LateFill
  <2>1. bus' = bus /\ pc' = pc
    BY <1>13 DEF LateFill, Pipeline!LateFill, Pipeline!memory
  <2> QED BY <1>a, <1>13, <2>1 DEF LateFill, TypeOK, cooldowns, trap, risk, found
<1>14. CASE UNCHANGED vars
  BY <1>a, <1>14 DEF vars, TypeOK, pipeline, cooldowns, trap, risk, found
<1> QED
  BY <1>1, <1>2, <1>3, <1>4, <1>5, <1>6, <1>7, <1>8, <1>9, <1>10, <1>11, <1>12,
     <1>13, <1>14
  DEF Next, BusStep

\* Both kinds of types hold initially
LEMMA TypesInit == Init => Types
<1>1. View!Init => View!TypeOK
  BY ViewAssumptions, View!TypeInit
<1> QED BY <1>1, TypeInit, ViewInit DEF Types

\* and are kept by every step.
LEMMA TypesStep == Types /\ [Next]_vars => Types'
<1> SUFFICES ASSUME Types, [Next]_vars
             PROVE  Types'
  OBVIOUS
<1>1. [View!Next]_View!vars
  BY ViewStep DEF Types, TypeOK
<1>2. View!TypeOK'
  BY <1>1, ViewAssumptions, View!TypeStep DEF Types
<1> QED BY <1>2, TypeStep DEF Types

\* Every variable of the services keeps its type, every queued order is one the
\* pipeline accepts, and an order in progress means the bus task holds the loop
\* (core/event_bus.py:39-63), whatever is published, fails or restarts.
THEOREM RuntimeTyped == Spec => []TypeOK
<1>1. Types => TypeOK
  BY DEF Types
<1> QED BY <1>1, TypesInit, TypesStep, PTL DEF Spec

\* Once the kill switch is triggered, the orders that still reach the pipeline
\* are those queued by then and the one of a scan already begun, however the
\* services interleave and whatever fails
\* (risk/kill_switch.py:33-38, strategies/mean_reversion_imbalance.py:250,
\* microservices/momentum_trap_service.py:112-206).
THEOREM KillSwitchStops == Spec => []KillSwitchEndsOrders
<1>1. IInv => KillSwitchEndsOrders
  <2> SUFFICES ASSUME IInv
               PROVE  grace >= 0
    BY DEF KillSwitchEndsOrders
  <2>1. Count(bus) \in Nat /\ InFlight \in Nat
    BY CountType DEF IInv, InFlight
  <2> HIDE DEF InFlight
  <2> QED BY <2>1 DEF IInv, Covered
<1>2. TypeOK => bus \in Seq(Events)
  BY DEF TypeOK
<1>3. Spec => [](bus \in Seq(Events))
  BY <1>2, RuntimeTyped, PTL
<1> QED BY <1>1, <1>3, InvInit, InvStep, PTL DEF Spec

-----------------------------------------------------------------------------
(* The order pipeline is implemented                                       *)

\* Every behaviour of the runtime is one of the pipeline.
LEMMA ViewSpec == Init /\ [][Next]_vars => View!Spec
<1>1. Types => bus \in Seq(Events)
  BY DEF Types, TypeOK
<1> QED BY <1>1, TypesInit, TypesStep, ViewInit, ViewStep, PTL DEF View!Spec

\* The runtime implements OrderPipeline: with the services, the momentum trap and
\* the risk events around it, each order still takes the pipeline's steps in its
\* order (execution/execution_pipeline.py), and only the bus delivers its reports.
THEOREM PipelineImplemented == Spec => ImplementsPipeline
<1>1. View!Init => PipelineView!Init
  BY SameInit
<1>2. [View!Next]_View!vars => [PipelineView!Next]_PipelineView!vars
  BY SameNext, SameVars
<1> QED
  BY <1>1, <1>2, ViewSpec, PTL DEF Spec, ImplementsPipeline, View!Spec

\* So what is proved of the pipeline alone is true in the runtime: between two
\* orders the books agree unless a named cause separated them,
THEOREM RuntimeBooks == Spec => []Pipeline!BooksAgree
<1>1. View!BooksAgree => Pipeline!BooksAgree
  BY DEF View!BooksAgree, Pipeline!BooksAgree, View!ExchangePosition,
         Pipeline!ExchangePosition
<1>2. View!Spec => []View!BooksAgree
  BY ViewAssumptions, View!BooksCorrect, PTL
<1> QED BY <1>1, <1>2, ViewSpec, PTL DEF Spec

\* and the trades table never holds more than the exchange executed.
THEOREM RuntimeTrades == Spec => []Pipeline!NoPhantomTrade
<1>1. View!NoPhantomTrade => Pipeline!NoPhantomTrade
  BY DEF View!NoPhantomTrade, Pipeline!NoPhantomTrade, View!Sides, Pipeline!Sides
<1>2. View!Spec => []View!NoPhantomTrade
  BY ViewAssumptions, View!TradesCorrect, PTL
<1> QED BY <1>1, <1>2, ViewSpec, PTL DEF Spec

\* What is checked of the whole order covers each fill of it in the runtime too,
\* with the marks that a request brought through the queue.
THEOREM RuntimeChecks == Spec => Pipeline!CheckCoversFill
<1> DEFINE before == Pipeline!Notionals(ledger, marks)
           after == Pipeline!Notionals(ledger', marks)
           FillIsCovered ==
             pc = "book" /\ pc' = "trade" /\ marks[order.symbol] = order.ref =>
               /\ Pipeline!GrossExposure(after)
                    <= Pipeline!Larger(MaxGross, Pipeline!GrossExposure(before))
               /\ Pipeline!Abs(Pipeline!NetExposure(after))
                    <= Pipeline!Larger(MaxNet, Pipeline!Abs(Pipeline!NetExposure(before)))
<1>1. Init => Types /\ View!CheckedInv
  BY TypesInit, ViewInit, ViewAssumptions, View!CheckedInit
<1>2. Types /\ View!CheckedInv /\ [Next]_vars =>
        /\ Types' /\ View!CheckedInv'
        /\ View!Covered
  <2> SUFFICES ASSUME Types, View!CheckedInv, [Next]_vars
               PROVE  Types' /\ View!CheckedInv' /\ View!Covered
    OBVIOUS
  <2>1. [View!Next]_View!vars
    BY ViewStep DEF Types, TypeOK
  <2>2. View!TypeOK /\ View!TypeOK' /\ Types'
    BY TypesStep DEF Types
  <2> QED
    BY <2>1, <2>2, ViewAssumptions, View!CheckedStep, View!FillCovered
<1>3. View!Covered => FillIsCovered
  BY DEF View!Covered, View!Notionals, View!MarkOf, View!GrossExposure,
         View!NetExposure, View!Larger, View!Abs, View!SumFunction,
         View!SumFunctionOnSet, View!FoldFunctionOnSet, View!MapThenFoldSet,
         Pipeline!Notionals, Pipeline!MarkOf, Pipeline!GrossExposure,
         Pipeline!NetExposure, Pipeline!Larger, Pipeline!Abs,
         Pipeline!SumFunction, Pipeline!SumFunctionOnSet,
         Pipeline!FoldFunctionOnSet, Pipeline!MapThenFoldSet
<1> HIDE DEF FillIsCovered
<1>4. Spec => [][FillIsCovered]_Pipeline!vars
  BY <1>1, <1>2, <1>3, PTL DEF Spec
<1> QED BY <1>4 DEF Pipeline!CheckCoversFill, FillIsCovered

-----------------------------------------------------------------------------
(* The orders a queue holds                                                *)

\* Where an event asks for an order of a side.
Asked(q, side) == {i \in Places(q, "ORDER_REQUEST") : q[i].order.side = side}

Wanted(q, side) == {q[i].order : i \in Asked(q, side)}

\* No two orders of the side are for one symbol.
Lone(q, side) ==
    \A i, j \in Asked(q, side) : q[i].order.symbol = q[j].order.symbol => i = j

IsOrder(e, side) == e.type = "ORDER_REQUEST" /\ e.order.side = side

\* An order asked for is one more, and none comes with another event.
LEMMA WantedAppend ==
    ASSUME NEW S, NEW q \in Seq(S), NEW e, NEW side
    PROVE  /\ ~IsOrder(e, side) =>
                 /\ Wanted(Append(q, e), side) = Wanted(q, side)
                 /\ Lone(q, side) => Lone(Append(q, e), side)
           /\ IsOrder(e, side) =>
                 /\ Wanted(Append(q, e), side) = Wanted(q, side) \cup {e.order}
                 /\ Lone(q, side)
                      /\ (\A o \in Wanted(q, side) : o.symbol # e.order.symbol)
                      => Lone(Append(q, e), side)
<1> DEFINE r == Append(q, e)
           n == Len(q) + 1
<1>1. /\ Len(r) = n /\ n \in Nat /\ r[n] = e
      /\ \A i \in 1 .. Len(q) : r[i] = q[i]
  OBVIOUS
<1> HIDE DEF r
<1>2. \A i \in 1 .. n : i \in 1 .. Len(q) \/ i = n
  BY <1>1
<1>3. \A i \in Asked(q, side) : i \in 1 .. Len(q)
  BY DEF Asked, Places
<1>4. n \notin Asked(q, side) /\ 1 .. Len(q) \subseteq 1 .. n /\ n \in 1 .. n
  BY <1>1, <1>3
<1>5. ASSUME ~IsOrder(e, side)
      PROVE  Asked(r, side) = Asked(q, side)
  BY <1>1, <1>2, <1>4, <1>5 DEF Asked, Places, IsOrder
<1>6. ASSUME IsOrder(e, side)
      PROVE  Asked(r, side) = Asked(q, side) \cup {n}
  BY <1>1, <1>2, <1>4, <1>6 DEF Asked, Places, IsOrder
<1>7. ASSUME ~IsOrder(e, side)
      PROVE  /\ Wanted(r, side) = Wanted(q, side)
             /\ Lone(q, side) => Lone(r, side)
  BY <1>1, <1>3, <1>5, <1>7 DEF Wanted, Lone
<1>8. ASSUME IsOrder(e, side)
      PROVE  /\ Wanted(r, side) = Wanted(q, side) \cup {e.order}
             /\ Lone(q, side)
                  /\ (\A o \in Wanted(q, side) : o.symbol # e.order.symbol)
                  => Lone(r, side)
  <2>1. \A i \in Asked(r, side) : i \in Asked(q, side) \/ i = n
    BY <1>6, <1>8
  <2>2. Asked(q, side) \subseteq Asked(r, side) /\ n \in Asked(r, side)
    BY <1>6, <1>8
  <2>3. \A i \in Asked(q, side) : r[i] = q[i]
    BY <1>1, <1>3
  <2>4. r[n] = e
    BY <1>1
  <2> HIDE DEF n
  <2>5. Wanted(r, side) = Wanted(q, side) \cup {e.order}
    BY <2>1, <2>2, <2>3, <2>4 DEF Wanted
  <2>6. ASSUME Lone(q, side), \A o \in Wanted(q, side) : o.symbol # e.order.symbol,
               NEW i \in Asked(r, side), NEW j \in Asked(r, side),
               r[i].order.symbol = r[j].order.symbol
        PROVE  i = j
    <3>1. \A k \in Asked(q, side) : q[k].order.symbol # e.order.symbol
      BY <2>6 DEF Wanted
    <3> QED BY <2>1, <2>3, <2>4, <2>6, <3>1 DEF Lone
  <2> QED BY <2>5, <2>6 DEF Lone
<1> QED BY <1>7, <1>8 DEF r

\* The oldest event leaves, and its order with it.
LEMMA WantedTail ==
    ASSUME NEW S, NEW q \in Seq(S), q # << >>, NEW side
    PROVE  /\ Wanted(Tail(q), side) \subseteq Wanted(q, side)
           /\ Lone(q, side) => Lone(Tail(q), side)
           /\ IsOrder(Head(q), side) =>
                 /\ Head(q).order \in Wanted(q, side)
                 /\ Lone(q, side) =>
                       \A o \in Wanted(Tail(q), side) :
                          o.symbol # Head(q).order.symbol
<1> DEFINE r == Tail(q)
<1>1. /\ Len(q) \in Nat \ {0} /\ Len(r) = Len(q) - 1
      /\ Head(q) = q[1] /\ \A i \in 1 .. Len(r) : r[i] = q[i + 1]
  OBVIOUS
<1> HIDE DEF r
<1>2. ASSUME NEW i \in Asked(r, side)
      PROVE  i \in Nat /\ i + 1 \in Asked(q, side) /\ i + 1 # 1 /\ r[i] = q[i + 1]
  <2>1. i \in 1 .. Len(r) /\ IsOrder(r[i], side)
    BY DEF Asked, Places, IsOrder
  <2>2. i + 1 \in 1 .. Len(q) /\ i + 1 # 1 /\ r[i] = q[i + 1]
    BY <1>1, <2>1
  <2> QED BY <2>1, <2>2 DEF Asked, Places, IsOrder
<1>3. Wanted(r, side) \subseteq Wanted(q, side)
  BY <1>2 DEF Wanted
<1>4. ASSUME Lone(q, side), NEW i \in Asked(r, side), NEW j \in Asked(r, side),
             r[i].order.symbol = r[j].order.symbol
      PROVE  i = j
  <2>1. i + 1 = j + 1
    BY <1>2, <1>4 DEF Lone
  <2> QED BY <1>2, <2>1
<1>5. ASSUME IsOrder(Head(q), side)
      PROVE  1 \in Asked(q, side)
  BY <1>1, <1>5 DEF Asked, Places, IsOrder
<1>6. ASSUME IsOrder(Head(q), side), Lone(q, side), NEW i \in Asked(r, side)
      PROVE  r[i].order.symbol # Head(q).order.symbol
  BY <1>1, <1>2, <1>5, <1>6 DEF Lone
<1>7. IsOrder(Head(q), side) => Head(q).order \in Wanted(q, side)
  BY <1>1, <1>5 DEF Wanted
<1>8. IsOrder(Head(q), side) /\ Lone(q, side) =>
         \A o \in Wanted(r, side) : o.symbol # Head(q).order.symbol
  BY <1>6 DEF Wanted
<1>9. Lone(q, side) => Lone(r, side)
  BY <1>4 DEF Lone
<1> QED BY <1>3, <1>7, <1>8, <1>9 DEF r

\* Events of a set without order requests bring none.
LEMMA WantedConcat ==
    ASSUME NEW S, NEW q \in Seq(S), NEW T, NEW r \in Seq(T), NEW side,
           \A e \in T : e.type # "ORDER_REQUEST"
    PROVE  /\ Wanted(q \o r, side) \subseteq Wanted(q, side)
           /\ Lone(q, side) => Lone(q \o r, side)
<1> DEFINE both == q \o r
<1>1. q \in Seq(S \cup T) /\ r \in Seq(S \cup T) /\ Len(q) \in Nat /\ Len(r) \in Nat
  OBVIOUS
<1>2. /\ Len(both) = Len(q) + Len(r)
      /\ \A i \in 1 .. Len(q) + Len(r) :
            both[i] = IF i <= Len(q) THEN q[i] ELSE r[i - Len(q)]
  BY <1>1, ConcatProperties
<1> HIDE DEF both
<1>3. ASSUME NEW i \in Asked(both, side)
      PROVE  i \in Asked(q, side) /\ both[i] = q[i]
  <2>1. /\ i \in 1 .. Len(q) + Len(r) /\ both[i].type = "ORDER_REQUEST"
        /\ both[i].order.side = side
    BY <1>2 DEF Asked, Places
  <2>2. CASE i <= Len(q)
    BY <1>1, <1>2, <2>1, <2>2 DEF Asked, Places
  <2>3. CASE ~(i <= Len(q))
    <3>1. i - Len(q) \in 1 .. Len(r)
      BY <1>1, <2>1, <2>3
    <3>2. r[i - Len(q)] \in T
      BY <3>1
    <3> QED BY <1>2, <2>1, <2>3, <3>2
  <2> QED BY <2>2, <2>3
<1>4. Wanted(both, side) \subseteq Wanted(q, side)
  BY <1>3 DEF Wanted
<1>5. Lone(q, side) => Lone(both, side)
  BY <1>3 DEF Lone
<1> QED BY <1>4, <1>5 DEF both

-----------------------------------------------------------------------------
(* Sales and purchases under way                                           *)

\* The orders queued, by side, and the steps of submit() before the ledger holds
\* the fill.
Sold == Wanted(bus, "SELL")
Bought == Wanted(bus, "BUY")
BeforeFill == {"check", "create", "report", "book"}

\* NeverShort made inductive.  A queued sale keeps its symbol on exit cooldown, so
\* no second one joins it, and it is covered by the position; the sale in progress
\* is still covered until its fill is booked.  A restart forgets the cooldowns and
\* the queue together, and its ledger is the saved one.
SalesInv ==
    /\ \A s \in Symbols : ledger[s].qty >= 0 /\ saved[s].qty >= 0
    /\ Lone(bus, "SELL")
    /\ \A o \in Sold : o.symbol \in exitCool /\ o.qty <= ledger[o.symbol].qty
    /\ pc # "idle" /\ order.side = "SELL" =>
          \A o \in Sold : o.symbol # order.symbol
    /\ pc \in BeforeFill /\ order.side = "SELL" =>
          order.qty <= ledger[order.symbol].qty
    /\ pc \in {"report", "book"} => report.filled <= order.qty

\* EntersOnlyFlat made inductive.  A queued purchase keeps its symbol on entry
\* cooldown, flat and not blocked by an exit; the order in progress, which may move
\* a position, is of another symbol.
BuysInv ==
    /\ Lone(bus, "BUY")
    /\ \A o \in Bought :
          /\ o.symbol \in entryCool /\ ledger[o.symbol].qty = 0
          /\ blocked[o.symbol] # "EXIT"
    /\ pc # "idle" => \A o \in Bought : o.symbol # order.symbol

\* The types the proofs need, in one place.
LEMMA PositionTypes ==
    ASSUME Types
    PROVE  /\ \A s \in Symbols : ledger[s].qty \in Int /\ saved[s].qty \in Int
           /\ report.filled \in Nat
           /\ pc # "idle" => /\ order \in Pipeline!Orders
                             /\ order.symbol \in Symbols /\ order.qty \in Nat
                             /\ order.side \in {"BUY", "SELL"}
           /\ bus \in Seq(Events)
           /\ \A side : \A o \in Wanted(bus, side) :
                 o.symbol \in Symbols /\ o.qty \in Nat /\ o.side = side
<1>1. /\ ledger \in View!Books /\ saved \in View!Books /\ report \in View!Reports
      /\ pc # "idle" => order \in View!Orders
  BY DEF Types, View!TypeOK
<1>2. bus \in Seq(Events)
  BY DEF Types, TypeOK
<1>3. ASSUME NEW side, NEW o \in Wanted(bus, side)
      PROVE  o.symbol \in Symbols /\ o.qty \in Nat /\ o.side = side
  <2>1. PICK i \in 1 .. Len(bus) : /\ bus[i].type = "ORDER_REQUEST"
                                   /\ bus[i].order.side = side /\ o = bus[i].order
    BY DEF Wanted, Asked, Places
  <2>2. bus[i] \in Events
    BY <1>2
  <2>3. o \in Pipeline!Requests
    BY <2>1, <2>2 DEF Events
  <2> QED BY <2>1, <2>3, RuntimeAssumption DEF Pipeline!Requests
<1>4. View!Orders = Pipeline!Orders
  BY DEF View!Orders, Pipeline!Orders, View!Sides, Pipeline!Sides, View!OrderKinds,
         Pipeline!OrderKinds, View!OrderStatuses, Pipeline!OrderStatuses
<1> QED
  BY <1>1, <1>2, <1>3, <1>4
  DEF View!Books, View!Reports, Pipeline!Orders, Pipeline!Sides

\* What a step of submit() does to the order, the ledger and the state file.
LEMMA SubmitMoves ==
    ASSUME Types, Pipeline!SubmitStep
    PROVE  /\ pc # "idle"
           /\ pc' # "idle" =>
                /\ order'.symbol = order.symbol /\ order'.side = order.side
           /\ pc' \in BeforeFill =>
                /\ pc \in BeforeFill /\ ledger' = ledger
                /\ order'.qty \in Nat /\ order'.qty <= order.qty
           /\ pc' \in {"report", "book"} =>
                \/ report'.filled \in 0 .. order'.qty
                \/ pc = "report" /\ report' = report /\ order'.qty = order.qty
           /\ saved' \in {saved, ledger}
           /\ \/ ledger' = ledger
              \/ /\ pc = "book"
                 /\ \A s \in Symbols :
                       ledger'[s].qty = IF s = order.symbol
                                        THEN ledger[s].qty + Pipeline!Delta
                                        ELSE ledger[s].qty
<1>1. pc # "idle"
  BY DEF Pipeline!SubmitStep, Pipeline!RouteFails, Pipeline!RouteAndCheck,
        Pipeline!CreateOrder, Pipeline!CreateOrderRaises, Pipeline!RecordReport,
        Pipeline!RecordReportRaises, Pipeline!BookFill, Pipeline!NoFill,
        Pipeline!FillWithoutPrice, Pipeline!RecordTrade,
        Pipeline!RecordTradeRaises, Pipeline!ValidateBook, Pipeline!SaveState,
        Pipeline!SaveStateRaises, Pipeline!PublishReport
<1>2. order \in Pipeline!Orders /\ order.qty \in Nat
  BY <1>1, PositionTypes
<1> USE DEF BeforeFill
<1>3. CASE Pipeline!Return /\ ledger' = ledger /\ saved' = saved
  BY <1>1, <1>3 DEF Pipeline!Return
<1>4. CASE Pipeline!RouteAndCheck
  <2>1. PICK q \in Pipeline!Precise(order.qty) :
           /\ order'.qty = q
           /\ order'.symbol = order.symbol /\ order'.side = order.side
    BY <1>2, <1>4 DEF Pipeline!RouteAndCheck, Pipeline!Orders
  <2>2. q \in Nat /\ q <= order.qty
    BY <1>2, RuntimeAssumption DEF Pipeline!Precise
  <2>3. /\ pc = "check" /\ pc' \in {"idle", "create"}
        /\ ledger' = ledger /\ saved' = saved
    BY <1>4 DEF Pipeline!RouteAndCheck, Pipeline!Return, Pipeline!disk
  <2> QED BY <2>1, <2>2, <2>3
<1>5. CASE Pipeline!CreateOrder
  <2>1. PICK filled \in 0 .. order.qty : report'.filled = filled
    BY <1>5 DEF Pipeline!CreateOrder
  <2>2. /\ order'.qty = order.qty /\ order'.symbol = order.symbol
        /\ order'.side = order.side
    BY <1>2, <1>5 DEF Pipeline!CreateOrder, Pipeline!Orders
  <2>3. pc = "create" /\ pc' = "report" /\ ledger' = ledger /\ saved' = saved
    BY <1>5 DEF Pipeline!CreateOrder, Pipeline!disk
  <2> QED BY <1>2, <2>1, <2>2, <2>3
<1>6. CASE Pipeline!RecordReport
  <2>1. /\ order'.qty = order.qty /\ order'.symbol = order.symbol
        /\ order'.side = order.side
    BY <1>2, <1>6 DEF Pipeline!RecordReport, Pipeline!Orders
  <2>2. /\ pc = "report" /\ pc' = "book"
        /\ ledger' = ledger /\ saved' = saved /\ report' = report
    BY <1>6 DEF Pipeline!RecordReport, Pipeline!disk
  <2> QED BY <1>2, <2>1, <2>2
<1>7. CASE Pipeline!BookFill
  <2>1. /\ pc = "book" /\ pc' = "trade" /\ order' = order /\ saved' = saved
        /\ report.price > 0
    BY <1>7 DEF Pipeline!BookFill, Pipeline!disk
  <2>2. /\ ledger \in Pipeline!Books /\ Pipeline!Delta \in Int
        /\ report.price \in Prices /\ order.symbol \in Symbols
    <3>1. report \in View!Reports
      BY DEF Types, View!TypeOK
    <3>2. report.filled \in Nat /\ report.price \in Prices
      BY <2>1, <3>1 DEF View!Reports
    <3>3. ledger \in Pipeline!Books
      BY SameTypes DEF Types, View!TypeOK
    <3> QED BY <1>2, <3>2, <3>3 DEF Pipeline!Delta, Pipeline!Sign, Pipeline!Orders
  <2>3. PICK pos \in Pipeline!AfterFill(ledger[order.symbol], Pipeline!Delta,
                                        report.price) :
           ledger' = [ledger EXCEPT ![order.symbol] = pos]
    BY <1>7 DEF Pipeline!BookFill
  <2>4. pos.qty = ledger[order.symbol].qty + Pipeline!Delta
    BY <2>3 DEF Pipeline!AfterFill
  <2>5. \A s \in Symbols :
           ledger'[s].qty = IF s = order.symbol THEN ledger[s].qty + Pipeline!Delta
                                                ELSE ledger[s].qty
    BY <2>2, <2>3, <2>4 DEF Pipeline!Books
  <2> QED BY <2>1, <2>5
<1>8. CASE /\ pc \in {"book", "trade", "guard", "save"}
           /\ pc' \in {"guard", "save", "publish"}
           /\ order' = order /\ ledger' = ledger /\ saved' \in {saved, ledger}
  BY <1>8
<1>9. \/ Pipeline!Return /\ ledger' = ledger /\ saved' = saved
      \/ Pipeline!RouteAndCheck \/ Pipeline!CreateOrder \/ Pipeline!RecordReport
      \/ Pipeline!BookFill
      \/ /\ pc \in {"book", "trade", "guard", "save"}
         /\ pc' \in {"guard", "save", "publish"}
         /\ order' = order /\ ledger' = ledger /\ saved' \in {saved, ledger}
  BY DEF Pipeline!SubmitStep, Pipeline!RouteFails, Pipeline!CreateOrderRaises,
        Pipeline!RecordReportRaises, Pipeline!NoFill,
        Pipeline!FillWithoutPrice, Pipeline!RecordTrade,
        Pipeline!RecordTradeRaises, Pipeline!ValidateBook, Pipeline!SaveState,
        Pipeline!SaveStateRaises, Pipeline!PublishReport, Pipeline!Fail,
        Pipeline!memory, Pipeline!disk
<1> QED BY <1>3, <1>4, <1>5, <1>6, <1>7, <1>8, <1>9

\* A step that leaves the order in progress and the positions, and queues no
\* further sale, keeps the sales covered.
LEMMA SalesKept ==
    ASSUME SalesInv, UNCHANGED <<pc, order, report, ledger, saved>>,
           Sold' \subseteq Sold, Lone(bus, "SELL") => Lone(bus, "SELL")',
           \A o \in Sold' : o.symbol \in exitCool => o.symbol \in exitCool'
    PROVE  SalesInv'
  BY DEF SalesInv, BeforeFill

\* The same of the purchases.
LEMMA BuysKept ==
    ASSUME BuysInv, UNCHANGED <<pc, order, ledger>>,
           Bought' \subseteq Bought, Lone(bus, "BUY") => Lone(bus, "BUY")',
           \A o \in Bought' : /\ o.symbol \in entryCool => o.symbol \in entryCool'
                              /\ blocked'[o.symbol] = "EXIT"
                                   => blocked[o.symbol] = "EXIT"
    PROVE  BuysInv'
  BY DEF BuysInv

\* What is queued after a step, of one operator.
LEMMA Primed ==
    /\ Sold = Wanted(bus, "SELL") /\ Sold' = Wanted(bus', "SELL")
    /\ Bought = Wanted(bus, "BUY") /\ Bought' = Wanted(bus', "BUY")
    /\ \A side : Lone(bus, side)' = Lone(bus', side)
  BY DEF Sold, Bought, Wanted, Asked, Places, Lone

\* The ways a step changes the queue without asking for an order of the side.
NothingAsked(side) ==
    \/ bus' = bus
    \/ bus # << >> /\ bus' = Tail(bus)
    \/ \E e : ~IsOrder(e, side) /\ bus' = Append(bus, e)
    \/ bus # << >> /\ \E e : ~IsOrder(e, side) /\ bus' = Append(Tail(bus), e)
    \/ /\ bus # << >>
       /\ \E breached \in Seq(BreachCodes) :
             bus' = Tail(bus) \o RiskEvents(breached)

\* Then the queue holds no order of the side it did not hold.
LEMMA NoOrderComes ==
    ASSUME Types, NEW side, NothingAsked(side)
    PROVE  /\ Wanted(bus', side) \subseteq Wanted(bus, side)
           /\ Lone(bus, side) => Lone(bus', side)
<1>1. bus \in Seq(Events)
  BY PositionTypes
<1>2. ASSUME bus # << >>
      PROVE  /\ Tail(bus) \in Seq(Events)
             /\ Wanted(Tail(bus), side) \subseteq Wanted(bus, side)
             /\ Lone(bus, side) => Lone(Tail(bus), side)
  BY <1>1, <1>2, WantedTail
<1>3. ASSUME NEW e, ~IsOrder(e, side), bus' = Append(bus, e)
      PROVE  /\ Wanted(bus', side) \subseteq Wanted(bus, side)
             /\ Lone(bus, side) => Lone(bus', side)
  BY <1>1, <1>3, WantedAppend
<1>4. ASSUME bus # << >>, NEW e, ~IsOrder(e, side), bus' = Append(Tail(bus), e)
      PROVE  /\ Wanted(bus', side) \subseteq Wanted(bus, side)
             /\ Lone(bus, side) => Lone(bus', side)
  BY <1>2, <1>4, WantedAppend
<1>5. ASSUME bus # << >>, NEW breached \in Seq(BreachCodes),
             bus' = Tail(bus) \o RiskEvents(breached)
      PROVE  /\ Wanted(bus', side) \subseteq Wanted(bus, side)
             /\ Lone(bus, side) => Lone(bus', side)
  <2>1. /\ RiskEvents(breached) \in Seq(BreachEvents)
        /\ \A e \in BreachEvents : e.type # "ORDER_REQUEST"
    BY RiskEventsType DEF BreachEvents
  <2> QED BY <1>2, <1>5, <2>1, WantedConcat
<1> QED BY <1>2, <1>3, <1>4, <1>5 DEF NothingAsked

\* The strategy's new order, if it comes
LEMMA OneOrderComes ==
    ASSUME Types, bus # << >>, NEW e, NEW side, IsOrder(e, side),
           bus' \in {Tail(bus), Append(Tail(bus), e)},
           Lone(bus, side), \A o \in Wanted(bus, side) : o.symbol # e.order.symbol
    PROVE  /\ Wanted(bus', side) \subseteq Wanted(bus, side) \cup {e.order}
           /\ Lone(bus', side)
<1>1. bus \in Seq(Events)
  BY PositionTypes
<1>2. /\ Tail(bus) \in Seq(Events) /\ Lone(Tail(bus), side)
      /\ Wanted(Tail(bus), side) \subseteq Wanted(bus, side)
  BY <1>1, WantedTail
<1>3. \A o \in Wanted(Tail(bus), side) : o.symbol # e.order.symbol
  BY <1>2
<1>4. CASE bus' = Tail(bus)
  BY <1>2, <1>4
<1>5. CASE bus' = Append(Tail(bus), e)
  BY <1>2, <1>3, <1>5, WantedAppend
<1> QED BY <1>4, <1>5

\* What the strategy does with an order book: it takes it off the queue, and
\* may enter a flat symbol or leave a position.
Waits ==
    /\ bus' = Tail(bus) /\ UNCHANGED <<entryCool, exitCool>>
    /\ \A s \in Symbols : blocked'[s] = "EXIT" => blocked[s] = "EXIT"

\* The event leaves the queue, and e may join it.
MaySend(e) == bus' \in {Tail(bus), Append(Tail(bus), e)}

Enters(s) ==
    /\ \E q : MaySend(OrderRequest(s, "BUY", q))
    /\ ledger[s].qty = 0 /\ blocked[s] = "NO" /\ s \notin entryCool
    /\ entryCool' = entryCool \cup {s}
    /\ UNCHANGED <<exitCool, blocked>>

Leaves(s) ==
    LET qty == ledger[s].qty
        side == IF qty > 0 THEN "SELL" ELSE "BUY"
    IN  /\ qty # 0 /\ s \notin exitCool
        /\ MaySend(OrderRequest(s, side, Abs(qty)))
        /\ exitCool' = exitCool \cup {s} /\ entryCool' = entryCool
        /\ \A t \in Symbols : t # s => blocked'[t] = blocked[t]

LEMMA StrategyMoves ==
    ASSUME Types, OnOrderBook, ~ShortEntries
    PROVE  Waits \/ \E s \in Symbols : Enters(s) \/ Leaves(s)
<1> DEFINE s == Head(bus).symbol
<1>1. s \in Symbols
  <2>1. Head(bus) \in Events /\ Head(bus).type = "ORDERBOOK_SNAPSHOT"
    BY BusTail DEF OnOrderBook, OldestIs, Types
  <2> QED BY <2>1 DEF Events
<1>2. blocked \in [Symbols -> BlockReasons \cup {"NO"}]
  BY DEF Types, TypeOK
<1> HIDE DEF s
<1>3. CASE NoSignal
  BY <1>3 DEF NoSignal, cooldowns, Waits
<1>4. CASE EnterPosition(s)
  <2>1. EntrySides = {"BUY"}
    BY DEF EntrySides
  <2>2. \E q : MaySend(OrderRequest(s, "BUY", q))
    BY <1>4, <2>1 DEF EnterPosition, Ask, MaySend
  <2> QED BY <1>1, <1>4, <2>2 DEF EnterPosition, Enters
<1>5. CASE BlockBadTrend(s)
  <2>1. \A t \in Symbols : blocked'[t] = "EXIT" => blocked[t] = "EXIT"
    BY <1>1, <1>2, <1>5 DEF BlockBadTrend
  <2> QED BY <1>5, <2>1 DEF BlockBadTrend, Waits
<1>6. CASE ExitPosition(s)
  <2>1. \A t \in Symbols : t # s => blocked'[t] = blocked[t]
    BY <1>1, <1>2, <1>6 DEF ExitPosition
  <2> QED BY <1>1, <1>6, <2>1 DEF ExitPosition, Ask, MaySend, Leaves
<1> QED BY <1>3, <1>4, <1>5, <1>6 DEF OnOrderBook, s

\* A new sale is the whole position, of a symbol no sale is queued for: the exit
\* cooldown of that symbol would still run.
LEMMA SalesOnOrderBook ==
    ASSUME Types, SalesInv, ~ShortEntries, OnOrderBook
    PROVE  SalesInv'
<1>1. bus # << >> /\ UNCHANGED <<pc, order, report, ledger, saved>> /\ pc = "idle"
  BY DEF OnOrderBook, OldestIs, pipeline
<1>2. CASE Waits
  BY <1>1, <1>2, NoOrderComes, Primed, SalesKept DEF Waits, NothingAsked
<1>3. ASSUME NEW s \in Symbols, Enters(s)
      PROVE  SalesInv'
  <2>1. PICK q : bus' \in {Tail(bus), Append(Tail(bus), OrderRequest(s, "BUY", q))}
    BY <1>3 DEF Enters, MaySend
  <2>2. ~IsOrder(OrderRequest(s, "BUY", q), "SELL") /\ exitCool' = exitCool
    BY <1>3 DEF IsOrder, OrderRequest, Enters
  <2> QED BY <1>1, <2>1, <2>2, NoOrderComes, Primed, SalesKept DEF NothingAsked
<1>4. ASSUME NEW s \in Symbols, Leaves(s)
      PROVE  SalesInv'
  <2>1. ledger[s].qty > 0 /\ Abs(ledger[s].qty) = ledger[s].qty
    BY <1>4, PositionTypes DEF SalesInv, Abs, Leaves
  <2>2. MaySend(OrderRequest(s, "SELL", ledger[s].qty))
    BY <1>4, <2>1 DEF Leaves
  <2> DEFINE e == OrderRequest(s, "SELL", ledger[s].qty)
  <2>3. /\ IsOrder(e, "SELL") /\ e.order.symbol = s /\ e.order.qty = ledger[s].qty
        /\ bus' \in {Tail(bus), Append(Tail(bus), e)}
    BY <2>2 DEF IsOrder, OrderRequest, MaySend
  <2> HIDE DEF e
  <2>4. s \notin exitCool /\ exitCool' = exitCool \cup {s}
    BY <1>4 DEF Leaves
  <2>5. Lone(bus, "SELL") /\ \A o \in Sold : o.symbol # s
    BY <2>4 DEF SalesInv
  <2>6. Sold' \subseteq Sold \cup {e.order} /\ Lone(bus, "SELL")'
    BY <1>1, <2>3, <2>5, OneOrderComes, Primed
  <2>7. \A o \in Sold' : o.symbol \in exitCool' /\ o.qty <= ledger[o.symbol].qty
    <3>1. ledger[s].qty <= ledger[s].qty
      BY PositionTypes
    <3> QED BY <2>3, <2>4, <2>6, <3>1 DEF SalesInv
  <2> QED BY <1>1, <2>6, <2>7 DEF SalesInv, BeforeFill
<1> QED BY <1>2, <1>3, <1>4, StrategyMoves

\* A sale that begins was covered in the queue.
LEMMA SalesOnOrderRequest ==
    ASSUME Types, SalesInv, OnOrderRequest
    PROVE  SalesInv'
<1> DEFINE o == Head(bus).order
<1>1. /\ bus # << >> /\ Head(bus).type = "ORDER_REQUEST" /\ bus' = Tail(bus)
      /\ exitCool' = exitCool /\ ledger' = ledger /\ saved' = saved /\ report' = report
      /\ \/ /\ pc' = "check"
            /\ order' = [o EXCEPT !.status = "VALIDATED"]
         \/ pc' = "idle"
  BY DEF OnOrderRequest, OldestIs, Pipeline!Accept, Pipeline!disk, cooldowns
<1>2. o \in Pipeline!Requests
  <2>1. Head(bus) \in Events
    BY <1>1, BusTail DEF Types
  <2> QED BY <1>1, <2>1 DEF Events
<1>3. pc' = "check" => /\ order'.symbol = o.symbol /\ order'.side = o.side
                       /\ order'.qty = o.qty
  BY <1>1, <1>2 DEF Pipeline!Requests
<1>4. Sold' \subseteq Sold /\ Lone(bus, "SELL")'
  BY <1>1, NoOrderComes, Primed DEF SalesInv, NothingAsked
<1>5. o.side = "SELL" => o \in Sold /\ \A other \in Sold' : other.symbol # o.symbol
  <2>1. o.side = "SELL" => IsOrder(Head(bus), "SELL")
    BY <1>1 DEF IsOrder
  <2>2. bus \in Seq(Events) /\ Lone(bus, "SELL")
    BY PositionTypes DEF SalesInv
  <2> QED BY <1>1, <2>1, <2>2, WantedTail, Primed
<1> HIDE DEF o
<1>6. \A other \in Sold' : /\ other.symbol \in exitCool
                           /\ other.qty <= ledger[other.symbol].qty
  BY <1>4 DEF SalesInv
<1>7. o.side = "SELL" => o.qty <= ledger[o.symbol].qty
  BY <1>5 DEF SalesInv
<1> QED BY <1>1, <1>3, <1>4, <1>5, <1>6, <1>7 DEF SalesInv, BeforeFill

\* A sale is cut to precision, filled and booked, never for more than it asked.
LEMMA SalesSubmitStep ==
    ASSUME Types, SalesInv, SubmitStep
    PROVE  SalesInv'
<1>1. Pipeline!SubmitStep /\ exitCool' = exitCool
  BY DEF SubmitStep, cooldowns
<1>2. Sold' \subseteq Sold /\ Lone(bus, "SELL")'
  <2>1. \/ bus' = bus
        \/ \E e : ~IsOrder(e, "SELL") /\ bus' = Append(bus, e)
    <3>1. CASE Pipeline!PublishReport
      <4>1. ~IsOrder([type |-> "EXECUTION_REPORT", breaches |-> breaches], "SELL")
        BY DEF IsOrder
      <4> QED BY <3>1, <4>1 DEF Pipeline!PublishReport
    <3> QED BY <1>1, <3>1, QuietBus
  <2> QED BY <2>1, NoOrderComes, Primed DEF SalesInv, NothingAsked
<1>3. /\ \A s \in Symbols : ledger[s].qty \in Int /\ saved[s].qty \in Int
      /\ report.filled \in Nat /\ order.qty \in Nat /\ order.symbol \in Symbols
      /\ order.side \in {"BUY", "SELL"}
      /\ \A o \in Sold : o.symbol \in Symbols /\ o.qty \in Nat
  BY <1>1, SubmitMoves, PositionTypes, Primed
<1>4. /\ \A s \in Symbols : ledger'[s].qty >= 0
      /\ \A o \in Sold : o.qty <= ledger'[o.symbol].qty
  <2>1. CASE ledger' = ledger
    BY <2>1 DEF SalesInv
  <2>2. CASE /\ pc = "book"
             /\ \A s \in Symbols :
                   ledger'[s].qty = IF s = order.symbol
                                    THEN ledger[s].qty + Pipeline!Delta
                                    ELSE ledger[s].qty
    <3>1. CASE order.side = "BUY"
      <4>1. Pipeline!Delta = report.filled
        BY <1>3, <3>1 DEF Pipeline!Delta, Pipeline!Sign
      <4>2. \A s \in Symbols : ledger'[s].qty \in Int /\ ledger[s].qty <= ledger'[s].qty
        BY <1>3, <2>2, <4>1
      <4>3. \A s \in Symbols : ledger'[s].qty >= 0
        BY <1>3, <4>2 DEF SalesInv
      <4>4. ASSUME NEW o \in Sold
            PROVE  o.qty <= ledger'[o.symbol].qty
        <5>1. /\ o.qty \in Nat /\ o.qty <= ledger[o.symbol].qty
              /\ o.symbol \in Symbols
          BY <1>3 DEF SalesInv
        <5>2. /\ ledger[o.symbol].qty \in Int /\ ledger'[o.symbol].qty \in Int
              /\ ledger[o.symbol].qty <= ledger'[o.symbol].qty
          BY <1>3, <4>2, <5>1
        <5> QED BY <5>1, <5>2
      <4> QED BY <4>3, <4>4
    <3>2. CASE order.side = "SELL"
      <4>1. /\ Pipeline!Delta = -report.filled
            /\ report.filled <= order.qty
            /\ order.qty <= ledger[order.symbol].qty
            /\ \A o \in Sold : o.symbol # order.symbol
        BY <1>3, <2>2, <3>2
        DEF Pipeline!Delta, Pipeline!Sign, SalesInv, BeforeFill
      <4>2. ledger'[order.symbol].qty >= 0
        BY <1>3, <2>2, <4>1
      <4>3. \A s \in Symbols : s # order.symbol => ledger'[s].qty = ledger[s].qty
        BY <2>2
      <4>4. \A s \in Symbols : ledger'[s].qty >= 0
        BY <4>2, <4>3 DEF SalesInv
      <4> QED BY <1>3, <4>1, <4>3, <4>4 DEF SalesInv
    <3> QED BY <1>3, <3>1, <3>2
  <2> QED BY <1>1, <2>1, <2>2, SubmitMoves
<1>5. \A s \in Symbols : saved'[s].qty >= 0
  BY <1>1, SubmitMoves DEF SalesInv
<1>6. pc' # "idle" /\ order'.side = "SELL" =>
         \A o \in Sold : o.symbol # order'.symbol
  BY <1>1, SubmitMoves DEF SalesInv
<1>7. pc' \in BeforeFill /\ order'.side = "SELL" =>
         order'.qty <= ledger'[order'.symbol].qty
  <2> SUFFICES ASSUME pc' \in BeforeFill, order'.side = "SELL"
               PROVE  order'.qty <= ledger'[order'.symbol].qty
    OBVIOUS
  <2>1. /\ pc \in BeforeFill /\ ledger' = ledger
        /\ order'.qty \in Nat /\ order'.qty <= order.qty
        /\ order'.symbol = order.symbol /\ order.side = "SELL"
    BY <1>1, SubmitMoves DEF BeforeFill
  <2>2. order.qty <= ledger[order.symbol].qty
    BY <2>1 DEF SalesInv
  <2>3. ledger[order.symbol].qty \in Int
    BY <1>3
  <2> QED BY <1>3, <2>1, <2>2, <2>3
<1>8. pc' \in {"report", "book"} => report'.filled <= order'.qty
  <2>1. ASSUME pc = "report", report' = report, order'.qty = order.qty
        PROVE  report'.filled <= order'.qty
    BY <2>1 DEF SalesInv
  <2>2. ASSUME report'.filled \in 0 .. order'.qty
        PROVE  report'.filled <= order'.qty
    BY <2>2
  <2> QED BY <1>1, <2>1, <2>2, SubmitMoves
<1>9. \A o \in Sold' : o.symbol \in exitCool' /\ o.qty <= ledger'[o.symbol].qty
  BY <1>1, <1>2, <1>4 DEF SalesInv
<1> QED BY <1>2, <1>4, <1>5, <1>6, <1>7, <1>8, <1>9 DEF SalesInv

\* Nothing is sold in the initial states.
LEMMA SalesInit == Init => SalesInv
<1> SUFFICES ASSUME Init
             PROVE  SalesInv
  OBVIOUS
<1>1. bus = << >> /\ pc = "idle"
  BY DEF Init, Pipeline!Init
<1>2. \A s \in Symbols : ledger[s].qty = 0 /\ saved[s].qty = 0
  BY DEF Init, Pipeline!Init, Pipeline!Flat
<1>3. Places(bus, "ORDER_REQUEST") = {}
  BY <1>1 DEF Places
<1> QED
  BY <1>1, <1>2, <1>3 DEF SalesInv, Sold, Wanted, Asked, Lone, BeforeFill

\* A new process: an empty queue and the ledger of the state file.
LEMMA SalesNewProcess ==
    ASSUME SalesInv, Stop \/ Crash
    PROVE  SalesInv'
<1>1. /\ bus' = << >> /\ pc' = "idle" /\ ledger' = saved /\ saved' = saved
  BY DEF Stop, Crash, Pipeline!StopAndRestart, Pipeline!CrashAndRestart,
         Pipeline!Restart, Pipeline!Return, Pipeline!disk
<1>2. Wanted(bus', "SELL") = {} /\ Lone(bus', "SELL")
  BY <1>1 DEF Wanted, Asked, Places, Lone
<1> QED BY <1>1, <1>2, Primed DEF SalesInv, BeforeFill

\* A report handled carries breaches, which follow the queue as risk events.
LEMMA ReportHandled ==
    ASSUME Types, OnExecutionReport
    PROVE  /\ bus # << >>
           /\ Head(bus).breaches \in Seq(BreachCodes)
           /\ bus' = Tail(bus) \o RiskEvents(Head(bus).breaches)
  BY BusTail DEF OnExecutionReport, OldestIs, Events, Types

\* Every step keeps the sales covered.
LEMMA SalesStep ==
    ASSUME ~ShortEntries, PromptBus, Types, SalesInv, [Next]_vars
    PROVE  SalesInv'
<1> DEFINE Quiet == UNCHANGED <<pc, order, report, ledger, saved>>
<1>1. CASE OnOrderBook
  BY <1>1, SalesOnOrderBook
<1>2. CASE OnOrderRequest
  BY <1>2, SalesOnOrderRequest
<1>3. CASE SubmitStep
  BY <1>3, SalesSubmitStep
<1>4. ASSUME Quiet, exitCool' = exitCool, NothingAsked("SELL")
      PROVE  SalesInv'
  BY <1>4, NoOrderComes, Primed, SalesKept
<1> USE DEF NothingAsked
<1>5. CASE OnExecutionReport
  <2>1. /\ Quiet /\ exitCool' = exitCool /\ bus # << >>
        /\ \E breached \in Seq(BreachCodes) :
              bus' = Tail(bus) \o RiskEvents(breached)
    BY <1>5, ReportHandled DEF OnExecutionReport, pipeline, cooldowns
  <2> QED BY <1>4, <2>1
<1>6. CASE OnRiskBreach
  BY <1>4, <1>6 DEF OnRiskBreach, OldestIs, pipeline, cooldowns
<1>7. ASSUME NEW s \in Symbols, NEW p \in Prices, MarketTick(s, p)
      PROVE  SalesInv'
  BY <1>4, <1>7 DEF MarketTick, pipeline, cooldowns
<1>8. ASSUME NEW s \in Symbols, OrderBook(s)
      PROVE  SalesInv'
  <2>1. ~IsOrder([type |-> "ORDERBOOK_SNAPSHOT", symbol |-> s], "SELL")
    BY DEF IsOrder
  <2> QED BY <1>4, <1>8, <2>1 DEF OrderBook, pipeline, cooldowns
<1>9. ASSUME NEW s \in Symbols, TrapStart(s)
      PROVE  SalesInv'
  BY <1>4, <1>9 DEF TrapStart, pipeline, cooldowns
<1>10. ASSUME NEW s \in Symbols, CooldownEnds(s)
       PROVE  SalesInv'
  <2>1. /\ Quiet /\ bus' = bus /\ exitCool \ {s} \subseteq exitCool'
        /\ ~Pending(s)
    BY <1>10 DEF CooldownEnds, pipeline
  <2>2. Sold' = Sold /\ (Lone(bus, "SELL") => Lone(bus, "SELL")')
    BY <2>1, Primed
  <2>3. \A o \in Sold : o.symbol # s
    BY <2>1 DEF Pending, Sold, Wanted, Asked, Places
  <2> QED BY <2>1, <2>2, <2>3, SalesKept
<1>11. CASE TrapBuys
  <2>1. PICK q \in EntryQuantities :
           bus' = Append(bus, OrderRequest(scan, "BUY", q))
    BY <1>11 DEF TrapBuys
  <2>2. ~IsOrder(OrderRequest(scan, "BUY", q), "SELL")
    BY DEF IsOrder, OrderRequest
  <2> QED BY <1>4, <1>11, <2>1, <2>2 DEF TrapBuys, pipeline, cooldowns
<1>12. CASE TrapPasses
  BY <1>4, <1>12 DEF TrapPasses, pipeline, cooldowns
<1>13. CASE Stop \/ Crash
  BY <1>13, SalesNewProcess
<1>14. CASE LateFill
  <2>1. Quiet /\ bus' = bus /\ exitCool' = exitCool
    BY <1>14
    DEF LateFill, Pipeline!LateFill, Pipeline!memory, Pipeline!disk, cooldowns
  <2> QED BY <1>4, <2>1
<1>15. CASE UNCHANGED vars
  BY <1>4, <1>15 DEF vars, pipeline, cooldowns
<1> QED
  BY <1>1, <1>2, <1>3, <1>5, <1>6, <1>7, <1>8, <1>9, <1>10, <1>11, <1>12, <1>13,
     <1>14, <1>15
  DEF Next, BusStep

\* The sales are covered in a runtime that opens no short position and handles an
\* order before the cooldown of its symbol ends.
OnlyExits == ~ShortEntries /\ PromptBus => SalesInv

\* What is sold and not yet booked is covered by the ledger.
LEMMA NotShort ==
    ASSUME Types, View!BooksInv, OnlyExits
    PROVE  NeverShort
<1> SUFFICES ASSUME ~ShortEntries, PromptBus, NEW s \in Symbols
             PROVE  /\ ledger[s].qty >= 0
                    /\ missed = {} => Pipeline!ExchangePosition(s) >= 0
  BY DEF NeverShort
<1>1. SalesInv
  BY DEF OnlyExits
<1>2. ledger[s].qty >= 0 /\ ledger[s].qty \in Int
  BY <1>1, PositionTypes DEF SalesInv
<1>3. ASSUME missed = {}
      PROVE  Pipeline!ExchangePosition(s) >= 0
  <2>1. ledger[s].qty + View!Unbooked(s) = Pipeline!ExchangePosition(s)
    BY <1>3 DEF View!BooksInv, View!ExchangePosition, Pipeline!ExchangePosition
  <2>2. ledger[s].qty + View!Unbooked(s) >= 0
    <3>1. CASE View!Unbooked(s) = 0
      BY <1>2, <3>1
    <3>2. CASE pc \in {"report", "book"} /\ s = order.symbol
      <4>1. /\ View!Unbooked(s) = IF order.side = "BUY" THEN report.filled
                                                         ELSE -report.filled
            /\ report.filled \in Nat /\ order.qty \in Nat
            /\ order.side \in {"BUY", "SELL"}
        <5>1. View!Unbooked(s) = View!Delta
          BY <3>2 DEF View!Unbooked
        <5> QED BY <3>2, <5>1, PositionTypes DEF View!Delta, View!Sign
      <4>2. order.side = "SELL" => report.filled <= ledger[s].qty
        BY <1>1, <1>2, <3>2, <4>1 DEF SalesInv, BeforeFill
      <4> QED BY <1>2, <4>1, <4>2
    <3> QED BY <3>1, <3>2 DEF View!Unbooked
  <2> QED BY <2>1, <2>2
<1> QED BY <1>2, <1>3

\* With short entries off and orders handled before their cooldown ends, no exit
\* sells more than the position (strategies/mean_reversion_imbalance.py:349-390):
\* neither the ledger nor, as long as no fill was missed, the exchange goes short.
THEOREM ExitsCovered == Spec => []NeverShort
<1> DEFINE Inv == Types /\ View!BooksInv /\ OnlyExits
<1>1. Init => Inv
  BY TypesInit, ViewInit, ViewAssumptions, View!BooksInit, SalesInit DEF OnlyExits
<1>2. Inv /\ [Next]_vars => Inv'
  <2> SUFFICES ASSUME Inv, [Next]_vars
               PROVE  Inv'
    OBVIOUS
  <2>1. [View!Next]_View!vars
    BY ViewStep DEF Types, TypeOK
  <2>2. View!BooksInv'
    BY <2>1, ViewAssumptions, TypesStep, View!BooksStep DEF Types
  <2>3. OnlyExits'
    BY SalesStep DEF OnlyExits
  <2> QED BY <2>2, <2>3, TypesStep
<1>3. Inv => NeverShort
  BY NotShort
<1> HIDE DEF Inv
<1> QED BY <1>1, <1>2, <1>3, PTL DEF Spec

\* The strategy alone opens positions, and only long ones.
NoTrap == ~ShortEntries /\ PromptBus /\ ~TrapOn

\* Nothing is bought in the initial states.
LEMMA BuysInit == Init => BuysInv
<1> SUFFICES ASSUME Init
             PROVE  BuysInv
  OBVIOUS
<1>1. bus = << >> /\ pc = "idle"
  BY DEF Init, Pipeline!Init
<1>2. Places(bus, "ORDER_REQUEST") = {}
  BY <1>1 DEF Places
<1> QED BY <1>1, <1>2 DEF BuysInv, Bought, Wanted, Asked, Lone

\* A purchase asked for is of a flat symbol without another one in the queue: the
\* entry cooldown of that symbol would still run.
LEMMA BuysOnOrderBook ==
    ASSUME Types, SalesInv, BuysInv, ~ShortEntries, OnOrderBook
    PROVE  BuysInv'
<1>1. bus # << >> /\ UNCHANGED <<pc, order, ledger>> /\ pc = "idle"
  BY DEF OnOrderBook, OldestIs, pipeline
<1>2. \A o \in Bought : o.symbol \in Symbols
  BY PositionTypes, Primed
<1>3. CASE Waits
  <2>1. Bought' \subseteq Bought /\ (Lone(bus, "BUY") => Lone(bus, "BUY")')
    BY <1>1, <1>3, NoOrderComes, Primed DEF Waits, NothingAsked
  <2> QED BY <1>1, <1>2, <1>3, <2>1, BuysKept DEF Waits
<1>4. ASSUME NEW s \in Symbols, Enters(s)
      PROVE  BuysInv'
  <2>1. PICK q : MaySend(OrderRequest(s, "BUY", q))
    BY <1>4 DEF Enters
  <2> DEFINE e == OrderRequest(s, "BUY", q)
  <2>2. /\ IsOrder(e, "BUY") /\ e.order.symbol = s
        /\ bus' \in {Tail(bus), Append(Tail(bus), e)}
    BY <2>1 DEF IsOrder, OrderRequest, MaySend
  <2> HIDE DEF e
  <2>3. Lone(bus, "BUY") /\ \A o \in Bought : o.symbol # s
    BY <1>4 DEF BuysInv, Enters
  <2>4. Bought' \subseteq Bought \cup {e.order} /\ Lone(bus, "BUY")'
    BY <1>1, <2>2, <2>3, OneOrderComes, Primed
  <2> QED BY <1>1, <1>4, <2>2, <2>4 DEF BuysInv, Enters
<1>5. ASSUME NEW s \in Symbols, Leaves(s)
      PROVE  BuysInv'
  <2>1. ledger[s].qty > 0
    BY <1>5, PositionTypes DEF SalesInv, Leaves
  <2>2. bus' \in {Tail(bus), Append(Tail(bus),
                           OrderRequest(s, "SELL", Abs(ledger[s].qty)))}
    BY <1>5, <2>1 DEF Leaves, MaySend
  <2>3. ~IsOrder(OrderRequest(s, "SELL", Abs(ledger[s].qty)), "BUY")
    BY DEF IsOrder, OrderRequest
  <2>4. Bought' \subseteq Bought /\ (Lone(bus, "BUY") => Lone(bus, "BUY")')
    BY <1>1, <2>2, <2>3, NoOrderComes, Primed DEF NothingAsked
  <2>5. \A o \in Bought : o.symbol # s
    BY <1>5 DEF BuysInv, Leaves
  <2>6. \A o \in Bought : blocked'[o.symbol] = blocked[o.symbol]
    BY <1>2, <1>5, <2>5 DEF Leaves
  <2> QED BY <1>1, <1>5, <2>4, <2>6, BuysKept DEF Leaves
<1> QED BY <1>3, <1>4, <1>5, StrategyMoves

\* The order the pipeline takes is the oldest of the queue.
LEMMA OrderTaken ==
    ASSUME Types, OnOrderRequest
    PROVE  /\ bus # << >> /\ bus' = Tail(bus) /\ ledger' = ledger
           /\ UNCHANGED <<entryCool, blocked>>
           /\ Head(bus).order.symbol \in Symbols
           /\ Head(bus).order.side \in {"BUY", "SELL"}
           /\ order'.symbol = Head(bus).order.symbol
           /\ order'.side = Head(bus).order.side
           /\ pc' # "idle" => Head(bus).order.qty > 0
           /\ \A side : Head(bus).order.side = side => IsOrder(Head(bus), side)
<1> DEFINE o == Head(bus).order
<1>1. /\ bus # << >> /\ Head(bus).type = "ORDER_REQUEST" /\ bus' = Tail(bus)
      /\ ledger' = ledger /\ UNCHANGED <<entryCool, blocked>>
      /\ \E st : order' = [o EXCEPT !.status = st]
      /\ pc' # "idle" => o.qty > 0
  BY DEF OnOrderRequest, OldestIs, Pipeline!Accept, cooldowns
<1>2. o \in Pipeline!Requests
  <2>1. Head(bus) \in Events
    BY <1>1, BusTail DEF Types
  <2> QED BY <1>1, <2>1 DEF Events
<1>3. order'.symbol = o.symbol /\ order'.side = o.side
  BY <1>1, <1>2 DEF Pipeline!Requests
<1> QED
  BY <1>1, <1>2, <1>3 DEF IsOrder, Pipeline!Requests, Pipeline!Sides

\* An order that begins is of a symbol no purchase is queued for: two purchases
\* are never queued together, and a sale has a position to sell.
LEMMA BuysOnOrderRequest ==
    ASSUME Types, SalesInv, BuysInv, OnOrderRequest
    PROVE  BuysInv'
<1> DEFINE o == Head(bus).order
<1>1. Bought' \subseteq Bought /\ Lone(bus, "BUY")'
  BY OrderTaken, NoOrderComes, Primed DEF BuysInv, NothingAsked
<1>2. bus \in Seq(Events)
  BY PositionTypes
<1>3. o.side = "BUY" => \A other \in Bought' : other.symbol # o.symbol
  BY <1>2, OrderTaken, WantedTail, Primed DEF BuysInv
<1>4. o.side = "SELL" /\ o.qty > 0 => \A other \in Bought' : other.symbol # o.symbol
  <2>1. o.side = "SELL" => o \in Sold
    BY <1>2, OrderTaken, WantedTail, Primed
  <2>2. o.side = "SELL" => /\ o.qty <= ledger[o.symbol].qty
                           /\ o.qty \in Nat /\ ledger[o.symbol].qty \in Int
    BY <2>1, OrderTaken, PositionTypes, Primed DEF SalesInv
  <2>3. o.side = "SELL" /\ o.qty > 0 => ledger[o.symbol].qty # 0
    BY <2>2
  <2> QED BY <1>1, <2>3 DEF BuysInv
<1>5. pc' # "idle" => \A other \in Bought' : other.symbol # order'.symbol
  BY <1>3, <1>4, OrderTaken
<1> QED BY <1>1, <1>5, OrderTaken DEF BuysInv

\* A fill moves the position of its own symbol, which has no purchase queued.
LEMMA BuysSubmitStep ==
    ASSUME Types, BuysInv, SubmitStep
    PROVE  BuysInv'
<1>1. Pipeline!SubmitStep /\ UNCHANGED <<entryCool, blocked>>
  BY DEF SubmitStep, cooldowns
<1>2. Bought' \subseteq Bought /\ Lone(bus, "BUY")'
  <2>1. \/ bus' = bus
        \/ \E e : ~IsOrder(e, "BUY") /\ bus' = Append(bus, e)
    <3>1. CASE Pipeline!PublishReport
      <4>1. ~IsOrder([type |-> "EXECUTION_REPORT", breaches |-> breaches], "BUY")
        BY DEF IsOrder
      <4> QED BY <3>1, <4>1 DEF Pipeline!PublishReport
    <3> QED BY <1>1, <3>1, QuietBus
  <2> QED BY <2>1, NoOrderComes, Primed DEF BuysInv, NothingAsked
<1>3. \A o \in Bought : o.symbol # order.symbol /\ o.symbol \in Symbols
  BY <1>1, SubmitMoves, PositionTypes, Primed DEF BuysInv
<1>4. \A o \in Bought : ledger'[o.symbol].qty = ledger[o.symbol].qty
  BY <1>1, <1>3, SubmitMoves
<1>5. pc' # "idle" => order'.symbol = order.symbol
  BY <1>1, SubmitMoves
<1> QED BY <1>1, <1>2, <1>3, <1>4, <1>5 DEF BuysInv

\* Without the momentum trap every step keeps the purchases in order.
LEMMA BuysStep ==
    ASSUME NoTrap, Types, SalesInv, BuysInv, scan = NoScan, [Next]_vars
    PROVE  BuysInv' /\ scan' = NoScan
<1> USE DEF NoTrap
<1> DEFINE Quiet == UNCHANGED <<pc, order, ledger>>
<1>1. CASE OnOrderBook
  BY <1>1, BuysOnOrderBook DEF OnOrderBook, trap
<1>2. CASE OnOrderRequest
  BY <1>2, BuysOnOrderRequest DEF OnOrderRequest, trap
<1>3. CASE SubmitStep
  BY <1>3, BuysSubmitStep DEF SubmitStep, trap
<1>4. ASSUME Quiet, entryCool' = entryCool, blocked' = blocked, NothingAsked("BUY")
      PROVE  BuysInv'
  <2>1. Bought' \subseteq Bought /\ (Lone(bus, "BUY") => Lone(bus, "BUY")')
    BY <1>4, NoOrderComes, Primed
  <2> QED BY <1>4, <2>1, BuysKept
<1> USE DEF NothingAsked
<1>5. CASE OnExecutionReport
  <2>1. /\ Quiet /\ entryCool' = entryCool /\ blocked' = blocked /\ bus # << >>
        /\ \E breached \in Seq(BreachCodes) :
              bus' = Tail(bus) \o RiskEvents(breached)
        /\ scan' = scan
    BY <1>5, ReportHandled DEF OnExecutionReport, pipeline, cooldowns, trap
  <2> QED BY <1>4, <2>1
<1>6. CASE OnRiskBreach
  BY <1>4, <1>6 DEF OnRiskBreach, OldestIs, pipeline, cooldowns, trap
<1>7. ASSUME NEW s \in Symbols, NEW p \in Prices, MarketTick(s, p)
      PROVE  BuysInv' /\ scan' = scan
  BY <1>4, <1>7 DEF MarketTick, pipeline, cooldowns, trap
<1>8. ASSUME NEW s \in Symbols, OrderBook(s)
      PROVE  BuysInv' /\ scan' = scan
  <2>1. ~IsOrder([type |-> "ORDERBOOK_SNAPSHOT", symbol |-> s], "BUY")
    BY DEF IsOrder
  <2> QED BY <1>4, <1>8, <2>1 DEF OrderBook, pipeline, cooldowns, trap
<1>9. ASSUME NEW s \in Symbols, CooldownEnds(s)
      PROVE  BuysInv' /\ scan' = scan
  <2>1. /\ Quiet /\ bus' = bus /\ entryCool \ {s} \subseteq entryCool'
        /\ scan' = scan /\ ~Pending(s)
        /\ blocked' \in {blocked, [blocked EXCEPT ![s] = "NO"]}
    BY <1>9 DEF CooldownEnds, pipeline
  <2>2. Bought' = Bought /\ (Lone(bus, "BUY") => Lone(bus, "BUY")')
    BY <2>1, Primed
  <2>3. \A o \in Bought : o.symbol # s
    BY <2>1 DEF Pending, Bought, Wanted, Asked, Places
  <2>4. \A o \in Bought : blocked'[o.symbol] = blocked[o.symbol]
    <3>1. blocked \in [Symbols -> BlockReasons \cup {"NO"}]
      BY DEF Types, TypeOK
    <3>2. \A o \in Bought : o.symbol \in Symbols
      BY PositionTypes, Primed
    <3> QED BY <2>1, <2>3, <3>1, <3>2
  <2> QED BY <2>1, <2>2, <2>3, <2>4, BuysKept
<1>10. CASE \/ TrapBuys \/ TrapPasses \/ \E s \in Symbols : TrapStart(s)
  BY <1>10 DEF TrapBuys, TrapPasses, TrapStart
<1>11. CASE Stop \/ Crash
  <2>1. bus' = << >> /\ pc' = "idle" /\ scan' = NoScan
    BY <1>11 DEF Stop, Crash, Pipeline!StopAndRestart, Pipeline!CrashAndRestart,
                 Pipeline!Restart, Pipeline!Return, ForgetAll
  <2>2. Wanted(bus', "BUY") = {} /\ Lone(bus', "BUY")
    BY <2>1 DEF Wanted, Asked, Places, Lone
  <2> QED BY <2>1, <2>2, Primed DEF BuysInv
<1>12. CASE LateFill
  <2>1. /\ Quiet /\ bus' = bus /\ entryCool' = entryCool /\ blocked' = blocked
        /\ scan' = scan
    BY <1>12
    DEF LateFill, Pipeline!LateFill, Pipeline!memory, Pipeline!disk, cooldowns, trap
  <2> QED BY <1>4, <2>1
<1>13. CASE UNCHANGED vars
  BY <1>4, <1>13 DEF vars, pipeline, cooldowns, trap
<1> QED
  BY <1>1, <1>2, <1>3, <1>5, <1>6, <1>7, <1>8, <1>9, <1>10, <1>11, <1>12, <1>13
  DEF Next, BusStep

\* Then the purchases are in order, and no scan of the trap is under way.
Entries == NoTrap => BuysInv /\ scan = NoScan

\* The two invariants hold initially and are kept.
LEMMA EntriesInit == Init => Entries
  BY BuysInit DEF Entries, Init

LEMMA EntriesStep == Types /\ OnlyExits /\ Entries /\ [Next]_vars => Entries'
  BY BuysStep DEF Entries, OnlyExits, NoTrap

LEMMA OnlyExitsStep == Types /\ OnlyExits /\ [Next]_vars => OnlyExits'
  BY SalesStep DEF OnlyExits

\* A purchase the pipeline takes was in the queue.
LEMMA EntryTaken ==
    ASSUME Types, Entries, NoTrap, OnOrderRequest, order'.side = "BUY"
    PROVE  ledger[order'.symbol].qty = 0 /\ blocked[order'.symbol] # "EXIT"
<1>1. bus \in Seq(Events)
  BY PositionTypes
<1>2. Head(bus).order \in Bought /\ order'.symbol = Head(bus).order.symbol
  BY <1>1, OrderTaken, WantedTail, Primed
<1> QED BY <1>2 DEF Entries, BuysInv

\* An order of the strategy to buy finds the symbol still flat when the pipeline
\* takes it, though the queue, failed calls and restarts lie between the check
\* (strategies/mean_reversion_imbalance.py:305-347) and the order.
THEOREM EntriesFlat == Spec => EntersOnlyFlat
<1> DEFINE Inv == Types /\ OnlyExits /\ Entries
<1>1. Init => Inv
  BY TypesInit, SalesInit, EntriesInit DEF OnlyExits
<1>2. Inv /\ [Next]_vars => Inv'
  BY TypesStep, OnlyExitsStep, EntriesStep
<1>3. Inv => [ OnOrderRequest /\ PromptBus /\ ~TrapOn /\ order'.side = "BUY"
                 /\ ~ShortEntries
               => ledger[order'.symbol].qty = 0 ]_vars
  BY EntryTaken DEF NoTrap
<1> HIDE DEF Inv
<1> QED BY <1>1, <1>2, <1>3, PTL DEF Spec, EntersOnlyFlat

\* Without the momentum trap, no symbol is bought while it is blocked after an
\* exit (strategies/mean_reversion_imbalance.py:349-390).  With the trap it is,
\* which a run of TLC shows.
THEOREM NoRebuy == ASSUME ~TrapOn PROVE Spec => BlockedNotBought
<1> DEFINE Inv == Types /\ OnlyExits /\ Entries
<1>1. Init => Inv
  BY TypesInit, SalesInit, EntriesInit DEF OnlyExits
<1>2. Inv /\ [Next]_vars => Inv'
  BY TypesStep, OnlyExitsStep, EntriesStep
<1>3. Inv => [ OnOrderRequest /\ PromptBus /\ ~ShortEntries
                 /\ order'.side = "BUY"
               => blocked[order'.symbol] # "EXIT" ]_vars
  BY EntryTaken DEF NoTrap
<1> HIDE DEF Inv
<1> QED BY <1>1, <1>2, <1>3, PTL DEF Spec, BlockedNotBought
-----------------------------------------------------------------------------
(* A critical breach is not lost                                           *)

\* A report on the bus that carries a critical breach
IsAlarm(e) == e.type = "EXECUTION_REPORT" /\ IsCritical(e.breaches)
Alarmed(q) == \E i \in 1 .. Len(q) : IsAlarm(q[i])

\* It stays in the queue while events join it,
LEMMA AlarmedAppend ==
    ASSUME NEW S, NEW q \in Seq(S), NEW e
    PROVE  /\ Alarmed(q) => Alarmed(Append(q, e))
           /\ IsAlarm(e) => Alarmed(Append(q, e))
<1> DEFINE r == Append(q, e)
<1>1. /\ Len(q) \in Nat /\ Len(r) = Len(q) + 1 /\ r[Len(q) + 1] = e
      /\ \A i \in 1 .. Len(q) : r[i] = q[i]
  OBVIOUS
<1> HIDE DEF r
<1>2. 1 .. Len(q) \subseteq 1 .. Len(r) /\ Len(q) + 1 \in 1 .. Len(r)
  BY <1>1
<1>3. Alarmed(q) => Alarmed(r)
  BY <1>1, <1>2 DEF Alarmed
<1>4. IsAlarm(e) => Alarmed(r)
  BY <1>1, <1>2 DEF Alarmed
<1> QED BY <1>3, <1>4 DEF r

\* or several of them,
LEMMA AlarmedConcat ==
    ASSUME NEW S, NEW q \in Seq(S), NEW T, NEW r \in Seq(T)
    PROVE  Alarmed(q) => Alarmed(q \o r)
<1> DEFINE both == q \o r
<1>1. q \in Seq(S \cup T) /\ r \in Seq(S \cup T) /\ Len(q) \in Nat /\ Len(r) \in Nat
  OBVIOUS
<1>2. /\ Len(both) = Len(q) + Len(r)
      /\ \A i \in 1 .. Len(q) + Len(r) :
            both[i] = IF i <= Len(q) THEN q[i] ELSE r[i - Len(q)]
  BY <1>1, ConcatProperties
<1> HIDE DEF both
<1>3. \A i \in 1 .. Len(q) : i \in 1 .. Len(both) /\ both[i] = q[i]
  BY <1>1, <1>2
<1>4. Alarmed(q) => Alarmed(both)
  BY <1>3 DEF Alarmed
<1> QED BY <1>4 DEF both

\* until it is the oldest.
LEMMA AlarmedTail ==
    ASSUME NEW S, NEW q \in Seq(S), q # << >>, Alarmed(q)
    PROVE  IsAlarm(Head(q)) \/ Alarmed(Tail(q))
<1>1. PICK i \in 1 .. Len(q) : IsAlarm(q[i])
  BY DEF Alarmed
<1>2. /\ Len(q) \in Nat \ {0} /\ Len(Tail(q)) = Len(q) - 1 /\ Head(q) = q[1]
      /\ \A k \in 1 .. Len(Tail(q)) : Tail(q)[k] = q[k + 1]
  OBVIOUS
<1>3. CASE i = 1
  BY <1>1, <1>2, <1>3
<1>4. CASE i # 1
  <2>1. i - 1 \in 1 .. Len(Tail(q)) /\ (i - 1) + 1 = i
    BY <1>2, <1>4
  <2>2. IsAlarm(Tail(q)[i - 1])
    BY <1>1, <1>2, <2>1
  <2> QED BY <2>1, <2>2 DEF Alarmed
<1> QED BY <1>3, <1>4

\* CriticalBreachKills made inductive: the breach is in the kill switch, in the
\* hands of submit(), in a report on the bus, or lost with the state file.  What
\* the guard looks at is a fill.
Unsettled == pc \in {"save", "publish"} /\ IsCritical(breaches)

AlarmInv ==
    /\ alarm => killed \/ "state_file" \in missed \/ Unsettled \/ Alarmed(bus)
    /\ pc \in {"trade", "guard", "save"} => report.filled > 0

\* No breach has been found in the initial states.
LEMMA AlarmInit == Init => AlarmInv
  BY DEF Init, Pipeline!Init, AlarmInv

\* A step of the services loses no alarm if no report leaves the queue.
LEMMA AlarmKept ==
    ASSUME AlarmInv, UNCHANGED <<pc, report, breaches, alarm>>,
           killed => killed', missed \subseteq missed',
           Alarmed(bus) => killed' \/ Alarmed(bus')
    PROVE  AlarmInv'
<1>1. Unsettled' = Unsettled
  BY DEF Unsettled, IsCritical
<1>2. Alarmed(bus)' = Alarmed(bus')
  BY DEF Alarmed, IsAlarm, IsCritical
<1> QED BY <1>1, <1>2 DEF AlarmInv

\* An event that is no alarm is taken off the queue, and others may follow.
LEMMA AlarmTakes ==
    ASSUME AlarmInv, bus \in Seq(Events), bus # << >>, ~IsAlarm(Head(bus)),
           UNCHANGED <<pc, report, breaches, alarm, killed, missed>>,
           bus' = Tail(bus) \/ \E e : bus' = Append(Tail(bus), e)
    PROVE  AlarmInv'
<1>1. Tail(bus) \in Seq(Events)
  OBVIOUS
<1>2. Alarmed(bus) => Alarmed(Tail(bus))
  BY AlarmedTail
<1>3. Alarmed(bus) => Alarmed(bus')
  BY <1>1, <1>2, AlarmedAppend
<1> QED BY <1>3, AlarmKept

\* An order begins.
LEMMA AlarmOnOrderRequest ==
    ASSUME AlarmInv, bus \in Seq(Events), OnOrderRequest
    PROVE  AlarmInv'
<1>1. /\ bus # << >> /\ Head(bus).type = "ORDER_REQUEST" /\ bus' = Tail(bus)
      /\ pc = "idle" /\ pc' \in {"idle", "check"}
      /\ UNCHANGED <<alarm, killed, missed>>
  BY DEF OnOrderRequest, OldestIs, Pipeline!Accept, found
<1>2. Alarmed(bus) => Alarmed(Tail(bus))
  BY <1>1, AlarmedTail DEF IsAlarm
<1>3. Alarmed(bus)' = Alarmed(Tail(bus))
  BY <1>1 DEF Alarmed, IsAlarm, IsCritical
<1> QED BY <1>1, <1>2, <1>3 DEF AlarmInv, Unsettled

\* The report with the alarm triggers the kill switch.
LEMMA AlarmOnExecutionReport ==
    ASSUME AlarmInv, Types, OnExecutionReport
    PROVE  AlarmInv'
<1> DEFINE more == RiskEvents(Head(bus).breaches)
<1>1. /\ bus # << >> /\ bus' = Tail(bus) \o more
      /\ Head(bus).type = "EXECUTION_REPORT"
      /\ killed' = (killed \/ (~killed /\ IsCritical(Head(bus).breaches)))
      /\ UNCHANGED <<pc, report, breaches, alarm, missed>>
  BY DEF OnExecutionReport, OldestIs, pipeline, found
<1>2. more \in Seq(BreachEvents)
  BY ReportHandled, RiskEventsType
<1> HIDE DEF more
<1>3. bus \in Seq(Events) /\ Tail(bus) \in Seq(Events)
  BY <1>1, BusTail DEF Types, TypeOK
<1>4. Alarmed(bus) => IsAlarm(Head(bus)) \/ Alarmed(Tail(bus))
  BY <1>1, <1>3, AlarmedTail
<1>5. Alarmed(Tail(bus)) => Alarmed(bus')
  BY <1>1, <1>2, <1>3, AlarmedConcat
<1>6. IsAlarm(Head(bus)) => killed'
  BY <1>1 DEF IsAlarm
<1>7. killed => killed'
  BY <1>1
<1> QED BY <1>1, <1>4, <1>5, <1>6, <1>7, AlarmKept

\* What submit() finds it publishes, unless the state file cannot be saved.
LEMMA AlarmSubmitStep ==
    ASSUME AlarmInv, bus \in Seq(Events), SubmitStep
    PROVE  AlarmInv'
<1>1. /\ Pipeline!SubmitStep /\ killed' = killed
      /\ pc = "guard" => alarm' = (alarm \/ IsCritical(breaches'))
      /\ pc # "guard" => alarm' = alarm
  BY DEF SubmitStep, NotesBreaches, found
<1>2. Alarmed(bus)' = Alarmed(bus') /\ Unsettled' = (pc' \in {"save", "publish"}
                                                       /\ IsCritical(breaches'))
  BY DEF Alarmed, IsAlarm, Unsettled, IsCritical
<1>3. CASE Pipeline!ValidateBook
  <2>1. pc = "guard" /\ pc' = "save" /\ UNCHANGED <<report, bus, missed>>
    BY <1>3 DEF Pipeline!ValidateBook, Pipeline!counters
  <2> QED BY <1>1, <1>2, <2>1 DEF AlarmInv, Unsettled
<1>4. CASE Pipeline!SaveState
  <2>1. /\ pc = "save" /\ pc' = "publish"
        /\ UNCHANGED <<report, breaches, bus, missed>>
    BY <1>4 DEF Pipeline!SaveState, Pipeline!memory, Pipeline!counters
  <2> QED BY <1>1, <1>2, <2>1 DEF AlarmInv, Unsettled
<1>5. CASE Pipeline!SaveStateRaises
  <2>1. pc = "save" /\ pc' = "idle"
        /\ missed' = IF report.filled > 0 THEN missed \cup {"state_file"} ELSE missed
    BY <1>5 DEF Pipeline!SaveStateRaises, Pipeline!Fail, Pipeline!Return,
                Pipeline!Fault
  <2>2. "state_file" \in missed'
    BY <2>1 DEF AlarmInv
  <2> QED BY <2>1, <2>2 DEF AlarmInv
<1>6. CASE Pipeline!PublishReport
  <2> DEFINE e == [type |-> "EXECUTION_REPORT", breaches |-> breaches]
  <2>1. /\ pc = "publish" /\ pc' = "idle" /\ bus' = Append(bus, e)
        /\ missed' = missed
    BY <1>6 DEF Pipeline!PublishReport, Pipeline!Return, Pipeline!counters
  <2>2. Unsettled => IsAlarm(e)
    BY DEF Unsettled, IsAlarm
  <2> HIDE DEF e
  <2>3. Unsettled \/ Alarmed(bus) => Alarmed(bus')
    BY <2>1, <2>2, AlarmedAppend
  <2> QED BY <1>1, <1>2, <2>1, <2>3 DEF AlarmInv
<1>7. CASE /\ pc \in {"check", "create", "report", "book", "trade"}
           /\ pc' # "save" /\ bus' = bus /\ missed \subseteq missed'
           /\ pc' = "trade" => report'.filled > 0
           /\ pc' = "guard" => pc = "trade" /\ report' = report
  BY <1>1, <1>2, <1>7 DEF AlarmInv, Unsettled
<1>8. \/ Pipeline!ValidateBook \/ Pipeline!SaveState \/ Pipeline!SaveStateRaises
      \/ Pipeline!PublishReport
      \/ /\ pc \in {"check", "create", "report", "book", "trade"}
         /\ pc' # "save" /\ bus' = bus /\ missed \subseteq missed'
         /\ pc' = "trade" => report'.filled > 0
         /\ pc' = "guard" => pc = "trade" /\ report' = report
  BY <1>1
  DEF Pipeline!SubmitStep, Pipeline!RouteFails, Pipeline!RouteAndCheck,
      Pipeline!CreateOrder, Pipeline!CreateOrderRaises, Pipeline!RecordReport,
      Pipeline!RecordReportRaises, Pipeline!BookFill, Pipeline!NoFill,
      Pipeline!FillWithoutPrice, Pipeline!RecordTrade,
      Pipeline!RecordTradeRaises, Pipeline!Fail, Pipeline!Return,
      Pipeline!Fault, Pipeline!memory, Pipeline!counters
<1> QED BY <1>3, <1>4, <1>5, <1>6, <1>7, <1>8

\* Every step keeps the alarm.
LEMMA AlarmStep == Types /\ AlarmInv /\ [Next]_vars => AlarmInv'
<1> SUFFICES ASSUME Types, AlarmInv, [Next]_vars
             PROVE  AlarmInv'
  OBVIOUS
<1>a. bus \in Seq(Events)
  BY DEF Types, TypeOK
<1> DEFINE Quiet == UNCHANGED <<pc, report, breaches, alarm, killed>>
<1>1. CASE OnOrderBook
  <2>1. /\ bus # << >> /\ ~IsAlarm(Head(bus)) /\ Quiet /\ missed' = missed
        /\ bus' = Tail(bus) \/ \E e : bus' = Append(Tail(bus), e)
    BY <1>1 DEF OnOrderBook, OldestIs, IsAlarm, NoSignal, EnterPosition,
                BlockBadTrend, ExitPosition, Ask, pipeline, risk, found
  <2> QED BY <1>a, <2>1, AlarmTakes
<1>2. CASE OnOrderRequest
  BY <1>a, <1>2, AlarmOnOrderRequest
<1>3. CASE SubmitStep
  BY <1>a, <1>3, AlarmSubmitStep
<1>4. CASE OnExecutionReport
  BY <1>4, AlarmOnExecutionReport
<1>5. CASE OnRiskBreach
  <2>1. /\ bus # << >> /\ ~IsAlarm(Head(bus)) /\ Quiet /\ missed' = missed
        /\ bus' = Tail(bus)
    BY <1>5 DEF OnRiskBreach, OldestIs, IsAlarm, pipeline
  <2> QED BY <1>a, <2>1, AlarmTakes
<1>6. ASSUME Quiet, missed \subseteq missed',
             bus' = bus \/ \E e : bus' = Append(bus, e)
      PROVE  AlarmInv'
  <2>1. Alarmed(bus) => Alarmed(bus')
    BY <1>a, <1>6, AlarmedAppend
  <2> QED BY <1>6, <2>1, AlarmKept
<1>7. ASSUME NEW s \in Symbols, NEW p \in Prices, MarketTick(s, p)
      PROVE  AlarmInv'
  BY <1>6, <1>7 DEF MarketTick, pipeline, risk, found
<1>8. ASSUME NEW s \in Symbols, OrderBook(s) \/ TrapStart(s) \/ CooldownEnds(s)
      PROVE  AlarmInv'
  BY <1>6, <1>8 DEF OrderBook, TrapStart, CooldownEnds, pipeline, risk, found
<1>9. CASE TrapBuys \/ TrapPasses
  BY <1>6, <1>9 DEF TrapBuys, TrapPasses, pipeline, risk, found
<1>10. CASE Stop \/ Crash
  <2>1. alarm' = FALSE /\ pc' = "idle"
    BY <1>10 DEF Stop, Crash, ForgetAll, Pipeline!StopAndRestart,
                 Pipeline!CrashAndRestart, Pipeline!Restart, Pipeline!Return
  <2> QED BY <2>1 DEF AlarmInv
<1>11. CASE LateFill
  BY <1>6, <1>11
  DEF LateFill, Pipeline!LateFill, Pipeline!memory, risk, found
<1>12. CASE UNCHANGED vars
  BY <1>6, <1>12 DEF vars, pipeline, risk, found
<1> QED
  BY <1>1, <1>2, <1>3, <1>4, <1>5, <1>7, <1>8, <1>9, <1>10, <1>11, <1>12
  DEF Next, BusStep

\* Whatever is queued between a fill and the risk service, when the bus has come
\* to rest the kill switch is on if the portfolio guard found a critical breach in
\* this process, or the state file could not be saved
\* (execution/fill_processor.py:86-104, microservices/risk_service.py:37-60).
THEOREM BreachesKill == Spec => []CriticalBreachKills
<1>1. Types /\ AlarmInv => CriticalBreachKills
  <2> SUFFICES ASSUME Types, AlarmInv, bus = << >>, ~draining, alarm
               PROVE  killed \/ "state_file" \in missed
    BY DEF CriticalBreachKills
  <2>1. pc = "idle"
    BY DEF Types, TypeOK
  <2>2. ~Unsettled
    BY <2>1 DEF Unsettled
  <2>3. ~Alarmed(bus)
    BY DEF Alarmed
  <2> QED BY <2>2, <2>3 DEF AlarmInv
<1> QED BY <1>1, TypesInit, AlarmInit, TypesStep, AlarmStep, PTL DEF Spec
=============================================================================
