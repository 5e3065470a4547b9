--------------------------- MODULE TradingRuntime ---------------------------
(***************************************************************************)
(* The live runtime: the services that share one event bus                 *)
(* (core/event_bus.py) around the order pipeline of OrderPipeline.         *)
(*                                                                         *)
(*   MarketDataService   -> ORDERBOOK_SNAPSHOT -> LiveStrategyService      *)
(*   LiveStrategyService -> ORDER_REQUEST      -> ExecutionService         *)
(*   MomentumTrapService -> ORDER_REQUEST      -> ExecutionService         *)
(*   ExecutionPipeline   -> EXECUTION_REPORT   -> RiskService              *)
(*   RiskService         -> RISK_BREACH        -> RiskEventLoggerService   *)
(*                                                                         *)
(* All of it runs on one asyncio loop.  No subscriber suspends, and        *)
(* queue.get() of a non-empty queue does not either: once the bus task     *)
(* runs it empties the queue before any other task gets a turn             *)
(* (draining).  The producers run between two such turns.  The only await  *)
(* that separates a decision from the order it leads to is the one of the  *)
(* momentum trap, which fetches candles in a thread (scan).                *)
(*                                                                         *)
(* Prices and imbalances decide whether a strategy signals; here it may    *)
(* signal or not whenever the rest of its conditions allow it.             *)
(***************************************************************************)
EXTENDS Exposure, Sequences, FiniteSets

CONSTANTS
    Quantities, LotSize, NoOrder, MaxOrders, MaxFaults,  \* of OrderPipeline
    EntryQuantities,  \* target_notional / mid_price, in lots; all an order may
                      \* have are in Quantities, a bound
    OrderType,        \* AEGIS_STRATEGY_ORDER_TYPE
    TrapOn,           \* AEGIS_MOMENTUM_TRAP_ENABLED
    ShortEntries,     \* AEGIS_ALLOW_SHORT_ENTRIES
    PromptBus,        \* assume an order is handled before its cooldown ends
    NoScan,           \* the momentum trap waits for no candles
    MaxQueue          \* bound: events the producers leave in the queue

ASSUME RuntimeAssumption ==
    /\ Quantities \subseteq Nat /\ LotSize \in Nat \ {0}
    /\ MaxOrders \in Nat /\ MaxFaults \in Nat
    /\ EntryQuantities \subseteq Quantities \ {0}
    /\ OrderType \in {"MARKET", "LIMIT"}
    /\ TrapOn \in BOOLEAN /\ ShortEntries \in BOOLEAN /\ PromptBus \in BOOLEAN
    /\ NoScan \notin Symbols
    /\ MaxQueue \in Nat \ {0}

VARIABLES
    \* the order pipeline, its stores and the exchange
    pc, order, marks, report, breaches, ledger, trades, saved, bus, executed,
    resting, submitted, faults, missed,
    market,      \* MarketStateStore.mark_prices()
    entryCool,   \* symbols whose _last_entry_signal_at is recent
    exitCool,    \* symbols whose _last_exit_signal_at is recent
    blocked,     \* why a symbol's _blocked_until lies ahead, if it does
    trapCool,    \* symbols whose _last_signal_at of the trap is recent
    scan,        \* the symbol the trap is fetching candles for
    killed,      \* KillSwitch.triggered
    draining,    \* the event bus task holds the loop
    grace,       \* history: orders that may still come after the trigger
    alarm,       \* history: the guard found a critical breach in this process
    undelivered  \* history: breaches found and not handed to the risk log yet

pipeline == <<pc, order, marks, report, breaches, ledger, trades, saved,
              executed, resting, submitted, faults, missed>>
cooldowns == <<entryCool, exitCool, blocked>>
trap == <<trapCool, scan>>
found == <<alarm, undelivered>>
risk == <<killed, grace, found>>
vars == <<pipeline, bus, market, cooldowns, trap, risk, draining>>

Pipeline == INSTANCE OrderPipeline

\* _block_symbol after a bad trend, and after an exit
BlockReasons == {"TREND", "EXIT"}
NothingBlocked == [s \in Symbols |-> "NO"]

Init ==
    /\ Pipeline!Init
    /\ market = Pipeline!NoMarks
    /\ entryCool = {} /\ exitCool = {} /\ blocked = NothingBlocked
    /\ trapCool = {} /\ scan = NoScan
    /\ killed = FALSE
    /\ draining = FALSE
    /\ grace = 0
    /\ alarm = FALSE /\ undelivered = 0

-----------------------------------------------------------------------------
(* The bus                                                                 *)

\* What a queue holds at the positions in I, in its order: SelectSeq without its
\* recursion, so that it can be reasoned about.
Rank(i, I) == Cardinality({k \in I : k <= i})
Subsequence(queue, I) ==
    [j \in 1 .. Cardinality(I) |-> queue[CHOOSE i \in I : Rank(i, I) = j]]

Places(queue, type) == {i \in 1 .. Len(queue) : queue[i].type = type}
Queued(type) == Subsequence(bus, Places(bus, type))

\* The orders in the queue
Requested == Cardinality(Places(bus, "ORDER_REQUEST"))

\* Bound: no more than MaxOrders orders are asked for.
Room == submitted + Requested < MaxOrders

\* An ORDER_REQUEST with the mark prices of this moment.  to_order has checked
\* that a limit order has a price.
OrderRequest(s, side, qty) ==
    [type |-> "ORDER_REQUEST", marks |-> market,
     order |-> [symbol |-> s, side |-> side, qty |-> qty,
                kind |-> "PRICED_OR_MARKET", status |-> "CREATED", ref |-> 0]]

\* An order of symbol s is queued or being executed.
Pending(s) ==
    \/ pc # "idle" /\ order.symbol = s
    \/ \E i \in 1 .. Len(bus) :
          bus[i].type = "ORDER_REQUEST" /\ bus[i].order.symbol = s

\* EventBus.start: the oldest event, once its predecessor's handlers are done.
OldestIs(type) == pc = "idle" /\ bus # <<>> /\ Head(bus).type = type

\* Mistake: a handler suspends and other tasks run while an order is executed.
KeepsLoop_HandlerSuspends == draining' = (bus' # <<>>)

\* The bus task keeps the loop until it finds the queue empty.
KeepsLoop == draining' = (pc' # "idle" \/ bus' # <<>>)

-----------------------------------------------------------------------------
(* MarketDataService                                                       *)

\* _handle_ticker: the store has the new price; the MARKET_TICK it publishes
\* only extends the price history, which is abstracted.
MarketTick(s, p) ==
    /\ ~draining
    /\ market' = [market EXCEPT ![s] = p]
    /\ UNCHANGED <<pipeline, bus, cooldowns, trap, risk, draining>>

\* _handle_orderbook
OrderBook(s) ==
    /\ ~draining
    /\ Len(bus) < MaxQueue
    /\ bus' = Append(bus, [type |-> "ORDERBOOK_SNAPSHOT", symbol |-> s])
    /\ UNCHANGED <<pipeline, market, cooldowns, trap, risk, draining>>

-----------------------------------------------------------------------------
(* LiveStrategyService and MeanReversionImbalanceStrategy                  *)

\* _build_entry_signal buys, or sells if short entries are allowed.
EntrySides == IF ShortEntries THEN Pipeline!Sides ELSE {"BUY"}

\* A signal becomes an order that is published behind whatever the queue holds;
\* to_order raises for a limit signal that found no price in the book, and the
\* handler passes on.
Ask(s, side, qty) ==
    \/ bus' = Append(Tail(bus), OrderRequest(s, side, qty))
    \/ OrderType = "LIMIT" /\ bus' = Tail(bus)

NoSignal == bus' = Tail(bus) /\ UNCHANGED cooldowns

\* Mistake: no entry cooldown.
EnterPosition_NoCooldown(s) ==
    /\ ledger[s].qty = 0
    /\ blocked[s] = "NO"
    /\ Room
    /\ \E side \in EntrySides, q \in EntryQuantities : Ask(s, side, q)
    /\ entryCool' = entryCool \cup {s}
    /\ UNCHANGED <<exitCool, blocked>>

\* Mistake: the block after an exit is not looked up.
EnterPosition_BlockIgnored(s) ==
    /\ ledger[s].qty = 0
    /\ s \notin entryCool
    /\ Room
    /\ \E side \in EntrySides, q \in EntryQuantities : Ask(s, side, q)
    /\ entryCool' = entryCool \cup {s}
    /\ UNCHANGED <<exitCool, blocked>>

\* A flat symbol, neither blocked nor on cooldown, may be entered.
EnterPosition(s) ==
    /\ ledger[s].qty = 0
    /\ blocked[s] = "NO"
    /\ s \notin entryCool
    /\ Room
    /\ \E side \in EntrySides, q \in EntryQuantities : Ask(s, side, q)
    /\ entryCool' = entryCool \cup {s}
    /\ UNCHANGED <<exitCool, blocked>>

\* A flat symbol whose price fell too far is blocked.
BlockBadTrend(s) ==
    /\ ledger[s].qty = 0
    /\ blocked[s] = "NO"
    /\ bus' = Tail(bus)
    /\ blocked' = [blocked EXCEPT ![s] = "TREND"]
    /\ UNCHANGED <<entryCool, exitCool>>

\* Mistake: no exit cooldown.
ExitPosition_NoCooldown(s) ==
    LET qty == ledger[s].qty
        side == IF qty > 0 THEN "SELL" ELSE "BUY"
    IN  /\ qty # 0 /\ Abs(qty) \in Quantities
        /\ Room
        /\ Ask(s, side, Abs(qty))
        /\ exitCool' = exitCool \cup {s}
        /\ blocked' \in {blocked, [blocked EXCEPT ![s] = "EXIT"]}
        /\ UNCHANGED entryCool

\* A position that is not on exit cooldown may be closed; a take-profit,
\* stop-loss or time-stop exit blocks the symbol, a mean-reversion one does
\* not.
ExitPosition(s) ==
    LET qty == ledger[s].qty
        side == IF qty > 0 THEN "SELL" ELSE "BUY"
    IN  /\ qty # 0 /\ Abs(qty) \in Quantities
        /\ s \notin exitCool
        /\ Room
        /\ Ask(s, side, Abs(qty))
        /\ exitCool' = exitCool \cup {s}
        /\ blocked' \in {blocked, [blocked EXCEPT ![s] = "EXIT"]}
        /\ UNCHANGED entryCool

\* Mistake: the kill switch stops entries only.
OnOrderBook_ExitsWhenKilled ==
    /\ OldestIs("ORDERBOOK_SNAPSHOT")
    /\ LET s == Head(bus).symbol
       IN  \/ NoSignal
           \/ ~killed /\ EnterPosition(s)
           \/ ~killed /\ BlockBadTrend(s)
           \/ ExitPosition(s)
    /\ UNCHANGED <<pipeline, market, trap, risk>>
    /\ KeepsLoop

\* on_orderbook: nothing once the kill switch is triggered.
OnOrderBook ==
    /\ OldestIs("ORDERBOOK_SNAPSHOT")
    /\ LET s == Head(bus).symbol
       IN  \/ NoSignal
           \/ ~killed /\ EnterPosition(s)
           \/ ~killed /\ BlockBadTrend(s)
           \/ ~killed /\ ExitPosition(s)
    /\ UNCHANGED <<pipeline, market, trap, risk>>
    /\ KeepsLoop

-----------------------------------------------------------------------------
(* MomentumTrapService                                                     *)

\* _scan_symbol up to the await on the candles.
TrapStart(s) ==
    /\ TrapOn
    /\ ~draining
    /\ scan = NoScan
    /\ ~killed
    /\ ledger[s].qty = 0
    /\ s \notin trapCool
    /\ scan' = s
    /\ UNCHANGED <<pipeline, bus, market, cooldowns, trapCool, risk, draining>>

\* The candles say buy: the request is published whatever has happened to
\* the position, the kill switch and the symbol meanwhile.
TrapBuys ==
    /\ OrderType = "MARKET"
    /\ ~draining
    /\ scan # NoScan
    /\ Room
    /\ \E q \in EntryQuantities : bus' = Append(bus, OrderRequest(scan, "BUY", q))
    /\ trapCool' = trapCool \cup {scan}
    /\ scan' = NoScan
    /\ UNCHANGED <<pipeline, market, cooldowns, risk, draining>>

\* They say nothing, name a candle already traded on, the fetch fails, or
\* to_order raises, as a limit signal of the trap has no price.
TrapPasses ==
    /\ ~draining
    /\ scan # NoScan
    /\ scan' = NoScan
    /\ UNCHANGED <<pipeline, bus, market, cooldowns, trapCool, risk, draining>>

-----------------------------------------------------------------------------
(* ExecutionService                                                        *)

\* _on_order_request calls submit().  The kill switch is not consulted.
OnOrderRequest ==
    /\ OldestIs("ORDER_REQUEST")
    /\ Pipeline!Accept(Head(bus).order, Head(bus).marks)
    /\ bus' = Tail(bus)
    /\ grace' = IF killed THEN grace - 1 ELSE grace
    /\ UNCHANGED <<market, cooldowns, trap, killed, found>>
    /\ KeepsLoop

\* The severity of a breach is CRITICAL for the exposure limits.
IsCritical(breached) == \E i \in DOMAIN breached : breached[i] \in CriticalCodes

\* What the portfolio guard finds on the way is noted.
NotesBreaches ==
    IF pc = "guard"
    THEN /\ alarm' = (alarm \/ IsCritical(breaches'))
         /\ undelivered' = undelivered + Len(breaches')
    ELSE UNCHANGED found

\* The rest of submit(), while the handler keeps the loop.
SubmitStep ==
    /\ Pipeline!SubmitStep
    /\ NotesBreaches
    /\ UNCHANGED <<market, cooldowns, trap, killed, grace>>
    /\ KeepsLoop

-----------------------------------------------------------------------------
(* RiskService and RiskEventLoggerService                                  *)

\* Mistake: the handler returns once a breach has triggered the kill switch.
RiskEvents_FirstOnly(breached) ==
    IF breached = <<>> THEN <<>>
    ELSE << [type |-> "RISK_BREACH", code |-> Head(breached)] >>

\* One event for each breach, in the order PortfolioGuard.validate found them.
RiskEvents(breached) ==
    [i \in DOMAIN breached |-> [type |-> "RISK_BREACH", code |-> breached[i]]]

\* Mistake: the severity is compared in the wrong case and nothing triggers.
OnExecutionReport_NeverCritical ==
    /\ OldestIs("EXECUTION_REPORT")
    /\ bus' = Tail(bus) \o RiskEvents(Head(bus).breaches)
    /\ UNCHANGED <<pipeline, market, cooldowns, trap, risk>>
    /\ KeepsLoop

\* Mistake: reports queued behind the one handled are thought outdated.
OnExecutionReport_Coalesced ==
    /\ OldestIs("EXECUTION_REPORT")
    /\ LET breached == Head(bus).breaches
           rest == SelectSeq(Tail(bus), LAMBDA e : e.type # "EXECUTION_REPORT")
       IN  /\ bus' = rest \o RiskEvents(breached)
           /\ killed' = (killed \/ IsCritical(breached))
    /\ UNCHANGED <<pipeline, market, cooldowns, trap, grace, found>>
    /\ KeepsLoop

\* Mistake: a report with breaches is published again until it has none.
OnExecutionReport_Requeued ==
    /\ OldestIs("EXECUTION_REPORT")
    /\ bus' = IF Head(bus).breaches = <<>> THEN Tail(bus)
                                          ELSE Append(Tail(bus), Head(bus))
    /\ UNCHANGED <<pipeline, market, cooldowns, trap, risk>>
    /\ KeepsLoop

\* _on_execution_report: a critical breach triggers the kill switch, and
\* every breach becomes a RISK_BREACH event.  From the trigger on, the orders
\* still to come are those queued by then and the trap's scan in flight.
OnExecutionReport ==
    /\ OldestIs("EXECUTION_REPORT")
    /\ LET breached == Head(bus).breaches
           triggers == ~killed /\ IsCritical(breached)
       IN  /\ bus' = Tail(bus) \o RiskEvents(breached)
           /\ killed' = (killed \/ triggers)
           /\ grace' = IF triggers
                       THEN Requested + (IF scan = NoScan THEN 0 ELSE 1)
                       ELSE grace
    /\ UNCHANGED <<pipeline, market, cooldowns, trap, found>>
    /\ KeepsLoop

\* _on_risk_breach writes the file and the table; if one of them raises the bus
\* goes on with the next event.
OnRiskBreach ==
    /\ OldestIs("RISK_BREACH")
    /\ undelivered' = undelivered - 1
    /\ bus' = Tail(bus)
    /\ UNCHANGED <<pipeline, market, cooldowns, trap, killed, grace, alarm>>
    /\ KeepsLoop

-----------------------------------------------------------------------------
(* Time, and the end of the process                                        *)

\* A cooldown ends, while the loop is held by a slow network call too.  With
\* PromptBus it outlasts the orders of its symbol.
CooldownEnds(s) ==
    /\ PromptBus => ~Pending(s)
    /\ \/ s \in entryCool /\ entryCool' = entryCool \ {s}
          /\ UNCHANGED <<exitCool, blocked, trapCool>>
       \/ s \in exitCool /\ exitCool' = exitCool \ {s}
          /\ UNCHANGED <<entryCool, blocked, trapCool>>
       \/ blocked[s] # "NO" /\ blocked' = [blocked EXCEPT ![s] = "NO"]
          /\ UNCHANGED <<entryCool, exitCool, trapCool>>
       \/ s \in trapCool /\ trapCool' = trapCool \ {s}
          /\ UNCHANGED <<entryCool, exitCool, blocked>>
    /\ UNCHANGED <<pipeline, bus, market, scan, risk, draining>>

\* A new process: RuntimeContainer.build restores the ledger, nothing else.
ForgetAll ==
    /\ market' = Pipeline!NoMarks
    /\ entryCool' = {} /\ exitCool' = {} /\ blocked' = NothingBlocked
    /\ trapCool' = {} /\ scan' = NoScan
    /\ killed' = FALSE
    /\ grace' = 0
    /\ alarm' = FALSE /\ undelivered' = 0
    /\ draining' = FALSE

\* Orchestrator.stop runs between two turns of the bus task and cancels it.
Stop == ~draining /\ Pipeline!StopAndRestart /\ ForgetAll

Crash == Pipeline!CrashAndRestart /\ ForgetAll

LateFill ==
    /\ \E s \in Symbols, side \in Pipeline!Sides : Pipeline!LateFill(s, side)
    /\ UNCHANGED <<market, cooldowns, trap, risk, draining>>

-----------------------------------------------------------------------------
BusStep ==
    \/ OnOrderBook \/ OnOrderRequest \/ SubmitStep
    \/ OnExecutionReport \/ OnRiskBreach

Next ==
    \/ BusStep
    \/ \E s \in Symbols, p \in Prices : MarketTick(s, p)
    \/ \E s \in Symbols : OrderBook(s) \/ TrapStart(s) \/ CooldownEnds(s)
    \/ TrapBuys \/ TrapPasses
    \/ Stop \/ Crash \/ LateFill

\* The loop gives the bus task its turn, and no handler waits for anything.
Spec == Init /\ [][Next]_vars /\ WF_vars(BusStep)

-----------------------------------------------------------------------------
(* Properties                                                              *)

Events ==
    [type : {"ORDERBOOK_SNAPSHOT"}, symbol : Symbols]
      \cup [type : {"ORDER_REQUEST"}, order : Pipeline!Requests,
            marks : Pipeline!Marks]
      \cup [type : {"EXECUTION_REPORT"}, breaches : Seq(BreachCodes)]
      \cup [type : {"RISK_BREACH"}, code : BreachCodes]

\* Every variable of the services keeps its type, every queued order is one
\* the pipeline accepts, and an order in progress means the bus holds the
\* loop.
TypeOK ==
    /\ bus \in Seq(Events)
    /\ market \in Pipeline!Marks
    /\ entryCool \subseteq Symbols /\ exitCool \subseteq Symbols
    /\ blocked \in [Symbols -> BlockReasons \cup {"NO"}]
    /\ trapCool \subseteq Symbols
    /\ scan \in Symbols \cup {NoScan}
    /\ killed \in BOOLEAN /\ draining \in BOOLEAN
    /\ grace \in Int /\ alarm \in BOOLEAN /\ undelivered \in Int
    /\ pc # "idle" => draining

\* Once the kill switch is triggered the pipeline receives no order but those
\* queued by then and the one of a momentum scan already begun: the pipeline
\* itself never asks the kill switch, every producer has to.
KillSwitchEndsOrders == grace >= 0

\* With short entries off, an exit never sells more than the position: the
\* quantity an exit signal reads is still there when its order is booked,
\* though other orders, failures and restarts come in between.
NeverShort ==
    ~ShortEntries /\ PromptBus =>
        \A s \in Symbols :
            /\ ledger[s].qty >= 0
            /\ missed = {} => Pipeline!ExchangePosition(s) >= 0

\* The strategy enters flat symbols only: when an order it asked for in
\* opening a position reaches the pipeline the symbol is still flat (the
\* momentum trap, which can be first, is off).
EntersOnlyFlat ==
    [][ OnOrderRequest /\ PromptBus /\ ~TrapOn /\ order'.side = "BUY"
          /\ ~ShortEntries
        => ledger[order'.symbol].qty = 0 ]_vars

\* No order to buy a symbol reaches the pipeline while the symbol is blocked
\* after an exit ("after taking profit, the bot avoids immediately re-buying
\* the same coin", docs/LOW_CAPITAL_BINANCE.md).
BlockedNotBought ==
    [][ OnOrderRequest /\ PromptBus /\ ~ShortEntries
          /\ order'.side = "BUY"
        => blocked[order'.symbol] # "EXIT" ]_vars

\* Events beget events, but every turn of the bus ends: each event is handled
\* or lost with its process, the queue empties and the other tasks run again.
BusDrains == (bus # <<>> \/ draining) ~> (bus = <<>> /\ ~draining)

\* Between two turns of the bus the kill switch is on if the portfolio guard
\* found a critical breach after any fill of this process, unless the state file
\* could not be saved: state_store.save then raises behind the guard, no result
\* and no report is left to carry the breach, and trading goes on
\* (execution/fill_processor.py:86-97, microservices/risk_service.py:52-60).
CriticalBreachKills ==
    bus = <<>> /\ ~draining /\ alarm => killed \/ "state_file" \in missed

\* Between two turns every breach the guard found, one per limit and overweight
\* symbol, was handed to the risk event logger exactly once, though events of
\* other orders came between, with the same exception
\* (microservices/risk_service.py:52-76,
\* microservices/risk_event_logger_service.py:42-73).
BreachesLogged ==
    bus = <<>> /\ ~draining => undelivered = 0 \/ "state_file" \in missed

\* The runtime implements OrderPipeline: seen from the pipeline, the other
\* events of the bus do not exist.
PipelineView == INSTANCE OrderPipeline WITH bus <- Queued("EXECUTION_REPORT")
ImplementsPipeline == PipelineView!Init /\ [][PipelineView!Next]_PipelineView!vars
=============================================================================
