------------------------------ MODULE Backtest ------------------------------
(***************************************************************************)
(* A backtest (backtesting/backtest_runtime.py): a replay task feeds the   *)
(* records of a file to the stores and the event bus, the strategy under   *)
(* test answers ticks with orders, the execution pipeline of the live      *)
(* runtime sends them to a simulated exchange, and the main coroutine      *)
(* records equity points until the replay says it is done.                 *)
(*                                                                         *)
(* Market data is abstracted to the place it has in the file: a quote is   *)
(* the index of the record it came with.  Every line of the file is a      *)
(* tick, an order book, a record that cannot be normalised, or a line the  *)
(* reader rejects.                                                         *)
(*                                                                         *)
(* All tasks share one loop.  A published event wakes the bus task, which  *)
(* is then ahead of the replay task in the loop's order and empties the    *)
(* queue, as no handler suspends; the main coroutine may still have its    *)
(* turn first.                                                             *)
(***************************************************************************)
EXTENDS Integers, Sequences, FiniteSets

CONSTANTS
    Symbols,
    Times,        \* timestamps of records, as numbers
    MaxRecords,   \* bound: lines of the file
    MaxOrders     \* bound: orders of the strategy

ASSUME BacktestAssumption ==
    /\ Times \subseteq Nat
    /\ MaxRecords \in Nat \ {0} /\ MaxOrders \in Nat

Kinds == {"TICK", "BOOK", "BAD_PAYLOAD", "BAD_LINE"}
Records == [kind : Kinds, time : Times, symbol : Symbols]
Files == UNION {[1 .. n -> Records] : n \in 1 .. MaxRecords}

Sides == {"BUY", "SELL"}
OrderTypes == {"MARKET", "LIMIT"}

VARIABLES
    file,      \* what replay_file holds
    next,      \* the line the replay reads next
    lastTime,  \* ReplayClock._last_event_time, -1 for None
    running,   \* ReplayMarketDataService.running
    crashed,   \* its task ended with an exception
    ticks,     \* SimulatedExchange._ticks: index of the record, 0 for none
    books,     \* SimulatedExchange._orderbooks
    bus,       \* EventBus.queue
    orders,    \* orders the strategy has asked for
    resting,   \* orders the simulated exchange left open
    position,  \* PositionLedger, in lots
    fills,     \* history: fills of the ledger, with their quote and the last
               \* record the replay had handled
    main,      \* where BacktestRuntime.run is
    point      \* the last equity point: the positions it is made of

replay == <<next, lastTime, running, crashed>>
exchange == <<ticks, books, resting>>
vars == <<file, replay, exchange, bus, orders, position, fills, main, point>>

None == -1

Init ==
    /\ file \in Files
    /\ next = 1 /\ lastTime = None /\ running = TRUE /\ crashed = FALSE
    /\ ticks = [s \in Symbols |-> 0] /\ books = [s \in Symbols |-> 0]
    /\ bus = <<>>
    /\ orders = 0 /\ resting = 0
    /\ position = [s \in Symbols |-> 0]
    /\ fills = <<>>
    /\ main = "RECORDING"
    /\ point = [s \in Symbols |-> 0]

-----------------------------------------------------------------------------
(* The replay                                                              *)

\* Mistake: a handler suspends and the other tasks go on meanwhile.
BusIdle_HandlersSuspend == TRUE

\* The bus task has emptied the queue and waits.
BusIdle == bus = <<>>

AtEnd == next > Len(file)
Record == file[next]

\* ReplayClock.advance_to refuses a record older than the last one.
InOrder == lastTime = None \/ Record.time >= lastTime

\* The record takes effect: the clock, the simulated exchange and the bus.
Handle(r) ==
    /\ lastTime' = r.time
    /\ CASE r.kind = "TICK" ->
              /\ ticks' = [ticks EXCEPT ![r.symbol] = next]
              /\ bus' = Append(bus, [type |-> "MARKET_TICK", symbol |-> r.symbol,
                                     record |-> next])
              /\ UNCHANGED books
         [] r.kind = "BOOK" ->
              /\ books' = [books EXCEPT ![r.symbol] = next]
              /\ bus' = Append(bus, [type |-> "ORDERBOOK_SNAPSHOT"])
              /\ UNCHANGED ticks
         [] OTHER -> UNCHANGED <<ticks, books, bus>>

\* Mistake: a record that cannot be handled ends the task.
ReplayRecord_NotCaught ==
    /\ running /\ ~crashed /\ main # "STOPPED"
    /\ BusIdle /\ ~AtEnd
    /\ Record.kind # "BAD_LINE"
    /\ IF InOrder THEN Handle(Record)
                  ELSE UNCHANGED <<lastTime, ticks, books, bus>>
    /\ next' = next + 1
    /\ crashed' = (Record.kind = "BAD_PAYLOAD" \/ ~InOrder)
    /\ UNCHANGED <<file, running, resting, orders, position, fills, main, point>>

\* One turn of the loop in run: a record out of order or that cannot be
\* normalised is counted as failed and skipped.
ReplayRecord ==
    /\ running /\ ~crashed /\ main # "STOPPED"
    /\ BusIdle /\ ~AtEnd
    /\ Record.kind # "BAD_LINE"
    /\ IF InOrder THEN Handle(Record)
                  ELSE UNCHANGED <<lastTime, ticks, books, bus>>
    /\ next' = next + 1
    /\ UNCHANGED <<file, running, crashed, resting, orders, position, fills,
                   main, point>>

\* Mistake: running is cleared when the task ends, whatever ended it.
ReplayLineRejected_AsCompletion ==
    /\ running /\ ~crashed /\ main # "STOPPED"
    /\ BusIdle /\ ~AtEnd
    /\ Record.kind = "BAD_LINE"
    /\ crashed' = TRUE /\ running' = FALSE
    /\ UNCHANGED <<file, next, lastTime, exchange, bus, orders,
                   position, fills, main, point>>

\* ReplaySource.records raises, outside the try of run: the task ends, the
\* supervisor logs it, and running stays TRUE.
ReplayLineRejected ==
    /\ running /\ ~crashed /\ main # "STOPPED"
    /\ BusIdle /\ ~AtEnd
    /\ Record.kind = "BAD_LINE"
    /\ crashed' = TRUE
    /\ UNCHANGED <<file, next, lastTime, running, exchange, bus, orders,
                   position, fills, main, point>>

\* The loop of run has ended.
ReplayEnds ==
    /\ running /\ ~crashed
    /\ BusIdle /\ AtEnd
    /\ running' = FALSE
    /\ UNCHANGED <<file, next, lastTime, crashed, exchange, bus, orders,
                   position, fills, main, point>>

-----------------------------------------------------------------------------
(* The bus: strategy, execution and the simulated exchange                 *)

OldestIs(type) == bus # <<>> /\ Head(bus).type = type

\* StrategyReplayService: the strategy answers a tick with any number of
\* orders, of any symbols, which go to the end of the queue with the record
\* that caused them.
Requests == [type : {"ORDER_REQUEST"}, symbol : Symbols,
             side : Sides, kind : OrderTypes, record : {Head(bus).record}]
Answers == UNION {[1 .. n -> Requests] : n \in 0 .. MaxOrders - orders}

OnMarketTick ==
    /\ OldestIs("MARKET_TICK")
    /\ \E requests \in Answers :
         /\ bus' = Tail(bus) \o requests
         /\ orders' = orders + Len(requests)
    /\ UNCHANGED <<file, replay, exchange, position, fills, main, point>>

\* Nothing in a backtest listens to these: order books only set quotes.
OnOrderBook ==
    /\ OldestIs("ORDERBOOK_SNAPSHOT")
    /\ bus' = Tail(bus)
    /\ UNCHANGED <<file, replay, exchange, orders, position, fills, main, point>>

\* get_best_bid and get_best_ask: the order book comes first, however old, and
\* the tick is taken when the book has no positive price on that side.
Quotes(s) == {books[s], ticks[s]} \ {0}

\* create_order fills a market order at once and completely, a limit order
\* if its price crosses the quote; otherwise the order stays open and nothing
\* looks at it again.  Without a quote the order fails.
Execute(o) ==
    \E quote \in Quotes(o.symbol), filled \in BOOLEAN :
        /\ filled \/ o.kind = "LIMIT"
        /\ IF filled
           THEN /\ position' = [position EXCEPT ![o.symbol] =
                                   @ + (IF o.side = "BUY" THEN 1 ELSE -1)]
                /\ fills' = Append(fills, [order |-> o, quote |-> quote,
                                           latest |-> next - 1])
                /\ UNCHANGED resting
           ELSE resting' = resting + 1 /\ UNCHANGED <<position, fills>>

Rejected == UNCHANGED <<position, fills, resting>>

\* Mistake: the request stays on the queue and is executed again.
OnOrderRequest_NotTaken ==
    /\ OldestIs("ORDER_REQUEST")
    /\ Rejected \/ Execute(Head(bus))
    /\ UNCHANGED <<file, replay, ticks, books, bus, orders, main, point>>

\* ExecutionService hands the request to the pipeline, which the risk check
\* may refuse.  The report it publishes has no handler that trades.
OnOrderRequest ==
    /\ OldestIs("ORDER_REQUEST")
    /\ Rejected \/ Execute(Head(bus))
    /\ bus' = Tail(bus)
    /\ UNCHANGED <<file, replay, ticks, books, orders, main, point>>

-----------------------------------------------------------------------------
(* BacktestRuntime.run                                                     *)

\* _record_equity_point marks the positions and takes the ledger as it is.
RecordPoint ==
    /\ main = "RECORDING" /\ running
    /\ point' = position
    /\ UNCHANGED <<file, replay, exchange, bus, orders, position, fills, main>>

\* The replay is done: run sleeps for a tenth of a second.
Settle ==
    /\ main = "RECORDING" /\ ~running
    /\ main' = "SETTLING"
    /\ UNCHANGED <<file, replay, exchange, bus, orders, position, fills, point>>

\* The last point, then the orchestrator stops and the tasks are cancelled.
Finish ==
    /\ main = "SETTLING"
    /\ point' = position
    /\ main' = "STOPPED"
    /\ UNCHANGED <<file, replay, exchange, bus, orders, position, fills>>

BusStep ==
    /\ main # "STOPPED"
    /\ OnMarketTick \/ OnOrderBook \/ OnOrderRequest

ReplayStep == ReplayRecord \/ ReplayLineRejected \/ ReplayEnds
Next == ReplayStep \/ BusStep \/ RecordPoint \/ Settle \/ Finish

\* Every task of the loop gets its turn.
FairSpec ==
    /\ Init /\ [][Next]_vars
    /\ WF_vars(ReplayStep) /\ WF_vars(BusStep) /\ WF_vars(Settle) /\ WF_vars(Finish)

-----------------------------------------------------------------------------

\* The types of the variables.
TypeOK ==
    /\ file \in Files
    /\ next \in 1 .. MaxRecords + 1
    /\ lastTime \in Times \cup {None}
    /\ running \in BOOLEAN /\ crashed \in BOOLEAN
    /\ ticks \in [Symbols -> 0 .. MaxRecords]
    /\ books \in [Symbols -> 0 .. MaxRecords]
    /\ orders \in 0 .. MaxOrders /\ resting \in 0 .. MaxOrders
    /\ position \in [Symbols -> -MaxOrders .. MaxOrders]
    /\ Len(fills) <= MaxOrders
    /\ main \in {"RECORDING", "SETTLING", "STOPPED"}
    /\ point \in [Symbols -> -MaxOrders .. MaxOrders]

\* No look-ahead: an order, of whatever symbol, is filled while the tick that
\* led to it is still the last record handled, at a quote no later than that
\* tick.  It takes that the bus is empty before the replay goes on
\* (backtesting/replay_market_data_service.py:63,
\* backtesting/simulated_exchange.py:122-156).
NoLookAhead ==
    \A i \in 1 .. Len(fills) :
        LET f == fills[i]
        IN  f.latest = f.order.record /\ f.quote <= f.order.record

\* The result is complete: when the run is over no event is left on the bus,
\* and the last equity point is of the positions that the fills make; an order
\* left open moves nothing (backtesting/backtest_runtime.py:217-223,
\* backtesting/simulated_exchange.py:186-198).
Signed(s, side) ==
    Cardinality({i \in 1 .. Len(fills) :
                   fills[i].order.symbol = s /\ fills[i].order.side = side})
ResultComplete ==
    main = "STOPPED" =>
        /\ bus = <<>>
        /\ \A s \in Symbols : point[s] = Signed(s, "BUY") - Signed(s, "SELL")

\* A result is of the whole file: the run does not return one when the replay
\* task ended on a line it could not read (backtesting/backtest_runtime.py:213).
ResultOfWholeFile == main = "STOPPED" => AtEnd

\* The run returns if every line of the file can be read, whichever records
\* cannot be handled.  With a line the reader rejects it waits for ever: the
\* replay task ends without clearing running
\* (backtesting/replay_market_data_service.py:37, 55, 65).
Readable == \A i \in 1 .. Len(file) : file[i].kind # "BAD_LINE"
Ends == Readable ~> main = "STOPPED"
=============================================================================
