# A TLA+ model of AEGIS Fortress Pro

AEGIS is an asyncio trading bot: it polls exchanges for prices, two strategies
turn prices into order requests, a pipeline checks, sends and books each order,
and a risk service watches the positions that result.  This directory models the
parts of it where order matters, checks them with TLC on small instances and
proves part of what is checked with TLAPS for every instance.

## The system

| component | state it keeps | operations | talks to |
|---|---|---|---|
| `EventBus` (core/event_bus.py) | one unbounded queue, subscribers | publish, deliver oldest first, one handler at a time | every service |
| `MarketDataService`, polling source, `MarketStateStore` | last tick and order book per exchange and symbol | poll, normalise, store, publish | bus |
| `LiveStrategyService` with `MeanReversionImbalanceStrategy` | price history, last entry and exit signal, blocked-until, per symbol | on tick, on order book | bus, reads ledger and kill switch |
| `MomentumTrapService` | last signal per symbol, candles already traded on | scan a symbol (awaits candles), publish a BUY | bus, reads ledger, kill switch, market store |
| `ExecutionService` with `ExecutionPipeline` | none of its own; an `Order` moves through its states | submit: validate, route, precision, risk check, create_order, normalise, record, book, publish | exchange, ledger, database, bus |
| `PreTradeRiskValidator`, `PortfolioGuard`, `ExposureEngine` | limits | project an order; find breaches in a book | pipeline |
| `FillProcessor`, `PositionLedger`, `PortfolioStateStore`, database | positions, state file, trades and reports tables | book a fill, record, save; restore at start | pipeline |
| `RiskService`, `RiskEventLoggerService`, `KillSwitch` | triggered flag; risk log | trigger on a critical breach, publish, log | bus |
| `Orchestrator`, `TaskSupervisor`, `RuntimeRunner` | tasks | start and stop services, cancel tasks | all |
| `ExchangeWrapper` with `TokenBucket` and `retry` (exchange.py, utils.py) | tokens, a lock | fetch: token, lock, client, up to so many attempts; create_order: the client alone | feed, trap, router, pipeline |
| `BacktestRuntime` with replay and simulated exchange | clock, quotes, resting orders, equity curve | replay a file, record points, stop | bus |
| `Watchdog` (watchdog.py) | heartbeat file, restart file | beat, poll, replace the process | the legacy main loop |
| router, circuit breaker, rate limiter, failover, recovery, monitoring, reports, scripts | see `PROJECT.json` | | |

What makes it correct, component by component:

* pipeline and stores: the exchange, the ledger, the trades table and the state
  file tell the same story, and where they cannot, it is for a known reason;
* risk check: what was checked bounds what can happen, fill by fill;
* strategies: an exit never sells more than there is, an entry finds the symbol
  flat, a block is kept;
* kill switch: a critical breach reaches it, every breach is logged, and after it
  only a bounded number of orders still goes out;
* bus: a turn of the bus ends;
* services: every event reaches every service once and in order, a stop leaves no
  event between an order and what follows it, and it ends the process;
* exchange wrapper: the rate limit holds over any window, retried calls go one at
  a time, an order is sent once, and every call ends;
* watchdog: a silent process is replaced and no other, and not too often;
* market feed: a round ends whatever fails, a stored tick never goes back, and a
  position at its stop loss is exited;
* ledger: no money appears or disappears, through reversals and restarts;
* backtest: no look-ahead, a complete result, and an end.

What makes it hard.  No handler of the bus suspends (the exchange wrapper is
synchronous), and `queue.get()` on a non-empty queue does not give way either,
so once the bus task runs it empties the queue before anything else runs.  The
interleavings that remain are those of the *queue*: several producers publish
before the bus runs, and an event acts on a world that earlier events have
changed.  The one await that separates a decision from its order is the momentum
trap's fetch of candles.  Beyond the process there are lost responses, fills of
open orders that nobody asks about, exceptions in the middle of booking,
crashes, and restarts from a state file.  Blocking network calls let wall time,
and so cooldowns, pass in the middle of a turn.

## The modules

**`Exposure`** – the arithmetic: exposures of a book, the guard's breaches in the
order it finds them, the validator's verdict.  Pure operators over a book `[symbol
-> [qty, avg]]`. Prices and quantities are small integers; the weight limit is a
fraction compared by cross multiplication.

**`OrderPipeline`** – `ExecutionPipeline.submit` and `FillProcessor.process`,
one step per action between the calls that change something outside the
process (`pc` = idle, check, create, report, book, trade, guard, save, publish), and
the four places a fill is remembered in: `executed` (exchange), `ledger`,
`trades`, `saved`.  Each call that can raise has a `...Raises` action, because
the single `except` of `submit` turns any exception into FAILED and leaves
whatever had been done; when the save raises, the breaches that the guard found one
step before are lost.  `missed` is a history variable: the causes for which a
fill is missing somewhere.  `CrashAndRestart` may happen at any step,
`StopAndRestart` between two orders.

**`TradingRuntime`** – the services around the pipeline on one bus.  It instantiates
`OrderPipeline` (`Pipeline!...`) and adds the queue's other events, the strategies'
cooldowns and blocks, the trap's scan, the kill switch and the risk log.  `draining`
says that the bus task holds the loop.  Whether a strategy signals when its
conditions allow it is a choice: its statistics on prices are abstracted.  A limit
signal without a price in the book raises before it is published, in the strategy
(`Ask`) and always in the trap (`TrapPasses`).  `grace`, `alarm` and `undelivered`
are history variables: how many orders may still come after the trigger, whether the
guard found a critical breach, and the breaches it found that the logger did not get
yet.  The same module is checked to implement `OrderPipeline` (`PipelineView`, with
the bus seen through its EXECUTION_REPORT events only, `ImplementsPipeline`), and
what is proved of the pipeline is carried over to the runtime.  `Queued(type)` is
the subsequence of the queue's events of one type; it is defined by the places of
these events and not with `SelectSeq`, whose recursion a proof could not follow, and
the MC module asserts that the two are equal on every short queue.  An exit's
quantity is one of `Quantities`, which bounds the orders the queue can hold.

**`MarketFeed`** – `ExchangePollingSource`, symbol discovery and
`MarketDataService`.  The fetches do run concurrently, in threads: a round
starts one job per exchange and symbol, at most `MaxFetches` hold the semaphore,
each waits for two fetches, and packets are handled in the order jobs end.  The
market is a counter per exchange and symbol, so that an answer carries the moment
it was given.  What follows an order book is reduced to the decision that needs
it: the exit of a held position (`held`, `due`).  In a symbol of `Untraded`, the
one of the BTC filter if trading it is off, the strategy neither enters nor exits,
but the trap may buy it (`TrapSymbols`).  Stopping in the middle of a
round is not modelled.

**`Backtest`** – `BacktestRuntime.run` with the replay task, the bus task, the
strategy under test and the simulated exchange.  Every file of the bounded
length is an initial state.  A quote is the index of the record it came with,
which is what look-ahead is about.  The interleaving is asyncio's: the replay
gives way after each record, the bus task is then first and empties its queue
(`BusIdle`), and the recording coroutine may come before or after it.  A signal
may be of any symbol; its quote is of the symbol's order book, however old, or of
its tick when the book has no price on that side.

**`Accounting`** – the money in `PositionLedger`, in whole units: entries,
realized and unrealized profit, fees and the file.  `cash` and `entries` are
history variables, and so is `rounded`: an average is a whole number here, and
what the division leaves of the cost is counted there, so that `ProfitIsCash` is an
equation for every price.  It is separate from
`OrderPipeline`, where an average is any price between the old entry and the
fill's; `EntryWithinPrices` is the reason that this is enough there.

**`ExchangeWrapper`** – one wrapper and the threads that call it at once: those
of the executor, and that of the event loop, which asks for prices when it
routes an order and then creates it.  `pc` says for each thread whether it looks
for a token, waits for the lock or is in the client.  Time goes in ticks of
`Rate` token units; the bucket's refill is computed when it is looked at, as in
the code.  `watching`, `since` and `reached` are history: a window that may be
opened at any moment and the calls that reach the client in it, which is what a
rate limit speaks of.  The client is external and may answer or raise.

**`ServiceLifecycle`** – `RuntimeRunner`, `Orchestrator`, `TaskSupervisor`, the
tasks of the services and the bus with its queue of events.  `loop` says who has the
event loop, which is what makes starting, a turn of the bus and stopping
uninterrupted.  Kinds of events follow each other (order book, request, report,
breach), so that an order between its steps is an event `by` a handler in the
queue.  Fetches are calls in threads that a cancellation does not reach.  The
services are reduced to what they subscribe to and publish, up to `MaxFollowUps`
events for one; what they do is in the other modules.  Those of `Fragile` call in
their loop, outside a try, what may raise, and their tasks may die of it.  Events
carry their number, and `HandledInOrder` is stated with it: what a service received
has rising numbers and leaves out no event of its kinds that left the queue.  The
sentinel that `stop` queues for the bus is not there: the bus is cancelled in the
same step and never takes it.

**`Watchdog`** – the watchdog thread, the two files that outlive the process and
the main loop that beats (main_legacy.py:141-170 is its only user).  `watched` is
cleared when the loop shuts down (`Watchdog.stop`); the thread then still polls
once, and may replace the process that is about to end.  A tick is
a poll interval; ages are counted as far as the code tells them apart.  `recent`
is history: the restarts of the last hour, as the set of their ages, since there
is one a poll; `forgotten` those of them that came because the restart file
could not be read and its default, no restart, stood for it (`readable`).  A poll
may fail at any time, a restart may fail to spawn a process, and an operator may
start one.

**`OrderPipeline_proofs`, `Accounting_proofs`, `ExchangeWrapper_proofs`,
`ServiceLifecycle_proofs`, `TradingRuntime_proofs`, `MarketFeed_proofs`,
`Watchdog_proofs`, `Backtest_proofs`** – the theorems.

**`MC...`** – the modules the configurations run.

Operators named `X_Something` next to an operator `X` and commented *Mistake* are
wrong versions of `X` that a plausible slip in the code would produce; no
specification uses them.  Each property was seen to fail when one of them takes
the place of `X`.

## The runs

| run | what it asks | bounds |
|---|---|---|
| `OrderPipeline_orders.cfg` | `BooksAgree`, `NoPhantomTrade`, `CheckCoversFill` | 2 symbols, 2 prices, quantities up to 3 with lot size 2, gross and net limits, 2 orders, 1 fault |
| `TradingRuntime_strategy.cfg` | `NeverShort`, `EntersOnlyFlat`, `BlockedNotBought` | 1 symbol, 3 orders, 2 queued order books, 1 fault |
| `TradingRuntime_killswitch.cfg` | `KillSwitchEndsOrders`, `ImplementsPipeline`, `BusDrains`, `CriticalBreachKills`, `BreachesLogged` | 1 symbol, 2 orders, queue of 3, limits a fill can breach, 2 faults |
| `MarketFeed_rounds.cfg` | `TicksMoveForward`, `RoundsEnd`, `DueExits` | 2 exchanges, 1 symbol, which the strategy trades, 1 permit, 2 quotes each |
| `Backtest_replay.cfg` | `NoLookAhead`, `ResultComplete`, `ResultOfWholeFile`, `Ends` | all files of up to 3 lines, 2 symbols, 2 times; 2 orders |
| `Accounting_ledger.cfg` | `ProfitIsCash`, `EntryWithinPrices`, `PointIsWorth` | 2 symbols, 2 prices, quantities 1 and 2, 3 fills |
| `ExchangeWrapper_calls.cfg` | `OneInClient`, `RateKept`, `OrderOnce`, `CallsEnd` | 2 threads, a bucket of 2 calls refilled by half a call per tick, 2 attempts, windows of 3 ticks |
| `ServiceLifecycle_stop.cfg` | `HandledInOrder`, `FollowUpsHandled`, `QuietAfterStop`, `StopEnds` | 7 services, of which 2 publish and 2 may die, 3 kinds of events, 2 events of tasks, 2 that follow each |
| `Watchdog_restarts.cfg` | `RestartsBounded`, `OnlySilentReplaced`, `FrozenReplaced` | timeout 3, window 8, 3 restarts, turns of 2 ticks |
| `OrderPipeline_exits.cfg`, `TradingRuntime_rebuy.cfg`, `MarketFeed_dropped.cfg` | disagreements with the documentation, see below | as above; `dropped` with 1 exchange, discovery and 2 symbols, of which the strategy trades one |

Every module's `TypeOK` is checked too.

Why these bounds are enough: a position needs two orders to be added to, reduced,
closed or reversed, and quantities up to 3 with partial fills give every branch of
the ledger; a second symbol matters only for the sums of exposures.  In the runtime
an entry, its exit and a third order (a second exit or a re-entry) are what the
properties relate, behind the kill switch an order that triggers it and one that
follows, and two order book events in one turn are enough for a decision on a
position that an earlier event is about to change.  One fault shows what a fault can
separate; a second one only adds a cause.  The kill switch run has two of both: an
order may follow one whose breach was lost with the state file, and fail as well.
In the feed one permit and two jobs make every job wait for another, and two quotes
make one answer older than another.  In a replay three lines are a tick whose order
is waiting, a record that overtakes it and a record that cannot be used; two orders
are a fill and one that stays open, and with two symbols an order's quote can be of
another record than its tick.  Three fills open, add to, reduce, close and reverse a
position, and make an entry that is a mean of means; a second symbol makes the
profit a sum.  The prices 2 and 3 give averages that are not whole. In the wrapper
two threads are one that waits and one that has what it waits for, a bucket of two
calls lets a burst and a shortage happen, and a window of three ticks contains a
refilled call besides.  In the life cycle three kinds of events are a chain with a
middle, two that follow one make chains cross, and two events of tasks reach
services before, during and after a turn of the bus.  The watchdog's window is long
enough for all restarts of one window to fall next to those of the following one:
with these values 2 `MaxRestarts` - 1 restarts do come within one window if every
read succeeds, and the bound is the tight one then.

The bounds are `MaxOrders`, `MaxFaults`, `MaxQueue`, `MaxVersion`, `MaxRecords`,
`MaxFills`, `MaxIdle`, `MaxWindow`, `MaxEvents` and `MaxFollowUps`.  Deadlock is
checked in the feed, the wrapper and the watchdog, which never stop; elsewhere the
process really stops when it has no more orders or records within the bound, or has
ended.

`PromptBus` is an assumption of the strategy runs: a cooldown (at least 5 s for
exits) outlasts the handling of an order already queued.  Without it a slow
exchange call can outlast the exit cooldown, and a position be sold twice; the
code has nothing else against that.

**Fairness.**  `WF_vars(BusStep)`: asyncio schedules a task whose awaited future
is done, and no handler waits for anything.  Nothing is assumed of producers,
of time, of the exchange or of a restart.  In `MarketFeed` every fetch returns
(ccxt has a timeout and the wrapper's attempts are bounded) and an order book
that is fetched for ever is some time answered with a usable one
(`BooksAnswered`, strong fairness of that answer only); without the second an
exchange that is down for ever would refute `DueExits`.  In `Backtest` the tasks
of the loop get their turns: weak fairness of the replay, the bus and the two
steps of `run`.

In `ExchangeWrapper` time passes and the client answers or raises (weak
fairness; ccxt has a timeout).  `consume` polls, and a lock is free again and
again, so a token and the lock are taken under strong fairness of each thread:
Python's lock promises no order, but a scheduler does not pass over one thread
for ever.  That `CallReturns` in `ServiceLifecycle` and the fetches in
`MarketFeed` are fair rests on `CallsEnd`.  In `ServiceLifecycle` the loop runs
what is ready: weak fairness of starting, delivery, each cancellation and the
end, and strong fairness of `Stop`, since a turn of the bus takes the loop from it
but the ready queue is first in, first out, so that a stop comes after one turn.  In
`Watchdog` time passes and polls happen; strong fairness of `Restart(TRUE)` says
that reading and writing the files does not fail for ever.  Nothing is assumed of the
main loop, of freezing or of operators.

## Where code and documentation disagree

* `ReducingOrdersPass`: exits pass through the same notional limits as entries.
  With the low-capital template (target = maximum = 7.5) a profitable exit is
  above the maximum and is rejected.
* `BlockedNotBought` with the trap on: the trap does not know of the strategy's
  block after a take-profit and buys the coin again.
* `DueExits` with automatic discovery: every half hour the polled symbols are
  replaced by what discovery selects, without those that have a position.  A
  market that falls leaves the selection (`min_change_pct`), its order books stop
  coming, and its stop loss, looked at only on an order book, does not fire.

Found while modelling, with no run of their own:

* README.md:17 lists "drawdown limits, pre-trade risk, kill-switch behavior" among
  the risk controls and docs/LIVE_AUDIT_REPORT.md:46 asks to "Keep max daily loss
  1-2 USDT".  The kill switch has both limits as settings, but only `update_pnl` and
  `update_balance` (risk/kill_switch.py:74) compare anything with them, and
  nothing calls these.
* The first order of an empty book is the whole gross exposure, a symbol weight
  of 1, so a weight limit below 1, as the default of 0.4, refuses every order
  of an empty book (risk/pre_trade_risk.py:142).  The runs use 1.
* watchdog.py:32 and :97 promise "max N restarts per hour"; the windows follow each
  other from the first restart on, so up to 2N - 1 come within an hour, and a restart
  file that cannot be read counts as one without restarts (`safe_read_json` returns
  its default on any error, utils.py:99-104), so that each failed read may let N more
  through.  `RestartsBounded` states the bound that the code keeps, not the promise.
* configs/fortress_low_capital.env.template:42 says of the strategy "This exits open
  long positions automatically."  The same template has BTC/USDT among the symbols
  (:25), `AEGIS_TRADE_BTC_SYMBOL=false` (:59) and the momentum trap on (:62).  The trap
  scans the same symbols and can buy BTC; on_orderbook returns for a BTC book before
  it looks at any exit (strategies/mean_reversion_imbalance.py:295-297), so nothing
  ever exits that position.  `DueExits` is stated of the symbols the strategy trades
  for this reason.
* README.md:17 names the kill switch among the risk controls.  When the state file
  cannot be saved (execution/fill_processor.py:97), the critical breach that the guard
  found just before (:86) goes with the exception: no report is published and trading
  goes on.  `CriticalBreachKills` and `BreachesLogged` have to except it.
* watchdog.py:83 takes a missing heartbeat file for the sign of a starting bot; a
  process that the watchdog started finds its predecessor's file, old already, and
  is replaced in its turn unless its first turn ends before the next poll
  (`OnlySilentReplaced` has to except it).
* exchange.py:6 says that a token bucket limits the calls per exchange;
  `create_order` takes neither a token nor the lock, so `RateKept` and
  `OneInClient` speak of the retried calls.

Two more hazards show as causes in `missed`, and `BooksAgree` says that they are
the only ones of their kind: an exception of `create_order` after the exchange
executed the order (the order is FAILED and nobody asks about it), and a crash
between `create_order` and the save of the state file, which is written last (the
restarted process does not know the position).

## What is proved

In `OrderPipeline_proofs`, for every set of symbols and prices, every limit and
every bound, from `ExposureAssumption` and `PipelineAssumption` (what the
constructors check: positive prices, limits and lot size):

* `TypeCorrect`: `Spec => []TypeOK`.
* `TradesCorrect`: `Spec => []NoPhantomTrade`.  Not inductive as it stands: when
  a trade is about to be recorded nothing says that it was executed.  `TradesInv`
  adds `Unrecorded`, the fill in progress, to the table's side.
* `BooksCorrect`: `Spec => []BooksAgree`.  The property speaks of `pc = "idle"`
  only; `BooksInv` says what the books differ by at every other step
  (`Unbooked`, `Unrecorded`), and that a fill is positive from `trade` to `save`,
  which is why a restart there always leaves a cause in `missed`.
* `FillsCovered`: `Spec => CheckCoversFill`.  `CheckedInv` carries what the risk
  check found from the check to the booking: the limits hold for the whole order at
  the ledger and the marks of the moment, which no step in between changes, and a
  report fills no more than was ordered.  `PartWithin` is the arithmetic, a part of
  a move lies between none and all of it.  That an exposure moves by what the
  notional of one symbol moves is `SumMoves`.

A sum over the symbols is a recursive function of the community modules that picks
an element with CHOOSE.  That there is such a function, that there is only one, and
that it sums in any order is proved by induction over the subsets of a finite set
(`RecursionExists`, `RecursionUnique`, `SumAdds`), in the form that a set of
subsets has a smallest one (`SmallestSubset`), because an induction theorem with an
operator as its parameter cannot be applied.  It needs that there are finitely many
symbols, which `ExposureAssumption` and `AccountingAssumption` say: a dictionary
holds them.  The lemmas are in this module and in `Accounting_proofs`.

In `Accounting_proofs`, for every set of symbols, prices, quantities and fees,
from `AccountingAssumption`:

* `EntryCorrect`: `Spec => []EntryWithinPrices`.  The arithmetic is in one lemma,
  `MeanWithin` (a weighted mean, rounded down, stays within the bounds of its two
  numbers); `EntryInv` adds that the file has the quantities and entries of the
  ledger, since a restart replaces the one by the other while the history of
  entries goes on.
* `AccountsTyped`: `Spec => []TypeOK`.
* `ProfitCorrect`: `Spec => []ProfitIsCash`.  `ProfitInv` adds that the file has the
  realized profit, the quantities and the entries of the ledger.  `FillBalances` is
  the equation a fill keeps, in the five cases of the ledger: opening, adding,
  reducing, closing, reversing.
* `PointsCorrect`: `Spec => PointIsWorth`, from the same invariant: marked, a position
  is worth its cost and its unrealized profit (`MarkedWorth`), and the sum of both
  is the sum of each (`SumPlus`).

In `ExchangeWrapper_proofs`, for every set of threads, capacity, rate, cost and
number of attempts, from `WrapperAssumption`:

* `WrapperTyped`: `Spec => []TypeOK`.
* `ClientSerial`: `Spec => []OneInClient`.  `LockHeld` ties the place of a thread
  to the lock: who is in the client holds it.
* `RateLimited`: `Spec => []RateKept`.  Not inductive: a thread that waits for the
  lock has its token, perhaps of a time before the window.  `WindowPaid` adds the
  tokens still in the bucket and those the waiting threads hold to what has
  reached the client; each thread can hold one, which is where the number of
  threads comes from.
* `OrderSentOnce`: `Spec => []OrderOnce`, with `OrderPending`: an order that is
  under way has not been executed.

In `ServiceLifecycle_proofs`, for every sequence of services, subscriptions and
kinds of events, from `LifecycleAssumption`:

* `LifecycleTyped`: `Spec => []TypeOK`.
* `ChainsComplete`: `Spec => []FollowUpsHandled`.  `TurnsEnd` is the reason: when
  the bus does not have the loop, only events of tasks are in the queue.
* `NothingAfterStop`: `Spec => QuietAfterStop`, from `Stopped`: once the process
  is stopping, the bus is no longer waiting for events.
* `EventsInOrder`: `Spec => []HandledInOrder`.  `Numbered` says that the queue is the
  last part of what was published, in its order; `AllSubscribed`, that every
  service has subscribed before the first turn of the bus, so that none misses an
  event for having come late.

In `TradingRuntime_proofs`, for every set of symbols and prices, every limit and
bound, with short entries, limit orders and the trap on or off, from
`ExposureAssumption` and `RuntimeAssumption`:

* `KillSwitchStops`: `Spec => []KillSwitchEndsOrders`.  `grace` counts down the
  orders that may still come; alone it says nothing of the queue.  `Covered` says
  that from the trigger on it covers the orders in the queue and the trap's scan
  in flight (`Count`, `InFlight`); a scan that asks for its order moves one from
  the second to the first.  How appending, taking and joining change the number of
  orders in a queue is in `CountAppend`, `CountTail` and `CountConcat`.
* `BreachesKill`: `Spec => []CriticalBreachKills`.  The property speaks of the end of
  a turn; `AlarmInv` says where the critical breach is until then: found and not yet
  published (`Unsettled`), or in a report in the queue (`Alarmed`), unless it has
  triggered the kill switch or was lost with the state file.
* `RuntimeTyped`: `Spec => []TypeOK`.  `Types` adds the types of the pipeline as it
  is seen in the runtime, which its own proof gives.
* `PipelineImplemented`: `Spec => ImplementsPipeline`.  Each action maps to a step of
  the pipeline (`ViewOnOrderRequest`, ...) or to a stutter.  The reports of the
  queue are a subsequence of it, and how appending to and taking from a queue
  changes a subsequence is proved first (`OnlyAppend`, `OnlyTail`).
* `RuntimeBooks`, `RuntimeTrades`, `RuntimeChecks`: the pipeline's `BooksAgree`,
  `NoPhantomTrade` and `CheckCoversFill` hold in the runtime.  `View` is the instance
  of `OrderPipeline_proofs` that carries its theorems over.
* `ExitsCovered`: `Spec => []NeverShort`.  `SalesInv` speaks of the orders to sell on
  their way: at most one for a symbol, in the queue or in the pipeline, of no more
  than is held, and only while the symbol's exit cooldown runs.  That the exchange
  has what the ledger has comes from the pipeline's `BooksInv`.
* `EntriesFlat`: `Spec => EntersOnlyFlat`, and `NoRebuy`: `Spec => BlockedNotBought`.
  `BuysInv` says the same of the orders to buy: at most one for a symbol, which is
  flat and not blocked while it waits.  It holds without the momentum trap only,
  so `NoRebuy` assumes `~TrapOn`; with the trap the property is false, which is the
  run `TradingRuntime_rebuy.cfg`.

In `MarketFeed_proofs`, from `FeedAssumption` (what a fetch may answer, `Pending`,
`Failed` and `Invalid`, is distinct from the versions of a quote):

* `FeedTyped`: `FairSpec => []TypeOK`.  That permits stay within the semaphore's
  comes from `Permitted` (permits and fetching jobs make up the semaphore), that at
  most two packets wait from `OneJob` (they are of one finished job).
* `TicksForward`: `FairSpec => TicksMoveForward`.  `Aged` puts the stored tick
  before what a job of its key holds, and that before the exchange's version.

In `Watchdog_proofs`, for every timeout, window, limit and longest turn, from
`WatchdogAssumption` (a turn that is not frozen is within the timeout):

* `WatchdogTyped`: `FairSpec => []TypeOK`.
* `RestartsLimited`: `FairSpec => []RestartsBounded`.  The restarts of the last
  hour may be of the open window, of what came before it, and of windows that a
  failed read put an end to.  `Windows` bounds the youngest restarts, however many
  of them are looked at, by the count of the open window and a limit's worth for the
  one before and for each failed read among them (`Allowed`): when a window is over,
  the restart that opened it is more than an hour ago, and that is the one that makes
  the bound 2N - 1 and not 2N where every read succeeds.
* `OnlySilent`: `FairSpec => OnlySilentReplaced`, from `OwnBeat`: a process that
  wrote a heartbeat finds its own in the file.

In `Backtest_proofs`, for every file, symbols, quantities and bound, from
`BacktestAssumption`:

* `BacktestTyped`: `FairSpec => []TypeOK`.
* `LooksNotAhead`: `FairSpec => []NoLookAhead`, with `OneCause`: the queue holds
  only what the last record handled led to, in whatever symbols.
* `EndsComplete`: `FairSpec => []ResultComplete`, with `Summed` (the positions are
  the sums of the fills) and `Ended` (the queue is empty when the bus has stopped).
* `ReadsWholeFile`: `FairSpec => []ResultOfWholeFile`.

Each proof has one step per action.  The invariants were checked with TLC before
they were proved.  Every invariant and every action property that a run checks, and
the refinement, is a theorem, but one: `BreachesLogged` is only model-checked.  So is
all liveness (`BusDrains`, `RoundsEnd`, `DueExits`, `Ends`, `CallsEnd`, `StopEnds`,
`FrozenReplaced`), which rests on fairness and is out of the prover's reach.

## Not modelled, and the plan

The repository has about 48,000 lines of Python, of which 27,900 are a copy of
pip's installer (scripts/maintenance/get-pip.py) that is no part of the program.  Of the
rest, about 5,700 lines are the former bot (main_legacy.py, rl_agent.py,
features_extended.py, market_maker.py, execution.py, risk.py, models.py, backtest.py
and others).  Packages of the same names shadow execution.py, models.py and risk.py,
so `main_legacy`, which imports them, cannot be imported any more, and no process
runs it.  The watchdog is modelled, as the one part of it that stands alone; main.py
is the command line that starts the runtime, the backtest and the checks.

Not modelled of the running system: the statistics that decide on a signal, the
arithmetic of the momentum trap's indicators on candles, logging, metrics, HTTP,
reports and scripts.  They compute from floating-point numbers or format text, and
the models have their outcome as a choice.  One exchange stands for all in the
pipeline, so the router's choice between exchanges is left out.  The circuit
breaker, rate limiter, failover, recovery and reconciliation helpers under core/
and risk/ are not called by any service.  Slippage and performance metrics are left
out of the backtest.

What could come next, in this order:

1. several exchanges in the pipeline: the router takes the best price of the
   enabled exchanges, and an entry may be made at one and its exit sent to another;
2. staleness in `MarketStateStore` (`mark_prices` keeps whichever exchange ticked
   first in its dictionary's order), and stopping in the middle of a polling round;
3. `BreachesLogged` as a theorem: it needs the number of breaches in all queued
   reports, a sum over the queue;
4. a bound on what averages round (`rounded` grows by less than a unit for each lot
   of a fill that adds), and the refinement of the ledger of `OrderPipeline` by
   `Accounting`.
