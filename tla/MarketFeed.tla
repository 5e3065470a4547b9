----------------------------- MODULE MarketFeed -----------------------------
(***************************************************************************)
(* The market feed: ExchangePollingSource polls every exchange for every   *)
(* symbol of the universe, MarketDataService puts what it yields into      *)
(* MarketStateStore and on the event bus, where the live strategy decides  *)
(* about entries and exits.                                                *)
(*                                                                         *)
(* Polling goes in rounds.  A round refreshes the universe if that is due, *)
(* starts one job per exchange and symbol, and ends when every job has     *)
(* been awaited and its packets yielded.  At most MaxFetches jobs hold the *)
(* round's semaphore.  A job fetches the ticker and the order book in two  *)
(* threads, in any order, and either may fail.                             *)
(*                                                                         *)
(* The market is a counter per exchange and symbol, its version: what a    *)
(* fetch returns is the version of the moment it was answered.             *)
(***************************************************************************)
EXTENDS Naturals, Sequences, FiniteSets

CONSTANTS
    Exchanges, Symbols,
    FirstUniverse,    \* the symbols polled at first, and the fallback
    AlwaysInclude,    \* AEGIS_SYMBOL_DISCOVERY_ALWAYS_INCLUDE
    Listed,           \* the symbols the primary exchange lists
    Discovery,        \* AEGIS_AUTO_SYMBOL_DISCOVERY
    TrapSymbols,      \* the symbols the momentum trap may buy
    Untraded,         \* watched but not traded by the strategy: the symbol of
                      \* the BTC filter if AEGIS_TRADE_BTC_SYMBOL is off
    MaxFetches,       \* AEGIS_MARKET_FETCH_CONCURRENCY
    Pending, Failed, Invalid,  \* a fetch is not answered, raises, or returns
                               \* what normalizer or strategy pass over
    MaxVersion        \* bound: quotes per exchange and symbol

ASSUME FeedAssumption ==
    /\ FirstUniverse \in (SUBSET Symbols) \ {{}}
    /\ AlwaysInclude \subseteq Symbols /\ TrapSymbols \subseteq Symbols
    /\ Listed \subseteq Symbols /\ Untraded \subseteq Symbols
    /\ Discovery \in BOOLEAN
    /\ MaxFetches \in Nat \ {0} /\ MaxVersion \in Nat \ {0}
    /\ {Pending, Failed, Invalid} \cap (1 .. MaxVersion) = {}
    /\ Pending # Failed

Keys == Exchanges \X Symbols
SymbolOf(k) == k[2]

VARIABLES
    universe,   \* ExchangePollingSource.symbols
    polling,    \* a round is under way
    permits,    \* the value of the round's semaphore
    job,        \* what _poll_exchange_symbol is at, for each key
    ticker,     \* of a job that holds the semaphore: the answer to its
    depth,      \*   fetch_ticker and fetch_order_book
    arrived,    \* keys of finished jobs, in the order asyncio.as_completed
                \*   hands them out
    packets,    \* packets of the job just awaited, not yet yielded
    version,    \* what the exchange would answer now
    tick,       \* MarketStateStore._ticks: version stored, 0 for none
    held,       \* symbols with a position whose exit was not asked for
    due         \* those of them whose price has reached the stop loss

round == <<permits, job, ticker, depth, arrived, packets>>
book == <<held, due>>
vars == <<universe, polling, round, version, tick, book>>

NoAnswer == {Pending, Failed, Invalid}
Versions == 1 .. MaxVersion

Init ==
    /\ universe = FirstUniverse
    /\ polling = FALSE
    /\ permits = MaxFetches
    /\ job = [k \in Keys |-> "NONE"]
    /\ ticker = [k \in Keys |-> Pending]
    /\ depth = [k \in Keys |-> Pending]
    /\ arrived = <<>> /\ packets = <<>>
    /\ version = [k \in Keys |-> 1]
    /\ tick = [k \in Keys |-> 0]
    /\ held = {} /\ due = {}

-----------------------------------------------------------------------------
(* ExchangePollingSource                                                   *)

\* discover_tradeable_symbols: the selected markets with those of the always
\* included that are listed, or the fallback.  A market is selected by its
\* volume, its change and its spread, never because a position in it is open.
Discovered ==
    {S \cup (AlwaysInclude \cap Listed) : S \in SUBSET Listed} \cup {FirstUniverse}

\* The refresh may be due or not; an empty or failed discovery changes
\* nothing.
RefreshedUniverses ==
    IF Discovery THEN {universe} \cup (Discovered \ {{}}) ELSE {universe}

Fetching == {k \in Keys : job[k] = "FETCHING"}
RoundOver == arrived = <<>> /\ packets = <<>> /\ \A k \in Keys : job[k] = "NONE"

\* Mistake: the next round starts while jobs of the last one are running.
StartRound_NoBarrier ==
    /\ polling' = TRUE
    /\ universe' \in RefreshedUniverses
    /\ permits' = MaxFetches
    /\ LET new == {k \in Keys : SymbolOf(k) \in universe' /\ job[k] = "NONE"}
       IN  /\ job' = [k \in Keys |-> IF k \in new THEN "WAITING" ELSE job[k]]
           /\ ticker' = [k \in Keys |-> IF k \in new THEN Pending ELSE ticker[k]]
           /\ depth' = [k \in Keys |-> IF k \in new THEN Pending ELSE depth[k]]
    /\ UNCHANGED <<arrived, packets, version, tick, book>>

\* stream: refresh the universe and create the round's semaphore and jobs.
StartRound ==
    /\ ~polling
    /\ polling' = TRUE
    /\ universe' \in RefreshedUniverses
    /\ permits' = MaxFetches
    /\ job' = [k \in Keys |->
                 IF SymbolOf(k) \in universe' THEN "WAITING" ELSE "NONE"]
    /\ ticker' = [k \in Keys |-> Pending]
    /\ depth' = [k \in Keys |-> Pending]
    /\ UNCHANGED <<arrived, packets, version, tick, book>>

\* The job enters the semaphore and starts its two fetches.
Acquire(k) ==
    /\ job[k] = "WAITING"
    /\ permits > 0
    /\ permits' = permits - 1
    /\ job' = [job EXCEPT ![k] = "FETCHING"]
    /\ UNCHANGED <<universe, polling, ticker, depth, arrived, packets,
                   version, tick, book>>

\* _safe_fetch_ticker: an exception becomes no payload.
FetchTicker(k, answer) ==
    /\ job[k] = "FETCHING" /\ ticker[k] = Pending
    /\ ticker' = [ticker EXCEPT ![k] = answer]
    /\ UNCHANGED <<universe, polling, permits, job, depth, arrived, packets,
                   version, tick, book>>

\* _safe_fetch_orderbook
FetchBook(k, answer) ==
    /\ job[k] = "FETCHING" /\ depth[k] = Pending
    /\ depth' = [depth EXCEPT ![k] = answer]
    /\ UNCHANGED <<universe, polling, permits, job, ticker, arrived, packets,
                   version, tick, book>>

Answers(k) == {Failed, Invalid, version[k]}

\* Mistake: a job one of whose fetches failed never ends.
Complete_FailureLost(k) ==
    /\ job[k] = "FETCHING"
    /\ ticker[k] \notin {Pending, Failed} /\ depth[k] \notin {Pending, Failed}
    /\ permits' = permits + 1
    /\ job' = [job EXCEPT ![k] = "DONE"]
    /\ arrived' = Append(arrived, k)
    /\ UNCHANGED <<universe, polling, ticker, depth, packets, version, tick, book>>

\* gather returns, the semaphore is released and the job is done.
Complete(k) ==
    /\ job[k] = "FETCHING"
    /\ ticker[k] # Pending /\ depth[k] # Pending
    /\ permits' = permits + 1
    /\ job' = [job EXCEPT ![k] = "DONE"]
    /\ arrived' = Append(arrived, k)
    /\ UNCHANGED <<universe, polling, ticker, depth, packets, version, tick, book>>

\* The packets of a job: its ticker, then its order book, those it has.
Packets(kind, k, answer) ==
    IF answer = Failed THEN <<>> ELSE <<[kind |-> kind, key |-> k, data |-> answer]>>
PacketsOf(k) == Packets("TICKER", k, ticker[k]) \o Packets("BOOK", k, depth[k])

\* stream awaits the job that finished first.
AwaitJob ==
    /\ packets = <<>> /\ arrived # <<>>
    /\ packets' = PacketsOf(Head(arrived))
    /\ job' = [job EXCEPT ![Head(arrived)] = "NONE"]
    /\ arrived' = Tail(arrived)
    /\ UNCHANGED <<universe, polling, permits, ticker, depth, version, tick, book>>

\* All jobs are awaited: the source sleeps for the poll interval.
EndRound ==
    /\ polling /\ RoundOver
    /\ polling' = FALSE
    /\ UNCHANGED <<universe, round, version, tick, book>>

-----------------------------------------------------------------------------
(* MarketDataService and what the order book leads to                      *)

Yielded(kind) == packets # <<>> /\ Head(packets).kind = kind
Valid(packet) == packet.data \in Versions

\* Mistake: the store's key leaves out the exchange.
HandleTicker_KeyedBySymbol ==
    /\ Yielded("TICKER")
    /\ LET p == Head(packets)
           same == {k \in Keys : SymbolOf(k) = SymbolOf(p.key)}
       IN  tick' = [k \in Keys |-> IF Valid(p) /\ k \in same THEN p.data
                                                             ELSE tick[k]]
    /\ packets' = Tail(packets)
    /\ UNCHANGED <<universe, polling, permits, job, ticker, depth, arrived,
                   version, book>>

\* _handle_ticker stores a tick; one that cannot be normalised is dropped.
HandleTicker ==
    /\ Yielded("TICKER")
    /\ LET p == Head(packets)
       IN  tick' = IF Valid(p) THEN [tick EXCEPT ![p.key] = p.data] ELSE tick
    /\ packets' = Tail(packets)
    /\ UNCHANGED <<universe, polling, permits, job, ticker, depth, arrived,
                   version, book>>

\* Mistake: the stop loss is not among the reasons to exit.
OnBook_NoStopLoss(s) ==
    \/ s \in held \ Untraded /\ held' = held \ {s} /\ due' = due \ {s}
    \/ s \in held /\ UNCHANGED book
    \/ s \notin held /\ UNCHANGED book
    \/ s \notin held \cup Untraded /\ held' = held \cup {s} /\ UNCHANGED due

\* MeanReversionImbalanceStrategy.on_orderbook: a position may be exited and
\* must be at the stop loss (the kill switch is off here); a flat symbol may
\* be entered.  The book of an untraded symbol leads to neither.
OnBook(s) ==
    \/ s \in held \ Untraded /\ held' = held \ {s} /\ due' = due \ {s}
    \/ s \in held /\ s \notin due \ Untraded /\ UNCHANGED book
    \/ s \notin held /\ UNCHANGED book
    \/ s \notin held \cup Untraded /\ held' = held \cup {s} /\ UNCHANGED due

\* _handle_orderbook publishes the book; its delivery to the strategy is part
\* of the step, as the bus is emptied before the next fetch returns.
HandleBook ==
    /\ Yielded("BOOK")
    /\ LET p == Head(packets)
       IN  IF Valid(p) THEN OnBook(SymbolOf(p.key)) ELSE UNCHANGED book
    /\ packets' = Tail(packets)
    /\ UNCHANGED <<universe, polling, permits, job, ticker, depth, arrived,
                   version, tick>>

-----------------------------------------------------------------------------
(* The environment                                                         *)

QuoteMoves(k) ==
    /\ version[k] < MaxVersion
    /\ version' = [version EXCEPT ![k] = @ + 1]
    /\ UNCHANGED <<universe, polling, round, tick, book>>

\* The momentum trap buys what it scans, from a list of its own, in which the
\* untraded symbol may be.
TrapBuys(s) ==
    /\ s \in TrapSymbols \ held
    /\ held' = held \cup {s}
    /\ UNCHANGED <<universe, polling, round, version, tick, due>>

StopLossReached(s) ==
    /\ s \in held \ due
    /\ due' = due \cup {s}
    /\ UNCHANGED <<universe, polling, round, version, tick, held>>

PriceRecovers(s) ==
    /\ s \in due
    /\ due' = due \ {s}
    /\ UNCHANGED <<universe, polling, round, version, tick, held>>

FeedNext ==
    \/ StartRound \/ AwaitJob \/ EndRound \/ HandleTicker \/ HandleBook
    \/ \E k \in Keys : Acquire(k) \/ Complete(k)
    \/ \E k \in Keys : \E a \in Answers(k) : FetchTicker(k, a) \/ FetchBook(k, a)

Next ==
    \/ FeedNext
    \/ \E k \in Keys : QuoteMoves(k)
    \/ \E s \in Symbols : TrapBuys(s) \/ StopLossReached(s) \/ PriceRecovers(s)

\* A fetch returns, with an answer or an exception: ccxt has a timeout and
\* the wrapper's attempts are bounded.
FetchesReturn ==
    \A k \in Keys : /\ WF_vars(\E a \in Answers(k) : FetchTicker(k, a))
                    /\ WF_vars(\E a \in Answers(k) : FetchBook(k, a))
                    /\ WF_vars(Acquire(k)) /\ WF_vars(Complete(k))

\* An order book that is fetched again and again is some time answered with
\* one that is neither missing nor passed over for its spread or for too short a
\* history.  What the strategy does with it is OnBook's.
BooksAnswered ==
    \A k \in Keys : SF_vars(FetchBook(k, version[k]))

FairSpec ==
    /\ Init /\ [][Next]_vars
    /\ FetchesReturn /\ BooksAnswered
    /\ WF_vars(StartRound) /\ WF_vars(AwaitJob) /\ WF_vars(EndRound)
    /\ WF_vars(HandleTicker) /\ WF_vars(HandleBook)

-----------------------------------------------------------------------------

\* The types of the variables.
TypeOK ==
    /\ universe \in (SUBSET Symbols) \ {{}}
    /\ polling \in BOOLEAN
    /\ permits \in 0 .. MaxFetches
    /\ job \in [Keys -> {"NONE", "WAITING", "FETCHING", "DONE"}]
    /\ ticker \in [Keys -> NoAnswer \cup Versions]
    /\ depth \in [Keys -> NoAnswer \cup Versions]
    /\ arrived \in Seq(Keys) /\ Len(packets) <= 2
    /\ version \in [Keys -> Versions]
    /\ tick \in [Keys -> 0 .. MaxVersion]
    /\ held \subseteq Symbols /\ due \subseteq held

\* A stored tick is never replaced by an older one of the same exchange and
\* symbol, although the jobs of a round finish in any order
\* (feeds/exchange_polling_source.py:69, feeds/market_state_store.py:23-41).
TicksMoveForward == [][\A k \in Keys : tick'[k] >= tick[k]]_vars

\* A finished job's packets are yielded before the source sleeps, and every
\* round ends, whichever fetches fail (feeds/exchange_polling_source.py:69-82).
RoundsEnd == polling ~> ~polling

\* A position at its stop loss is exited, unless the price recovers, in every
\* symbol the strategy trades: it looks at exits whenever an order book of the
\* symbol comes in (strategies/mean_reversion_imbalance.py:349-395;
\* docs/FORTRESS_PRO_UPGRADE.md:18).  In an untraded symbol it looks at none
\* (:295-297), so a position the momentum trap opens there is never exited,
\* whatever configs/fortress_low_capital.env.template:42 promises of open long
\* positions; that template has all three, BTC/USDT among its symbols (:25),
\* AEGIS_TRADE_BTC_SYMBOL=false (:59) and the trap (:62).
DueExits == \A s \in Symbols \ Untraded : s \in due ~> s \notin due
=============================================================================
