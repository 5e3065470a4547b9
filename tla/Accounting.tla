----------------------------- MODULE Accounting -----------------------------
(***************************************************************************)
(* The money in PositionLedger: average entries, realized and unrealized   *)
(* profit, fees, and the snapshot that a restart restores.                 *)
(*                                                                         *)
(* Quantities are lots and prices whole numbers of some small unit; \div is *)
(* the code's division, and what it leaves over is counted in rounded.     *)
(* A backtest records equity points, the live runtime stops and restarts;  *)
(* the ledger is the same, and here both may happen.                       *)
(***************************************************************************)
EXTENDS Integers, FiniteSets, Functions

CONSTANTS
    Symbols, Prices, Quantities, Fees,
    MaxFills    \* bound: fills

ASSUME AccountingAssumption ==
    /\ IsFiniteSet(Symbols)
    /\ Prices \subseteq Nat \ {0} /\ Quantities \subseteq Nat \ {0}
    /\ Fees \subseteq Nat
    /\ MaxFills \in Nat

VARIABLES
    ledger,     \* PositionLedger._positions; a missing symbol is Flat
    realized,   \* PositionLedger._realized_pnl_total
    mark,       \* MarketStateStore.mark_prices, 0 for a symbol without a tick
    captured,   \* the mark prices sent with the order on its way
    saved,      \* the portfolio in the state file
    cash,       \* history: what the fills have paid and cost, fees included
    rounded,    \* history: what the division in the averages has left over
    entries,    \* history: prices paid for what is in the position now
    fills       \* number of fills

books == <<ledger, realized>>
history == <<cash, rounded, entries, fills>>
vars == <<books, mark, captured, saved, history>>

Sides == {"BUY", "SELL"}
Abs(n) == IF n < 0 THEN -n ELSE n
Flat == [qty |-> 0, avg |-> 0, unrealized |-> 0]
NoMarks == [s \in Symbols |-> 0]

Init ==
    /\ ledger = [s \in Symbols |-> Flat]
    /\ realized = 0
    /\ mark = NoMarks /\ captured = NoMarks
    /\ saved = [positions |-> ledger, realized |-> 0]
    /\ cash = 0 /\ rounded = 0 /\ entries = [s \in Symbols |-> {}] /\ fills = 0

-----------------------------------------------------------------------------
(* PositionLedger._apply_signed_fill                                       *)

SameDirection(pos, delta) == (pos.qty > 0 /\ delta > 0) \/ (pos.qty < 0 /\ delta < 0)
Reverses(pos, delta) ==
    \/ pos.qty > 0 /\ pos.qty + delta < 0
    \/ pos.qty < 0 /\ pos.qty + delta > 0

\* The mean of the old entry and the fill's price, by quantity.
Cost(pos, delta, price) == Abs(pos.qty) * pos.avg + Abs(delta) * price
Size(pos, delta) == Abs(pos.qty) + Abs(delta)
WeightedMean(pos, delta, price) == Cost(pos, delta, price) \div Size(pos, delta)

\* What the mean leaves over of the cost, less than one unit for each lot.
Rest(pos, delta, price) ==
    LET rest == Cost(pos, delta, price) % Size(pos, delta)
    IN  IF ~SameDirection(pos, delta) THEN 0 ELSE IF delta > 0 THEN rest ELSE -rest

\* Mistake: a reversed position keeps the entry of the closed one.
Entry_ReversalKept(pos, delta, price) ==
    IF pos.qty = 0 THEN price
    ELSE IF SameDirection(pos, delta) THEN WeightedMean(pos, delta, price)
    ELSE IF pos.qty + delta = 0 THEN 0 ELSE pos.avg

\* Mistake: a closed position keeps its entry.
Entry_ClosedKept(pos, delta, price) ==
    IF pos.qty = 0 \/ Reverses(pos, delta) THEN price
    ELSE IF SameDirection(pos, delta) THEN WeightedMean(pos, delta, price)
    ELSE pos.avg

Entry(pos, delta, price) ==
    IF pos.qty = 0 \/ Reverses(pos, delta) THEN price
    ELSE IF SameDirection(pos, delta) THEN WeightedMean(pos, delta, price)
    ELSE IF pos.qty + delta = 0 THEN 0 ELSE pos.avg

\* What the fill realizes: on the quantity it closes, less the fee.
Closed(pos, delta) ==
    IF pos.qty = 0 \/ SameDirection(pos, delta) THEN 0
    ELSE IF Abs(delta) < Abs(pos.qty) THEN Abs(delta) ELSE Abs(pos.qty)

\* Mistake: a covered short gains when the price has risen.
Realizes_ShortAsLong(pos, delta, price) == (price - pos.avg) * Closed(pos, delta)

Realizes(pos, delta, price) ==
    Closed(pos, delta) *
      (IF pos.qty > 0 THEN price - pos.avg ELSE pos.avg - price)

\* Mistake: the quantity of a short is taken without its sign.
Unrealized_ShortAsLong(pos, price) == (price - pos.avg) * Abs(pos.qty)

\* Position.mark_to_market
Unrealized(pos, price) ==
    IF pos.qty > 0 THEN (price - pos.avg) * pos.qty
                   ELSE (pos.avg - price) * Abs(pos.qty)

\* mark_positions: a position without a mark price stays as it is.
Marked(positions, prices) ==
    [s \in Symbols |->
       IF positions[s].qty # 0 /\ prices[s] > 0
       THEN [positions[s] EXCEPT !.unrealized = Unrealized(positions[s], prices[s])]
       ELSE positions[s]]

\* The position after the fill; apply_fill forgets one that is flat, and the
\* unrealized profit is not touched until the position is marked.
Filled(pos, delta, price) ==
    IF pos.qty + delta = 0 THEN [Flat EXCEPT !.avg = Entry(pos, delta, price)]
    ELSE [qty |-> pos.qty + delta, avg |-> Entry(pos, delta, price),
          unrealized |-> pos.unrealized]

\* The prices that the open part of the position was entered at.
Entries(pos, old, delta, price) ==
    IF pos.qty + delta = 0 THEN {}
    ELSE IF pos.qty = 0 \/ Reverses(pos, delta) THEN {price}
    ELSE IF SameDirection(pos, delta) THEN old \cup {price} ELSE old

-----------------------------------------------------------------------------

\* A tick of the symbol is stored.
Tick(s, price) ==
    /\ mark' = [mark EXCEPT ![s] = price]
    /\ UNCHANGED <<books, captured, saved, history>>

\* A strategy publishes an order: the mark prices go with it.
Request ==
    /\ captured' = mark
    /\ UNCHANGED <<books, mark, saved, history>>

\* FillProcessor.process: apply_fill, mark_positions, save.
Fill(s, side, qty, price, fee) ==
    LET delta == IF side = "BUY" THEN qty ELSE -qty
        pos == ledger[s]
        positions == Marked([ledger EXCEPT ![s] = Filled(pos, delta, price)], captured)
        total == realized + Realizes(pos, delta, price) - fee
    IN  /\ fills < MaxFills
        /\ ledger' = positions
        /\ realized' = total
        /\ saved' = [positions |-> positions, realized |-> total]
        /\ cash' = cash - delta * price - fee
        /\ rounded' = rounded + Rest(pos, delta, price)
        /\ entries' = [entries EXCEPT ![s] = Entries(pos, @, delta, price)]
        /\ fills' = fills + 1
        /\ UNCHANGED <<mark, captured>>

\* BacktestRuntime._record_equity_point marks the positions; the point is
\* the initial equity and Profit.
RecordEquityPoint ==
    /\ ledger' = Marked(ledger, mark)
    /\ UNCHANGED <<realized, mark, captured, saved, history>>

\* Mistake: the profit so far is not restored.
StopAndRestart_ProfitLost ==
    /\ ledger' = saved.positions
    /\ realized' = 0
    /\ mark' = NoMarks /\ captured' = NoMarks
    /\ UNCHANGED <<saved, history>>

\* RuntimeContainer.build with restore_snapshot.
StopAndRestart ==
    /\ ledger' = saved.positions
    /\ realized' = saved.realized
    /\ mark' = NoMarks /\ captured' = NoMarks
    /\ UNCHANGED <<saved, history>>

Next ==
    \/ \E s \in Symbols, p \in Prices : Tick(s, p)
    \/ Request
    \/ \E s \in Symbols, side \in Sides, q \in Quantities, p \in Prices, f \in Fees :
         Fill(s, side, q, p, f)
    \/ RecordEquityPoint \/ StopAndRestart

Spec == Init /\ [][Next]_vars

-----------------------------------------------------------------------------

\* realized and unrealized profit
Profit == realized + SumFunction([s \in Symbols |-> ledger[s].unrealized])

\* Every open position has a mark price.
AllPriced == \A s \in Symbols : ledger[s].qty # 0 => mark[s] > 0

\* What closing everything at the mark prices would bring.
Worth == SumFunction([s \in Symbols |-> ledger[s].qty * mark[s]])

Positions == [qty : Int, avg : Nat, unrealized : Int]

\* The types of the variables; a flat position has no entry and no profit.
TypeOK ==
    /\ ledger \in [Symbols -> Positions]
    /\ \A s \in Symbols : ledger[s].qty = 0 => ledger[s] = Flat
    /\ saved \in [positions : [Symbols -> Positions], realized : Int]
    /\ mark \in [Symbols -> Prices \cup {0}]
    /\ captured \in [Symbols -> Prices \cup {0}]
    /\ entries \in [Symbols -> SUBSET Prices]
    /\ realized \in Int /\ cash \in Int /\ rounded \in Int
    /\ fills \in 0 .. MaxFills

\* No money appears or disappears in the books: what is realized is the cash
\* the fills moved and the cost of what is still held, to the unit that an
\* average was rounded by, over every sequence of opening, adding, reducing,
\* closing and reversing, and over restarts
\* (portfolio/position_ledger.py:85-150, 208-266).
ProfitIsCash ==
    realized = cash + rounded
                 + SumFunction([s \in Symbols |-> ledger[s].qty * ledger[s].avg])

\* The average entry of a position lies between the prices its open part was
\* entered at (portfolio/position_ledger.py:104-147).
EntryWithinPrices ==
    \A s \in Symbols : ledger[s].qty # 0 =>
        \E low, high \in entries[s] : low <= ledger[s].avg /\ ledger[s].avg <= high

\* An equity point is worth what closing everything at the mark prices would
\* bring, as long as every position has one, and what was rounded
\* (backtesting/backtest_runtime.py:260-292, models/position.py:31-41).
PointIsWorth ==
    [][RecordEquityPoint /\ AllPriced => Profit' = cash + rounded + Worth]_vars
=============================================================================
