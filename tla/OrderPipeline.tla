---------------------------- MODULE OrderPipeline ----------------------------
(***************************************************************************)
(* One order at a time through ExecutionPipeline.submit                    *)
(* (execution/execution_pipeline.py) and the FillProcessor it calls        *)
(* (execution/fill_processor.py), down to the four places a fill is        *)
(* remembered in: the exchange, the in-memory PositionLedger, the trades   *)
(* table of the SQLite database and the portfolio state file.              *)
(*                                                                         *)
(* submit() never suspends once it has a synchronous exchange, so nothing  *)
(* else of the process runs between two of its steps; what can happen      *)
(* between them is a crash, an exception of a call it makes, and a later   *)
(* execution of an order it left open at the exchange.  Each step that     *)
(* changes something outside the process is therefore an action of its     *)
(* own, named by pc:                                                       *)
(*                                                                         *)
(*   idle -> check -> create -> report -> book -> trade -> guard -> save   *)
(*        -> publish -> idle                                               *)
(*                                                                         *)
(* The exchange itself is external: CreateOrder offers every outcome the   *)
(* pipeline distinguishes.  MaxOrders and MaxFaults bound the run.         *)
(***************************************************************************)
EXTENDS Exposure

CONSTANTS
    Quantities,       \* quantities the strategies ask for
    LotSize,          \* the exchange's amount precision
    NoOrder,          \* no order has been submitted since the process started
    MaxOrders,        \* bound: orders submitted
    MaxFaults         \* bound: crashes and exceptions of a call

ASSUME PipelineAssumption ==
    /\ Quantities \subseteq Nat
    /\ LotSize \in Nat \ {0}
    /\ MaxOrders \in Nat
    /\ MaxFaults \in Nat

Sides == {"BUY", "SELL"}
Sign(side) == IF side = "BUY" THEN 1 ELSE -1

\* A limit order with a price passes through submit() like a market order;
\* one without a price is the case the validator looks for.
OrderKinds == {"PRICED_OR_MARKET", "LIMIT_NO_PRICE"}

OrderStatuses == {"CREATED", "VALIDATED", "ROUTED", "SUBMITTED",
                  "PARTIALLY_FILLED", "FILLED", "CANCELLED", "FAILED",
                  "REJECTED"}

\* ref is the local variable reference_price of submit().
Orders == [symbol : Symbols, side : Sides, qty : Nat, kind : OrderKinds,
           status : OrderStatuses, ref : Prices \cup {0}]

Requests == [symbol : Symbols, side : Sides, qty : Quantities,
             kind : OrderKinds, status : {"CREATED"}, ref : {0}]

Marks == [Symbols -> Prices \cup {NoMark}]
NoMarks == [s \in Symbols |-> NoMark]

\* ExecutionReport; price 0 when the response named no usable price
Reports == [status : OrderStatuses, filled : Nat, price : Prices \cup {0}]
NoReport == [status |-> "SUBMITTED", filled |-> 0, price |-> 0]

\* How a fill came to be missing from a place that should have it.
Causes == {"lost_response", "late_fill", "report_row", "no_price",
           "trade_row", "state_file", "crash"}

VARIABLES
    pc,          \* the step of submit() that runs next
    order,       \* the order being submitted, or the last one
    marks,       \* the mark prices its ORDER_REQUEST carried
    report,      \* the normalized execution report
    breaches,    \* the breaches the portfolio guard found after the fill
    ledger,      \* PositionLedger._positions
    trades,      \* trades table: quantity recorded per symbol and side
    saved,       \* the portfolio state file: the ledger it was saved from
    bus,         \* events published and not handled yet
    executed,    \* exchange: quantity executed per symbol and side
    resting,     \* exchange: quantity still open per symbol and side
    submitted,   \* orders submitted so far
    faults,      \* crashes and exceptions so far
    missed       \* history: the causes for which a fill was not remembered

memory == <<order, marks, report, breaches, ledger, bus>>
disk == <<trades, saved>>
exchange == <<executed, resting>>
counters == <<submitted, faults, missed>>
vars == <<pc, memory, disk, exchange, counters>>

PerSide == [Symbols -> [Sides -> Nat]]
Books == [Symbols -> [qty : Int, avg : Prices \cup {0}]]

\* The position the exchange holds for symbol s.
ExchangePosition(s) == executed[s]["BUY"] - executed[s]["SELL"]

Add(table, s, side, n) == [table EXCEPT ![s][side] = @ + n]

Init ==
    /\ pc = "idle"
    /\ order = NoOrder
    /\ marks = NoMarks
    /\ report = NoReport
    /\ breaches = <<>>
    /\ ledger = [s \in Symbols |-> Flat]
    /\ trades = [s \in Symbols |-> [d \in Sides |-> 0]]
    /\ saved = [s \in Symbols |-> Flat]
    /\ bus = <<>>
    /\ executed = [s \in Symbols |-> [d \in Sides |-> 0]]
    /\ resting = [s \in Symbols |-> [d \in Sides |-> 0]]
    /\ submitted = 0
    /\ faults = 0
    /\ missed = {}

-----------------------------------------------------------------------------
(* Outcomes shared by the steps                                            *)

\* submit() returns; its local variables are gone.
Return ==
    /\ pc' = "idle"
    /\ marks' = NoMarks
    /\ report' = NoReport
    /\ breaches' = <<>>

\* The except clause of submit(): whatever the status was, it becomes FAILED.
Fail ==
    /\ order' = [order EXCEPT !.status = "FAILED"]
    /\ Return

\* A call of this step raises, for a cause that leaves a fill unrecorded
\* whenever filled is positive.
Fault(cause, filled) ==
    /\ faults < MaxFaults
    /\ faults' = faults + 1
    /\ missed' = IF filled > 0 THEN missed \cup {cause} ELSE missed

-----------------------------------------------------------------------------
(* submit(), step by step                                                  *)

\* submit() is called: ExecutionValidator.validate, the move to VALIDATED.
Accept(o, m) ==
    /\ pc = "idle"
    /\ submitted < MaxOrders
    /\ submitted' = submitted + 1
    /\ IF o.qty > 0 /\ o.kind # "LIMIT_NO_PRICE"
       THEN /\ order' = [o EXCEPT !.status = "VALIDATED"]
            /\ marks' = m
            /\ pc' = "check"
       ELSE /\ order' = [o EXCEPT !.status = "FAILED"]
            /\ UNCHANGED <<pc, marks>>
    /\ UNCHANGED <<report, breaches, ledger, disk, exchange, faults, missed>>

\* Some service asks for an order, with the mark prices it knew.
Submit(o, m) == Accept(o, m) /\ UNCHANGED bus

\* SmartOrderRouter.find_best_exchange finds no price: RuntimeError.
RouteFails ==
    /\ pc = "check"
    /\ Fail
    /\ UNCHANGED <<ledger, bus, disk, exchange, counters>>

\* amount_to_precision truncates to the lot size; when the exchange raises,
\* as it does when nothing would be left, the wrapper returns the amount as
\* it came.
Precise(q) == {q, q - (q % LotSize)} \ {0}

\* A price is found, the quantity is brought to precision and the order is
\* held against the limits with the positions of this moment and the mark
\* prices of the request.
RouteAndCheck ==
    /\ pc = "check"
    /\ \E ref \in Prices, q \in Precise(order.qty) :
         LET allowed == RiskAllows(ledger, marks, order.symbol,
                                   Sign(order.side), q, ref)
         IN  /\ order' = [order EXCEPT !.qty = q, !.ref = ref, !.status =
                              IF allowed THEN "ROUTED" ELSE "REJECTED"]
             /\ IF allowed THEN pc' = "create" /\ UNCHANGED <<marks, report, breaches>>
                           ELSE Return
    /\ UNCHANGED <<ledger, bus, disk, exchange, counters>>

\* Mistake: one l of the exchange's "canceled" is not turned into two.
StatusMap_Untranslated ==
    [open |-> "SUBMITTED", partially_filled |-> "PARTIALLY_FILLED",
     closed |-> "FILLED", canceled |-> "CANCELED",
     rejected |-> "REJECTED", failed |-> "FAILED"]

\* ExchangeResponseNormalizer.STATUS_MAP, one raw status of each class; an
\* unknown or missing status is treated as "open".
StatusMap == [open |-> "SUBMITTED", partially_filled |-> "PARTIALLY_FILLED",
              closed |-> "FILLED", canceled |-> "CANCELLED",
              rejected |-> "REJECTED", failed |-> "FAILED"]

\* ExchangeResponseNormalizer.normalize
ReportStatus(raw, filled, qty) ==
    IF filled >= qty /\ qty > 0 THEN "FILLED"
    ELSE IF filled > 0 /\ StatusMap[raw] = "SUBMITTED" THEN "PARTIALLY_FILLED"
    ELSE StatusMap[raw]

\* What the exchange does with the order: it executes part of it at once,
\* and keeps the rest open when it says so.
Execute(filled, open) ==
    /\ executed' = Add(executed, order.symbol, order.side, filled)
    /\ resting' = Add(resting, order.symbol, order.side, open)

\* create_order returns: the order is SUBMITTED and the response normalized.
CreateOrder ==
    /\ pc = "create"
    /\ \E raw \in DOMAIN StatusMap, filled \in 0 .. order.qty,
          price \in Prices \cup {0} :
         /\ filled > 0 => raw \notin {"rejected", "failed"}
         /\ filled = 0 => price = 0
         /\ Execute(filled, IF raw \in {"open", "partially_filled"}
                            THEN order.qty - filled ELSE 0)
         /\ report' = [status |-> ReportStatus(raw, filled, order.qty),
                       filled |-> filled, price |-> price]
    /\ order' = [order EXCEPT !.status = "SUBMITTED"]
    /\ pc' = "report"
    /\ UNCHANGED <<marks, breaches, ledger, bus, disk, counters>>

\* create_order raises: the exchange refused the order, or executed it and
\* the response was lost.
CreateOrderRaises ==
    /\ pc = "create"
    /\ \E filled \in 0 .. order.qty :
         /\ \E open \in {0, order.qty - filled} : Execute(filled, open)
         /\ Fault("lost_response", filled)
    /\ Fail
    /\ UNCHANGED <<ledger, bus, disk, submitted>>

\* database.record_execution_report, then _apply_report_status: the order
\* takes the status of the report, through the state machine or around it.
RecordReport ==
    /\ pc = "report"
    /\ order' = [order EXCEPT !.status = report.status]
    /\ pc' = "book"
    /\ UNCHANGED <<marks, report, breaches, ledger, bus, disk, exchange,
                   counters>>

RecordReportRaises ==
    /\ pc = "report"
    /\ Fault("report_row", report.filled)
    /\ Fail
    /\ UNCHANGED <<ledger, bus, disk, exchange, submitted>>

\* The average entry after adding to a position: the weighted mean lies
\* between the old average and the fill price.
Between(p, q) == {x \in Prices : (p <= x /\ x <= q) \/ (q <= x /\ x <= p)}

\* PositionLedger._apply_signed_fill: open, add, close, reverse or reduce.
AfterFill(pos, delta, price) ==
    LET qty == pos.qty + delta
        sameDirection == (pos.qty > 0 /\ delta > 0) \/ (pos.qty < 0 /\ delta < 0)
        reversed == (pos.qty > 0 /\ qty < 0) \/ (pos.qty < 0 /\ qty > 0)
        averages == IF pos.qty = 0 \/ reversed THEN {price}
                    ELSE IF sameDirection THEN Between(pos.avg, price)
                    ELSE IF qty = 0 THEN {0} ELSE {pos.avg}
    IN  {[qty |-> qty, avg |-> a] : a \in averages}

\* The fill of the report in hand, signed.
Delta == Sign(order.side) * report.filled

\* FillProcessor.process up to ledger.apply_fill.
BookFill ==
    /\ pc = "book"
    /\ report.filled > 0
    /\ report.price > 0
    /\ \E pos \in AfterFill(ledger[order.symbol], Delta, report.price) :
         ledger' = [ledger EXCEPT ![order.symbol] = pos]
    /\ pc' = "trade"
    /\ UNCHANGED <<order, marks, report, breaches, bus, disk, exchange,
                   counters>>

\* The report has no fill: nothing is processed.
NoFill ==
    /\ pc = "book"
    /\ report.filled = 0
    /\ pc' = "publish"
    /\ UNCHANGED <<memory, disk, exchange, counters>>

\* A fill without a positive price: ValueError before the ledger is touched.
FillWithoutPrice ==
    /\ pc = "book"
    /\ report.filled > 0
    /\ report.price = 0
    /\ missed' = missed \cup {"no_price"}
    /\ Fail
    /\ UNCHANGED <<ledger, bus, disk, exchange, submitted, faults>>

\* Mistake: the row holds the quantity ordered, not the quantity filled.
RecordTrade_OrderQuantity ==
    /\ pc = "trade"
    /\ trades' = Add(trades, order.symbol, order.side, order.qty)
    /\ pc' = "guard"
    /\ UNCHANGED <<memory, saved, exchange, counters>>

\* database.record_trade
RecordTrade ==
    /\ pc = "trade"
    /\ trades' = Add(trades, order.symbol, order.side, report.filled)
    /\ pc' = "guard"
    /\ UNCHANGED <<memory, saved, exchange, counters>>

RecordTradeRaises ==
    /\ pc = "trade"
    /\ Fault("trade_row", report.filled)
    /\ Fail
    /\ UNCHANGED <<ledger, bus, disk, exchange, submitted>>

\* mark_positions, the exposure of the new book and PortfolioGuard.validate.
ValidateBook ==
    /\ pc = "guard"
    /\ breaches' = Breaches(ledger, marks)
    /\ pc' = "save"
    /\ UNCHANGED <<order, marks, report, ledger, bus, disk, exchange, counters>>

\* state_store.save; process returns the breaches with its result.
SaveState ==
    /\ pc = "save"
    /\ saved' = ledger
    /\ pc' = "publish"
    /\ UNCHANGED <<memory, trades, exchange, counters>>

\* No result is returned: the breaches just found are lost with the report.
SaveStateRaises ==
    /\ pc = "save"
    /\ Fault("state_file", report.filled)
    /\ Fail
    /\ UNCHANGED <<ledger, bus, disk, exchange, submitted>>

\* _publish_execution_event: the breaches travel with the report.
PublishReport ==
    /\ pc = "publish"
    /\ bus' = Append(bus, [type |-> "EXECUTION_REPORT", breaches |-> breaches])
    /\ Return
    /\ UNCHANGED <<order, ledger, disk, exchange, counters>>

SubmitStep ==
    \/ RouteFails \/ RouteAndCheck
    \/ CreateOrder \/ CreateOrderRaises
    \/ RecordReport \/ RecordReportRaises
    \/ BookFill \/ NoFill \/ FillWithoutPrice
    \/ RecordTrade \/ RecordTradeRaises
    \/ ValidateBook \/ SaveState \/ SaveStateRaises
    \/ PublishReport

-----------------------------------------------------------------------------
(* Around submit()                                                         *)

\* The event bus hands the oldest event to its subscribers.
DeliverReport ==
    /\ pc = "idle"
    /\ bus # <<>>
    /\ bus' = Tail(bus)
    /\ UNCHANGED <<pc, order, marks, report, breaches, ledger, disk, exchange,
                   counters>>

\* The exchange executes an order it had left open.  No code asks for it.
LateFill(s, side) ==
    /\ \E n \in 1 .. resting[s][side] :
         /\ executed' = Add(executed, s, side, n)
         /\ resting' = [resting EXCEPT ![s][side] = @ - n]
    /\ missed' = missed \cup {"late_fill"}
    /\ UNCHANGED <<pc, memory, disk, submitted, faults>>

\* Between the exchange executing an order and the state file holding it.
Unsaved == pc \in {"report", "book", "trade", "guard", "save"}

\* Mistake: the ledger is not restored, as in the build before
\* restore_snapshot was added.
Restart_LedgerNotRestored ==
    /\ Return
    /\ order' = NoOrder
    /\ ledger' = [s \in Symbols |-> Flat]
    /\ bus' = <<>>
    /\ UNCHANGED <<disk, exchange, submitted>>

\* RuntimeContainer.build in a new process: an empty bus and the ledger of
\* the state file (PositionLedger.restore_snapshot).
Restart ==
    /\ Return
    /\ order' = NoOrder
    /\ ledger' = saved
    /\ bus' = <<>>
    /\ UNCHANGED <<disk, exchange, submitted>>

\* The process dies anywhere and is started again.
CrashAndRestart ==
    /\ Fault("crash", IF Unsaved THEN report.filled ELSE 0)
    /\ Restart

\* Orchestrator.stop between two orders: the event bus task is cancelled with
\* whatever is still queued.
StopAndRestart ==
    /\ pc = "idle"
    /\ Restart
    /\ UNCHANGED <<faults, missed>>

Environment ==
    \/ DeliverReport
    \/ \E s \in Symbols, side \in Sides : LateFill(s, side)
    \/ CrashAndRestart
    \/ StopAndRestart

Next ==
    \/ \E o \in Requests, m \in Marks : Submit(o, m)
    \/ SubmitStep
    \/ Environment

Spec == Init /\ [][Next]_vars

-----------------------------------------------------------------------------
(* Properties                                                              *)

\* Every variable keeps its type; an order exists at every step of submit().
TypeOK ==
    /\ pc \in {"idle", "check", "create", "report", "book", "trade", "guard",
               "save", "publish"}
    /\ order \in Orders \cup {NoOrder}
    /\ pc # "idle" => order \in Orders
    /\ marks \in Marks
    /\ report \in Reports
    /\ breaches \in Seq(BreachCodes)
    /\ ledger \in Books
    /\ trades \in PerSide
    /\ saved \in Books
    /\ bus \in Seq([type : {"EXECUTION_REPORT"}, breaches : Seq(BreachCodes)])
    /\ executed \in PerSide
    /\ resting \in PerSide
    /\ submitted \in Nat
    /\ faults \in Nat
    /\ missed \in SUBSET Causes

\* The ledger, the trades table, the state file and the exchange agree on
\* every position whenever no order is in progress, unless a fill was missed
\* for one of the named causes: crashes at any other step, refused orders,
\* failed routing, partial fills and reversals never separate them.
BooksAgree ==
    pc = "idle" /\ missed = {} =>
        \A s \in Symbols :
            /\ ledger[s].qty = ExchangePosition(s)
            /\ trades[s]["BUY"] = executed[s]["BUY"]
            /\ trades[s]["SELL"] = executed[s]["SELL"]
            /\ saved[s] = ledger[s]

\* Whatever fails and however often the process restarts, the trades table
\* never holds more than the exchange executed: no fill is recorded twice.
NoPhantomTrade ==
    \A s \in Symbols, d \in Sides : trades[s][d] <= executed[s][d]

\* The check made for the whole order also covers every partial fill of it:
\* a step that books a fill, marked at the price the check assumed, takes
\* neither gross nor net exposure above both its limit and where it was.
CheckCoversFill ==
    [][ pc = "book" /\ pc' = "trade" /\ marks[order.symbol] = order.ref =>
          LET before == Notionals(ledger, marks)
              after == Notionals(ledger', marks)
          IN  /\ GrossExposure(after) <= Larger(MaxGross, GrossExposure(before))
              /\ Abs(NetExposure(after))
                   <= Larger(MaxNet, Abs(NetExposure(before))) ]_vars

\* An order that only reduces a position is not refused by the risk check, so
\* that an exit signal always reaches the exchange (the low-capital template
\* says the strategy "exits open long positions automatically").
ReducingOrdersPass ==
    [][ pc = "check" /\ order' # NoOrder /\ order'.status = "REJECTED"
        => LET held == ledger[order.symbol].qty
           IN  ~(held > 0 /\ order.side = "SELL" /\ order.qty <= held) ]_vars
=============================================================================
