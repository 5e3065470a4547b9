------------------------ MODULE OrderPipeline_proofs ------------------------
(***************************************************************************)
(* What TLC checks of OrderPipeline on small instances, proved for every   *)
(* value of the constants: the types, that no trade is recorded that the   *)
(* exchange did not execute, that the four books agree, and that the risk  *)
(* check of an order covers each of its fills.                             *)
(***************************************************************************)
EXTENDS OrderPipeline, FiniteSetTheorems, WellFoundedInduction, TLAPS

\* Adding to one entry of a table of quantities leaves a table of quantities.
LEMMA AddType ==
    ASSUME NEW table \in PerSide, NEW s \in Symbols, NEW side \in Sides,
           NEW n \in Nat
    PROVE  /\ Add(table, s, side, n) \in PerSide
           /\ \A t \in Symbols, d \in Sides :
                 Add(table, s, side, n)[t][d]
                   = IF t = s /\ d = side THEN table[t][d] + n ELSE table[t][d]
  BY DEF Add, PerSide

\* No entry gets smaller.
LEMMA AddGrows ==
    ASSUME NEW table \in PerSide, NEW s \in Symbols, NEW side \in Sides,
           NEW n \in Nat
    PROVE  \A t \in Symbols, d \in Sides :
              table[t][d] <= Add(table, s, side, n)[t][d]
  <1> SUFFICES ASSUME NEW t \in Symbols, NEW d \in Sides
               PROVE  table[t][d] <= Add(table, s, side, n)[t][d]
    OBVIOUS
  <1>1. table[t][d] \in Nat
    BY DEF PerSide
  <1>2. Add(table, s, side, n)[t][d]
          = IF t = s /\ d = side THEN table[t][d] + n ELSE table[t][d]
    BY AddType
  <1> QED
    BY <1>1, <1>2

\* A fill leaves a position behind whose quantity has moved by the fill.
LEMMA AfterFillMoves ==
    ASSUME NEW pos \in [qty : Int, avg : Prices \cup {0}], NEW delta \in Int,
           NEW price \in Prices, NEW after \in AfterFill(pos, delta, price)
    PROVE  /\ after \in [qty : Int, avg : Prices \cup {0}]
           /\ after.qty = pos.qty + delta
  BY DEF AfterFill, Between

\* The guard's breaches are codes of its.
LEMMA BreachesType ==
    ASSUME NEW b, NEW m PROVE Breaches(b, m) \in Seq(BreachCodes)
  <1> DEFINE n == Notionals(b, m)
             gross == GrossExposure(n)
             overweight == {s \in Symbols : Overweight(Abs(n[s]), gross)}
             limits == IfFound(gross > MaxGross, "GROSS_EXPOSURE_LIMIT")
             nets == IfFound(Abs(NetExposure(n)) > MaxNet, "NET_EXPOSURE_LIMIT")
             weights == [i \in 1 .. Cardinality(overweight) |-> "SYMBOL_WEIGHT_LIMIT"]
  <1>1. limits \in Seq(BreachCodes) /\ nets \in Seq(BreachCodes)
    <2>1. \A yes, code : code \in BreachCodes => IfFound(yes, code) \in Seq(BreachCodes)
      BY DEF IfFound
    <2> QED
      BY <2>1 DEF BreachCodes, CriticalCodes
  <1>2. weights \in Seq(BreachCodes)
    <2>1. Cardinality(overweight) \in Nat
      BY ExposureAssumption, FS_Subset, FS_CardinalityType
    <2> HIDE DEF overweight
    <2> QED
      BY <2>1 DEF BreachCodes
  <1>3. Breaches(b, m) = (limits \o nets) \o weights
    BY DEF Breaches
  <1> HIDE DEF limits, nets, weights
  <1> QED
    BY <1>1, <1>2, <1>3

LEMMA TypeInit == ASSUME Init PROVE TypeOK
  <1> USE DEF Init
  <1>1. order \in Orders \cup {NoOrder} /\ marks \in Marks
    BY DEF Marks, NoMarks
  <1>2. report \in Reports
    BY DEF Reports, NoReport, OrderStatuses
  <1>3. ledger \in Books /\ saved \in Books
    BY DEF Books, Flat
  <1>4. trades \in PerSide /\ executed \in PerSide /\ resting \in PerSide
    BY DEF PerSide
  <1>5. bus \in Seq([type : {"EXECUTION_REPORT"}, breaches : Seq(BreachCodes)])
    OBVIOUS
  <1> QED
    BY <1>1, <1>2, <1>3, <1>4, <1>5 DEF TypeOK

\* When submit() returns, its locals are back at values of their types.
LEMMA ReturnType ==
    ASSUME Return
    PROVE  /\ pc' = "idle" /\ marks' \in Marks /\ report' \in Reports
           /\ breaches' \in Seq(BreachCodes)
  BY DEF Return, Marks, NoMarks, Reports, NoReport, OrderStatuses

LEMMA FailType ==
    ASSUME Fail, order \in Orders
    PROVE  /\ order' \in Orders
           /\ order'.symbol = order.symbol /\ order'.side = order.side
  BY DEF Fail, Orders, OrderStatuses

\* The report CreateOrder makes of a response is a report.
LEMMA ReportStatusType ==
    ASSUME NEW raw \in DOMAIN StatusMap, NEW filled \in Nat, NEW qty \in Nat
    PROVE  ReportStatus(raw, filled, qty) \in OrderStatuses
  BY DEF ReportStatus, StatusMap, OrderStatuses

LEMMA TypeStep == ASSUME TypeOK, [Next]_vars PROVE TypeOK'
  <1> USE DEF TypeOK
  <1>1. ASSUME NEW o \in Requests, NEW m \in Marks, Submit(o, m)
        PROVE  TypeOK'
    <2>1. order' \in Orders
      BY <1>1, PipelineAssumption
      DEF Submit, Accept, Requests, Orders, OrderStatuses
    <2>2. pc' \in {"idle", "check"} /\ marks' \in Marks
      BY <1>1 DEF Submit, Accept
    <2> QED
      BY <1>1, <2>1, <2>2 DEF Submit, Accept, disk, exchange
  <1>2. CASE RouteFails
    BY <1>2, ReturnType, FailType
    DEF RouteFails, Fail, disk, exchange, counters
  <1>3. CASE RouteAndCheck
    <2>1. PICK ref \in Prices, q \in Precise(order.qty) :
            LET allowed == RiskAllows(ledger, marks, order.symbol,
                                      Sign(order.side), q, ref)
            IN  /\ order' = [order EXCEPT !.qty = q, !.ref = ref,
                             !.status = IF allowed THEN "ROUTED" ELSE "REJECTED"]
                /\ IF allowed THEN pc' = "create" /\ UNCHANGED <<marks, report, breaches>>
                              ELSE Return
      BY <1>3 DEF RouteAndCheck
    <2> DEFINE allowed == RiskAllows(ledger, marks, order.symbol,
                                     Sign(order.side), q, ref)
    <2> HIDE DEF allowed
    <2>a. order' = [order EXCEPT !.qty = q, !.ref = ref,
                    !.status = IF allowed THEN "ROUTED" ELSE "REJECTED"]
      BY <2>1 DEF allowed
    <2>b. IF allowed THEN pc' = "create" /\ UNCHANGED <<marks, report, breaches>>
                     ELSE Return
      BY <2>1 DEF allowed
    <2>2. order \in Orders /\ UNCHANGED <<ledger, bus, disk, exchange, counters>>
      BY <1>3 DEF RouteAndCheck
    <2>3. q \in Nat
      BY <2>2, PipelineAssumption DEF Precise, Orders
    <2>4. order' \in Orders
      BY <2>a, <2>2, <2>3 DEF Orders, OrderStatuses
    <2>5. /\ pc' \in {"create", "idle"} /\ marks' \in Marks /\ report' \in Reports
          /\ breaches' \in Seq(BreachCodes)
      BY <2>b, ReturnType
    <2> QED
      BY <2>2, <2>4, <2>5 DEF disk, exchange, counters
  <1>4. CASE CreateOrder
    <2> USE <1>4 DEF CreateOrder
    <2>1. PICK raw \in DOMAIN StatusMap, filled \in 0 .. order.qty,
               price \in Prices \cup {0} :
            /\ Execute(filled, IF raw \in {"open", "partially_filled"}
                               THEN order.qty - filled ELSE 0)
            /\ report' = [status |-> ReportStatus(raw, filled, order.qty),
                          filled |-> filled, price |-> price]
      OBVIOUS
    <2>2. order \in Orders /\ filled \in Nat /\ order.qty - filled \in Nat
      BY <2>1 DEF Orders
    <2>3. report' \in Reports
      BY <2>1, <2>2, ReportStatusType DEF Reports, Orders
    <2>4. executed' \in PerSide /\ resting' \in PerSide
      BY <2>1, <2>2, AddType DEF Execute, Orders
    <2>5. order' \in Orders
      BY <2>2 DEF Orders, OrderStatuses
    <2> QED
      BY <2>3, <2>4, <2>5 DEF disk, counters
  <1>5. CASE CreateOrderRaises
    <2> USE <1>5 DEF CreateOrderRaises
    <2>1. PICK filled \in 0 .. order.qty :
            /\ \E open \in {0, order.qty - filled} : Execute(filled, open)
            /\ Fault("lost_response", filled)
      OBVIOUS
    <2>2. PICK open \in {0, order.qty - filled} : Execute(filled, open)
      BY <2>1
    <2>3. order \in Orders /\ filled \in Nat /\ open \in Nat
      BY <2>1, <2>2 DEF Orders
    <2>4. executed' \in PerSide /\ resting' \in PerSide
      BY <2>2, <2>3, AddType DEF Execute, Orders
    <2>5. faults' \in Nat /\ missed' \in SUBSET Causes
      BY <2>1, PipelineAssumption DEF Fault, Causes
    <2> QED
      BY <2>3, <2>4, <2>5, ReturnType, FailType DEF Fail, disk
  <1>6. CASE RecordReport
    BY <1>6 DEF RecordReport, Orders, Reports, disk, exchange, counters
  <1>7. CASE RecordReportRaises
    BY <1>7, ReturnType, FailType
    DEF RecordReportRaises, Fail, Fault, Causes, disk, exchange
  <1>8. CASE BookFill
    <2> USE <1>8 DEF BookFill
    <2>1. order \in Orders /\ report \in Reports /\ ledger \in Books
      OBVIOUS
    <2>2. Delta \in Int
      BY <2>1 DEF Delta, Sign, Orders, Reports
    <2>3. report.price \in Prices
      BY <2>1 DEF Reports
    <2>4. ledger' \in Books
      BY <2>1, <2>2, <2>3, AfterFillMoves DEF Orders, Books
    <2> QED
      BY <2>4 DEF disk, exchange, counters
  <1>9. CASE NoFill
    BY <1>9 DEF NoFill, memory, disk, exchange, counters
  <1>10. CASE FillWithoutPrice
    BY <1>10, ReturnType, FailType
    DEF FillWithoutPrice, Fail, Causes, disk, exchange
  <1>11. CASE RecordTrade
    <2>1. trades' \in PerSide
      BY <1>11, AddType DEF RecordTrade, Orders, Reports
    <2> QED
      BY <1>11, <2>1 DEF RecordTrade, memory, exchange, counters
  <1>12. CASE RecordTradeRaises
    BY <1>12, ReturnType, FailType
    DEF RecordTradeRaises, Fail, Fault, Causes, disk, exchange
  <1>13. CASE SaveState
    BY <1>13 DEF SaveState, memory, exchange, counters
  <1>21. CASE ValidateBook
    <2>1. breaches' \in Seq(BreachCodes)
      BY <1>21, BreachesType DEF ValidateBook
    <2> QED
      BY <1>21, <2>1 DEF ValidateBook, disk, exchange, counters
  <1>14. CASE SaveStateRaises
    BY <1>14, ReturnType, FailType
    DEF SaveStateRaises, Fail, Fault, Causes, disk, exchange
  <1>15. CASE PublishReport
    <2>1. bus' \in Seq([type : {"EXECUTION_REPORT"},
                        breaches : Seq(BreachCodes)])
      BY <1>15 DEF PublishReport
    <2> QED
      BY <1>15, <2>1, ReturnType DEF PublishReport, disk, exchange, counters
  <1>16. CASE DeliverReport
    BY <1>16 DEF DeliverReport, disk, exchange, counters
  <1>17. ASSUME NEW s \in Symbols, NEW side \in Sides, LateFill(s, side)
         PROVE  TypeOK'
    <2>1. PICK n \in 1 .. resting[s][side] :
            /\ executed' = Add(executed, s, side, n)
            /\ resting' = [resting EXCEPT ![s][side] = @ - n]
      BY <1>17 DEF LateFill
    <2>2. n \in Nat /\ resting[s][side] - n \in Nat
      BY <2>1 DEF PerSide
    <2>3. executed' \in PerSide
      BY <2>1, <2>2, AddType
    <2>4. resting' \in PerSide
      BY <2>1, <2>2 DEF PerSide
    <2> QED
      BY <1>17, <2>3, <2>4 DEF LateFill, Causes, memory, disk
  <1>18. CASE CrashAndRestart
    BY <1>18, ReturnType
    DEF CrashAndRestart, Restart, Fault, Causes, disk, exchange
  <1>19. CASE StopAndRestart
    BY <1>19, ReturnType DEF StopAndRestart, Restart, disk, exchange
  <1>20. CASE UNCHANGED vars
    BY <1>20 DEF vars, memory, disk, exchange, counters
  <1> QED
    BY <1>1, <1>2, <1>3, <1>4, <1>5, <1>6, <1>7, <1>8, <1>9, <1>10, <1>11,
       <1>12, <1>13, <1>14, <1>15, <1>16, <1>17, <1>18, <1>19, <1>20, <1>21
    DEF Next, SubmitStep, Environment

\* In every reachable state the variables of the pipeline have their types.
THEOREM TypeCorrect == Spec => []TypeOK
  BY TypeInit, TypeStep, PTL DEF Spec

-----------------------------------------------------------------------------
(* The trades table and the books                                          *)

\* What the exchange executed for the order in progress and the ledger, or
\* the trades table, does not have yet.
Unbooked(s) ==
    IF pc \in {"report", "book"} /\ s = order.symbol THEN Delta ELSE 0
Unrecorded(s, d) ==
    IF pc \in {"report", "book", "trade"} /\ s = order.symbol /\ d = order.side
    THEN report.filled ELSE 0

\* NoPhantomTrade made inductive: there is room in what was executed for the
\* fill in progress.
TradesInv ==
    \A s \in Symbols, d \in Sides :
        trades[s][d] + Unrecorded(s, d) <= executed[s][d]

\* BooksAgree made inductive: at every step of submit() the books differ by
\* exactly the fill in progress, and a restart that would lose it is one of
\* the causes in missed.
BooksInv ==
    /\ pc \in {"trade", "guard", "save"} => report.filled > 0
    /\ missed = {} =>
         /\ \A s \in Symbols : ledger[s].qty + Unbooked(s) = ExchangePosition(s)
         /\ \A s \in Symbols, d \in Sides :
               trades[s][d] + Unrecorded(s, d) = executed[s][d]
         /\ \A s \in Symbols :
               \/ pc \in {"trade", "guard", "save"} /\ s = order.symbol
               \/ saved[s] = ledger[s]

\* The quantities of the two tables, and of the fill in progress, are naturals.
LEMMA QuantityTypes ==
    ASSUME TypeOK
    PROVE  /\ report.filled \in Nat
           /\ \A s \in Symbols, d \in Sides :
                 trades[s][d] \in Nat /\ executed[s][d] \in Nat
           /\ \A s, d : Unrecorded(s, d) \in Nat
  <1>1. report.filled \in Nat
    BY DEF TypeOK, Reports
  <1>2. trades \in PerSide /\ executed \in PerSide
    BY DEF TypeOK
  <1> QED
    BY <1>1, <1>2 DEF PerSide, Unrecorded

\* A step that records no trade, takes back nothing of what was executed and
\* starts no fill of its own keeps the invariant.
LEMMA TradesKept ==
    ASSUME TypeOK, TypeOK', TradesInv, trades' = trades,
           \A s \in Symbols, d \in Sides : executed[s][d] <= executed'[s][d],
           \A s \in Symbols, d \in Sides :
              Unrecorded(s, d)' \in {0, Unrecorded(s, d)}
    PROVE  TradesInv'
  <1> SUFFICES ASSUME NEW s \in Symbols, NEW d \in Sides
               PROVE  trades[s][d] + Unrecorded(s, d)' <= executed'[s][d]
    BY DEF TradesInv
  <1>1. trades[s][d] + Unrecorded(s, d) <= executed[s][d]
    BY DEF TradesInv
  <1>2. executed'[s][d] \in Nat
    BY DEF TypeOK, PerSide
  <1>3. /\ trades[s][d] \in Nat /\ executed[s][d] \in Nat
        /\ Unrecorded(s, d) \in Nat
    BY QuantityTypes
  <1>4. /\ executed[s][d] <= executed'[s][d]
        /\ Unrecorded(s, d)' \in {0, Unrecorded(s, d)}
    OBVIOUS
  <1> QED
    BY <1>1, <1>2, <1>3, <1>4

LEMMA TradesInit == ASSUME Init PROVE TradesInv
  BY DEF Init, TradesInv, Unrecorded, NoReport

LEMMA TradesStep ==
    ASSUME TypeOK, TypeOK', TradesInv, [Next]_vars PROVE TradesInv'
  <1>a. \A s \in Symbols, d \in Sides : executed[s][d] <= executed[s][d]
    BY QuantityTypes
  <1>b. ASSUME pc' \notin {"report", "book", "trade"}
        PROVE  \A s, d : Unrecorded(s, d)' = 0
    BY <1>b DEF Unrecorded
  <1>1. ASSUME NEW o \in Requests, NEW m \in Marks, Submit(o, m)
        PROVE  TradesInv'
    BY <1>1, <1>a, <1>b, TradesKept DEF Submit, Accept, disk, exchange
  <1>2. CASE RouteFails
    BY <1>2, <1>a, <1>b, TradesKept
    DEF RouteFails, Fail, Return, disk, exchange
  <1>3. CASE RouteAndCheck
    <2>1. pc' \in {"idle", "create"}
      BY <1>3 DEF RouteAndCheck, Return
    <2> QED
      BY <1>3, <2>1, <1>a, <1>b, TradesKept DEF RouteAndCheck, disk, exchange
  <1>4. CASE CreateOrder
    <2> USE <1>4 DEF CreateOrder
    <2>1. PICK filled \in 0 .. order.qty :
            /\ executed' = Add(executed, order.symbol, order.side, filled)
            /\ report'.filled = filled
      BY DEF Execute
    <2>2. order \in Orders /\ executed \in PerSide
      BY DEF TypeOK
    <2>3. filled \in Nat /\ order.symbol \in Symbols /\ order.side \in Sides
      BY <2>1, <2>2 DEF Orders
    <2>4. order'.symbol = order.symbol /\ order'.side = order.side
      BY <2>2 DEF Orders
    <2>5. SUFFICES ASSUME NEW s \in Symbols, NEW d \in Sides
                   PROVE  trades[s][d] + Unrecorded(s, d)' <= executed'[s][d]
      BY DEF TradesInv, disk
    <2>6. trades[s][d] <= executed[s][d]
      BY QuantityTypes DEF TradesInv, Unrecorded
    <2>7. executed'[s][d] = IF s = order.symbol /\ d = order.side
                            THEN executed[s][d] + filled ELSE executed[s][d]
      BY <2>1, <2>2, <2>3, AddType
    <2>8. Unrecorded(s, d)' = IF s = order.symbol /\ d = order.side
                              THEN filled ELSE 0
      BY <2>1, <2>4 DEF Unrecorded
    <2> QED
      BY <2>3, <2>6, <2>7, <2>8, QuantityTypes
  <1>5. CASE CreateOrderRaises
    <2> USE <1>5 DEF CreateOrderRaises
    <2>1. PICK filled \in 0 .. order.qty :
            executed' = Add(executed, order.symbol, order.side, filled)
      BY DEF Execute
    <2>2. order \in Orders /\ executed \in PerSide
      BY DEF TypeOK
    <2>3. filled \in Nat /\ order.symbol \in Symbols /\ order.side \in Sides
      BY <2>1, <2>2 DEF Orders
    <2>4. \A s \in Symbols, d \in Sides : executed[s][d] <= executed'[s][d]
      BY <2>1, <2>2, <2>3, AddGrows
    <2> QED
      BY <2>4, <1>b, TradesKept DEF Fail, Return, disk
  <1>6. CASE RecordReport
    <2>1. order'.symbol = order.symbol /\ order'.side = order.side
      BY <1>6 DEF RecordReport, TypeOK, Orders
    <2> QED
      BY <1>6, <2>1, <1>a, TradesKept
      DEF RecordReport, Unrecorded, disk, exchange
  <1>7. CASE RecordReportRaises
    BY <1>7, <1>a, <1>b, TradesKept
    DEF RecordReportRaises, Fail, Return, disk, exchange
  <1>8. CASE BookFill
    BY <1>8, <1>a, TradesKept DEF BookFill, Unrecorded, disk, exchange
  <1>9. CASE NoFill
    BY <1>9, <1>a, <1>b, TradesKept DEF NoFill, disk, exchange
  <1>10. CASE FillWithoutPrice
    BY <1>10, <1>a, <1>b, TradesKept
    DEF FillWithoutPrice, Fail, Return, disk, exchange
  <1>11. CASE RecordTrade
    <2> USE <1>11 DEF RecordTrade
    <2>1. order \in Orders /\ trades \in PerSide
      BY DEF TypeOK
    <2>2. SUFFICES ASSUME NEW s \in Symbols, NEW d \in Sides
                   PROVE  trades'[s][d] <= executed[s][d]
      BY <1>b, QuantityTypes DEF TradesInv, exchange, TypeOK, PerSide
    <2>3. trades'[s][d] = IF s = order.symbol /\ d = order.side
                          THEN trades[s][d] + report.filled ELSE trades[s][d]
      BY <2>1, AddType, QuantityTypes DEF Orders
    <2>4. trades[s][d] + Unrecorded(s, d) <= executed[s][d]
      BY DEF TradesInv
    <2>5. Unrecorded(s, d) = IF s = order.symbol /\ d = order.side
                             THEN report.filled ELSE 0
      BY DEF Unrecorded
    <2> QED
      BY <2>3, <2>4, <2>5, QuantityTypes
  <1>12. CASE RecordTradeRaises
    BY <1>12, <1>a, <1>b, TradesKept
    DEF RecordTradeRaises, Fail, Return, disk, exchange
  <1>13. CASE SaveState
    BY <1>13, <1>a, <1>b, TradesKept DEF SaveState, memory, exchange
  <1>21. CASE ValidateBook
    BY <1>21, <1>a, <1>b, TradesKept DEF ValidateBook, disk, exchange
  <1>14. CASE SaveStateRaises
    BY <1>14, <1>a, <1>b, TradesKept
    DEF SaveStateRaises, Fail, Return, disk, exchange
  <1>15. CASE PublishReport
    BY <1>15, <1>a, <1>b, TradesKept DEF PublishReport, Return, disk, exchange
  <1>16. CASE DeliverReport
    BY <1>16, <1>a, <1>b, TradesKept DEF DeliverReport, disk, exchange
  <1>17. ASSUME NEW s \in Symbols, NEW side \in Sides, LateFill(s, side)
         PROVE  TradesInv'
    <2>1. PICK n \in 1 .. resting[s][side] :
            executed' = Add(executed, s, side, n)
      BY <1>17 DEF LateFill
    <2>2. n \in Nat /\ executed \in PerSide
      BY <2>1 DEF TypeOK, PerSide
    <2>3. \A t \in Symbols, d \in Sides : executed[t][d] <= executed'[t][d]
      BY <2>1, <2>2, AddGrows
    <2>4. \A t, d : Unrecorded(t, d)' = Unrecorded(t, d)
      BY <1>17 DEF LateFill, Unrecorded, memory
    <2> QED
      BY <1>17, <2>3, <2>4, TradesKept DEF LateFill, disk
  <1>18. CASE CrashAndRestart
    BY <1>18, <1>a, <1>b, TradesKept
    DEF CrashAndRestart, Restart, Return, disk, exchange
  <1>19. CASE StopAndRestart
    BY <1>19, <1>a, <1>b, TradesKept
    DEF StopAndRestart, Restart, Return, disk, exchange
  <1>20. CASE UNCHANGED vars
    BY <1>20 DEF vars, TradesInv, Unrecorded, Delta, memory, disk, exchange
  <1> QED
    BY <1>1, <1>2, <1>3, <1>4, <1>5, <1>6, <1>7, <1>8, <1>9, <1>10, <1>11,
       <1>12, <1>13, <1>14, <1>15, <1>16, <1>17, <1>18, <1>19, <1>20, <1>21
    DEF Next, SubmitStep, Environment

\* Whatever fails and however often the process restarts, no fill is recorded
\* in the trades table that the exchange did not execute, nor twice.
THEOREM TradesCorrect == Spec => []NoPhantomTrade
  <1>1. ASSUME TypeOK, TradesInv PROVE NoPhantomTrade
    BY <1>1, QuantityTypes DEF TradesInv, NoPhantomTrade
  <1> QED
    BY <1>1, TypeCorrect, TradesInit, TradesStep, PTL DEF Spec

\* A step that moves no money, or leaves a fill to missed, keeps the books.
LEMMA BooksKept ==
    ASSUME BooksInv,
           pc \notin {"trade", "guard", "save"}, pc' \notin {"trade", "guard", "save"},
           missed' = {} =>
              /\ missed = {}
              /\ ledger' = ledger /\ trades' = trades /\ saved' = saved
              /\ \A s \in Symbols, d \in Sides :
                    executed'[s][d] = executed[s][d]
              /\ \A s \in Symbols : Unbooked(s)' = Unbooked(s)
              /\ \A s \in Symbols, d \in Sides :
                    Unrecorded(s, d)' = Unrecorded(s, d)
    PROVE  BooksInv'
  <1> SUFFICES ASSUME missed' = {}
               PROVE  /\ \A s \in Symbols : ledger'[s].qty + Unbooked(s)'
                                              = ExchangePosition(s)'
                      /\ \A s \in Symbols, d \in Sides :
                            trades'[s][d] + Unrecorded(s, d)' = executed'[s][d]
                      /\ \A s \in Symbols : saved'[s] = ledger'[s]
    BY DEF BooksInv
  <1>1. \A s \in Symbols : ExchangePosition(s)' = ExchangePosition(s)
    BY DEF ExchangePosition, Sides
  <1> QED
    BY <1>1 DEF BooksInv

LEMMA BooksInit == ASSUME Init PROVE BooksInv
  BY DEF Init, BooksInv, Unbooked, Unrecorded, ExchangePosition, Sides, Flat

LEMMA BooksStep ==
    ASSUME TypeOK, TypeOK', BooksInv, [Next]_vars PROVE BooksInv'
  <1>a. \A s, d : /\ pc \notin {"report", "book"} => Unbooked(s) = 0
                  /\ pc' \notin {"report", "book"} => Unbooked(s)' = 0
                  /\ pc \notin {"report", "book", "trade"}
                       => Unrecorded(s, d) = 0
                  /\ pc' \notin {"report", "book", "trade"}
                       => Unrecorded(s, d)' = 0
    BY DEF Unbooked, Unrecorded
  <1>b. ASSUME report.filled = 0 PROVE \A s, d : Unbooked(s) = 0 /\ Unrecorded(s, d) = 0
    BY <1>b DEF Unbooked, Unrecorded, Delta, Sign
  <1>c. ASSUME NEW cause, Fault(cause, report.filled), missed' = {}
        PROVE  missed = {} /\ report.filled = 0
    BY <1>c, QuantityTypes DEF Fault
  <1>1. ASSUME NEW o \in Requests, NEW m \in Marks, Submit(o, m)
        PROVE  BooksInv'
    BY <1>1, <1>a, BooksKept DEF Submit, Accept, disk, exchange
  <1>2. CASE RouteFails
    BY <1>2, <1>a, BooksKept
    DEF RouteFails, Fail, Return, disk, exchange, counters
  <1>3. CASE RouteAndCheck
    <2>1. pc' \in {"idle", "create"}
      BY <1>3 DEF RouteAndCheck, Return
    <2> QED
      BY <1>3, <2>1, <1>a, BooksKept
      DEF RouteAndCheck, disk, exchange, counters
  <1>4. CASE CreateOrder
    <2> USE <1>4 DEF CreateOrder
    <2>1. PICK filled \in 0 .. order.qty :
            /\ executed' = Add(executed, order.symbol, order.side, filled)
            /\ report'.filled = filled
      BY DEF Execute
    <2>2. order \in Orders /\ executed \in PerSide
      BY DEF TypeOK
    <2>3. filled \in Nat /\ order.symbol \in Symbols /\ order.side \in Sides
      BY <2>1, <2>2 DEF Orders
    <2>4. order'.symbol = order.symbol /\ order'.side = order.side
      BY <2>2 DEF Orders
    <2>5. \A s \in Symbols, d \in Sides :
             executed'[s][d] = IF s = order.symbol /\ d = order.side
                               THEN executed[s][d] + filled ELSE executed[s][d]
      BY <2>1, <2>2, <2>3, AddType
    <2>6. \A s \in Symbols : ExchangePosition(s)'
             = ExchangePosition(s) + (IF s = order.symbol
                                      THEN Sign(order.side) * filled ELSE 0)
      BY <2>3, <2>5, QuantityTypes DEF ExchangePosition, Sides, Sign
    <2>7. \A s \in Symbols : Unbooked(s)'
             = IF s = order.symbol THEN Sign(order.side) * filled ELSE 0
      BY <2>1, <2>4 DEF Unbooked, Delta
    <2>8. \A s \in Symbols, d \in Sides : Unrecorded(s, d)'
             = IF s = order.symbol /\ d = order.side THEN filled ELSE 0
      BY <2>1, <2>4 DEF Unrecorded
    <2>9. SUFFICES ASSUME missed = {} PROVE BooksInv'
      BY DEF BooksInv, counters
    <2>10. \A s \in Symbols : /\ ledger[s].qty = ExchangePosition(s)
                              /\ ledger[s].qty \in Int
                              /\ saved[s] = ledger[s]
      <3>1. \A s \in Symbols : ledger[s].qty \in Int
        BY DEF TypeOK, Books
      <3>2. \A s \in Symbols : Unbooked(s) = 0
        BY <1>a
      <3>3. \A s \in Symbols : ledger[s].qty + Unbooked(s) = ExchangePosition(s)
        BY <2>9 DEF BooksInv
      <3>4. \A s \in Symbols : saved[s] = ledger[s]
        BY <2>9 DEF BooksInv
      <3> QED
        BY <3>1, <3>2, <3>3, <3>4
    <2>11. \A s \in Symbols, d \in Sides : trades[s][d] = executed[s][d]
      BY <1>a, <2>9, QuantityTypes DEF BooksInv
    <2>12. /\ pc' = "report" /\ ledger' = ledger /\ trades' = trades
           /\ saved' = saved
      BY DEF disk
    <2>13. \A s \in Symbols :
              ledger'[s].qty + Unbooked(s)' = ExchangePosition(s)'
      BY <2>3, <2>6, <2>7, <2>10, <2>12 DEF Sign
    <2>14. \A s \in Symbols, d \in Sides :
              trades'[s][d] + Unrecorded(s, d)' = executed'[s][d]
      BY <2>3, <2>5, <2>8, <2>11, <2>12, QuantityTypes
    <2> QED
      BY <2>10, <2>12, <2>13, <2>14 DEF BooksInv
  <1>5. CASE CreateOrderRaises
    <2> USE <1>5 DEF CreateOrderRaises
    <2>1. PICK filled \in 0 .. order.qty :
            /\ executed' = Add(executed, order.symbol, order.side, filled)
            /\ Fault("lost_response", filled)
      BY DEF Execute
    <2>2. order \in Orders /\ executed \in PerSide
      BY DEF TypeOK
    <2>3. filled \in Nat /\ order.symbol \in Symbols /\ order.side \in Sides
      BY <2>1, <2>2 DEF Orders
    <2>4. missed' = {} => missed = {} /\ filled = 0
      BY <2>1, <2>3 DEF Fault
    <2>5. missed' = {} => \A s \in Symbols, d \in Sides :
                             executed'[s][d] = executed[s][d]
      <3>1. \A s \in Symbols, d \in Sides :
               executed'[s][d] = IF s = order.symbol /\ d = order.side
                                 THEN executed[s][d] + filled
                                 ELSE executed[s][d]
        BY <2>1, <2>2, <2>3, AddType
      <3> QED
        BY <2>4, <3>1, QuantityTypes
    <2> QED
      BY <2>4, <2>5, <1>a, BooksKept DEF Fail, Return, disk
  <1>6. CASE RecordReport
    <2>1. order'.symbol = order.symbol /\ order'.side = order.side
      BY <1>6 DEF RecordReport, TypeOK, Orders
    <2> QED
      BY <1>6, <2>1, BooksKept
      DEF RecordReport, Unbooked, Unrecorded, Delta, disk, exchange, counters
  <1>7. CASE RecordReportRaises
    BY <1>7, <1>a, <1>b, <1>c, BooksKept
    DEF RecordReportRaises, Fail, Return, disk, exchange
  <1>8. CASE BookFill
    <2> USE <1>8 DEF BookFill
    <2>1. order \in Orders /\ report \in Reports /\ ledger \in Books
      BY DEF TypeOK
    <2>2. order.symbol \in Symbols /\ report.price \in Prices /\ Delta \in Int
      BY <2>1 DEF Orders, Reports, Delta, Sign
    <2>3. ledger[order.symbol] \in [qty : Int, avg : Prices \cup {0}]
      BY <2>1, <2>2 DEF Books
    <2>4. PICK pos \in AfterFill(ledger[order.symbol], Delta, report.price) :
            ledger' = [ledger EXCEPT ![order.symbol] = pos]
      OBVIOUS
    <2>5. pos.qty = ledger[order.symbol].qty + Delta
      BY <2>2, <2>3, <2>4, AfterFillMoves
    <2>6. \A s \in Symbols : ledger'[s] = IF s = order.symbol THEN pos ELSE ledger[s]
      BY <2>1, <2>4 DEF Books
    <2>7. \A s \in Symbols :
             /\ Unbooked(s) = IF s = order.symbol THEN Delta ELSE 0
             /\ Unbooked(s)' = 0
             /\ ledger[s].qty \in Int
      BY <1>a, <2>1 DEF Unbooked, Books
    <2>8. /\ missed' = missed /\ trades' = trades /\ saved' = saved
          /\ executed' = executed /\ pc' = "trade"
          /\ order' = order /\ report' = report
      BY DEF disk, exchange, counters
    <2>9. \A s \in Symbols, d \in Sides : Unrecorded(s, d)' = Unrecorded(s, d)
      BY <2>8 DEF Unrecorded
    <2>10. \A s \in Symbols : ExchangePosition(s)' = ExchangePosition(s)
      BY <2>8 DEF ExchangePosition
    <2>11. ASSUME missed = {}
           PROVE  \A s \in Symbols :
                     ledger'[s].qty + Unbooked(s)' = ExchangePosition(s)'
      BY <2>2, <2>5, <2>6, <2>7, <2>10, <2>11 DEF BooksInv
    <2> QED
      BY <2>6, <2>8, <2>9, <2>11 DEF BooksInv
  <1>9. CASE NoFill
    <2>1. report.filled = 0 /\ pc = "book" /\ pc' = "publish"
      BY <1>9 DEF NoFill
    <2>2. /\ missed' = missed /\ trades' = trades /\ saved' = saved
          /\ executed' = executed /\ ledger' = ledger
      BY <1>9 DEF NoFill, memory, disk, exchange, counters
    <2>3. pc \notin {"trade", "guard", "save"} /\ pc' \notin {"trade", "guard", "save"}
      BY <2>1
    <2>4. \A s, d : /\ Unbooked(s)' = Unbooked(s)
                    /\ Unrecorded(s, d)' = Unrecorded(s, d)
      BY <2>1, <1>a, <1>b
    <2>5. missed' = {} =>
            /\ missed = {}
            /\ ledger' = ledger /\ trades' = trades /\ saved' = saved
            /\ \A s \in Symbols, d \in Sides : executed'[s][d] = executed[s][d]
            /\ \A s \in Symbols : Unbooked(s)' = Unbooked(s)
            /\ \A s \in Symbols, d \in Sides :
                  Unrecorded(s, d)' = Unrecorded(s, d)
      BY <2>2, <2>4
    <2> QED
      BY <2>3, <2>5, BooksKept
  <1>10. CASE FillWithoutPrice
    BY <1>10 DEF FillWithoutPrice, Fail, Return, BooksInv
  <1>11. CASE RecordTrade
    <2> USE <1>11 DEF RecordTrade
    <2>a. order.symbol \in Symbols /\ order.side \in Sides
      BY DEF TypeOK, Orders
    <2>b. trades \in PerSide /\ report.filled \in Nat
      BY QuantityTypes DEF TypeOK
    <2>1. trades' = Add(trades, order.symbol, order.side, report.filled)
      OBVIOUS
    <2>2. \A s \in Symbols, d \in Sides :
             trades'[s][d] = IF s = order.symbol /\ d = order.side
                             THEN trades[s][d] + report.filled ELSE trades[s][d]
      <3> HIDE <1>11
      <3> QED BY <2>a, <2>b, <2>1, AddType
    <2>3. \A s \in Symbols, d \in Sides :
             Unrecorded(s, d) = IF s = order.symbol /\ d = order.side
                                THEN report.filled ELSE 0
      BY DEF Unrecorded
    <2>4. /\ missed' = missed /\ ledger' = ledger /\ saved' = saved
          /\ executed' = executed /\ pc' = "guard"
          /\ order' = order /\ report' = report
      BY DEF memory, exchange, counters
    <2>5. \A s \in Symbols : ExchangePosition(s)' = ExchangePosition(s)
      BY <2>4 DEF ExchangePosition
    <2>6. ASSUME missed = {}
          PROVE  \A s \in Symbols, d \in Sides :
                    trades'[s][d] + Unrecorded(s, d)' = executed'[s][d]
      BY <1>a, <2>2, <2>3, <2>4, <2>6, QuantityTypes DEF BooksInv
    <2> QED
      BY <1>a, <2>4, <2>5, <2>6 DEF BooksInv
  <1>12. CASE RecordTradeRaises
    BY <1>12, <1>c DEF RecordTradeRaises, Fail, Return, BooksInv
  <1>13. CASE SaveState
    <2>1. /\ missed' = missed /\ ledger' = ledger /\ saved' = ledger
          /\ trades' = trades /\ executed' = executed /\ pc' = "publish"
      BY <1>13 DEF SaveState, memory, exchange, counters
    <2>2. \A s \in Symbols : ExchangePosition(s)' = ExchangePosition(s)
      BY <2>1 DEF ExchangePosition
    <2>3. pc = "save"
      BY <1>13 DEF SaveState
    <2> QED
      BY <1>a, <2>1, <2>2, <2>3 DEF BooksInv
  <1>22. CASE ValidateBook
    <2>1. /\ missed' = missed /\ ledger' = ledger /\ saved' = saved
          /\ trades' = trades /\ executed' = executed /\ order' = order
          /\ report' = report /\ pc = "guard" /\ pc' = "save"
      BY <1>22 DEF ValidateBook, disk, exchange, counters
    <2>2. \A s \in Symbols : ExchangePosition(s)' = ExchangePosition(s)
      BY <2>1 DEF ExchangePosition
    <2> QED
      BY <1>a, <2>1, <2>2 DEF BooksInv
  <1>14. CASE SaveStateRaises
    BY <1>14, <1>c DEF SaveStateRaises, Fail, Return, BooksInv
  <1>15. CASE PublishReport
    BY <1>15, <1>a, BooksKept
    DEF PublishReport, Return, disk, exchange, counters
  <1>16. CASE DeliverReport
    BY <1>16, <1>a, BooksKept DEF DeliverReport, disk, exchange, counters
  <1>17. ASSUME NEW s \in Symbols, NEW side \in Sides, LateFill(s, side)
         PROVE  BooksInv'
    BY <1>17 DEF LateFill, BooksInv, memory
  <1>18. ASSUME Restart, missed' = {} => /\ missed = {}
                                         /\ Unsaved => report.filled = 0
         PROVE  BooksInv'
    <2> USE <1>18 DEF Restart, Return
    <2>1. SUFFICES ASSUME missed' = {} PROVE BooksInv'
      BY DEF BooksInv
    <2>2. pc \notin {"trade", "guard", "save"}
      BY <2>1 DEF BooksInv, Unsaved
    <2>3. \A s, d : Unbooked(s) = 0 /\ Unrecorded(s, d) = 0
      BY <1>a, <1>b, <2>1, <2>2 DEF Unsaved
    <2>4. \A s \in Symbols : saved[s] = ledger[s]
      BY <2>1, <2>2 DEF BooksInv
    <2>5. /\ pc' = "idle" /\ ledger' = saved /\ saved' = saved
          /\ trades' = trades /\ executed' = executed
      BY DEF disk, exchange
    <2>6. \A s \in Symbols : ExchangePosition(s)' = ExchangePosition(s)
      BY <2>5 DEF ExchangePosition
    <2> QED
      BY <1>a, <2>1, <2>3, <2>4, <2>5, <2>6 DEF BooksInv
  <1>19. CASE CrashAndRestart
    BY <1>19, <1>18, QuantityTypes DEF CrashAndRestart, Fault
  <1>20. CASE StopAndRestart
    BY <1>20, <1>18 DEF StopAndRestart, Unsaved
  <1>21. CASE UNCHANGED vars
    BY <1>21 DEF vars, BooksInv, Unbooked, Unrecorded, Delta, ExchangePosition,
                 memory, disk, exchange, counters
  <1> QED
    BY <1>1, <1>2, <1>3, <1>4, <1>5, <1>6, <1>7, <1>8, <1>9, <1>10, <1>11,
       <1>12, <1>13, <1>14, <1>15, <1>16, <1>17, <1>19, <1>20, <1>21, <1>22
    DEF Next, SubmitStep, Environment

\* Between two orders the ledger, the trades table, the state file and the
\* exchange agree on every position, unless a fill was missed for one of the
\* causes the model names.
THEOREM BooksCorrect == Spec => []BooksAgree
  <1>1. ASSUME TypeOK, BooksInv PROVE BooksAgree
    <2>1. SUFFICES ASSUME pc = "idle", missed = {}
                   PROVE  \A s \in Symbols :
                            /\ ledger[s].qty = ExchangePosition(s)
                            /\ \A d \in Sides : trades[s][d] = executed[s][d]
                            /\ saved[s] = ledger[s]
      BY DEF BooksAgree, Sides
    <2>2. \A s \in Symbols : ledger[s].qty \in Int
      BY <1>1 DEF TypeOK, Books
    <2>3. \A s, d : Unbooked(s) = 0 /\ Unrecorded(s, d) = 0
      BY <2>1 DEF Unbooked, Unrecorded
    <2> QED
      BY <1>1, <2>1, <2>2, <2>3, QuantityTypes DEF BooksInv
  <1> QED
    BY <1>1, TypeCorrect, BooksInit, BooksStep, PTL DEF Spec

-----------------------------------------------------------------------------
(* Sums over the symbols                                                   *)

\* F is the function SumFunction recurs with over the subsets of S: it takes
\* some element first, whichever CHOOSE gives.
Picked(T) == CHOOSE x \in T : TRUE
Recursion(F, f, S) ==
    F = [T \in SUBSET S |-> IF T = {} THEN 0 ELSE f[Picked(T)] + F[T \ {Picked(T)}]]

\* F sums f over every subset of S, whichever element is taken first.
Adds(F, f, S) ==
    /\ F \in [SUBSET S -> Int]
    /\ F[{}] = 0
    /\ \A T \in SUBSET S : \A x \in T : F[T] = f[x] + F[T \ {x}]

\* SumFunction, unfolded.
LEMMA SumIs ==
    ASSUME NEW S, NEW f \in [S -> Int]
    PROVE  SumFunction(f) = (CHOOSE F : Recursion(F, f, S))[S]
  BY DEF SumFunction, SumFunctionOnSet, FoldFunctionOnSet, MapThenFoldSet, Recursion, Picked

\* Induction over the subsets of a finite set: of some subsets of it, one has
\* none of the others within it.
LEMMA SmallestSubset ==
    ASSUME NEW S, IsFiniteSet(S), NEW B \in SUBSET (SUBSET S), B # {}
    PROVE  \E T \in B : \A U \in SUBSET S : U \subseteq T /\ U # T => U \notin B
  <1>1. IsWellFoundedOn(StrictSubsetOrdering(S), SUBSET S)
    BY FS_StrictSubsetOrderingWellFounded, FS_FiniteSubsetsOfFinite
  <1>2. PICK T \in B : \A U \in B : <<U, T>> \notin StrictSubsetOrdering(S)
    BY <1>1, WFMin
  <1> QED
    BY <1>2 DEF StrictSubsetOrdering

\* Two such functions agree where they sum the same numbers.
LEMMA RecursionUnique ==
    ASSUME NEW S, IsFiniteSet(S), NEW U \in SUBSET S, NEW V \in SUBSET S,
           NEW f, NEW g, NEW F, NEW G, Recursion(F, f, U), Recursion(G, g, V),
           NEW W \in SUBSET (U \cap V), \A x \in W : f[x] = g[x]
    PROVE  F[W] = G[W]
  <1> DEFINE B == {T \in SUBSET W : F[T] # G[T]}
  <1>1. SUFFICES ASSUME B # {} PROVE FALSE
    OBVIOUS
  <1>2. IsFiniteSet(W)
    BY FS_Subset
  <1>3. PICK T \in B : \A R \in SUBSET W : R \subseteq T /\ R # T => R \notin B
    <2>1. B \in SUBSET (SUBSET W)
      OBVIOUS
    <2> HIDE DEF B
    <2> QED
      BY <1>1, <1>2, <2>1, SmallestSubset
  <1>4. CASE T = {}
    BY <1>3, <1>4 DEF Recursion
  <1>5. CASE T # {}
    <2> DEFINE c == Picked(T)
    <2>1. c \in T
      BY <1>5 DEF Picked
    <2> HIDE DEF c
    <2>2. T \ {c} \in SUBSET W /\ T \ {c} # T
      BY <1>3, <2>1
    <2>3. F[T \ {c}] = G[T \ {c}]
      BY <1>3, <2>2
    <2>4. F[T] = f[c] + F[T \ {c}]
      BY <1>3, <1>5 DEF Recursion, c
    <2>5. G[T] = g[c] + G[T \ {c}]
      BY <1>3, <1>5 DEF Recursion, c
    <2>6. f[c] = g[c]
      BY <1>3, <2>1
    <2> QED
      BY <1>3, <2>3, <2>4, <2>5, <2>6
  <1> QED
    BY <1>4, <1>5

\* There is one of whole numbers: of the subsets, none can be the smallest
\* without it.
LEMMA RecursionExists ==
    ASSUME NEW S, IsFiniteSet(S), NEW f \in [S -> Int]
    PROVE  \E F \in [SUBSET S -> Int] : Recursion(F, f, S)
  <1> DEFINE Fits(F, T) == F \in [SUBSET T -> Int] /\ Recursion(F, f, T)
             B == {T \in SUBSET S : ~ \E F : Fits(F, T)}
             G(T) == CHOOSE F : Fits(F, T)
  <1>1. SUFFICES ASSUME B # {} PROVE FALSE
    OBVIOUS
  <1>2. PICK T \in B : \A U \in SUBSET S : U \subseteq T /\ U # T => U \notin B
    <2>1. B \in SUBSET (SUBSET S)
      OBVIOUS
    <2> HIDE DEF B
    <2> QED
      BY <1>1, <2>1, SmallestSubset
  <1>3. \A U \in SUBSET T : U # T => Fits(G(U), U)
    BY <1>2
  <1>4. CASE T = {}
    <2> DEFINE F == [U \in SUBSET T |-> 0]
    <2>1. Fits(F, T)
      BY <1>4 DEF Recursion
    <2> QED
      BY <1>2, <2>1
  <1>5. CASE T # {}
    <2> DEFINE c(U) == Picked(U)
               F == [U \in SUBSET T |-> IF U = {} THEN 0
                       ELSE f[c(U)] + G(U \ {c(U)})[U \ {c(U)}]]
    <2>0. \A U \in SUBSET T : U # {} => c(U) \in U
      BY DEF Picked
    <2> HIDE DEF G, c, Fits
    <2>1. \A U \in SUBSET T : U # {} =>
             /\ f[c(U)] \in Int
             /\ Fits(G(U \ {c(U)}), U \ {c(U)})
      <3> TAKE U \in SUBSET T
      <3> HAVE U # {}
      <3>1. c(U) \in U /\ c(U) \in S
        BY <1>2, <2>0
      <3>2. U \ {c(U)} \in SUBSET T /\ U \ {c(U)} # T
        BY <3>1
      <3> QED
        BY <1>3, <3>1, <3>2
    <2>2. F \in [SUBSET T -> Int]
      <3> SUFFICES ASSUME NEW U \in SUBSET T, U # {}
                   PROVE  G(U \ {c(U)})[U \ {c(U)}] \in Int
        BY <2>1
      <3> DEFINE R == U \ {c(U)}
      <3>1. Fits(G(R), R)
        BY <2>1
      <3> HIDE DEF R
      <3>2. G(R)[R] \in Int
        BY <3>1 DEF Fits
      <3> QED
        BY <3>2 DEF R
    <2>3. \A U \in SUBSET T : U # T => F[U] = G(U)[U]
      <3> SUFFICES ASSUME NEW U \in SUBSET T, U # T PROVE F[U] = G(U)[U]
        OBVIOUS
      <3>0. Recursion(G(U), f, U)
        BY <1>3 DEF Fits
      <3>1. CASE U = {}
        BY <3>0, <3>1 DEF Recursion
      <3>2. CASE U # {}
        <4> DEFINE R == U \ {c(U)}
        <4>1. c(U) \in U /\ R \in SUBSET U /\ R \in SUBSET T /\ Fits(G(R), R)
          BY <2>0, <2>1, <3>2
        <4>2. F[U] = f[c(U)] + G(R)[R]
          BY <3>2
        <4>3. G(U)[U] = f[c(U)] + G(U)[R]
          BY <3>0, <3>2 DEF Recursion, c
        <4> HIDE DEF R, F
        <4>4. G(U)[R] = G(R)[R]
          <5>1. Recursion(G(R), f, R)
            BY <4>1 DEF Fits
          <5>2. U \in SUBSET S /\ R \in SUBSET S /\ R \in SUBSET (U \cap R)
            BY <1>2, <4>1
          <5> QED
            BY <3>0, <5>1, <5>2, RecursionUnique
        <4> QED
          BY <4>2, <4>3, <4>4
      <3> QED
        BY <3>1, <3>2
    <2>4. Recursion(F, f, T)
      <3>1. \A U \in SUBSET T : U # {} => 
              G(U \ {c(U)})[U \ {c(U)}] = F[U \ {c(U)}]
        <4> SUFFICES ASSUME NEW U \in SUBSET T, U # {}
                     PROVE  G(U \ {c(U)})[U \ {c(U)}] = F[U \ {c(U)}]
          OBVIOUS
        <4>1. U \ {c(U)} \in SUBSET T /\ U \ {c(U)} # T
          BY <2>0
        <4> HIDE DEF F
        <4> QED
          BY <2>3, <4>1
      <3>2. F = [U \in SUBSET T |-> IF U = {} THEN 0 ELSE f[c(U)] + F[U \ {c(U)}]]
        BY <3>1
      <3> HIDE DEF F
      <3> QED
        BY <3>2 DEF Recursion, c
    <2> HIDE DEF F
    <2>5. Fits(F, T)
      BY <2>2, <2>4 DEF Fits
    <2> QED
      BY <1>2, <2>5
  <1> QED
    BY <1>4, <1>5

\* A sum does not depend on the order its terms are taken in.
LEMMA SumAdds ==
    ASSUME NEW S, IsFiniteSet(S), NEW f \in [S -> Int]
    PROVE  \E F : Adds(F, f, S) /\ SumFunction(f) = F[S]
  <1> DEFINE F == CHOOSE F : Recursion(F, f, S)
  <1>1. PICK G \in [SUBSET S -> Int] : Recursion(G, f, S)
    BY RecursionExists
  <1>2. Recursion(F, f, S)
    BY <1>1
  <1>3. SumFunction(f) = F[S]
    BY SumIs
  <1> HIDE DEF F
  <1>4. \A T \in SUBSET S : F[T] \in Int
    <2> TAKE T \in SUBSET S
    <2>1. F[T] = G[T]
      BY <1>1, <1>2, RecursionUnique
    <2> QED
      BY <1>1, <2>1
  <1>5. F \in [SUBSET S -> Int] /\ F[{}] = 0
    <2>1. F = [T \in SUBSET S |-> F[T]]
      BY <1>2 DEF Recursion
    <2> QED
      BY <1>2, <1>4, <2>1 DEF Recursion
  <1> DEFINE B == {T \in SUBSET S : \E x \in T : F[T] # f[x] + F[T \ {x}]}
  <1>6. ASSUME B # {} PROVE FALSE
    <2>1. PICK T \in B : \A U \in SUBSET S : U \subseteq T /\ U # T => U \notin B
      <3>1. B \in SUBSET (SUBSET S)
        OBVIOUS
      <3> HIDE DEF B
      <3> QED
        BY <1>6, <3>1, SmallestSubset
    <2>2. PICK x \in T : F[T] # f[x] + F[T \ {x}]
      BY <2>1
    <2> DEFINE c == Picked(T)
               R == T \ {c, x}
    <2>3. c \in T
      BY <2>2 DEF Picked
    <2>4. F[T] = f[c] + F[T \ {c}]
      BY <1>2, <2>1, <2>2 DEF Recursion
    <2> HIDE DEF c
    <2>5. c # x
      BY <2>2, <2>4
    <2>6. F[T \ {c}] = f[x] + F[R]
      <3>1. T \ {c} \in SUBSET S /\ T \ {c} \notin B /\ x \in T \ {c} /\ (T \ {c}) \ {x} = R
        BY <2>1, <2>2, <2>3, <2>5
      <3> QED
        BY <3>1
    <2>7. F[T \ {x}] = f[c] + F[R]
      <3>1. T \ {x} \in SUBSET S /\ T \ {x} \notin B /\ c \in T \ {x} /\ (T \ {x}) \ {c} = R
        BY <2>1, <2>2, <2>3, <2>5
      <3> QED
        BY <3>1
    <2>8. f[c] \in Int /\ f[x] \in Int /\ F[R] \in Int
      <3>1. c \in S /\ x \in S /\ R \in SUBSET S
        BY <2>1, <2>2, <2>3
      <3> QED
        BY <1>4, <3>1
    <2> HIDE DEF R
    <2> QED
      BY <2>2, <2>4, <2>6, <2>7, <2>8
  <1>7. Adds(F, f, S)
    BY <1>5, <1>6 DEF Adds
  <1> QED
    BY <1>3, <1>7

\* What sums in any order sums in the order of SumFunction.
LEMMA AddsRecurs ==
    ASSUME NEW S, NEW f, NEW F, Adds(F, f, S)
    PROVE  Recursion(F, f, S)
  <1>1. \A T \in SUBSET S : T # {} => Picked(T) \in T
    BY DEF Picked
  <1>2. F = [T \in SUBSET S |-> F[T]]
    BY DEF Adds
  <1>3. \A T \in SUBSET S : 
          F[T] = IF T = {} THEN 0 ELSE f[Picked(T)] + F[T \ {Picked(T)}]
    BY <1>1 DEF Adds
  <1> QED
    BY <1>2, <1>3 DEF Recursion

\* A sum over a finite set of symbols moves by what one of its terms moves.
LEMMA SumMoves ==
    ASSUME NEW S, IsFiniteSet(S), NEW f \in [S -> Int], NEW g \in [S -> Int],
           NEW s \in S, \A t \in S \ {s} : g[t] = f[t]
    PROVE  /\ SumFunction(f) \in Int /\ SumFunction(g) \in Int
           /\ SumFunction(g) = SumFunction(f) - f[s] + g[s]
  <1>1. PICK F : Adds(F, f, S) /\ SumFunction(f) = F[S]
    BY SumAdds
  <1>2. PICK G : Adds(G, g, S) /\ SumFunction(g) = G[S]
    BY SumAdds
  <1>3. F[S \ {s}] = G[S \ {s}]
    <2>1. Recursion(F, f, S) /\ Recursion(G, g, S)
      BY <1>1, <1>2, AddsRecurs
    <2> QED
      BY <2>1, RecursionUnique
  <1>4. F[S] = f[s] + F[S \ {s}] /\ G[S] = g[s] + G[S \ {s}]
    BY <1>1, <1>2 DEF Adds
  <1>5. F[S] \in Int /\ G[S] \in Int /\ F[S \ {s}] \in Int /\ f[s] \in Int /\ g[s] \in Int
    BY <1>1, <1>2 DEF Adds
  <1> QED
    BY <1>1, <1>2, <1>3, <1>4, <1>5

-----------------------------------------------------------------------------
(* The check and the fill                                                  *)

LEMMA PricesAreNumbers == Prices \subseteq Nat /\ \A p \in Prices \cup {0} : p \in Int
  BY ExposureAssumption

\* The notionals of a book are whole numbers.
LEMMA NotionalsType ==
    ASSUME NEW book \in Books, NEW m \in Marks
    PROVE  Notionals(book, m) \in [Symbols -> Int]
  <1> SUFFICES ASSUME NEW s \in Symbols
               PROVE  book[s].qty * MarkOf(book, m, s) \in Int
    BY DEF Notionals
  <1>1. book[s].qty \in Int /\ book[s].avg \in Int
    BY PricesAreNumbers DEF Books
  <1>2. MarkOf(book, m, s) \in Int
    BY <1>1, PricesAreNumbers DEF MarkOf, Marks
  <1> QED
    BY <1>1, <1>2

\* When the notional of one symbol moves, so do the exposures.
LEMMA ExposuresMove ==
    ASSUME NEW f \in [Symbols -> Int], NEW g \in [Symbols -> Int],
           NEW s \in Symbols, \A t \in Symbols \ {s} : g[t] = f[t]
    PROVE  /\ NetExposure(f) \in Int /\ GrossExposure(f) \in Int
           /\ NetExposure(g) \in Int /\ GrossExposure(g) \in Int
           /\ NetExposure(g) = NetExposure(f) - f[s] + g[s]
           /\ GrossExposure(g) = GrossExposure(f) - Abs(f[s]) + Abs(g[s])
  <1> DEFINE F == [t \in Symbols |-> Abs(f[t])]
             G == [t \in Symbols |-> Abs(g[t])]
  <1>1. F \in [Symbols -> Int] /\ G \in [Symbols -> Int]
    BY DEF Abs
  <1>2. F[s] = Abs(f[s]) /\ G[s] = Abs(g[s]) /\ \A t \in Symbols \ {s} : G[t] = F[t]
    OBVIOUS
  <1>3. IsFiniteSet(Symbols)
    BY ExposureAssumption
  <1>4. /\ NetExposure(f) \in Int /\ NetExposure(g) \in Int
        /\ NetExposure(g) = NetExposure(f) - f[s] + g[s]
    BY <1>3, SumMoves DEF NetExposure
  <1>5. GrossExposure(f) = SumFunction(F) /\ GrossExposure(g) = SumFunction(G)
    BY DEF GrossExposure
  <1> HIDE DEF F, G
  <1>6. /\ SumFunction(F) \in Int /\ SumFunction(G) \in Int
        /\ SumFunction(G) = SumFunction(F) - F[s] + G[s]
    BY <1>1, <1>2, <1>3, SumMoves
  <1> QED
    BY <1>2, <1>4, <1>5, <1>6

\* A part of a move stays between no move and the whole of it.
LEMMA PartWithin ==
    ASSUME NEW n \in Int, NEW part \in Nat, NEW whole \in Nat, part <= whole,
           NEW sign \in {1, -1}
    PROVE  Abs(n + sign * part) <= Larger(Abs(n), Abs(n + sign * whole))
  BY DEF Abs, Larger

\* CheckCoversFill made inductive: from the check to the booking of the fill the
\* limits hold for the whole order with the ledger and the marks of the moment,
\* and the fill is a part of the order.
CheckedInv ==
    LET notional == Notionals(ledger, marks)
        whole == Sign(order.side) * (order.qty * order.ref)
    IN  /\ pc \in {"report", "book"} => report.filled <= order.qty
        /\ pc \in {"create", "report", "book"} =>
             /\ order.ref \in Prices
             /\ ProjectedGross(GrossExposure(notional),
                               notional[order.symbol], whole) <= MaxGross
             /\ Abs(NetExposure(notional) + whole) <= MaxNet

LEMMA CheckedInit == ASSUME Init PROVE CheckedInv
  BY DEF Init, CheckedInv

\* A step that leaves ledger, marks and order as they are keeps what was checked.
LEMMA CheckedKept ==
    ASSUME CheckedInv, ledger' = ledger, marks' = marks,
           order'.symbol = order.symbol, order'.side = order.side,
           order'.qty = order.qty, order'.ref = order.ref,
           pc' \in {"report", "book"} => report'.filled <= order.qty,
           pc' \in {"create", "report", "book"} =>
              pc \in {"create", "report", "book"}
    PROVE  CheckedInv'
  <1>1. Notionals(ledger, marks)' = Notionals(ledger, marks)
    BY DEF Notionals, MarkOf
  <1> QED
    BY <1>1, Zenon DEF CheckedInv

LEMMA CheckedStep ==
    ASSUME TypeOK, TypeOK', CheckedInv, [Next]_vars PROVE CheckedInv'
  <1>a. ASSUME pc' \notin {"create", "report", "book"} PROVE CheckedInv'
    BY <1>a DEF CheckedInv
  <1>1. ASSUME NEW o \in Requests, NEW m \in Marks, Submit(o, m)
        PROVE  CheckedInv'
    BY <1>1, <1>a DEF Submit, Accept
  <1>2. CASE RouteAndCheck
    <2>1. PICK ref \in Prices, q \in Precise(order.qty) :
            /\ order' = [order EXCEPT !.qty = q, !.ref = ref, !.status =
                           IF RiskAllows(ledger, marks, order.symbol,
                                         Sign(order.side), q, ref)
                           THEN "ROUTED" ELSE "REJECTED"]
            /\ IF RiskAllows(ledger, marks, order.symbol, Sign(order.side), q, ref)
               THEN pc' = "create" /\ UNCHANGED <<marks, report, breaches>>
               ELSE Return
      BY <1>2 DEF RouteAndCheck
    <2>2. CASE ~RiskAllows(ledger, marks, order.symbol, Sign(order.side), q, ref)
      BY <1>a, <2>1, <2>2 DEF Return
    <2>3. CASE RiskAllows(ledger, marks, order.symbol, Sign(order.side), q, ref)
      <3>1. /\ pc' = "create" /\ marks' = marks /\ ledger' = ledger
            /\ order'.symbol = order.symbol /\ order'.side = order.side
            /\ order'.qty = q /\ order'.ref = ref
        BY <1>2, <2>1, <2>3 DEF RouteAndCheck, TypeOK, Orders
      <3>2. Notionals(ledger, marks)' = Notionals(ledger, marks)
        BY <3>1 DEF Notionals, MarkOf
      <3> QED
        BY <2>3, <3>1, <3>2 DEF CheckedInv, RiskAllows
    <2> QED
      BY <2>2, <2>3
  <1>3. CASE CreateOrder
    <2>1. PICK filled \in 0 .. order.qty : report'.filled = filled
      BY <1>3 DEF CreateOrder
    <2>2. order \in Orders /\ order' = [order EXCEPT !.status = "SUBMITTED"]
      BY <1>3 DEF CreateOrder, TypeOK
    <2> QED
      BY <1>3, <2>1, <2>2, CheckedKept DEF CreateOrder, Orders
  <1>4. CASE RecordReport
    <2>1. order \in Orders /\ order' = [order EXCEPT !.status = report.status]
      BY <1>4 DEF RecordReport, TypeOK
    <2>2. report.filled <= order.qty
      BY <1>4 DEF RecordReport, CheckedInv
    <2> QED
      BY <1>4, <2>1, <2>2, CheckedKept DEF RecordReport, Orders
  <1>5. CASE RouteFails \/ CreateOrderRaises \/ RecordReportRaises
             \/ FillWithoutPrice \/ RecordTradeRaises \/ SaveStateRaises
    BY <1>5, <1>a
    DEF RouteFails, CreateOrderRaises, RecordReportRaises, FillWithoutPrice,
        RecordTradeRaises, SaveStateRaises, Fail, Return
  <1>6. CASE BookFill \/ NoFill \/ RecordTrade \/ ValidateBook \/ SaveState
             \/ PublishReport
    BY <1>6, <1>a
    DEF BookFill, NoFill, RecordTrade, ValidateBook, SaveState, PublishReport,
        Return
  <1>7. CASE DeliverReport \/ CrashAndRestart \/ StopAndRestart
    BY <1>7, <1>a
    DEF DeliverReport, CrashAndRestart, StopAndRestart, Restart, Return
  <1>8. ASSUME NEW s \in Symbols, NEW side \in Sides, LateFill(s, side)
        PROVE  CheckedInv'
    <2>1. pc' = pc /\ UNCHANGED memory
      BY <1>8 DEF LateFill
    <2>2. pc' \in {"report", "book"} => report'.filled <= order.qty
      BY <2>1 DEF memory, CheckedInv
    <2> QED
      BY <2>1, <2>2, CheckedKept DEF memory
  <1>9. CASE UNCHANGED vars
    <2>1. pc' = pc /\ UNCHANGED memory
      BY <1>9 DEF vars
    <2>2. pc' \in {"report", "book"} => report'.filled <= order.qty
      BY <2>1 DEF memory, CheckedInv
    <2> QED
      BY <2>1, <2>2, CheckedKept DEF memory
  <1> QED
    BY <1>1, <1>2, <1>3, <1>4, <1>5, <1>6, <1>7, <1>8, <1>9
    DEF Next, SubmitStep, Environment

\* Booking a fill, at the marks the check assumed, moves the notional of the
\* order's symbol by a part of what was checked.
LEMMA FillMovesNotional ==
    ASSUME TypeOK, TypeOK', BookFill, order.ref \in Prices,
           marks[order.symbol] = order.ref
    PROVE  LET before == Notionals(ledger, marks)
               after == Notionals(ledger', marks)
           IN  /\ \A t \in Symbols \ {order.symbol} : after[t] = before[t]
               /\ after[order.symbol] = before[order.symbol]
                    + Sign(order.side) * (report.filled * order.ref)
  <1> DEFINE s == order.symbol
  <1>1. PICK pos \in AfterFill(ledger[s], Delta, report.price) :
          ledger' = [ledger EXCEPT ![s] = pos]
    BY DEF BookFill
  <1>2. s \in Symbols /\ ledger \in Books /\ order.ref \in Int
    BY PricesAreNumbers DEF TypeOK, BookFill, Orders
  <1>3. report.filled \in Nat /\ report.price \in Prices /\ ledger[s].qty \in Int
    BY <1>2 DEF TypeOK, Reports, Books, BookFill
  <1>4. Delta \in Int
    BY <1>3 DEF Delta, Sign
  <1>5. pos.qty = ledger[s].qty + Delta
    <2>1. ledger[s] \in [qty : Int, avg : Prices \cup {0}]
      BY <1>2 DEF Books
    <2> HIDE DEF s
    <2> QED
      BY <2>1, <1>1, <1>3, <1>4, AfterFillMoves
  <1>6. ledger'[s].qty = ledger[s].qty + Delta /\ \A t \in Symbols \ {s} : ledger'[t] = ledger[t]
    BY <1>1, <1>2, <1>5 DEF Books
  <1>7. MarkOf(ledger, marks, s) = order.ref /\ MarkOf(ledger', marks, s) = order.ref
    <2>1. marks[s] = order.ref /\ order.ref # NoMark
      BY ExposureAssumption
    <2> QED
      BY <2>1 DEF MarkOf
  <1>8. (ledger[s].qty + Delta) * order.ref
          = ledger[s].qty * order.ref + Sign(order.side) * (report.filled * order.ref)
    BY <1>2, <1>3 DEF Delta, Sign
  <1> QED
    BY <1>2, <1>6, <1>7, <1>8 DEF Notionals, MarkOf

\* What a step that books a fill may do to the exposures.
Covered ==
    LET before == Notionals(ledger, marks)
        after == Notionals(ledger', marks)
    IN  pc = "book" /\ pc' = "trade" /\ marks[order.symbol] = order.ref =>
          /\ GrossExposure(after) <= Larger(MaxGross, GrossExposure(before))
          /\ Abs(NetExposure(after)) <= Larger(MaxNet, Abs(NetExposure(before)))

\* Every step of the specification keeps to it: the gross and the net exposure
\* move by a part of the order whose whole was checked.
LEMMA FillCovered ==
    ASSUME TypeOK, TypeOK', CheckedInv, [Next]_vars PROVE Covered
  <1> DEFINE before == Notionals(ledger, marks)
             after == Notionals(ledger', marks)
             s == order.symbol
             sign == Sign(order.side)
             part == report.filled * order.ref
             whole == order.qty * order.ref
  <1>1. SUFFICES ASSUME pc = "book", pc' = "trade", marks[order.symbol] = order.ref
                 PROVE  /\ GrossExposure(after)
                             <= Larger(MaxGross, GrossExposure(before))
                        /\ Abs(NetExposure(after))
                             <= Larger(MaxNet, Abs(NetExposure(before)))
    BY DEF Covered
  <1>2. BookFill
    BY <1>1
    DEF Next, Submit, Accept, SubmitStep, Environment, RouteFails, RouteAndCheck,
        CreateOrder, CreateOrderRaises, RecordReport, RecordReportRaises, NoFill,
        FillWithoutPrice, RecordTrade, RecordTradeRaises, ValidateBook, SaveState,
        SaveStateRaises, PublishReport, DeliverReport, LateFill, CrashAndRestart, StopAndRestart,
        Restart, Fail, Return, vars
  <1>3. s \in Symbols /\ order.ref \in Nat /\ order.qty \in Nat /\ report.filled \in Nat
    <2>1. order \in Orders /\ report \in Reports /\ order.ref \in Prices
      BY <1>1 DEF TypeOK, CheckedInv
    <2> QED
      BY <2>1, PricesAreNumbers DEF Orders, Reports
  <1>4. part \in Nat /\ whole \in Nat /\ part <= whole
    <2>1. report.filled <= order.qty
      BY <1>1 DEF CheckedInv
    <2>2. order.qty - report.filled \in Nat
      BY <1>3, <2>1
    <2>3. whole = part + (order.qty - report.filled) * order.ref
      BY <1>3
    <2>4. (order.qty - report.filled) * order.ref \in Nat
      BY <1>3, <2>2
    <2> QED
      BY <1>3, <2>3, <2>4
  <1>5. before \in [Symbols -> Int] /\ after \in [Symbols -> Int]
    BY NotionalsType DEF TypeOK
  <1>6. /\ \A t \in Symbols \ {s} : after[t] = before[t]
        /\ after[s] = before[s] + sign * part
    BY <1>1, <1>2, FillMovesNotional DEF CheckedInv
  <1>7. /\ ProjectedGross(GrossExposure(before), before[s], sign * whole) <= MaxGross
        /\ Abs(NetExposure(before) + sign * whole) <= MaxNet
    BY <1>1 DEF CheckedInv
  <1>8. sign \in {1, -1}
    BY DEF Sign
  <1> HIDE DEF before, after, s, sign, part, whole
  <1> DEFINE n == before[s]
             net == NetExposure(before)
             gross == GrossExposure(before)
  <1>9. /\ net \in Int /\ gross \in Int /\ n \in Int
        /\ NetExposure(after) = net - n + after[s]
        /\ GrossExposure(after) = gross - Abs(n) + Abs(after[s])
    BY <1>3, <1>5, <1>6, ExposuresMove DEF s
  <1>10. MaxGross \in Int /\ MaxNet \in Int
    BY ExposureAssumption
  <1>11. Abs(net + sign * part) <= Larger(Abs(net), Abs(net + sign * whole))
    BY <1>4, <1>8, <1>9, PartWithin
  <1>12. Abs(n + sign * part) <= Larger(Abs(n), Abs(n + sign * whole))
    BY <1>4, <1>8, <1>9, PartWithin
  <1>13. sign * part \in Int /\ sign * whole \in Int
    BY <1>4, <1>8
  <1> HIDE DEF n, net, gross
  <1>14. gross - Abs(n) + Abs(n + sign * whole) <= MaxGross /\ Abs(net + sign * whole) <= MaxNet
    BY <1>7 DEF n, net, gross, ProjectedGross
  <1>15. after[s] = n + sign * part
    BY <1>6 DEF n
  <1>16. Abs(NetExposure(after)) <= Larger(MaxNet, Abs(net))
    <2>1. NetExposure(after) = net + sign * part
      BY <1>9, <1>13, <1>15
    <2> QED
      BY <1>9, <1>10, <1>11, <1>13, <1>14, <2>1 DEF Larger, Abs
  <1>17. GrossExposure(after) <= Larger(MaxGross, gross)
    BY <1>9, <1>10, <1>12, <1>13, <1>14, <1>15 DEF Larger, Abs
  <1> QED
    BY <1>16, <1>17 DEF net, gross

\* The check of the whole order covers every part of it that is filled, for any
\* symbols, limits and prices: a fill, marked at the price the check assumed,
\* takes neither exposure above both its limit and where it was
\* (risk/pre_trade_risk.py, execution/fill_processor.py).
THEOREM FillsCovered == Spec => CheckCoversFill
  <1>1. Spec => []CheckedInv
    BY TypeCorrect, CheckedInit, CheckedStep, PTL DEF Spec
  <1>2. Spec => [][Covered]_vars
    BY <1>1, TypeCorrect, FillCovered, PTL DEF Spec
  <1> QED
    BY <1>2 DEF CheckCoversFill, Covered
=============================================================================
