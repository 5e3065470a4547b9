--------------------------- MODULE Backtest_proofs ---------------------------
(***************************************************************************)
(* Proofs about Backtest, for any symbols and times, and any length of the *)
(* file and number of orders.                                              *)
(***************************************************************************)
EXTENDS Backtest, FiniteSetTheorems, SequenceTheorems, TLAPS

Request == [type : {"ORDER_REQUEST"}, symbol : Symbols, side : Sides,
            kind : OrderTypes, record : Nat]
Fill == [order : Request, quote : Nat, latest : Nat]

\* Requests that the record handled last has led to.
Latest == {r \in Request : r.record = next - 1}

\* The types that do not rest on a bound of the orders.
Base ==
    /\ file \in Files
    /\ next \in 1 .. MaxRecords + 1
    /\ lastTime \in Times \cup {None}
    /\ running \in BOOLEAN /\ crashed \in BOOLEAN
    /\ ticks \in [Symbols -> 0 .. MaxRecords]
    /\ books \in [Symbols -> 0 .. MaxRecords]
    /\ orders \in 0 .. MaxOrders /\ resting \in Nat
    /\ position \in [Symbols -> Int]
    /\ fills \in Seq(Fill)
    /\ main \in {"RECORDING", "SETTLING", "STOPPED"}
    /\ point \in [Symbols -> -MaxOrders .. MaxOrders]

\* The quotes are of records that were handled.
Past == \A s \in Symbols : ticks[s] <= next - 1 /\ books[s] <= next - 1

\* The queue holds what the last record led to: its event, or the requests that
\* the strategy answered it with.
OneCause ==
    \/ bus = << >>
    \/ \E s \in Symbols :
          bus = << [type |-> "MARKET_TICK", symbol |-> s, record |-> next - 1] >>
    \/ bus = << [type |-> "ORDERBOOK_SNAPSHOT"] >>
    \/ bus \in Seq(Latest)

\* Every order is filled, left open, rejected or still in the queue.
Counted ==
    /\ Len(fills) + resting <= orders
    /\ OldestIs("ORDER_REQUEST") => Len(fills) + resting + Len(bus) <= orders

\* The positions are the sum of the fills.
Summed ==
    \A s \in Symbols : position[s] = Signed(s, "BUY") - Signed(s, "SELL")

\* What is over when run goes on.
Ended ==
    /\ ~running => bus = << >> /\ AtEnd
    /\ main # "RECORDING" => ~running
    /\ main = "STOPPED" => point = position

-----------------------------------------------------------------------------
(* Facts about sequences and sets                                          *)

LEMMA Bounds == MaxRecords \in Nat \ {0} /\ MaxOrders \in Nat
BY BacktestAssumption

LEMMA SameInterval ==
    ASSUME NEW a \in Nat, NEW b \in Nat, 1 .. a = 1 .. b
    PROVE  a = b
<1>1. CASE a < b
  <2>1. b \in 1 .. b /\ b \notin 1 .. a
    BY <1>1
  <2> QED BY <2>1
<1>2. CASE b < a
  <2>1. a \in 1 .. a /\ a \notin 1 .. b
    BY <1>2
  <2> QED BY <2>1
<1> QED BY <1>1, <1>2

\* A queue from which an event was taken had one.
LEMMA EmptyOrLonger ==
    \A n \in Nat : n - 1 \in Nat => n >= 1
OBVIOUS

LEMMA FileType ==
    ASSUME file \in Files
    PROVE  file \in Seq(Records) /\ Len(file) \in 1 .. MaxRecords
<1>1. PICK n \in 1 .. MaxRecords : file \in [1 .. n -> Records]
  BY DEF Files
<1>2. n \in Nat
  BY <1>1, Bounds
<1>3. file \in Seq(Records)
  BY <1>1, <1>2, SeqDef
<1>4. DOMAIN file = 1 .. Len(file) /\ DOMAIN file = 1 .. n /\ Len(file) \in Nat
  BY <1>1, <1>3, LenProperties
<1>5. Len(file) = n
  BY <1>2, <1>4, SameInterval
<1> QED BY <1>1, <1>3, <1>5

\* The fills of a symbol on one side, of which Signed counts the number.
Matching(fs, s, side) ==
    {i \in 1 .. Len(fs) : fs[i].order.symbol = s /\ fs[i].order.side = side}

LEMMA MatchingFinite ==
    ASSUME NEW fs \in Seq(Fill), NEW s, NEW side
    PROVE  /\ IsFiniteSet(Matching(fs, s, side))
           /\ Cardinality(Matching(fs, s, side)) \in 0 .. Len(fs)
<1>1. Len(fs) \in Nat
  BY LenProperties
<1>2. IsFiniteSet(1 .. Len(fs)) /\ Cardinality(1 .. Len(fs)) = Len(fs)
  BY <1>1, FS_Interval
<1>3. Matching(fs, s, side) \in SUBSET (1 .. Len(fs))
  BY DEF Matching
<1>4. /\ IsFiniteSet(Matching(fs, s, side))
      /\ Cardinality(Matching(fs, s, side)) <= Cardinality(1 .. Len(fs))
  BY <1>2, <1>3, FS_Subset
<1>5. Cardinality(Matching(fs, s, side)) \in Nat
  BY <1>4, FS_CardinalityType
<1> QED BY <1>1, <1>2, <1>4, <1>5

\* A further fill adds one to its symbol and side.
LEMMA MatchingAppend ==
    ASSUME NEW fs \in Seq(Fill), NEW f \in Fill, NEW s, NEW side
    PROVE  Cardinality(Matching(Append(fs, f), s, side)) =
             Cardinality(Matching(fs, s, side)) +
               (IF f.order.symbol = s /\ f.order.side = side THEN 1 ELSE 0)
<1> DEFINE more == Append(fs, f)
           n == Len(fs)
           old == Matching(fs, s, side)
<1>1. n \in Nat /\ Len(more) = n + 1 /\ more[n + 1] = f
  BY AppendProperties, LenProperties
<1>2. \A i \in 1 .. n : more[i] = fs[i]
  BY AppendProperties
<1>3. IsFiniteSet(old) /\ Cardinality(old) \in Nat
  BY MatchingFinite, <1>1
<1> HIDE DEF more
<1>4. n + 1 \notin old
  BY <1>1 DEF Matching
<1>5. CASE f.order.symbol = s /\ f.order.side = side
  <2>1. Matching(more, s, side) = old \cup {n + 1}
    BY <1>1, <1>2, <1>5 DEF Matching
  <2>2. Cardinality(old \cup {n + 1}) = Cardinality(old) + 1
    BY <1>3, <1>4, FS_AddElement
  <2> QED BY <1>5, <2>1, <2>2 DEF more
<1>6. CASE ~(f.order.symbol = s /\ f.order.side = side)
  <2>1. Matching(more, s, side) = old
    BY <1>1, <1>2, <1>6 DEF Matching
  <2> QED BY <1>3, <1>6, <2>1 DEF more
<1> QED BY <1>5, <1>6

LEMMA SignedIs ==
    \A s, side : Signed(s, side) = Cardinality(Matching(fills, s, side))
BY DEF Signed, Matching

\* A position is at most the number of fills away from nothing.
LEMMA PositionBound ==
    ASSUME Base, Summed, Counted, NEW s \in Symbols
    PROVE  position[s] \in -MaxOrders .. MaxOrders
<1>1. /\ Signed(s, "BUY") \in 0 .. Len(fills)
      /\ Signed(s, "SELL") \in 0 .. Len(fills)
  BY SignedIs, MatchingFinite DEF Base
<1>2. position[s] = Signed(s, "BUY") - Signed(s, "SELL")
  BY DEF Summed
<1>3. Len(fills) \in 0 .. MaxOrders
  <2>1. Len(fills) \in Nat
    BY LenProperties DEF Base
  <2>2. resting \in Nat /\ orders \in 0 .. MaxOrders /\ Len(fills) + resting <= orders
    BY DEF Base, Counted
  <2> QED BY <2>1, <2>2, Bounds
<1> HIDE DEF Signed
<1> QED BY <1>1, <1>2, <1>3, Bounds

-----------------------------------------------------------------------------
(* The invariant                                                           *)

IInv == Base /\ Past /\ OneCause /\ Counted /\ Summed /\ Ended /\ NoLookAhead

LEMMA InvInit == Init => IInv
<1> SUFFICES ASSUME Init
             PROVE  IInv
  OBVIOUS
<1>1. << >> \in Seq(Fill) /\ Len(<< >>) = 0
  BY EmptySeq
<1>2. Base
  <2>1. 0 \in 0 .. MaxRecords /\ 0 \in 0 .. MaxOrders /\ 0 \in -MaxOrders .. MaxOrders
        /\ 1 \in 1 .. MaxRecords + 1 /\ 0 \in Nat /\ 0 \in Int
    BY Bounds
  <2>2. running \in BOOLEAN /\ crashed \in BOOLEAN
    BY DEF Init
  <2> QED BY <1>1, <2>1, <2>2 DEF Init, Base
<1>3. Past
  BY DEF Init, Past
<1>4. OneCause /\ Counted
  BY <1>1 DEF Init, OneCause, Counted, OldestIs
<1>5. Summed
  <2>1. \A s, side : Matching(fills, s, side) = {}
    BY <1>1 DEF Init, Matching
  <2>2. \A s, side : Signed(s, side) = 0
    BY <2>1, SignedIs, FS_EmptySet
  <2> HIDE DEF Signed
  <2> QED BY <2>2 DEF Init, Summed
<1>6. Ended
  BY DEF Init, Ended
<1>7. NoLookAhead
  BY <1>1 DEF Init, NoLookAhead
<1> QED BY <1>2, <1>3, <1>4, <1>5, <1>6, <1>7 DEF IInv

\* The four forms of the queue tell its oldest event.
LEMMA Oldest ==
    ASSUME Base, OneCause, bus # << >>
    PROVE  /\ OldestIs("MARKET_TICK") =>
                \E s \in Symbols :
                   bus = << [type |-> "MARKET_TICK", symbol |-> s,
                             record |-> next - 1] >>
           /\ OldestIs("ORDERBOOK_SNAPSHOT") => bus = << [type |-> "ORDERBOOK_SNAPSHOT"] >>
           /\ OldestIs("ORDER_REQUEST") => bus \in Seq(Latest)
           /\ bus \in Seq(Latest) => Head(bus) \in Latest /\ OldestIs("ORDER_REQUEST")
<1>1. CASE \E s \in Symbols :
             bus = << [type |-> "MARKET_TICK", symbol |-> s, record |-> next - 1] >>
  <2>1. Head(bus).type = "MARKET_TICK"
    BY <1>1
  <2>2. bus \notin Seq(Latest)
    <3>1. bus \in Seq(Latest) => Head(bus) \in Latest
      BY HeadTailProperties
    <3> QED BY <2>1, <3>1 DEF Latest, Request
  <2> QED BY <1>1, <2>1, <2>2 DEF OldestIs
<1>2. CASE bus = << [type |-> "ORDERBOOK_SNAPSHOT"] >>
  <2>1. Head(bus).type = "ORDERBOOK_SNAPSHOT"
    BY <1>2
  <2>2. bus \notin Seq(Latest)
    <3>1. bus \in Seq(Latest) => Head(bus) \in Latest
      BY HeadTailProperties
    <3> QED BY <2>1, <3>1 DEF Latest, Request
  <2> QED BY <1>2, <2>1, <2>2 DEF OldestIs
<1>3. CASE bus \in Seq(Latest)
  <2>1. Head(bus) \in Latest
    BY <1>3, HeadTailProperties
  <2>2. Head(bus).type = "ORDER_REQUEST"
    BY <2>1 DEF Latest, Request
  <2> QED BY <1>3, <2>1, <2>2 DEF OldestIs
<1> QED BY <1>1, <1>2, <1>3 DEF OneCause

-----------------------------------------------------------------------------
(* A record                                                                *)

LEMMA StepRecord == IInv /\ ReplayRecord => IInv'
<1> SUFFICES ASSUME IInv, ReplayRecord
             PROVE  IInv'
  OBVIOUS
<1> USE DEF IInv
<1>1. /\ bus = << >> /\ ~AtEnd /\ running /\ next' = next + 1
      /\ UNCHANGED <<file, running, crashed, resting, orders, position, fills,
                     main, point>>
  BY DEF ReplayRecord, BusIdle
<1>2. next \in 1 .. MaxRecords /\ next \in 1 .. Len(file)
  <2>1. Len(file) \in 1 .. MaxRecords
    BY FileType DEF Base
  <2>2. next \in 1 .. MaxRecords + 1 /\ ~(next > Len(file))
    BY <1>1 DEF Base, AtEnd
  <2> QED BY <2>1, <2>2, Bounds
<1>3. Record \in Records
  BY <1>2, FileType, ElementOfSeq DEF Record, Base
<1>4. /\ next \in Nat /\ next' \in 1 .. MaxRecords + 1 /\ next' - 1 = next
      /\ \A s \in Symbols : ticks[s] \in 0 .. MaxRecords /\ books[s] \in 0 .. MaxRecords
      /\ \A s \in Symbols : ticks[s] < next /\ books[s] < next
  BY <1>1, <1>2, Bounds DEF Base, Past
<1>5. /\ lastTime' \in Times \cup {None}
      /\ ticks' \in [Symbols -> 0 .. MaxRecords]
      /\ books' \in [Symbols -> 0 .. MaxRecords]
      /\ Past' /\ OneCause'
      /\ ~OldestIs("ORDER_REQUEST")'
  <2>1. CASE ~InOrder
    <3>1. UNCHANGED <<lastTime, ticks, books, bus>>
      BY <2>1 DEF ReplayRecord
    <3> QED BY <1>1, <1>4, <3>1 DEF Base, Past, OneCause, OldestIs
  <2>2. CASE InOrder /\ Record.kind = "TICK"
    <3> DEFINE s == Record.symbol
    <3>1. s \in Symbols /\ Record.time \in Times
      BY <1>3 DEF Records
    <3>2. /\ lastTime' = Record.time /\ UNCHANGED books
          /\ ticks' = [ticks EXCEPT ![s] = next]
          /\ bus' = Append(bus, [type |-> "MARKET_TICK", symbol |-> s, record |-> next])
      BY <2>2 DEF ReplayRecord, Handle
    <3>3. bus' = << [type |-> "MARKET_TICK", symbol |-> s, record |-> next' - 1] >>
      BY <1>1, <1>4, <3>2
    <3>4. ticks' \in [Symbols -> 0 .. MaxRecords]
      <4>1. next \in 0 .. MaxRecords
        BY <1>2, Bounds
      <4> QED BY <3>1, <3>2, <4>1 DEF Base
    <3>5. \A t \in Symbols : ticks'[t] = IF t = s THEN next ELSE ticks[t]
      BY <3>1, <3>2 DEF Base
    <3>6. Past' /\ OneCause'
      <4> HIDE DEF s
      <4>4. \A t \in Symbols : ticks'[t] <= next /\ books'[t] <= next
        <5> SUFFICES ASSUME NEW t \in Symbols
                     PROVE  ticks'[t] <= next /\ books'[t] <= next
          OBVIOUS
        <5>1. ticks[t] <= next /\ books[t] <= next /\ next <= next
          BY <1>4
        <5> QED BY <3>2, <3>5, <5>1
      <4>1. Past'
        BY <1>4, <4>4 DEF Past
      <4>3. OneCause'
        BY <3>1, <3>3 DEF OneCause
      <4> QED BY <4>1, <4>3
    <3>7. ~OldestIs("ORDER_REQUEST")'
      BY <3>3 DEF OldestIs
    <3> QED BY <3>1, <3>2, <3>4, <3>6, <3>7 DEF Base
  <2>3. CASE InOrder /\ Record.kind = "BOOK"
    <3> DEFINE s == Record.symbol
    <3>1. s \in Symbols /\ Record.time \in Times
      BY <1>3 DEF Records
    <3>2. /\ lastTime' = Record.time /\ UNCHANGED ticks
          /\ books' = [books EXCEPT ![s] = next]
          /\ bus' = Append(bus, [type |-> "ORDERBOOK_SNAPSHOT"])
      BY <2>3 DEF ReplayRecord, Handle
    <3>3. bus' = << [type |-> "ORDERBOOK_SNAPSHOT"] >>
      BY <1>1, <3>2
    <3>4. books' \in [Symbols -> 0 .. MaxRecords]
      BY <1>2, <3>1, <3>2 DEF Base
    <3>5. Past'
      <4>1. \A t \in Symbols : books'[t] = IF t = s THEN next ELSE books[t]
        BY <3>1, <3>2 DEF Base
      <4> HIDE DEF s
      <4>2. \A t \in Symbols : ticks'[t] <= next /\ books'[t] <= next
        <5> SUFFICES ASSUME NEW t \in Symbols
                     PROVE  ticks'[t] <= next /\ books'[t] <= next
          OBVIOUS
        <5>1. ticks[t] <= next /\ books[t] <= next /\ next <= next
          BY <1>4
        <5> QED BY <3>2, <4>1, <5>1
      <4> QED BY <1>4, <4>2 DEF Past
    <3>6. OneCause' /\ ~OldestIs("ORDER_REQUEST")'
      BY <3>3 DEF OneCause, OldestIs
    <3> QED BY <3>1, <3>2, <3>4, <3>5, <3>6 DEF Base
  <2>4. CASE InOrder /\ Record.kind \notin {"TICK", "BOOK"}
    <3>1. UNCHANGED <<ticks, books, bus>> /\ lastTime' = Record.time
      BY <2>4 DEF ReplayRecord, Handle
    <3>2. Record.time \in Times
      BY <1>3 DEF Records
    <3> QED BY <1>1, <1>4, <3>1, <3>2 DEF Base, Past, OneCause, OldestIs
  <2> QED BY <2>1, <2>2, <2>3, <2>4
<1>6. Base'
  BY <1>1, <1>4, <1>5 DEF Base
<1>7. Counted'
  BY <1>1, <1>5 DEF Counted
<1>8. Summed' /\ NoLookAhead'
  BY <1>1 DEF Summed, Signed, NoLookAhead
<1>9. Ended'
  BY <1>1 DEF Ended
<1> QED BY <1>5, <1>6, <1>7, <1>8, <1>9

-----------------------------------------------------------------------------
(* The bus                                                                 *)

\* Answers to a tick are requests that the last record has led to.
LEMMA AnswersType ==
    ASSUME Base, NEW s \in Symbols,
           bus = << [type |-> "MARKET_TICK", symbol |-> s, record |-> next - 1] >>,
           NEW requests \in Answers
    PROVE  requests \in Seq(Latest) /\ Len(requests) \in 0 .. MaxOrders - orders
<1>1. Head(bus).record = next - 1 /\ next - 1 \in Nat
  BY Bounds DEF Base
<1>2. Requests \subseteq Latest
  BY <1>1 DEF Requests, Latest, Request
<1>3. PICK n \in 0 .. MaxOrders - orders : requests \in [1 .. n -> Requests]
  BY DEF Answers
<1>4. n \in Nat
  BY <1>3, Bounds DEF Base
<1>5. requests \in [1 .. n -> Latest]
  BY <1>2, <1>3
<1>6. requests \in Seq(Latest)
  BY <1>4, <1>5, SeqDef
<1>7. Len(requests) = n
  <2>1. DOMAIN requests = 1 .. n /\ DOMAIN requests = 1 .. Len(requests)
        /\ Len(requests) \in Nat
    BY <1>5, <1>6, LenProperties
  <2> QED BY <1>4, <2>1, SameInterval
<1> QED BY <1>3, <1>6, <1>7

LEMMA StepTick == IInv /\ main # "STOPPED" /\ OnMarketTick => IInv'
<1> SUFFICES ASSUME IInv, main # "STOPPED", OnMarketTick
             PROVE  IInv'
  OBVIOUS
<1> USE DEF IInv, replay, exchange
<1>1. bus # << >> /\ OldestIs("MARKET_TICK")
  BY DEF OnMarketTick, OldestIs
<1>2. PICK s \in Symbols :
        bus = << [type |-> "MARKET_TICK", symbol |-> s, record |-> next - 1] >>
  BY <1>1, Oldest
<1>3. PICK requests \in Answers :
        /\ bus' = Tail(bus) \o requests
        /\ orders' = orders + Len(requests)
  BY DEF OnMarketTick
<1>4. requests \in Seq(Latest) /\ Len(requests) \in 0 .. MaxOrders - orders
  BY <1>2, AnswersType
<1>5. Tail(bus) = << >>
  BY <1>2
<1>6. bus' = requests
  BY <1>3, <1>4, <1>5, ConcatEmptySeq
<1>7. UNCHANGED <<file, next, lastTime, running, crashed, ticks, books, resting,
                  position, fills, main, point>>
  BY DEF OnMarketTick
<1>8. orders' \in 0 .. MaxOrders /\ orders' = orders + Len(requests)
  BY <1>3, <1>4, Bounds DEF Base
<1>9. Base'
  BY <1>7, <1>8 DEF Base
<1>10. Past' /\ Summed' /\ NoLookAhead'
  BY <1>7 DEF Past, Summed, Signed, NoLookAhead
<1>11. OneCause'
  <2>1. Latest' = Latest
    BY <1>7 DEF Latest
  <2> QED BY <1>4, <1>6, <2>1 DEF OneCause
<1>12. Counted'
  <2>1. Len(fills) \in Nat /\ resting \in Nat /\ orders \in Nat /\ Len(requests) \in Nat
    BY <1>4, LenProperties DEF Base
  <2>2. Len(fills) + resting <= orders
    BY DEF Counted
  <2> QED BY <1>6, <1>7, <1>8, <2>1, <2>2 DEF Counted
<1>13. Ended'
  BY <1>1, <1>7 DEF Ended, AtEnd
<1> QED BY <1>9, <1>10, <1>11, <1>12, <1>13

LEMMA StepBook == IInv /\ OnOrderBook => IInv'
<1> SUFFICES ASSUME IInv, OnOrderBook
             PROVE  IInv'
  OBVIOUS
<1> USE DEF IInv, replay, exchange
<1>1. bus # << >> /\ OldestIs("ORDERBOOK_SNAPSHOT")
  BY DEF OnOrderBook, OldestIs
<1>2. bus = << [type |-> "ORDERBOOK_SNAPSHOT"] >>
  BY <1>1, Oldest
<1>3. bus' = << >>
  BY <1>2 DEF OnOrderBook
<1>4. UNCHANGED <<file, next, lastTime, running, crashed, ticks, books, resting,
                  orders, position, fills, main, point>>
  BY DEF OnOrderBook
<1>5. Base' /\ Past'
  BY <1>4 DEF Base, Past
<1>6. OneCause' /\ Counted'
  BY <1>3, <1>4 DEF OneCause, Counted, OldestIs
<1>7. Summed' /\ NoLookAhead'
  BY <1>4 DEF Summed, Signed, NoLookAhead
<1>8. Ended'
  BY <1>1, <1>3, <1>4 DEF Ended, AtEnd
<1> QED BY <1>5, <1>6, <1>7, <1>8

\* A request that is filled: one more fill, at a quote of the past.
LEMMA StepRequest == IInv /\ main # "STOPPED" /\ OnOrderRequest => IInv'
<1> SUFFICES ASSUME IInv, main # "STOPPED", OnOrderRequest
             PROVE  IInv'
  OBVIOUS
<1> USE DEF IInv, replay
<1>1. bus # << >> /\ OldestIs("ORDER_REQUEST")
  BY DEF OnOrderRequest, OldestIs
<1>2. bus \in Seq(Latest)
  BY <1>1, Oldest
<1> DEFINE o == Head(bus)
<1>3. o \in Request /\ o.record = next - 1
  BY <1>1, <1>2, HeadTailProperties DEF Latest
<1>4. o.symbol \in Symbols /\ o.side \in {"BUY", "SELL"} /\ o.record \in Nat
  BY <1>3 DEF Request, Sides
<1>5. /\ bus' = Tail(bus)
      /\ UNCHANGED <<file, next, lastTime, running, crashed, ticks, books, orders,
                     main, point>>
  BY DEF OnOrderRequest
<1>6. bus' \in Seq(Latest) /\ Len(bus') = Len(bus) - 1 /\ Len(bus) \in Nat
  BY <1>1, <1>2, <1>5, HeadTailProperties, LenProperties
<1>7. OneCause'
  <2>1. Latest' = Latest
    BY <1>5 DEF Latest
  <2> QED BY <1>6, <2>1 DEF OneCause
<1>8. Past'
  BY <1>5 DEF Past
<1>9. Ended'
  BY <1>1, <1>5 DEF Ended
<1>10. /\ Len(fills) \in Nat /\ resting \in Nat /\ orders \in Nat
       /\ Len(fills) + resting + Len(bus) <= orders
  BY <1>1, LenProperties, Bounds DEF Base, Counted
<1>11. CASE Rejected
  <2>1. UNCHANGED <<position, fills, resting>>
    BY <1>11 DEF Rejected
  <2>2. Base' /\ Summed' /\ NoLookAhead'
    BY <1>5, <2>1 DEF Base, Summed, Signed, NoLookAhead
  <2>3. Counted'
    BY <1>5, <1>6, <1>10, <2>1 DEF Counted
  <2> QED BY <1>7, <1>8, <1>9, <2>2, <2>3
<1>12. CASE UNCHANGED <<position, fills>> /\ resting' = resting + 1
  <2>1. Base'
    <3>1. resting' \in Nat
      BY <1>10, <1>12
    <3> QED BY <1>5, <1>12, <3>1 DEF Base
  <2>3. Summed' /\ NoLookAhead'
    BY <1>12 DEF Summed, Signed, NoLookAhead
  <2>2. Counted'
    BY <1>5, <1>6, <1>10, <1>12, EmptyOrLonger DEF Counted
  <2> QED BY <1>7, <1>8, <1>9, <2>1, <2>2, <2>3
<1> DEFINE f(q) == [order |-> o, quote |-> q, latest |-> next - 1]
           change == IF o.side = "BUY" THEN 1 ELSE -1
<1>13. ASSUME NEW q \in Quotes(o.symbol),
              position' = [position EXCEPT ![o.symbol] = @ + change],
              fills' = Append(fills, f(q)),
              UNCHANGED resting
       PROVE  IInv'
  <2>1. q \in Nat /\ q <= o.record /\ next - 1 \in Nat
    <3>1. q = books[o.symbol] \/ q = ticks[o.symbol]
      BY <1>13 DEF Quotes
    <3>2. next - 1 \in Nat
      BY <1>3 DEF Request
    <3> QED BY <1>3, <1>4, <3>1, <3>2 DEF Past, Base
  <2>2. f(q) \in Fill
    BY <1>3, <2>1 DEF Fill
  <2>3. fills' \in Seq(Fill) /\ Len(fills') = Len(fills) + 1
        /\ (\A i \in 1 .. Len(fills) : fills'[i] = fills[i])
        /\ fills'[Len(fills) + 1] = f(q)
    BY <1>13, <2>2, AppendProperties DEF Base
  <2>4. position' \in [Symbols -> Int]
    BY <1>4, <1>13 DEF Base
  <2>5. Base'
    BY <1>5, <1>13, <2>3, <2>4 DEF Base
  <2>6. NoLookAhead'
    <3> SUFFICES ASSUME NEW i \in 1 .. Len(fills')
                 PROVE  fills'[i].latest = fills'[i].order.record
                        /\ fills'[i].quote <= fills'[i].order.record
      BY DEF NoLookAhead
    <3>1. CASE i \in 1 .. Len(fills)
      BY <2>3, <3>1 DEF NoLookAhead
    <3>2. CASE i = Len(fills) + 1
      <4>1. fills'[i] = f(q)
        BY <2>3, <3>2
      <4> QED BY <1>3, <2>1, <4>1
    <3> QED BY <1>10, <2>3, <3>1, <3>2
  <2>7. Summed'
    <3> SUFFICES ASSUME NEW s \in Symbols
                 PROVE  position'[s] = Signed(s, "BUY")' - Signed(s, "SELL")'
      BY DEF Summed
    <3>1. \A side : Signed(s, side)' =
            Signed(s, side) + (IF o.symbol = s /\ o.side = side THEN 1 ELSE 0)
      <4>1. \A side : Signed(s, side)' = Cardinality(Matching(fills', s, side))
        BY DEF Signed, Matching
      <4>2. \A side : Cardinality(Matching(fills', s, side)) =
              Cardinality(Matching(fills, s, side)) +
                (IF f(q).order.symbol = s /\ f(q).order.side = side THEN 1 ELSE 0)
        BY <1>13, <2>2, MatchingAppend DEF Base
      <4> HIDE DEF Signed
      <4> QED BY <4>1, <4>2, SignedIs
    <3>2. /\ Signed(s, "BUY") \in Int /\ Signed(s, "SELL") \in Int
          /\ position[s] = Signed(s, "BUY") - Signed(s, "SELL")
      <4>1. /\ Signed(s, "BUY") \in 0 .. Len(fills)
            /\ Signed(s, "SELL") \in 0 .. Len(fills)
        BY SignedIs, MatchingFinite DEF Base
      <4> QED BY <4>1 DEF Summed
    <3>3. position'[s] = IF s = o.symbol THEN position[s] + change ELSE position[s]
      BY <1>4, <1>13 DEF Base
    <3> HIDE DEF Signed, o
    <3>4. CASE s = o.symbol
      <4>1. CASE o.side = "BUY"
        BY <3>1, <3>2, <3>3, <3>4, <4>1
      <4>2. CASE o.side = "SELL"
        BY <3>1, <3>2, <3>3, <3>4, <4>2
      <4> QED BY <1>4, <4>1, <4>2
    <3>5. CASE s # o.symbol
      BY <3>1, <3>2, <3>3, <3>5
    <3> QED BY <3>4, <3>5
  <2>8. Counted'
    BY <1>5, <1>6, <1>10, <1>13, <2>3, EmptyOrLonger DEF Counted
  <2> QED BY <1>7, <1>8, <1>9, <2>5, <2>6, <2>7, <2>8
<1>14. Rejected \/ Execute(o)
  BY DEF OnOrderRequest
<1> QED
  <2>1. CASE Rejected
    BY <2>1, <1>11
  <2>2. CASE Execute(o)
    <3>1. \/ \E q \in Quotes(o.symbol) :
                /\ position' = [position EXCEPT ![o.symbol] = @ + change]
                /\ fills' = Append(fills, f(q))
                /\ UNCHANGED resting
          \/ UNCHANGED <<position, fills>> /\ resting' = resting + 1
      BY <2>2 DEF Execute
    <3> QED BY <3>1, <1>12, <1>13
  <2> QED BY <1>14, <2>1, <2>2

-----------------------------------------------------------------------------
(* The remaining steps                                                     *)

LEMMA StepPoint == IInv /\ (RecordPoint \/ Settle \/ Finish) => IInv'
<1> SUFFICES ASSUME IInv, RecordPoint \/ Settle \/ Finish
             PROVE  IInv'
  OBVIOUS
<1> USE DEF IInv, replay, exchange
<1>1. /\ UNCHANGED <<file, next, lastTime, running, crashed, ticks, books, resting,
                     bus, orders, position, fills>>
      /\ main' \in {"RECORDING", "SETTLING", "STOPPED"}
      /\ point' \in {point, position}
  BY DEF RecordPoint, Settle, Finish, Base
<1>2. position \in [Symbols -> -MaxOrders .. MaxOrders]
  BY PositionBound DEF Base
<1>3. Base'
  BY <1>1, <1>2 DEF Base
<1>4. Past' /\ OneCause' /\ Counted' /\ Summed' /\ NoLookAhead'
  BY <1>1 DEF Past, OneCause, Latest, Counted, OldestIs, Summed, Signed, NoLookAhead
<1>5. Ended'
  <2>1. CASE RecordPoint
    BY <2>1 DEF RecordPoint, Ended, AtEnd
  <2>2. CASE Settle
    BY <2>2 DEF Settle, Ended, AtEnd
  <2>3. CASE Finish
    BY <2>3 DEF Finish, Ended, AtEnd
  <2> QED BY <2>1, <2>2, <2>3
<1> QED BY <1>3, <1>4, <1>5

\* The replay task ends, on a line that is rejected or at the end of the file.
LEMMA StepReplayEnds == IInv /\ (ReplayLineRejected \/ ReplayEnds) => IInv'
<1> SUFFICES ASSUME IInv, ReplayLineRejected \/ ReplayEnds
             PROVE  IInv'
  OBVIOUS
<1> USE DEF IInv, exchange
<1>1. /\ bus = << >> /\ running
      /\ UNCHANGED <<file, next, lastTime, ticks, books, resting, bus, orders,
                     position, fills, main, point>>
  BY DEF ReplayLineRejected, ReplayEnds, BusIdle
<1>2. running' \in BOOLEAN /\ crashed' \in BOOLEAN
  BY DEF ReplayLineRejected, ReplayEnds, Base
<1>3. Base'
  BY <1>1, <1>2 DEF Base
<1>4. Past' /\ OneCause' /\ Counted' /\ Summed' /\ NoLookAhead'
  BY <1>1 DEF Past, OneCause, Latest, Counted, OldestIs, Summed, Signed, NoLookAhead
<1>5. Ended'
  <2>1. CASE ReplayLineRejected
    BY <1>1, <2>1 DEF ReplayLineRejected, Ended, AtEnd
  <2>2. CASE ReplayEnds
    BY <1>1, <2>2 DEF ReplayEnds, Ended, AtEnd
  <2> QED BY <2>1, <2>2
<1> QED BY <1>3, <1>4, <1>5

LEMMA InvStep == IInv /\ [Next]_vars => IInv'
<1> SUFFICES ASSUME IInv, [Next]_vars
             PROVE  IInv'
  OBVIOUS
<1>1. CASE ReplayStep
  BY <1>1, StepRecord, StepReplayEnds DEF ReplayStep
<1>2. CASE BusStep
  BY <1>2, StepTick, StepBook, StepRequest DEF BusStep
<1>3. CASE RecordPoint \/ Settle \/ Finish
  BY <1>3, StepPoint
<1>4. CASE UNCHANGED vars
  BY <1>4 DEF vars, replay, exchange, IInv, Base, Past, OneCause, Latest, Counted,
              OldestIs, Summed, Signed, Ended, AtEnd, NoLookAhead
<1> QED BY <1>1, <1>2, <1>3, <1>4 DEF Next

LEMMA InvHolds == Init /\ [][Next]_vars => []IInv
BY InvInit, InvStep, PTL

-----------------------------------------------------------------------------
(* What follows                                                            *)

\* Every variable keeps its type, and the orders their bound, in every backtest
\* (backtesting/backtest_runtime.py:170-223).
THEOREM BacktestTyped == FairSpec => []TypeOK
<1>1. IInv => TypeOK
  <2> SUFFICES ASSUME IInv
               PROVE  TypeOK
    OBVIOUS
  <2> USE DEF IInv
  <2>1. position \in [Symbols -> -MaxOrders .. MaxOrders]
    BY PositionBound DEF Base
  <2>2. /\ Len(fills) \in Nat /\ resting \in Nat /\ orders \in 0 .. MaxOrders
        /\ Len(fills) + resting <= orders
    BY LenProperties DEF Base, Counted
  <2>3. Len(fills) <= MaxOrders /\ resting \in 0 .. MaxOrders
    BY <2>2, Bounds
  <2> QED BY <2>1, <2>3 DEF Base, TypeOK
<1> QED BY <1>1, InvHolds, PTL DEF FairSpec

\* No order is filled at a quote later than the tick that led to it, nor after
\* the next record (backtesting/replay_market_data_service.py:63,
\* backtesting/simulated_exchange.py:122-156).
THEOREM LooksNotAhead == FairSpec => []NoLookAhead
<1>1. IInv => NoLookAhead
  BY DEF IInv
<1> QED BY <1>1, InvHolds, PTL DEF FairSpec

\* When the run is over nothing is left on the bus, and the last equity point
\* is of all fills (backtesting/backtest_runtime.py:217-223).
THEOREM EndsComplete == FairSpec => []ResultComplete
<1>1. IInv => ResultComplete
  BY DEF IInv, Ended, Summed, Base, ResultComplete
<1> QED BY <1>1, InvHolds, PTL DEF FairSpec

\* A result is of the whole file (backtesting/backtest_runtime.py:213).
THEOREM ReadsWholeFile == FairSpec => []ResultOfWholeFile
<1>1. IInv => ResultOfWholeFile
  BY DEF IInv, Ended, Base, ResultOfWholeFile
<1> QED BY <1>1, InvHolds, PTL DEF FairSpec
=============================================================================
