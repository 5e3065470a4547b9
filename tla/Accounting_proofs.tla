-------------------------- MODULE Accounting_proofs --------------------------
(***************************************************************************)
(* Proved of Accounting for every value of the constants: the entries lie  *)
(* within the prices paid, every variable keeps its type, no money appears *)
(* or disappears, and an equity point is worth the positions.  The third   *)
(* and fourth need what a sum over the symbols is, which is proved first,  *)
(* by induction on the subsets of a finite set.                            *)
(***************************************************************************)
EXTENDS Accounting, FiniteSetTheorems, WellFoundedInduction, TLAPS

(***************************************************************************)
(* A weighted mean of two numbers lies between any bounds of the two.      *)
(***************************************************************************)
LEMMA MeanWithin ==
    ASSUME NEW a \in Nat \ {0}, NEW b \in Nat \ {0}, NEW x \in Nat, NEW y \in Nat,
           NEW low \in Nat, NEW high \in Nat,
           low <= x, low <= y, x <= high, y <= high
    PROVE  /\ (a * x + b * y) \div (a + b) \in Nat
           /\ low <= (a * x + b * y) \div (a + b)
           /\ (a * x + b * y) \div (a + b) <= high
<1> DEFINE n == a * x + b * y
           d == a + b
           m == n \div d
<1>1. d \in Nat \ {0} /\ a * x \in Nat /\ b * y \in Nat /\ n \in Nat
  OBVIOUS
<1>2. a * low <= a * x /\ b * low <= b * y
  OBVIOUS
<1>3. a * x <= a * high /\ b * y <= b * high
  OBVIOUS
<1>4. d * low = a * low + b * low /\ d * high = a * high + b * high
  OBVIOUS
<1>5. d * low <= n /\ n <= d * high
  BY <1>1, <1>2, <1>3, <1>4
<1> HIDE DEF n, d
<1>6. m \in Int /\ d * m <= n /\ n < d * (m + 1)
  BY <1>1
<1>7. d * low < d * (m + 1) /\ d * m <= d * high
  BY <1>1, <1>5, <1>6
<1> HIDE DEF m
<1>8. low < m + 1 /\ m <= high
  BY <1>1, <1>6, <1>7
<1>9. m \in Nat /\ low <= m /\ m <= high
  BY <1>6, <1>8
<1> QED BY <1>9 DEF m, n, d

-----------------------------------------------------------------------------
(***************************************************************************)
(* The average entry.  Neither marking nor saving touches quantities and   *)
(* entries; a restart takes them from the file, so the invariant also says *)
(* that the file has those of the ledger.                                  *)
(***************************************************************************)
PositionWithin(pos, prices) ==
    pos.qty # 0 => \E low, high \in prices : low <= pos.avg /\ pos.avg <= high

EntryInv ==
    /\ ledger \in [Symbols -> Positions]
    /\ saved.positions \in [Symbols -> Positions]
    /\ captured \in [Symbols -> Nat]
    /\ mark \in [Symbols -> Nat]
    /\ entries \in [Symbols -> SUBSET Prices]
    /\ \A s \in Symbols :
         /\ saved.positions[s].qty = ledger[s].qty
         /\ saved.positions[s].avg = ledger[s].avg
         /\ PositionWithin(ledger[s], entries[s])

\* mark_positions changes unrealized profits only.
LEMMA MarkedKeeps ==
    ASSUME NEW positions \in [Symbols -> Positions],
           NEW prices \in [Symbols -> Nat]
    PROVE  /\ Marked(positions, prices) \in [Symbols -> Positions]
           /\ \A s \in Symbols :
                /\ Marked(positions, prices)[s].qty = positions[s].qty
                /\ Marked(positions, prices)[s].avg = positions[s].avg
<1> DEFINE after(s) == Marked(positions, prices)[s]
<1>1. ASSUME NEW s \in Symbols
      PROVE  /\ after(s) \in Positions
             /\ after(s).qty = positions[s].qty /\ after(s).avg = positions[s].avg
  <2>1. positions[s] \in Positions /\ prices[s] \in Nat
    OBVIOUS
  <2>2. Unrealized(positions[s], prices[s]) \in Int
    BY <2>1 DEF Unrealized, Abs, Positions
  <2> QED BY <2>1, <2>2 DEF Marked, Positions
<1> QED BY <1>1 DEF Marked

\* A fill leaves a position whose entry lies within the prices it was
\* entered at.
LEMMA FilledWithin ==
    ASSUME NEW pos \in Positions, NEW old \in SUBSET Prices,
           NEW delta \in Int, delta # 0, NEW price \in Prices,
           PositionWithin(pos, old)
    PROVE  /\ Filled(pos, delta, price) \in Positions
           /\ Entries(pos, old, delta, price) \in SUBSET Prices
           /\ PositionWithin(Filled(pos, delta, price),
                             Entries(pos, old, delta, price))
<1> DEFINE after == Filled(pos, delta, price)
           prices == Entries(pos, old, delta, price)
<1> USE AccountingAssumption
<1>0. /\ pos.qty \in Int /\ pos.avg \in Nat /\ pos.unrealized \in Int
      /\ price \in Nat
  BY DEF Positions
<1>1. CASE pos.qty + delta = 0
  <2>1. Entry(pos, delta, price) \in Nat
    BY <1>0, <1>1 DEF Entry, Reverses, SameDirection
  <2> QED BY <1>0, <1>1, <2>1 DEF Filled, Flat, Entries, PositionWithin, Positions
<1>2. CASE pos.qty + delta # 0 /\ (pos.qty = 0 \/ Reverses(pos, delta))
  <2>1. /\ after = [qty |-> pos.qty + delta, avg |-> price,
                    unrealized |-> pos.unrealized]
        /\ prices = {price}
    BY <1>2 DEF Filled, Entry, Entries
  <2> QED BY <1>0, <2>1 DEF PositionWithin, Positions
<1>3. CASE /\ pos.qty + delta # 0 /\ pos.qty # 0 /\ ~Reverses(pos, delta)
           /\ SameDirection(pos, delta)
  <2> DEFINE mean == WeightedMean(pos, delta, price)
  <2>1. /\ after = [qty |-> pos.qty + delta, avg |-> mean,
                    unrealized |-> pos.unrealized]
        /\ prices = old \cup {price}
    BY <1>3 DEF Filled, Entry, Entries
  <2>2. PICK low, high \in old : low <= pos.avg /\ pos.avg <= high
    BY <1>3 DEF PositionWithin
  <2>3. PICK l, h \in prices : l <= pos.avg /\ l <= price /\ pos.avg <= h /\ price <= h
    <3>1. low \in Nat /\ high \in Nat
      BY <2>2
    <3>2. PICK l \in prices : l <= pos.avg /\ l <= price
      BY <1>0, <2>1, <2>2, <3>1
    <3>3. PICK h \in prices : pos.avg <= h /\ price <= h
      BY <1>0, <2>1, <2>2, <3>1
    <3> QED BY <3>2, <3>3
  <2>4. l \in Nat /\ h \in Nat
    BY <2>1, <2>3
  <2>5. Abs(pos.qty) \in Nat \ {0} /\ Abs(delta) \in Nat \ {0}
    BY <1>0, <1>3 DEF Abs
  <2>6. mean \in Nat /\ l <= mean /\ mean <= h
    BY <1>0, <2>3, <2>4, <2>5, MeanWithin DEF WeightedMean, Cost, Size
  <2> QED BY <1>0, <2>1, <2>3, <2>6 DEF PositionWithin, Positions
<1>4. CASE /\ pos.qty + delta # 0 /\ pos.qty # 0 /\ ~Reverses(pos, delta)
           /\ ~SameDirection(pos, delta)
  <2>1. /\ after = [qty |-> pos.qty + delta, avg |-> pos.avg,
                    unrealized |-> pos.unrealized]
        /\ prices = old
    BY <1>4 DEF Filled, Entry, Entries
  <2> QED BY <1>0, <1>4, <2>1 DEF PositionWithin, Positions
<1> QED BY <1>1, <1>2, <1>3, <1>4

LEMMA EntryInit == Init => EntryInv
  BY DEF Init, EntryInv, Flat, NoMarks, Positions, PositionWithin

LEMMA EntryStep == EntryInv /\ [Next]_vars => EntryInv'
<1> SUFFICES ASSUME EntryInv, [Next]_vars
             PROVE  EntryInv'
  OBVIOUS
<1> USE DEF EntryInv
<1>1. ASSUME NEW s \in Symbols, NEW p \in Prices, Tick(s, p)
      PROVE  EntryInv'
  BY <1>1, AccountingAssumption DEF Tick, books, history
<1>2. CASE Request
  BY <1>2 DEF Request, books, history
<1>3. ASSUME NEW s \in Symbols, NEW side \in Sides, NEW q \in Quantities,
             NEW p \in Prices, NEW f \in Fees, Fill(s, side, q, p, f)
      PROVE  EntryInv'
  <2> DEFINE delta == IF side = "BUY" THEN q ELSE -q
             filled == [ledger EXCEPT ![s] = Filled(ledger[s], delta, p)]
             positions == Marked(filled, captured)
  <2>1. delta \in Int /\ delta # 0
    BY AccountingAssumption
  <2>2. /\ ledger' = positions /\ saved'.positions = positions
        /\ entries' = [entries EXCEPT ![s] = Entries(ledger[s], @, delta, p)]
        /\ UNCHANGED <<mark, captured>>
    BY <1>3 DEF Fill
  <2>3. /\ Filled(ledger[s], delta, p) \in Positions
        /\ Entries(ledger[s], entries[s], delta, p) \in SUBSET Prices
        /\ PositionWithin(Filled(ledger[s], delta, p),
                          Entries(ledger[s], entries[s], delta, p))
    BY <2>1, FilledWithin
  <2> HIDE DEF delta
  <2>4. filled \in [Symbols -> Positions]
    BY <2>3
  <2>5. /\ positions \in [Symbols -> Positions]
        /\ \A t \in Symbols : /\ positions[t].qty = filled[t].qty
                              /\ positions[t].avg = filled[t].avg
    BY <2>4, MarkedKeeps
  <2>6. entries' \in [Symbols -> SUBSET Prices]
    BY <2>2, <2>3
  <2>7. \A t \in Symbols : PositionWithin(filled[t], entries'[t])
    BY <2>2, <2>3
  <2> HIDE DEF positions, filled
  <2>8. \A t \in Symbols : PositionWithin(positions[t], entries'[t])
    BY <2>5, <2>7 DEF PositionWithin
  <2> QED BY <2>2, <2>5, <2>6, <2>8
<1>4. CASE RecordEquityPoint
  <2>1. /\ ledger' \in [Symbols -> Positions]
        /\ \A t \in Symbols : /\ ledger'[t].qty = ledger[t].qty
                              /\ ledger'[t].avg = ledger[t].avg
    BY <1>4, MarkedKeeps DEF RecordEquityPoint
  <2>2. UNCHANGED <<mark, captured, saved, entries>>
    BY <1>4 DEF RecordEquityPoint, history
  <2> QED BY <2>1, <2>2 DEF PositionWithin
<1>5. CASE StopAndRestart
  BY <1>5 DEF StopAndRestart, history, NoMarks, PositionWithin
<1>6. CASE UNCHANGED vars
  BY <1>6 DEF vars, books, history
<1> QED BY <1>1, <1>2, <1>3, <1>4, <1>5, <1>6 DEF Next

(***************************************************************************)
(* The average entry of a position always lies between two prices its open *)
(* part was entered at, however many fills have opened, added to, reduced  *)
(* and reversed it and however often the ledger was restored               *)
(* (portfolio/position_ledger.py:104-147).                                 *)
(***************************************************************************)
THEOREM EntryCorrect == Spec => []EntryWithinPrices
<1>1. EntryInv => EntryWithinPrices
  BY DEF EntryInv, PositionWithin, EntryWithinPrices
<1> QED BY EntryInit, EntryStep, <1>1, PTL DEF Spec

-----------------------------------------------------------------------------
(***************************************************************************)
(* Type correctness.  A restart brings back the positions of the file, so  *)
(* those without a quantity must be Flat as well.                          *)
(***************************************************************************)
FlatIsFlat(positions) == \A s \in Symbols : positions[s].qty = 0 => positions[s] = Flat
TypeInv == TypeOK /\ FlatIsFlat(saved.positions)

\* What a fill realizes is a number.
LEMMA RealizesInt ==
    ASSUME NEW pos \in Positions, NEW delta \in Int, NEW price \in Nat
    PROVE  Realizes(pos, delta, price) \in Int
<1>1. pos.qty \in Int /\ pos.avg \in Int
  BY DEF Positions
<1>2. Closed(pos, delta) \in Int
  BY <1>1 DEF Closed, Abs
<1>3. (IF pos.qty > 0 THEN price - pos.avg ELSE pos.avg - price) \in Int
  BY <1>1
<1> QED BY <1>2, <1>3 DEF Realizes

\* So is what its average leaves over.
LEMMA RestInt ==
    ASSUME NEW pos \in Positions, NEW delta \in Int, delta # 0, NEW price \in Nat
    PROVE  /\ Rest(pos, delta, price) \in Int
           /\ Cost(pos, delta, price) \in Nat /\ Size(pos, delta) \in Nat \ {0}
<1>1. pos.qty \in Int /\ pos.avg \in Nat
  BY DEF Positions
<1>2. Abs(pos.qty) \in Nat /\ Abs(delta) \in Nat \ {0}
  BY <1>1 DEF Abs
<1>3. Cost(pos, delta, price) \in Nat /\ Size(pos, delta) \in Nat \ {0}
  BY <1>1, <1>2 DEF Cost, Size
<1>4. Cost(pos, delta, price) % Size(pos, delta) \in Int
  BY <1>3
<1> QED BY <1>3, <1>4 DEF Rest

\* The position after a fill has its type, and is Flat without a quantity.
LEMMA FilledType ==
    ASSUME NEW pos \in Positions, NEW delta \in Int, delta # 0, NEW price \in Prices
    PROVE  /\ Filled(pos, delta, price) \in Positions
           /\ Filled(pos, delta, price).qty = 0 => Filled(pos, delta, price) = Flat
<1> USE AccountingAssumption
<1>1. /\ pos.qty \in Int /\ pos.avg \in Nat /\ pos.unrealized \in Int
      /\ price \in Nat
  BY DEF Positions
<1>2. CASE pos.qty + delta = 0
  <2>1. Entry(pos, delta, price) = 0
    BY <1>1, <1>2 DEF Entry, Reverses, SameDirection
  <2> QED BY <1>2, <2>1 DEF Filled, Flat, Positions
<1>3. CASE pos.qty + delta # 0
  <2>1. Entry(pos, delta, price) \in Nat
    <3>1. SameDirection(pos, delta) => WeightedMean(pos, delta, price) \in Nat
      <4>1. SUFFICES ASSUME SameDirection(pos, delta)
                     PROVE  WeightedMean(pos, delta, price) \in Nat
        OBVIOUS
      <4>2. Abs(pos.qty) \in Nat \ {0} /\ Abs(delta) \in Nat \ {0}
        BY <1>1, <4>1 DEF Abs, SameDirection
      <4>3. PICK low \in Nat, high \in Nat :
              low <= pos.avg /\ low <= price /\ pos.avg <= high /\ price <= high
        BY <1>1
      <4> QED BY <1>1, <4>2, <4>3, MeanWithin DEF WeightedMean, Cost, Size
    <3> QED BY <1>1, <3>1 DEF Entry
  <2> QED BY <1>1, <1>3, <2>1 DEF Filled, Positions
<1> QED BY <1>2, <1>3

LEMMA TypeInit == Init => TypeInv
<1> SUFFICES ASSUME Init
             PROVE  TypeInv
  OBVIOUS
<1> USE DEF Init
<1>1. Flat \in Positions
  BY DEF Flat, Positions
<1>2. /\ ledger \in [Symbols -> Positions]
      /\ \A s \in Symbols : ledger[s] = Flat
  BY <1>1
<1>3. /\ saved \in [positions : [Symbols -> Positions], realized : Int]
      /\ FlatIsFlat(saved.positions)
  BY <1>2 DEF FlatIsFlat
<1>4. /\ mark \in [Symbols -> Prices \cup {0}]
      /\ captured \in [Symbols -> Prices \cup {0}]
      /\ entries \in [Symbols -> SUBSET Prices]
  BY DEF NoMarks
<1>5. realized \in Int /\ cash \in Int /\ rounded \in Int /\ fills \in 0 .. MaxFills
  BY AccountingAssumption
<1> QED BY <1>2, <1>3, <1>4, <1>5 DEF TypeInv, TypeOK

LEMMA TypeStep == TypeInv /\ [Next]_vars => TypeInv'
<1> SUFFICES ASSUME TypeInv, [Next]_vars
             PROVE  TypeInv'
  OBVIOUS
<1> USE DEF TypeInv, TypeOK, FlatIsFlat
<1>0. mark \in [Symbols -> Nat] /\ captured \in [Symbols -> Nat]
  <2>1. Prices \cup {0} \subseteq Nat
    BY AccountingAssumption
  <2>2. \A s \in Symbols : mark[s] \in Nat /\ captured[s] \in Nat
    BY <2>1
  <2> QED BY <2>2
<1>1. ASSUME NEW s \in Symbols, NEW p \in Prices, Tick(s, p)
      PROVE  TypeInv'
  BY <1>1 DEF Tick, books, history
<1>2. CASE Request
  BY <1>2 DEF Request, books, history
<1>3. ASSUME NEW s \in Symbols, NEW side \in Sides, NEW q \in Quantities,
             NEW p \in Prices, NEW f \in Fees, Fill(s, side, q, p, f)
      PROVE  TypeInv'
  <2> DEFINE delta == IF side = "BUY" THEN q ELSE -q
             filled == [ledger EXCEPT ![s] = Filled(ledger[s], delta, p)]
             positions == Marked(filled, captured)
             total == realized + Realizes(ledger[s], delta, p) - f
  <2>1. delta \in Int /\ delta # 0 /\ p \in Nat /\ f \in Int
    BY AccountingAssumption
  <2>2. /\ ledger' = positions /\ realized' = total
        /\ saved' = [positions |-> positions, realized |-> total]
        /\ cash' = cash - delta * p - f
        /\ rounded' = rounded + Rest(ledger[s], delta, p)
        /\ entries' = [entries EXCEPT ![s] = Entries(ledger[s], @, delta, p)]
        /\ fills < MaxFills /\ fills' = fills + 1
        /\ UNCHANGED <<mark, captured>>
    BY <1>3 DEF Fill
  <2> HIDE DEF delta
  <2>3. filled \in [Symbols -> Positions] /\ FlatIsFlat(filled)
    BY <2>1, FilledType
  <2> HIDE DEF filled
  <2>4. positions \in [Symbols -> Positions]
    BY <1>0, <2>3, MarkedKeeps
  <2>5. FlatIsFlat(positions)
    <3>1. \A t \in Symbols : /\ positions[t].qty = filled[t].qty
                             /\ filled[t].qty = 0 => positions[t] = filled[t]
      BY <1>0, <2>3, MarkedKeeps DEF Marked
    <3>2. ASSUME NEW t \in Symbols, positions[t].qty = 0
          PROVE  positions[t] = Flat
      <4> HIDE DEF positions
      <4> QED BY <2>3, <3>1, <3>2
    <3> QED BY <3>2
  <2>6. total \in Int
    BY <2>1, RealizesInt
  <2>7. cash' \in Int /\ rounded' \in Int
    BY <2>1, <2>2, RestInt
  <2>8. entries' \in [Symbols -> SUBSET Prices]
    BY <2>2 DEF Entries
  <2>9. fills' \in 0 .. MaxFills
    BY <2>2, AccountingAssumption
  <2> HIDE DEF positions, total
  <2> QED BY <2>2, <2>4, <2>5, <2>6, <2>7, <2>8, <2>9
<1>4. CASE RecordEquityPoint
  <2>1. ledger' \in [Symbols -> Positions]
    BY <1>0, <1>4, MarkedKeeps DEF RecordEquityPoint
  <2>2. FlatIsFlat(ledger')
    <3>1. \A t \in Symbols : /\ ledger'[t].qty = ledger[t].qty
                             /\ ledger[t].qty = 0 => ledger'[t] = ledger[t]
      BY <1>0, <1>4, MarkedKeeps DEF RecordEquityPoint, Marked
    <3>2. ASSUME NEW t \in Symbols, ledger'[t].qty = 0
          PROVE  ledger'[t] = Flat
      BY <3>1, <3>2
    <3> QED BY <3>2
  <2>3. UNCHANGED <<realized, mark, captured, saved, history>>
    BY <1>4 DEF RecordEquityPoint
  <2> QED BY <2>1, <2>2, <2>3 DEF history
<1>5. CASE StopAndRestart
  BY <1>5 DEF StopAndRestart, history, NoMarks
<1>6. CASE UNCHANGED vars
  BY <1>6 DEF vars, books, history
<1> QED BY <1>1, <1>2, <1>3, <1>4, <1>5, <1>6 DEF Next

(***************************************************************************)
(* Every variable keeps its type, and a symbol without a quantity has      *)
(* neither an entry nor a profit, also after a restart                     *)
(* (portfolio/position_ledger.py:60-66, 239-258).                          *)
(***************************************************************************)
THEOREM AccountsTyped == Spec => []TypeOK
<1>1. TypeInv => TypeOK
  BY DEF TypeInv
<1> QED BY TypeInit, TypeStep, <1>1, PTL DEF Spec

-----------------------------------------------------------------------------
(***************************************************************************)
(* Sums over the symbols.                                                  *)
(***************************************************************************)

\* F is the function SumFunction recurs with over the subsets of S: it takes
\* some element first, whichever CHOOSE gives.
Picked(T) == CHOOSE x \in T : TRUE
Recursion(F, f, S) ==
    F = [T \in SUBSET S |-> IF T = {} THEN 0 ELSE f[Picked(T)] + F[T \ {Picked(T)}]]

\* F sums f over every subset of S, whichever element is taken first.
Adds(F, f, S) ==
    /\ F \in [SUBSET S -> Int]
    /\ F[{}] = 0
    /\ \A T \in SUBSET S : \A x \in T : F[T] = f[x] + F[T \ {x}]

\* SumFunction, unfolded.
LEMMA SumIs ==
    ASSUME NEW S, NEW f \in [S -> Int]
    PROVE  SumFunction(f) = (CHOOSE F : Recursion(F, f, S))[S]
  BY DEF SumFunction, SumFunctionOnSet, FoldFunctionOnSet, MapThenFoldSet, Recursion, Picked

\* Induction over the subsets of a finite set: of some subsets of it, one has
\* none of the others within it.
LEMMA SmallestSubset ==
    ASSUME NEW S, IsFiniteSet(S), NEW B \in SUBSET (SUBSET S), B # {}
    PROVE  \E T \in B : \A U \in SUBSET S : U \subseteq T /\ U # T => U \notin B
  <1>1. IsWellFoundedOn(StrictSubsetOrdering(S), SUBSET S)
    BY FS_StrictSubsetOrderingWellFounded, FS_FiniteSubsetsOfFinite
  <1>2. PICK T \in B : \A U \in B : <<U, T>> \notin StrictSubsetOrdering(S)
    BY <1>1, WFMin
  <1> QED
    BY <1>2 DEF StrictSubsetOrdering

\* Two such functions agree where they sum the same numbers.
LEMMA RecursionUnique ==
    ASSUME NEW S, IsFiniteSet(S), NEW U \in SUBSET S, NEW V \in SUBSET S,
           NEW f, NEW g, NEW F, NEW G, Recursion(F, f, U), Recursion(G, g, V),
           NEW W \in SUBSET (U \cap V), \A x \in W : f[x] = g[x]
    PROVE  F[W] = G[W]
  <1> DEFINE B == {T \in SUBSET W : F[T] # G[T]}
  <1>1. SUFFICES ASSUME B # {} PROVE FALSE
    OBVIOUS
  <1>2. IsFiniteSet(W)
    BY FS_Subset
  <1>3. PICK T \in B : \A R \in SUBSET W : R \subseteq T /\ R # T => R \notin B
    <2>1. B \in SUBSET (SUBSET W)
      OBVIOUS
    <2> HIDE DEF B
    <2> QED
      BY <1>1, <1>2, <2>1, SmallestSubset
  <1>4. CASE T = {}
    BY <1>3, <1>4 DEF Recursion
  <1>5. CASE T # {}
    <2> DEFINE c == Picked(T)
    <2>1. c \in T
      BY <1>5 DEF Picked
    <2> HIDE DEF c
    <2>2. T \ {c} \in SUBSET W /\ T \ {c} # T
      BY <1>3, <2>1
    <2>3. F[T \ {c}] = G[T \ {c}]
      BY <1>3, <2>2
    <2>4. F[T] = f[c] + F[T \ {c}]
      BY <1>3, <1>5 DEF Recursion, c
    <2>5. G[T] = g[c] + G[T \ {c}]
      BY <1>3, <1>5 DEF Recursion, c
    <2>6. f[c] = g[c]
      BY <1>3, <2>1
    <2> QED
      BY <1>3, <2>3, <2>4, <2>5, <2>6
  <1> QED
    BY <1>4, <1>5

\* There is one of whole numbers: of the subsets, none can be the smallest
\* without it.
LEMMA RecursionExists ==
    ASSUME NEW S, IsFiniteSet(S), NEW f \in [S -> Int]
    PROVE  \E F \in [SUBSET S -> Int] : Recursion(F, f, S)
  <1> DEFINE Fits(F, T) == F \in [SUBSET T -> Int] /\ Recursion(F, f, T)
             B == {T \in SUBSET S : ~ \E F : Fits(F, T)}
             G(T) == CHOOSE F : Fits(F, T)
  <1>1. SUFFICES ASSUME B # {} PROVE FALSE
    OBVIOUS
  <1>2. PICK T \in B : \A U \in SUBSET S : U \subseteq T /\ U # T => U \notin B
    <2>1. B \in SUBSET (SUBSET S)
      OBVIOUS
    <2> HIDE DEF B
    <2> QED
      BY <1>1, <2>1, SmallestSubset
  <1>3. \A U \in SUBSET T : U # T => Fits(G(U), U)
    BY <1>2
  <1>4. CASE T = {}
    <2> DEFINE F == [U \in SUBSET T |-> 0]
    <2>1. Fits(F, T)
      BY <1>4 DEF Recursion
    <2> QED
      BY <1>2, <2>1
  <1>5. CASE T # {}
    <2> DEFINE c(U) == Picked(U)
               F == [U \in SUBSET T |-> IF U = {} THEN 0
                       ELSE f[c(U)] + G(U \ {c(U)})[U \ {c(U)}]]
    <2>0. \A U \in SUBSET T : U # {} => c(U) \in U
      BY DEF Picked
    <2> HIDE DEF G, c, Fits
    <2>1. \A U \in SUBSET T : U # {} =>
             /\ f[c(U)] \in Int
             /\ Fits(G(U \ {c(U)}), U \ {c(U)})
      <3> TAKE U \in SUBSET T
      <3> HAVE U # {}
      <3>1. c(U) \in U /\ c(U) \in S
        BY <1>2, <2>0
      <3>2. U \ {c(U)} \in SUBSET T /\ U \ {c(U)} # T
        BY <3>1
      <3> QED
        BY <1>3, <3>1, <3>2
    <2>2. F \in [SUBSET T -> Int]
      <3> SUFFICES ASSUME NEW U \in SUBSET T, U # {}
                   PROVE  G(U \ {c(U)})[U \ {c(U)}] \in Int
        BY <2>1
      <3> DEFINE R == U \ {c(U)}
      <3>1. Fits(G(R), R)
        BY <2>1
      <3> HIDE DEF R
      <3>2. G(R)[R] \in Int
        BY <3>1 DEF Fits
      <3> QED
        BY <3>2 DEF R
    <2>3. \A U \in SUBSET T : U # T => F[U] = G(U)[U]
      <3> SUFFICES ASSUME NEW U \in SUBSET T, U # T PROVE F[U] = G(U)[U]
        OBVIOUS
      <3>0. Recursion(G(U), f, U)
        BY <1>3 DEF Fits
      <3>1. CASE U = {}
        BY <3>0, <3>1 DEF Recursion
      <3>2. CASE U # {}
        <4> DEFINE R == U \ {c(U)}
        <4>1. c(U) \in U /\ R \in SUBSET U /\ R \in SUBSET T /\ Fits(G(R), R)
          BY <2>0, <2>1, <3>2
        <4>2. F[U] = f[c(U)] + G(R)[R]
          BY <3>2
        <4>3. G(U)[U] = f[c(U)] + G(U)[R]
          BY <3>0, <3>2 DEF Recursion, c
        <4> HIDE DEF R, F
        <4>4. G(U)[R] = G(R)[R]
          <5>1. Recursion(G(R), f, R)
            BY <4>1 DEF Fits
          <5>2. U \in SUBSET S /\ R \in SUBSET S /\ R \in SUBSET (U \cap R)
            BY <1>2, <4>1
          <5> QED
            BY <3>0, <5>1, <5>2, RecursionUnique
        <4> QED
          BY <4>2, <4>3, <4>4
      <3> QED
        BY <3>1, <3>2
    <2>4. Recursion(F, f, T)
      <3>1. \A U \in SUBSET T : U # {} => 
              G(U \ {c(U)})[U \ {c(U)}] = F[U \ {c(U)}]
        <4> SUFFICES ASSUME NEW U \in SUBSET T, U # {}
                     PROVE  G(U \ {c(U)})[U \ {c(U)}] = F[U \ {c(U)}]
          OBVIOUS
        <4>1. U \ {c(U)} \in SUBSET T /\ U \ {c(U)} # T
          BY <2>0
        <4> HIDE DEF F
        <4> QED
          BY <2>3, <4>1
      <3>2. F = [U \in SUBSET T |-> IF U = {} THEN 0 ELSE f[c(U)] + F[U \ {c(U)}]]
        BY <3>1
      <3> HIDE DEF F
      <3> QED
        BY <3>2 DEF Recursion, c
    <2> HIDE DEF F
    <2>5. Fits(F, T)
      BY <2>2, <2>4 DEF Fits
    <2> QED
      BY <1>2, <2>5
  <1> QED
    BY <1>4, <1>5

\* A sum does not depend on the order its terms are taken in.
LEMMA SumAdds ==
    ASSUME NEW S, IsFiniteSet(S), NEW f \in [S -> Int]
    PROVE  \E F : Adds(F, f, S) /\ SumFunction(f) = F[S]
  <1> DEFINE F == CHOOSE F : Recursion(F, f, S)
  <1>1. PICK G \in [SUBSET S -> Int] : Recursion(G, f, S)
    BY RecursionExists
  <1>2. Recursion(F, f, S)
    BY <1>1
  <1>3. SumFunction(f) = F[S]
    BY SumIs
  <1> HIDE DEF F
  <1>4. \A T \in SUBSET S : F[T] \in Int
    <2> TAKE T \in SUBSET S
    <2>1. F[T] = G[T]
      BY <1>1, <1>2, RecursionUnique
    <2> QED
      BY <1>1, <2>1
  <1>5. F \in [SUBSET S -> Int] /\ F[{}] = 0
    <2>1. F = [T \in SUBSET S |-> F[T]]
      BY <1>2 DEF Recursion
    <2> QED
      BY <1>2, <1>4, <2>1 DEF Recursion
  <1> DEFINE B == {T \in SUBSET S : \E x \in T : F[T] # f[x] + F[T \ {x}]}
  <1>6. ASSUME B # {} PROVE FALSE
    <2>1. PICK T \in B : \A U \in SUBSET S : U \subseteq T /\ U # T => U \notin B
      <3>1. B \in SUBSET (SUBSET S)
        OBVIOUS
      <3> HIDE DEF B
      <3> QED
        BY <1>6, <3>1, SmallestSubset
    <2>2. PICK x \in T : F[T] # f[x] + F[T \ {x}]
      BY <2>1
    <2> DEFINE c == Picked(T)
               R == T \ {c, x}
    <2>3. c \in T
      BY <2>2 DEF Picked
    <2>4. F[T] = f[c] + F[T \ {c}]
      BY <1>2, <2>1, <2>2 DEF Recursion
    <2> HIDE DEF c
    <2>5. c # x
      BY <2>2, <2>4
    <2>6. F[T \ {c}] = f[x] + F[R]
      <3>1. T \ {c} \in SUBSET S /\ T \ {c} \notin B /\ x \in T \ {c} /\ (T \ {c}) \ {x} = R
        BY <2>1, <2>2, <2>3, <2>5
      <3> QED
        BY <3>1
    <2>7. F[T \ {x}] = f[c] + F[R]
      <3>1. T \ {x} \in SUBSET S /\ T \ {x} \notin B /\ c \in T \ {x} /\ (T \ {x}) \ {c} = R
        BY <2>1, <2>2, <2>3, <2>5
      <3> QED
        BY <3>1
    <2>8. f[c] \in Int /\ f[x] \in Int /\ F[R] \in Int
      <3>1. c \in S /\ x \in S /\ R \in SUBSET S
        BY <2>1, <2>2, <2>3
      <3> QED
        BY <1>4, <3>1
    <2> HIDE DEF R
    <2> QED
      BY <2>2, <2>4, <2>6, <2>7, <2>8
  <1>7. Adds(F, f, S)
    BY <1>5, <1>6 DEF Adds
  <1> QED
    BY <1>3, <1>7

\* What sums in any order sums in the order of SumFunction.
LEMMA AddsRecurs ==
    ASSUME NEW S, NEW f, NEW F, Adds(F, f, S)
    PROVE  Recursion(F, f, S)
  <1>1. \A T \in SUBSET S : T # {} => Picked(T) \in T
    BY DEF Picked
  <1>2. F = [T \in SUBSET S |-> F[T]]
    BY DEF Adds
  <1>3. \A T \in SUBSET S : 
          F[T] = IF T = {} THEN 0 ELSE f[Picked(T)] + F[T \ {Picked(T)}]
    BY <1>1 DEF Adds
  <1> QED
    BY <1>2, <1>3 DEF Recursion

\* A sum over a finite set of symbols moves by what one of its terms moves.
LEMMA SumMoves ==
    ASSUME NEW S, IsFiniteSet(S), NEW f \in [S -> Int], NEW g \in [S -> Int],
           NEW s \in S, \A t \in S \ {s} : g[t] = f[t]
    PROVE  /\ SumFunction(f) \in Int /\ SumFunction(g) \in Int
           /\ SumFunction(g) = SumFunction(f) - f[s] + g[s]
  <1>1. PICK F : Adds(F, f, S) /\ SumFunction(f) = F[S]
    BY SumAdds
  <1>2. PICK G : Adds(G, g, S) /\ SumFunction(g) = G[S]
    BY SumAdds
  <1>3. F[S \ {s}] = G[S \ {s}]
    <2>1. Recursion(F, f, S) /\ Recursion(G, g, S)
      BY <1>1, <1>2, AddsRecurs
    <2> QED
      BY <2>1, RecursionUnique
  <1>4. F[S] = f[s] + F[S \ {s}] /\ G[S] = g[s] + G[S \ {s}]
    BY <1>1, <1>2 DEF Adds
  <1>5. F[S] \in Int /\ G[S] \in Int /\ F[S \ {s}] \in Int /\ f[s] \in Int /\ g[s] \in Int
    BY <1>1, <1>2 DEF Adds
  <1> QED
    BY <1>1, <1>2, <1>3, <1>4, <1>5

\* The sum of whole numbers is one.
LEMMA SumInt ==
    ASSUME NEW S, IsFiniteSet(S), NEW f \in [S -> Int]
    PROVE  SumFunction(f) \in Int
  <1>1. PICK F : Adds(F, f, S) /\ SumFunction(f) = F[S]
    BY SumAdds
  <1> QED
    BY <1>1 DEF Adds

\* The sum of a sum is the sum of the sums.
LEMMA SumPlus ==
    ASSUME NEW S, IsFiniteSet(S), NEW f \in [S -> Int], NEW g \in [S -> Int],
           NEW h \in [S -> Int], \A s \in S : h[s] = f[s] + g[s]
    PROVE  SumFunction(h) = SumFunction(f) + SumFunction(g)
  <1>1. PICK F : Adds(F, f, S) /\ SumFunction(f) = F[S]
    BY SumAdds
  <1>2. PICK G : Adds(G, g, S) /\ SumFunction(g) = G[S]
    BY SumAdds
  <1>3. PICK H : Adds(H, h, S) /\ SumFunction(h) = H[S]
    BY SumAdds
  <1> DEFINE K == [T \in SUBSET S |-> F[T] + G[T]]
  <1>4. \A T \in SUBSET S : F[T] \in Int /\ G[T] \in Int
    BY <1>1, <1>2 DEF Adds
  <1>5. \A T \in SUBSET S : \A x \in T : K[T] = h[x] + K[T \ {x}]
    <2> TAKE T \in SUBSET S
    <2> TAKE x \in T
    <2>1. F[T] = f[x] + F[T \ {x}] /\ G[T] = g[x] + G[T \ {x}]
      BY <1>1, <1>2 DEF Adds
    <2>2. f[x] \in Int /\ g[x] \in Int /\ h[x] = f[x] + g[x] /\ T \ {x} \in SUBSET S
      OBVIOUS
    <2>3. F[T \ {x}] \in Int /\ G[T \ {x}] \in Int
      BY <1>4, <2>2
    <2>4. K[T] = F[T] + G[T] /\ K[T \ {x}] = F[T \ {x}] + G[T \ {x}]
      BY <2>2
    <2> HIDE DEF K
    <2> QED
      BY <2>1, <2>2, <2>3, <2>4
  <1>6. Adds(K, h, S)
    <2>1. K \in [SUBSET S -> Int]
      BY <1>4
    <2>2. K[{}] = 0
      BY <1>1, <1>2 DEF Adds
    <2> HIDE DEF K
    <2> QED
      BY <1>5, <2>1, <2>2 DEF Adds
  <1> HIDE DEF K
  <1>7. K[S] = H[S]
    BY <1>3, <1>6, AddsRecurs, RecursionUnique
  <1> QED
    BY <1>1, <1>2, <1>3, <1>7 DEF K

-----------------------------------------------------------------------------
(***************************************************************************)
(* The money.                                                              *)
(***************************************************************************)

\* What the open positions cost.
Held(positions) == [s \in Symbols |-> positions[s].qty * positions[s].avg]

\* ProfitIsCash is kept by a restart only because the file has the profit, the
\* quantities and the entries of the ledger.
ProfitInv ==
    /\ TypeInv
    /\ saved.realized = realized
    /\ \A s \in Symbols : /\ saved.positions[s].qty = ledger[s].qty
                          /\ saved.positions[s].avg = ledger[s].avg
    /\ realized = cash + rounded + SumFunction(Held(ledger))

LEMMA HeldType ==
    ASSUME NEW positions \in [Symbols -> Positions]
    PROVE  Held(positions) \in [Symbols -> Int]
<1> SUFFICES ASSUME NEW s \in Symbols
             PROVE  positions[s].qty * positions[s].avg \in Int
  BY DEF Held
<1>1. positions[s].qty \in Int /\ positions[s].avg \in Int
  BY DEF Positions
<1> QED BY <1>1

\* A fill that adds to a position: the cost of the new one is the cost of the
\* old one and of the fill, but for what the average leaves over.
LEMMA AddingBalances ==
    ASSUME NEW pos \in Positions, NEW delta \in Int, NEW price \in Nat,
           SameDirection(pos, delta)
    PROVE  (pos.qty + delta) * WeightedMean(pos, delta, price)
             = pos.qty * pos.avg + delta * price - Rest(pos, delta, price)
<1> DEFINE q == pos.qty
           a == pos.avg
           n == Cost(pos, delta, price)
           m == Size(pos, delta)
<1>1. q \in Int /\ a \in Nat
  BY DEF Positions
<1>2. delta # 0 /\ (delta > 0 => q > 0) /\ (delta < 0 => q < 0)
  BY <1>1 DEF SameDirection
<1>3. n \in Nat /\ m \in Nat \ {0}
  BY <1>2, RestInt
<1>4. m * (n \div m) + (n % m) = n /\ n \div m \in Int /\ n % m \in Int
  <2> HIDE DEF n, m
  <2> QED BY <1>3
<1>5. CASE delta > 0
  <2>1. m = q + delta /\ n = q * a + delta * price
    BY <1>1, <1>2, <1>5 DEF Size, Cost, Abs
  <2>2. Rest(pos, delta, price) = n % m
    BY <1>5 DEF Rest
  <2>3. q * a \in Int /\ delta * price \in Int
    BY <1>1
  <2> HIDE DEF q, a, n, m
  <2>4. m * (n \div m) = q * a + delta * price - (n % m)
    BY <1>3, <1>4, <2>1, <2>3
  <2> QED BY <2>1, <2>2, <2>4 DEF q, a, n, m, WeightedMean
<1>6. CASE delta < 0
  <2>1. m = -(q + delta) /\ n = -(q * a + delta * price)
    <3>1. q < 0 /\ Abs(q) = -q /\ Abs(delta) = -delta
      BY <1>1, <1>2, <1>6 DEF Abs
    <3>2. m = (-q) + (-delta) /\ n = (-q) * a + (-delta) * price
      BY <3>1 DEF Size, Cost
    <3>3. (-q) * a = -(q * a) /\ (-delta) * price = -(delta * price)
      BY <1>1
    <3> HIDE DEF m, n
    <3>4. q * a \in Int /\ delta * price \in Int
      BY <1>1
    <3> QED BY <1>1, <3>2, <3>3, <3>4
  <2>2. Rest(pos, delta, price) = -(n % m)
    BY <1>6 DEF Rest
  <2>3. q * a \in Int /\ delta * price \in Int /\ q + delta \in Int
    BY <1>1
  <2> HIDE DEF q, a, n, m
  <2>4. (q + delta) * (n \div m) = -(m * (n \div m))
    <3>1. q + delta = -m
      BY <1>3, <2>1, <2>3
    <3> QED BY <1>3, <1>4, <3>1
  <2>5. (q + delta) * (n \div m) = q * a + delta * price - (-(n % m))
    <3> DEFINE x == m * (n \div m)
               y == n % m
               u == q * a
               v == delta * price
    <3>1. x \in Int /\ y \in Int /\ u \in Int /\ v \in Int
      BY <1>3, <1>4, <2>3
    <3>2. x + y = n /\ n = -(u + v) /\ (q + delta) * (n \div m) = -x
      BY <1>4, <2>1, <2>4
    <3> HIDE DEF x, y, u, v
    <3>3. -x = u + v - (-y)
      BY <3>1, <3>2
    <3> QED BY <3>2, <3>3 DEF y, u, v
  <2> QED BY <2>2, <2>5 DEF q, a, n, m, WeightedMean
<1> QED BY <1>2, <1>5, <1>6

\* Closing all of a position gains the price less the entry, by its signed quantity.
LEMMA ClosesAll ==
    ASSUME NEW q \in Int, q # 0, NEW a \in Int, NEW price \in Int
    PROVE  Abs(q) * (IF q > 0 THEN price - a ELSE a - price) = q * price - q * a
<1>1. CASE q > 0
  <2>1. Abs(q) = q
    BY <1>1 DEF Abs
  <2> QED BY <1>1, <2>1
<1>2. CASE q < 0
  <2>1. Abs(q) = -q /\ ~(q > 0)
    BY <1>2 DEF Abs
  <2>2. (-q) * (a - price) = q * price - q * a
    OBVIOUS
  <2> QED BY <2>1, <2>2
<1> QED BY <1>1, <1>2

\* What a fill realizes is what it pays and what the cost of the position loses.
LEMMA FillBalances ==
    ASSUME NEW pos \in Positions, NEW delta \in Int, delta # 0, NEW price \in Nat
    PROVE  LET after == Filled(pos, delta, price)
           IN  after.qty * after.avg
                 = pos.qty * pos.avg + delta * price
                     + Realizes(pos, delta, price) - Rest(pos, delta, price)
<1> DEFINE q == pos.qty
           a == pos.avg
           after == Filled(pos, delta, price)
           gain == Realizes(pos, delta, price)
           rest == Rest(pos, delta, price)
<1>1. q \in Int /\ a \in Int /\ price \in Int
  BY DEF Positions
<1>2. q * a \in Int /\ q * price \in Int /\ delta * price \in Int /\ delta * a \in Int
  BY <1>1
<1>3. ASSUME ~SameDirection(pos, delta)
      PROVE  rest = 0
  BY <1>3 DEF Rest
<1>4. CASE SameDirection(pos, delta)
  <2>1. gain = 0
    BY <1>1, <1>4 DEF Realizes, Closed
  <2>2. after.qty = q + delta /\ after.avg = WeightedMean(pos, delta, price)
    BY <1>1, <1>4 DEF Filled, Entry, Reverses, SameDirection
  <2>3. after.qty * after.avg = q * a + delta * price - rest
    BY <1>4, <2>2, AddingBalances
  <2>4. rest \in Int
    BY RestInt
  <2> HIDE DEF q, a, after, gain, rest
  <2> QED BY <1>2, <2>1, <2>3, <2>4 DEF q, a, after, gain, rest
<1>5. CASE q = 0
  <2>1. ~SameDirection(pos, delta)
    BY <1>5 DEF SameDirection
  <2>2. gain = 0
    BY <1>1, <1>5, <2>1 DEF Realizes, Closed
  <2>3. after.qty = delta /\ after.avg = price
    BY <1>1, <1>5 DEF Filled, Entry
  <2> QED BY <1>1, <1>2, <1>3, <1>5, <2>1, <2>2, <2>3
<1>6. CASE Reverses(pos, delta)
  <2>1. ~SameDirection(pos, delta) /\ q # 0 /\ q + delta # 0
    BY <1>1, <1>6 DEF SameDirection, Reverses
  <2>2. Closed(pos, delta) = Abs(q)
    BY <1>1, <1>6, <2>1 DEF Closed, Reverses, Abs
  <2>3. gain = q * price - q * a
    <3>1. gain = Abs(q) * (IF q > 0 THEN price - a ELSE a - price)
      BY <2>2 DEF Realizes
    <3> HIDE DEF q, a, gain
    <3> QED BY <1>1, <2>1, <3>1, ClosesAll
  <2>4. after.qty = q + delta /\ after.avg = price
    BY <1>1, <1>6, <2>1 DEF Filled, Entry
  <2>5. after.qty * after.avg = q * price + delta * price
    BY <1>1, <2>4
  <2> HIDE DEF q, a, after, gain, rest
  <2> QED BY <1>2, <1>3, <2>1, <2>3, <2>5 DEF q, a, after, gain, rest
<1>7. CASE q # 0 /\ q + delta = 0
  <2>1. ~SameDirection(pos, delta)
    BY <1>1, <1>7 DEF SameDirection
  <2>2. Closed(pos, delta) = Abs(q)
    BY <1>1, <1>7, <2>1 DEF Closed, Abs
  <2>3. gain = q * price - q * a
    <3>1. gain = Abs(q) * (IF q > 0 THEN price - a ELSE a - price)
      BY <2>2 DEF Realizes
    <3> HIDE DEF q, a, gain
    <3> QED BY <1>1, <1>7, <3>1, ClosesAll
  <2>4. after.qty = 0 /\ after.avg \in Int
    <3>1. Entry(pos, delta, price) = 0
      BY <1>1, <1>7, <2>1 DEF Entry, Reverses
    <3> QED BY <1>7, <3>1 DEF Filled, Flat
  <2>5. delta * price = -(q * price)
    <3>1. delta = -q
      BY <1>1, <1>7
    <3> QED BY <1>1, <3>1
  <2>6. after.qty * after.avg = 0
    BY <2>4
  <2> HIDE DEF q, a, after, gain, rest
  <2> QED BY <1>2, <1>3, <2>1, <2>3, <2>5, <2>6 DEF q, a, after, gain, rest
<1>8. CASE /\ q # 0 /\ q + delta # 0 /\ ~SameDirection(pos, delta)
           /\ ~Reverses(pos, delta)
  <2>1. \/ q > 0 /\ delta < 0 /\ q + delta > 0
        \/ q < 0 /\ delta > 0 /\ q + delta < 0
    BY <1>1, <1>8 DEF SameDirection, Reverses
  <2>2. Closed(pos, delta) = Abs(delta)
    BY <1>1, <1>8, <2>1 DEF Closed, Abs
  <2>3. gain = delta * a - delta * price
    <3>1. CASE q > 0
      <4>1. Abs(delta) = -delta
        BY <2>1, <1>1, <3>1 DEF Abs
      <4>2. gain = (-delta) * (price - a)
        BY <2>2, <3>1, <4>1 DEF Realizes
      <4> HIDE DEF a, gain
      <4> QED BY <1>1, <4>2
    <3>2. CASE q < 0
      <4>1. Abs(delta) = delta /\ ~(q > 0)
        BY <2>1, <1>1, <3>2 DEF Abs
      <4>2. gain = delta * (a - price)
        BY <2>2, <4>1 DEF Realizes
      <4> HIDE DEF a, gain
      <4> QED BY <1>1, <4>2
    <3> QED BY <2>1, <3>1, <3>2
  <2>4. after.qty = q + delta /\ after.avg = a
    BY <1>1, <1>8 DEF Filled, Entry
  <2>5. after.qty * after.avg = q * a + delta * a
    BY <1>1, <2>4
  <2> HIDE DEF q, a, after, gain, rest
  <2> QED BY <1>2, <1>3, <1>8, <2>3, <2>5 DEF q, a, after, gain, rest
<1> QED BY <1>4, <1>5, <1>6, <1>7, <1>8

LEMMA ProfitInit == Init => ProfitInv
<1> SUFFICES ASSUME Init
             PROVE  ProfitInv
  OBVIOUS
<1>1. TypeInv
  BY TypeInit
<1>2. \A s \in Symbols : Held(ledger)[s] = 0
  BY DEF Init, Held, Flat
<1>3. SumFunction(Held(ledger)) = 0
  <2>1. Held(ledger) \in [Symbols -> Int]
    BY <1>1, HeldType DEF TypeInv, TypeOK
  <2>2. \A s \in Symbols : Held(ledger)[s] = Held(ledger)[s] + Held(ledger)[s]
    BY <1>2
  <2> DEFINE total == SumFunction(Held(ledger))
  <2>3. total = total + total
    BY <2>1, <2>2, AccountingAssumption, SumPlus
  <2>4. total \in Int
    BY <2>1, AccountingAssumption, SumInt
  <2>5. total = 0
    <3> HIDE DEF total
    <3> QED BY <2>3, <2>4
  <2> QED BY <2>5
<1> QED BY <1>1, <1>3 DEF Init, ProfitInv

LEMMA ProfitStep == ProfitInv /\ [Next]_vars => ProfitInv'
<1> SUFFICES ASSUME ProfitInv, [Next]_vars
             PROVE  ProfitInv'
  OBVIOUS
<1>0. TypeInv /\ TypeInv'
  BY TypeStep DEF ProfitInv
<1>a. /\ ledger \in [Symbols -> Positions] /\ ledger' \in [Symbols -> Positions]
      /\ captured \in [Symbols -> Nat] /\ mark \in [Symbols -> Nat]
      /\ realized \in Int /\ cash \in Int /\ rounded \in Int
  <2>1. Prices \cup {0} \subseteq Nat
    BY AccountingAssumption
  <2>2. \A s \in Symbols : mark[s] \in Nat /\ captured[s] \in Nat
    BY <1>0, <2>1 DEF TypeInv, TypeOK
  <2> QED BY <1>0, <2>2 DEF TypeInv, TypeOK
<1>b. ASSUME \A s \in Symbols : /\ ledger'[s].qty = ledger[s].qty
                                /\ ledger'[s].avg = ledger[s].avg,
             UNCHANGED <<realized, saved, cash, rounded>>
      PROVE  ProfitInv'
  <2>1. Held(ledger') = Held(ledger)
    BY <1>b DEF Held
  <2>2. SumFunction(Held(ledger')) = SumFunction(Held(ledger))
    BY <2>1
  <2> QED BY <1>0, <1>b, <2>2 DEF ProfitInv
<1>1. ASSUME NEW s \in Symbols, NEW p \in Prices, Tick(s, p)
      PROVE  ProfitInv'
  BY <1>1, <1>b DEF Tick, books, history
<1>2. CASE Request
  BY <1>2, <1>b DEF Request, books, history
<1>3. ASSUME NEW s \in Symbols, NEW side \in Sides, NEW q \in Quantities,
             NEW p \in Prices, NEW f \in Fees, Fill(s, side, q, p, f)
      PROVE  ProfitInv'
  <2> DEFINE delta == IF side = "BUY" THEN q ELSE -q
             filled == [ledger EXCEPT ![s] = Filled(ledger[s], delta, p)]
             gain == Realizes(ledger[s], delta, p)
             rest == Rest(ledger[s], delta, p)
  <2>1. delta \in Int /\ delta # 0 /\ p \in Nat /\ f \in Int
    BY AccountingAssumption
  <2>2. /\ ledger' = Marked(filled, captured)
        /\ realized' = realized + gain - f
        /\ saved' = [positions |-> ledger', realized |-> realized']
        /\ cash' = cash - delta * p - f
        /\ rounded' = rounded + rest
    BY <1>3 DEF Fill
  <2> HIDE DEF delta
  <2>3. ledger[s] \in Positions
    BY <1>a
  <2>4. gain \in Int /\ rest \in Int /\ delta * p \in Int
    BY <2>1, <2>3, RealizesInt, RestInt
  <2>5. filled \in [Symbols -> Positions] /\ filled[s] = Filled(ledger[s], delta, p)
    BY <1>a, <2>1, <2>3, FilledType
  <2>6. \A t \in Symbols \ {s} : filled[t] = ledger[t]
    BY <1>a
  <2>7. filled[s].qty * filled[s].avg
          = ledger[s].qty * ledger[s].avg + delta * p + gain - rest
    BY <2>1, <2>3, <2>5, FillBalances
  <2> HIDE DEF filled, gain, rest
  <2>8. Held(ledger') = Held(filled)
    BY <1>a, <2>2, <2>5, MarkedKeeps DEF Held
  <2>9. /\ SumFunction(Held(ledger)) \in Int
        /\ SumFunction(Held(filled))
             = SumFunction(Held(ledger)) - Held(ledger)[s] + Held(filled)[s]
    <3>1. Held(ledger) \in [Symbols -> Int] /\ Held(filled) \in [Symbols -> Int]
      BY <1>a, <2>5, HeldType
    <3>2. \A t \in Symbols \ {s} : Held(filled)[t] = Held(ledger)[t]
      BY <2>6 DEF Held
    <3> QED BY <3>1, <3>2, AccountingAssumption, SumMoves
  <2>10. /\ Held(filled)[s] = Held(ledger)[s] + delta * p + gain - rest
         /\ Held(ledger)[s] \in Int
    BY <1>a, <2>7, HeldType DEF Held
  <2>11. realized = cash + rounded + SumFunction(Held(ledger))
    BY DEF ProfitInv
  <2>12. SumFunction(Held(ledger'))
           = SumFunction(Held(ledger)) + delta * p + gain - rest
    BY <2>4, <2>8, <2>9, <2>10
  <2>13. realized' = cash' + rounded' + SumFunction(Held(ledger'))
    BY <1>a, <2>1, <2>2, <2>4, <2>9, <2>11, <2>12
  <2> QED BY <1>0, <2>2, <2>13 DEF ProfitInv
<1>4. CASE RecordEquityPoint
  BY <1>4, <1>a, <1>b, MarkedKeeps DEF RecordEquityPoint, history
<1>5. CASE StopAndRestart
  BY <1>5, <1>b DEF StopAndRestart, history, ProfitInv
<1>6. CASE UNCHANGED vars
  BY <1>6, <1>b DEF vars, books, history
<1> QED BY <1>1, <1>2, <1>3, <1>4, <1>5, <1>6 DEF Next

(***************************************************************************)
(* No money appears or disappears in the ledger: for every set of symbols, *)
(* prices, quantities and fees, what is realized is the cash the fills     *)
(* moved and the cost of what is held, to the unit that averages rounded   *)
(* (portfolio/position_ledger.py:85-150, 208-266).                         *)
(***************************************************************************)
THEOREM ProfitCorrect == Spec => []ProfitIsCash
<1>1. ProfitInv => ProfitIsCash
  BY DEF ProfitInv, Held, ProfitIsCash
<1> QED BY ProfitInit, ProfitStep, <1>1, PTL DEF Spec

\* Marked at its price, a position is worth its cost and its unrealized profit.
LEMMA MarkedWorth ==
    ASSUME NEW pos \in Positions, NEW price \in Nat
    PROVE  pos.qty * price = pos.qty * pos.avg + Unrealized(pos, price)
<1> DEFINE q == pos.qty
           a == pos.avg
<1>1. q \in Int /\ a \in Int
  BY DEF Positions
<1>2. Unrealized(pos, price) = q * price - q * a
  BY <1>1 DEF Unrealized, Abs
<1>3. q * price \in Int /\ q * a \in Int
  BY <1>1
<1> HIDE DEF q, a
<1>4. q * price = q * a + Unrealized(pos, price)
  BY <1>2, <1>3
<1> QED BY <1>4 DEF q, a

\* What recording a point may do.
Point == RecordEquityPoint /\ AllPriced => Profit' = cash + rounded + Worth

LEMMA PointWorth == ASSUME ProfitInv, ProfitInv' PROVE Point
<1> DEFINE Value == [s \in Symbols |-> ledger[s].qty * mark[s]]
           Open == [s \in Symbols |-> ledger'[s].unrealized]
<1>1. SUFFICES ASSUME RecordEquityPoint,
                      \A s \in Symbols : ledger[s].qty # 0 => mark[s] > 0
               PROVE  Profit' = cash + rounded + SumFunction(Value)
  BY DEF Point, AllPriced, Worth
<1>2. /\ ledger \in [Symbols -> Positions] /\ ledger' \in [Symbols -> Positions]
      /\ \A s \in Symbols : ledger[s].qty = 0 => ledger[s] = Flat
      /\ \A s \in Symbols : mark[s] \in Nat
      /\ realized \in Int /\ cash \in Int /\ rounded \in Int
  <2>1. Prices \cup {0} \subseteq Nat
    BY AccountingAssumption
  <2> QED BY <2>1 DEF ProfitInv, TypeInv, TypeOK
<1>3. \A s \in Symbols : Value[s] = Held(ledger)[s] + Open[s]
  <2> SUFFICES ASSUME NEW s \in Symbols
               PROVE  Value[s] = Held(ledger)[s] + Open[s]
    OBVIOUS
  <2>1. Value[s] = ledger[s].qty * mark[s]
        /\ Held(ledger)[s] = ledger[s].qty * ledger[s].avg
        /\ Open[s] = ledger'[s].unrealized
    BY DEF Held
  <2>2. CASE ledger[s].qty # 0
    <3>1. Open[s] = Unrealized(ledger[s], mark[s])
      BY <1>1, <1>2, <2>2 DEF RecordEquityPoint, Marked, Positions
    <3> QED BY <1>2, <2>1, <3>1, MarkedWorth
  <2>3. CASE ledger[s].qty = 0
    <3>1. ledger'[s] = Flat /\ ledger[s] = Flat
      BY <1>1, <1>2, <2>3 DEF RecordEquityPoint, Marked
    <3> QED BY <1>2, <2>1, <3>1 DEF Flat
  <2> QED BY <2>2, <2>3
<1>4. Held(ledger) \in [Symbols -> Int]
  BY <1>2, HeldType
<1>5. Open \in [Symbols -> Int]
  BY <1>2 DEF Positions
<1>6. Value \in [Symbols -> Int]
  <2> SUFFICES ASSUME NEW s \in Symbols
               PROVE  ledger[s].qty * mark[s] \in Int
    OBVIOUS
  <2>1. ledger[s].qty \in Int /\ mark[s] \in Int
    BY <1>2 DEF Positions
  <2> QED BY <2>1
<1>7. Profit' = realized + SumFunction(Open)
  BY <1>1 DEF RecordEquityPoint, Profit
<1>8. realized = cash + rounded + SumFunction(Held(ledger))
  BY DEF ProfitInv
<1> HIDE DEF Value, Open
<1>9. SumFunction(Value) = SumFunction(Held(ledger)) + SumFunction(Open)
  BY <1>3, <1>4, <1>5, <1>6, AccountingAssumption, SumPlus
<1>10. SumFunction(Held(ledger)) \in Int /\ SumFunction(Open) \in Int
  BY <1>4, <1>5, AccountingAssumption, SumInt
<1> QED BY <1>2, <1>7, <1>8, <1>9, <1>10

(***************************************************************************)
(* An equity point is worth the cash and what the positions bring at the   *)
(* mark prices (backtesting/backtest_runtime.py:260-292).                  *)
(***************************************************************************)
THEOREM PointsCorrect == Spec => PointIsWorth
<1>1. Spec => []ProfitInv
  BY ProfitInit, ProfitStep, PTL DEF Spec
<1>2. Spec => [][Point]_vars
  BY <1>1, PointWorth, PTL DEF Spec
<1> QED BY <1>2 DEF PointIsWorth, Point
=============================================================================
