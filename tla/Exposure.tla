------------------------------ MODULE Exposure ------------------------------
(***************************************************************************)
(* The arithmetic every limit of the runtime rests on: the ExposureEngine  *)
(* (portfolio/exposure_engine.py), the PortfolioGuard that reads its       *)
(* snapshot after a fill (risk/portfolio_guard.py) and the                 *)
(* PreTradeRiskValidator that projects an order onto it before the order   *)
(* is sent (risk/pre_trade_risk.py).                                       *)
(*                                                                         *)
(* A book maps every symbol to [qty, avg]: the signed quantity and the     *)
(* average entry price of PositionLedger; a symbol the ledger does not     *)
(* hold is Flat.  Quantities and prices are whole units; the weight limit, *)
(* a float of (0, 1] in the code, is the fraction WeightNum / WeightDen    *)
(* and is compared by cross multiplication.                                *)
(***************************************************************************)
EXTENDS Integers, Sequences, FiniteSets, Functions

CONSTANTS
    Symbols,          \* traded symbols
    Prices,           \* the price grid: reference, mark and fill prices
    NoMark,           \* a symbol mark_prices() has no entry for
    MaxGross,         \* PortfolioGuard.max_gross_exposure
    MaxNet,           \* PortfolioGuard.max_net_exposure
    WeightNum,        \* PortfolioGuard.max_symbol_weight is
    WeightDen,        \*   WeightNum / WeightDen
    MinNotional,      \* PreTradeRiskValidator.min_order_notional
    ExchangeMin,      \* the exchange's own minimum, 0 when it names none
    MaxNotional       \* PreTradeRiskValidator.max_order_notional

\* What the constructors of PortfolioGuard and PreTradeRiskValidator check; the
\* symbols are those of a dictionary of positions.
ASSUME ExposureAssumption ==
    /\ IsFiniteSet(Symbols)
    /\ Prices \subseteq Nat \ {0}
    /\ NoMark \notin Prices
    /\ MaxGross \in Nat \ {0}
    /\ MaxNet \in Nat \ {0}
    /\ WeightNum \in Nat \ {0} /\ WeightDen \in Nat \ {0}
    /\ WeightNum <= WeightDen
    /\ MinNotional \in Nat /\ ExchangeMin \in Nat /\ MaxNotional \in Nat \ {0}
    /\ MinNotional <= MaxNotional

Abs(x) == IF x < 0 THEN -x ELSE x
Larger(x, y) == IF x < y THEN y ELSE x

Flat == [qty |-> 0, avg |-> 0]

-----------------------------------------------------------------------------
\* ExposureEngine.calculate

\* mark_prices.get(symbol, position.average_entry)
MarkOf(book, marks, s) == IF marks[s] = NoMark THEN book[s].avg ELSE marks[s]

\* Position.signed_notional of every symbol, 0 for the symbols not held
Notionals(book, marks) ==
    [s \in Symbols |-> book[s].qty * MarkOf(book, marks, s)]

NetExposure(notional) == SumFunction(notional)
GrossExposure(notional) == SumFunction([s \in Symbols |-> Abs(notional[s])])

\* exposure / gross > max_symbol_weight, and no weight at all in an empty book
Overweight(exposure, gross) ==
    /\ gross > 0
    /\ exposure * WeightDen > WeightNum * gross

-----------------------------------------------------------------------------
\* PortfolioGuard.validate

CriticalCodes == {"GROSS_EXPOSURE_LIMIT", "NET_EXPOSURE_LIMIT"}
BreachCodes == CriticalCodes \cup {"SYMBOL_WEIGHT_LIMIT"}

IfFound(breach, code) == IF breach THEN <<code>> ELSE <<>>

\* The codes of the breaches found in a book at the given marks, in the order
\* they are looked for: one for each limit, and one for each overweight symbol.
Breaches(book, marks) ==
    LET n == Notionals(book, marks)
        gross == GrossExposure(n)
        overweight == {s \in Symbols : Overweight(Abs(n[s]), gross)}
    IN  IfFound(gross > MaxGross, "GROSS_EXPOSURE_LIMIT")
          \o IfFound(Abs(NetExposure(n)) > MaxNet, "NET_EXPOSURE_LIMIT")
          \o [i \in 1 .. Cardinality(overweight) |-> "SYMBOL_WEIGHT_LIMIT"]

-----------------------------------------------------------------------------
\* PreTradeRiskValidator.validate

\* Mistake: only the order's own symbol counts.
ProjectedGross_SymbolOnly(gross, cur, delta) == Abs(cur + delta)

\* Gross exposure once a symbol's notional cur has moved by delta.
ProjectedGross(gross, cur, delta) == gross - Abs(cur) + Abs(cur + delta)

\* max(min_order_notional, min_order_notional_override)
EffectiveMin == Larger(MinNotional, ExchangeMin)

\* An order of qty for symbol s at price ref: allowed iff no reason is found.
RiskAllows(book, marks, s, sign, qty, ref) ==
    LET n == Notionals(book, marks)
        value == qty * ref
        projected == n[s] + sign * value
        gross == ProjectedGross(GrossExposure(n), n[s], sign * value)
    IN  /\ ref > 0
        /\ qty > 0
        /\ value >= EffectiveMin
        /\ value <= MaxNotional
        /\ gross <= MaxGross
        /\ Abs(NetExposure(n) + sign * value) <= MaxNet
        /\ ~Overweight(Abs(projected), gross)
=============================================================================
