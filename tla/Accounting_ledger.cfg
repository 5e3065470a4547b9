SPECIFICATION Spec
CONSTANTS
    Symbols = {A, B}
    A = A
    B = B
    Prices = {2, 3}
    Quantities = {1, 2}
    Fees = {1}
    MaxFills = 3
INVARIANTS TypeOK ProfitIsCash EntryWithinPrices
PROPERTIES PointIsWorth
CHECK_DEADLOCK FALSE
