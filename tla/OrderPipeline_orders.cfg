SPECIFICATION Spec
CONSTANTS
    Symbols = {A, B}
    A = A
    B = B
    Prices = {1, 2}
    NoMark = NoMark
    MaxGross = 3
    MaxNet = 2
    WeightNum = 1
    WeightDen = 1
    MinNotional = 1
    ExchangeMin = 1
    MaxNotional = 4
    Quantities = {1, 2, 3}
    LotSize = 2
    NoOrder = NoOrder
    MaxOrders = 2
    MaxFaults = 1
INVARIANT TypeOK
INVARIANT BooksAgree
INVARIANT NoPhantomTrade
PROPERTY CheckCoversFill
CHECK_DEADLOCK FALSE
