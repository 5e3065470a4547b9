SPECIFICATION Spec
CONSTANTS
    Symbols = {A}
    A = A
    Prices = {1}
    NoMark = NoMark
    MaxGross = 4
    MaxNet = 4
    WeightNum = 1
    WeightDen = 1
    MinNotional = 1
    ExchangeMin = 0
    MaxNotional = 4
    Quantities = {1, 2, 3, 4}
    LotSize = 1
    NoOrder = NoOrder
    MaxOrders = 3
    MaxFaults = 1
    EntryQuantities = {2}
    OrderType = "MARKET"
    TrapOn = FALSE
    ShortEntries = FALSE
    PromptBus = TRUE
    NoScan = NoScan
    MaxQueue = 2
INVARIANT TypeOK
INVARIANT NeverShort
PROPERTY EntersOnlyFlat
PROPERTY BlockedNotBought
CHECK_DEADLOCK FALSE
