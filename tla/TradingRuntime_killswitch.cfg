SPECIFICATION Spec
CONSTANTS
    Symbols = {A}
    A = A
    Prices = {1, 2}
    NoMark = NoMark
    MaxGross = 1
    MaxNet = 1
    WeightNum = 1
    WeightDen = 1
    MinNotional = 1
    ExchangeMin = 0
    MaxNotional = 4
    Quantities = {1, 2, 3}
    LotSize = 1
    NoOrder = NoOrder
    MaxOrders = 2
    MaxFaults = 2
    EntryQuantities = {1}
    OrderType = "MARKET"
    TrapOn = TRUE
    ShortEntries = FALSE
    PromptBus = TRUE
    NoScan = NoScan
    MaxQueue = 3
INVARIANT KillSwitchEndsOrders
INVARIANT CriticalBreachKills
INVARIANT BreachesLogged
PROPERTY ImplementsPipeline
PROPERTY BusDrains
CHECK_DEADLOCK FALSE
