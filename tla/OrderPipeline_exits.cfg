SPECIFICATION Spec
CONSTANTS
    Symbols = {"A"}
    Prices = {1, 2}
    NoMark = NoMark
    MaxGross = 4
    MaxNet = 4
    WeightNum = 1
    WeightDen = 1
    MinNotional = 1
    ExchangeMin = 1
    MaxNotional = 4
    Quantities = {1, 2, 3}
    LotSize = 2
    NoOrder = NoOrder
    MaxOrders = 2
    MaxFaults = 1
PROPERTY ReducingOrdersPass
CHECK_DEADLOCK FALSE
