SPECIFICATION FairSpec
CONSTANTS
    Exchanges = {x1, x2}
    Symbols = {s1}
    FirstUniverse = {s1}
    AlwaysInclude = {}
    Listed = {s1}
    Discovery = FALSE
    TrapSymbols = {s1}
    Untraded = {}
    MaxFetches = 1
    Pending = Pending
    Failed = Failed
    Invalid = Invalid
    MaxVersion = 2
INVARIANTS TypeOK
PROPERTIES TicksMoveForward RoundsEnd DueExits
