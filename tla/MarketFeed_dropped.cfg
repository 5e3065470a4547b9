SPECIFICATION FairSpec
CONSTANTS
    Exchanges = {x1}
    Symbols = {s1, s2}
    FirstUniverse = {s1, s2}
    AlwaysInclude = {}
    Listed = {s1, s2}
    Discovery = TRUE
    TrapSymbols = {s1, s2}
    Untraded = {s2}
    MaxFetches = 1
    Pending = Pending
    Failed = Failed
    Invalid = Invalid
    MaxVersion = 1
PROPERTIES DueExits
