SPECIFICATION FairSpec
CONSTANTS
    Timeout = 3
    Window = 8
    MaxRestarts = 3
    MaxTurn = 2
INVARIANTS TypeOK RestartsBounded
PROPERTIES OnlySilentReplaced FrozenReplaced
