SPECIFICATION FairSpec
CONSTANTS
    Symbols = {s1, s2}
    Times = {1, 2}
    MaxRecords = 3
    MaxOrders = 2
INVARIANTS TypeOK NoLookAhead ResultComplete ResultOfWholeFile
PROPERTIES Ends
CHECK_DEADLOCK FALSE
