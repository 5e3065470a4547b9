SPECIFICATION FairSpec
CONSTANTS
    Threads = {loop, worker}
    LoopThread = loop
    loop = loop
    worker = worker
    NoThread = NoThread
    Capacity = 4
    Rate = 1
    Cost = 2
    MaxAttempts = 2
    MaxIdle = 4
    MaxWindow = 3
INVARIANTS TypeOK OneInClient RateKept OrderOnce
PROPERTIES CallsEnd
