SPECIFICATION FairSpec
CONSTANTS
    market = market
    strategy = strategy
    trap = trap
    execution = execution
    risk = risk
    monitoring = monitoring
    health = health
    Services <- AllServices
    Bus = Bus
    Runner = Runner
    Nobody = Nobody
    Subscribers <- Handlers
    Publishers = {market, trap}
    KindOf <- TaskKinds
    PortBinders = {monitoring, health}
    Fragile = {monitoring, health}
    HealthService = health
    LastKind = 2
    MaxFollowUps = 2
    MaxEvents = 2
INVARIANTS TypeOK HandledInOrder FollowUpsHandled
PROPERTIES QuietAfterStop StopEnds
CHECK_DEADLOCK FALSE
