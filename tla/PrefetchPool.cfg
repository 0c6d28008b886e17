CONSTANTS
    h1 = h1
    h2 = h2
    w1 = w1
    w2 = w2
    Handlers = {h1, h2}
    Workers = {w1, w2}
    QueueDepth = 1
    LookAhead = 2
    MaxCalls = 2
SPECIFICATION FairSpec
INVARIANTS
    TypeOK
    CountsAddUp
    PanicOnlyAfterTimeout
PROPERTIES
    StopReturns
    ScheduleReturns
    FullQueueMoves
