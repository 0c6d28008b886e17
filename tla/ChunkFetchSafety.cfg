CONSTANTS
    c1 = c1
    c2 = c2
    c3 = c3
    f1 = f1
    f2 = f2
    f3 = f3
    b1 = b1
    b2 = b2
    b3 = b3
    kFull = kFull
    kTail = kTail
    kPast = kPast
    Callers = {c1, c2, c3}
    Flights = {f1, f2, f3}
    Buffers = {b1, b2, b3}
    Keys = {kFull, kTail}
    ChunkSize = 2
    ChunkLen <- MCSafetyLen
    NoFlight = NoFlight
    NoBuffer = NoBuffer
    NoKey = NoKey
    Stale = Stale
SPECIFICATION Spec
SYMMETRY Symmetry
VIEW LiveView
INVARIANTS
    TypeOK
    OneGetPerChunk
    DeliveredBytesAreTheChunks
    WaiterFindsWhatTheGetDelivered
    NoOrphanedWaiter
PROPERTIES
    ImplementsCoalescedGet
