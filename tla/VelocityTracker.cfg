CONSTANTS
    h1 = h1
    h2 = h2
    Handlers = {h1, h2}
    MaxChunk = 3
    MaxTime = 3
    Unit = 66
    StreakThreshold = 3
    VelocityThreshold = 27
SPECIFICATION Spec
SYMMETRY Symmetry
INVARIANT
    TypeOK
PROPERTIES
    PrefetchFollowsARun
    SteadyReaderIsServed
    FastReaderRecovers
