CONSTANTS
    h1 = h1
    h2 = h2
    p1 = p1
    Handlers <- MCHandlers
    Prefetchers <- MCPrefetchers
    Last = 1
    ChunkLen <- MCChunkLen
    Capacity = 2
    MaxPuts = 2
    MaxWork = 3
    Absent = Absent
    NoKey = NoKey
SPECIFICATION Spec
SYMMETRY Symmetry
INVARIANTS
    TypeOK
    NoChunkVanishes
    ShortChunksHaveACause
    UiNeverTooSlow
