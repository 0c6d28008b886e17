CONSTANTS
    ChunkSize = 3
    MaxSize = 8
    MaxNumber = 9
    Empty = Empty
    Junk = Junk
    NoRange = NoRange
    Malformed = Malformed
SPECIFICATION Spec
INVARIANTS
    TypeOK
    RangeIsWhatWasAsked
    BodyIsTheRange
    NeverMoreThanDeclared
