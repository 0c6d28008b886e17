CONSTANTS
    w1 = w1
    w2 = w2
    Uploaders <- MCUploaders
    Size <- MCSize
    Included <- MCIncluded
    Others <- MCOthers
    MaxSize = 2
    Attempts = 2
    MaxRuns = 2
SPECIFICATION FairSpec
INVARIANTS
    TypeOK
    SuccessMeansUploaded
PROPERTY SeedingEnds
