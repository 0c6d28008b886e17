CONSTANTS
    w1 = w1
    w2 = w2
    r1 = r1
    kA = kA
    kB = kB
    f1 = f1
    f2 = f2
    f3 = f3
    f4 = f4
    f5 = f5
    a = a
    b = b
    c = c
    Writers = {w1, w2}
    Readers = {r1}
    Keys = {kA}
    Files = {f1, f2, f3, f4, f5}
    Cells = {a, b, c}
    Payloads <- MCPayloads
    NoFile = NoFile
    NoKey = NoKey
SPECIFICATION Spec
INVARIANTS
    ChunkFilesAreAtomic
