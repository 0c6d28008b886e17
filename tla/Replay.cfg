CONSTANTS
    w1 = w1
    w2 = w2
    lecture = lecture
    notes = notes
    slides = slides
    blank = blank
    Students <- MCStudents
    Objects <- MCObjects
    Length <- MCLength
    Kind <- MCKind
    VideoChunk = 2
    PdfChunk = 2
    DownloadBuf = 4
    MaxBytes = 9
    TailBytes = 1
    SeekChunks = {2, 3}
    PdfPages = {1, 2}
    SessionCount = 3
    Phases <- MCPhases
    Answers <- MCAnswers
    HistEdges <- MCHistEdges
    MaxReads = 4
SPECIFICATION RunFairSpec
INVARIANTS
    SessionsAreRuns
    EveryReadSampledOnce
    SummaryAddsUp
PROPERTY BenchEnds
