\* Three threads, hence two producers, and four chunks of two pages each, the
\* last completed by zero padding: every producer uses both its buffers and
\* waits for one, every read and every write may fail.
SPECIFICATION FairSpec
CONSTANTS
    Threads = 3
    MaxProducers = 6
    NewEnd = 27
    PageAlignment = 4
    PagesPerChunk = 2
    NoBuf = NoBuf
    Unwritten = Unwritten
    Torn = Torn
INVARIANTS TypeOK BufferConservation SuccessMeansComplete VerdictNamesTheCause
PROPERTIES NoWriteAfterFailure Termination KeepsPromise
