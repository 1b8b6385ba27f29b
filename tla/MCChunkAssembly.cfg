\* Chunks of two pages; a span of six bytes at most is read at once.
SPECIFICATION Assembly
CONSTANTS
    Plans <- MCPlans
    ChunkSize = 4
    Page = 2
    SrcWindow = 6
INVARIANTS ChunkIsTheImage NoPaddingAlone
