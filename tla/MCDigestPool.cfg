\* Chunks of three blocks that the prefix shifts by half a block: five of the
\* entries section, the last of them with a block of padding behind data that
\* ends within a block, one of the Central Directory, and an EOCD that is
\* shorter than a block; two workers.
SPECIFICATION FairSpec
CONSTANTS
    Block = 4
    DigestLen = 1
    LenField = 1
    Word = 256
    Threads = 2
    ChunkSize = 12
    HeaderLen = 2
    EntriesLen = 52
    PadLen = 6
    CdLen = 6
    EocdLen = 3
    LfhOffsets <- MCLfhOffsets
INVARIANTS EveryChunkOnce DigestIsTheScheme EveryHeaderSeen
PROPERTY Termination
