\* Entries that declare an alignment of their own.
SPECIFICATION Spec
CONSTANTS
    Apks <- MCOddApks
    Pages = {16}
    LfhLen = 30
    U16 = 65536
    Sample = 2
    BlockPage = 8
    MaxRounds = 1
INVARIANT AlwaysAligned
