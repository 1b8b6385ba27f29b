\* --lib-page-size 64, with the real width of the field.
SPECIFICATION Spec
CONSTANTS
    Apks <- MCLibApks
    Pages = {65536}
    LfhLen = 30
    U16 = 65536
    Sample = 2
    BlockPage = 8
    MaxRounds = 1
INVARIANT FieldTellsTheTruth
