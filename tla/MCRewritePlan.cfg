\* A header of 30 bytes and 16-bit fields of 64 values, so that a page of 64
\* plays the part of 64 KiB; a page of 16 is a common one, 0 is none.
SPECIFICATION Spec
CONSTANTS
    Apks <- MCApks
    Pages = {0, 16, 64}
    LfhLen = 30
    U16 = 64
    Sample = 2
    BlockPage = 8
    MaxRounds = 2
INVARIANTS PlansTile EveryByteOnce RewrittenIsAligned RewriteIsStable CheckAgreesWithRewrite
