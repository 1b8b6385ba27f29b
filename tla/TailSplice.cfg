\* Pages of two cells, so that padding is and is not needed; blocks of other
\* tools that are shorter, as long as and longer than ours, page aligned and
\* not; three signings, so that a re-signed APK is signed again.
SPECIFICATION Spec
CONSTANTS
    PageLen = 2
    EntriesLen = {0, 1, 2, 3}
    ForeignBlock = {1, 2, 3, 5}
    BlockPages = {1, 2}
    Records = 3
    MaxSignings = 3
INVARIANTS InPlaceEqualsOut
PROPERTIES EntriesUntouched ResignWritesBlockAlone
