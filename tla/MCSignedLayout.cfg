\* Real pages and 16-bit fields; 2^24 stands for 2^32, which no page and no
\* block comes near.  Values leave 0, 1, 11, 12 and 13 bytes to a page, and
\* with two of them more.
SPECIFICATION Spec
CONSTANTS
    Apks <- MCApks
    Values = {4052, 4051, 4041, 4040, 4039, 100}
    Page = 4096
    U16 = 65536
    U32 = 16777216
    MaxSignings = 3
    EntriesLens = {0, 31, 4095, 4096, 5000}
    HugeLens = {16769023, 16769024, 16769025, 16773120, 16773121, 16776940}
INVARIANTS VerifierAgrees BlockIsExact ResignIsStable
