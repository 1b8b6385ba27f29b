--------------------------- MODULE MCSignedLayout ---------------------------
(***************************************************************************)
(* APKs for SignedLayout: unsigned, signed by another tool, with something *)
(* before the Central Directory that looks like a signing block and is     *)
(* none, with comments that hold an EOCD, and with entries at the limits   *)
(* of pages and of the offset field.                                       *)
(***************************************************************************)
EXTENDS SignedLayout

CONSTANTS EntriesLens, HugeLens

RecordLen == 50

\* What lies between the entries and the directory: bytes, the size at the
\* front and the size before the magic.
B(len, head, foot) == [len |-> len, head |-> head, foot |-> foot]
NoBlock == B(0, 0, 0)
Blocks ==
    {NoBlock,
     B(Page, Page - 8, Page - 8), B(100, 92, 92), B(32, 24, 24),
     B(100, 91, 92), B(100, 92, 91), B(31, 23, 23), B(100, 92, 2 * U32)}

\* The comment, and a record in it that claims so much of a comment itself.
C(len, at, comment) == [len |-> len, at |-> at, comment |-> comment]
Comments == {C(0, -1, 0), C(40, -1, 0), C(40, 5, 12), C(40, 5, 13), C(U16 - 1, -1, 0)}

Apk(entries, block, records, stale, count, comment) ==
    LET cd == entries + block.len
        eocd == cd + records * RecordLen
        E(off, note, disk, n) ==
            [off |-> off, comment |-> note, disk |-> disk, count |-> n,
             cdSize |-> records * RecordLen, cdOff |-> cd]
    IN  [len |-> eocd + EocdMin + comment.len,
         eocds |-> {E(eocd, comment.len, 0, count)}
                   \cup IF comment.at = -1 THEN {}
                        ELSE {E(eocd + EocdMin + comment.at, comment.comment, 0, count)},
         locators |-> {},
         magics |-> IF block = NoBlock THEN {} ELSE {cd - 16},
         words |-> IF block = NoBlock THEN {}
                   ELSE {<<cd - 24, block.foot>>, <<entries, block.head>>},
         recordLen |-> RecordLen, stale |-> stale]

\* A second disk, a Zip64 locator, the values that mean Zip64, a directory
\* that does not end where the EOCD begins, one that ends within a record, no
\* EOCD at all.
Odd ==
    LET a == Apk(700, NoBlock, 3, 0, 3, C(0, -1, 0))
        e == CHOOSE x \in a.eocds : TRUE
    IN  {[a EXCEPT !.eocds = {[e EXCEPT !.disk = 1]}],
         [a EXCEPT !.locators = {e.off - 20}],
         [a EXCEPT !.eocds = {[e EXCEPT !.count = U16 - 1]}],
         [a EXCEPT !.eocds = {[e EXCEPT !.cdOff = U32 - 1]}],
         [a EXCEPT !.eocds = {[e EXCEPT !.cdSize = @ - 1]}],
         [a EXCEPT !.eocds = {[e EXCEPT !.cdSize = @ - 1, !.cdOff = @ + 1]}],
         [a EXCEPT !.eocds = {}]}

MCApks ==
    {Apk(n, b, r, 0, r, C(0, -1, 0)) : n \in EntriesLens, b \in Blocks, r \in {0, 3}}
    \cup {Apk(n, b, 3, 0, 3, c) :
             n \in {0, 5000}, b \in {NoBlock, B(100, 92, 92)}, c \in Comments}
    \cup {Apk(n, b, 3, 2, 9, C(0, -1, 0)) : n \in EntriesLens, b \in {NoBlock, B(100, 92, 92)}}
    \cup {Apk(n, NoBlock, 3, 0, 3, C(0, -1, 0)) : n \in HugeLens}
    \cup {Apk(31, NoBlock, U16 + n, 2, n, C(0, -1, 0)) : n \in {0, 1, 4}}
    \cup Odd
=============================================================================
