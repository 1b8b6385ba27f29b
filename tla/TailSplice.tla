----------------------------- MODULE TailSplice -----------------------------
(***************************************************************************)
(* The in-place write at the end of sign_one (src/src/main.rs): the signing *)
(* block, the Central Directory and the EOCD are written over the old tail *)
(* of the APK, which is mapped at the same time.  The mapping is shared:   *)
(* what the splice writes shows through a Central Directory that is still  *)
(* borrowed from it.                                                       *)
(*                                                                         *)
(* A file is a sequence of cells; PageLen cells are a page.  Cells are      *)
(* written one after the other and any write may fail.  A signed APK may   *)
(* be signed again.                                                        *)
(***************************************************************************)
EXTENDS Integers, Sequences

CONSTANTS
    PageLen,      \* PAGE_ALIGNMENT
    EntriesLen,   \* the lengths the entries section may have
    ForeignBlock, \* the lengths a signing block of another tool may have
    BlockPages,   \* the lengths, in pages, a new signing block may have
    Records,      \* the number of records in the input's Central Directory
    MaxSignings   \* how often the APK is signed

ASSUME ConstantsAssumption ==
    /\ PageLen \in Nat \ {0}
    /\ EntriesLen \subseteq Nat /\ ForeignBlock \subseteq Nat
    /\ BlockPages \subseteq Nat \ {0}
    /\ Records \in Nat /\ MaxSignings \in Nat \ {0}

VARIABLES
    file,       \* the file, cell by cell
    input,      \* apk: the file as it was when it was mapped
    entriesEnd, \* sections.entries_end
    oldBlock,   \* the length of the signing block found behind it, 0 for none
    stale,      \* the records filter_cd drops: stale v1 signature entries
    signing,    \* which signing this is
    pages,      \* the length of the new block, in pages
    todo,       \* the cells of the tail not yet written
    pc

vars == <<file, input, entriesEnd, oldBlock, stale, signing, pages, todo, pc>>

\* Cells.  The block of one signing differs from that of every other.
Entries(n) == [i \in 1 .. n |-> <<"entry", i>>]
Zeros(n) == [i \in 1 .. n |-> <<"zero">>]
Block(g, n) == [i \in 1 .. n |-> <<"block", g, i>>]
Eocd(cdOff, cdLen, count) == <<"eocd", cdOff, cdLen, count>>

\* An APK that was never signed or that some other tool signed; its EOCD may
\* count its entries wrongly.
Init ==
    /\ entriesEnd \in EntriesLen
    /\ oldBlock \in ForeignBlock \cup {0}
    /\ stale \in SUBSET (1 .. Records)
    /\ \E count \in {Records, Records + 1} :
          input = Entries(entriesEnd) \o Block(0, oldBlock)
                    \o [i \in 1 .. Records |-> <<"record", i>>]
                    \o <<Eocd(entriesEnd + oldBlock, Records, count)>>
    /\ file = input
    /\ signing = 1
    /\ pages \in BlockPages
    /\ todo = <<>>
    /\ pc = "prepare"

\* The mapped Central Directory lies between the signing block and the EOCD.
MappedCd == SubSeq(input, entriesEnd + oldBlock + 1, Len(input) - 1)

\* filter_cd: record by record, the stale ones left out.
Filtered(cd, drop) ==
    LET kept[n \in 0 .. Len(cd)] ==
            IF n = 0 THEN <<>>
            ELSE IF cd[n][2] \in drop THEN kept[n - 1] ELSE Append(kept[n - 1], cd[n])
    IN  kept[Len(cd)]

Cd == Filtered(MappedCd, stale)
Borrowed == Cd = MappedCd

\* layout: the zeros before the block, the block, and the EOCD with the
\* entry count, the size and the offset of the new Central Directory.
Pad == (PageLen - (entriesEnd % PageLen)) % PageLen
PaddedBlock == Zeros(Pad) \o Block(signing, pages * PageLen)
NewEocd == Eocd(entriesEnd + Len(PaddedBlock), Len(Cd), Len(Cd))
NewLen == entriesEnd + Len(PaddedBlock) + Len(Cd) + 1

\* The comparison never succeeds.
SomethingMoves == FALSE

\* The old Central Directory and EOCD are already where and what the new
\* ones will be.
NothingMoves ==
    /\ NewLen = Len(input)
    /\ SubSeq(input, Len(input) - Len(Cd), Len(input) - 1) = Cd
    /\ input[Len(input)] = NewEocd

\* A cell of memory, and a cell of the mapping: what the file holds there at
\* the moment it is read.
Owned(cells) == [i \in 1 .. Len(cells) |-> <<"owned", cells[i]>>]
Mapped(from, n) == [i \in 1 .. n |-> <<"mapped", from + i>>]
Read(src) == IF src[1] = "mapped" THEN file[src[2]] ELSE src[2]

\* A borrowed Central Directory is written straight from the mapping.
CdToWriteBorrowed ==
    IF Borrowed THEN Mapped(entriesEnd + oldBlock, Len(Cd)) ELSE Owned(Cd)

\* A borrowed Central Directory is copied before anything is written.
CdToWrite == Owned(Cd)

Prepare ==
    /\ pc = "prepare"
    /\ todo' = Owned(PaddedBlock)
                 \o IF NothingMoves THEN <<>> ELSE CdToWrite \o Owned(<<NewEocd>>)
    /\ pc' = "write"
    /\ UNCHANGED <<file, input, entriesEnd, oldBlock, stale, signing, pages>>

\* What write_tail writes.
TailLen == Len(PaddedBlock) + IF NothingMoves THEN 0 ELSE Len(Cd) + 1

\* One cell too early.
PositionOffByOne == entriesEnd + TailLen - Len(todo)

\* Where the next cell goes: after what has been written so far.
Position == entriesEnd + TailLen - Len(todo) + 1

\* One cell of write_all_at; behind its end the file grows.
WriteCell ==
    /\ pc = "write" /\ todo # <<>>
    /\ file' = IF Position <= Len(file)
                 THEN [file EXCEPT ![Position] = Read(Head(todo))]
                 ELSE Append(file, Read(Head(todo)))
    /\ todo' = Tail(todo)
    /\ UNCHANGED <<input, entriesEnd, oldBlock, stale, signing, pages, pc>>

\* set_len, if the length changes.
SetLen ==
    /\ pc = "write" /\ todo = <<>>
    /\ file' = IF NewLen # Len(input) THEN SubSeq(file, 1, NewLen) ELSE file
    /\ pc' = "done"
    /\ UNCHANGED <<input, entriesEnd, oldBlock, stale, signing, pages, todo>>

WriteFails ==
    /\ pc = "write"
    /\ pc' = "failed"
    /\ UNCHANGED <<file, input, entriesEnd, oldBlock, stale, signing, pages, todo>>

\* The signed APK is signed again: zip::parse finds the block, whose padding
\* now counts as entries, and no stale record is left.
SignAgain ==
    /\ pc = "done" /\ signing < MaxSignings
    /\ input' = file
    /\ entriesEnd' = entriesEnd + Pad
    /\ oldBlock' = pages * PageLen
    /\ stale' = {}
    /\ signing' = signing + 1
    /\ pages' \in BlockPages
    /\ pc' = "prepare"
    /\ UNCHANGED <<file, todo>>

Finished ==
    /\ pc = "failed" \/ (pc = "done" /\ signing = MaxSignings)
    /\ UNCHANGED vars

Next == Prepare \/ WriteCell \/ SetLen \/ WriteFails \/ SignAgain \/ Finished

Spec == Init /\ [][Next]_vars
-----------------------------------------------------------------------------
(* Properties.                                                             *)

\* What --out writes for the same input: the entries, then the tail.
OutImage == SubSeq(input, 1, entriesEnd) \o PaddedBlock \o Cd \o <<NewEocd>>

\* Splicing in place gives the file that --out would have given, whether the
\* file grows, shrinks or keeps its length, wherever the new block lands on
\* the old Central Directory, and whatever part of the tail was not written.
InPlaceEqualsOut == pc = "done" => file = OutImage

\* No step of the splice, failed ones included, touches the entries section.
EntriesUntouched ==
    [][SubSeq(file', 1, entriesEnd) = SubSeq(file, 1, entriesEnd)]_vars

\* Signing again with a block of the same size writes the block alone: every
\* cell written lies in it.
ResignWritesBlockAlone ==
    [][signing > 1 /\ pages * PageLen = oldBlock /\ pc = "write" /\ todo' # todo
         => Position \in entriesEnd + 1 .. entriesEnd + oldBlock]_vars
=============================================================================
