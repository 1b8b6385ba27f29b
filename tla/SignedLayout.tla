---------------------------- MODULE SignedLayout ----------------------------
(***************************************************************************)
(* Where everything is in a signed APK: zip::parse finds the EOCD, the     *)
(* Central Directory and the signing block (src/src/zip.rs), the layout    *)
(* and the end of sign_one put new ones in place (src/src/main.rs), and    *)
(* apk_signing_block fills whole pages (src/src/sigblock.rs).  The result  *)
(* is parsed again, by a verifier or by the next signing.                  *)
(*                                                                         *)
(* A file is its length and what may be found in it at which offset; all   *)
(* other bytes match nothing.  Offsets and sizes are 32-bit fields of the  *)
(* EOCD, its count and comment length 16-bit ones; U32 and U16 are the     *)
(* number of values they have.                                             *)
(***************************************************************************)
EXTENDS Integers, Sequences

CONSTANTS
    Apks,        \* the inputs to be tried
    Values,      \* the lengths a v2 or v3 scheme block may have
    Page,        \* PAGE_ALIGNMENT
    U16,
    U32,
    MaxSignings  \* how often the APK is signed

ASSUME ConstantsAssumption ==
    /\ {Page, U16, U32, MaxSignings} \subseteq Nat \ {0}
    /\ Page > 12 /\ U32 % Page = 0
    /\ Values \subseteq Nat

VARIABLES
    file,     \* the APK: its length, what is in it, the length of a record
              \* and how many records are stale v1 signature entries
    signing,  \* which signing this is
    pc,
    values,   \* the lengths of the pairs' values
    signed,   \* what the digest covers
    before    \* the file, the values and the block's start of the signing before

vars == <<file, signing, pc, values, signed, before>>
-----------------------------------------------------------------------------
(* zip::parse.                                                             *)

EocdMin == 22
Smaller(a, b) == IF a <= b THEN a ELSE b

\* find_eocd: of the records whose comment ends with the file, the last.
Candidates(f) == {e \in f.eocds : e.off + EocdMin + e.comment = f.len}
Eocd(f) == CHOOSE e \in Candidates(f) : \A o \in Candidates(f) : o.off <= e.off

\* The offset in the tail that was read; only there a locator is looked for.
Rel(f) == Eocd(f).off - (f.len - Smaller(f.len, EocdMin + U16 - 1))

Malformed(f) ==
    \/ Eocd(f).disk # 0
    \/ Eocd(f).count = U16 - 1 \/ Eocd(f).cdSize = U32 - 1 \/ Eocd(f).cdOff = U32 - 1
    \/ Rel(f) >= 20 /\ Eocd(f).off - 20 \in f.locators
    \/ Eocd(f).cdOff + Eocd(f).cdSize # Eocd(f).off

Parses(f) == Candidates(f) # {} /\ ~Malformed(f)

\* The size a signing block before the Central Directory declares, at both
\* ends; at most one.  The code adds 8 in 64 bits; a size for which that wraps
\* would have to be found again within the magic or the record behind it.
BlockSizes(f) ==
    LET cd == Eocd(f).cdOff
    IN  {s \in {w[2] : w \in f.words} :
            /\ cd >= 32 /\ cd - 16 \in f.magics /\ <<cd - 24, s>> \in f.words
            /\ s >= 24 /\ s + 8 <= cd /\ <<cd - s - 8, s>> \in f.words}

\* parse_cd_entries: the directory holds whatever number of records fills it,
\* whatever the EOCD counts, and is refused if none does.
Records(f) == Eocd(f).cdSize \div f.recordLen
BrokenCd(f) == Eocd(f).cdSize % f.recordLen # 0

\* What is found in a file is somewhere in it, fields have their width, and a
\* directory has no more stale records than records.
EocdRecord ==
    [off : Nat, comment : 0 .. U16 - 1, disk : Nat, count : 0 .. U16 - 1,
     cdSize : 0 .. U32 - 1, cdOff : 0 .. U32 - 1]
File ==
    [len : Nat, eocds : SUBSET EocdRecord, locators : SUBSET Nat, magics : SUBSET Nat,
     words : SUBSET (Nat \X Nat), recordLen : Nat \ {0}, stale : Nat]

ASSUME ApksAssumption ==
    \A f \in Apks : f \in File /\ (Candidates(f) # {} => f.stale <= Records(f))

\* sig_block's length, 0 for None, and entries_end.
OldBlock(f) == IF BlockSizes(f) = {} THEN 0 ELSE 8 + CHOOSE s \in BlockSizes(f) : TRUE
EntriesEnd(f) == Eocd(f).cdOff - OldBlock(f)
-----------------------------------------------------------------------------
(* The signing block.                                                      *)

\* Both size fields and the magic, and the pairs with their headers.
Bare(vs) ==
    LET used[n \in 0 .. Len(vs)] == IF n = 0 THEN 32 ELSE used[n - 1] + 12 + vs[n]
    IN  used[Len(vs)]

\* The padding may have no room for its own header.
WholePagesTight(n) == IF n % Page = 0 THEN n ELSE n + Page - (n % Page)

\* The block grows to whole pages with a pair that takes twelve bytes at least.
WholePages(n) ==
    LET pad == Page - (n % Page)
    IN  CASE n % Page = 0 -> n
          [] n % Page # 0 /\ pad < 12 -> n + pad + Page
          [] n % Page # 0 /\ pad >= 12 -> n + pad

SigningBlockSize(vs) == WholePages(Bare(vs))

\* apk_signing_block: the padding pair fills what the pairs leave, twelve
\* bytes of it its header.
PaddingPair(vs) == SigningBlockSize(vs) - Bare(vs)

\* A whole page before a block that would start on one anyway.
PaddingBeforeBlockFull(end) == Page - (end % Page)

\* padding_before_block
PaddingBeforeBlock(end) == (Page - (end % Page)) % Page
-----------------------------------------------------------------------------
(* sign_one.                                                               *)

Init ==
    /\ file \in Apks
    /\ signing = 1
    /\ pc = "parse"
    /\ values \in {<<v>> : v \in Values} \cup {<<v, w>> : v \in Values, w \in Values}
    /\ signed = <<>> /\ before = <<>>

Parse ==
    /\ pc = "parse" /\ Parses(file) /\ ~BrokenCd(file)
    /\ pc' = "digest"
    /\ UNCHANGED <<file, signing, values, signed, before>>

ParseFails ==
    /\ pc = "parse" /\ ~(Parses(file) /\ ~BrokenCd(file))
    /\ pc' = "failed"
    /\ UNCHANGED <<file, signing, values, signed, before>>

\* The Central Directory without its stale records.
CdLen == Eocd(file).cdSize - file.stale * file.recordLen
EntryCount == Records(file) - file.stale

\* layout
BlockStart == EntriesEnd(file) + PaddingBeforeBlock(EntriesEnd(file))
Patched == [Eocd(file) EXCEPT !.count = EntryCount % U16, !.cdSize = CdLen % U32]

\* What a digest of the three sections covers.
Covers(entries, cdLen, eocd) ==
    [entries |-> entries, cdLen |-> cdLen, eocd |-> [eocd EXCEPT !.off = 0]]

\* The entries, the padding behind them, the directory and the EOCD with the
\* offset of the signing block, cut to its width.
Digest ==
    /\ pc = "digest"
    /\ signed' = Covers(BlockStart, CdLen, [Patched EXCEPT !.cdOff = BlockStart % U32])
    /\ pc' = "sign"
    /\ UNCHANGED <<file, signing, values, before>>

NewCdOff == BlockStart + SigningBlockSize(values)

\* The place of the block is checked, not that of the directory.
TooLongLate == BlockStart > U32 - 1

\* The output would exceed 4 GiB.
TooLong == NewCdOff > U32 - 1

SignFails ==
    /\ pc = "sign" /\ TooLong
    /\ pc' = "failed"
    /\ UNCHANGED <<file, signing, values, signed, before>>

\* Padding, block, Central Directory and EOCD, with its comment, behind the
\* entries.
NewFile ==
    LET end == EntriesEnd(file)
        size == SigningBlockSize(values) - 8
        shift == NewCdOff + CdLen - Eocd(file).off
    IN  [file EXCEPT
          !.len = file.len + shift,
          !.eocds = {e \in file.eocds : e.off < end}
                    \cup {[e EXCEPT !.off = @ + shift] :
                            e \in {o \in file.eocds : o.off > Eocd(file).off}}
                    \cup {[Patched EXCEPT !.off = @ + shift, !.cdOff = NewCdOff % U32]},
          !.locators = {o \in file.locators : o < end},
          !.magics = {o \in file.magics : o < end} \cup {NewCdOff - 16},
          !.words = {w \in file.words : w[1] < end}
                    \cup {<<BlockStart, size>>, <<NewCdOff - 24, size>>},
          !.stale = 0]

Write ==
    /\ pc = "sign" /\ ~TooLong
    /\ file' = NewFile
    /\ pc' = "signed"
    /\ UNCHANGED <<signing, values, signed, before>>

\* The signed APK is signed again, with another key or the same.
SignAgain ==
    /\ pc = "signed" /\ signing < MaxSignings
    /\ signing' = signing + 1
    /\ values' \in {values} \cup {<<v>> : v \in Values}
    /\ pc' = "parse"
    /\ before' = [file |-> file, values |-> values, start |-> signed.entries]
    /\ UNCHANGED <<file, signed>>

Finished ==
    /\ pc = "failed" \/ (pc = "signed" /\ signing = MaxSignings)
    /\ UNCHANGED vars

Next == Parse \/ ParseFails \/ Digest \/ SignFails \/ Write \/ SignAgain \/ Finished

Spec == Init /\ [][Next]_vars
-----------------------------------------------------------------------------
(* Properties.                                                             *)

\* Who reads the signed APK finds the new block, as long as it is, and what
\* the digest covers is what a verifier reconstructs: the bytes before the
\* block, the Central Directory, and the EOCD with the block's start for the
\* directory's.  A directory of U16 - 1 records or more, which only an EOCD
\* with a false count can hide from parse, is left out.
VerifierAgrees ==
    pc = "signed" /\ Records(file) < U16 - 1 =>
        /\ Parses(file)
        /\ OldBlock(file) = SigningBlockSize(values)
        /\ signed = Covers(EntriesEnd(file), Eocd(file).cdSize,
                           [Eocd(file) EXCEPT !.cdOff = EntriesEnd(file)])

\* The block fills whole pages exactly, so that the Central Directory begins
\* on one, and what apk_signing_block adds to fill it has room for a header.
BlockIsExact ==
    /\ SigningBlockSize(values) % Page = 0
    /\ PaddingPair(values) = 0 \/ PaddingPair(values) >= 12
    /\ pc = "signed" => Eocd(file).cdOff % Page = 0

\* Signing again puts the new block where the old one was, adding nothing to
\* the entries, and with a block as long as the old one the same file layout
\* comes out.
ResignIsStable ==
    pc = "signed" /\ signing > 1 =>
        /\ signed.entries = before.start
        /\ values = before.values => file = before.file
=============================================================================
