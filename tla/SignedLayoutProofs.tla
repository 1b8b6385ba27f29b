------------------------- MODULE SignedLayoutProofs -------------------------
(***************************************************************************)
(* Proofs about SignedLayout, for every page size, every APK whatever it   *)
(* holds that looks like an EOCD or a signing block, every length of the   *)
(* scheme blocks and any number of signings: the block fills whole pages,  *)
(* a verifier finds the block and what was digested, and signing again     *)
(* moves nothing.                                                          *)
(***************************************************************************)
EXTENDS SignedLayout, CommonLemmas
-----------------------------------------------------------------------------
(* The inductive invariant.                                                *)

WellFormed(f) == f \in File /\ (Candidates(f) # {} => f.stale <= Records(f))

\* f was signed with blocks of these lengths, and the signing block is at
\* start: nothing behind start looks like a part of it that is none, and no
\* EOCD is between it and the real one.
SignedAs(f, vs, start) ==
    LET e == Eocd(f)
        cd == start + SigningBlockSize(vs)
        size == SigningBlockSize(vs) - 8
    IN  /\ start \in Nat /\ start % Page = 0
        /\ Candidates(f) # {} /\ ~BrokenCd(f) /\ f.stale = 0
        /\ e.disk = 0 /\ e.count = Records(f) % U16 /\ e.cdSize # U32 - 1
        /\ e.cdOff = cd /\ cd # U32 - 1 /\ e.off = cd + e.cdSize
        /\ \A o \in f.eocds : o.off < start \/ o = e \/ o.off > e.off
        /\ \A o \in f.locators : o < start
        /\ cd - 16 \in f.magics /\ \A o \in f.magics : o < start \/ o = cd - 16
        /\ {<<start, size>>, <<cd - 24, size>>} \subseteq f.words
        /\ \A w \in f.words : w[1] < start \/ w = <<start, size>> \/ w = <<cd - 24, size>>

\* The type invariant.
TypeInv ==
    /\ WellFormed(file)
    /\ signing \in Nat \ {0}
    /\ values \in Seq(Nat)
    /\ pc \in {"parse", "digest", "sign", "signed", "failed"}

\* Up to the write, the file is the one that was parsed.
Parsed ==
    /\ pc \in {"digest", "sign"} => Parses(file) /\ ~BrokenCd(file)
    /\ pc = "sign" =>
         signed = Covers(BlockStart, CdLen, [Patched EXCEPT !.cdOff = BlockStart % U32])

\* Before a file is signed again it is as the signing before has left it.
Resigned ==
    signing > 1 /\ pc \in {"parse", "digest", "sign"} =>
        /\ before.file = file /\ before.values \in Seq(Nat)
        /\ SignedAs(file, before.values, before.start)

\* The signed file, and what was digested.
Done ==
    pc = "signed" =>
        /\ SignedAs(file, values, signed.entries)
        /\ signed = Covers(signed.entries, Eocd(file).cdSize,
                           [Eocd(file) EXCEPT !.cdOff = signed.entries])

IInv == TypeInv /\ Parsed /\ Resigned /\ Done /\ ResignIsStable
-----------------------------------------------------------------------------
(* The signing block.                                                      *)

\* The loop over the pairs ends with a length that has room for the frame.
LEMMA BareFacts ==
    ASSUME NEW vs \in Seq(Nat)
    PROVE  Bare(vs) \in Nat /\ Bare(vs) >= 32
<1>. DEFINE m == Len(vs)
            step == [n \in 1 .. m |-> [x \in Nat |-> x + 12 + vs[n]]]
            Is(f) == f = [n \in 0 .. m |-> IF n = 0 THEN 32 ELSE f[n - 1] + 12 + vs[n]]
            used == CHOOSE f : Is(f)
<1>1. m \in Nat /\ \A n \in 1 .. m : vs[n] \in Nat
  OBVIOUS
<1>2. step \in [1 .. m -> [Nat -> Nat]]
  BY <1>1
<1>3. PICK f \in [0 .. m -> Nat] : f[0] = 32 /\ \A n \in 1 .. m : f[n] = step[n][f[n - 1]]
  <2>. DEFINE frame == 32
  <2>1. frame \in Nat
    OBVIOUS
  <2>. HIDE DEF m, step, frame
  <2>2. PICK f : IsLoop(f, Nat, frame, m, step)
    BY <1>1, <1>2, <2>1, Loop, Zenon
  <2>. QED BY <2>2 DEF frame, IsLoop
<1>4. Is(f)
  <2>1. ASSUME NEW n \in 0 .. m
        PROVE  f[n] = IF n = 0 THEN 32 ELSE f[n - 1] + 12 + vs[n]
    <3>1. CASE n = 0
      BY <1>3, <3>1
    <3>2. CASE n # 0
      <4>1. n \in 1 .. m /\ n - 1 \in 0 .. m
        BY <1>1, <3>2
      <4>2. f[n - 1] \in Nat
        BY <4>1
      <4>3. step[n][f[n - 1]] = f[n - 1] + 12 + vs[n]
        BY <4>1, <4>2
      <4>. QED BY <1>3, <3>2, <4>1, <4>3
    <3>. QED BY <3>1, <3>2
  <2>. HIDE DEF m
  <2>. QED BY <2>1
<1>5. Is(used)
  BY <1>4
<1>6. Bare(vs) = used[m]
  BY DEF Bare
<1>. DEFINE S == {n \in 0 .. m : used[n] \in Nat /\ used[n] >= 32}
<1>7. 0 \in S
  <2>1. used[0] = 32 /\ 0 \in 0 .. m
    <3>. HIDE DEF used, m
    <3>. QED BY <1>1, <1>5
  <2>. HIDE DEF used, m
  <2>. QED BY <2>1
<1>8. ASSUME NEW n \in 0 .. m - 1, n \in S PROVE n + 1 \in S
  <2>1. /\ n + 1 \in 1 .. m /\ n + 1 \in 0 .. m /\ n + 1 # 0 /\ (n + 1) - 1 = n
        /\ vs[n + 1] \in Nat /\ used[n] \in Nat /\ used[n] >= 32
    <3>. HIDE DEF used, m
    <3>. QED BY <1>1, <1>8
  <2>2. used[n + 1] = used[n] + 12 + vs[n + 1]
    <3>. HIDE DEF used, m
    <3>. QED BY <1>5, <2>1
  <2>. HIDE DEF used, m
  <2>3. used[n + 1] \in Nat /\ used[n + 1] >= 32
    BY ONLY <2>1, <2>2
  <2>. QED BY <2>1, <2>3
<1>. HIDE DEF S, used, m
<1>9. 0 .. m \subseteq S
  BY <1>1, <1>7, <1>8, UpTo, Zenon
<1>10. m \in S
  BY <1>1, <1>9
<1>. QED BY <1>6, <1>10 DEF S

\* Rounded up to pages, with nothing or a pair's header and more in between.
LEMMA WholePagesFacts ==
    ASSUME NEW n \in Nat
    PROVE  /\ WholePages(n) \in Nat /\ WholePages(n) % Page = 0 /\ WholePages(n) >= n
           /\ WholePages(n) = n \/ WholePages(n) - n >= 12
<1>. DEFINE q == n \div Page
            r == n % Page
<1>1. Page \in Nat \ {0} /\ Page > 12
  BY ConstantsAssumption
<1>2. q \in Nat /\ r \in 0 .. Page - 1 /\ n = Page * q + r
  BY <1>1
<1>3. WholePages(n) = CASE r = 0 -> n
                        [] r # 0 /\ Page - r < 12 -> n + (Page - r) + Page
                        [] r # 0 /\ Page - r >= 12 -> n + (Page - r)
  BY DEF WholePages
<1>. HIDE DEF q, r
<1>4. \A k \in Nat : (Page * k) % Page = 0
  <2>. SUFFICES ASSUME NEW k \in Nat PROVE (Page * k) % Page = 0
    OBVIOUS
  <2>1. 0 \in 0 .. Page - 1 /\ Page * k \in Nat /\ Page * k + 0 = Page * k
    BY <1>1
  <2>2. (Page * k + 0) % Page = 0
    BY <1>1, <2>1, Division
  <2>. QED BY <2>1, <2>2
<1>5. /\ Page * q \in Nat /\ Page * (q + 1) = Page * q + Page
      /\ Page * (q + 2) = Page * q + Page + Page
  BY <1>1, <1>2
<1>6. CASE r = 0
  BY <1>2, <1>3, <1>4, <1>5, <1>6
<1>7. CASE r # 0 /\ Page - r < 12
  <2>1. WholePages(n) = n + (Page - r) + Page
    BY <1>1, <1>2, <1>3, <1>7
  <2>2. WholePages(n) = Page * (q + 2)
    BY <1>1, <1>2, <1>5, <2>1
  <2>3. (Page * (q + 2)) % Page = 0
    BY <1>2, <1>4
  <2>. QED BY <1>1, <1>2, <2>1, <2>2, <2>3
<1>8. CASE r # 0 /\ Page - r >= 12
  <2>1. WholePages(n) = n + (Page - r)
    BY <1>1, <1>2, <1>3, <1>8
  <2>2. WholePages(n) = Page * (q + 1)
    BY <1>1, <1>2, <1>5, <2>1
  <2>3. (Page * (q + 1)) % Page = 0
    BY <1>2, <1>4
  <2>. QED BY <1>1, <1>2, <1>8, <2>1, <2>2, <2>3
<1>. QED BY <1>1, <1>2, <1>6, <1>7, <1>8

\* The length of a signing block.
LEMMA SizeFacts ==
    ASSUME NEW vs \in Seq(Nat)
    PROVE  /\ SigningBlockSize(vs) \in Nat /\ SigningBlockSize(vs) >= 32
           /\ SigningBlockSize(vs) % Page = 0
           /\ PaddingPair(vs) = 0 \/ PaddingPair(vs) >= 12
<1>1. Bare(vs) \in Nat /\ Bare(vs) >= 32
  BY BareFacts
<1>2. /\ SigningBlockSize(vs) \in Nat /\ SigningBlockSize(vs) % Page = 0
      /\ SigningBlockSize(vs) >= Bare(vs)
      /\ SigningBlockSize(vs) = Bare(vs) \/ SigningBlockSize(vs) - Bare(vs) >= 12
  BY <1>1, WholePagesFacts DEF SigningBlockSize
<1>. QED BY <1>1, <1>2 DEF PaddingPair

\* The padding before the block brings it to a page, and none is needed there.
LEMMA PaddingFacts ==
    ASSUME NEW end \in Nat
    PROVE  /\ PaddingBeforeBlock(end) \in Nat
           /\ (end + PaddingBeforeBlock(end)) % Page = 0
           /\ end % Page = 0 => PaddingBeforeBlock(end) = 0
<1>. DEFINE q == end \div Page
            r == end % Page
<1>1. Page \in Nat \ {0}
  BY ConstantsAssumption
<1>2. q \in Nat /\ r \in 0 .. Page - 1 /\ end = Page * q + r
  BY <1>1
<1>3. PaddingBeforeBlock(end) = (Page - r) % Page
  BY DEF PaddingBeforeBlock
<1>. HIDE DEF q, r
<1>4. CASE r = 0
  <2>1. Page % Page = 0
    BY <1>1
  <2>2. PaddingBeforeBlock(end) = 0
    BY <1>1, <1>3, <1>4, <2>1
  <2>. QED BY <1>4, <2>2 DEF r
<1>5. CASE r # 0
  <2>1. Page - r \in 0 .. Page - 1
    BY <1>1, <1>2, <1>5
  <2>2. (Page - r) % Page = Page - r
    <3>. DEFINE x == Page - r
    <3>1. x \in 0 .. Page - 1
      BY <2>1
    <3>. HIDE DEF x
    <3>2. x % Page = x
      BY <1>1, <3>1
    <3>. QED BY <3>2 DEF x
  <2>3. end + (Page - r) = Page * (q + 1) + 0 /\ 0 \in 0 .. Page - 1
    BY <1>1, <1>2
  <2>4. (Page * (q + 1) + 0) % Page = 0
    BY <1>1, <1>2, <2>3, Division
  <2>. QED BY <1>3, <1>5, <2>1, <2>2, <2>3, <2>4 DEF r
<1>. QED BY <1>4, <1>5
-----------------------------------------------------------------------------
(* What parse finds.                                                       *)

\* The fields of a record and of a file have their types.
LEMMA RecordFields ==
    ASSUME NEW e \in EocdRecord
    PROVE  /\ e.off \in Nat /\ e.comment \in Nat /\ e.disk \in Nat /\ e.count \in Nat
           /\ e.cdSize \in Nat /\ e.cdOff \in Nat
<1>1. U16 \in Nat /\ U32 \in Nat
  BY ConstantsAssumption
<1>2. /\ e.off \in Nat /\ e.disk \in Nat /\ e.comment \in 0 .. U16 - 1
      /\ e.count \in 0 .. U16 - 1 /\ e.cdSize \in 0 .. U32 - 1 /\ e.cdOff \in 0 .. U32 - 1
  BY DEF EocdRecord
<1>. QED BY ONLY <1>1, <1>2

LEMMA FileFields ==
    ASSUME NEW f \in File
    PROVE  /\ f.len \in Nat /\ f.eocds \subseteq EocdRecord /\ f.locators \subseteq Nat
           /\ f.magics \subseteq Nat /\ f.words \subseteq Nat \X Nat
           /\ f.recordLen \in Nat \ {0} /\ f.stale \in Nat
BY DEF File


\* find_eocd finds the candidate with the shortest comment, which is the last.
LEMMA EocdFacts ==
    ASSUME NEW f \in File, Candidates(f) # {}
    PROVE  /\ Eocd(f) \in f.eocds /\ Eocd(f) \in EocdRecord /\ Eocd(f) \in Candidates(f)
           /\ Eocd(f).off + EocdMin + Eocd(f).comment = f.len
           /\ \A o \in Candidates(f) : o.off <= Eocd(f).off
<1>1. \A e \in Candidates(f) : /\ e \in EocdRecord /\ e \in f.eocds /\ e.off \in Nat
                               /\ e.comment \in Nat /\ e.off + EocdMin + e.comment = f.len
  BY ConstantsAssumption DEF Candidates, File, EocdRecord
<1>2. f.len \in Nat
  BY DEF File
<1>. DEFINE S == {e.comment : e \in Candidates(f)}
<1>3. S \in SUBSET Nat /\ S # {}
  BY <1>1
<1>. HIDE DEF S
<1>4. PICK c \in S : \A x \in S : c <= x
  BY <1>3, LeastNumber
<1>5. PICK e \in Candidates(f) : e.comment = c
  BY DEF S
<1>6. ASSUME NEW o \in Candidates(f) PROVE o.off <= e.off
  <2>1. o.comment \in S
    BY DEF S
  <2>2. e.comment <= o.comment
    BY <1>4, <1>5, <2>1
  <2>. QED BY <1>1, <1>2, <2>2 DEF EocdMin
<1>7. Eocd(f) \in Candidates(f) /\ \A o \in Candidates(f) : o.off <= Eocd(f).off
  BY <1>6 DEF Eocd
<1>. QED BY <1>1, <1>7

\* A candidate that all others are before is the one.
LEMMA LastCandidate ==
    ASSUME NEW f \in File, NEW n \in Candidates(f),
           \A o \in Candidates(f) : o = n \/ o.off < n.off
    PROVE  Eocd(f) = n
<1>1. /\ Eocd(f) \in Candidates(f) /\ n.off <= Eocd(f).off /\ Eocd(f).off \in Nat
  BY EocdFacts DEF EocdRecord
<1>2. n.off \in Nat
  BY DEF Candidates, File, EocdRecord
<1>. QED BY <1>1, <1>2

\* The entries end somewhere before the Central Directory.
LEMMA EndFacts ==
    ASSUME NEW f \in File, Candidates(f) # {}
    PROVE  EntriesEnd(f) \in Nat /\ EntriesEnd(f) <= Eocd(f).cdOff
<1>1. Eocd(f).cdOff \in Nat
  BY EocdFacts, ConstantsAssumption DEF EocdRecord
<1>2. \A s \in BlockSizes(f) : s \in Nat /\ s + 8 <= Eocd(f).cdOff
  BY DEF BlockSizes, File
<1>3. CASE BlockSizes(f) = {}
  BY <1>1, <1>3 DEF OldBlock, EntriesEnd
<1>4. CASE BlockSizes(f) # {}
  <2>1. (CHOOSE s \in BlockSizes(f) : TRUE) \in BlockSizes(f)
    BY <1>4
  <2>. QED BY <1>1, <1>2, <1>4, <2>1 DEF OldBlock, EntriesEnd
<1>. QED BY <1>3, <1>4

\* Dropping the stale records leaves a directory of whole records.
LEMMA DirectoryFacts ==
    ASSUME WellFormed(file), Candidates(file) # {}, ~BrokenCd(file)
    PROVE  /\ CdLen \in Nat /\ CdLen <= Eocd(file).cdSize
           /\ CdLen % file.recordLen = 0 /\ CdLen \div file.recordLen = EntryCount
           /\ file.stale = 0 => CdLen = Eocd(file).cdSize /\ EntryCount = Records(file)
<1>. DEFINE d == file.recordLen
            c == Eocd(file).cdSize
            q == c \div d
            t == file.stale
<1>1. d \in Nat \ {0} /\ c \in Nat /\ t \in Nat /\ t <= q /\ c % d = 0
  BY EocdFacts, ConstantsAssumption DEF WellFormed, File, EocdRecord, BrokenCd, Records
<1>2. CdLen = c - t * d /\ EntryCount = q - t /\ Records(file) = q
  BY DEF CdLen, EntryCount, Records
<1>3. q \in Nat /\ c = d * q
  <2>. HIDE DEF d, c
  <2>. QED BY <1>1
<1>. HIDE DEF d, c, q, t
<1>4. PICK p \in Nat : q = t + p /\ EntryCount = p
  <2>1. q - t \in Nat /\ q = t + (q - t)
    BY <1>1, <1>3
  <2>. QED BY <1>2, <2>1
<1>5. d * q = d * t + d * p /\ t * d = d * t /\ d * t \in Nat /\ d * p \in Nat
  BY <1>1, <1>4
<1>6. CdLen = d * p
  BY <1>2, <1>3, <1>5
<1>7. d * p + 0 = d * p /\ 0 \in 0 .. d - 1
  BY <1>1, <1>5
<1>8. (d * p + 0) % d = 0 /\ (d * p + 0) \div d = p
  BY <1>1, <1>7, Division
<1>9. CdLen \in Nat /\ CdLen <= c /\ CdLen % d = 0 /\ CdLen \div d = EntryCount
  BY <1>3, <1>4, <1>5, <1>6, <1>7, <1>8
<1>10. t = 0 => CdLen = c /\ EntryCount = Records(file)
  <2>1. t = 0 => q = p
    BY <1>4
  <2>. QED BY <1>2, <1>3, <1>4, <1>6, <2>1
<1>. QED BY <1>9, <1>10 DEF d, c, t

\* In a signed file parse finds the block that was put there.
LEMMA BlockIsFound ==
    ASSUME NEW f \in File, NEW vs \in Seq(Nat), NEW start, SignedAs(f, vs, start)
    PROVE  /\ OldBlock(f) = SigningBlockSize(vs) /\ EntriesEnd(f) = start
           /\ Eocd(f).count # U16 - 1 => Parses(f)
<1>. DEFINE e == Eocd(f)
            z == SigningBlockSize(vs)
            cd == start + z
            size == z - 8
<1>1. /\ start \in Nat /\ Candidates(f) # {} /\ e.disk = 0 /\ e.cdSize # U32 - 1
      /\ e.cdOff = cd /\ cd # U32 - 1 /\ e.off = cd + e.cdSize
      /\ \A o \in f.locators : o < start
      /\ cd - 16 \in f.magics
      /\ <<start, size>> \in f.words /\ <<cd - 24, size>> \in f.words
      /\ \A w \in f.words : w[1] < start \/ w = <<start, size>> \/ w = <<cd - 24, size>>
  BY DEF SignedAs
<1>2. z \in Nat /\ z >= 32 /\ e.cdSize \in Nat
  <2>1. e \in EocdRecord
    BY <1>1, EocdFacts
  <2>. QED BY <2>1, RecordFields, SizeFacts
<1>. HIDE DEF e, z
<1>3. /\ cd \in Nat /\ cd >= 32 /\ size \in Nat /\ size >= 24 /\ size + 8 <= cd
      /\ cd - size - 8 = start /\ ~(cd - 24 < start) /\ cd - 24 # start /\ 8 + size = z
      /\ ~(e.off - 20 < start) /\ cd - z = start
  <2>1. start \in Nat /\ e.off = cd + e.cdSize
    BY <1>1
  <2>. QED BY ONLY <1>2, <2>1 DEF cd, size
<1>4. BlockSizes(f) = {size}
  <2>1. size \in BlockSizes(f)
    <3>1. size \in {w[2] : w \in f.words}
      <4>1. <<start, size>>[2] = size
        OBVIOUS
      <4>. QED BY <1>1, <4>1
    <3>. QED BY <1>1, <1>3, <3>1 DEF BlockSizes, e
  <2>2. ASSUME NEW s \in BlockSizes(f) PROVE s = size
    <3>1. <<cd - 24, s>> \in f.words
      BY <1>1 DEF BlockSizes, e
    <3>2. <<cd - 24, s>>[1] = cd - 24 /\ <<cd - 24, s>>[2] = s
      OBVIOUS
    <3>. QED BY <1>1, <1>3, <3>1, <3>2
  <2>. QED BY <2>1, <2>2
<1>5. (CHOOSE s \in BlockSizes(f) : TRUE) = size
  BY <1>4
<1>6. OldBlock(f) = z
  BY <1>3, <1>4, <1>5 DEF OldBlock
<1>7. EntriesEnd(f) = start
  BY <1>1, <1>3, <1>6 DEF EntriesEnd, e
<1>8. ASSUME Eocd(f).count # U16 - 1 PROVE Parses(f)
  <2>1. e.off - 20 \notin f.locators
    BY <1>1, <1>3
  <2>. QED BY <1>1, <1>8, <2>1 DEF Parses, Malformed, e
<1>. QED BY <1>6, <1>7, <1>8 DEF z
-----------------------------------------------------------------------------
(* What sign_one writes.                                                   *)

\* How far the EOCD moves, and the EOCD that is written.
Shift == NewCdOff + CdLen - Eocd(file).off
NewEocd == [Patched EXCEPT !.off = @ + Shift, !.cdOff = NewCdOff % U32]

\* The new file, part by part.
LEMMA NewFileParts ==
    ASSUME file \in File
    PROVE  /\ NewFile.len = file.len + Shift
           /\ NewFile.eocds = {e \in file.eocds : e.off < EntriesEnd(file)}
                \cup {[e EXCEPT !.off = @ + Shift] :
                        e \in {o \in file.eocds : o.off > Eocd(file).off}}
                \cup {NewEocd}
           /\ NewFile.locators = {o \in file.locators : o < EntriesEnd(file)}
           /\ NewFile.magics = {o \in file.magics : o < EntriesEnd(file)} \cup {NewCdOff - 16}
           /\ NewFile.words = {w \in file.words : w[1] < EntriesEnd(file)}
                \cup {<<BlockStart, SigningBlockSize(values) - 8>>,
                      <<NewCdOff - 24, SigningBlockSize(values) - 8>>}
           /\ NewFile.recordLen = file.recordLen /\ NewFile.stale = 0
           /\ NewFile = [len |-> NewFile.len, eocds |-> NewFile.eocds,
                         locators |-> NewFile.locators, magics |-> NewFile.magics,
                         words |-> NewFile.words, recordLen |-> NewFile.recordLen,
                         stale |-> NewFile.stale]
<1>. DEFINE len == file.len + Shift
            eocds == {e \in file.eocds : e.off < EntriesEnd(file)}
                       \cup {[e EXCEPT !.off = @ + Shift] :
                               e \in {o \in file.eocds : o.off > Eocd(file).off}}
                       \cup {NewEocd}
            locators == {o \in file.locators : o < EntriesEnd(file)}
            magics == {o \in file.magics : o < EntriesEnd(file)} \cup {NewCdOff - 16}
            words == {w \in file.words : w[1] < EntriesEnd(file)}
                       \cup {<<BlockStart, SigningBlockSize(values) - 8>>,
                             <<NewCdOff - 24, SigningBlockSize(values) - 8>>}
<1>1. NewFile = [file EXCEPT !.len = len, !.eocds = eocds, !.locators = locators,
                             !.magics = magics, !.words = words, !.stale = 0]
  BY DEF NewFile, Shift, NewEocd
<1>2. file = [len |-> file.len, eocds |-> file.eocds, locators |-> file.locators,
              magics |-> file.magics, words |-> file.words, recordLen |-> file.recordLen,
              stale |-> file.stale]
  BY DEF File
<1>. HIDE DEF len, eocds, locators, magics, words
<1>3. NewFile = [len |-> len, eocds |-> eocds, locators |-> locators, magics |-> magics,
                 words |-> words, recordLen |-> file.recordLen, stale |-> 0]
  BY <1>1, <1>2
<1>4. /\ NewFile.len = len /\ NewFile.eocds = eocds /\ NewFile.locators = locators
      /\ NewFile.magics = magics /\ NewFile.words = words
      /\ NewFile.recordLen = file.recordLen /\ NewFile.stale = 0
  BY <1>3
<1>5. NewFile = [len |-> NewFile.len, eocds |-> NewFile.eocds, locators |-> NewFile.locators,
                 magics |-> NewFile.magics, words |-> NewFile.words,
                 recordLen |-> NewFile.recordLen, stale |-> NewFile.stale]
  BY <1>3, <1>4
<1>. QED BY <1>4, <1>5 DEF len, eocds, locators, magics, words

\* The numbers of the new file.
LEMMA NewNumbers ==
    ASSUME WellFormed(file), Parses(file), ~BrokenCd(file), values \in Seq(Nat), ~TooLong
    PROVE  /\ EntriesEnd(file) \in Nat /\ BlockStart \in Nat /\ NewCdOff \in Nat
           /\ EntriesEnd(file) <= BlockStart /\ NewCdOff >= BlockStart + 32
           /\ NewCdOff = BlockStart + SigningBlockSize(values)
           /\ BlockStart % Page = 0 /\ NewCdOff % Page = 0 /\ NewCdOff < U32 - 1
           /\ BlockStart % U32 = BlockStart /\ NewCdOff % U32 = NewCdOff
           /\ CdLen \in Nat /\ CdLen < U32 - 1 /\ CdLen % U32 = CdLen
<1>1. file \in File /\ Candidates(file) # {} /\ Eocd(file).cdSize # U32 - 1
  BY DEF WellFormed, Parses, Malformed
<1>2. Page \in Nat /\ Page > 12 /\ U32 \in Nat \ {0} /\ U32 % Page = 0
  BY ConstantsAssumption
<1>3. EntriesEnd(file) \in Nat
  BY <1>1, EndFacts
<1>4. /\ BlockStart \in Nat /\ EntriesEnd(file) <= BlockStart /\ BlockStart % Page = 0
  <2>. DEFINE end == EntriesEnd(file)
  <2>1. PaddingBeforeBlock(end) \in Nat /\ (end + PaddingBeforeBlock(end)) % Page = 0
    BY <1>3, PaddingFacts
  <2>2. BlockStart = end + PaddingBeforeBlock(end)
    BY DEF BlockStart
  <2>. QED BY <1>3, <2>1, <2>2
<1>5. /\ SigningBlockSize(values) \in Nat /\ SigningBlockSize(values) >= 32
      /\ SigningBlockSize(values) % Page = 0
  BY SizeFacts
<1>6. NewCdOff = BlockStart + SigningBlockSize(values) /\ NewCdOff \in Nat
      /\ NewCdOff >= BlockStart + 32
  BY <1>4, <1>5 DEF NewCdOff
<1>7. NewCdOff % Page = 0
  BY <1>2, <1>4, <1>5, <1>6, Multiples
<1>8. NewCdOff <= U32 - 1
  BY <1>2, <1>6 DEF TooLong
<1>9. NewCdOff # U32 - 1
  <2>. SUFFICES ASSUME NewCdOff = U32 - 1 PROVE FALSE
    OBVIOUS
  <2>1. U32 = 1 + NewCdOff /\ 1 \in Nat
    BY <1>2, <1>6
  <2>2. (1 + NewCdOff) % Page = 1 % Page
    BY <1>2, <1>6, <1>7, <2>1, Multiples
  <2>3. 1 % Page = 1
    BY <1>2
  <2>. QED BY <1>2, <2>1, <2>2, <2>3
<1>10. \A x \in Nat : x < U32 => x % U32 = x
  BY <1>2
<1>11. CdLen \in Nat /\ CdLen <= Eocd(file).cdSize
  BY <1>1, DirectoryFacts
<1>12. Eocd(file).cdSize \in 0 .. U32 - 1
  BY <1>1, EocdFacts DEF EocdRecord
<1>13. CdLen < U32 - 1 /\ CdLen < U32 /\ NewCdOff < U32 - 1 /\ NewCdOff < U32 /\ BlockStart < U32
  BY <1>1, <1>2, <1>4, <1>6, <1>8, <1>9, <1>11, <1>12
<1>. QED BY <1>3, <1>4, <1>6, <1>7, <1>10, <1>11, <1>13

\* The fields of the EOCD that is written.
LEMMA NewEocdFields ==
    ASSUME WellFormed(file), Parses(file), ~BrokenCd(file), values \in Seq(Nat), ~TooLong
    PROVE  /\ NewEocd = [off |-> NewCdOff + CdLen, comment |-> Eocd(file).comment, disk |-> 0,
                         count |-> EntryCount % U16, cdSize |-> CdLen, cdOff |-> NewCdOff]
           /\ Patched = [off |-> Eocd(file).off, comment |-> Eocd(file).comment, disk |-> 0,
                         count |-> EntryCount % U16, cdSize |-> CdLen, cdOff |-> Eocd(file).cdOff]
           /\ NewEocd \in EocdRecord
           /\ Eocd(file).off \in Nat /\ Shift \in Int /\ Eocd(file).off + Shift = NewCdOff + CdLen
<1>. DEFINE e == Eocd(file)
<1>1. file \in File /\ Candidates(file) # {} /\ e.disk = 0
  BY DEF WellFormed, Parses, Malformed
<1>2. e \in EocdRecord
  BY <1>1, EocdFacts
<1>3. /\ NewCdOff \in Nat /\ NewCdOff < U32 - 1 /\ NewCdOff % U32 = NewCdOff
      /\ CdLen \in Nat /\ CdLen < U32 - 1 /\ CdLen % U32 = CdLen
  BY NewNumbers
<1>4. U16 \in Nat \ {0} /\ U32 \in Nat \ {0}
  BY ConstantsAssumption
<1>5. EntryCount \in Nat /\ EntryCount % U16 \in 0 .. U16 - 1
  <2>1. file.recordLen \in Nat \ {0} /\ CdLen \div file.recordLen = EntryCount
    BY <1>1, DirectoryFacts DEF File
  <2>2. CdLen \in Nat
    BY <1>3
  <2>3. EntryCount \in Nat
    BY ONLY <2>1, <2>2
  <2>. QED BY ONLY <1>4, <2>3
<1>6. e.off \in Nat /\ Shift \in Int /\ e.off + Shift = NewCdOff + CdLen
  BY <1>2, <1>3 DEF Shift, EocdRecord
<1>. DEFINE count == EntryCount % U16
<1>. HIDE DEF e, count
<1>7. Patched = [off |-> e.off, comment |-> e.comment, disk |-> 0,
                 count |-> count, cdSize |-> CdLen, cdOff |-> e.cdOff]
  <2>1. Patched = [e EXCEPT !.count = count, !.cdSize = CdLen]
    BY <1>3 DEF Patched, e, count
  <2>2. e = [off |-> e.off, comment |-> e.comment, disk |-> e.disk,
             count |-> e.count, cdSize |-> e.cdSize, cdOff |-> e.cdOff]
    BY <1>2 DEF EocdRecord
  <2>. QED BY <1>1, <2>1, <2>2
<1>8. NewEocd = [off |-> NewCdOff + CdLen, comment |-> e.comment, disk |-> 0,
                 count |-> count, cdSize |-> CdLen, cdOff |-> NewCdOff]
  <2>1. NewEocd = [Patched EXCEPT !.off = @ + Shift, !.cdOff = NewCdOff]
    BY <1>3 DEF NewEocd
  <2>2. Patched.off + Shift = NewCdOff + CdLen
    BY <1>6, <1>7
  <2>. QED BY <1>7, <2>1, <2>2
<1>9. NewEocd \in EocdRecord
  <2>1. e.comment \in 0 .. U16 - 1 /\ NewCdOff + CdLen \in Nat /\ 0 \in Nat
        /\ CdLen \in 0 .. U32 - 1 /\ NewCdOff \in 0 .. U32 - 1
    BY <1>2, <1>3, <1>4 DEF EocdRecord
  <2>. QED BY <1>5, <1>8, <2>1 DEF EocdRecord, count
<1>. QED BY <1>6, <1>7, <1>8, <1>9 DEF e, count

\* The new file is a file.
LEMMA NewFileTyped ==
    ASSUME WellFormed(file), Parses(file), ~BrokenCd(file), values \in Seq(Nat), ~TooLong
    PROVE  NewFile \in File
<1>. DEFINE e == Eocd(file)
<1>1. file \in File /\ Candidates(file) # {}
  BY DEF WellFormed, Parses
<1>2. /\ NewEocd \in EocdRecord /\ e.off \in Nat /\ Shift \in Int
      /\ e.off + Shift = NewCdOff + CdLen
  BY NewEocdFields
<1>3. /\ BlockStart \in Nat /\ NewCdOff \in Nat /\ NewCdOff >= BlockStart + 32 /\ CdLen \in Nat
      /\ NewCdOff - 16 \in Nat /\ NewCdOff - 24 \in Nat
      /\ SigningBlockSize(values) - 8 \in Nat
  <2>1. SigningBlockSize(values) \in Nat /\ SigningBlockSize(values) >= 32
    BY SizeFacts
  <2>2. /\ BlockStart \in Nat /\ NewCdOff \in Nat /\ NewCdOff >= BlockStart + 32 /\ CdLen \in Nat
    BY NewNumbers
  <2>. QED BY ONLY <2>1, <2>2
<1>4. NewFile.len \in Nat
  <2>1. e.off + EocdMin + e.comment = file.len /\ e.comment \in Nat
    BY <1>1, EocdFacts, ConstantsAssumption DEF EocdRecord
  <2>2. NewFile.len = file.len + Shift /\ EocdMin \in Nat
    BY <1>1, NewFileParts DEF EocdMin
  <2>. HIDE DEF e
  <2>3. NewFile.len = (NewCdOff + CdLen) + EocdMin + e.comment
    BY ONLY <1>2, <2>1, <2>2
  <2>. QED BY ONLY <1>3, <2>1, <2>2, <2>3
<1>5. NewFile.eocds \subseteq EocdRecord
  <2>1. ASSUME NEW o \in file.eocds, o.off > e.off PROVE [o EXCEPT !.off = @ + Shift] \in EocdRecord
    <3>1. o \in EocdRecord
      BY <1>1 DEF File
    <3>2. o.off + Shift \in Nat
      <4>1. o.off \in Nat
        BY <3>1 DEF EocdRecord
      <4>. HIDE DEF e
      <4>. QED BY <1>2, <1>3, <2>1, <4>1
    <3>. QED BY <3>1, <3>2 DEF EocdRecord
  <2>2. \A o \in file.eocds : o \in EocdRecord
    BY <1>1 DEF File
  <2>. QED BY <1>1, <1>2, <2>1, <2>2, NewFileParts
<1>6. NewFile.locators \subseteq Nat /\ NewFile.magics \subseteq Nat
  BY <1>1, <1>3, NewFileParts DEF File
<1>7. NewFile.words \subseteq Nat \X Nat
  <2>1. \A x, y \in Nat : <<x, y>> \in Nat \X Nat
    OBVIOUS
  <2>2. file.words \subseteq Nat \X Nat
    BY <1>1 DEF File
  <2>. QED BY <1>1, <1>3, <2>1, <2>2, NewFileParts
<1>8. NewFile.recordLen \in Nat \ {0} /\ NewFile.stale \in Nat
  BY <1>1, NewFileParts DEF File
<1>. QED BY <1>1, <1>4, <1>5, <1>6, <1>7, <1>8, NewFileParts DEF File

\* Who parses the new file finds the EOCD that was written: neither one that
\* lies in the entries nor one in the comment takes its place.
LEMMA NewEocdIsFound ==
    ASSUME WellFormed(file), Parses(file), ~BrokenCd(file), values \in Seq(Nat), ~TooLong
    PROVE  Candidates(NewFile) # {} /\ Eocd(NewFile) = NewEocd
<1>. DEFINE e == Eocd(file)
<1>1. file \in File /\ Candidates(file) # {}
  BY DEF WellFormed, Parses
<1>2. /\ NewEocd.off = NewCdOff + CdLen /\ NewEocd.comment = e.comment
      /\ e.off \in Nat /\ Shift \in Int /\ e.off + Shift = NewCdOff + CdLen
  BY NewEocdFields
<1>3. /\ e.off + EocdMin + e.comment = file.len /\ e.comment \in Nat /\ EocdMin \in Nat
      /\ \A o \in Candidates(file) : o.off <= e.off
  BY <1>1, EocdFacts, ConstantsAssumption DEF EocdRecord, EocdMin
<1>4. EntriesEnd(file) \in Nat /\ NewCdOff \in Nat /\ CdLen \in Nat /\ EntriesEnd(file) <= NewCdOff
  BY NewNumbers
<1>5. NewFile.len = file.len + Shift /\ NewEocd \in NewFile.eocds /\ file.len \in Nat
  BY <1>1, NewFileParts DEF File
<1>. HIDE DEF e
<1>6. NewEocd \in Candidates(NewFile)
  <2>1. NewEocd.off + EocdMin + NewEocd.comment = NewFile.len
    BY ONLY <1>2, <1>3, <1>4, <1>5
  <2>. QED BY <1>5, <2>1 DEF Candidates
<1>7. ASSUME NEW o \in Candidates(NewFile) PROVE o = NewEocd \/ o.off < NewEocd.off
  <2>1. o \in NewFile.eocds /\ o.off + EocdMin + o.comment = NewFile.len
    BY DEF Candidates
  <2>2. CASE o \in file.eocds /\ o.off < EntriesEnd(file)
    <3>1. o.off \in Nat
      BY <1>1, <2>2 DEF File, EocdRecord
    <3>. QED BY <1>2, <1>4, <2>2, <3>1
  <2>3. ASSUME NEW x \in file.eocds, x.off > e.off, o = [x EXCEPT !.off = @ + Shift] PROVE FALSE
    <3>1. x \in EocdRecord /\ x.off \in Nat /\ x.comment \in Nat
      BY <1>1, FileFields, RecordFields
    <3>2. o.off = x.off + Shift /\ o.comment = x.comment
      BY <2>3, <3>1 DEF EocdRecord
    <3>3. x.off + EocdMin + x.comment = file.len
      BY ONLY <1>2, <1>3, <1>5, <2>1, <3>1, <3>2
    <3>4. x \in Candidates(file)
      BY <3>3 DEF Candidates
    <3>. QED BY <1>2, <1>3, <2>3, <3>1, <3>4
  <2>. QED BY <1>1, <2>1, <2>2, <2>3, NewFileParts DEF e
<1>. QED BY <1>6, <1>7, NewFileTyped, LastCandidate

\* The new file is as a signed file should be.
LEMMA NewFileIsSigned ==
    ASSUME WellFormed(file), Parses(file), ~BrokenCd(file), values \in Seq(Nat), ~TooLong
    PROVE  WellFormed(NewFile) /\ SignedAs(NewFile, values, BlockStart)
<1>. DEFINE n == Eocd(NewFile)
            start == BlockStart
            cd == NewCdOff
            size == SigningBlockSize(values) - 8
<1>1. file \in File /\ Candidates(file) # {} /\ NewFile \in File
  BY NewFileTyped DEF WellFormed, Parses
<1>2. Candidates(NewFile) # {} /\ n = NewEocd
  BY NewEocdIsFound
<1>3. /\ NewFile.recordLen = file.recordLen /\ NewFile.stale = 0
      /\ CdLen % file.recordLen = 0 /\ CdLen \div file.recordLen = EntryCount
  BY <1>1, NewFileParts, DirectoryFacts
<1>4. /\ n.disk = 0 /\ n.count = EntryCount % U16 /\ n.cdSize = CdLen /\ n.cdOff = cd
      /\ n.off = cd + CdLen
      /\ Eocd(file).off \in Nat /\ Shift \in Int /\ Eocd(file).off + Shift = cd + CdLen
  BY <1>2, NewEocdFields
<1>5. /\ EntriesEnd(file) \in Nat /\ start \in Nat /\ cd \in Nat /\ EntriesEnd(file) <= start
      /\ cd = start + SigningBlockSize(values) /\ start % Page = 0 /\ cd < U32 - 1
      /\ CdLen \in Nat /\ CdLen < U32 - 1 /\ U32 \in Nat
  BY NewNumbers, ConstantsAssumption
<1>6. Records(NewFile) = EntryCount /\ ~BrokenCd(NewFile)
  BY <1>3, <1>4 DEF Records, BrokenCd
<1>7. WellFormed(NewFile)
  <2>1. EntryCount \in Nat
    <3>1. file.recordLen \in Nat \ {0}
      BY <1>1 DEF File
    <3>2. CdLen \div file.recordLen \in Nat
      BY ONLY <1>5, <3>1
    <3>. QED BY <1>3, <3>2
  <2>. QED BY <1>1, <1>3, <1>6, <2>1 DEF WellFormed
<1>. HIDE DEF n, start, cd, size
<1>8. \A o \in NewFile.eocds : o.off < start \/ o = n \/ o.off > n.off
  <2>. SUFFICES ASSUME NEW o \in NewFile.eocds PROVE o.off < start \/ o = n \/ o.off > n.off
    OBVIOUS
  <2>1. CASE o \in file.eocds /\ o.off < EntriesEnd(file)
    <3>1. o.off \in Nat
      BY <1>1, <2>1 DEF File, EocdRecord
    <3>. QED BY <1>5, <2>1, <3>1
  <2>2. ASSUME NEW x \in file.eocds, x.off > Eocd(file).off, o = [x EXCEPT !.off = @ + Shift]
        PROVE  o.off > n.off
    <3>1. x \in EocdRecord /\ x.off \in Nat
      BY <1>1 DEF File, EocdRecord
    <3>2. o.off = x.off + Shift
      BY <2>2, <3>1 DEF EocdRecord
    <3>. QED BY <1>4, <1>5, <2>2, <3>1, <3>2
  <2>. QED BY <1>1, <1>2, <2>1, <2>2, NewFileParts
<1>9. \A o \in NewFile.locators : o < start
  <2>1. file.locators \subseteq Nat
    BY <1>1, FileFields
  <2>2. NewFile.locators \subseteq {o \in file.locators : o < EntriesEnd(file)}
    BY <1>1, NewFileParts
  <2>3. \A o \in NewFile.locators : o \in Nat /\ o < EntriesEnd(file)
    BY <2>1, <2>2, Zenon
  <2>. QED BY <1>5, <2>3
<1>10. cd - 16 \in NewFile.magics /\ \A o \in NewFile.magics : o < start \/ o = cd - 16
  <2>1. file.magics \subseteq Nat
    BY <1>1, FileFields
  <2>. QED BY <1>1, <1>5, <2>1, NewFileParts DEF cd
<1>11. /\ {<<start, size>>, <<cd - 24, size>>} \subseteq NewFile.words
       /\ \A w \in NewFile.words : w[1] < start \/ w = <<start, size>> \/ w = <<cd - 24, size>>
  <2>1. NewFile.words = {w \in file.words : w[1] < EntriesEnd(file)}
                          \cup {<<start, size>>, <<cd - 24, size>>}
    BY <1>1, NewFileParts DEF start, cd, size
  <2>2. \A w \in file.words : w[1] \in Nat
    BY <1>1 DEF File
  <2>3. \A x \in Nat : x < EntriesEnd(file) => x < start
    BY <1>5
  <2>. QED BY <2>1, <2>2, <2>3
<1>12. cd # U32 - 1 /\ CdLen # U32 - 1
  BY <1>5
<1>13. SignedAs(NewFile, values, start)
  BY <1>2, <1>3, <1>4, <1>5, <1>6, <1>8, <1>9, <1>10, <1>11, <1>12 DEF SignedAs, n, size
<1>. QED BY <1>7, <1>13 DEF start

\* Signing a signed file again puts the block where it is, and with blocks as
\* long as those before gives the file that was there.
LEMMA SameAgain ==
    ASSUME WellFormed(file), Parses(file), ~BrokenCd(file), values \in Seq(Nat), ~TooLong,
           NEW vs \in Seq(Nat), NEW start, SignedAs(file, vs, start)
    PROVE  BlockStart = start /\ (values = vs => NewFile = file)
<1>. DEFINE e == Eocd(file)
            cd == start + SigningBlockSize(vs)
            size == SigningBlockSize(vs) - 8
<1>1. file \in File /\ Candidates(file) # {}
  BY DEF WellFormed, Parses
<1>2. /\ start \in Nat /\ start % Page = 0 /\ file.stale = 0
      /\ e.disk = 0 /\ e.count = Records(file) % U16
      /\ e.cdOff = cd /\ e.off = cd + e.cdSize
      /\ \A o \in file.eocds : o.off < start \/ o = e \/ o.off > e.off
      /\ \A o \in file.locators : o < start
      /\ cd - 16 \in file.magics /\ \A o \in file.magics : o < start \/ o = cd - 16
      /\ {<<start, size>>, <<cd - 24, size>>} \subseteq file.words
      /\ \A w \in file.words : w[1] < start \/ w = <<start, size>> \/ w = <<cd - 24, size>>
  BY DEF SignedAs
<1>3. EntriesEnd(file) = start
  BY <1>1, BlockIsFound
<1>4. BlockStart = start
  BY <1>2, <1>3, PaddingFacts DEF BlockStart
<1>5. ASSUME values = vs PROVE NewFile = file
  <2>1. NewCdOff = cd /\ SigningBlockSize(values) - 8 = size
    BY <1>4, <1>5 DEF NewCdOff
  <2>2. CdLen = e.cdSize /\ EntryCount = Records(file)
    BY <1>1, <1>2, DirectoryFacts
  <2>3. e \in EocdRecord /\ e \in file.eocds
    BY <1>1, EocdFacts
  <2>4. cd \in Nat /\ e.cdSize \in Nat /\ e.off \in Nat
    BY <1>2, <2>3, SizeFacts, ConstantsAssumption DEF EocdRecord
  <2>5. Shift = 0
    <3>1. Shift = cd + e.cdSize - e.off
      BY <2>1, <2>2 DEF Shift
    <3>. QED BY ONLY <1>2, <2>4, <3>1
  <2>. HIDE DEF e, cd, size
  <2>6. NewEocd = e
    <3>1. NewEocd = [off |-> cd + e.cdSize, comment |-> e.comment, disk |-> 0,
                     count |-> Records(file) % U16, cdSize |-> e.cdSize, cdOff |-> cd]
      BY <2>1, <2>2, NewEocdFields DEF e
    <3>2. e = [off |-> e.off, comment |-> e.comment, disk |-> e.disk,
               count |-> e.count, cdSize |-> e.cdSize, cdOff |-> e.cdOff]
      BY <2>3 DEF EocdRecord
    <3>. QED BY ONLY <1>2, <3>1, <3>2
  <2>7. NewFile.eocds = file.eocds
    <3>1. ASSUME NEW o \in file.eocds PROVE [o EXCEPT !.off = @ + Shift] = o
      <4>1. o \in EocdRecord /\ o.off + Shift = o.off
        BY <1>1, <2>5 DEF File, EocdRecord
      <4>. QED BY <4>1 DEF EocdRecord
    <3>2. NewFile.eocds = {o \in file.eocds : o.off < start}
            \cup {[o EXCEPT !.off = @ + Shift] : o \in {x \in file.eocds : x.off > e.off}}
            \cup {e}
      BY <1>1, <1>3, <2>6, NewFileParts DEF e
    <3>3. \A o \in NewFile.eocds : o \in file.eocds
      BY <2>3, <3>1, <3>2
    <3>4. \A o \in file.eocds : o \in NewFile.eocds
      BY <1>2, <3>1, <3>2
    <3>. QED BY <3>3, <3>4
  <2>8. NewFile.locators = file.locators
    BY <1>1, <1>2, <1>3, NewFileParts
  <2>9. NewFile.magics = file.magics
    <3>1. NewFile.magics = {o \in file.magics : o < start} \cup {cd - 16}
      BY <1>1, <1>3, <2>1, NewFileParts
    <3>. QED BY ONLY <1>2, <3>1
  <2>10. NewFile.words = file.words
    <3>1. NewFile.words = {w \in file.words : w[1] < start}
                            \cup {<<start, size>>, <<cd - 24, size>>}
      BY <1>1, <1>3, <1>4, <2>1, NewFileParts
    <3>. QED BY ONLY <1>2, <3>1
  <2>11. NewFile.len = file.len /\ NewFile.recordLen = file.recordLen /\ NewFile.stale = file.stale
    BY <1>1, <1>2, <2>5, NewFileParts DEF File
  <2>12. file = [len |-> file.len, eocds |-> file.eocds, locators |-> file.locators,
                 magics |-> file.magics, words |-> file.words, recordLen |-> file.recordLen,
                 stale |-> file.stale]
    BY <1>1 DEF File
  <2>. QED BY <1>1, <2>7, <2>8, <2>9, <2>10, <2>11, <2>12, NewFileParts
<1>. QED BY <1>4, <1>5
-----------------------------------------------------------------------------
(* The steps keep the invariant.                                           *)

\* Any of the inputs is a file that was not signed before by this run.
LEMMA InitInv == Init => IInv
<1>. SUFFICES ASSUME Init PROVE IInv
  OBVIOUS
<1>1. WellFormed(file)
  BY ApksAssumption DEF Init, WellFormed
<1>2. values \in Seq(Nat)
  <2>1. Values \subseteq Nat
    BY ConstantsAssumption
  <2>2. ASSUME NEW v \in Values, NEW w \in Values PROVE <<v>> \in Seq(Nat) /\ <<v, w>> \in Seq(Nat)
    BY <2>1
  <2>3. CASE values \in {<<v>> : v \in Values}
    <3>1. PICK v \in Values : values = <<v>>
      BY <2>3
    <3>. QED BY <2>2, <3>1
  <2>4. CASE values \in {<<v, w>> : v \in Values, w \in Values}
    <3>1. PICK v \in Values, w \in Values : values = <<v, w>>
      BY <2>4
    <3>. QED BY <2>2, <3>1
  <2>. QED BY <2>3, <2>4 DEF Init
<1>. QED BY <1>1, <1>2 DEF Init, IInv, TypeInv, Parsed, Resigned, Done, ResignIsStable

\* What depends on the file alone.
LEMMA SameFile ==
    ASSUME file' = file
    PROVE  /\ BlockStart' = BlockStart /\ CdLen' = CdLen /\ Patched' = Patched
           /\ WellFormed(file)' = WellFormed(file) /\ Parses(file)' = Parses(file)
           /\ BrokenCd(file)' = BrokenCd(file) /\ Eocd(file)' = Eocd(file)
  BY DEF BlockStart, CdLen, Patched, EntryCount

\* The digest is of the layout that the block will complete.
LEMMA DigestInv == IInv /\ Digest => IInv'
<1>. SUFFICES ASSUME IInv, Digest PROVE IInv'
  OBVIOUS
<1>1. /\ pc = "digest" /\ pc' = "sign" /\ UNCHANGED <<file, signing, values, before>>
      /\ signed' = Covers(BlockStart, CdLen, [Patched EXCEPT !.cdOff = BlockStart % U32])
  BY DEF Digest
<1>2. TypeInv' /\ Parsed'
  BY <1>1, SameFile DEF IInv, TypeInv, Parsed, Covers
<1>3. Resigned'
  BY <1>1 DEF IInv, Resigned
<1>. QED BY <1>1, <1>2, <1>3 DEF IInv, Done, ResignIsStable

\* The written file is signed over what was digested.
LEMMA WriteInv == IInv /\ Write => IInv'
<1>. SUFFICES ASSUME IInv, Write PROVE IInv'
  OBVIOUS
<1>. USE DEF IInv
<1>1. /\ pc = "sign" /\ ~TooLong /\ file' = NewFile /\ pc' = "signed"
      /\ UNCHANGED <<signing, values, signed, before>>
  BY DEF Write
<1>2. /\ WellFormed(file) /\ Parses(file) /\ ~BrokenCd(file) /\ values \in Seq(Nat)
      /\ signed = Covers(BlockStart, CdLen, [Patched EXCEPT !.cdOff = BlockStart % U32])
  BY <1>1 DEF TypeInv, Parsed
<1>3. WellFormed(NewFile) /\ SignedAs(NewFile, values, BlockStart)
  BY <1>1, <1>2, NewFileIsSigned
<1>4. TypeInv'
  BY <1>1, <1>3 DEF TypeInv
<1>5. signed.entries = BlockStart
  BY <1>2 DEF Covers
<1>6. Eocd(NewFile) = NewEocd /\ BlockStart % U32 = BlockStart
  BY <1>1, <1>2, NewEocdIsFound, NewNumbers
<1>7. signed = Covers(BlockStart, NewEocd.cdSize, [NewEocd EXCEPT !.cdOff = BlockStart])
  <2>. DEFINE a == [Patched EXCEPT !.cdOff = BlockStart]
              b == [NewEocd EXCEPT !.cdOff = BlockStart]
  <2>1. /\ NewEocd = [off |-> NewCdOff + CdLen, comment |-> Eocd(file).comment, disk |-> 0,
                      count |-> EntryCount % U16, cdSize |-> CdLen, cdOff |-> NewCdOff]
        /\ Patched = [off |-> Eocd(file).off, comment |-> Eocd(file).comment, disk |-> 0,
                      count |-> EntryCount % U16, cdSize |-> CdLen, cdOff |-> Eocd(file).cdOff]
    BY <1>1, <1>2, NewEocdFields
  <2>2. [a EXCEPT !.off = 0] = [b EXCEPT !.off = 0]
    <3>. DEFINE x == [comment |-> Eocd(file).comment, count |-> EntryCount % U16]
    <3>1. /\ a = [off |-> Eocd(file).off, comment |-> x.comment, disk |-> 0,
                  count |-> x.count, cdSize |-> CdLen, cdOff |-> BlockStart]
          /\ b = [off |-> NewCdOff + CdLen, comment |-> x.comment, disk |-> 0,
                  count |-> x.count, cdSize |-> CdLen, cdOff |-> BlockStart]
      BY <2>1
    <3>. HIDE DEF a, b, x
    <3>. QED BY <3>1
  <2>3. NewEocd.cdSize = CdLen
    BY <2>1
  <2>. QED BY <1>2, <1>6, <2>2, <2>3 DEF Covers
<1>8. Done'
  BY <1>1, <1>3, <1>5, <1>6, <1>7 DEF Done
<1>9. ResignIsStable'
  <2>. SUFFICES ASSUME signing > 1
                PROVE  /\ signed.entries = before.start
                       /\ values = before.values => NewFile = before.file
    BY <1>1 DEF ResignIsStable
  <2>1. /\ before.file = file /\ before.values \in Seq(Nat)
        /\ SignedAs(file, before.values, before.start)
    BY <1>1 DEF Resigned
  <2>2. BlockStart = before.start /\ (values = before.values => NewFile = file)
    BY <1>1, <1>2, <2>1, SameAgain
  <2>. QED BY <1>5, <2>1, <2>2
<1>. QED BY <1>1, <1>4, <1>8, <1>9 DEF Parsed, Resigned

\* The next signing starts from the file that this one has left.
LEMMA SignAgainInv == IInv /\ SignAgain => IInv'
<1>. SUFFICES ASSUME IInv, SignAgain PROVE IInv'
  OBVIOUS
<1>1. /\ pc = "signed" /\ pc' = "parse" /\ signing' = signing + 1 /\ file' = file
      /\ values' \in {values} \cup {<<v>> : v \in Values}
      /\ before' = [file |-> file, values |-> values, start |-> signed.entries]
  BY DEF SignAgain
<1>2. values' \in Seq(Nat)
  <2>1. \A v \in Values : <<v>> \in Seq(Nat)
    BY ConstantsAssumption
  <2>2. values \in Seq(Nat)
    BY DEF IInv, TypeInv
  <2>. QED BY <1>1, <2>1, <2>2
<1>3. TypeInv'
  BY <1>1, <1>2, SameFile DEF IInv, TypeInv
<1>4. /\ before'.file = file /\ before'.values = values /\ before'.start = signed.entries
  BY <1>1
<1>5. Resigned'
  BY <1>1, <1>4 DEF IInv, Done, TypeInv, Resigned
<1>. QED BY <1>1, <1>3, <1>5 DEF IInv, Parsed, Done, ResignIsStable

\* Every step keeps the invariant.
LEMMA NextInv == IInv /\ [Next]_vars => IInv'
<1>. SUFFICES ASSUME IInv, [Next]_vars PROVE IInv'
  OBVIOUS
<1>1. CASE Parse \/ ParseFails \/ SignFails
  <2>1. /\ UNCHANGED <<file, signing, values, signed, before>>
        /\ \/ pc = "parse" /\ pc' = "digest" /\ Parses(file) /\ ~BrokenCd(file)
           \/ pc' = "failed"
    BY <1>1 DEF Parse, ParseFails, SignFails
  <2>2. TypeInv' /\ Parsed'
    BY <2>1, SameFile DEF IInv, TypeInv, Parsed
  <2>. QED BY <2>1, <2>2 DEF IInv, Resigned, Done, ResignIsStable
<1>2. CASE UNCHANGED vars
  <2>1. UNCHANGED <<file, signing, pc, values, signed, before>>
    BY <1>2 DEF vars
  <2>2. TypeInv' /\ Parsed'
    BY <2>1, SameFile DEF IInv, TypeInv, Parsed
  <2>3. Resigned' /\ Done' /\ ResignIsStable'
    BY <2>1 DEF IInv, Resigned, Done, ResignIsStable
  <2>. QED BY <2>2, <2>3 DEF IInv
<1>. QED BY <1>1, <1>2, DigestInv, WriteInv, SignAgainInv DEF Next, Finished
-----------------------------------------------------------------------------
(* The theorems.                                                           *)

\* The block fills whole pages and its padding has room for a header, for
\* every length of the scheme blocks; the Central Directory begins on a page.
THEOREM ExactBlock == Spec => []BlockIsExact
<1>1. IInv => BlockIsExact
  <2>. SUFFICES ASSUME IInv PROVE BlockIsExact
    OBVIOUS
  <2>1. values \in Seq(Nat)
    BY DEF IInv, TypeInv
  <2>2. /\ SigningBlockSize(values) \in Nat /\ SigningBlockSize(values) % Page = 0
        /\ PaddingPair(values) = 0 \/ PaddingPair(values) >= 12
    BY <2>1, SizeFacts
  <2>3. ASSUME pc = "signed" PROVE Eocd(file).cdOff % Page = 0
    <3>1. /\ signed.entries \in Nat /\ signed.entries % Page = 0
          /\ Eocd(file).cdOff = signed.entries + SigningBlockSize(values)
      BY <2>3 DEF IInv, Done, SignedAs
    <3>2. Page \in Nat \ {0}
      BY ConstantsAssumption
    <3>. QED BY <2>2, <3>1, <3>2, Multiples
  <2>. QED BY <2>2, <2>3 DEF BlockIsExact
<1>. QED BY InitInv, NextInv, <1>1, PTL DEF Spec

\* Who parses a signed APK finds the block that was written and what its
\* digest covers, whatever else in the file looks like an EOCD or a block.
THEOREM VerifierFinds == Spec => []VerifierAgrees
<1>1. IInv => VerifierAgrees
  <2>. SUFFICES ASSUME IInv, pc = "signed", Records(file) < U16 - 1
                PROVE  /\ Parses(file) /\ OldBlock(file) = SigningBlockSize(values)
                       /\ signed = Covers(EntriesEnd(file), Eocd(file).cdSize,
                                          [Eocd(file) EXCEPT !.cdOff = EntriesEnd(file)])
    BY DEF VerifierAgrees
  <2>1. file \in File /\ values \in Seq(Nat)
    BY DEF IInv, TypeInv, WellFormed
  <2>2. /\ SignedAs(file, values, signed.entries)
        /\ signed = Covers(signed.entries, Eocd(file).cdSize,
                           [Eocd(file) EXCEPT !.cdOff = signed.entries])
    BY DEF IInv, Done
  <2>3. /\ OldBlock(file) = SigningBlockSize(values) /\ EntriesEnd(file) = signed.entries
        /\ Eocd(file).count # U16 - 1 => Parses(file)
    BY <2>1, <2>2, BlockIsFound
  <2>4. Eocd(file).count = Records(file) % U16 /\ Candidates(file) # {}
    BY <2>2 DEF SignedAs
  <2>5. Records(file) \in Nat
    <3>1. Eocd(file) \in EocdRecord
      BY <2>1, <2>4, EocdFacts
    <3>2. Eocd(file).cdSize \in Nat /\ file.recordLen \in Nat \ {0}
      BY <2>1, <3>1, RecordFields, FileFields
    <3>3. Eocd(file).cdSize \div file.recordLen \in Nat
      BY ONLY <3>2
    <3>. QED BY <3>3 DEF Records
  <2>6. Records(file) % U16 = Records(file)
    <3>1. U16 \in Nat \ {0}
      BY ConstantsAssumption
    <3>. QED BY ONLY <2>5, <3>1, Records(file) < U16 - 1
  <2>7. Eocd(file).count # U16 - 1
    <3>1. U16 \in Nat \ {0}
      BY ConstantsAssumption
    <3>. QED BY <2>4, <2>5, <2>6, <3>1
  <2>. QED BY <2>2, <2>3, <2>7
<1>. QED BY InitInv, NextInv, <1>1, PTL DEF Spec

\* Signing again puts the block where the old one was, and with blocks as
\* long as the old ones gives the same layout.
THEOREM StableResign == Spec => []ResignIsStable
<1>1. IInv => ResignIsStable
  BY DEF IInv
<1>. QED BY InitInv, NextInv, <1>1, PTL DEF Spec
=============================================================================
