-------------------------- MODULE TailSpliceProofs --------------------------
(***************************************************************************)
(* Proofs about TailSplice, for any page size, any lengths of the entries  *)
(* section and of the blocks, any number of records, any choice of stale   *)
(* ones and any number of signings: the splice leaves the file that --out  *)
(* would have written, never touches the entries, and writes the block     *)
(* alone where nothing else changes.                                       *)
(***************************************************************************)
EXTENDS TailSplice, CommonLemmas

\* What a file is made of.
Cell ==
    {<<"entry", i>> : i \in Nat} \cup {<<"zero">>}
    \cup {<<"block", g, i>> : g \in Nat, i \in Nat}
    \cup {<<"record", i>> : i \in Nat}
    \cup {<<"eocd", off, len, count>> : off \in Nat, len \in Nat, count \in Nat}
-----------------------------------------------------------------------------
(* Filtering a Central Directory.  The proofs take the least number for    *)
(* which a statement fails.                                                *)

\* Kept is what filter_cd has kept of the first n records, for n up to m.
FilterUpTo(cd, drop, m, kept) ==
    kept = [n \in 0 .. m |->
              IF n = 0 THEN <<>>
              ELSE IF cd[n][2] \in drop THEN kept[n - 1] ELSE Append(kept[n - 1], cd[n])]

\* The loop of filter_cd runs to the end.
LEMMA FilterExists ==
    ASSUME NEW cd, NEW drop, NEW m \in Nat
    PROVE  \E kept : FilterUpTo(cd, drop, m, kept)
<1>. DEFINE Bad == {n \in Nat : \A kept : ~FilterUpTo(cd, drop, n, kept)}
<1>. SUFFICES Bad = {}
  OBVIOUS
<1>. SUFFICES ASSUME Bad # {} PROVE FALSE
  OBVIOUS
<1>1. PICK n \in Bad : \A i \in Bad : n <= i
  BY LeastNumber
<1>2. n \in Nat /\ \A kept : ~FilterUpTo(cd, drop, n, kept)
  OBVIOUS
<1>3. CASE n = 0
  <2>. DEFINE f == [i \in 0 .. 0 |-> <<>>]
  <2>1. FilterUpTo(cd, drop, 0, f)
    BY DEF FilterUpTo
  <2>. QED BY <1>2, <1>3, <2>1
<1>4. CASE n # 0
  <2>1. n - 1 \in Nat /\ n - 1 \notin Bad
    BY <1>1, <1>2, <1>4
  <2>2. PICK f : FilterUpTo(cd, drop, n - 1, f)
    BY <2>1
  <2>. DEFINE last == IF cd[n][2] \in drop THEN f[n - 1] ELSE Append(f[n - 1], cd[n])
              g == [i \in 0 .. n |-> IF i = n THEN last ELSE f[i]]
  <2>3. \A i \in 0 .. n : g[i] = IF i = n THEN last ELSE f[i]
    OBVIOUS
  <2>4. \A i \in 0 .. n - 1 : f[i] = IF i = 0 THEN <<>>
           ELSE IF cd[i][2] \in drop THEN f[i - 1] ELSE Append(f[i - 1], cd[i])
    BY <2>2 DEF FilterUpTo
  <2>5. \A i \in 0 .. n : g[i] = IF i = 0 THEN <<>>
           ELSE IF cd[i][2] \in drop THEN g[i - 1] ELSE Append(g[i - 1], cd[i])
    <3>. SUFFICES ASSUME NEW i \in 0 .. n
                  PROVE  g[i] = IF i = 0 THEN <<>>
                         ELSE IF cd[i][2] \in drop THEN g[i - 1] ELSE Append(g[i - 1], cd[i])
      OBVIOUS
    <3>. HIDE DEF g
    <3>1. CASE i = n
      <4>1. g[i] = last /\ g[i - 1] = f[i - 1]
        BY <1>2, <1>4, <2>3, <3>1
      <4>. QED BY <1>4, <3>1, <4>1
    <3>2. CASE i # n /\ i # 0
      <4>1. i \in 0 .. n - 1 /\ g[i] = f[i] /\ g[i - 1] = f[i - 1]
        BY <1>2, <2>3, <3>2
      <4>. QED BY <2>4, <3>2, <4>1
    <3>3. CASE i = 0 /\ i # n
      <4>1. i \in 0 .. n - 1 /\ g[i] = f[i]
        BY <1>2, <2>3, <3>3
      <4>. QED BY <2>4, <3>3, <4>1
    <3>. QED BY <3>1, <3>2, <3>3
  <2>6. DOMAIN g = 0 .. n /\ g = [i \in 0 .. n |-> g[i]]
    OBVIOUS
  <2>7. FilterUpTo(cd, drop, n, g)
    <3>. HIDE DEF g
    <3>. QED BY <2>5, <2>6 DEF FilterUpTo
  <2>. QED BY <1>2, <2>7
<1>. QED BY <1>3, <1>4

\* What filter_cd keeps is a sequence of records of the directory, and all of
\* it if none is stale: the directory is then borrowed.
LEMMA FilterResult ==
    ASSUME NEW cd \in Seq(Cell), NEW drop
    PROVE  /\ Filtered(cd, drop) \in Seq(Cell)
           /\ drop = {} => Filtered(cd, drop) = cd
<1>. DEFINE kept == CHOOSE kept : FilterUpTo(cd, drop, Len(cd), kept)
<1>1. Len(cd) \in Nat
  OBVIOUS
<1>2. FilterUpTo(cd, drop, Len(cd), kept)
  BY <1>1, FilterExists
<1>3. Filtered(cd, drop) = kept[Len(cd)]
  BY DEF Filtered, FilterUpTo
<1>. HIDE DEF kept
<1>4. \A n \in 0 .. Len(cd) : kept[n] = IF n = 0 THEN <<>>
         ELSE IF cd[n][2] \in drop THEN kept[n - 1] ELSE Append(kept[n - 1], cd[n])
  BY <1>2 DEF FilterUpTo
<1>. DEFINE Good(n) == kept[n] \in Seq(Cell) /\ (drop = {} => kept[n] = SubSeq(cd, 1, n))
            Bad == {n \in 0 .. Len(cd) : ~Good(n)}
<1>5. ASSUME Bad # {} PROVE FALSE
  <2>0. Bad \in SUBSET Nat
    BY <1>1
  <2>1. PICK n \in Bad : \A i \in Bad : n <= i
    <3>. HIDE DEF Bad
    <3>. QED BY <1>5, <2>0, LeastNumber
  <2>2. n \in 0 .. Len(cd) /\ ~Good(n)
    OBVIOUS
  <2>3. n # 0
    <3>1. kept[0] = <<>>
      BY <1>1, <1>4
    <3>2. SubSeq(cd, 1, 0) = <<>>
      OBVIOUS
    <3>3. Good(0)
      BY <3>1, <3>2
    <3>. QED BY <2>2, <3>3
  <2>4. n - 1 \in 0 .. Len(cd) /\ Good(n - 1)
    BY <1>1, <2>1, <2>2, <2>3
  <2>5. kept[n] = IF cd[n][2] \in drop THEN kept[n - 1] ELSE Append(kept[n - 1], cd[n])
    BY <1>4, <2>2, <2>3
  <2>6. cd[n] \in Cell
    BY <1>1, <2>2, <2>3
  <2>7. kept[n] \in Seq(Cell)
    <3>. HIDE DEF Bad
    <3>. QED BY <2>4, <2>5, <2>6
  <2>8. ASSUME drop = {} PROVE kept[n] = SubSeq(cd, 1, n)
    <3>1. kept[n] = Append(SubSeq(cd, 1, n - 1), cd[n])
      BY <2>4, <2>5, <2>8
    <3>2. Append(SubSeq(cd, 1, n - 1), cd[n]) = SubSeq(cd, 1, n)
      BY <1>1, <2>2, <2>3
    <3>. QED BY <3>1, <3>2
  <2>. QED BY <2>2, <2>7, <2>8
<1>6. Good(Len(cd))
  BY <1>1, <1>5
<1>7. SubSeq(cd, 1, Len(cd)) = cd
  OBVIOUS
<1>. QED BY <1>3, <1>6, <1>7
-----------------------------------------------------------------------------
(* The inductive invariant.                                                *)

TypeInv ==
    /\ entriesEnd \in Nat /\ oldBlock \in Nat
    /\ signing \in Nat \ {0} /\ pages \in Nat \ {0}
    /\ input \in Seq(Cell) /\ file \in Seq(Cell)
    /\ todo \in Seq({"owned"} \X Cell)
    /\ pc \in {"prepare", "write", "done", "failed"}
    /\ entriesEnd + oldBlock < Len(input)

\* An APK that this code signed has no stale record, a block that starts on
\* a page, and an EOCD that counts its records right.
Resigned ==
    signing > 1 =>
        /\ stale = {}
        /\ entriesEnd % PageLen = 0
        /\ input[Len(input)] = Eocd(entriesEnd + oldBlock, Len(MappedCd), Len(MappedCd))

\* The cells write_tail writes.
TailCells == PaddedBlock \o (IF NothingMoves THEN <<>> ELSE Cd \o <<NewEocd>>)

\* The file while the tail is written: the cells before the next one are
\* new, all others are as they were.
Progress ==
    pc = "write" =>
        /\ Len(todo) <= TailLen
        /\ \A j \in 1 .. Len(todo) : todo[j] = <<"owned", TailCells[TailLen - Len(todo) + j]>>
        /\ Len(file) = IF Position - 1 >= Len(input) THEN Position - 1 ELSE Len(input)
        /\ \A i \in 1 .. Len(file) :
              file[i] = IF i \in entriesEnd + 1 .. Position - 1
                          THEN TailCells[i - entriesEnd] ELSE input[i]

Untouched == pc = "prepare" => file = input

IInv == TypeInv /\ Resigned /\ Progress /\ Untouched /\ InPlaceEqualsOut
-----------------------------------------------------------------------------
(* The padding, the tail and the image.                                    *)

\* A multiple of the page length leaves no rest.
LEMMA WholePages ==
    ASSUME NEW q \in Nat
    PROVE  (q * PageLen) % PageLen = 0
<1>1. PageLen \in Nat \ {0}
  BY ConstantsAssumption
<1>2. 0 \in 0 .. PageLen - 1 /\ PageLen * q + 0 = q * PageLen
  BY <1>1
<1>3. (PageLen * q + 0) % PageLen = 0
  BY <1>1, <1>2, Division
<1>. QED BY <1>2, <1>3

\* The padding brings the block to a page, and none is needed there.
LEMMA PadFacts ==
    ASSUME entriesEnd \in Nat
    PROVE  /\ Pad \in Nat /\ (entriesEnd + Pad) % PageLen = 0
           /\ entriesEnd % PageLen = 0 => Pad = 0
<1>. DEFINE q == entriesEnd \div PageLen
            r == entriesEnd % PageLen
<1>1. PageLen \in Nat \ {0}
  BY ConstantsAssumption
<1>2. q \in Nat /\ r \in 0 .. PageLen - 1 /\ entriesEnd = PageLen * q + r
  BY <1>1
<1>3. Pad = (PageLen - r) % PageLen
  BY DEF Pad
<1>. HIDE DEF q, r
<1>4. CASE r = 0
  <2>1. PageLen = 1 * PageLen
    BY <1>1
  <2>2. Pad = 0
    BY <1>1, <1>3, <1>4, <2>1, WholePages
  <2>3. entriesEnd + Pad = q * PageLen
    BY <1>1, <1>2, <1>4, <2>2
  <2>. QED BY <1>2, <2>2, <2>3, WholePages
<1>5. CASE r # 0
  <2>1. PageLen - r \in 0 .. PageLen - 1
    BY <1>1, <1>2, <1>5
  <2>2. (PageLen - r) % PageLen = PageLen - r
    BY <1>1, <2>1
  <2>3. Pad = PageLen - r
    BY <1>3, <2>2
  <2>4. entriesEnd + Pad = (q + 1) * PageLen
    BY <1>1, <1>2, <2>3
  <2>5. r # 0 => ~(entriesEnd % PageLen = 0)
    BY DEF r
  <2>. QED BY <1>2, <1>5, <2>1, <2>3, <2>4, <2>5, WholePages
<1>. QED BY <1>4, <1>5

\* The pieces of the tail are sequences of cells.
LEMMA Pieces ==
    ASSUME TypeInv
    PROVE  /\ MappedCd \in Seq(Cell) /\ Len(MappedCd) = Len(input) - 1 - entriesEnd - oldBlock
           /\ Cd \in Seq(Cell) /\ (stale = {} => Cd = MappedCd)
           /\ PaddedBlock \in Seq(Cell) /\ Len(PaddedBlock) = Pad + pages * PageLen
           /\ pages * PageLen \in Nat
           /\ NewEocd \in Cell /\ NewLen \in Nat
<1>1. /\ PageLen \in Nat /\ Pad \in Nat
      /\ entriesEnd \in Nat /\ oldBlock \in Nat /\ signing \in Nat /\ pages \in Nat
      /\ input \in Seq(Cell) /\ entriesEnd + oldBlock < Len(input)
  BY ConstantsAssumption, PadFacts DEF TypeInv
<1>2. MappedCd \in Seq(Cell) /\ Len(MappedCd) = Len(input) - 1 - entriesEnd - oldBlock
  BY <1>1 DEF MappedCd
<1>3. Cd \in Seq(Cell) /\ (stale = {} => Cd = MappedCd)
  BY <1>2, FilterResult DEF Cd
<1>4. pages * PageLen \in Nat
  BY <1>1
<1>5. Zeros(Pad) \in Seq(Cell) /\ Len(Zeros(Pad)) = Pad
  <2>1. <<"zero">> \in Cell
    BY DEF Cell
  <2>. QED BY <1>1, <2>1 DEF Zeros
<1>6. ASSUME NEW n \in Nat PROVE Block(signing, n) \in Seq(Cell) /\ Len(Block(signing, n)) = n
  <2>1. \A i \in 1 .. n : <<"block", signing, i>> \in Cell
    BY <1>1 DEF Cell
  <2>. QED BY <2>1 DEF Block
<1>7. PaddedBlock \in Seq(Cell) /\ Len(PaddedBlock) = Pad + pages * PageLen
  BY <1>1, <1>4, <1>5, <1>6 DEF PaddedBlock
<1>8. NewEocd \in Cell
  <2>1. entriesEnd + Len(PaddedBlock) \in Nat /\ Len(Cd) \in Nat
    BY <1>1, <1>3, <1>4, <1>7
  <2>. QED BY <2>1 DEF NewEocd, Eocd, Cell
<1>9. NewLen \in Nat
  BY <1>1, <1>3, <1>4, <1>7 DEF NewLen
<1>. QED BY <1>2, <1>3, <1>4, <1>7, <1>8, <1>9

\* One sequence behind another.
LEMMA Joined ==
    ASSUME NEW s \in Seq(Cell), NEW t \in Seq(Cell)
    PROVE  /\ s \o t \in Seq(Cell) /\ Len(s \o t) = Len(s) + Len(t)
           /\ Len(s) \in Nat /\ Len(t) \in Nat
           /\ \A i \in 1 .. Len(s) : (s \o t)[i] = s[i]
           /\ \A i \in 1 .. Len(t) : (s \o t)[Len(s) + i] = t[i]
<1>1. /\ s \o t \in Seq(Cell) /\ Len(s \o t) = Len(s) + Len(t)
      /\ Len(s) \in Nat /\ Len(t) \in Nat
  OBVIOUS
<1>2. \A i \in 1 .. Len(s) : (s \o t)[i] = s[i]
  OBVIOUS
<1>3. ASSUME NEW i \in 1 .. Len(t) PROVE (s \o t)[Len(s) + i] = t[i]
  <2>1. /\ Len(s) + i \in 1 .. Len(s) + Len(t) /\ ~(Len(s) + i <= Len(s))
        /\ (Len(s) + i) - Len(s) = i
    BY <1>1
  <2>. QED BY <1>1, <2>1
<1>. QED BY <1>1, <1>2, <1>3

\* The image of --out, cell by cell.
LEMMA ImageCells ==
    ASSUME TypeInv
    PROVE  /\ OutImage \in Seq(Cell) /\ Len(OutImage) = NewLen
           /\ \A i \in 1 .. entriesEnd : OutImage[i] = input[i]
           /\ \A i \in 1 .. Len(PaddedBlock) : OutImage[entriesEnd + i] = PaddedBlock[i]
           /\ \A i \in 1 .. Len(Cd) : OutImage[entriesEnd + Len(PaddedBlock) + i] = Cd[i]
           /\ OutImage[NewLen] = NewEocd
<1>. DEFINE E == SubSeq(input, 1, entriesEnd)
            A == E \o PaddedBlock
            B == A \o Cd
<1>0. entriesEnd \in Nat /\ input \in Seq(Cell) /\ entriesEnd <= Len(input)
  BY DEF TypeInv
<1>1. E \in Seq(Cell) /\ Len(E) = entriesEnd /\ \A i \in 1 .. entriesEnd : E[i] = input[i]
  BY <1>0
<1>2. /\ PaddedBlock \in Seq(Cell) /\ Cd \in Seq(Cell) /\ NewEocd \in Cell
      /\ Len(PaddedBlock) \in Nat /\ Len(Cd) \in Nat
  BY Pieces
<1>3. NewLen = entriesEnd + Len(PaddedBlock) + Len(Cd) + 1
  BY DEF NewLen
<1>4. OutImage = B \o <<NewEocd>>
  BY DEF OutImage
<1>. HIDE DEF E
<1>5. /\ A \in Seq(Cell) /\ Len(A) = entriesEnd + Len(PaddedBlock)
      /\ \A i \in 1 .. entriesEnd : A[i] = input[i]
      /\ \A i \in 1 .. Len(PaddedBlock) : A[entriesEnd + i] = PaddedBlock[i]
  BY <1>1, <1>2, Joined
<1>. HIDE DEF A
<1>6. /\ B \in Seq(Cell) /\ Len(B) = entriesEnd + Len(PaddedBlock) + Len(Cd)
      /\ \A i \in 1 .. entriesEnd : B[i] = input[i]
      /\ \A i \in 1 .. Len(PaddedBlock) : B[entriesEnd + i] = PaddedBlock[i]
      /\ \A i \in 1 .. Len(Cd) : B[entriesEnd + Len(PaddedBlock) + i] = Cd[i]
  <2>1. /\ B \in Seq(Cell) /\ Len(B) = Len(A) + Len(Cd)
        /\ \A i \in 1 .. Len(A) : B[i] = A[i]
        /\ \A i \in 1 .. Len(Cd) : B[Len(A) + i] = Cd[i]
    BY <1>2, <1>5, Joined
  <2>. HIDE DEF B
  <2>2. /\ \A i \in 1 .. entriesEnd : i \in 1 .. Len(A)
        /\ \A i \in 1 .. Len(PaddedBlock) : entriesEnd + i \in 1 .. Len(A)
    BY <1>0, <1>2, <1>5
  <2>. QED BY <1>5, <2>1, <2>2
<1>. HIDE DEF B
<1>7. <<NewEocd>> \in Seq(Cell) /\ Len(<<NewEocd>>) = 1 /\ <<NewEocd>>[1] = NewEocd
  BY <1>2
<1>8. /\ OutImage \in Seq(Cell) /\ Len(OutImage) = Len(B) + 1
      /\ \A i \in 1 .. Len(B) : OutImage[i] = B[i]
      /\ OutImage[Len(B) + 1] = NewEocd
  <2>1. 1 \in 1 .. Len(<<NewEocd>>)
    BY <1>7
  <2>. HIDE DEF NewEocd
  <2>. QED BY <1>4, <1>6, <1>7, <2>1, Joined
<1>9. /\ \A i \in 1 .. entriesEnd : i \in 1 .. Len(B)
      /\ \A i \in 1 .. Len(PaddedBlock) : entriesEnd + i \in 1 .. Len(B)
      /\ \A i \in 1 .. Len(Cd) : entriesEnd + Len(PaddedBlock) + i \in 1 .. Len(B)
  <2>1. entriesEnd \in Nat /\ Len(PaddedBlock) \in Nat /\ Len(Cd) \in Nat
    BY <1>0, <1>2
  <2>2. Len(B) = entriesEnd + Len(PaddedBlock) + Len(Cd)
    BY <1>6
  <2>. QED BY ONLY <2>1, <2>2
<1>. QED BY <1>3, <1>6, <1>8, <1>9

\* The cells write_tail writes are those of the image behind the entries, all
\* of them unless nothing moves, and then those of the block.
LEMMA TailIsImage ==
    ASSUME TypeInv
    PROVE  /\ TailCells \in Seq(Cell) /\ Len(TailCells) = TailLen /\ TailLen \in Nat
           /\ \A i \in 1 .. TailLen : TailCells[i] = OutImage[entriesEnd + i]
           /\ ~NothingMoves => entriesEnd + TailLen = NewLen
           /\ NothingMoves => TailLen = Len(PaddedBlock)
<1>0. entriesEnd \in Nat
  BY DEF TypeInv
<1>1. /\ PaddedBlock \in Seq(Cell) /\ Cd \in Seq(Cell) /\ NewEocd \in Cell
      /\ Len(PaddedBlock) \in Nat /\ Len(Cd) \in Nat
  BY Pieces
<1>2. NewLen = entriesEnd + Len(PaddedBlock) + Len(Cd) + 1
  BY DEF NewLen
<1>3. CASE NothingMoves
  <2>1. TailCells = PaddedBlock \o <<>> /\ TailLen = Len(PaddedBlock) + 0
    BY <1>3 DEF TailCells, TailLen
  <2>2. TailCells = PaddedBlock /\ TailLen = Len(PaddedBlock)
    BY <1>1, <2>1
  <2>. QED BY <1>1, <1>3, <2>2, ImageCells
<1>4. CASE ~NothingMoves
  <2>. DEFINE rest == Cd \o <<NewEocd>>
  <2>1. TailCells = PaddedBlock \o rest /\ TailLen = Len(PaddedBlock) + (Len(Cd) + 1)
    BY <1>4 DEF TailCells, TailLen
  <2>2. /\ rest \in Seq(Cell) /\ Len(rest) = Len(Cd) + 1
        /\ \A i \in 1 .. Len(Cd) : rest[i] = Cd[i]
        /\ rest[Len(Cd) + 1] = NewEocd
    BY <1>1
  <2>. HIDE DEF rest
  <2>3. /\ TailCells \in Seq(Cell) /\ Len(TailCells) = TailLen
        /\ \A i \in 1 .. Len(PaddedBlock) : TailCells[i] = PaddedBlock[i]
        /\ \A i \in 1 .. Len(Cd) + 1 : TailCells[Len(PaddedBlock) + i] = rest[i]
    <3>1. /\ PaddedBlock \o rest \in Seq(Cell)
          /\ Len(PaddedBlock \o rest) = Len(PaddedBlock) + Len(rest)
          /\ \A i \in 1 .. Len(PaddedBlock) : (PaddedBlock \o rest)[i] = PaddedBlock[i]
          /\ \A i \in 1 .. Len(rest) : (PaddedBlock \o rest)[Len(PaddedBlock) + i] = rest[i]
      BY <1>1, <2>2, Joined
    <3>. QED BY <2>1, <2>2, <3>1
  <2>4. ASSUME NEW i \in 1 .. TailLen PROVE TailCells[i] = OutImage[entriesEnd + i]
    <3>1. CASE i \in 1 .. Len(PaddedBlock)
      BY <2>3, <3>1, ImageCells
    <3>2. CASE i \in Len(PaddedBlock) + 1 .. Len(PaddedBlock) + Len(Cd)
      <4>1. PICK j \in 1 .. Len(Cd) : i = Len(PaddedBlock) + j
        <5>1. i - Len(PaddedBlock) \in 1 .. Len(Cd) /\ i = Len(PaddedBlock) + (i - Len(PaddedBlock))
          BY <1>1, <3>2
        <5>. QED BY <5>1
      <4>2. TailCells[i] = Cd[j]
        BY <1>1, <2>2, <2>3, <4>1
      <4>3. OutImage[entriesEnd + Len(PaddedBlock) + j] = Cd[j]
        BY ImageCells
      <4>4. entriesEnd + i = entriesEnd + Len(PaddedBlock) + j
        BY <1>0, <1>1, <4>1
      <4>. QED BY <4>2, <4>3, <4>4
    <3>3. CASE i = Len(PaddedBlock) + (Len(Cd) + 1)
      <4>1. Len(Cd) + 1 \in 1 .. Len(Cd) + 1
        BY <1>1
      <4>2. TailCells[i] = NewEocd
        BY <2>2, <2>3, <3>3, <4>1
      <4>3. entriesEnd + i = NewLen
        BY <1>0, <1>1, <1>2, <3>3
      <4>. QED BY <4>2, <4>3, ImageCells
    <3>4. \/ i \in 1 .. Len(PaddedBlock)
          \/ i \in Len(PaddedBlock) + 1 .. Len(PaddedBlock) + Len(Cd)
          \/ i = Len(PaddedBlock) + (Len(Cd) + 1)
      BY <1>1, <2>1
    <3>. QED BY <3>1, <3>2, <3>3, <3>4
  <2>5. TailLen \in Nat /\ entriesEnd + TailLen = NewLen
    BY <1>0, <1>1, <1>2, <2>1
  <2>. QED BY <1>4, <2>3, <2>4, <2>5
<1>. QED BY <1>3, <1>4
-----------------------------------------------------------------------------
(* The steps.                                                              *)

\* What is to be written is settled when the file is mapped.
LEMMA Settled ==
    ASSUME UNCHANGED <<input, entriesEnd, oldBlock, stale, signing, pages>>
    PROVE  /\ MappedCd' = MappedCd /\ TailLen' = TailLen /\ TailCells' = TailCells
           /\ OutImage' = OutImage
<1>. USE DEF Pad
<1>1. MappedCd' = MappedCd
  BY DEF MappedCd
<1>2. Cd' = Cd
  BY <1>1 DEF Cd
<1>3. PaddedBlock' = PaddedBlock
  BY DEF PaddedBlock
<1>4. NewEocd' = NewEocd /\ NewLen' = NewLen
  BY <1>2, <1>3 DEF NewEocd, NewLen
<1>5. NothingMoves' <=> NothingMoves
  BY <1>2, <1>4 DEF NothingMoves
<1>6. TailLen' = TailLen
  BY <1>2, <1>3, <1>5 DEF TailLen
<1>7. TailCells' = TailCells
  BY <1>2, <1>3, <1>4, <1>5 DEF TailCells
<1>8. OutImage' = OutImage
  BY <1>2, <1>3, <1>4 DEF OutImage
<1>. QED BY <1>1, <1>6, <1>7, <1>8

\* Cells of memory.
LEMMA OwnedCells ==
    ASSUME NEW s \in Seq(Cell)
    PROVE  /\ Owned(s) \in Seq({"owned"} \X Cell) /\ Len(Owned(s)) = Len(s)
           /\ \A i \in 1 .. Len(s) : Owned(s)[i] = <<"owned", s[i]>>
<1>1. Len(s) \in Nat /\ \A i \in 1 .. Len(s) : <<"owned", s[i]>> \in {"owned"} \X Cell
  OBVIOUS
<1>. QED BY <1>1 DEF Owned

\* The cells of a joined sequence, in memory, are those of its parts.
LEMMA OwnedJoined ==
    ASSUME NEW s \in Seq(Cell), NEW t \in Seq(Cell)
    PROVE  Owned(s) \o Owned(t) = Owned(s \o t)
<1>. DEFINE P == {"owned"} \X Cell
            a == Owned(s)
            b == Owned(t)
            c == Owned(s \o t)
<1>1. /\ a \in Seq(P) /\ Len(a) = Len(s) /\ \A i \in 1 .. Len(s) : a[i] = <<"owned", s[i]>>
      /\ b \in Seq(P) /\ Len(b) = Len(t) /\ \A i \in 1 .. Len(t) : b[i] = <<"owned", t[i]>>
  BY OwnedCells
<1>2. s \o t \in Seq(Cell) /\ Len(s \o t) = Len(s) + Len(t) /\ Len(s) \in Nat /\ Len(t) \in Nat
  OBVIOUS
<1>3. /\ c \in Seq(P) /\ Len(c) = Len(s) + Len(t)
      /\ \A i \in 1 .. Len(s) + Len(t) : c[i] = <<"owned", (s \o t)[i]>>
  BY <1>2, OwnedCells
<1>. HIDE DEF P, a, b, c
<1>4. a \o b \in Seq(P) /\ Len(a \o b) = Len(s) + Len(t)
  <2>1. a \in Seq(P) /\ b \in Seq(P)
    BY <1>1
  <2>2. a \o b \in Seq(P) /\ Len(a \o b) = Len(a) + Len(b)
    BY ONLY <2>1
  <2>. QED BY <1>1, <2>2
<1>5. ASSUME NEW i \in 1 .. Len(s) + Len(t) PROVE (a \o b)[i] = c[i]
  <2>1. CASE i <= Len(s)
    <3>1. i \in 1 .. Len(s)
      BY <1>2, <2>1
    <3>2. (a \o b)[i] = a[i] /\ (s \o t)[i] = s[i]
      BY <1>1, <3>1
    <3>. QED BY <1>1, <1>3, <3>1, <3>2
  <2>2. CASE ~(i <= Len(s))
    <3>1. i - Len(s) \in 1 .. Len(t)
      BY <1>2, <2>2
    <3>2. (a \o b)[i] = b[i - Len(s)] /\ (s \o t)[i] = t[i - Len(s)]
      BY <1>1, <1>2, <2>2, <3>1
    <3>. QED BY <1>1, <1>3, <3>1, <3>2
  <2>. QED BY <2>1, <2>2
<1>6. a \o b = c
  BY <1>2, <1>3, <1>4, <1>5
<1>. QED BY <1>6 DEF a, b, c

\* Before the first cell is written the whole tail is to be written.
LEMMA PrepareInv ==
    ASSUME IInv, Prepare
    PROVE  IInv'
<1>. USE DEF IInv
<1>1. /\ UNCHANGED <<file, input, entriesEnd, oldBlock, stale, signing, pages>>
      /\ pc = "prepare" /\ pc' = "write" /\ file = input
  BY DEF Prepare, Untouched
<1>2. MappedCd' = MappedCd /\ TailLen' = TailLen /\ TailCells' = TailCells
  BY <1>1, Settled
<1>3. /\ TailCells \in Seq(Cell) /\ Len(TailCells) = TailLen /\ TailLen \in Nat
  BY TailIsImage
<1>4. todo' = Owned(TailCells)
  <2>1. PaddedBlock \in Seq(Cell) /\ Cd \in Seq(Cell) /\ <<NewEocd>> \in Seq(Cell)
    BY Pieces
  <2>2. CASE NothingMoves
    <3>1. todo' = Owned(PaddedBlock) \o <<>> /\ TailCells = PaddedBlock \o <<>>
      BY <2>2 DEF Prepare, TailCells
    <3>2. Owned(PaddedBlock) \o <<>> = Owned(PaddedBlock) /\ PaddedBlock \o <<>> = PaddedBlock
      BY <2>1, OwnedCells
    <3>. QED BY <3>1, <3>2
  <2>3. CASE ~NothingMoves
    <3>1. /\ todo' = Owned(PaddedBlock) \o (Owned(Cd) \o Owned(<<NewEocd>>))
          /\ TailCells = PaddedBlock \o (Cd \o <<NewEocd>>)
      BY <2>3 DEF Prepare, TailCells, CdToWrite
    <3>2. Owned(Cd) \o Owned(<<NewEocd>>) = Owned(Cd \o <<NewEocd>>)
      BY <2>1, OwnedJoined
    <3>3. Cd \o <<NewEocd>> \in Seq(Cell)
      BY <2>1
    <3>4. Owned(PaddedBlock) \o Owned(Cd \o <<NewEocd>>) = Owned(PaddedBlock \o (Cd \o <<NewEocd>>))
      BY <2>1, <3>3, OwnedJoined
    <3>. QED BY <3>1, <3>2, <3>4
  <2>. QED BY <2>2, <2>3
<1>5. /\ todo' \in Seq({"owned"} \X Cell) /\ Len(todo') = TailLen
      /\ \A j \in 1 .. Len(todo') : todo'[j] = <<"owned", TailCells[j]>>
  BY <1>3, <1>4, OwnedCells
<1>6. TypeInv'
  BY <1>1, <1>5 DEF TypeInv
<1>7. Resigned'
  BY <1>1, <1>2 DEF Resigned
<1>8. Position' - 1 = entriesEnd
  BY <1>1, <1>2, <1>3, <1>5 DEF Position, TypeInv
<1>9. Progress'
  <2>1. Len(file) = Len(input) /\ ~(entriesEnd >= Len(input)) /\ entriesEnd \in Nat
    BY <1>1 DEF TypeInv
  <2>2. \A j \in 1 .. TailLen : (TailLen - TailLen) + j = j
    BY <1>3
  <2>3. \A i : i \notin entriesEnd + 1 .. entriesEnd
    BY <2>1
  <2>. QED BY <1>1, <1>2, <1>3, <1>5, <1>8, <2>1, <2>2, <2>3 DEF Progress
<1>. QED BY <1>1, <1>6, <1>7, <1>9 DEF Untouched, InPlaceEqualsOut

\* A cell goes where it belongs in the image, over an old one or behind all.
LEMMA WriteCellInv ==
    ASSUME IInv, WriteCell
    PROVE  IInv'
<1>. USE DEF IInv
<1>. DEFINE n == Len(todo)
            cell == TailCells[TailLen - n + 1]
<1>1. /\ UNCHANGED <<input, entriesEnd, oldBlock, stale, signing, pages, pc>>
      /\ pc = "write" /\ todo # <<>> /\ todo' = Tail(todo)
  BY DEF WriteCell
<1>2. MappedCd' = MappedCd /\ TailLen' = TailLen /\ TailCells' = TailCells
  BY <1>1, Settled
<1>3. TailCells \in Seq(Cell) /\ Len(TailCells) = TailLen /\ TailLen \in Nat
  BY TailIsImage
<1>4. /\ entriesEnd \in Nat /\ input \in Seq(Cell) /\ file \in Seq(Cell)
      /\ Len(input) \in Nat /\ entriesEnd < Len(input)
      /\ todo \in Seq({"owned"} \X Cell) /\ n \in Nat /\ 1 <= n /\ n <= TailLen
  BY <1>1 DEF TypeInv, Progress
<1>5. cell \in Cell /\ TailLen - n + 1 \in 1 .. TailLen
  BY <1>3, <1>4
<1>6. Head(todo) = <<"owned", cell>>
  <2>1. Head(todo) = todo[1] /\ 1 \in 1 .. Len(todo)
    BY <1>1, <1>4
  <2>. QED BY <1>1, <2>1 DEF Progress
<1>7. Read(Head(todo)) = cell
  BY <1>6 DEF Read
<1>8. /\ todo' \in Seq({"owned"} \X Cell) /\ Len(todo') = n - 1
      /\ \A j \in 1 .. n - 1 : todo'[j] = todo[j + 1]
  BY <1>1, <1>4
<1>9. Position = entriesEnd + TailLen - n + 1 /\ Position' = Position + 1
  BY <1>1, <1>2, <1>3, <1>4, <1>8 DEF Position
<1>10. Position \in Nat /\ Position > entriesEnd /\ Position - entriesEnd = TailLen - n + 1
  BY <1>3, <1>4, <1>9
<1>11. /\ Len(file) = IF Position - 1 >= Len(input) THEN Position - 1 ELSE Len(input)
       /\ \A i \in 1 .. Len(file) :
             file[i] = IF i \in entriesEnd + 1 .. Position - 1
                         THEN TailCells[i - entriesEnd] ELSE input[i]
  BY <1>1 DEF Progress
<1>12. /\ file' \in Seq(Cell)
       /\ Len(file') = IF Position >= Len(input) THEN Position ELSE Len(input)
       /\ file'[Position] = cell
       /\ \A i \in 1 .. Len(file') : i # Position => i \in 1 .. Len(file) /\ file'[i] = file[i]
  <2>. HIDE DEF cell
  <2>1. CASE Position <= Len(file)
    <3>1. file' = [file EXCEPT ![Position] = cell]
      BY <1>7, <2>1 DEF WriteCell
    <3>2. Position \in 1 .. Len(file)
      BY <1>4, <1>10, <2>1
    <3>3. /\ file' \in Seq(Cell) /\ Len(file') = Len(file) /\ file'[Position] = cell
          /\ \A i \in 1 .. Len(file) : i # Position => file'[i] = file[i]
      BY <1>4, <1>5, <3>1, <3>2
    <3>4. Len(file) = IF Position >= Len(input) THEN Position ELSE Len(input)
      BY <1>4, <1>10, <1>11, <2>1
    <3>. QED BY <3>3, <3>4
  <2>2. CASE ~(Position <= Len(file))
    <3>1. file' = Append(file, cell)
      BY <1>7, <2>2 DEF WriteCell
    <3>2. Len(file) \in Nat /\ Position = Len(file) + 1 /\ Position >= Len(input)
      BY <1>4, <1>10, <1>11, <2>2
    <3>3. /\ file' \in Seq(Cell) /\ Len(file') = Len(file) + 1 /\ file'[Len(file) + 1] = cell
          /\ \A i \in 1 .. Len(file) : file'[i] = file[i]
      BY <1>4, <1>5, <3>1
    <3>4. \A i \in 1 .. Len(file) + 1 : i # Len(file) + 1 => i \in 1 .. Len(file)
      BY <3>2
    <3>. QED BY <3>2, <3>3, <3>4
  <2>. QED BY <2>1, <2>2
<1>. HIDE DEF n
<1>13. TypeInv'
  BY <1>1, <1>8, <1>12 DEF TypeInv
<1>14. Resigned'
  BY <1>1, <1>2 DEF Resigned
<1>15. Progress'
  <2>1. Len(todo') <= TailLen
    BY <1>3, <1>4, <1>8
  <2>2. ASSUME NEW j \in 1 .. Len(todo')
        PROVE  todo'[j] = <<"owned", TailCells[TailLen - Len(todo') + j]>>
    <3>1. /\ j \in 1 .. n - 1 /\ j + 1 \in 1 .. n
          /\ TailLen - (n - 1) + j = TailLen - n + (j + 1)
      BY <1>3, <1>4, <1>8
    <3>2. todo'[j] = todo[j + 1] /\ todo[j + 1] = <<"owned", TailCells[TailLen - n + (j + 1)]>>
      BY <1>1, <1>8, <3>1 DEF Progress, n
    <3>. QED BY <1>8, <3>1, <3>2
  <2>3. Len(file') = IF Position' - 1 >= Len(input) THEN Position' - 1 ELSE Len(input)
    BY <1>9, <1>10, <1>12
  <2>4. ASSUME NEW i \in 1 .. Len(file')
        PROVE  file'[i] = IF i \in entriesEnd + 1 .. Position' - 1
                            THEN TailCells[i - entriesEnd] ELSE input[i]
    <3>1. Position' - 1 = Position /\ Position \in entriesEnd + 1 .. Position
      BY <1>4, <1>9, <1>10
    <3>2. CASE i = Position
      <4>1. TailCells[Position - entriesEnd] = cell
        BY <1>10
      <4>. QED BY <1>12, <3>1, <3>2, <4>1
    <3>3. CASE i # Position
      <4>1. i \in entriesEnd + 1 .. Position <=> i \in entriesEnd + 1 .. Position - 1
        BY <1>4, <1>10, <1>12, <3>3
      <4>. QED BY <1>11, <1>12, <3>1, <3>3, <4>1
    <3>. QED BY <3>2, <3>3
  <2>. QED BY <1>1, <1>2, <2>1, <2>2, <2>3, <2>4 DEF Progress
<1>. QED BY <1>1, <1>13, <1>14, <1>15 DEF Untouched, InPlaceEqualsOut

\* The last step leaves the image of --out: what was not written, if
\* anything, is already there, and what is behind it goes.
LEMMA SetLenInv ==
    ASSUME IInv, SetLen
    PROVE  IInv'
<1>. USE DEF IInv
<1>1. /\ UNCHANGED <<input, entriesEnd, oldBlock, stale, signing, pages, todo>>
      /\ pc = "write" /\ todo = <<>> /\ pc' = "done"
      /\ file' = IF NewLen # Len(input) THEN SubSeq(file, 1, NewLen) ELSE file
  BY DEF SetLen
<1>2. MappedCd' = MappedCd /\ OutImage' = OutImage
  BY <1>1, Settled
<1>3. /\ entriesEnd \in Nat /\ input \in Seq(Cell) /\ file \in Seq(Cell)
      /\ Len(input) \in Nat /\ entriesEnd < Len(input)
  BY DEF TypeInv
<1>4. /\ TailLen \in Nat
      /\ \A i \in 1 .. TailLen : TailCells[i] = OutImage[entriesEnd + i]
      /\ ~NothingMoves => entriesEnd + TailLen = NewLen
      /\ NothingMoves => TailLen = Len(PaddedBlock)
  BY TailIsImage
<1>5. /\ OutImage \in Seq(Cell) /\ Len(OutImage) = NewLen
      /\ \A i \in 1 .. entriesEnd : OutImage[i] = input[i]
      /\ \A i \in 1 .. Len(Cd) : OutImage[entriesEnd + Len(PaddedBlock) + i] = Cd[i]
      /\ OutImage[NewLen] = NewEocd
  BY ImageCells
<1>6. Position - 1 = entriesEnd + TailLen
  BY <1>1, <1>3, <1>4 DEF Position
<1>7. Len(file) = IF entriesEnd + TailLen >= Len(input) THEN entriesEnd + TailLen ELSE Len(input)
  BY <1>1, <1>6 DEF Progress
<1>8. \A i \in 1 .. entriesEnd + TailLen : i \in 1 .. Len(file) /\ file[i] = OutImage[i]
  <2>. SUFFICES ASSUME NEW i \in 1 .. entriesEnd + TailLen
                PROVE  i \in 1 .. Len(file) /\ file[i] = OutImage[i]
    OBVIOUS
  <2>1. i \in 1 .. Len(file)
    BY <1>3, <1>4, <1>7
  <2>2. CASE i <= entriesEnd
    <3>1. i \in 1 .. entriesEnd /\ ~(i \in entriesEnd + 1 .. entriesEnd + TailLen)
      BY <1>3, <2>2
    <3>2. file[i] = input[i]
      BY <1>1, <1>6, <2>1, <3>1 DEF Progress
    <3>. QED BY <1>5, <2>1, <3>1, <3>2
  <2>3. CASE ~(i <= entriesEnd)
    <3>1. /\ i \in entriesEnd + 1 .. entriesEnd + TailLen /\ i - entriesEnd \in 1 .. TailLen
          /\ entriesEnd + (i - entriesEnd) = i
      BY <1>3, <1>4, <2>3
    <3>2. file[i] = TailCells[i - entriesEnd]
      BY <1>1, <1>6, <2>1, <3>1 DEF Progress
    <3>. QED BY <1>4, <2>1, <3>1, <3>2
  <2>. QED BY <2>2, <2>3
<1>9. file' = OutImage
  <2>1. NewLen \in Nat /\ Cd \in Seq(Cell) /\ Len(Cd) \in Nat /\ Len(PaddedBlock) \in Nat
    BY Pieces
  <2>2. CASE NothingMoves
    <3>1. /\ NewLen = Len(input) /\ input[Len(input)] = NewEocd
          /\ SubSeq(input, Len(input) - Len(Cd), Len(input) - 1) = Cd
      BY <2>2 DEF NothingMoves
    <3>2. NewLen = entriesEnd + TailLen + Len(Cd) + 1
      BY <1>4, <2>2 DEF NewLen
    <3>3. Len(file) = NewLen /\ file' = file
      BY <1>1, <1>3, <1>4, <1>7, <2>1, <3>1, <3>2
    <3>4. ASSUME NEW i \in entriesEnd + TailLen + 1 .. NewLen PROVE file[i] = OutImage[i]
      <4>1. i \in 1 .. Len(file) /\ ~(i \in entriesEnd + 1 .. entriesEnd + TailLen)
        BY <1>3, <1>4, <3>3
      <4>2. file[i] = input[i]
        BY <1>1, <1>6, <4>1 DEF Progress
      <4>3. CASE i = NewLen
        BY <1>5, <3>1, <4>2, <4>3
      <4>4. CASE i # NewLen
        <5>1. PICK j \in 1 .. Len(Cd) : i = entriesEnd + Len(PaddedBlock) + j
          <6>1. /\ i - entriesEnd - TailLen \in 1 .. Len(Cd)
                /\ i = entriesEnd + TailLen + (i - entriesEnd - TailLen)
            BY <1>3, <1>4, <2>1, <3>2, <4>4
          <6>. QED BY <1>4, <2>2, <6>1
        <5>2. OutImage[i] = Cd[j]
          BY <1>5, <5>1
        <5>3. /\ Len(input) - Len(Cd) \in 1 .. Len(input) /\ Len(input) - 1 \in 0 .. Len(input)
              /\ (Len(input) - Len(Cd)) + j - 1 = i
          <6>1. Len(PaddedBlock) = TailLen
            BY <1>4, <2>2
          <6>2. Len(input) = entriesEnd + TailLen + Len(Cd) + 1
            BY <3>1, <3>2
          <6>3. i = entriesEnd + TailLen + j
            BY <5>1, <6>1
          <6>4. Len(input) - Len(Cd) = entriesEnd + TailLen + 1
            BY <1>3, <1>4, <2>1, <6>2
          <6>5. entriesEnd + TailLen + 1 \in 1 .. Len(input)
            BY <1>3, <1>4, <2>1, <6>2
          <6>6. Len(input) - 1 \in 0 .. Len(input)
            BY <1>3
          <6>7. (entriesEnd + TailLen + 1) + j - 1 = i
            BY <1>3, <1>4, <6>3
          <6>. QED BY <6>4, <6>5, <6>6, <6>7
        <5>4. SubSeq(input, Len(input) - Len(Cd), Len(input) - 1)[j]
                = input[(Len(input) - Len(Cd)) + j - 1]
          <6>. DEFINE a == Len(input) - Len(Cd)
                      b == Len(input) - 1
          <6>1. a \in Nat /\ b \in Nat /\ 1 <= a /\ b <= Len(input) /\ j \in 1 .. (b - a + 1)
            BY <1>3, <2>1, <5>3
          <6>. HIDE DEF a, b
          <6>2. SubSeq(input, a, b)[j] = input[a + j - 1]
            BY <1>3, <6>1
          <6>. QED BY <6>2 DEF a, b
        <5>. QED BY <3>1, <4>2, <5>2, <5>3, <5>4
      <4>. QED BY <4>3, <4>4
    <3>5. ASSUME NEW i \in 1 .. NewLen PROVE file[i] = OutImage[i]
      <4>1. i \in 1 .. entriesEnd + TailLen \/ i \in entriesEnd + TailLen + 1 .. NewLen
        BY <1>3, <1>4
      <4>. QED BY <1>8, <3>4, <4>1
    <3>. QED BY <1>3, <1>5, <3>3, <3>5
  <2>3. CASE ~NothingMoves
    <3>1. entriesEnd + TailLen = NewLen
      BY <1>4, <2>3
    <3>2. CASE NewLen # Len(input)
      <4>1. file' = SubSeq(file, 1, NewLen) /\ NewLen <= Len(file)
        BY <1>1, <1>3, <1>7, <2>1, <3>1, <3>2
      <4>2. /\ file' \in Seq(Cell) /\ Len(file') = NewLen
            /\ \A i \in 1 .. NewLen : file'[i] = file[i]
        BY <1>3, <2>1, <4>1
      <4>. QED BY <1>5, <1>8, <3>1, <4>2
    <3>3. CASE NewLen = Len(input)
      <4>1. file' = file /\ Len(file) = NewLen
        BY <1>1, <1>3, <1>7, <3>1, <3>3
      <4>. QED BY <1>3, <1>5, <1>8, <3>1, <4>1
    <3>. QED BY <3>2, <3>3
  <2>. QED BY <2>2, <2>3
<1>10. TypeInv'
  BY <1>1, <1>5, <1>9 DEF TypeInv
<1>11. Resigned'
  BY <1>1, <1>2 DEF Resigned
<1>. QED BY <1>1, <1>2, <1>9, <1>10, <1>11 DEF Progress, Untouched, InPlaceEqualsOut

\* The APK that comes out is as a signed APK should be.
LEMMA SignAgainInv ==
    ASSUME IInv, SignAgain
    PROVE  IInv'
<1>. USE DEF IInv
<1>1. /\ pc = "done" /\ pc' = "prepare" /\ input' = file /\ UNCHANGED <<file, todo>>
      /\ entriesEnd' = entriesEnd + Pad /\ oldBlock' = pages * PageLen
      /\ stale' = {} /\ signing' = signing + 1 /\ pages' \in BlockPages
  BY DEF SignAgain
<1>2. /\ file = OutImage /\ file \in Seq(Cell) /\ Len(file) = NewLen
      /\ file[NewLen] = NewEocd
  BY <1>1, ImageCells DEF InPlaceEqualsOut
<1>3. /\ Cd \in Seq(Cell) /\ Len(Cd) \in Nat /\ pages * PageLen \in Nat
      /\ Len(PaddedBlock) = Pad + pages * PageLen
  BY Pieces
<1>4. Pad \in Nat /\ entriesEnd \in Nat /\ (entriesEnd + Pad) % PageLen = 0
  BY PadFacts DEF TypeInv
<1>5. /\ entriesEnd' + oldBlock' = entriesEnd + Len(PaddedBlock)
      /\ entriesEnd' + oldBlock' \in Nat
      /\ NewLen = entriesEnd' + oldBlock' + Len(Cd) + 1
  <2>. DEFINE b == pages * PageLen
  <2>1. /\ b \in Nat /\ entriesEnd' = entriesEnd + Pad /\ oldBlock' = b
        /\ Len(PaddedBlock) = Pad + b
        /\ NewLen = entriesEnd + Len(PaddedBlock) + Len(Cd) + 1
    BY <1>1, <1>3 DEF NewLen
  <2>. HIDE DEF b
  <2>2. Len(Cd) \in Nat /\ Pad \in Nat /\ entriesEnd \in Nat
    BY <1>3, <1>4
  <2>. QED BY ONLY <2>1, <2>2
<1>6. TypeInv'
  <2>1. pages' \in Nat \ {0} /\ signing' \in Nat \ {0}
    BY <1>1, ConstantsAssumption DEF TypeInv
  <2>2. entriesEnd' \in Nat /\ oldBlock' \in Nat /\ entriesEnd' + oldBlock' < Len(input')
    <3>1. entriesEnd' \in Nat /\ oldBlock' \in Nat
      BY <1>1, <1>3, <1>4
    <3>2. Len(input') = entriesEnd' + oldBlock' + Len(Cd) + 1
      BY <1>1, <1>2, <1>5
    <3>. QED BY ONLY <1>3, <3>1, <3>2
  <2>. QED BY <1>1, <1>2, <2>1, <2>2 DEF TypeInv
<1>7. Resigned'
  <2>. DEFINE from == entriesEnd' + oldBlock'
  <2>1. MappedCd' = SubSeq(file, from + 1, NewLen - 1)
    BY <1>1, <1>2 DEF MappedCd
  <2>2. Len(MappedCd') = Len(Cd)
    <3>. HIDE DEF from
    <3>1. from \in Nat /\ NewLen = from + Len(Cd) + 1
      BY <1>5 DEF from
    <3>2. /\ from + 1 \in Nat /\ NewLen - 1 \in Nat /\ NewLen - 1 <= Len(file)
          /\ (NewLen - 1) - (from + 1) + 1 = Len(Cd)
      BY <1>2, <1>3, <3>1
    <3>. QED BY <1>2, <1>3, <2>1, <3>1, <3>2
  <2>3. input'[Len(input')] = Eocd(entriesEnd + Len(PaddedBlock), Len(Cd), Len(Cd))
    BY <1>1, <1>2 DEF NewEocd
  <2>4. entriesEnd' % PageLen = 0
    BY <1>1, <1>4
  <2>. QED BY <1>1, <1>5, <2>2, <2>3, <2>4 DEF Resigned
<1>. QED BY <1>1, <1>6, <1>7 DEF Progress, Untouched, InPlaceEqualsOut

\* The APK as it is first mapped.
LEMMA InitInv == Init => IInv
<1>. SUFFICES ASSUME Init PROVE IInv
  OBVIOUS
<1>1. /\ entriesEnd \in Nat /\ oldBlock \in Nat /\ signing = 1 /\ pages \in Nat \ {0}
      /\ file = input /\ todo = <<>> /\ pc = "prepare" /\ Records \in Nat
  BY ConstantsAssumption DEF Init
<1>2. PICK count \in {Records, Records + 1} :
         input = Entries(entriesEnd) \o Block(0, oldBlock)
                   \o [i \in 1 .. Records |-> <<"record", i>>]
                   \o <<Eocd(entriesEnd + oldBlock, Records, count)>>
  BY DEF Init
<1>. DEFINE e == Entries(entriesEnd)
            b == Block(0, oldBlock)
            r == [i \in 1 .. Records |-> <<"record", i>>]
            z == <<Eocd(entriesEnd + oldBlock, Records, count)>>
<1>3. e \in Seq(Cell) /\ Len(e) = entriesEnd
  <2>1. \A i \in 1 .. entriesEnd : <<"entry", i>> \in Cell
    BY <1>1 DEF Cell
  <2>. QED BY <1>1, <2>1 DEF Entries
<1>4. b \in Seq(Cell) /\ Len(b) = oldBlock
  <2>1. \A i \in 1 .. oldBlock : <<"block", 0, i>> \in Cell
    BY <1>1 DEF Cell
  <2>. QED BY <1>1, <2>1 DEF Block
<1>5. r \in Seq(Cell) /\ Len(r) = Records
  <2>1. \A i \in 1 .. Records : <<"record", i>> \in Cell
    BY <1>1 DEF Cell
  <2>. QED BY <1>1, <2>1
<1>6. z \in Seq(Cell) /\ Len(z) = 1
  <2>1. entriesEnd + oldBlock \in Nat /\ count \in Nat
    BY <1>1
  <2>2. Eocd(entriesEnd + oldBlock, Records, count) \in Cell
    BY <1>1, <2>1 DEF Eocd, Cell
  <2>. QED BY <2>2
<1>. HIDE DEF e, b, r, z
<1>7. input = ((e \o b) \o r) \o z
  BY <1>2 DEF e, b, r, z
<1>8. e \o b \in Seq(Cell) /\ Len(e \o b) = entriesEnd + oldBlock
  BY <1>3, <1>4, Joined
<1>9. (e \o b) \o r \in Seq(Cell) /\ Len((e \o b) \o r) = entriesEnd + oldBlock + Records
  BY <1>5, <1>8, Joined
<1>10. input \in Seq(Cell) /\ Len(input) = entriesEnd + oldBlock + Records + 1
  <2>. DEFINE c == (e \o b) \o r
  <2>1. c \in Seq(Cell) /\ Len(c) = entriesEnd + oldBlock + Records /\ input = c \o z
    BY <1>7, <1>9
  <2>. HIDE DEF c
  <2>2. c \o z \in Seq(Cell) /\ Len(c \o z) = Len(c) + Len(z)
    BY <1>6, <2>1, Joined
  <2>. QED BY <1>6, <2>1, <2>2
<1>11. TypeInv
  BY <1>1, <1>10 DEF TypeInv
<1>. QED BY <1>1, <1>11 DEF IInv, Resigned, Progress, Untouched, InPlaceEqualsOut

\* Every step keeps the invariant.
LEMMA NextInv == IInv /\ [Next]_vars => IInv'
<1>. SUFFICES ASSUME IInv, [Next]_vars PROVE IInv'
  OBVIOUS
<1>1. CASE WriteFails
  <2>1. /\ UNCHANGED <<file, input, entriesEnd, oldBlock, stale, signing, pages, todo>>
        /\ pc' = "failed"
    BY <1>1 DEF WriteFails
  <2>2. MappedCd' = MappedCd
    BY <2>1, Settled
  <2>. QED BY <2>1, <2>2
       DEF IInv, TypeInv, Resigned, Progress, Untouched, InPlaceEqualsOut
<1>2. CASE UNCHANGED vars
  <2>1. UNCHANGED <<file, input, entriesEnd, oldBlock, stale, signing, pages, todo, pc>>
    BY <1>2 DEF vars
  <2>2. /\ MappedCd' = MappedCd /\ TailLen' = TailLen /\ TailCells' = TailCells
        /\ OutImage' = OutImage
    BY <2>1, Settled
  <2>3. Position' = Position
    BY <2>1, <2>2 DEF Position
  <2>. QED BY <2>1, <2>2, <2>3
       DEF IInv, TypeInv, Resigned, Progress, Untouched, InPlaceEqualsOut
<1>. QED BY <1>1, <1>2, PrepareInv, WriteCellInv, SetLenInv, SignAgainInv DEF Next, Finished
-----------------------------------------------------------------------------
(* The theorems.                                                           *)

\* Splicing in place gives the file that --out would have given, for every
\* length of the entries, of the old and the new block and of the directory,
\* whatever part of the tail was left unwritten, at every signing.
THEOREM SpliceIsOut == Spec => []InPlaceEqualsOut
<1>1. IInv => InPlaceEqualsOut
  BY DEF IInv
<1>. QED BY InitInv, NextInv, <1>1, PTL DEF Spec

\* The entries are in the file as they were mapped.
EntriesInPlace ==
    pc # "failed" =>
        /\ file \in Seq(Cell) /\ entriesEnd \in Nat /\ entriesEnd <= Len(file)
        /\ \A i \in 1 .. entriesEnd : file[i] = input[i]

\* No step of the splice touches the entries section, a failed one included.
THEOREM EntriesStay == Spec => EntriesUntouched
<1>1. IInv => EntriesInPlace
  <2>. SUFFICES ASSUME IInv, pc # "failed"
                PROVE  /\ file \in Seq(Cell) /\ entriesEnd \in Nat /\ entriesEnd <= Len(file)
                       /\ \A i \in 1 .. entriesEnd : file[i] = input[i]
    BY DEF EntriesInPlace
  <2>. USE DEF IInv
  <2>1. /\ file \in Seq(Cell) /\ entriesEnd \in Nat /\ Len(input) \in Nat
        /\ entriesEnd < Len(input) /\ pc \in {"prepare", "write", "done", "failed"}
    BY DEF TypeInv
  <2>2. CASE pc = "prepare"
    BY <2>1, <2>2 DEF Untouched
  <2>3. CASE pc = "write"
    <3>1. /\ Len(file) = IF Position - 1 >= Len(input) THEN Position - 1 ELSE Len(input)
          /\ \A i \in 1 .. Len(file) :
                file[i] = IF i \in entriesEnd + 1 .. Position - 1
                            THEN TailCells[i - entriesEnd] ELSE input[i]
      BY <2>3 DEF Progress
    <3>2. Position - 1 \in Int
      BY <2>1, TailIsImage DEF Position, TypeInv
    <3>3. entriesEnd <= Len(file)
      BY <2>1, <3>1, <3>2
    <3>4. \A i \in 1 .. entriesEnd : i \in 1 .. Len(file) /\ i \notin entriesEnd + 1 .. Position - 1
      BY <2>1, <3>2, <3>3
    <3>. QED BY <2>1, <3>1, <3>3, <3>4
  <2>4. CASE pc = "done"
    <3>1. NewLen \in Nat /\ entriesEnd <= NewLen
      BY <2>1, Pieces DEF NewLen
    <3>. QED BY <2>1, <2>4, <3>1, ImageCells DEF InPlaceEqualsOut
  <2>. QED BY <2>1, <2>2, <2>3, <2>4
<1>2. EntriesInPlace /\ EntriesInPlace' /\ [Next]_vars
        => [SubSeq(file', 1, entriesEnd) = SubSeq(file, 1, entriesEnd)]_vars
  <2>. SUFFICES ASSUME EntriesInPlace, EntriesInPlace', Next
                PROVE  SubSeq(file', 1, entriesEnd) = SubSeq(file, 1, entriesEnd)
    OBVIOUS
  <2>1. CASE file' = file
    BY <2>1
  <2>2. CASE WriteCell \/ SetLen
    <3>1. pc = "write" /\ pc' # "failed" /\ UNCHANGED <<input, entriesEnd>>
      BY <2>2 DEF WriteCell, SetLen
    <3>2. /\ file \in Seq(Cell) /\ file' \in Seq(Cell) /\ entriesEnd \in Nat
          /\ entriesEnd <= Len(file) /\ entriesEnd <= Len(file')
          /\ \A i \in 1 .. entriesEnd : file'[i] = file[i]
      BY <3>1 DEF EntriesInPlace
    <3>. QED BY <3>2
  <2>. QED BY <2>1, <2>2 DEF Next, Prepare, WriteFails, SignAgain, Finished, vars
<1>. QED BY InitInv, NextInv, <1>1, <1>2, PTL DEF Spec, EntriesUntouched

\* Signing again with a block as long as the old one writes the block alone.
THEOREM BlockAlone == Spec => ResignWritesBlockAlone
<1>1. IInv /\ [Next]_vars =>
        [signing > 1 /\ pages * PageLen = oldBlock /\ pc = "write" /\ todo' # todo
           => Position \in entriesEnd + 1 .. entriesEnd + oldBlock]_vars
  <2>. SUFFICES ASSUME IInv, Next, signing > 1, pages * PageLen = oldBlock, pc = "write",
                       todo' # todo
                PROVE  Position \in entriesEnd + 1 .. entriesEnd + oldBlock
    OBVIOUS
  <2>. USE DEF IInv
  <2>1. todo # <<>>
    BY DEF Next, Prepare, WriteCell, SetLen, WriteFails, SignAgain, Finished, vars
  <2>2. /\ entriesEnd \in Nat /\ oldBlock \in Nat /\ input \in Seq(Cell) /\ Len(input) \in Nat
        /\ Len(todo) \in Nat \ {0} /\ Len(todo) <= TailLen
    BY <2>1 DEF TypeInv, Progress
  <2>3. Pad = 0 /\ stale = {}
    BY <2>2, PadFacts DEF Resigned
  <2>4. /\ Cd = MappedCd /\ Len(PaddedBlock) = oldBlock
        /\ Len(Cd) = Len(input) - 1 - entriesEnd - oldBlock
    BY <2>2, <2>3, Pieces
  <2>5. NewLen = Len(input)
    BY <2>2, <2>4 DEF NewLen
  <2>6. Len(input) - Len(Cd) = entriesEnd + oldBlock + 1
    BY <2>2, <2>4
  <2>7. SubSeq(input, Len(input) - Len(Cd), Len(input) - 1) = Cd
    BY <2>4, <2>6 DEF MappedCd
  <2>8. input[Len(input)] = NewEocd
    BY <2>4 DEF Resigned, NewEocd
  <2>9. TailLen = oldBlock
    BY <2>4, <2>5, <2>7, <2>8, TailIsImage DEF NothingMoves
  <2>. QED BY <2>2, <2>9 DEF Position
<1>. QED BY InitInv, NextInv, <1>1, PTL DEF Spec, ResignWritesBlockAlone
=============================================================================
