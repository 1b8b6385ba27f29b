------------------------- MODULE RewriteBytesProofs -------------------------
(***************************************************************************)
(* Proofs about the bytes of a rewritten APK: that the plans RewritePlan   *)
(* makes account for every byte of the input and of the output, and that   *)
(* ChunkAssembly turns such plans into the very bytes they stand for.      *)
(* Both hold for every APK, every page size, every chunk and window size.  *)
(*                                                                         *)
(* The assembly comes first.  Its invariant says that what the buffer has  *)
(* of the plans copied so far is theirs, whatever it held before, and that *)
(* the input window, if there is one, spans all the data of the chunk.     *)
(*                                                                         *)
(* The planner's invariant, PlanInv, says three things of the plans so     *)
(* far: they lie one behind the other up to cursor; they copy the input    *)
(* up to consumed, once and in order, but for what the entries behind the  *)
(* loop do not keep; and each kept entry has its plan.  From these it      *)
(* follows that a rewritten APK is Normal, and from a Normal APK on        *)
(* cursor and consumed never part, so nothing moves.                       *)
(***************************************************************************)
EXTENDS RewritePlan, ChunkAssembly, CommonLemmas

-----------------------------------------------------------------------------
(* Layouts and the bytes they stand for.                                   *)

\* The bytes there are, and the one that plan p puts at place n of the output.
Byte ==
    {Zero} \cup {<<"header", o, n>> : o \in Nat, n \in Nat} \cup {<<"input", n>> : n \in Nat}
ByteOf(p, n) ==
    IF n < p.off + p.hdr THEN HeaderByte(p, n - p.off) ELSE InputByte(InputOff(p, n))

\* The fields of a plan in a layout.
LEMMA PlanTypes ==
    ASSUME NEW ps, IsLayout(ps)
    PROVE  /\ Len(ps) \in Nat /\ DOMAIN ps = 1 .. Len(ps)
           /\ \A i \in 1 .. Len(ps) :
                 /\ ps[i] \in [off : Nat, hdr : Nat, src : Nat, len : Nat]
                 /\ ps[i].off \in Nat /\ ps[i].hdr \in Nat /\ ps[i].src \in Nat /\ ps[i].len \in Nat
                 /\ OutEnd(ps[i]) \in Nat /\ ps[i].off < OutEnd(ps[i])
                 /\ ps[i].off = IF i = 1 THEN 0 ELSE OutEnd(ps[i - 1])
<1>. DEFINE P == [off : Nat, hdr : Nat, src : Nat, len : Nat]
<1>1. ps \in Seq(P)
  BY DEF IsLayout
<1>2. Len(ps) \in Nat /\ DOMAIN ps = 1 .. Len(ps)
  <2>. HIDE DEF P
  <2>. QED BY <1>1, LenProperties
<1>3. \A i \in 1 .. Len(ps) : ps[i] \in P
  <2>. HIDE DEF P
  <2>. QED BY <1>1, ElementOfSeq
<1>4. ASSUME NEW i \in 1 .. Len(ps)
      PROVE  /\ ps[i].off \in Nat /\ ps[i].hdr \in Nat /\ ps[i].src \in Nat /\ ps[i].len \in Nat
             /\ ps[i].hdr + ps[i].len > 0
             /\ ps[i].off = IF i = 1 THEN 0 ELSE OutEnd(ps[i - 1])
  BY <1>2, <1>3 DEF IsLayout
<1>. QED BY <1>2, <1>3, <1>4 DEF OutEnd

\* A plan ends before every later one begins.
LEMMA PlansInOrder ==
    ASSUME NEW ps, IsLayout(ps), NEW i \in 1 .. Len(ps), NEW j \in 1 .. Len(ps), i < j
    PROVE  OutEnd(ps[i]) <= ps[j].off
<1>. DEFINE S == {d \in Nat : i + 1 + d <= Len(ps) => OutEnd(ps[i]) <= ps[i + 1 + d].off}
            m == j - i - 1
<1>1. Len(ps) \in Nat /\ m \in Nat
  BY PlanTypes
<1>2. 0 \in S
  BY <1>1, PlanTypes
<1>3. ASSUME NEW n \in 0 .. m - 1, n \in S PROVE n + 1 \in S
  <2>1. i + 1 + n \in 1 .. Len(ps) /\ i + 1 + (n + 1) \in 1 .. Len(ps)
    BY <1>1
  <2>2. OutEnd(ps[i]) <= ps[i + 1 + n].off
    BY <1>3, <2>1
  <2>3. ps[i + 1 + (n + 1)].off = OutEnd(ps[i + 1 + n])
    <3>1. i + 1 + (n + 1) # 1 /\ (i + 1 + (n + 1)) - 1 = i + 1 + n
      OBVIOUS
    <3>. QED BY <2>1, <3>1, PlanTypes
  <2>4. /\ ps[i + 1 + n].off < OutEnd(ps[i + 1 + n]) /\ ps[i + 1 + n].off \in Nat
        /\ OutEnd(ps[i + 1 + n]) \in Nat /\ OutEnd(ps[i]) \in Nat
    BY <2>1, PlanTypes
  <2>. QED BY <2>1, <2>2, <2>3, <2>4
<1>. HIDE DEF S
<1>4. m \in S
  <2>1. 0 .. m \subseteq S
    <3>. HIDE DEF m
    <3>. QED BY <1>1, <1>2, <1>3, UpTo, Zenon
  <2>. QED BY <1>1, <2>1
<1>. QED BY <1>4 DEF S

\* Every byte before the end belongs to a plan.
LEMMA PlansCover ==
    ASSUME NEW ps, IsLayout(ps), ps # <<>>, NEW n \in Nat, n < OutEnd(ps[Len(ps)])
    PROVE  \E i \in 1 .. Len(ps) : ps[i].off <= n /\ n < OutEnd(ps[i])
<1>. DEFINE S == {i \in 1 .. Len(ps) : n < OutEnd(ps[i])}
<1>1. Len(ps) \in Nat \ {0}
  BY EmptySeq, PlanTypes DEF IsLayout
<1>2. S \in SUBSET Nat /\ Len(ps) \in S
  BY <1>1
<1>3. PICK i \in S : \A j \in S : i <= j
  BY <1>2, LeastNumber
<1>4. CASE i = 1
  BY <1>3, <1>4, PlanTypes
<1>5. CASE i # 1
  <2>1. i - 1 \in 1 .. Len(ps) /\ i - 1 \notin S /\ i \in 1 .. Len(ps)
    BY <1>1, <1>3, <1>5
  <2>2. ~(n < OutEnd(ps[i - 1])) /\ OutEnd(ps[i - 1]) \in Nat /\ ps[i].off = OutEnd(ps[i - 1])
    BY <1>5, <2>1, PlanTypes
  <2>. QED BY <1>3, <2>2
<1>. QED BY <1>4, <1>5

\* The bytes of one plan.
LEMMA BytesOfPlan ==
    ASSUME NEW p \in [off : Nat, hdr : Nat, src : Nat, len : Nat]
    PROVE  /\ PlanBytes(p) \in Seq(Byte) /\ Len(PlanBytes(p)) = p.hdr + p.len
           /\ \A n \in p.off .. OutEnd(p) - 1 : PlanBytes(p)[n - p.off + 1] = ByteOf(p, n)
<1>. DEFINE hd == [n \in 1 .. p.hdr |-> HeaderByte(p, n - 1)]
            dt == [n \in 1 .. p.len |-> InputByte(p.src + n - 1)]
<1>1. p.off \in Nat /\ p.hdr \in Nat /\ p.src \in Nat /\ p.len \in Nat
  OBVIOUS
<1>2. hd \in Seq(Byte) /\ Len(hd) = p.hdr
  <2>1. \A n \in 1 .. p.hdr : HeaderByte(p, n - 1) \in Byte
    BY <1>1 DEF HeaderByte, Byte
  <2>. QED BY <1>1, <2>1
<1>3. dt \in Seq(Byte) /\ Len(dt) = p.len
  <2>1. \A n \in 1 .. p.len : InputByte(p.src + n - 1) \in Byte
    BY <1>1 DEF InputByte, Byte
  <2>. QED BY <1>1, <2>1
<1>4. PlanBytes(p) = hd \o dt
  BY DEF PlanBytes
<1>5. /\ hd \o dt \in Seq(Byte) /\ Len(hd \o dt) = p.hdr + p.len
      /\ \A i \in 1 .. p.hdr + p.len : (hd \o dt)[i] = IF i <= p.hdr THEN hd[i] ELSE dt[i - p.hdr]
  <2>. HIDE DEF hd, dt
  <2>1. /\ hd \o dt \in Seq(Byte) /\ Len(hd \o dt) = Len(hd) + Len(dt)
        /\ \A i \in 1 .. Len(hd) + Len(dt) : (hd \o dt)[i] =
              IF i <= Len(hd) THEN hd[i] ELSE dt[i - Len(hd)]
    BY <1>2, <1>3, ConcatProperties
  <2>. QED BY <1>2, <1>3, <2>1
<1>6. ASSUME NEW n \in p.off .. OutEnd(p) - 1
      PROVE  PlanBytes(p)[n - p.off + 1] = ByteOf(p, n)
  <2>. DEFINE i == n - p.off + 1
  <2>1. n \in Int /\ i \in 1 .. p.hdr + p.len /\ n = p.off + i - 1
    BY <1>1 DEF OutEnd
  <2>2. PlanBytes(p)[i] = IF i <= p.hdr THEN hd[i] ELSE dt[i - p.hdr]
    BY <1>4, <1>5, <2>1
  <2>3. CASE i <= p.hdr
    <3>1. i \in 1 .. p.hdr /\ n < p.off + p.hdr /\ n - p.off = i - 1
      BY <1>1, <2>1, <2>3
    <3>2. hd[i] = HeaderByte(p, i - 1)
      BY <3>1
    <3>. QED BY <2>2, <2>3, <3>1, <3>2 DEF ByteOf
  <2>4. CASE ~(i <= p.hdr)
    <3>1. /\ i - p.hdr \in 1 .. p.len /\ ~(n < p.off + p.hdr)
          /\ InputOff(p, n) = p.src + (i - p.hdr) - 1
      BY <1>1, <2>1, <2>4 DEF InputOff
    <3>2. dt[i - p.hdr] = InputByte(p.src + (i - p.hdr) - 1)
      BY <3>1
    <3>. QED BY <2>2, <2>4, <3>1, <3>2 DEF ByteOf
  <2>. QED BY <2>3, <2>4
<1>. QED BY <1>4, <1>5, <1>6

\* A place in the second of two parts.
LEMMA PlaceBehind ==
    ASSUME NEW a \in Nat, NEW b \in Nat, NEW n \in a .. a + b - 1
    PROVE  n + 1 \in 1 .. a + b /\ ~(n + 1 <= a) /\ n + 1 - a = n - a + 1
OBVIOUS

\* The plans one after the other: what the image is before its padding.
LEMMA Contents ==
    ASSUME NEW ps, IsLayout(ps)
    PROVE  LET upto[i \in 0 .. Len(ps)] ==
                   IF i = 0 THEN <<>> ELSE upto[i - 1] \o PlanBytes(ps[i])
           IN  /\ upto[Len(ps)] \in Seq(Byte)
               /\ Len(upto[Len(ps)]) = IF ps = <<>> THEN 0 ELSE OutEnd(ps[Len(ps)])
               /\ \A i \in 1 .. Len(ps) : \A n \in ps[i].off .. OutEnd(ps[i]) - 1 :
                     upto[Len(ps)][n + 1] = ByteOf(ps[i], n)
<1>. DEFINE m == Len(ps)
            T == Seq(Byte)
            step == [i \in 1 .. m |-> [x \in T |-> x \o PlanBytes(ps[i])]]
            Is(f) == f = [i \in 0 .. m |-> IF i = 0 THEN <<>> ELSE f[i - 1] \o PlanBytes(ps[i])]
            upto == CHOOSE f : Is(f)
            end(i) == IF i = 0 THEN 0 ELSE OutEnd(ps[i])
<1>1. m \in Nat /\ \A i \in 1 .. m : ps[i] \in [off : Nat, hdr : Nat, src : Nat, len : Nat]
  BY PlanTypes
<1>2. \A i \in 1 .. m : PlanBytes(ps[i]) \in T /\ Len(PlanBytes(ps[i])) = ps[i].hdr + ps[i].len
  BY <1>1, BytesOfPlan
<1>3. step \in [1 .. m -> [T -> T]]
  <2>1. ASSUME NEW i \in 1 .. m, NEW x \in T PROVE x \o PlanBytes(ps[i]) \in T
    BY <1>2, ConcatProperties
  <2>. HIDE DEF m, T
  <2>. QED BY <2>1
<1>4. PICK f \in [0 .. m -> T] : f[0] = <<>> /\ \A i \in 1 .. m : f[i] = step[i][f[i - 1]]
  <2>. DEFINE none == <<>>
  <2>1. none \in T
    BY EmptySeq
  <2>. HIDE DEF m, T, step, none
  <2>2. PICK f : IsLoop(f, T, none, m, step)
    BY <1>1, <1>3, <2>1, Loop, Zenon
  <2>. QED BY <2>2 DEF none, IsLoop
<1>5. Is(f)
  <2>1. ASSUME NEW i \in 0 .. m
        PROVE  f[i] = IF i = 0 THEN <<>> ELSE f[i - 1] \o PlanBytes(ps[i])
    <3>1. CASE i = 0
      BY <1>4, <3>1
    <3>2. CASE i # 0
      <4>. HIDE DEF m, T
      <4>1. i \in 1 .. m /\ i - 1 \in 0 .. m
        BY <1>1, <3>2
      <4>2. f[i - 1] \in T
        BY <4>1
      <4>3. step[i][f[i - 1]] = f[i - 1] \o PlanBytes(ps[i])
        BY <4>1, <4>2
      <4>. QED BY <1>4, <3>2, <4>1, <4>3
    <3>. QED BY <3>1, <3>2
  <2>. HIDE DEF m
  <2>. QED BY <2>1
<1>6. Is(upto)
  BY <1>5
<1>. DEFINE Good(i) ==
              /\ upto[i] \in T /\ Len(upto[i]) = end(i)
              /\ \A j \in 1 .. i : \A n \in ps[j].off .. OutEnd(ps[j]) - 1 :
                    upto[i][n + 1] = ByteOf(ps[j], n)
            S == {i \in 0 .. m : Good(i)}
<1>7. 0 \in S
  <2>1. upto[0] = <<>> /\ 0 \in 0 .. m
    <3>. HIDE DEF upto, m
    <3>. QED BY <1>1, <1>6
  <2>2. <<>> \in T /\ Len(<<>>) = 0 /\ end(0) = 0 /\ 1 .. 0 = {}
    BY EmptySeq
  <2>. HIDE DEF upto, m, T, end
  <2>. QED BY <2>1, <2>2
<1>8. ASSUME NEW i \in 0 .. m - 1, i \in S PROVE i + 1 \in S
  <2>. DEFINE q == i + 1
              p == ps[q]
              x == upto[i]
  <2>1. q \in 1 .. m /\ q \in 0 .. m /\ q # 0 /\ q - 1 = i
    <3>. HIDE DEF m
    <3>. QED BY <1>1
  <2>2. x \in T /\ Len(x) = end(i) /\ PlanBytes(p) \in T /\ Len(PlanBytes(p)) = p.hdr + p.len
    BY <1>2, <1>8, <2>1
  <2>3. upto[q] = x \o PlanBytes(p)
    <3>. HIDE DEF upto, m
    <3>. QED BY <1>6, <2>1
  <2>4. /\ p.off = end(i) /\ p.off \in Nat /\ p.hdr \in Nat /\ p.len \in Nat
        /\ p \in [off : Nat, hdr : Nat, src : Nat, len : Nat]
    BY <2>1, PlanTypes
  <2>5. end(q) = p.off + p.hdr + p.len
    BY <2>1 DEF OutEnd
  <2>. HIDE DEF upto, end
  <2>6. /\ x \o PlanBytes(p) \in T /\ Len(x \o PlanBytes(p)) = Len(x) + Len(PlanBytes(p))
        /\ \A a \in 1 .. Len(x) + Len(PlanBytes(p)) : (x \o PlanBytes(p))[a] =
              IF a <= Len(x) THEN x[a] ELSE PlanBytes(p)[a - Len(x)]
    BY <2>2, ConcatProperties
  <2>7. upto[q] \in T /\ Len(upto[q]) = end(q)
    BY <2>2, <2>3, <2>4, <2>5, <2>6
  <2>8. ASSUME NEW j \in 1 .. q, NEW n \in ps[j].off .. OutEnd(ps[j]) - 1
        PROVE  upto[q][n + 1] = ByteOf(ps[j], n)
    <3>1. CASE j = q
      <4>. HIDE DEF q, x
      <4>1. n \in p.off .. OutEnd(p) - 1
        BY <3>1
      <4>2. PlanBytes(p)[n - p.off + 1] = ByteOf(p, n)
        BY <2>4, <4>1, BytesOfPlan
      <4>3. /\ n + 1 \in 1 .. Len(x) + Len(PlanBytes(p)) /\ ~(n + 1 <= Len(x))
            /\ n + 1 - Len(x) = n - p.off + 1
        <5>1. /\ Len(x) = p.off /\ Len(PlanBytes(p)) = p.hdr + p.len
              /\ p.off \in Nat /\ p.hdr \in Nat /\ p.len \in Nat
              /\ OutEnd(p) = p.off + p.hdr + p.len
          BY <2>2, <2>4 DEF OutEnd
        <5>. DEFINE a == Len(x)
                    b == Len(PlanBytes(p))
                    o == p.off
        <5>2. a = o /\ a \in Nat /\ b \in Nat /\ OutEnd(p) = a + b
          <6>. HIDE DEF p, m, T, x
          <6>1. b \in Nat
            BY <5>1
          <6>2. OutEnd(p) = p.off + (p.hdr + p.len)
            BY <5>1
          <6>. QED BY <5>1, <6>1, <6>2
        <5>3. n \in a .. a + b - 1
          <6>. HIDE DEF p, m, T, a, b
          <6>. QED BY <4>1, <5>2
        <5>. HIDE DEF p, m, T, a, b, o
        <5>4. n + 1 \in 1 .. a + b /\ ~(n + 1 <= a) /\ n + 1 - a = n - a + 1
          BY <5>2, <5>3, PlaceBehind
        <5>5. n + 1 \in 1 .. a + b /\ ~(n + 1 <= a) /\ n + 1 - a = n - o + 1
          BY ONLY <5>2, <5>4
        <5>. QED BY <5>5 DEF a, b, o
      <4>4. (x \o PlanBytes(p))[n + 1] = PlanBytes(p)[n - p.off + 1]
        BY <2>6, <4>3
      <4>. QED BY <2>3, <3>1, <4>2, <4>4
    <3>2. CASE j # q
      <4>1. j \in 1 .. i /\ i \in 1 .. m /\ j \in 1 .. m
        BY <2>1, <3>2
      <4>2. OutEnd(ps[j]) <= end(i) /\ ps[j].off \in Nat /\ OutEnd(ps[j]) \in Nat
        <5>1. ps[j].off \in Nat /\ OutEnd(ps[j]) \in Nat
          BY <4>1, PlanTypes
        <5>2. OutEnd(ps[j]) <= ps[q].off
          <6>1. j < q /\ j \in 1 .. Len(ps) /\ q \in 1 .. Len(ps)
            BY <2>1, <3>2, <4>1
          <6>. HIDE DEF q, m
          <6>. QED BY <6>1, PlansInOrder
        <5>. QED BY <2>4, <5>1, <5>2
      <4>3. n + 1 \in 1 .. Len(x) + Len(PlanBytes(p)) /\ n + 1 <= Len(x)
        <5>1. /\ Len(x) = p.off /\ Len(PlanBytes(p)) \in Nat /\ p.off \in Nat
              /\ OutEnd(ps[j]) <= p.off
          BY <2>2, <2>4, <4>2
        <5>2. n \in ps[j].off .. OutEnd(ps[j]) - 1
          OBVIOUS
        <5>. HIDE DEF p, m, T, q, x
        <5>. QED BY <4>2, <5>1, <5>2
      <4>4. x[n + 1] = ByteOf(ps[j], n)
        BY <1>8, <4>1
      <4>5. (x \o PlanBytes(p))[n + 1] = x[n + 1]
        BY <2>6, <4>3
      <4>. QED BY <2>3, <4>4, <4>5
    <3>. QED BY <3>1, <3>2
  <2>. HIDE DEF q, T
  <2>. QED BY <2>1, <2>7, <2>8 DEF q
<1>. HIDE DEF S, upto, m
<1>9. 0 .. m \subseteq S
  BY <1>1, <1>7, <1>8, UpTo, Zenon
<1>10. m \in S
  BY <1>1, <1>9
<1>11. end(m) = IF ps = <<>> THEN 0 ELSE OutEnd(ps[Len(ps)])
  BY <1>1, EmptySeq DEF m, IsLayout
<1>12. Good(m)
  BY <1>10 DEF S
<1>. QED BY <1>11, <1>12 DEF m, upto

\* The end of the entries, and the padding up to a whole page.
LEMMA Ends ==
    ASSUME layout \in Plans
    PROVE  /\ IsLayout(layout) /\ NewEnd \in Nat /\ Pad \in 0 .. Page - 1
           /\ PaddedEnd = NewEnd + Pad /\ PaddedEnd \in Nat
           /\ \E t \in Nat : PaddedEnd = Page * t
<1>1. IsLayout(layout) /\ Page \in Nat \ {0}
  BY SizesAssumption
<1>2. NewEnd \in Nat
  <2>1. CASE layout = <<>>
    BY <2>1 DEF NewEnd
  <2>2. CASE layout # <<>>
    <3>1. Len(layout) \in 1 .. Len(layout)
      BY <1>1, <2>2, EmptySeq, PlanTypes DEF IsLayout
    <3>. QED BY <1>1, <2>2, <3>1, PlanTypes DEF NewEnd
  <2>. QED BY <2>1, <2>2
<1>. DEFINE q == NewEnd \div Page
            r == NewEnd % Page
<1>3. q \in Nat /\ r \in 0 .. Page - 1 /\ NewEnd = Page * q + r
  BY <1>1, <1>2
<1>4. Pad = (Page - r) % Page
  BY DEF Pad
<1>. HIDE DEF q, r
<1>5. CASE r = 0
  <2>1. Page * 1 + 0 = Page - r /\ 0 \in 0 .. Page - 1
    BY <1>1, <1>5
  <2>2. (Page * 1 + 0) % Page = 0
    BY <1>1, <2>1, Division
  <2>3. Pad = 0
    BY <1>4, <2>1, <2>2
  <2>4. PaddedEnd = Page * q
    BY <1>1, <1>3, <1>5, <2>3 DEF PaddedEnd
  <2>. QED BY <1>1, <1>2, <1>3, <2>3, <2>4 DEF PaddedEnd
<1>6. CASE r # 0
  <2>1. Page * 0 + (Page - r) = Page - r /\ Page - r \in 0 .. Page - 1
    BY <1>1, <1>3, <1>6
  <2>2. (Page * 0 + (Page - r)) % Page = Page - r
    BY <1>1, <2>1, Division
  <2>3. Pad = Page - r
    BY <1>4, <2>1, <2>2
  <2>4. PaddedEnd = Page * (q + 1)
    <3>1. Page * (q + 1) = Page * q + Page /\ Page * q \in Nat
      BY <1>1, <1>3
    <3>. QED BY <1>1, <1>3, <2>3, <3>1 DEF PaddedEnd
  <2>5. q + 1 \in Nat /\ PaddedEnd = NewEnd + Pad /\ PaddedEnd \in Nat
    BY <1>1, <1>2, <1>3, <2>1, <2>3 DEF PaddedEnd
  <2>. QED BY <1>1, <1>2, <2>1, <2>3, <2>4, <2>5
<1>. QED BY <1>5, <1>6

\* A chunk that is claimed has bytes of the entries, and less than a page of
\* padding behind them.
LEMMA ChunkBounds ==
    ASSUME layout \in Plans, chunk \in Nat, chunk < ChunkCount
    PROVE  /\ Cs \in Nat /\ RealEnd \in Nat /\ Ce \in Nat
           /\ Cs < RealEnd /\ RealEnd <= NewEnd /\ RealEnd <= Ce /\ Ce <= PaddedEnd
           /\ Real = RealEnd - Cs /\ Real \in 1 .. ChunkSize
           /\ Zeros = Ce - RealEnd /\ Zeros \in 0 .. Page
           /\ RealEnd < Ce => RealEnd = NewEnd
<1>1. /\ NewEnd \in Nat /\ Pad \in 0 .. Page - 1 /\ PaddedEnd = NewEnd + Pad
      /\ PaddedEnd \in Nat /\ ChunkSize \in Nat \ {0} /\ Page \in Nat \ {0}
      /\ ChunkSize % Page = 0
  BY Ends, SizesAssumption
<1>2. PICK t \in Nat : PaddedEnd = Page * t
  BY Ends
<1>3. PICK s \in Nat : ChunkSize = Page * s
  <2>1. ChunkSize \div Page \in Nat /\ ChunkSize = Page * (ChunkSize \div Page)
    BY <1>1
  <2>. QED BY <2>1
<1>4. Cs \in Nat /\ Cs < PaddedEnd
  <2>. DEFINE a == PaddedEnd + ChunkSize - 1
              c == a \div ChunkSize
  <2>1. a \in Nat
    BY <1>1
  <2>2. c \in Nat /\ ChunkSize * c <= a
    <3>. HIDE DEF a
    <3>. QED BY <1>1, <2>1
  <2>3. chunk < c
    BY DEF ChunkCount
  <2>. HIDE DEF c
  <2>4. PICK e \in Nat : c = chunk + 1 + e
    <3>1. c - chunk - 1 \in Nat /\ c = chunk + 1 + (c - chunk - 1)
      BY <2>2, <2>3
    <3>. QED BY <3>1
  <2>5. ChunkSize * c = chunk * ChunkSize + ChunkSize + ChunkSize * e
    BY <1>1, <2>4
  <2>6. chunk * ChunkSize \in Nat /\ ChunkSize * e \in Nat
    BY <1>1
  <2>. QED BY <1>1, <2>2, <2>5, <2>6 DEF Cs
<1>5. Cs + Page <= PaddedEnd
  <2>. DEFINE u == s * chunk
  <2>1. u \in Nat /\ Cs = Page * u
    BY <1>1, <1>3 DEF Cs
  <2>. HIDE DEF u
  <2>2. u < t
    <3>. SUFFICES ASSUME ~(u < t) PROVE FALSE
      OBVIOUS
    <3>1. u - t \in Nat /\ u = t + (u - t)
      BY <2>1
    <3>2. Page * (t + (u - t)) = Page * t + Page * (u - t) /\ Page * (u - t) \in Nat
      BY <1>1, <3>1
    <3>. QED BY <1>1, <1>2, <1>4, <2>1, <3>1, <3>2
  <2>3. t - u - 1 \in Nat /\ t = u + 1 + (t - u - 1)
    BY <2>1, <2>2
  <2>4. /\ Page * (u + 1 + (t - u - 1)) = Page * u + Page + Page * (t - u - 1)
        /\ Page * (t - u - 1) \in Nat /\ Page * u \in Nat
    BY <1>1, <2>1, <2>3
  <2>. QED BY <1>1, <1>2, <2>1, <2>3, <2>4
<1>6. Cs < NewEnd
  BY <1>1, <1>4, <1>5
<1>. QED BY <1>1, <1>4, <1>6 DEF Ce, RealEnd, Real, Zeros, MinOf, MaxOf

\* The contents section, byte by byte.
LEMMA ImageBytes ==
    ASSUME layout \in Plans
    PROVE  /\ Image \in Seq(Byte) /\ Len(Image) = PaddedEnd
           /\ \A i \in 1 .. Len(layout) : \A n \in layout[i].off .. OutEnd(layout[i]) - 1 :
                 Image[n + 1] = ByteOf(layout[i], n)
           /\ \A n \in NewEnd .. PaddedEnd - 1 : Image[n + 1] = Zero
<1>1. /\ IsLayout(layout) /\ NewEnd \in Nat /\ Pad \in Nat
      /\ PaddedEnd = NewEnd + Pad /\ PaddedEnd \in Nat
  BY Ends, SizesAssumption
<1>. DEFINE upto == CHOOSE f : f = [i \in 0 .. Len(layout) |->
                        IF i = 0 THEN <<>> ELSE f[i - 1] \o PlanBytes(layout[i])]
            s == upto[Len(layout)]
            z == [n \in 1 .. Pad |-> Zero]
<1>2. /\ s \in Seq(Byte) /\ Len(s) = NewEnd
      /\ \A i \in 1 .. Len(layout) : \A n \in layout[i].off .. OutEnd(layout[i]) - 1 :
            s[n + 1] = ByteOf(layout[i], n)
  BY <1>1, Contents DEF NewEnd
<1>3. Image = s \o z
  BY DEF Image
<1>4. z \in Seq(Byte) /\ Len(z) = Pad /\ \A n \in 1 .. Pad : z[n] = Zero
  <2>1. Zero \in Byte
    BY DEF Byte
  <2>. QED BY <1>1, <2>1
<1>. HIDE DEF s, z
<1>5. /\ s \o z \in Seq(Byte) /\ Len(s \o z) = Len(s) + Len(z)
      /\ \A i \in 1 .. Len(s) + Len(z) : (s \o z)[i] = IF i <= Len(s) THEN s[i] ELSE z[i - Len(s)]
  BY <1>2, <1>4, ConcatProperties
<1>6. Image \in Seq(Byte) /\ Len(Image) = PaddedEnd
  BY <1>1, <1>2, <1>3, <1>4, <1>5
<1>7. ASSUME NEW i \in 1 .. Len(layout), NEW n \in layout[i].off .. OutEnd(layout[i]) - 1
      PROVE  Image[n + 1] = ByteOf(layout[i], n)
  <2>1. /\ layout[i].off \in Nat /\ OutEnd(layout[i]) \in Nat /\ Len(layout) \in Nat
    BY <1>1, PlanTypes
  <2>2. OutEnd(layout[i]) <= NewEnd
    <3>0. layout # <<>>
      BY <2>1, EmptySeq
    <3>1. CASE i = Len(layout)
      BY <1>1, <2>1, <3>0, <3>1 DEF NewEnd
    <3>2. CASE i # Len(layout)
      <4>1. i < Len(layout) /\ Len(layout) \in 1 .. Len(layout)
        BY <2>1, <3>2
      <4>2. /\ OutEnd(layout[i]) <= layout[Len(layout)].off /\ layout[Len(layout)].off \in Nat
            /\ layout[Len(layout)].off < OutEnd(layout[Len(layout)])
        BY <1>1, <4>1, PlansInOrder, PlanTypes
      <4>. QED BY <1>1, <2>1, <3>0, <4>2 DEF NewEnd
    <3>. QED BY <3>1, <3>2
  <2>3. n + 1 \in 1 .. Len(s) + Len(z) /\ n + 1 <= Len(s)
    BY <1>1, <1>2, <1>4, <2>1, <2>2
  <2>4. (s \o z)[n + 1] = s[n + 1]
    BY <1>5, <2>3
  <2>. QED BY <1>2, <1>3, <2>4
<1>8. ASSUME NEW n \in NewEnd .. PaddedEnd - 1 PROVE Image[n + 1] = Zero
  <2>1. /\ n + 1 \in 1 .. Len(s) + Len(z) /\ ~(n + 1 <= Len(s))
        /\ n + 1 - Len(s) \in 1 .. Pad
    BY <1>1, <1>2, <1>4
  <2>2. (s \o z)[n + 1] = z[n + 1 - Len(s)]
    BY <1>5, <2>1
  <2>. QED BY <1>3, <1>4, <2>1, <2>2
<1>. QED BY <1>6, <1>7, <1>8

\* A search over plans in order finds where those stop of which it is asked
\* whether they end, or begin, before a place.
LEMMA SearchEnds ==
    ASSUME NEW ps, IsLayout(ps), NEW c \in Nat
    PROVE  /\ \E i \in 0 .. Len(ps) : \A j \in DOMAIN ps : OutEnd(ps[j]) <= c <=> j <= i
           /\ \E i \in 0 .. Len(ps) : \A j \in DOMAIN ps : ps[j].off < c <=> j <= i
<1>. DEFINE n == Len(ps)
            E == {j \in 1 .. n : ~(OutEnd(ps[j]) <= c)} \cup {n + 1}
            B == {j \in 1 .. n : ~(ps[j].off < c)} \cup {n + 1}
<1>1. n \in Nat /\ DOMAIN ps = 1 .. n
  BY PlanTypes
<1>2. \A j \in 1 .. n : ps[j].off \in Nat /\ OutEnd(ps[j]) \in Nat /\ ps[j].off < OutEnd(ps[j])
  BY PlanTypes
<1>3. \A i, j \in 1 .. n : i < j => OutEnd(ps[i]) <= ps[j].off
  BY PlansInOrder
<1>. HIDE DEF n
<1>4. E \in SUBSET Nat /\ B \in SUBSET Nat /\ n + 1 \in E /\ n + 1 \in B
  BY <1>1
<1>5. PICK e \in E : \A j \in E : e <= j
  BY <1>4, LeastNumber
<1>6. PICK b \in B : \A j \in B : b <= j
  BY <1>4, LeastNumber
<1>7. \E i \in 0 .. n : \A j \in DOMAIN ps : OutEnd(ps[j]) <= c <=> j <= i
  <2>1. e \in 1 .. n + 1 /\ e - 1 \in 0 .. n
    BY <1>1, <1>4, <1>5
  <2>2. ASSUME NEW j \in 1 .. n PROVE OutEnd(ps[j]) <= c <=> j <= e - 1
    <3>1. CASE j < e
      BY <1>1, <1>5, <2>1, <3>1
    <3>2. CASE ~(j < e)
      <4>1. e \in 1 .. n /\ ~(OutEnd(ps[e]) <= c) /\ (e = j \/ e < j)
        BY <1>1, <1>5, <2>1, <3>2
      <4>2. OutEnd(ps[e]) <= OutEnd(ps[j])
        BY <1>2, <1>3, <4>1
      <4>. QED BY <1>2, <2>1, <3>2, <4>1, <4>2
    <3>. QED BY <3>1, <3>2
  <2>. QED BY <1>1, <2>1, <2>2
<1>8. \E i \in 0 .. n : \A j \in DOMAIN ps : ps[j].off < c <=> j <= i
  <2>1. b \in 1 .. n + 1 /\ b - 1 \in 0 .. n
    BY <1>1, <1>4, <1>6
  <2>2. ASSUME NEW j \in 1 .. n PROVE ps[j].off < c <=> j <= b - 1
    <3>1. CASE j < b
      BY <1>1, <1>6, <2>1, <3>1
    <3>2. CASE ~(j < b)
      <4>1. b \in 1 .. n /\ ~(ps[b].off < c) /\ (b = j \/ b < j)
        BY <1>1, <1>6, <2>1, <3>2
      <4>2. ps[b].off <= ps[j].off
        BY <1>2, <1>3, <4>1
      <4>. QED BY <1>2, <2>1, <3>2, <4>1, <4>2
    <3>. QED BY <3>1, <3>2
  <2>. QED BY <1>1, <2>1, <2>2
<1>. QED BY <1>7, <1>8 DEF n

\* The plans of a chunk are those between the two places the searches find,
\* and every byte of its entries is in one of them.
LEMMA OverlappingPlans ==
    ASSUME layout \in Plans, chunk \in Nat, chunk < ChunkCount
    PROVE  /\ Ended \in 0 .. Len(layout) /\ Begun \in 0 .. Len(layout) /\ Len(layout) \in Nat
           /\ Len(Overlapping) \in Nat /\ DOMAIN Overlapping = 1 .. Len(Overlapping)
           /\ \A j \in 1 .. Len(Overlapping) :
                 /\ Ended + j \in 1 .. Len(layout)
                 /\ Overlapping[j] = layout[Ended + j]
                 /\ Overlapping[j] \in [off : Nat, hdr : Nat, src : Nat, len : Nat]
           /\ \A n \in Cs .. RealEnd - 1 : \E j \in 1 .. Len(Overlapping) :
                 Overlapping[j].off <= n /\ n < OutEnd(Overlapping[j])
<1>. DEFINE P == [off : Nat, hdr : Nat, src : Nat, len : Nat]
<1>1. /\ IsLayout(layout) /\ Len(layout) \in Nat /\ DOMAIN layout = 1 .. Len(layout)
      /\ \A i \in 1 .. Len(layout) : layout[i] \in P
      /\ \A i \in 1 .. Len(layout) : layout[i].off \in Nat /\ OutEnd(layout[i]) \in Nat
  BY Ends, PlanTypes
<1>2. /\ Cs \in Nat /\ RealEnd \in Nat /\ Cs < RealEnd /\ RealEnd <= NewEnd /\ NewEnd \in Nat
  BY ChunkBounds, Ends
<1>3. /\ Ended \in 0 .. Len(layout)
      /\ \A j \in 1 .. Len(layout) : OutEnd(layout[j]) <= Cs <=> j <= Ended
  <2>1. \E i \in 0 .. Len(layout) : \A j \in DOMAIN layout : OutEnd(layout[j]) <= Cs <=> j <= i
    BY <1>1, <1>2, SearchEnds
  <2>. QED BY <1>1, <2>1 DEF Ended
<1>4. /\ Begun \in 0 .. Len(layout)
      /\ \A j \in 1 .. Len(layout) : layout[j].off < RealEnd <=> j <= Begun
  <2>1. \E i \in 0 .. Len(layout) : \A j \in DOMAIN layout : layout[j].off < RealEnd <=> j <= i
    BY <1>1, <1>2, SearchEnds
  <2>. QED BY <1>1, <2>1 DEF Begun
<1>. HIDE DEF P
<1>5. /\ Overlapping \in Seq(P)
      /\ Len(Overlapping) = IF Ended + 1 <= Begun THEN Begun - (Ended + 1) + 1 ELSE 0
      /\ \A j \in 1 .. Begun - (Ended + 1) + 1 : Overlapping[j] = layout[(Ended + 1) + j - 1]
  <2>1. Ended + 1 \in Int /\ Begun \in Int /\ \A i \in Ended + 1 .. Begun : layout[i] \in P
    BY <1>1, <1>3, <1>4
  <2>. QED BY <2>1, SubSeqProperties DEF Overlapping
<1>6. Len(Overlapping) \in Nat /\ DOMAIN Overlapping = 1 .. Len(Overlapping)
  BY <1>5, LenProperties
<1>7. ASSUME NEW j \in 1 .. Len(Overlapping)
      PROVE  /\ Ended + j \in 1 .. Len(layout)
             /\ Overlapping[j] = layout[Ended + j] /\ Overlapping[j] \in P
  <2>1. /\ j \in 1 .. Begun - (Ended + 1) + 1 /\ Ended + j \in 1 .. Len(layout)
        /\ (Ended + 1) + j - 1 = Ended + j
    BY <1>1, <1>3, <1>4, <1>5, <1>6
  <2>2. Overlapping[j] = layout[Ended + j]
    BY <1>5, <2>1
  <2>. QED BY <1>1, <2>1, <2>2
<1>8. ASSUME NEW n \in Cs .. RealEnd - 1
      PROVE  \E j \in 1 .. Len(Overlapping) :
                Overlapping[j].off <= n /\ n < OutEnd(Overlapping[j])
  <2>1. n \in Nat /\ Cs <= n /\ n < RealEnd
    BY <1>2
  <2>2. layout # <<>> /\ n < OutEnd(layout[Len(layout)])
    <3>1. layout # <<>>
      BY <1>2 DEF NewEnd
    <3>. QED BY <1>2, <2>1, <3>1 DEF NewEnd
  <2>3. PICK i \in 1 .. Len(layout) : layout[i].off <= n /\ n < OutEnd(layout[i])
    BY <1>1, <2>1, <2>2, PlansCover
  <2>4. ~(OutEnd(layout[i]) <= Cs) /\ layout[i].off < RealEnd
    BY <1>1, <1>2, <2>1, <2>3
  <2>5. ~(i <= Ended) /\ i <= Begun
    BY <1>3, <1>4, <2>4
  <2>. DEFINE j == i - Ended
  <2>6. j \in 1 .. Len(Overlapping) /\ Ended + j = i
    BY <1>1, <1>3, <1>4, <1>5, <2>5
  <2>. HIDE DEF j
  <2>7. Overlapping[j] = layout[i]
    BY <1>7, <2>6
  <2>. QED BY <2>3, <2>6, <2>7
<1>. QED BY <1>1, <1>3, <1>4, <1>6, <1>7, <1>8 DEF P

\* Finitely many numbers have a greatest one.
LEMMA GreatestOf ==
    ASSUME NEW m \in Nat, NEW f \in [1 .. m -> Nat], NEW I \in SUBSET (1 .. m), I # {}
    PROVE  \E i \in I : \A j \in I : f[i] >= f[j]
<1>. DEFINE S == {n \in 0 .. m : \E b \in Nat : \A j \in 1 .. n : f[j] <= b}
<1>1. 0 \in S
  OBVIOUS
<1>2. ASSUME NEW n \in 0 .. m - 1, n \in S PROVE n + 1 \in S
  <2>1. PICK b \in Nat : \A j \in 1 .. n : f[j] <= b
    BY <1>2
  <2>2. n + 1 \in 1 .. m /\ f[n + 1] \in Nat /\ b + f[n + 1] \in Nat
    OBVIOUS
  <2>3. ASSUME NEW j \in 1 .. n + 1 PROVE f[j] <= b + f[n + 1]
    <3>1. CASE j = n + 1
      BY <2>2, <3>1
    <3>2. CASE j # n + 1
      <4>1. j \in 1 .. n /\ f[j] \in Nat
        BY <3>2
      <4>. QED BY <2>1, <2>2, <4>1
    <3>. QED BY <3>1, <3>2
  <2>. QED BY <2>2, <2>3
<1>3. m \in S
  <2>. HIDE DEF S
  <2>1. 0 .. m \subseteq S
    BY <1>1, <1>2, UpTo, Zenon
  <2>. QED BY <2>1
<1>4. PICK b \in Nat : \A j \in 1 .. m : f[j] <= b
  BY <1>3
<1>. DEFINE D == {b - f[j] : j \in I}
<1>5. D \in SUBSET Nat /\ D # {}
  <2>1. ASSUME NEW j \in I PROVE b - f[j] \in Nat
    <3>1. f[j] \in Nat /\ f[j] <= b
      BY <1>4
    <3>. QED BY <3>1
  <2>. QED BY <2>1
<1>6. PICK d \in D : \A o \in D : d <= o
  BY <1>5, LeastNumber
<1>7. PICK i \in I : d = b - f[i]
  BY <1>6
<1>8. ASSUME NEW j \in I PROVE f[i] >= f[j]
  <2>1. b - f[j] \in D /\ f[i] \in Nat /\ f[j] \in Nat
    OBVIOUS
  <2>2. b - f[i] <= b - f[j]
    BY <1>6, <1>7, <2>1
  <2>. QED BY <2>1, <2>2
<1>. QED BY <1>8

\* The part of a plan's data that is in a chunk.
LEMMA DataInChunk ==
    ASSUME NEW p \in [off : Nat, hdr : Nat, src : Nat, len : Nat],
           Cs \in Nat, RealEnd \in Nat, From(p) < To(p)
    PROVE  /\ From(p) \in Nat /\ To(p) \in Nat
           /\ InputOff(p, From(p)) \in Nat /\ InputOff(p, To(p)) \in Nat
<1>1. /\ p.off \in Nat /\ p.hdr \in Nat /\ p.src \in Nat /\ p.len \in Nat
      /\ OutEnd(p) \in Nat
  BY DEF OutEnd
<1>2. From(p) \in Nat /\ From(p) >= p.off + p.hdr
  BY <1>1 DEF From, MaxOf
<1>3. To(p) \in Nat
  BY <1>1 DEF To, MinOf
<1>4. To(p) >= p.off + p.hdr
  BY <1>1, <1>2, <1>3
<1>5. ASSUME NEW n \in Nat, n >= p.off + p.hdr PROVE InputOff(p, n) \in Nat
  <2>. DEFINE o == p.off
              h == p.hdr
              s == p.src
  <2>1. o \in Nat /\ h \in Nat /\ s \in Nat /\ n >= o + h
    BY <1>1, <1>5
  <2>. HIDE DEF o, h, s
  <2>2. s + n - (o + h) \in Nat
    BY ONLY <2>1, n \in Nat
  <2>. QED BY <2>2 DEF InputOff, o, h, s
<1>. QED BY <1>2, <1>3, <1>4, <1>5

\* The span of the input that is read at once has all the data the chunk needs.
LEMMA SpanHoldsData ==
    ASSUME layout \in Plans, chunk \in Nat, chunk < ChunkCount,
           NEW i \in 1 .. Len(Overlapping), From(Overlapping[i]) < To(Overlapping[i])
    PROVE  /\ Lo \in Nat /\ Hi \in Nat
           /\ Lo <= InputOff(Overlapping[i], From(Overlapping[i]))
           /\ InputOff(Overlapping[i], To(Overlapping[i])) <= Hi
<1>. DEFINE m == Len(Overlapping)
            I == {j \in 1 .. m : From(Overlapping[j]) < To(Overlapping[j])}
            f == [j \in 1 .. m |-> IF j \in I THEN InputOff(Overlapping[j], To(Overlapping[j])) ELSE 0]
            A == {InputOff(p, From(p)) : p \in Pieces}
            B == {InputOff(p, To(p)) : p \in Pieces}
<1>1. /\ m \in Nat /\ DOMAIN Overlapping = 1 .. m
      /\ \A j \in 1 .. m : Overlapping[j] \in [off : Nat, hdr : Nat, src : Nat, len : Nat]
  BY OverlappingPlans
<1>2. Cs \in Nat /\ RealEnd \in Nat
  BY ChunkBounds
<1>3. Pieces = {Overlapping[j] : j \in I} /\ i \in I
  BY <1>1 DEF Pieces
<1>4. ASSUME NEW j \in I
      PROVE  /\ InputOff(Overlapping[j], From(Overlapping[j])) \in Nat
             /\ InputOff(Overlapping[j], To(Overlapping[j])) \in Nat
  <2>1. /\ Overlapping[j] \in [off : Nat, hdr : Nat, src : Nat, len : Nat]
        /\ From(Overlapping[j]) < To(Overlapping[j])
    BY <1>1
  <2>. QED BY <1>2, <2>1, DataInChunk
<1>. HIDE DEF I, m
<1>5. A \in SUBSET Nat /\ A # {}
  BY <1>3, <1>4
<1>6. Lo \in A /\ \A o \in A : Lo <= o
  <2>1. \E n \in A : \A o \in A : n <= o
    BY <1>5, LeastNumber
  <2>. QED BY <2>1 DEF Lo, Least
<1>7. Hi \in B /\ \A o \in B : Hi >= o
  <2>1. f \in [1 .. m -> Nat] /\ I \in SUBSET (1 .. m)
    BY <1>4 DEF I
  <2>2. PICK j \in I : \A o \in I : f[j] >= f[o]
    <3>. HIDE DEF f
    <3>. QED BY <1>1, <1>3, <2>1, GreatestOf
  <2>3. \A o \in I : f[o] = InputOff(Overlapping[o], To(Overlapping[o]))
    BY DEF I
  <2>4. f[j] \in B /\ \A o \in B : f[j] >= o
    BY <1>3, <2>2, <2>3
  <2>5. \E n \in B : \A o \in B : n >= o
    BY <2>4
  <2>. HIDE DEF B
  <2>6. Hi = CHOOSE n \in B : \A o \in B : n >= o
    BY DEF Hi, Greatest, B
  <2>. QED BY <2>5, <2>6
<1>8. /\ InputOff(Overlapping[i], From(Overlapping[i])) \in A
      /\ InputOff(Overlapping[i], To(Overlapping[i])) \in B /\ B \in SUBSET Nat
  BY <1>3, <1>4
<1>. QED BY <1>5, <1>6, <1>7, <1>8
-----------------------------------------------------------------------------
(* Assembling a chunk.                                                     *)

\* The types, and that a chunk at hand is one there is.
ClaimInv ==
    /\ layout \in Plans /\ chunk \in Nat
    /\ stage \in {"claim", "span", "copy", "hashed", "failed"}
    /\ DOMAIN buf = 0 .. ChunkSize - 1 /\ DOMAIN src = 0 .. SrcWindow - 1
    /\ stage # "claim" => chunk < ChunkCount

\* src_buf is not used, or it holds the span of the input the chunk needs.
WindowInv ==
    stage = "copy" =>
        \/ window = -1
        \/ /\ Compact /\ window = Lo
           /\ \A n \in 0 .. Hi - Lo - 1 : src[n] = InputByte(Lo + n)

\* The plans that are done are in the buffer.
CopiedInv ==
    stage = "copy" =>
        /\ copied \in 0 .. Len(Overlapping)
        /\ \A j \in 1 .. copied : \A n \in Cs .. RealEnd - 1 :
              Overlapping[j].off <= n /\ n < OutEnd(Overlapping[j]) =>
                  buf[n - Cs] = ByteOf(Overlapping[j], n)

\* The inductive invariant of the assembly.
AssemblyInv == ClaimInv /\ WindowInv /\ CopiedInv /\ ChunkIsTheImage

\* What is known of a chunk depends on the plans and its number alone.
LEMMA SameChunk ==
    ASSUME layout' = layout, chunk' = chunk
    PROVE  /\ Cs' = Cs /\ Ce' = Ce /\ RealEnd' = RealEnd /\ Real' = Real
           /\ ChunkCount' = ChunkCount /\ Overlapping' = Overlapping
           /\ Compact' = Compact /\ Lo' = Lo /\ Hi' = Hi /\ Image' = Image
<1>1. NewEnd' = NewEnd /\ Pad' = Pad /\ Cs' = Cs
  BY DEF NewEnd, Pad, Cs
<1>2. PaddedEnd' = PaddedEnd
  BY <1>1 DEF PaddedEnd
<1>3. Ce' = Ce /\ ChunkCount' = ChunkCount
  BY <1>1, <1>2 DEF Ce, ChunkCount
<1>4. RealEnd' = RealEnd
  BY <1>1, <1>3 DEF RealEnd
<1>5. Real' = Real
  BY <1>1, <1>4 DEF Real
<1>6. Ended' = Ended /\ Begun' = Begun
  BY <1>1, <1>4 DEF Ended, Begun
<1>7. Overlapping' = Overlapping
  BY <1>6 DEF Overlapping
<1>8. Pieces' = Pieces
  BY <1>1, <1>4, <1>7 DEF Pieces, From, To
<1>9. Lo' = Lo /\ Hi' = Hi
  BY <1>1, <1>4, <1>8 DEF Lo, Hi, From, To
<1>10. Compact' = Compact
  BY <1>8, <1>9 DEF Compact
<1>11. Image' = Image
  BY <1>1 DEF Image
<1>. QED BY <1>1, <1>3, <1>4, <1>5, <1>7, <1>9, <1>10, <1>11

\* Copying a plan puts its bytes into the buffer and leaves the others.
LEMMA CopyPlanCopies ==
    ASSUME AssemblyInv, CopyPlan
    PROVE  CopiedInv'
<1>. DEFINE i == copied + 1
            p == Overlapping[i]
<1>1. /\ layout \in Plans /\ chunk \in Nat /\ chunk < ChunkCount /\ stage = "copy"
      /\ layout' = layout /\ chunk' = chunk /\ copied' = i /\ stage' = "copy"
      /\ DOMAIN buf = 0 .. ChunkSize - 1
  BY DEF AssemblyInv, ClaimInv, CopyPlan
<1>2. /\ Cs' = Cs /\ RealEnd' = RealEnd /\ Overlapping' = Overlapping
  BY <1>1, SameChunk
<1>3. /\ Cs \in Nat /\ RealEnd \in Nat /\ Real = RealEnd - Cs /\ Real \in 1 .. ChunkSize
      /\ ChunkSize \in Nat
  BY <1>1, ChunkBounds, SizesAssumption
<1>4. copied \in 0 .. Len(Overlapping) /\ copied < Len(Overlapping) /\ Len(Overlapping) \in Nat
  BY <1>1, OverlappingPlans DEF AssemblyInv, CopiedInv, CopyPlan
<1>5. i \in 1 .. Len(Overlapping) /\ i \in Nat
  BY <1>4
<1>6. /\ p.off \in Nat /\ p.hdr \in Nat /\ p.src \in Nat /\ p.len \in Nat
      /\ p \in [off : Nat, hdr : Nat, src : Nat, len : Nat]
  <2>1. p \in [off : Nat, hdr : Nat, src : Nat, len : Nat]
    BY <1>1, <1>5, OverlappingPlans
  <2>. QED BY <2>1
<1>. DEFINE Byt(n) == IF window = -1 THEN InputByte(InputOff(p, n)) ELSE src[InputOff(p, n) - window]
<1>7. buf' = [c \in DOMAIN buf |->
                CASE Cs + c >= p.off /\ Cs + c < MinOf(p.off + p.hdr, RealEnd) ->
                       HeaderByte(p, Cs + c - p.off)
                  [] Cs + c >= From(p) /\ Cs + c < To(p) -> Byt(Cs + c)
                  [] OTHER -> buf[c]]
  BY DEF CopyPlan
<1>. HIDE DEF i, p
<1>8. ASSUME NEW n \in Cs .. RealEnd - 1
      PROVE  n - Cs \in DOMAIN buf /\ n \in Nat /\ Cs + (n - Cs) = n /\ n < RealEnd /\ Cs <= n
  BY <1>1, <1>3
<1>9. ASSUME NEW n \in Cs .. RealEnd - 1, p.off <= n, n < OutEnd(p)
      PROVE  buf'[n - Cs] = ByteOf(p, n)
  <2>1. n - Cs \in DOMAIN buf /\ n \in Nat /\ Cs + (n - Cs) = n /\ n < RealEnd /\ Cs <= n
    BY <1>8
  <2>2. CASE n < p.off + p.hdr
    <3>1. n >= p.off /\ n < MinOf(p.off + p.hdr, RealEnd) /\ ~(n >= From(p))
      BY <1>3, <1>6, <1>9, <2>1, <2>2 DEF MinOf, MaxOf, From
    <3>2. buf'[n - Cs] = HeaderByte(p, n - p.off)
      <4>. HIDE DEF Byt
      <4>. DEFINE c == n - Cs
      <4>1. buf'[c] = HeaderByte(p, Cs + c - p.off)
        <5>1. c \in DOMAIN buf /\ Cs + c = n
          BY <2>1
        <5>. HIDE DEF c
        <5>. QED BY <1>7, <3>1, <5>1
      <4>2. Cs + c - p.off = n - p.off
        BY <1>3, <1>6, <2>1
      <4>. QED BY ONLY <4>1, <4>2
    <3>. QED BY <2>2, <3>2 DEF ByteOf
  <2>3. CASE ~(n < p.off + p.hdr)
    <3>1. ~(n < MinOf(p.off + p.hdr, RealEnd)) /\ n >= From(p) /\ n < To(p)
      BY <1>3, <1>6, <1>9, <2>1, <2>3 DEF MinOf, MaxOf, From, To
    <3>2. buf'[n - Cs] = Byt(n)
      <4>. HIDE DEF Byt
      <4>. QED BY <1>7, <2>1, <3>1
    <3>3. Byt(n) = InputByte(InputOff(p, n))
      <4>1. CASE window = -1
        BY <4>1
      <4>2. CASE window # -1
        <5>1. /\ window = Lo /\ \A o \in 0 .. Hi - Lo - 1 : src[o] = InputByte(Lo + o)
          BY <1>1, <4>2 DEF AssemblyInv, WindowInv
        <5>2. From(p) \in Nat /\ To(p) \in Nat /\ From(p) < To(p)
          BY <1>3, <1>6, <2>1, <3>1 DEF From, To, MaxOf, MinOf, OutEnd
        <5>3. /\ Lo \in Nat /\ Hi \in Nat /\ Lo <= InputOff(p, From(p))
              /\ InputOff(p, To(p)) <= Hi
          BY <1>1, <1>5, <5>2, SpanHoldsData DEF p
        <5>4. InputOff(p, n) \in Int /\ InputOff(p, n) - Lo \in 0 .. Hi - Lo - 1
          <6>1. /\ InputOff(p, From(p)) = p.src + From(p) - (p.off + p.hdr)
                /\ InputOff(p, To(p)) = p.src + To(p) - (p.off + p.hdr)
                /\ InputOff(p, n) = p.src + n - (p.off + p.hdr)
            BY DEF InputOff
          <6>. QED BY <1>6, <2>1, <3>1, <5>2, <5>3, <6>1
        <5>5. src[InputOff(p, n) - Lo] = InputByte(Lo + (InputOff(p, n) - Lo))
          BY <5>1, <5>4
        <5>6. Lo + (InputOff(p, n) - Lo) = InputOff(p, n)
          BY <5>3, <5>4
        <5>. QED BY <4>2, <5>1, <5>5, <5>6
      <4>. QED BY <4>1, <4>2
    <3>. QED BY <2>3, <3>2, <3>3 DEF ByteOf
  <2>. QED BY <2>2, <2>3
<1>10. ASSUME NEW j \in 1 .. copied, NEW n \in Cs .. RealEnd - 1,
              Overlapping[j].off <= n, n < OutEnd(Overlapping[j])
       PROVE  buf'[n - Cs] = ByteOf(Overlapping[j], n)
  <2>1. n - Cs \in DOMAIN buf /\ n \in Nat /\ Cs + (n - Cs) = n
    BY <1>8
  <2>2. buf[n - Cs] = ByteOf(Overlapping[j], n)
    BY <1>1, <1>10 DEF AssemblyInv, CopiedInv
  <2>3. j \in 1 .. Len(Overlapping) /\ j < i
    BY <1>4 DEF i
  <2>4. OutEnd(Overlapping[j]) <= p.off
    <3>1. /\ Ended + j \in 1 .. Len(layout) /\ Overlapping[j] = layout[Ended + j]
          /\ Ended + i \in 1 .. Len(layout) /\ p = layout[Ended + i]
          /\ Ended \in Nat /\ IsLayout(layout)
      BY <1>1, <1>5, <2>3, OverlappingPlans, Ends DEF p
    <3>2. Ended + j < Ended + i
      BY <1>5, <2>3, <3>1
    <3>. QED BY <3>1, <3>2, PlansInOrder
  <2>5. OutEnd(Overlapping[j]) \in Nat
    <3>1. Overlapping[j] \in [off : Nat, hdr : Nat, src : Nat, len : Nat]
      BY <1>1, <2>3, OverlappingPlans
    <3>. QED BY <3>1 DEF OutEnd
  <2>6. n < p.off
    BY <1>6, <1>10, <2>1, <2>4, <2>5
  <2>7. ~(n >= p.off) /\ ~(n >= From(p))
    BY <1>3, <1>6, <2>1, <2>6 DEF From, MaxOf
  <2>8. buf'[n - Cs] = buf[n - Cs]
    <3>. HIDE DEF Byt
    <3>. QED BY <1>7, <2>1, <2>7
  <2>. QED BY <2>2, <2>8
<1>11. ASSUME NEW j \in 1 .. i, NEW n \in Cs .. RealEnd - 1,
              Overlapping[j].off <= n, n < OutEnd(Overlapping[j])
       PROVE  buf'[n - Cs] = ByteOf(Overlapping[j], n)
  <2>1. CASE j = i
    BY <1>9, <1>11, <2>1 DEF p
  <2>2. CASE j # i
    <3>1. j \in 1 .. copied
      BY <1>4, <2>2 DEF i
    <3>. QED BY <1>10, <1>11, <3>1
  <2>. QED BY <2>1, <2>2
<1>12. i \in 0 .. Len(Overlapping)
  BY <1>5
<1>. QED BY <1>1, <1>2, <1>11, <1>12 DEF CopiedInv

\* What is hashed once all plans are copied is a part of the image.
LEMMA HashIsImage ==
    ASSUME AssemblyInv, Hash
    PROVE  ChunkIsTheImage'
<1>1. /\ layout \in Plans /\ chunk \in Nat /\ chunk < ChunkCount /\ stage = "copy"
      /\ layout' = layout /\ chunk' = chunk /\ copied = Len(Overlapping) /\ buf' = buf
      /\ hashed' = HashChunk([c \in 1 .. Real |-> buf[c - 1]], [c \in 1 .. Zeros |-> Zero])
  BY DEF AssemblyInv, ClaimInv, Hash
<1>2. Cs' = Cs /\ Ce' = Ce /\ Real' = Real /\ Image' = Image
  BY <1>1, SameChunk
<1>3. /\ Cs \in Nat /\ RealEnd \in Nat /\ Ce \in Nat /\ RealEnd <= NewEnd
      /\ RealEnd <= Ce /\ Ce <= PaddedEnd /\ Real = RealEnd - Cs /\ Real \in Nat
      /\ Zeros = Ce - RealEnd /\ Zeros \in Nat /\ (RealEnd < Ce => RealEnd = NewEnd)
      /\ PaddedEnd \in Nat /\ NewEnd \in Nat /\ Cs < RealEnd
  BY <1>1, ChunkBounds, Ends, SizesAssumption
<1>4. /\ Image \in Seq(Byte) /\ Len(Image) = PaddedEnd
      /\ \A n \in 1 .. PaddedEnd : Image[n] \in Byte
  <2>1. Image \in Seq(Byte) /\ Len(Image) = PaddedEnd
    BY <1>1, ImageBytes
  <2>. QED BY <2>1, ElementOfSeq
<1>5. ASSUME NEW n \in Cs .. RealEnd - 1 PROVE buf[n - Cs] = Image[n + 1]
  <2>1. PICK j \in 1 .. Len(Overlapping) :
            Overlapping[j].off <= n /\ n < OutEnd(Overlapping[j])
    BY <1>1, OverlappingPlans
  <2>2. buf[n - Cs] = ByteOf(Overlapping[j], n)
    BY <1>1, <2>1 DEF AssemblyInv, CopiedInv
  <2>3. /\ Ended + j \in 1 .. Len(layout) /\ Overlapping[j] = layout[Ended + j]
        /\ Overlapping[j] \in [off : Nat, hdr : Nat, src : Nat, len : Nat]
    BY <1>1, OverlappingPlans
  <2>4. n \in Int /\ OutEnd(Overlapping[j]) \in Nat /\ Overlapping[j].off \in Nat
    <3>1. n \in Int
      BY <1>3
    <3>2. OutEnd(Overlapping[j]) \in Nat /\ Overlapping[j].off \in Nat
      BY <2>3 DEF OutEnd
    <3>. QED BY <3>1, <3>2
  <2>5. n \in Overlapping[j].off .. OutEnd(Overlapping[j]) - 1
    BY <2>1, <2>4
  <2>6. Image[n + 1] = ByteOf(layout[Ended + j], n)
    BY <1>1, <2>3, <2>5, ImageBytes
  <2>. QED BY <2>2, <2>3, <2>6
<1>6. ASSUME NEW n \in 1 .. Real PROVE buf[n - 1] = Image[Cs + n] /\ Image[Cs + n] \in Byte
  <2>1. Cs + n - 1 \in Cs .. RealEnd - 1 /\ (Cs + n - 1) - Cs = n - 1 /\ (Cs + n - 1) + 1 = Cs + n
    BY <1>3
  <2>2. buf[(Cs + n - 1) - Cs] = Image[(Cs + n - 1) + 1]
    BY <1>5, <2>1
  <2>3. Cs + n \in 1 .. PaddedEnd
    BY <1>3
  <2>. QED BY <1>4, <2>1, <2>2, <2>3
<1>7. ASSUME NEW n \in 1 .. Zeros PROVE Image[RealEnd + n] = Zero
  <2>1. RealEnd + n - 1 \in NewEnd .. PaddedEnd - 1 /\ (RealEnd + n - 1) + 1 = RealEnd + n
    BY <1>3
  <2>2. Image[(RealEnd + n - 1) + 1] = Zero
    BY <1>1, <2>1, ImageBytes
  <2>. QED BY <2>1, <2>2
<1>. DEFINE a == [c \in 1 .. Real |-> buf[c - 1]]
            z == [c \in 1 .. Zeros |-> Zero]
            t == SubSeq(Image, Cs + 1, Ce)
<1>8. a \in Seq(Byte) /\ Len(a) = Real /\ \A n \in 1 .. Real : a[n] = Image[Cs + n]
  <2>1. \A n \in 1 .. Real : buf[n - 1] \in Byte
    BY <1>6
  <2>2. a \in Seq(Byte) /\ Len(a) = Real
    BY <1>3, <2>1
  <2>. QED BY <1>6, <2>2
<1>9. z \in Seq(Byte) /\ Len(z) = Zeros /\ \A n \in 1 .. Zeros : z[n] = Zero
  <2>1. Zero \in Byte
    BY DEF Byte
  <2>. QED BY <1>3, <2>1
<1>10. /\ t \in Seq(Byte) /\ Len(t) = Ce - Cs
       /\ \A n \in 1 .. Ce - Cs : t[n] = Image[Cs + n]
  <2>1. Cs + 1 \in Int /\ Ce \in Int /\ \A n \in Cs + 1 .. Ce : Image[n] \in Byte
    BY <1>3, <1>4
  <2>2. /\ t \in Seq(Byte) /\ Len(t) = IF Cs + 1 <= Ce THEN Ce - (Cs + 1) + 1 ELSE 0
        /\ \A n \in 1 .. Ce - (Cs + 1) + 1 : t[n] = Image[(Cs + 1) + n - 1]
    BY <2>1, SubSeqProperties
  <2>. HIDE DEF t
  <2>3. Len(t) = Ce - Cs /\ Ce - (Cs + 1) + 1 = Ce - Cs
    BY <1>3, <2>2
  <2>4. \A n \in 1 .. Ce - Cs : (Cs + 1) + n - 1 = Cs + n
    BY <1>3
  <2>. QED BY <2>2, <2>3, <2>4
<1>11. a \o z = t
  <2>. HIDE DEF a, z, t
  <2>1. /\ a \o z \in Seq(Byte) /\ Len(a \o z) = Len(a) + Len(z)
        /\ \A n \in 1 .. Len(a) + Len(z) : (a \o z)[n] = IF n <= Len(a) THEN a[n] ELSE z[n - Len(a)]
    BY <1>8, <1>9, ConcatProperties
  <2>2. Len(a) + Len(z) = Ce - Cs
    BY <1>3, <1>8, <1>9
  <2>3. ASSUME NEW n \in 1 .. Ce - Cs PROVE (a \o z)[n] = t[n]
    <3>1. CASE n <= Real
      <4>1. n \in 1 .. Real
        BY <1>3, <3>1
      <4>. QED BY <1>8, <1>10, <2>1, <2>2, <3>1, <4>1
    <3>2. CASE ~(n <= Real)
      <4>1. n - Real \in 1 .. Zeros /\ RealEnd + (n - Real) = Cs + n
        BY <1>3, <3>2
      <4>2. (a \o z)[n] = z[n - Real]
        BY <1>8, <2>1, <2>2, <3>2
      <4>3. z[n - Real] = Zero /\ Image[RealEnd + (n - Real)] = Zero
        BY <1>7, <1>9, <4>1
      <4>. QED BY <1>10, <4>1, <4>2, <4>3
    <3>. QED BY <3>1, <3>2
  <2>4. Len(a \o z) = Len(t) /\ \A n \in 1 .. Len(t) : (a \o z)[n] = t[n]
    BY <1>10, <2>1, <2>2, <2>3
  <2>. QED BY <1>10, <2>1, <2>4, SeqEqual
<1>12. hashed' = a \o z
  BY <1>1 DEF HashChunk
<1>. QED BY <1>1, <1>2, <1>6, <1>11, <1>12 DEF ChunkIsTheImage

\* Every step keeps the invariant.
LEMMA AssemblyStep ==
    ASSUME AssemblyInv, [AssemblyNext]_assemblyVars
    PROVE  AssemblyInv'
<1>. USE DEF AssemblyInv
<1>1. CASE Claim
  <2>1. PICK j \in chunk .. ChunkCount - 1 : chunk' = j
    BY <1>1 DEF Claim
  <2>2. layout' = layout /\ ChunkCount' = ChunkCount
    BY <1>1 DEF Claim, ChunkCount, PaddedEnd, NewEnd, Pad
  <2>3. ChunkCount \in Int
    <3>. DEFINE a == PaddedEnd + ChunkSize - 1
    <3>1. PaddedEnd \in Nat /\ ChunkSize \in Nat \ {0}
      BY Ends, SizesAssumption DEF ClaimInv
    <3>2. a \in Nat
      BY <3>1
    <3>. HIDE DEF a
    <3>3. a \div ChunkSize \in Int
      BY <3>1, <3>2
    <3>. QED BY <3>3 DEF ChunkCount, a
  <2>4. chunk' \in Nat /\ chunk' < ChunkCount'
    BY <2>1, <2>2, <2>3 DEF ClaimInv
  <2>. QED BY <1>1, <2>2, <2>4 DEF Claim, ClaimInv, WindowInv, CopiedInv, ChunkIsTheImage
<1>2. CASE ReadWindow
  <2>1. layout' = layout /\ chunk' = chunk /\ stage = "span" /\ stage' = "copy" /\ Compact
    BY <1>2 DEF ReadWindow
  <2>2. /\ Compact' = Compact /\ Lo' = Lo /\ Hi' = Hi /\ ChunkCount' = ChunkCount
        /\ Overlapping' = Overlapping /\ Cs' = Cs /\ RealEnd' = RealEnd
    BY <2>1, SameChunk
  <2>3. ClaimInv'
    BY <1>2, <2>1, <2>2 DEF ClaimInv, ReadWindow
  <2>4. WindowInv'
    <3>1. Lo \in Nat /\ Hi \in Nat /\ Hi - Lo <= SrcWindow /\ SrcWindow \in Nat
      <4>1. PICK i \in DOMAIN Overlapping : From(Overlapping[i]) < To(Overlapping[i])
        BY <2>1 DEF Compact, Pieces
      <4>2. Lo \in Nat /\ Hi \in Nat
        BY <2>1, <4>1, SpanHoldsData, OverlappingPlans DEF ClaimInv
      <4>. QED BY <2>1, <4>2, SizesAssumption DEF Compact
    <3>2. ASSUME NEW n \in 0 .. Hi - Lo - 1 PROVE src'[n] = InputByte(Lo + n)
      <4>1. n \in 0 .. SrcWindow - 1 /\ n < Hi - Lo
        BY <3>1
      <4>. QED BY <1>2, <4>1 DEF ReadWindow, ClaimInv
    <3>. QED BY <1>2, <2>1, <2>2, <3>2 DEF WindowInv, ReadWindow
  <2>5. CopiedInv'
    <3>1. Len(Overlapping) \in Nat
      BY <2>1, OverlappingPlans DEF ClaimInv
    <3>2. copied' = 0 /\ 1 .. 0 = {}
      BY <1>2 DEF ReadWindow
    <3>. QED BY <2>2, <3>1, <3>2 DEF CopiedInv
  <2>. QED BY <2>1, <2>3, <2>4, <2>5 DEF ChunkIsTheImage
<1>3. CASE NoWindow
  <2>1. layout' = layout /\ chunk' = chunk /\ stage = "span" /\ stage' = "copy"
    BY <1>3 DEF NoWindow
  <2>2. /\ ChunkCount' = ChunkCount /\ Overlapping' = Overlapping /\ Cs' = Cs
        /\ RealEnd' = RealEnd
    BY <2>1, SameChunk
  <2>3. ClaimInv' /\ WindowInv'
    BY <1>3, <2>1, <2>2 DEF ClaimInv, WindowInv, NoWindow
  <2>4. CopiedInv'
    <3>1. Len(Overlapping) \in Nat
      BY <2>1, OverlappingPlans DEF ClaimInv
    <3>2. copied' = 0 /\ 1 .. 0 = {}
      BY <1>3 DEF NoWindow
    <3>. QED BY <2>2, <3>1, <3>2 DEF CopiedInv
  <2>. QED BY <2>1, <2>3, <2>4 DEF ChunkIsTheImage
<1>4. CASE CopyPlan
  <2>1. /\ layout' = layout /\ chunk' = chunk /\ stage = "copy" /\ stage' = stage /\ src' = src
        /\ window' = window
    BY <1>4 DEF CopyPlan
  <2>2. ChunkCount' = ChunkCount /\ Compact' = Compact /\ Lo' = Lo /\ Hi' = Hi
    BY <2>1, SameChunk
  <2>3. DOMAIN buf' = DOMAIN buf
    BY <1>4 DEF CopyPlan
  <2>4. ClaimInv' /\ WindowInv'
    BY <2>1, <2>2, <2>3 DEF ClaimInv, WindowInv
  <2>. QED BY <1>4, <2>1, <2>4, CopyPlanCopies DEF ChunkIsTheImage
<1>5. CASE ReadFails
  <2>1. layout' = layout /\ chunk' = chunk /\ stage' = "failed" /\ stage # "claim"
    BY <1>5 DEF ReadFails
  <2>2. ChunkCount' = ChunkCount
    BY <2>1, SameChunk
  <2>. QED BY <1>5, <2>1, <2>2 DEF ReadFails, ClaimInv, WindowInv, CopiedInv, ChunkIsTheImage
<1>6. CASE Hash
  <2>1. layout' = layout /\ chunk' = chunk /\ stage' = "hashed" /\ stage = "copy"
    BY <1>6 DEF Hash
  <2>2. ChunkCount' = ChunkCount
    BY <2>1, SameChunk
  <2>3. ClaimInv' /\ WindowInv' /\ CopiedInv'
    BY <1>6, <2>1, <2>2 DEF Hash, ClaimInv, WindowInv, CopiedInv
  <2>. QED BY <1>6, <2>3, HashIsImage
<1>7. CASE Send
  BY <1>7 DEF Send, ClaimInv, WindowInv, CopiedInv, ChunkIsTheImage
<1>8. CASE UNCHANGED assemblyVars
  <2>1. /\ layout' = layout /\ chunk' = chunk /\ stage' = stage /\ buf' = buf /\ src' = src
        /\ window' = window /\ copied' = copied /\ hashed' = hashed
    BY <1>8 DEF assemblyVars
  <2>2. /\ Cs' = Cs /\ Ce' = Ce /\ RealEnd' = RealEnd /\ Real' = Real
        /\ ChunkCount' = ChunkCount /\ Overlapping' = Overlapping
        /\ Compact' = Compact /\ Lo' = Lo /\ Hi' = Hi /\ Image' = Image
    BY <2>1, SameChunk
  <2>. QED BY <2>1, <2>2 DEF ClaimInv, WindowInv, CopiedInv, ChunkIsTheImage
<1>. QED BY <1>1, <1>2, <1>3, <1>4, <1>5, <1>6, <1>7, <1>8
        DEF AssemblyNext, NoMoreChunks

\* The chunks start in a state of the invariant.
LEMMA AssemblyStarts == AssemblyInit => AssemblyInv
BY DEF AssemblyInit, AssemblyInv, ClaimInv, WindowInv, CopiedInv, ChunkIsTheImage

\* For any layout, chunk size, page and window, whatever chunks other
\* producers take: what is digested and handed to the writer is the chunk of
\* the rewritten APK.
THEOREM ChunksAreTheImage == Assembly => []ChunkIsTheImage
<1>1. AssemblyInv => ChunkIsTheImage
  BY DEF AssemblyInv
<1>. QED BY AssemblyStarts, AssemblyStep, <1>1, PTL DEF Assembly

\* For any layout, chunk size and page: a chunk that is claimed has a byte of
\* the entries, and its padding fits the page of zeros.
THEOREM PaddingIsNeverAlone == Assembly => []NoPaddingAlone
<1>1. AssemblyInv => NoPaddingAlone
  <2>. SUFFICES ASSUME AssemblyInv, stage # "claim" PROVE Real > 0 /\ Zeros \in 0 .. Page
    BY DEF NoPaddingAlone
  <2>1. layout \in Plans /\ chunk \in Nat /\ chunk < ChunkCount
    BY DEF AssemblyInv, ClaimInv
  <2>2. Real \in 1 .. ChunkSize /\ Zeros \in 0 .. Page
    BY <2>1, ChunkBounds
  <2>. QED BY <2>2, SizesAssumption
<1>. QED BY AssemblyStarts, AssemblyStep, <1>1, PTL DEF Assembly
-----------------------------------------------------------------------------
\* Sums of numbers.
LEMMA Sums ==
    ASSUME NEW a \in Nat, NEW b \in Nat, NEW d \in Nat
    PROVE  /\ a + b + d \in Nat
           /\ \A v \in Nat : a + b <= d /\ d <= v => a + b <= v
OBVIOUS

\* The length of a field.
LEMMA FieldLens == ASSUME NEW f \in Field PROVE FieldLen(f) \in Nat
<1>1. f.size \in Nat
  BY DEF Field
<1>. QED BY <1>1 DEF FieldLen

\* The loop of ExtraLen.
LEMMA ExtraLenLoop ==
    ASSUME NEW x \in Seq(Field)
    PROVE  \E f \in [0 .. Len(x) -> Nat] :
              /\ ExtraLen(x) = f[Len(x)] /\ f[0] = 0
              /\ \A n \in 1 .. Len(x) : f[n] = f[n - 1] + FieldLen(x[n])
<1>. DEFINE m == Len(x)
            step == [n \in 1 .. m |-> [v \in Nat |-> v + FieldLen(x[n])]]
            Is(f) == f = [n \in 0 .. m |-> IF n = 0 THEN 0 ELSE f[n - 1] + FieldLen(x[n])]
            upto == CHOOSE f : Is(f)
<1>1. m \in Nat /\ \A n \in 1 .. m : FieldLen(x[n]) \in Nat
  BY LenProperties, ElementOfSeq, FieldLens
<1>2. step \in [1 .. m -> [Nat -> Nat]]
  BY <1>1
<1>3. PICK f \in [0 .. m -> Nat] : f[0] = 0 /\ \A n \in 1 .. m : f[n] = step[n][f[n - 1]]
  <2>. DEFINE none == 0
  <2>1. none \in Nat
    OBVIOUS
  <2>. HIDE DEF m, step, none
  <2>2. PICK f : IsLoop(f, Nat, none, m, step)
    BY <1>1, <1>2, <2>1, Loop, Zenon
  <2>. QED BY <2>2 DEF none, IsLoop
<1>4. \A n \in 1 .. m : f[n] = f[n - 1] + FieldLen(x[n])
  <2>. SUFFICES ASSUME NEW n \in 1 .. m PROVE f[n] = f[n - 1] + FieldLen(x[n])
    OBVIOUS
  <2>. HIDE DEF m
  <2>1. n - 1 \in 0 .. m
    BY <1>1
  <2>2. f[n - 1] \in Nat
    BY <2>1
  <2>3. step[n][f[n - 1]] = f[n - 1] + FieldLen(x[n])
    BY <2>2
  <2>. QED BY <1>3, <2>3
<1>5. Is(f)
  <2>1. ASSUME NEW n \in 0 .. m PROVE f[n] = IF n = 0 THEN 0 ELSE f[n - 1] + FieldLen(x[n])
    <3>1. CASE n = 0
      BY <1>3, <3>1
    <3>2. CASE n # 0
      <4>1. n \in 1 .. m
        BY <1>1, <3>2
      <4>. QED BY <1>4, <3>2, <4>1
    <3>. QED BY <3>1, <3>2
  <2>. HIDE DEF m
  <2>. QED BY <2>1
<1>6. Is(upto)
  BY <1>5
<1>. DEFINE U == {n \in 0 .. m : upto[n] = f[n]}
<1>7. 0 \in U
  <2>1. upto[0] = 0 /\ 0 \in 0 .. m
    <3>. HIDE DEF upto, m
    <3>. QED BY <1>1, <1>6
  <2>. HIDE DEF upto, m
  <2>. QED BY <1>3, <2>1
<1>8. ASSUME NEW n \in 0 .. m - 1, n \in U PROVE n + 1 \in U
  <2>. HIDE DEF upto, m
  <2>1. n + 1 \in 1 .. m /\ n + 1 \in 0 .. m /\ n + 1 # 0 /\ (n + 1) - 1 = n /\ upto[n] = f[n]
    BY <1>1, <1>8
  <2>2. upto[n + 1] = upto[n] + FieldLen(x[n + 1])
    BY <1>6, <2>1
  <2>3. f[n + 1] = f[n] + FieldLen(x[n + 1])
    BY <1>4, <2>1
  <2>. QED BY <2>1, <2>2, <2>3
<1>9. upto[m] = f[m]
  <2>. HIDE DEF U, upto, m
  <2>1. 0 .. m \subseteq U
    BY <1>1, <1>7, <1>8, UpTo, Zenon
  <2>. QED BY <1>1, <2>1 DEF U
<1>10. ExtraLen(x) = upto[m]
  BY DEF ExtraLen
<1>. HIDE DEF upto, step
<1>. QED BY <1>3, <1>4, <1>9, <1>10

\* The length of a block of extra fields.
LEMMA ExtraLens ==
    ASSUME NEW x \in Seq(Field)
    PROVE  /\ ExtraLen(x) \in Nat
           /\ \A e \in Field : ExtraLen(Append(x, e)) = ExtraLen(x) + FieldLen(e)
<1>. DEFINE m == Len(x)
<1>1. PICK f \in [0 .. m -> Nat] :
          /\ ExtraLen(x) = f[m] /\ f[0] = 0
          /\ \A n \in 1 .. m : f[n] = f[n - 1] + FieldLen(x[n])
  BY ExtraLenLoop
<1>2. m \in Nat
  BY LenProperties
<1>3. ASSUME NEW e \in Field PROVE ExtraLen(Append(x, e)) = ExtraLen(x) + FieldLen(e)
  <2>. DEFINE t == Append(x, e)
  <2>1. /\ t \in Seq(Field) /\ Len(t) = m + 1 /\ t[m + 1] = e
        /\ \A n \in 1 .. m : t[n] = x[n]
    BY OneMore
  <2>. HIDE DEF t, m
  <2>2. PICK g \in [0 .. Len(t) -> Nat] :
            /\ ExtraLen(t) = g[Len(t)] /\ g[0] = 0
            /\ \A n \in 1 .. Len(t) : g[n] = g[n - 1] + FieldLen(t[n])
    BY <2>1, ExtraLenLoop
  <2>. DEFINE U == {n \in 0 .. m : f[n] = g[n]}
  <2>3. 0 \in U
    BY <1>1, <1>2, <2>2
  <2>4. ASSUME NEW n \in 0 .. m - 1, n \in U PROVE n + 1 \in U
    <3>1. /\ n + 1 \in 1 .. m /\ n + 1 \in 1 .. Len(t) /\ n + 1 \in 0 .. m /\ (n + 1) - 1 = n
          /\ f[n] = g[n]
      BY <1>2, <2>1, <2>4
    <3>2. f[n + 1] = f[n] + FieldLen(x[n + 1])
      BY <1>1, <3>1
    <3>3. g[n + 1] = g[n] + FieldLen(t[n + 1])
      BY <2>2, <3>1
    <3>4. t[n + 1] = x[n + 1]
      BY <2>1, <3>1
    <3>. QED BY <3>1, <3>2, <3>3, <3>4
  <2>5. f[m] = g[m]
    <3>. HIDE DEF U
    <3>1. 0 .. m \subseteq U
      BY <1>2, <2>3, <2>4, UpTo, Zenon
    <3>. QED BY <1>2, <3>1 DEF U
  <2>6. m + 1 \in 1 .. Len(t) /\ (m + 1) - 1 = m
    BY <1>2, <2>1
  <2>7. g[m + 1] = g[m] + FieldLen(e)
    BY <2>1, <2>2, <2>6
  <2>8. ExtraLen(t) = ExtraLen(x) + FieldLen(e)
    BY <1>1, <2>1, <2>2, <2>5, <2>7
  <2>. QED BY <2>8 DEF t
<1>. QED BY <1>1, <1>2, <1>3
-----------------------------------------------------------------------------
(* Entries and their extra fields.                                         *)

\* The lengths and offsets of an entry.
LEMMA EntryLens ==
    ASSUME NEW e \in CdEntry
    PROVE  /\ e.off \in Nat /\ e.name \in Nat /\ e.extra \in Seq(Field)
           /\ e.policy \in {"output", "skip", "gap"} /\ e.header \in BOOLEAN
           /\ ExtraLen(e.extra) \in Nat
           /\ PrefixLen(e) \in Nat /\ PrefixLen(e) > 0 /\ PrefixLen(e) >= LfhLen
           /\ DataOff(e) = e.off + PrefixLen(e) /\ DataOff(e) \in Nat /\ DataLen(e) \in Nat
           /\ page \in Nat => Required(e) \in Nat \ {0}
<1>1. /\ e.off \in Nat /\ e.name \in Nat /\ e.extra \in Seq(Field) /\ e.comp \in Nat
      /\ e.policy \in {"output", "skip", "gap"} /\ e.header \in BOOLEAN
  BY DEF CdEntry
<1>2. ExtraLen(e.extra) \in Nat
  BY <1>1, ExtraLens
<1>3. LfhLen \in Nat \ {0}
  BY ConstantsAssumption
<1>4. /\ PrefixLen(e) \in Nat /\ PrefixLen(e) > 0 /\ PrefixLen(e) >= LfhLen
  BY <1>1, <1>2, <1>3 DEF PrefixLen
<1>5. DataOff(e) = e.off + PrefixLen(e) /\ DataOff(e) \in Nat
  BY <1>1, <1>4 DEF DataOff
<1>6. DataLen(e) \in Nat
  <2>. DEFINE d == CASE e.descriptor = "none" -> 0
                     [] e.descriptor = "signed" /\ e.comp = e.real -> 16
                     [] OTHER -> 12
  <2>1. d \in {0, 12, 16}
    OBVIOUS
  <2>2. DataLen(e) = e.comp + d
    BY DEF DataLen
  <2>. HIDE DEF d
  <2>. QED BY <1>1, <2>1, <2>2
<1>7. page \in Nat => Required(e) \in Nat \ {0}
  BY DEF Required
<1>. QED BY <1>1, <1>2, <1>4, <1>5, <1>6, <1>7

\* The alignment a block declares fits in 16 bits.
LEMMA DeclaredIsShort ==
    ASSUME NEW x \in Seq(Field)
    PROVE  Declared(x) \in 0 .. U16 - 1
<1>. DEFINE F == {n \in DOMAIN x : x[n].id = "align" /\ x[n].size >= 2}
<1>1. U16 \in Nat \ {0}
  BY ConstantsAssumption
<1>2. CASE F = {}
  BY <1>1, <1>2 DEF Declared
<1>3. CASE F # {}
  <2>. DEFINE n == CHOOSE a \in F : \A b \in F : a <= b
  <2>1. F \in SUBSET Nat /\ F \in SUBSET (1 .. Len(x))
    BY LenProperties
  <2>2. \E a \in F : \A b \in F : a <= b
    <3>. HIDE DEF F
    <3>. QED BY <1>3, <2>1, LeastNumber
  <2>3. n \in F
    <3>. HIDE DEF F
    <3>. QED BY <2>2
  <2>4. x[n] \in Field
    <3>1. n \in 1 .. Len(x)
      BY <2>1, <2>3
    <3>. HIDE DEF n
    <3>. QED BY <3>1, ElementOfSeq
  <2>5. Declared(x) = x[n].value
    BY <1>3 DEF Declared
  <2>. HIDE DEF n
  <2>. QED BY <2>4, <2>5 DEF Field
<1>. QED BY <1>2, <1>3

\* The fields that stay.
LEMMA KeptFields ==
    ASSUME NEW x \in Seq(Field)
    PROVE  /\ Kept(x) \in Seq(Field)
           /\ \A j \in 1 .. Len(Kept(x)) : Kept(x)[j] \in Field /\ Stays(Kept(x)[j])
<1>. DEFINE I == {n \in DOMAIN x : Stays(x[n])}
<1>1. I \in SUBSET (1 .. Len(x))
  BY LenProperties
<1>2. Kept(x) = Picked(x, I)
  BY DEF Kept
<1>3. \A n \in I : Stays(x[n])
  OBVIOUS
<1>. HIDE DEF I
<1>4. Picked(x, I) \in Seq(Field)
  BY <1>1, PickedPlaces
<1>5. PICK g : Picks(g, Picked(x, I), x, I)
  BY <1>1, PickedPlaces
<1>6. ASSUME NEW j \in 1 .. Len(Picked(x, I)) PROVE Stays(Picked(x, I)[j])
  BY <1>3, <1>5 DEF Picks
<1>. QED BY <1>2, <1>4, <1>6, ElementOfSeq

\* The padding brings a place to a multiple of the alignment.
LEMMA PadLands ==
    ASSUME NEW a \in Nat \ {0}, NEW n \in Nat
    PROVE  PadTo(a, n) \in Nat /\ (n + PadTo(a, n)) % a = 0
<1>. DEFINE q == n \div a
            r == n % a
<1>1. q \in Nat /\ r \in 0 .. a - 1 /\ n = a * q + r
  OBVIOUS
<1>2. PadTo(a, n) = (a - r) % a
  BY DEF PadTo
<1>. HIDE DEF q, r
<1>3. \A v \in Nat : (a * v) % a = 0
  <2>. SUFFICES ASSUME NEW v \in Nat PROVE (a * v) % a = 0
    OBVIOUS
  <2>1. 0 \in 0 .. a - 1 /\ a * v + 0 = a * v
    OBVIOUS
  <2>2. (a * v + 0) % a = 0
    BY <2>1, Division
  <2>. QED BY <2>1, <2>2
<1>4. CASE r = 0
  <2>1. a - r = a * 1
    BY <1>4
  <2>2. PadTo(a, n) = 0
    BY <1>2, <1>3, <2>1
  <2>3. n + PadTo(a, n) = a * q
    BY <1>1, <1>4, <2>2
  <2>4. (a * q) % a = 0
    BY <1>1, <1>3
  <2>. QED BY <2>2, <2>3, <2>4
<1>5. CASE r # 0
  <2>1. a * 0 + (a - r) = a - r /\ a - r \in 0 .. a - 1
    BY <1>1, <1>5
  <2>2. (a * 0 + (a - r)) % a = a - r
    BY <2>1, Division
  <2>3. PadTo(a, n) = a - r
    BY <1>2, <2>1, <2>2
  <2>4. n + (a - r) = a * (q + 1)
    <3>1. a * (q + 1) = a * q + a /\ a * q \in Nat
      BY <1>1
    <3>. QED BY <1>1, <3>1
  <2>5. (a * (q + 1)) % a = 0
    BY <1>1, <1>3
  <2>. QED BY <2>1, <2>3, <2>4, <2>5
<1>. QED BY <1>4, <1>5

\* The alignment that is used.
LEMMA AlignFacts ==
    ASSUME NEW e \in CdEntry, page \in Nat
    PROVE  /\ Align(e) \in Nat \ {0} /\ Align(e) = Larger(Required(e), Declared(e.extra))
           /\ Larger(Required(e), Align(e) % U16) = Align(e) /\ Align(e) % U16 \in 0 .. U16 - 1
<1>. DEFINE q == Required(e)
            d == Declared(e.extra)
<1>1. q \in Nat \ {0} /\ d \in 0 .. U16 - 1 /\ U16 \in Nat \ {0}
  BY EntryLens, DeclaredIsShort, ConstantsAssumption
<1>2. Align(e) = Larger(q, d)
  BY DEF Align
<1>. HIDE DEF q, d
<1>3. CASE q >= d
  <2>1. Align(e) = q
    BY <1>2, <1>3 DEF Larger
  <2>2. q % U16 \in 0 .. U16 - 1 /\ q % U16 <= q
    <3>. DEFINE v == q \div U16
                r == q % U16
    <3>1. v \in Nat /\ r \in 0 .. U16 - 1 /\ q = U16 * v + r
      BY <1>1
    <3>. HIDE DEF v, r
    <3>2. U16 * v \in Nat
      BY <1>1, <3>1
    <3>3. r <= q
      BY <1>1, <3>1, <3>2
    <3>. QED BY <3>1, <3>3 DEF r
  <2>3. Larger(q, q % U16) = q
    <3>. DEFINE r == q % U16
    <3>1. r \in Int /\ r <= q
      BY <2>2
    <3>. HIDE DEF r
    <3>2. Larger(q, r) = q
      BY <1>1, <3>1 DEF Larger
    <3>. QED BY <3>2 DEF r
  <2>. QED BY <1>1, <1>2, <2>1, <2>2, <2>3 DEF q, d
<1>4. CASE ~(q >= d)
  <2>1. Align(e) = d
    BY <1>2, <1>4 DEF Larger
  <2>2. U16 * 0 + d = d /\ d \in Nat \ {0}
    BY <1>1, <1>4
  <2>3. (U16 * 0 + d) % U16 = d
    BY <1>1, Division
  <2>4. d % U16 = d
    BY <2>2, <2>3
  <2>5. Larger(q, d) = d
    BY <1>4 DEF Larger
  <2>. QED BY <1>1, <1>2, <2>1, <2>2, <2>4, <2>5 DEF q, d
<1>. QED BY <1>3, <1>4

\* The extra fields of the new header.
LEMMA NewExtraFacts ==
    ASSUME NEW e \in CdEntry, page \in Nat, NEW start \in Nat
    PROVE  /\ NewExtra(e, start) \in Seq(Field) /\ ExtraLen(NewExtra(e, start)) \in Nat
           /\ Required(e) > 1 => (start + ExtraLen(NewExtra(e, start))) % Align(e) = 0
<1>1. e.extra \in Seq(Field) /\ ExtraLen(e.extra) \in Nat /\ Required(e) \in Nat
  BY EntryLens
<1>2. CASE ~(Required(e) > 1)
  BY <1>1, <1>2 DEF NewExtra
<1>3. CASE Required(e) > 1
  <2>. DEFINE a == Align(e)
              u == Kept(e.extra)
              n == start + ExtraLen(u) + 6
              f == AlignField(a, PadTo(a, n))
  <2>1. NewExtra(e, start) = Append(u, f)
    BY <1>3 DEF NewExtra, AligningExtra
  <2>2. a \in Nat \ {0} /\ a % U16 \in 0 .. U16 - 1
    BY AlignFacts
  <2>3. u \in Seq(Field)
    BY <1>1, KeptFields
  <2>4. ExtraLen(u) \in Nat
    BY <2>3, ExtraLens
  <2>5. n \in Nat
    BY <2>4
  <2>. HIDE DEF a, u, n
  <2>6. PadTo(a, n) \in Nat /\ (n + PadTo(a, n)) % a = 0
    BY <2>2, <2>5, PadLands
  <2>7. f \in Field
    BY <2>2, <2>6 DEF Field, AlignField
  <2>8. FieldLen(f) = 4 + (2 + PadTo(a, n))
    <3>1. f.id = "align" /\ f.size = 2 + PadTo(a, n)
      BY DEF AlignField
    <3>. QED BY <3>1 DEF FieldLen
  <2>. HIDE DEF f
  <2>9. Append(u, f) \in Seq(Field) /\ ExtraLen(Append(u, f)) = ExtraLen(u) + FieldLen(f)
    BY <2>3, <2>7, OneMore, ExtraLens
  <2>10. start + ExtraLen(Append(u, f)) = n + PadTo(a, n)
    BY <2>4, <2>6, <2>8, <2>9 DEF n
  <2>11. ExtraLen(Append(u, f)) \in Nat
    BY <2>4, <2>6, <2>8, <2>9
  <2>. QED BY <2>1, <2>6, <2>9, <2>10, <2>11 DEF a
<1>. QED BY <1>2, <1>3

\* A block that was aligned keeps its fields, declares the alignment, and is
\* built again as it is.
LEMMA NewExtraAgain ==
    ASSUME NEW e \in CdEntry, page \in Nat, NEW start \in Nat, NEW m \in CdEntry,
           m.kind = e.kind, m.extra = NewExtra(e, start)
    PROVE  NewExtra(m, start) = m.extra
<1>1. Required(m) = Required(e) /\ e.extra \in Seq(Field) /\ Required(e) \in Nat
  BY EntryLens DEF Required
<1>2. CASE ~(Required(e) > 1)
  BY <1>1, <1>2 DEF NewExtra
<1>3. CASE Required(e) > 1
  <2>. DEFINE a == Align(e)
              u == Kept(e.extra)
              n == start + ExtraLen(u) + 6
              f == AlignField(a, PadTo(a, n))
              t == Append(u, f)
              L == Len(u)
  <2>1. NewExtra(e, start) = t
    BY <1>3 DEF NewExtra, AligningExtra
  <2>2. /\ a \in Nat \ {0} /\ a % U16 \in 0 .. U16 - 1
        /\ Larger(Required(e), a % U16) = a
    BY AlignFacts
  <2>3. u \in Seq(Field) /\ L \in Nat /\ \A j \in 1 .. L : u[j] \in Field /\ Stays(u[j])
    BY <1>1, KeptFields, LenProperties
  <2>4. n \in Nat /\ PadTo(a, n) \in Nat
    <3>1. n \in Nat
      BY <2>3, ExtraLens
    <3>. HIDE DEF a, n
    <3>. QED BY <2>2, <3>1, PadLands
  <2>. HIDE DEF a, u, n
  <2>5. f \in Field /\ f.id = "align" /\ f.size = 2 + PadTo(a, n) /\ f.value = a % U16
    BY <2>2, <2>4 DEF Field, AlignField
  <2>. HIDE DEF f
  <2>6. /\ t \in Seq(Field) /\ Len(t) = L + 1 /\ t[L + 1] = f
        /\ \A j \in 1 .. L : t[j] = u[j]
    BY <2>3, <2>5, OneMore
  <2>. HIDE DEF t, L
  <2>7. DOMAIN t = 1 .. L + 1
    BY <2>6, LenProperties
  <2>8. \A j \in 1 .. L + 1 : j # L + 1 => j \in 1 .. L
    BY <2>3
  <2>9. {j \in DOMAIN t : Stays(t[j])} = 1 .. L
    <3>1. ~Stays(f)
      BY <2>5 DEF Stays
    <3>2. \A j \in 1 .. L : Stays(t[j]) /\ j \in 1 .. L + 1
      BY <2>3, <2>6
    <3>. QED BY <2>6, <2>7, <2>8, <3>1, <3>2
  <2>10. Kept(t) = u
    <3>1. Kept(t) = Picked(t, 1 .. L)
      BY <2>9 DEF Kept
    <3>2. Picked(Append(u, f), 1 .. Len(u)) = u
      BY <2>3, <2>5, PickedMost
    <3>. QED BY <3>1, <3>2 DEF t, L
  <2>11. Declared(t) = a % U16
    <3>. DEFINE F == {j \in DOMAIN t : t[j].id = "align" /\ t[j].size >= 2}
    <3>1. \A j \in 1 .. L : t[j].id # "align"
      BY <2>3, <2>6 DEF Stays
    <3>2. F = {L + 1}
      <4>1. f.size >= 2 /\ L + 1 \in 1 .. L + 1
        BY <2>3, <2>4, <2>5
      <4>. QED BY <2>5, <2>6, <2>7, <2>8, <3>1, <4>1
    <3>3. Declared(t) = t[CHOOSE j \in F : \A b \in F : j <= b].value
      BY <3>2 DEF Declared
    <3>4. (CHOOSE j \in F : \A b \in F : j <= b) = L + 1
      <4>1. L + 1 <= L + 1
        BY <2>3
      <4>. HIDE DEF F
      <4>. QED BY <3>2, <4>1
    <3>. QED BY <2>5, <2>6, <3>3, <3>4
  <2>12. Align(m) = a
    BY <1>1, <2>1, <2>2, <2>11 DEF Align
  <2>13. NewExtra(m, start) = Append(u, AlignField(a, PadTo(a, start + ExtraLen(u) + 6)))
    BY <1>1, <1>3, <2>1, <2>10, <2>12 DEF NewExtra, AligningExtra
  <2>. QED BY <2>1, <2>13 DEF t, f, n
<1>. QED BY <1>2, <1>3

\* An entry that gets a new place and new extra fields.
LEMMA MovedFacts ==
    ASSUME NEW e \in CdEntry, NEW p, p.off \in Nat, p.extra \in Seq(Field)
    PROVE  /\ Moved(e, p) \in CdEntry
           /\ Moved(e, p).off = p.off /\ Moved(e, p).extra = p.extra
           /\ Moved(e, p).kind = e.kind /\ Moved(e, p).policy = e.policy
           /\ Moved(e, p).header = e.header /\ Moved(e, p).name = e.name
           /\ DataLen(Moved(e, p)) = DataLen(e) /\ Required(Moved(e, p)) = Required(e)
           /\ DataOff(Moved(e, p)) = p.off + (LfhLen + e.name + ExtraLen(p.extra))
           /\ p.off = e.off /\ p.extra = e.extra => Moved(e, p) = e
<1>. DEFINE m == Moved(e, p)
<1>1. /\ e.name \in Nat /\ e.comp \in Nat /\ e.real \in Nat
      /\ e.descriptor \in {"none", "plain", "signed"} /\ e.kind \in {"stored", "so", "deflated", "dir"}
      /\ e.policy \in {"output", "skip", "gap"} /\ e.header \in BOOLEAN
  BY DEF CdEntry
<1>2. m \in CdEntry
  BY <1>1 DEF CdEntry, Moved
<1>3. /\ m.off = p.off /\ m.extra = p.extra /\ m.kind = e.kind /\ m.policy = e.policy
      /\ m.header = e.header /\ m.name = e.name /\ m.comp = e.comp /\ m.real = e.real
      /\ m.descriptor = e.descriptor
  BY DEF Moved
<1>4. p.off = e.off /\ p.extra = e.extra => m = e
  BY DEF Moved, CdEntry
<1>. HIDE DEF m
<1>5. DataLen(m) = DataLen(e)
  BY <1>3 DEF DataLen
<1>6. Required(m) = Required(e)
  BY <1>3 DEF Required
<1>7. DataOff(m) = p.off + (LfhLen + e.name + ExtraLen(p.extra))
  BY <1>3 DEF DataOff, PrefixLen
<1>. QED BY <1>2, <1>3, <1>4, <1>5, <1>6, <1>7 DEF m
-----------------------------------------------------------------------------
(* What the plans are while they are made.                                 *)

\* A plan.
PlanType == [idx : Nat, src : Nat, len : Nat, off : Nat, hdr : Nat, extra : Seq(Field)]

\* The type invariant; the loop never reads behind the entries section.
PlanTypeInv ==
    /\ apk \in [entries : Seq(CdEntry), end : Nat] /\ page \in Nat /\ round \in Nat
    /\ pc \in {"order", "entry", "done", "failed"}
    /\ left \in SUBSET (1 .. Len(apk.entries))
    /\ cursor \in Nat /\ consumed \in Nat /\ consumed <= apk.end /\ dropped \in Nat

\* The plans ps lie one behind the other and end at c.
Tiled(ps, c) ==
    /\ \A q \in 1 .. Len(ps) :
          /\ ps[q].hdr + ps[q].len > 0
          /\ ps[q].off = IF q = 1 THEN 0 ELSE ps[q - 1].off + ps[q - 1].hdr + ps[q - 1].len
    /\ c = IF Len(ps) = 0 THEN 0
           ELSE ps[Len(ps)].off + ps[Len(ps)].hdr + ps[Len(ps)].len

\* Byte n is not to be copied from entry e.
Drops(e, n) ==
    \/ e.policy = "output" /\ e.off <= n /\ n < DataOff(e)
    \/ e.policy = "skip" /\ e.off <= n /\ n < DataOff(e) + DataLen(e)

\* The plans ps copy the input up to c, once and in order, but for what the
\* entries in done do not keep.
CopyOnce(ps, c, done) ==
    /\ \A q \in 1 .. Len(ps) : ps[q].src + ps[q].len <= c
    /\ \A q, r \in 1 .. Len(ps) : q < r => ps[q].src + ps[q].len <= ps[r].src
    /\ \A i \in done : apk.entries[i].policy # "gap" =>
          DataOff(apk.entries[i]) + DataLen(apk.entries[i]) <= c
    /\ \A n \in Nat :
          (\E q \in 1 .. Len(ps) : ps[q].src <= n /\ n < ps[q].src + ps[q].len)
              <=> n < c /\ \A i \in done : ~Drops(apk.entries[i], n)

\* Plan p is the one for entry e.
PlanFor(p, e) ==
    /\ e.policy = "output" /\ e.header
    /\ p.extra = NewExtra(e, p.off + LfhLen + e.name) /\ ExtraLen(p.extra) < U16
    /\ p.hdr = LfhLen + e.name + ExtraLen(p.extra) /\ p.len = DataLen(e)

\* The entries in done that are kept have one plan each.
Placed(ps, done) ==
    /\ \A q \in 1 .. Len(ps) :
          ps[q].idx # 0 => ps[q].idx \in done /\ PlanFor(ps[q], apk.entries[ps[q].idx])
    /\ \A q, r \in 1 .. Len(ps) : ps[q].idx # 0 /\ ps[q].idx = ps[r].idx => q = r
    /\ \A i \in done : apk.entries[i].policy = "output" =>
          \E q \in 1 .. Len(ps) : ps[q].idx = i

\* The plans ps for the entries in done: c is the end of the output, d that
\* of the input so far.
Planning(ps, c, d, done) ==
    ps \in Seq(PlanType) /\ Tiled(ps, c) /\ CopyOnce(ps, d, done) /\ Placed(ps, done)

\* The fields of a plan.
LEMMA PlanFields ==
    ASSUME NEW p \in PlanType
    PROVE  /\ p.idx \in Nat /\ p.src \in Nat /\ p.len \in Nat /\ p.off \in Nat /\ p.hdr \in Nat
           /\ p.extra \in Seq(Field)
BY DEF PlanType

\* One more plan.
LEMMA PlanAdded ==
    ASSUME NEW ps \in Seq(PlanType), NEW p \in PlanType
    PROVE  /\ ps \o <<p>> \in Seq(PlanType) /\ Len(ps \o <<p>>) = Len(ps) + 1 /\ Len(ps) \in Nat
           /\ \A q \in 1 .. Len(ps) : (ps \o <<p>>)[q] = ps[q]
           /\ (ps \o <<p>>)[Len(ps) + 1] = p
           /\ \A q \in 1 .. Len(ps) + 1 : q # Len(ps) + 1 => q \in 1 .. Len(ps)
<1>. HIDE DEF PlanType
<1>1. Append(ps, p) = ps \o <<p>>
  BY AppendIsConcat
<1>2. /\ Append(ps, p) \in Seq(PlanType) /\ Len(Append(ps, p)) = Len(ps) + 1
      /\ Len(ps) \in Nat /\ \A i \in 1 .. Len(ps) : Append(ps, p)[i] = ps[i]
      /\ Append(ps, p)[Len(ps) + 1] = p
  BY OneMore
<1>. QED BY <1>1, <1>2

\* A plan at the end goes on where the others end.
LEMMA TiledMore ==
    ASSUME NEW ps \in Seq(PlanType), NEW p \in PlanType, NEW c \in Nat, Tiled(ps, c),
           p.off = c, p.hdr + p.len > 0
    PROVE  Tiled(ps \o <<p>>, c + p.hdr + p.len)
<1>. DEFINE t == ps \o <<p>>
            m == Len(ps)
<1>1. /\ Len(t) = m + 1 /\ m \in Nat /\ \A q \in 1 .. m : t[q] = ps[q]
      /\ t[m + 1] = p /\ \A q \in 1 .. m + 1 : q # m + 1 => q \in 1 .. m
  BY PlanAdded
<1>. HIDE DEF t
<1>2. ASSUME NEW q \in 1 .. m + 1
      PROVE  /\ t[q].hdr + t[q].len > 0
             /\ t[q].off = IF q = 1 THEN 0 ELSE t[q - 1].off + t[q - 1].hdr + t[q - 1].len
  <2>1. CASE q = m + 1
    <3>1. CASE m = 0
      BY <1>1, <2>1, <3>1 DEF Tiled
    <3>2. CASE m # 0
      <4>1. q - 1 = m /\ m \in 1 .. m /\ q # 1
        BY <1>1, <2>1, <3>2
      <4>2. c = ps[m].off + ps[m].hdr + ps[m].len
        BY <3>2 DEF Tiled
      <4>. QED BY <1>1, <2>1, <4>1, <4>2
    <3>. QED BY <3>1, <3>2
  <2>2. CASE q # m + 1
    <3>1. q \in 1 .. m
      BY <1>1, <2>2
    <3>2. q # 1 => q - 1 \in 1 .. m
      BY <1>1, <3>1
    <3>3. /\ ps[q].hdr + ps[q].len > 0
          /\ ps[q].off = IF q = 1 THEN 0 ELSE ps[q - 1].off + ps[q - 1].hdr + ps[q - 1].len
      BY <3>1 DEF Tiled
    <3>. QED BY <1>1, <3>1, <3>2, <3>3
  <2>. QED BY <2>1, <2>2
<1>3. Len(t) # 0 /\ c + p.hdr + p.len = t[Len(t)].off + t[Len(t)].hdr + t[Len(t)].len
  BY <1>1
<1>. HIDE DEF m
<1>4. Tiled(t, c + p.hdr + p.len)
  BY <1>1, <1>2, <1>3 DEF Tiled
<1>. QED BY <1>4 DEF t

\* A gap is copied as it is.
LEMMA GapPlanned ==
    ASSUME NEW ps, NEW c \in Nat, NEW d \in Nat, NEW done, Planning(ps, c, d, done),
           apk.entries \in Seq(CdEntry), done \in SUBSET (1 .. Len(apk.entries)),
           NEW to \in Nat, to > d
    PROVE  Planning(ps \o <<[idx |-> 0, src |-> d, len |-> to - d, off |-> c, hdr |-> 0,
                             extra |-> <<>>]>>, c + (to - d), to, done)
<1>. DEFINE p == [idx |-> 0, src |-> d, len |-> to - d, off |-> c, hdr |-> 0, extra |-> <<>>]
            t == ps \o <<p>>
            m == Len(ps)
<1>1. p \in PlanType /\ p.idx = 0 /\ p.src = d /\ p.len = to - d /\ p.off = c /\ p.hdr = 0
  <2>1. <<>> \in Seq(Field) /\ to - d \in Nat
    BY EmptySeq
  <2>. QED BY <2>1 DEF PlanType
<1>. HIDE DEF p
<1>2. ps \in Seq(PlanType)
  BY DEF Planning
<1>3. /\ t \in Seq(PlanType) /\ Len(t) = m + 1 /\ m \in Nat /\ \A q \in 1 .. m : t[q] = ps[q]
      /\ t[m + 1] = p /\ \A q \in 1 .. m + 1 : q # m + 1 => q \in 1 .. m
      /\ m + 1 \in 1 .. m + 1 /\ \A q \in 1 .. m : q \in 1 .. m + 1 /\ q < m + 1
  BY <1>1, <1>2, PlanAdded
<1>4. Tiled(t, c + (to - d))
  <2>1. Tiled(ps, c) /\ p.hdr + p.len > 0 /\ c + p.hdr + p.len = c + (to - d)
    BY <1>1 DEF Planning
  <2>2. Tiled(t, c + p.hdr + p.len)
    BY <1>1, <1>2, <2>1, TiledMore
  <2>. QED BY <2>1, <2>2
<1>. HIDE DEF t, m
<1>5. \A q \in 1 .. m : /\ ps[q].src \in Nat /\ ps[q].len \in Nat
                        /\ ps[q].src + ps[q].len <= d
  <2>1. \A q \in 1 .. m : ps[q] \in PlanType
    BY <1>2, ElementOfSeq DEF m
  <2>2. \A q \in 1 .. m : ps[q].src + ps[q].len <= d
    BY DEF m, Planning, CopyOnce
  <2>. QED BY <2>1, <2>2, PlanFields
<1>6. CopyOnce(t, to, done)
  <2>1. ASSUME NEW q \in 1 .. Len(t) PROVE t[q].src + t[q].len <= to
    <3>1. CASE q = m + 1
      <4>1. t[q] = p /\ p.src + p.len = to
        BY <1>1, <1>3, <3>1
      <4>. QED BY <4>1
    <3>2. CASE q # m + 1
      <4>1. q \in 1 .. m /\ t[q] = ps[q] /\ d <= to
        BY <1>3, <3>2
      <4>. QED BY <1>5, <4>1, Sums
    <3>. QED BY <3>1, <3>2
  <2>2. ASSUME NEW q \in 1 .. Len(t), NEW r \in 1 .. Len(t), q < r
        PROVE  t[q].src + t[q].len <= t[r].src
    <3>1. q \in 1 .. m
      BY <1>3, <2>2
    <3>2. CASE r = m + 1
      BY <1>1, <1>3, <1>5, <3>1, <3>2
    <3>3. CASE r # m + 1
      <4>1. r \in 1 .. m
        BY <1>3, <3>3
      <4>2. ps[q].src + ps[q].len <= ps[r].src
        BY <2>2, <3>1, <4>1 DEF Planning, CopyOnce, m
      <4>. QED BY <1>3, <3>1, <4>1, <4>2
    <3>. QED BY <3>2, <3>3
  <2>3. ASSUME NEW i \in done, apk.entries[i].policy # "gap"
        PROVE  /\ DataOff(apk.entries[i]) + DataLen(apk.entries[i]) <= d
               /\ DataOff(apk.entries[i]) \in Nat /\ DataLen(apk.entries[i]) \in Nat
    <3>1. apk.entries[i] \in CdEntry
      BY ElementOfSeq
    <3>. QED BY <2>3, <3>1, EntryLens DEF Planning, CopyOnce
  <2>4. ASSUME NEW n \in Nat
        PROVE  (\E q \in 1 .. Len(t) : t[q].src <= n /\ n < t[q].src + t[q].len)
                   <=> n < to /\ \A i \in done : ~Drops(apk.entries[i], n)
    <3>1. (\E q \in 1 .. m : ps[q].src <= n /\ n < ps[q].src + ps[q].len)
              <=> n < d /\ \A i \in done : ~Drops(apk.entries[i], n)
      BY DEF Planning, CopyOnce, m
    <3>2. (\E q \in 1 .. Len(t) : t[q].src <= n /\ n < t[q].src + t[q].len)
              <=> \/ \E q \in 1 .. m : ps[q].src <= n /\ n < ps[q].src + ps[q].len
                  \/ d <= n /\ n < to
      <4>1. p.src = d /\ p.src + p.len = to
        BY <1>1
      <4>2. ASSUME NEW q \in 1 .. Len(t)
            PROVE  t[q] = p \/ (q \in 1 .. m /\ t[q] = ps[q])
        BY <1>3
      <4>3. m + 1 \in 1 .. Len(t) /\ t[m + 1] = p /\ \A q \in 1 .. m : q \in 1 .. Len(t) /\ t[q] = ps[q]
        BY <1>3
      <4>. QED BY <4>1, <4>2, <4>3
    <3>3. ~(n < d) => \A i \in done : ~Drops(apk.entries[i], n)
      BY <2>3 DEF Drops
    <3>. DEFINE A == \E q \in 1 .. m : ps[q].src <= n /\ n < ps[q].src + ps[q].len
                B == \A i \in done : ~Drops(apk.entries[i], n)
                X == \E q \in 1 .. Len(t) : t[q].src <= n /\ n < t[q].src + t[q].len
    <3>. HIDE DEF A, B, X
    <3>4. (A <=> n < d /\ B) /\ (X <=> A \/ (d <= n /\ n < to)) /\ (~(n < d) => B)
      BY <3>1, <3>2, <3>3 DEF A, B, X
    <3>5. X <=> n < to /\ B
      BY <3>4
    <3>. QED BY <3>5 DEF X, B
  <2>5. \A i \in done : apk.entries[i].policy # "gap" =>
            DataOff(apk.entries[i]) + DataLen(apk.entries[i]) <= to
    BY <2>3
  <2>. QED BY <2>1, <2>2, <2>4, <2>5 DEF CopyOnce
<1>7. Placed(t, done)
  <2>1. Placed(ps, done)
    BY DEF Planning
  <2>2. \A q \in 1 .. Len(t) : t[q].idx # 0 => q \in 1 .. m /\ t[q] = ps[q]
    BY <1>1, <1>3
  <2>3. \A q \in 1 .. Len(t) :
            t[q].idx # 0 => t[q].idx \in done /\ PlanFor(t[q], apk.entries[t[q].idx])
    BY <2>1, <2>2 DEF Placed, m
  <2>4. \A q, r \in 1 .. Len(t) : t[q].idx # 0 /\ t[q].idx = t[r].idx => q = r
    BY <2>1, <2>2 DEF Placed, m
  <2>5. \A i \in done : apk.entries[i].policy = "output" => \E q \in 1 .. Len(t) : t[q].idx = i
    BY <1>3, <2>1 DEF Placed, m
  <2>. QED BY <2>3, <2>4, <2>5 DEF Placed
<1>8. Planning(t, c + (to - d), to, done)
  BY <1>3, <1>4, <1>6, <1>7 DEF Planning
<1>. QED BY <1>8 DEF t, p

\* An entry that is dropped from the directory alone.
LEMMA GapEntryPlanned ==
    ASSUME NEW ps, NEW c \in Nat, NEW d \in Nat, NEW done, Planning(ps, c, d, done),
           NEW i, apk.entries[i].policy = "gap"
    PROVE  Planning(ps, c, d, done \cup {i})
<1>1. \A n : ~Drops(apk.entries[i], n)
  BY DEF Drops
<1>2. CopyOnce(ps, d, done \cup {i})
  <2>1. CopyOnce(ps, d, done)
    BY DEF Planning
  <2>2. ASSUME NEW n \in Nat
        PROVE  (\A j \in done \cup {i} : ~Drops(apk.entries[j], n))
                   <=> (\A j \in done : ~Drops(apk.entries[j], n))
    BY <1>1
  <2>. QED BY <2>1, <2>2 DEF CopyOnce
<1>3. Placed(ps, done \cup {i})
  BY DEF Planning, Placed
<1>. QED BY <1>2, <1>3 DEF Planning

\* A record that is skipped: nothing of it is copied.
LEMMA SkipPlanned ==
    ASSUME NEW ps, NEW c \in Nat, NEW d \in Nat, NEW done, Planning(ps, c, d, done),
           NEW i, apk.entries[i] \in CdEntry, apk.entries[i].policy = "skip",
           apk.entries[i].off = d,
           apk.entries \in Seq(CdEntry), done \in SUBSET (1 .. Len(apk.entries))
    PROVE  Planning(ps, c, DataOff(apk.entries[i]) + DataLen(apk.entries[i]), done \cup {i})
<1>. DEFINE e == apk.entries[i]
            to == DataOff(e) + DataLen(e)
<1>1. DataOff(e) \in Nat /\ DataLen(e) \in Nat /\ to \in Nat /\ d <= to
  <2>1. e \in CdEntry /\ e.off = d
    OBVIOUS
  <2>. HIDE DEF e
  <2>2. PrefixLen(e) \in Nat /\ DataOff(e) = d + PrefixLen(e) /\ DataLen(e) \in Nat
    BY <2>1, EntryLens
  <2>. QED BY <2>2
<1>2. \A n : Drops(e, n) <=> d <= n /\ n < to
  BY DEF Drops
<1>3. ps \in Seq(PlanType) /\ \A q \in 1 .. Len(ps) : ps[q].src \in Nat /\ ps[q].len \in Nat
  <2>1. ps \in Seq(PlanType)
    BY DEF Planning
  <2>2. \A q \in 1 .. Len(ps) : ps[q] \in PlanType
    BY <2>1, ElementOfSeq
  <2>. QED BY <2>1, <2>2, PlanFields
<1>4. CopyOnce(ps, d, done)
  BY DEF Planning
<1>5. \A q \in 1 .. Len(ps) : ps[q].src + ps[q].len <= to
  <2>1. \A q \in 1 .. Len(ps) : ps[q].src + ps[q].len <= d
    BY <1>4 DEF CopyOnce
  <2>. HIDE DEF to
  <2>2. ASSUME NEW q \in 1 .. Len(ps) PROVE ps[q].src + ps[q].len <= to
    BY <1>1, <1>3, <2>1, Sums
  <2>. QED BY <2>2
<1>6. ASSUME NEW j \in done \cup {i}, apk.entries[j].policy # "gap"
      PROVE  DataOff(apk.entries[j]) + DataLen(apk.entries[j]) <= to
  <2>1. CASE j = i
    BY <1>1, <2>1
  <2>2. CASE j # i
    <3>1. j \in done /\ apk.entries[j] \in CdEntry
      BY <2>2, ElementOfSeq
    <3>2. /\ DataOff(apk.entries[j]) + DataLen(apk.entries[j]) <= d
          /\ DataOff(apk.entries[j]) \in Nat /\ DataLen(apk.entries[j]) \in Nat
      BY <1>4, <1>6, <3>1, EntryLens DEF CopyOnce
    <3>. HIDE DEF to
    <3>. QED BY <1>1, <3>2
  <2>. QED BY <2>1, <2>2
<1>7. ASSUME NEW n \in Nat
      PROVE  (\E q \in 1 .. Len(ps) : ps[q].src <= n /\ n < ps[q].src + ps[q].len)
                 <=> n < to /\ \A j \in done \cup {i} : ~Drops(apk.entries[j], n)
  <2>. DEFINE X == \E q \in 1 .. Len(ps) : ps[q].src <= n /\ n < ps[q].src + ps[q].len
              B == \A j \in done : ~Drops(apk.entries[j], n)
              C == \A j \in done \cup {i} : ~Drops(apk.entries[j], n)
  <2>1. X <=> n < d /\ B
    BY <1>4 DEF CopyOnce
  <2>2. C <=> B /\ ~(d <= n /\ n < to)
    <3>. HIDE DEF to
    <3>. QED BY <1>2
  <2>. HIDE DEF X, B, C, to
  <2>3. X <=> n < to /\ C
    BY <1>1, <2>1, <2>2
  <2>. QED BY <2>3 DEF X, C
<1>. HIDE DEF to
<1>8. CopyOnce(ps, to, done \cup {i})
  BY <1>4, <1>5, <1>6, <1>7 DEF CopyOnce
<1>9. Placed(ps, done \cup {i})
  BY DEF Planning, Placed
<1>. QED BY <1>3, <1>8, <1>9 DEF Planning, to

\* A record that is kept: a new header for the old one, and its data.
LEMMA CopyPlanned ==
    ASSUME NEW ps, NEW c \in Nat, NEW d \in Nat, NEW done, Planning(ps, c, d, done),
           apk.entries \in Seq(CdEntry), done \in SUBSET (1 .. Len(apk.entries)),
           NEW i \in 1 .. Len(apk.entries), i \notin done, apk.entries[i].off = d,
           NEW p \in PlanType, PlanFor(p, apk.entries[i]), p.idx = i, p.off = c,
           p.src = DataOff(apk.entries[i])
    PROVE  Planning(ps \o <<p>>, c + p.hdr + p.len,
                    DataOff(apk.entries[i]) + DataLen(apk.entries[i]), done \cup {i})
<1>. DEFINE e == apk.entries[i]
            to == DataOff(e) + DataLen(e)
            t == ps \o <<p>>
            m == Len(ps)
<1>1. /\ e \in CdEntry /\ DataOff(e) \in Nat /\ DataLen(e) \in Nat /\ to \in Nat
      /\ d < DataOff(e) /\ DataOff(e) <= to
  <2>1. e \in CdEntry /\ e.off = d
    BY ElementOfSeq
  <2>. HIDE DEF e
  <2>2. /\ PrefixLen(e) \in Nat /\ PrefixLen(e) > 0 /\ DataOff(e) = d + PrefixLen(e)
        /\ DataLen(e) \in Nat
    BY <2>1, EntryLens
  <2>. QED BY <2>1, <2>2
<1>2. /\ e.policy = "output" /\ p.len = DataLen(e) /\ p.src = DataOff(e)
      /\ p.hdr = LfhLen + e.name + ExtraLen(p.extra)
  BY DEF PlanFor
<1>3. \A n : Drops(e, n) <=> d <= n /\ n < DataOff(e)
  BY <1>2 DEF Drops
<1>4. p.hdr \in Nat /\ p.len \in Nat /\ p.hdr + p.len > 0
  <2>1. p.hdr \in Nat /\ p.len \in Nat /\ p.extra \in Seq(Field)
    BY PlanFields
  <2>2. ExtraLen(p.extra) \in Nat /\ e.name \in Nat /\ LfhLen \in Nat \ {0}
    BY <1>1, <2>1, ExtraLens, EntryLens, ConstantsAssumption
  <2>. QED BY <1>2, <2>1, <2>2
<1>. HIDE DEF e
<1>5. ps \in Seq(PlanType) /\ CopyOnce(ps, d, done) /\ Tiled(ps, c) /\ Placed(ps, done)
  BY DEF Planning
<1>6. /\ t \in Seq(PlanType) /\ Len(t) = m + 1 /\ m \in Nat /\ \A q \in 1 .. m : t[q] = ps[q]
      /\ t[m + 1] = p /\ \A q \in 1 .. m + 1 : q # m + 1 => q \in 1 .. m
      /\ m + 1 \in 1 .. m + 1 /\ \A q \in 1 .. m : q \in 1 .. m + 1 /\ q < m + 1
  BY <1>5, PlanAdded
<1>7. Tiled(t, c + p.hdr + p.len)
  BY <1>4, <1>5, TiledMore
<1>. HIDE DEF t, m
<1>8. \A q \in 1 .. m : /\ ps[q].src \in Nat /\ ps[q].len \in Nat
                        /\ ps[q].src + ps[q].len <= d
  <2>1. \A q \in 1 .. m : ps[q] \in PlanType
    BY <1>5, ElementOfSeq DEF m
  <2>2. \A q \in 1 .. m : ps[q].src + ps[q].len <= d
    BY <1>5 DEF m, CopyOnce
  <2>. QED BY <2>1, <2>2, PlanFields
<1>9. CopyOnce(t, to, done \cup {i})
  <2>1. ASSUME NEW q \in 1 .. Len(t) PROVE t[q].src + t[q].len <= to
    <3>1. CASE q = m + 1
      BY <1>1, <1>2, <1>6, <3>1
    <3>2. CASE q # m + 1
      <4>. HIDE DEF to
      <4>1. q \in 1 .. m /\ t[q] = ps[q]
        BY <1>6, <3>2
      <4>2. d <= to
        BY <1>1
      <4>. QED BY <1>1, <1>8, <4>1, <4>2, Sums
    <3>. QED BY <3>1, <3>2
  <2>2. ASSUME NEW q \in 1 .. Len(t), NEW r \in 1 .. Len(t), q < r
        PROVE  t[q].src + t[q].len <= t[r].src
    <3>1. q \in 1 .. m
      BY <1>6, <2>2
    <3>2. CASE r = m + 1
      <4>1. t[q] = ps[q] /\ t[r].src = DataOff(e) /\ d <= DataOff(e)
        BY <1>1, <1>2, <1>6, <3>1, <3>2
      <4>2. ps[q].src \in Nat /\ ps[q].len \in Nat /\ ps[q].src + ps[q].len <= d
        BY <1>8, <3>1
      <4>3. ps[q].src + ps[q].len <= DataOff(e)
        BY <1>1, <4>1, <4>2, Sums
      <4>. QED BY <4>1, <4>3
    <3>3. CASE r # m + 1
      <4>1. r \in 1 .. m
        BY <1>6, <3>3
      <4>2. ps[q].src + ps[q].len <= ps[r].src
        BY <1>5, <2>2, <3>1, <4>1 DEF CopyOnce, m
      <4>. QED BY <1>6, <3>1, <4>1, <4>2
    <3>. QED BY <3>2, <3>3
  <2>3. ASSUME NEW j \in done, apk.entries[j].policy # "gap"
        PROVE  /\ DataOff(apk.entries[j]) + DataLen(apk.entries[j]) <= d
               /\ DataOff(apk.entries[j]) \in Nat /\ DataLen(apk.entries[j]) \in Nat
    <3>1. apk.entries[j] \in CdEntry
      BY ElementOfSeq
    <3>. QED BY <1>5, <2>3, <3>1, EntryLens DEF CopyOnce
  <2>4. ASSUME NEW n \in Nat
        PROVE  (\E q \in 1 .. Len(t) : t[q].src <= n /\ n < t[q].src + t[q].len)
                   <=> n < to /\ \A j \in done \cup {i} : ~Drops(apk.entries[j], n)
    <3>. DEFINE A == \E q \in 1 .. m : ps[q].src <= n /\ n < ps[q].src + ps[q].len
                B == \A j \in done : ~Drops(apk.entries[j], n)
                C == \A j \in done \cup {i} : ~Drops(apk.entries[j], n)
                X == \E q \in 1 .. Len(t) : t[q].src <= n /\ n < t[q].src + t[q].len
    <3>1. A <=> n < d /\ B
      BY <1>5 DEF CopyOnce, m
    <3>2. X <=> A \/ (DataOff(e) <= n /\ n < to)
      <4>. HIDE DEF to
      <4>1. p.src + p.len = to
        BY <1>2 DEF to
      <4>. QED BY <1>2, <1>6, <4>1
    <3>3. ~(n < d) => B
      BY <2>3 DEF Drops
    <3>4. C <=> B /\ ~(d <= n /\ n < DataOff(e))
      BY <1>3 DEF e
    <3>. HIDE DEF A, B, C, X, to
    <3>5. X <=> n < to /\ C
      BY <1>1, <3>1, <3>2, <3>3, <3>4
    <3>. QED BY <3>5 DEF X, C
  <2>5. ASSUME NEW j \in done \cup {i}, apk.entries[j].policy # "gap"
        PROVE  DataOff(apk.entries[j]) + DataLen(apk.entries[j]) <= to
    <3>1. CASE j = i
      BY <1>1, <3>1 DEF e
    <3>2. CASE j # i
      <4>1. j \in done
        BY <3>2
      <4>2. /\ DataOff(apk.entries[j]) + DataLen(apk.entries[j]) <= d
            /\ DataOff(apk.entries[j]) \in Nat /\ DataLen(apk.entries[j]) \in Nat
        BY <2>3, <2>5, <4>1
      <4>. HIDE DEF to
      <4>. QED BY <1>1, <4>2
    <3>. QED BY <3>1, <3>2
  <2>. HIDE DEF to
  <2>. QED BY <2>1, <2>2, <2>4, <2>5 DEF CopyOnce
<1>10. Placed(t, done \cup {i})
  <2>1. \A q \in 1 .. m : ps[q].idx # 0 => ps[q].idx \in done /\ ps[q].idx # i
    BY <1>5 DEF Placed, m
  <2>2. i # 0 /\ p.idx = i
    OBVIOUS
  <2>3. ASSUME NEW q \in 1 .. Len(t), t[q].idx # 0
        PROVE  t[q].idx \in done \cup {i} /\ PlanFor(t[q], apk.entries[t[q].idx])
    <3>1. CASE q = m + 1
      BY <1>6, <3>1
    <3>2. CASE q # m + 1
      <4>1. q \in 1 .. m /\ t[q] = ps[q]
        BY <1>6, <3>2
      <4>. QED BY <1>5, <2>3, <4>1 DEF Placed, m
    <3>. QED BY <3>1, <3>2
  <2>4. ASSUME NEW q \in 1 .. Len(t), NEW r \in 1 .. Len(t), t[q].idx # 0, t[q].idx = t[r].idx
        PROVE  q = r
    <3>1. CASE q = m + 1
      BY <1>6, <2>1, <2>2, <2>4, <3>1
    <3>2. CASE r = m + 1
      BY <1>6, <2>1, <2>2, <2>4, <3>2
    <3>3. CASE q # m + 1 /\ r # m + 1
      <4>1. q \in 1 .. m /\ t[q] = ps[q] /\ r \in 1 .. m /\ t[r] = ps[r]
        BY <1>6, <3>3
      <4>. QED BY <1>5, <2>4, <4>1 DEF Placed, m
    <3>. QED BY <3>1, <3>2, <3>3
  <2>5. ASSUME NEW j \in done \cup {i}, apk.entries[j].policy = "output"
        PROVE  \E q \in 1 .. Len(t) : t[q].idx = j
    <3>1. CASE j = i
      BY <1>6, <3>1
    <3>2. CASE j # i
      <4>1. PICK q \in 1 .. m : ps[q].idx = j
        BY <1>5, <2>5, <3>2 DEF Placed, m
      <4>. QED BY <1>6, <4>1
    <3>. QED BY <3>1, <3>2
  <2>. QED BY <2>3, <2>4, <2>5 DEF Placed
<1>. HIDE DEF to
<1>11. Planning(t, c + p.hdr + p.len, to, done \cup {i})
  BY <1>6, <1>7, <1>9, <1>10 DEF Planning
<1>. QED BY <1>11 DEF t, to, e
-----------------------------------------------------------------------------
(* The invariant of the planner.                                           *)

\* The entries of the loop so far.
Done == (1 .. Len(apk.entries)) \ left

\* An APK as a rewrite leaves it: its entries are all kept, lie apart, and
\* have the extra fields they would get where they are.
Normal(a) ==
    /\ \A i \in 1 .. Len(a.entries) :
          /\ a.entries[i].policy = "output" /\ a.entries[i].header
          /\ a.entries[i].extra =
                NewExtra(a.entries[i], a.entries[i].off + LfhLen + a.entries[i].name)
          /\ ExtraLen(a.entries[i].extra) < U16
          /\ DataOff(a.entries[i]) + DataLen(a.entries[i]) <= a.end
    /\ \A i, j \in 1 .. Len(a.entries) : i # j =>
          \/ DataOff(a.entries[i]) + DataLen(a.entries[i]) <= a.entries[j].off
          \/ DataOff(a.entries[j]) + DataLen(a.entries[j]) <= a.entries[i].off

\* The plans that are for an entry leave it as and where it is.
InPlace(ps) ==
    \A q \in 1 .. Len(ps) : ps[q].idx # 0 =>
        /\ ps[q].off = apk.entries[ps[q].idx].off
        /\ ps[q].extra = apk.entries[ps[q].idx].extra

\* A second rewrite.
AgainInv ==
    round > 1 =>
        /\ Normal(apk) /\ InPlace(plans) /\ apk.end % BlockPage = 0
        /\ pc # "failed" /\ dropped = 0
        /\ pc # "done" => cursor = consumed /\ \A j \in left : consumed <= apk.entries[j].off
        /\ pc = "done" => cursor = apk.end

\* The end of the input that is planned for.
Taken == IF pc = "done" THEN apk.end ELSE consumed

\* The plans so far; the loop ends with no entry ahead.
PlanningInv == Planning(plans, cursor, Taken, Done) /\ (pc = "done" => left = {})

\* The inductive invariant of the planner.
PlanInv == PlanTypeInv /\ PlanningInv /\ AgainInv

\* The entry the loop is at comes first of those ahead.
LEMMA NextEntry ==
    ASSUME PlanTypeInv, More
    PROVE  /\ apk.entries \in Seq(CdEntry) /\ apk.end \in Nat
           /\ Idx \in left /\ Idx \in 1 .. Len(apk.entries)
           /\ Entry = apk.entries[Idx] /\ Entry \in CdEntry
           /\ \A j \in left : Entry.off <= apk.entries[j].off
<1>1. /\ apk.entries \in Seq(CdEntry) /\ apk.end \in Nat /\ left \in SUBSET (1 .. Len(apk.entries))
      /\ left # {}
  BY DEF PlanTypeInv, More
<1>2. \A j \in left : apk.entries[j] \in CdEntry /\ apk.entries[j].off \in Nat
  <2>1. \A j \in left : apk.entries[j] \in CdEntry
    BY <1>1, ElementOfSeq
  <2>. QED BY <2>1, EntryLens
<1>. DEFINE O == {apk.entries[j].off : j \in left}
<1>3. O \in SUBSET Nat /\ O # {}
  BY <1>1, <1>2
<1>4. PICK o \in O : \A v \in O : o <= v
  <2>. HIDE DEF O
  <2>. QED BY <1>3, LeastNumber
<1>5. \E i \in left : \A j \in left : apk.entries[i].off <= apk.entries[j].off
  BY <1>4
<1>6. Idx \in left /\ \A j \in left : apk.entries[Idx].off <= apk.entries[j].off
  BY <1>5 DEF Idx, First
<1>. QED BY <1>1, <1>2, <1>6 DEF Entry

\* The bytes before a record are planned for.
LEMMA GapBeforePlanned ==
    ASSUME PlanTypeInv, PlanningInv, More, ~Overlaps
    PROVE  /\ Planning(plans \o GapBefore, NewOff, Entry.off, Done)
           /\ NewOff \in Nat /\ NewOff = cursor + (Entry.off - consumed) /\ consumed <= Entry.off
           /\ \A q \in 1 .. Len(plans \o GapBefore) :
                 (plans \o GapBefore)[q].idx # 0 =>
                     q \in 1 .. Len(plans) /\ (plans \o GapBefore)[q] = plans[q]
<1>1. /\ apk.entries \in Seq(CdEntry) /\ Entry \in CdEntry /\ Entry.off \in Nat
      /\ cursor \in Nat /\ consumed \in Nat /\ Done \in SUBSET (1 .. Len(apk.entries))
  BY NextEntry, EntryLens DEF PlanTypeInv, Done
<1>2. Planning(plans, cursor, consumed, Done)
  BY DEF PlanningInv, Taken, More
<1>3. consumed <= Entry.off
  BY <1>1 DEF Overlaps
<1>4. plans \in Seq(PlanType)
  BY <1>2 DEF Planning
<1>. DEFINE o == Entry.off
<1>5. NewOff = cursor + (o - consumed) /\ NewOff \in Nat
  BY <1>1, <1>3 DEF NewOff
<1>6. CASE o > consumed
  <2>. DEFINE p == GapPlan(consumed, o)
  <2>1. GapBefore = <<p>>
    BY <1>6 DEF GapBefore
  <2>2. Planning(plans \o <<p>>, cursor + (o - consumed), o, Done)
    <3>. HIDE DEF o
    <3>1. p = [idx |-> 0, src |-> consumed, len |-> o - consumed, off |-> cursor, hdr |-> 0,
               extra |-> <<>>]
      BY DEF GapPlan
    <3>2. o \in Nat
      BY <1>1 DEF o
    <3>. QED BY <1>1, <1>2, <1>6, <3>1, <3>2, GapPlanned
  <2>3. p.idx = 0
    BY DEF GapPlan
  <2>4. p \in PlanType
    <3>1. <<>> \in Seq(Field) /\ o - consumed \in Nat
      BY <1>1, <1>3, EmptySeq
    <3>. QED BY <1>1, <3>1 DEF GapPlan, PlanType
  <2>. HIDE DEF p, o
  <2>5. \A q \in 1 .. Len(plans \o <<p>>) : (plans \o <<p>>)[q].idx # 0 =>
            q \in 1 .. Len(plans) /\ (plans \o <<p>>)[q] = plans[q]
    BY <1>4, <2>3, <2>4, PlanAdded
  <2>. QED BY <1>3, <1>5, <2>1, <2>2, <2>5 DEF o
<1>7. CASE ~(o > consumed)
  <2>1. GapBefore = <<>> /\ o = consumed
    BY <1>1, <1>3, <1>7 DEF GapBefore
  <2>2. plans \o <<>> = plans
    BY <1>4, ConcatEmptySeq
  <2>3. NewOff = cursor
    BY <1>1, <1>5, <2>1
  <2>. QED BY <1>2, <1>3, <1>5, <2>1, <2>2, <2>3
<1>. QED BY <1>6, <1>7

\* A step that leaves the APK alone.
LEMMA SamePlanning ==
    ASSUME apk' = apk, page' = page, Planning(plans', cursor', Taken', Done')
    PROVE  Planning(plans, cursor, Taken, Done)'
BY DEF Planning, Tiled, CopyOnce, Placed, PlanFor, Drops, DataOff, NewExtra, Align, Required

\* What the loop has behind it, once the entry at hand is.
LEMMA OneMoreDone ==
    ASSUME PlanTypeInv, More, apk' = apk, left' = left \ {Idx}
    PROVE  /\ Done' = Done \cup {Idx} /\ Idx \notin Done
           /\ Done \in SUBSET (1 .. Len(apk.entries))
           /\ left' \in SUBSET (1 .. Len(apk'.entries))
BY NextEntry DEF Done, PlanTypeInv

\* A record that stays in the gap.
LEMMA GapStep ==
    ASSUME PlanTypeInv, PlanningInv, Gap
    PROVE  PlanTypeInv' /\ PlanningInv'
<1>1. /\ More /\ Entry.policy = "gap" /\ left' = left \ {Idx} /\ dropped' = dropped + 1
      /\ apk' = apk /\ page' = page /\ round' = round /\ pc' = pc /\ pc = "entry"
      /\ cursor' = cursor /\ consumed' = consumed /\ plans' = plans
  BY DEF Gap, More
<1>2. Done' = Done \cup {Idx} /\ left' \in SUBSET (1 .. Len(apk'.entries))
  BY <1>1, OneMoreDone
<1>3. PlanTypeInv'
  BY <1>1, <1>2 DEF PlanTypeInv
<1>4. Planning(plans, cursor, consumed, Done) /\ Taken' = consumed
  BY <1>1 DEF PlanningInv, Taken
<1>5. Planning(plans, cursor, consumed, Done \cup {Idx})
  <2>1. cursor \in Nat /\ consumed \in Nat /\ apk.entries[Idx].policy = "gap"
    BY <1>1 DEF PlanTypeInv, Entry
  <2>. QED BY <1>4, <2>1, GapEntryPlanned
<1>6. Planning(plans, cursor, Taken, Done)'
  BY <1>1, <1>2, <1>4, <1>5, SamePlanning
<1>. QED BY <1>1, <1>3, <1>6 DEF PlanningInv

\* A record that is skipped.
LEMMA SkipStep ==
    ASSUME PlanTypeInv, PlanningInv, Skip
    PROVE  PlanTypeInv' /\ PlanningInv'
<1>1. /\ More /\ ~Overlaps /\ ~Overruns /\ Entry.policy = "skip"
      /\ left' = left \ {Idx} /\ dropped' = dropped + 1
      /\ apk' = apk /\ page' = page /\ round' = round /\ pc' = pc /\ pc = "entry"
      /\ cursor' = NewOff /\ consumed' = DataOff(Entry) + DataLen(Entry)
      /\ plans' = plans \o GapBefore
  BY DEF Skip, Accepted, More
<1>2. /\ Done' = Done \cup {Idx} /\ left' \in SUBSET (1 .. Len(apk'.entries))
      /\ Done \in SUBSET (1 .. Len(apk.entries))
  BY <1>1, OneMoreDone
<1>3. /\ apk.entries \in Seq(CdEntry) /\ apk.end \in Nat /\ Entry = apk.entries[Idx]
      /\ Entry \in CdEntry
  BY <1>1, NextEntry
<1>4. Entry.off \in Nat /\ DataOff(Entry) \in Nat /\ DataLen(Entry) \in Nat
  BY <1>3, EntryLens
<1>5. Planning(plans', NewOff, Entry.off, Done) /\ NewOff \in Nat
  BY <1>1, GapBeforePlanned
<1>6. consumed' \in Nat /\ consumed' <= apk.end
  BY <1>1, <1>3, <1>4 DEF Overruns
<1>7. PlanTypeInv'
  BY <1>1, <1>2, <1>5, <1>6 DEF PlanTypeInv
<1>8. Planning(plans', NewOff, DataOff(Entry) + DataLen(Entry), Done \cup {Idx})
  <2>1. /\ apk.entries[Idx] \in CdEntry /\ apk.entries[Idx].policy = "skip"
        /\ apk.entries[Idx].off = Entry.off
    BY <1>1, <1>3
  <2>2. Planning(plans', NewOff, DataOff(apk.entries[Idx]) + DataLen(apk.entries[Idx]),
                 Done \cup {Idx})
    BY <1>2, <1>3, <1>4, <1>5, <2>1, SkipPlanned
  <2>. QED BY <1>3, <2>2
<1>9. Taken' = consumed'
  BY <1>1 DEF Taken
<1>10. Planning(plans, cursor, Taken, Done)'
  BY <1>1, <1>2, <1>8, <1>9, SamePlanning
<1>. QED BY <1>1, <1>7, <1>10 DEF PlanningInv

\* The plan for a record that is kept.
LEMMA NewPlanFacts ==
    ASSUME PlanTypeInv, More, NewOff \in Nat, Entry.policy = "output", ~NoHeader, ~ExtraTooLong
    PROVE  /\ NewPlan \in PlanType /\ PlanFor(NewPlan, Entry) /\ NewPlan.idx = Idx
           /\ NewPlan.off = NewOff /\ NewPlan.src = DataOff(Entry)
           /\ NewPlan.hdr = LfhLen + Entry.name + ExtraLen(Extra) /\ NewPlan.hdr \in Nat
           /\ NewPlan.len = DataLen(Entry) /\ NewPlan.extra = Extra
           /\ Extra = NewExtra(Entry, NewOff + LfhLen + Entry.name)
           /\ Extra \in Seq(Field) /\ ExtraLen(Extra) \in Nat
<1>1. Entry \in CdEntry /\ Idx \in Nat
  <2>1. Entry \in CdEntry /\ Idx \in 1 .. Len(apk.entries) /\ apk.entries \in Seq(CdEntry)
    BY NextEntry
  <2>. QED BY <2>1, LenProperties
<1>2. /\ Entry.name \in Nat /\ DataOff(Entry) \in Nat /\ DataLen(Entry) \in Nat
      /\ LfhLen \in Nat /\ page \in Nat /\ U16 \in Nat
  BY <1>1, EntryLens, ConstantsAssumption DEF PlanTypeInv
<1>3. NewOff + LfhLen + Entry.name \in Nat
  BY <1>2
<1>4. Extra = NewExtra(Entry, NewOff + LfhLen + Entry.name)
  BY DEF Extra
<1>5. Extra \in Seq(Field) /\ ExtraLen(Extra) \in Nat
  <2>. DEFINE start == NewOff + LfhLen + Entry.name
  <2>1. start \in Nat
    BY <1>3
  <2>. HIDE DEF start
  <2>2. NewExtra(Entry, start) \in Seq(Field) /\ ExtraLen(NewExtra(Entry, start)) \in Nat
    BY <1>1, <1>2, <2>1, NewExtraFacts
  <2>. QED BY <1>4, <2>2 DEF start
<1>6. /\ NewPlan.idx = Idx /\ NewPlan.off = NewOff /\ NewPlan.src = DataOff(Entry)
      /\ NewPlan.hdr = LfhLen + Entry.name + ExtraLen(Extra)
      /\ NewPlan.len = DataLen(Entry) /\ NewPlan.extra = Extra
  BY DEF NewPlan
<1>7. NewPlan.hdr \in Nat
  BY <1>2, <1>5, <1>6
<1>8. NewPlan \in PlanType
  BY <1>1, <1>2, <1>5, <1>6, <1>7 DEF NewPlan, PlanType
<1>9. ExtraLen(Extra) < U16 /\ Entry.header
  BY <1>2, <1>5 DEF ExtraTooLong, NoHeader
<1>10. PlanFor(NewPlan, Entry)
  BY <1>4, <1>6, <1>9 DEF PlanFor
<1>. QED BY <1>4, <1>5, <1>6, <1>7, <1>8, <1>10

\* A record that is kept.
LEMMA CopyStep ==
    ASSUME PlanTypeInv, PlanningInv, Copy
    PROVE  PlanTypeInv' /\ PlanningInv'
<1>1. /\ More /\ ~Overlaps /\ ~Overruns /\ ~NoHeader /\ ~ExtraTooLong /\ Entry.policy = "output"
      /\ left' = left \ {Idx} /\ dropped' = dropped
      /\ apk' = apk /\ page' = page /\ round' = round /\ pc' = pc /\ pc = "entry"
      /\ cursor' = NewOff + NewPlan.hdr + NewPlan.len
      /\ consumed' = DataOff(Entry) + DataLen(Entry)
      /\ plans' = plans \o GapBefore \o <<NewPlan>>
  BY DEF Copy, Accepted, More
<1>2. /\ Done' = Done \cup {Idx} /\ left' \in SUBSET (1 .. Len(apk'.entries))
      /\ Done \in SUBSET (1 .. Len(apk.entries)) /\ Idx \notin Done
  BY <1>1, OneMoreDone
<1>3. /\ apk.entries \in Seq(CdEntry) /\ apk.end \in Nat /\ Entry = apk.entries[Idx]
      /\ Entry \in CdEntry /\ Idx \in 1 .. Len(apk.entries)
  BY <1>1, NextEntry
<1>4. Entry.off \in Nat /\ DataOff(Entry) \in Nat /\ DataLen(Entry) \in Nat
  BY <1>3, EntryLens
<1>5. Planning(plans \o GapBefore, NewOff, Entry.off, Done) /\ NewOff \in Nat
  BY <1>1, GapBeforePlanned
<1>6. consumed' \in Nat /\ consumed' <= apk.end
  BY <1>1, <1>3, <1>4 DEF Overruns
<1>7. /\ NewPlan \in PlanType /\ PlanFor(NewPlan, Entry) /\ NewPlan.idx = Idx
      /\ NewPlan.off = NewOff /\ NewPlan.src = DataOff(Entry)
      /\ NewPlan.hdr \in Nat /\ NewPlan.len = DataLen(Entry)
  BY <1>1, <1>5, NewPlanFacts
<1>8. PlanTypeInv'
  <2>1. cursor' \in Nat
    BY <1>1, <1>4, <1>5, <1>7
  <2>. QED BY <1>1, <1>2, <1>6, <2>1 DEF PlanTypeInv
<1>. DEFINE ps == plans \o GapBefore
            p == NewPlan
<1>9. Planning(ps \o <<p>>, NewOff + p.hdr + p.len, DataOff(Entry) + DataLen(Entry),
               Done \cup {Idx})
  <2>1. /\ PlanFor(p, apk.entries[Idx]) /\ p.src = DataOff(apk.entries[Idx])
        /\ apk.entries[Idx].off = Entry.off /\ p \in PlanType /\ p.idx = Idx /\ p.off = NewOff
        /\ Planning(ps, NewOff, Entry.off, Done)
    BY <1>3, <1>5, <1>7
  <2>. HIDE DEF p, ps
  <2>2. Planning(ps \o <<p>>, NewOff + p.hdr + p.len,
                 DataOff(apk.entries[Idx]) + DataLen(apk.entries[Idx]), Done \cup {Idx})
    BY <1>2, <1>3, <1>4, <1>5, <2>1, CopyPlanned
  <2>. QED BY <1>3, <2>2
<1>10. Taken' = consumed'
  BY <1>1 DEF Taken
<1>11. Planning(plans, cursor, Taken, Done)'
  BY <1>1, <1>2, <1>9, <1>10, SamePlanning
<1>. QED BY <1>1, <1>8, <1>11 DEF PlanningInv

\* The rest of the input.
LEMMA FinishStep ==
    ASSUME PlanTypeInv, PlanningInv, Finish
    PROVE  /\ PlanTypeInv' /\ PlanningInv'
           /\ \A q \in 1 .. Len(plans') : plans'[q].idx # 0 =>
                 q \in 1 .. Len(plans) /\ plans'[q] = plans[q]
<1>1. /\ pc = "entry" /\ left = {} /\ pc' = "done" /\ cursor' = cursor + apk.end - consumed
      /\ apk' = apk /\ page' = page /\ round' = round /\ left' = left /\ consumed' = consumed
      /\ dropped' = dropped
      /\ plans' = plans \o IF consumed < apk.end THEN <<GapPlan(consumed, apk.end)>> ELSE <<>>
  BY DEF Finish
<1>2. /\ apk.entries \in Seq(CdEntry) /\ apk.end \in Nat /\ cursor \in Nat /\ consumed \in Nat
      /\ consumed <= apk.end /\ Done \in SUBSET (1 .. Len(apk.entries))
  BY DEF PlanTypeInv, Done
<1>3. Planning(plans, cursor, consumed, Done) /\ Taken' = apk.end /\ Done' = Done
  BY <1>1 DEF PlanningInv, Taken, Done
<1>4. plans \in Seq(PlanType)
  BY <1>3 DEF Planning
<1>5. cursor' = cursor + (apk.end - consumed) /\ cursor' \in Nat
  BY <1>1, <1>2
<1>6. PlanTypeInv'
  BY <1>1, <1>5 DEF PlanTypeInv
<1>7. /\ Planning(plans', cursor + (apk.end - consumed), apk.end, Done)
      /\ \A q \in 1 .. Len(plans') : plans'[q].idx # 0 =>
            q \in 1 .. Len(plans) /\ plans'[q] = plans[q]
  <2>1. CASE consumed < apk.end
    <3>. DEFINE p == GapPlan(consumed, apk.end)
                o == apk.end
    <3>1. plans' = plans \o <<p>>
      BY <1>1, <2>1
    <3>2. p = [idx |-> 0, src |-> consumed, len |-> o - consumed, off |-> cursor, hdr |-> 0,
               extra |-> <<>>] /\ o \in Nat /\ o > consumed
      BY <1>2, <2>1 DEF GapPlan
    <3>3. p.idx = 0 /\ p \in PlanType
      <4>1. <<>> \in Seq(Field) /\ o - consumed \in Nat
        BY <1>2, EmptySeq
      <4>. QED BY <1>2, <3>2, <4>1 DEF PlanType
    <3>. HIDE DEF p, o
    <3>4. Planning(plans \o <<p>>, cursor + (o - consumed), o, Done)
      BY <1>2, <1>3, <3>2, GapPlanned
    <3>5. \A q \in 1 .. Len(plans \o <<p>>) : (plans \o <<p>>)[q].idx # 0 =>
              q \in 1 .. Len(plans) /\ (plans \o <<p>>)[q] = plans[q]
      BY <1>4, <3>3, PlanAdded
    <3>. QED BY <3>1, <3>4, <3>5 DEF o
  <2>2. CASE ~(consumed < apk.end)
    <3>1. plans' = plans
      BY <1>1, <1>4, <2>2, ConcatEmptySeq
    <3>2. apk.end = consumed /\ cursor + (apk.end - consumed) = cursor
      BY <1>2, <2>2
    <3>. QED BY <1>3, <3>1, <3>2
  <2>. QED BY <2>1, <2>2
<1>8. Planning(plans, cursor, Taken, Done)'
  BY <1>1, <1>3, <1>5, <1>7, SamePlanning
<1>. QED BY <1>1, <1>6, <1>7, <1>8 DEF PlanningInv

-----------------------------------------------------------------------------
(* The rewritten APK.                                                      *)

\* The plans without what only the planner needs.
Laid(ps) ==
    [q \in DOMAIN ps |-> [off |-> ps[q].off, hdr |-> ps[q].hdr, src |-> ps[q].src, len |-> ps[q].len]]

\* Plans that lie one behind the other are a layout.
LEMMA TiledIsLayout ==
    ASSUME NEW ps \in Seq(PlanType), NEW c, Tiled(ps, c)
    PROVE  /\ IsLayout(Laid(ps)) /\ Len(Laid(ps)) = Len(ps) /\ Len(ps) \in Nat
           /\ \A q \in 1 .. Len(ps) :
                 /\ Laid(ps)[q].off = ps[q].off
                 /\ OutEnd(Laid(ps)[q]) = ps[q].off + ps[q].hdr + ps[q].len
<1>. DEFINE L == Laid(ps)
            P == [off : Nat, hdr : Nat, src : Nat, len : Nat]
            m == Len(ps)
<1>1. m \in Nat /\ DOMAIN ps = 1 .. m /\ \A q \in 1 .. m : ps[q] \in PlanType
  BY LenProperties, ElementOfSeq
<1>2. \A q \in 1 .. m :
          ps[q].off \in Nat /\ ps[q].hdr \in Nat /\ ps[q].src \in Nat /\ ps[q].len \in Nat
  BY <1>1, PlanFields
<1>3. L = [q \in 1 .. m |->
             [off |-> ps[q].off, hdr |-> ps[q].hdr, src |-> ps[q].src, len |-> ps[q].len]]
  BY <1>1 DEF Laid
<1>. HIDE DEF m, L
<1>4. \A q \in 1 .. m : L[q] \in P /\ L[q].off = ps[q].off /\ L[q].hdr = ps[q].hdr /\ L[q].len = ps[q].len
  BY <1>2, <1>3
<1>5. L \in [1 .. m -> P]
  BY <1>2, <1>3
<1>6. L \in Seq(P) /\ Len(L) = m /\ DOMAIN L = 1 .. m
  <2>. HIDE DEF P
  <2>. QED BY <1>1, <1>5
<1>7. \A q \in 1 .. m : OutEnd(L[q]) = ps[q].off + ps[q].hdr + ps[q].len
  BY <1>4 DEF OutEnd
<1>8. ASSUME NEW q \in 1 .. m
      PROVE  L[q].hdr + L[q].len > 0 /\ L[q].off = IF q = 1 THEN 0 ELSE OutEnd(L[q - 1])
  <2>1. /\ ps[q].hdr + ps[q].len > 0
        /\ ps[q].off = IF q = 1 THEN 0 ELSE ps[q - 1].off + ps[q - 1].hdr + ps[q - 1].len
    BY DEF Tiled, m
  <2>2. q # 1 => q - 1 \in 1 .. m
    BY <1>1
  <2>. QED BY <1>4, <1>7, <2>1, <2>2
<1>9. IsLayout(L)
  BY <1>6, <1>8 DEF IsLayout
<1>. QED BY <1>1, <1>4, <1>6, <1>7, <1>9 DEF m, L

\* They are apart in the output, and within it.
LEMMA TiledApart ==
    ASSUME NEW ps \in Seq(PlanType), NEW c \in Nat, Tiled(ps, c), NEW q \in 1 .. Len(ps)
    PROVE  /\ ps[q].off + ps[q].hdr + ps[q].len <= c
           /\ \A r \in 1 .. Len(ps) : q # r =>
                 \/ ps[q].off + ps[q].hdr + ps[q].len <= ps[r].off
                 \/ ps[r].off + ps[r].hdr + ps[r].len <= ps[q].off
<1>. DEFINE L == Laid(ps)
            End(r) == ps[r].off + ps[r].hdr + ps[r].len
<1>1. /\ IsLayout(L) /\ Len(L) = Len(ps) /\ Len(ps) \in Nat
      /\ \A r \in 1 .. Len(ps) : L[r].off = ps[r].off /\ OutEnd(L[r]) = End(r)
  BY TiledIsLayout
<1>. HIDE DEF L
<1>2. ASSUME NEW i \in 1 .. Len(ps), NEW j \in 1 .. Len(ps), i < j PROVE End(i) <= ps[j].off
  <2>1. i \in 1 .. Len(L) /\ j \in 1 .. Len(L)
    BY <1>1
  <2>2. OutEnd(L[i]) <= L[j].off
    BY <1>1, <1>2, <2>1, PlansInOrder
  <2>. QED BY <1>1, <2>2
<1>3. \A r \in 1 .. Len(ps) : q # r => q < r \/ r < q
  BY <1>1
<1>. DEFINE m == Len(ps)
<1>4. m \in 1 .. m /\ c = End(m) /\ ps[m].off \in Nat /\ ps[m].hdr \in Nat /\ ps[m].len \in Nat
  <2>1. m \in 1 .. m /\ m # 0
    BY <1>1
  <2>2. c = End(m)
    BY <2>1 DEF Tiled
  <2>3. ps[m] \in PlanType
    BY <2>1, ElementOfSeq
  <2>. QED BY <2>1, <2>2, <2>3, PlanFields
<1>5. End(q) <= c
  <2>1. CASE q = m
    BY <1>4, <2>1
  <2>2. CASE q # m
    <3>1. q < m
      BY <1>1, <2>2
    <3>2. End(q) <= ps[m].off
      BY <1>2, <1>4, <3>1
    <3>3. ps[q].off \in Nat /\ ps[q].hdr \in Nat /\ ps[q].len \in Nat
      BY ElementOfSeq, PlanFields
    <3>. DEFINE a == End(q)
                b == ps[m].off
                u == ps[m].hdr
                v == ps[m].len
    <3>4. a \in Nat /\ b \in Nat /\ u \in Nat /\ v \in Nat /\ a <= b /\ c = b + u + v
      <4>1. a \in Nat
        BY <3>3, Sums
      <4>2. b \in Nat /\ u \in Nat /\ v \in Nat /\ c = b + u + v
        BY ONLY <1>4
      <4>3. a <= b
        BY ONLY <3>2
      <4>. QED BY <4>1, <4>2, <4>3, Zenon
    <3>. HIDE DEF a, b, u, v
    <3>5. a <= c
      BY ONLY <3>4
    <3>. QED BY <3>5 DEF a
  <2>. QED BY <2>1, <2>2
<1>. QED BY <1>2, <1>3, <1>5

\* The entries of the new directory are those with a plan, each moved to the
\* place of its plan.
LEMMA NewEntriesFacts ==
    ASSUME PlanTypeInv, PlanningInv, pc = "done"
    PROVE  /\ NewEntries \in Seq(CdEntry)
           /\ \E h \in [1 .. Len(NewEntries) -> 1 .. Len(plans)] :
                 /\ \A i \in 1 .. Len(NewEntries) :
                       /\ plans[h[i]].idx \in 1 .. Len(apk.entries)
                       /\ PlanFor(plans[h[i]], apk.entries[plans[h[i]].idx])
                       /\ NewEntries[i] = Moved(apk.entries[plans[h[i]].idx], plans[h[i]])
                 /\ \A i, j \in 1 .. Len(NewEntries) : i # j => h[i] # h[j]
<1>. DEFINE es == apk.entries
            m == Len(es)
            at(i) == CHOOSE k \in DOMAIN plans : plans[k].idx = i
            F == [i \in DOMAIN es |-> IF i \in Planned THEN Moved(es[i], PlanOf(i)) ELSE es[i]]
<1>1. /\ es \in Seq(CdEntry) /\ m \in Nat /\ DOMAIN es = 1 .. m /\ \A i \in 1 .. m : es[i] \in CdEntry
      /\ plans \in Seq(PlanType) /\ DOMAIN plans = 1 .. Len(plans) /\ Placed(plans, Done)
  <2>1. es \in Seq(CdEntry)
    BY DEF PlanTypeInv
  <2>2. plans \in Seq(PlanType) /\ Placed(plans, Done)
    BY DEF PlanningInv, Planning
  <2>. QED BY <2>1, <2>2, LenProperties, ElementOfSeq
<1>2. Planned \in SUBSET (1 .. m) /\ 0 \notin Planned
  BY <1>1 DEF Planned
<1>3. ASSUME NEW i \in Planned
      PROVE  at(i) \in 1 .. Len(plans) /\ plans[at(i)].idx = i /\ PlanOf(i) = plans[at(i)]
  <2>1. \E k \in DOMAIN plans : plans[k].idx = i
    BY DEF Planned
  <2>. QED BY <1>1, <2>1 DEF PlanOf
<1>4. ASSUME NEW i \in Planned
      PROVE  /\ PlanFor(plans[at(i)], es[i]) /\ plans[at(i)].off \in Nat
             /\ plans[at(i)].extra \in Seq(Field)
  <2>1. plans[at(i)] \in PlanType
    <3>. HIDE DEF at
    <3>. QED BY <1>1, <1>3, ElementOfSeq
  <2>2. plans[at(i)].off \in Nat /\ plans[at(i)].extra \in Seq(Field)
    <3>. HIDE DEF at
    <3>. QED BY <2>1, PlanFields
  <2>3. PlanFor(plans[at(i)], es[i])
    <3>. HIDE DEF at
    <3>. QED BY <1>1, <1>2, <1>3 DEF Placed
  <2>. QED BY <2>2, <2>3
<1>5. F \in Seq(CdEntry) /\ Len(F) = m
  <2>1. ASSUME NEW i \in 1 .. m
        PROVE  (IF i \in Planned THEN Moved(es[i], PlanOf(i)) ELSE es[i]) \in CdEntry
    <3>1. CASE i \in Planned
      <4>1. Moved(es[i], plans[at(i)]) \in CdEntry
        <5>. HIDE DEF at
        <5>. QED BY <1>1, <1>4, <3>1, MovedFacts
      <4>. QED BY <1>3, <3>1, <4>1
    <3>2. CASE i \notin Planned
      BY <1>1, <3>2
    <3>. QED BY <3>1, <3>2
  <2>. HIDE DEF m
  <2>2. F \in [1 .. m -> CdEntry]
    BY <1>1, <2>1
  <2>. HIDE DEF F
  <2>. QED BY <1>1, <2>2
<1>6. \A i \in Planned : F[i] = Moved(es[i], PlanOf(i))
  <2>. HIDE DEF m
  <2>. QED BY <1>1, <1>2
<1>7. NewEntries = Picked(F, Planned)
  BY DEF NewEntries
<1>. HIDE DEF F, at
<1>8. NewEntries \in Seq(CdEntry)
  BY <1>2, <1>5, <1>7, PickedPlaces
<1>9. PICK g \in [1 .. Len(NewEntries) -> Planned] :
          /\ \A j \in 1 .. Len(NewEntries) : NewEntries[j] = F[g[j]]
          /\ \A i, j \in 1 .. Len(NewEntries) : i # j => g[i] # g[j]
  <2>1. PICK g : Picks(g, NewEntries, F, Planned)
    BY <1>2, <1>5, <1>7, PickedPlaces
  <2>. QED BY <2>1 DEF Picks
<1>. DEFINE h == [j \in 1 .. Len(NewEntries) |-> at(g[j])]
<1>10. h \in [1 .. Len(NewEntries) -> 1 .. Len(plans)]
  BY <1>3, <1>9
<1>11. ASSUME NEW i \in 1 .. Len(NewEntries)
       PROVE  /\ plans[h[i]].idx = g[i] /\ g[i] \in 1 .. m
              /\ PlanFor(plans[h[i]], es[g[i]])
              /\ NewEntries[i] = Moved(es[g[i]], plans[h[i]])
  <2>1. g[i] \in Planned /\ h[i] = at(g[i])
    BY <1>9
  <2>. HIDE DEF h, es, m
  <2>2. plans[h[i]].idx = g[i] /\ PlanFor(plans[h[i]], es[g[i]]) /\ PlanOf(g[i]) = plans[h[i]]
    BY <1>3, <1>4, <2>1
  <2>3. NewEntries[i] = Moved(es[g[i]], PlanOf(g[i]))
    BY <1>6, <1>9, <2>1
  <2>4. g[i] \in 1 .. m
    BY <1>2, <2>1
  <2>. QED BY <2>2, <2>3, <2>4
<1>. HIDE DEF h
<1>12. \A i, j \in 1 .. Len(NewEntries) : i # j => h[i] # h[j]
  BY <1>9, <1>11
<1>. QED BY <1>8, <1>10, <1>11, <1>12

\* A rewrite leaves an APK that another one has nothing to change in.
LEMMA RewrittenIsNormal ==
    ASSUME PlanTypeInv, PlanningInv, pc = "done"
    PROVE  /\ Normal(Rewritten) /\ Rewritten \in [entries : Seq(CdEntry), end : Nat]
           /\ Rewritten.end % BlockPage = 0
<1>. DEFINE es == NewEntries
<1>1. es \in Seq(CdEntry) /\ Len(es) \in Nat /\ \A i \in 1 .. Len(es) : es[i] \in CdEntry
  BY NewEntriesFacts, LenProperties, ElementOfSeq
<1>2. PICK h \in [1 .. Len(es) -> 1 .. Len(plans)] :
          /\ \A i \in 1 .. Len(es) :
                /\ plans[h[i]].idx \in 1 .. Len(apk.entries)
                /\ PlanFor(plans[h[i]], apk.entries[plans[h[i]].idx])
                /\ es[i] = Moved(apk.entries[plans[h[i]].idx], plans[h[i]])
          /\ \A i, j \in 1 .. Len(es) : i # j => h[i] # h[j]
  BY NewEntriesFacts
<1>3. /\ plans \in Seq(PlanType) /\ Tiled(plans, cursor) /\ cursor \in Nat /\ page \in Nat
      /\ apk.entries \in Seq(CdEntry) /\ LfhLen \in Nat
  BY ConstantsAssumption DEF PlanTypeInv, PlanningInv, Planning
<1>. HIDE DEF es
<1>4. ASSUME NEW i \in 1 .. Len(es)
      PROVE  /\ es[i].policy = "output" /\ es[i].header
             /\ es[i].extra = NewExtra(es[i], es[i].off + LfhLen + es[i].name)
             /\ ExtraLen(es[i].extra) < U16
             /\ es[i].off = plans[h[i]].off
             /\ DataOff(es[i]) + DataLen(es[i])
                  = plans[h[i]].off + plans[h[i]].hdr + plans[h[i]].len
  <2>. DEFINE p == plans[h[i]]
              e == apk.entries[p.idx]
              n == es[i]
  <2>1. /\ h[i] \in 1 .. Len(plans) /\ p.idx \in 1 .. Len(apk.entries) /\ PlanFor(p, e)
        /\ n = Moved(e, p) /\ n \in CdEntry
    BY <1>1, <1>2
  <2>2. p \in PlanType /\ e \in CdEntry
    <3>1. p \in PlanType
      BY <1>3, <2>1, ElementOfSeq
    <3>. HIDE DEF p
    <3>. QED BY <1>3, <2>1, <3>1, ElementOfSeq
  <2>. HIDE DEF p, e, n
  <2>3. p.off \in Nat /\ p.extra \in Seq(Field) /\ p.hdr \in Nat /\ p.len \in Nat
    BY <2>2, PlanFields
  <2>4. /\ n.off = p.off /\ n.extra = p.extra /\ n.kind = e.kind /\ n.policy = e.policy
        /\ n.header = e.header /\ n.name = e.name /\ DataLen(n) = DataLen(e)
        /\ DataOff(n) = p.off + (LfhLen + e.name + ExtraLen(p.extra))
    BY <2>1, <2>2, <2>3, MovedFacts
  <2>5. /\ e.policy = "output" /\ e.header
        /\ p.extra = NewExtra(e, p.off + LfhLen + e.name) /\ ExtraLen(p.extra) < U16
        /\ p.hdr = LfhLen + e.name + ExtraLen(p.extra) /\ p.len = DataLen(e)
    BY <2>1 DEF PlanFor
  <2>6. NewExtra(n, p.off + LfhLen + e.name) = n.extra
    <3>. DEFINE start == p.off + LfhLen + e.name
    <3>1. start \in Nat
      <4>1. e.name \in Nat
        BY <2>2, EntryLens
      <4>. QED BY <1>3, <2>3, <4>1, Sums
    <3>2. n.extra = NewExtra(e, start)
      BY <2>4, <2>5
    <3>. HIDE DEF start
    <3>3. NewExtra(n, start) = n.extra
      BY <1>3, <2>1, <2>2, <2>4, <3>1, <3>2, NewExtraAgain
    <3>. QED BY <3>3 DEF start
  <2>7. DataOff(n) + DataLen(n) = p.off + p.hdr + p.len
    <3>1. DataOff(n) = p.off + p.hdr /\ DataLen(n) = p.len
      BY <2>4, <2>5
    <3>. QED BY <3>1
  <2>8. n.extra = NewExtra(n, n.off + LfhLen + n.name)
    BY <2>4, <2>6
  <2>9. n.policy = "output" /\ n.header /\ ExtraLen(n.extra) < U16
    BY <2>4, <2>5
  <2>. QED BY <2>4, <2>7, <2>8, <2>9 DEF p, n
<1>5. ASSUME NEW i \in 1 .. Len(es)
      PROVE  /\ DataOff(es[i]) + DataLen(es[i]) <= cursor
             /\ \A j \in 1 .. Len(es) : i # j =>
                   \/ DataOff(es[i]) + DataLen(es[i]) <= es[j].off
                   \/ DataOff(es[j]) + DataLen(es[j]) <= es[i].off
  <2>. DEFINE End(q) == plans[q].off + plans[q].hdr + plans[q].len
              End2(j) == DataOff(es[j]) + DataLen(es[j])
  <2>1. \A j \in 1 .. Len(es) : es[j].off = plans[h[j]].off /\ End2(j) = End(h[j])
    BY <1>4
  <2>2. \A q \in 1 .. Len(plans) :
            /\ End(q) <= cursor
            /\ \A r \in 1 .. Len(plans) :
                  q # r => End(q) <= plans[r].off \/ End(r) <= plans[q].off
    BY <1>3, TiledApart
  <2>. HIDE DEF End, End2
  <2>3. End2(i) <= cursor
    BY <1>2, <2>1, <2>2
  <2>4. ASSUME NEW j \in 1 .. Len(es), i # j PROVE End2(i) <= es[j].off \/ End2(j) <= es[i].off
    <3>1. h[i] \in 1 .. Len(plans) /\ h[j] \in 1 .. Len(plans) /\ h[i] # h[j]
      BY <1>2, <2>4
    <3>2. End(h[i]) <= plans[h[j]].off \/ End(h[j]) <= plans[h[i]].off
      BY <2>2, <3>1
    <3>. QED BY <2>1, <3>2
  <2>. QED BY <2>3, <2>4 DEF End2
<1>. DEFINE pad == PadTo(BlockPage, cursor)
            z == cursor + pad
<1>6. pad \in Nat /\ z % BlockPage = 0
  <2>1. BlockPage \in Nat \ {0}
    BY ConstantsAssumption
  <2>. QED BY <1>3, <2>1, PadLands
<1>7. Rewritten = [entries |-> es, end |-> z]
  BY DEF Rewritten, es
<1>. HIDE DEF pad
<1>8. z \in Nat /\ cursor <= z
  BY <1>3, <1>6
<1>. HIDE DEF z
<1>9. Rewritten.entries = es /\ Rewritten.end = z
  BY <1>7
<1>10. \A i \in 1 .. Len(es) : DataOff(es[i]) + DataLen(es[i]) <= z
  <2>. SUFFICES ASSUME NEW i \in 1 .. Len(es) PROVE DataOff(es[i]) + DataLen(es[i]) <= z
    OBVIOUS
  <2>1. DataOff(es[i]) \in Nat /\ DataLen(es[i]) \in Nat
    BY <1>1, EntryLens
  <2>. QED BY <1>3, <1>5, <1>8, <2>1
<1>11. Normal(Rewritten)
  BY <1>4, <1>5, <1>9, <1>10 DEF Normal
<1>. QED BY <1>1, <1>6, <1>7, <1>8, <1>9, <1>11

\* A rewrite that has just begun.
Fresh ==
    /\ pc = "order" /\ plans = <<>> /\ cursor = 0 /\ consumed = 0
    /\ left = DOMAIN apk.entries /\ apk.entries \in Seq(CdEntry)

\* Nothing is planned yet.
LEMMA NothingPlanned == Fresh => PlanningInv /\ InPlace(plans)
<1>. SUFFICES ASSUME Fresh PROVE PlanningInv /\ InPlace(plans)
  OBVIOUS
<1>. USE DEF Fresh
<1>1. /\ plans \in Seq(PlanType) /\ Len(plans) = 0 /\ 1 .. Len(plans) = {} /\ Done = {}
      /\ Taken = 0
  BY EmptySeq, LenProperties DEF Done, Taken
<1>2. Tiled(plans, 0) /\ Placed(plans, {}) /\ InPlace(plans)
  BY <1>1 DEF Tiled, Placed, InPlace
<1>3. CopyOnce(plans, 0, {})
  BY <1>1 DEF CopyOnce
<1>. QED BY <1>1, <1>2, <1>3 DEF PlanningInv, Planning

\* The entries of an APK that was rewritten are never refused.
LEMMA NormalIsAccepted ==
    ASSUME PlanTypeInv, Normal(apk)
    PROVE  /\ ~Unordered(apk.entries, apk.end)
           /\ More /\ cursor = consumed /\ consumed <= Entry.off =>
                 /\ Entry.policy = "output" /\ ~Overlaps /\ ~NoHeader /\ ~Overruns
                 /\ NewOff = Entry.off /\ Extra = Entry.extra /\ ~ExtraTooLong
<1>. DEFINE es == apk.entries
<1>1. /\ es \in Seq(CdEntry) /\ apk.end \in Nat /\ DOMAIN es = 1 .. Len(es)
      /\ LfhLen \in Nat \ {0} /\ cursor \in Nat /\ consumed \in Nat /\ U16 \in Nat
  BY LenProperties, ConstantsAssumption DEF PlanTypeInv
<1>2. ASSUME NEW i \in 1 .. Len(es)
      PROVE  /\ es[i] \in CdEntry /\ es[i].off \in Nat /\ es[i].off < DataOff(es[i])
             /\ es[i].off + LfhLen <= DataOff(es[i]) /\ DataOff(es[i]) \in Nat
             /\ DataLen(es[i]) \in Nat /\ ExtraLen(es[i].extra) \in Nat
             /\ DataOff(es[i]) + DataLen(es[i]) <= apk.end
  <2>1. es[i] \in CdEntry
    BY <1>1, ElementOfSeq
  <2>. DEFINE e == es[i]
  <2>2. e \in CdEntry /\ DataOff(e) + DataLen(e) <= apk.end
    BY <2>1 DEF Normal
  <2>. HIDE DEF e
  <2>3. /\ e.off \in Nat /\ PrefixLen(e) \in Nat /\ PrefixLen(e) > 0 /\ PrefixLen(e) >= LfhLen
        /\ DataOff(e) = e.off + PrefixLen(e) /\ DataOff(e) \in Nat /\ DataLen(e) \in Nat
        /\ ExtraLen(e.extra) \in Nat
    BY <2>2, EntryLens
  <2>4. e.off < DataOff(e) /\ e.off + LfhLen <= DataOff(e)
    BY <1>1, <2>3
  <2>. QED BY <2>2, <2>3, <2>4 DEF e
<1>3. ~Unordered(es, apk.end)
  <2>1. ASSUME NEW i \in 1 .. Len(es) PROVE ~(es[i].off + LfhLen > apk.end)
    <3>. HIDE DEF es
    <3>. QED BY <1>1, <1>2
  <2>2. ASSUME NEW i \in 1 .. Len(es), NEW j \in 1 .. Len(es), i # j, es[i].off = es[j].off
        PROVE  FALSE
    <3>1. \/ DataOff(es[i]) + DataLen(es[i]) <= es[j].off
          \/ DataOff(es[j]) + DataLen(es[j]) <= es[i].off
      BY <2>2 DEF Normal
    <3>. HIDE DEF es
    <3>2. /\ es[i].off < DataOff(es[i]) /\ DataOff(es[i]) \in Nat /\ DataLen(es[i]) \in Nat
          /\ es[j].off < DataOff(es[j]) /\ DataOff(es[j]) \in Nat /\ DataLen(es[j]) \in Nat
          /\ es[i].off \in Nat
      BY <1>2
    <3>. QED BY <2>2, <3>1, <3>2
  <2>. QED BY <1>1, <2>1, <2>2 DEF Unordered
<1>4. ASSUME More, cursor = consumed, consumed <= Entry.off
      PROVE  /\ Entry.policy = "output" /\ ~Overlaps /\ ~NoHeader /\ ~Overruns
             /\ NewOff = Entry.off /\ Extra = Entry.extra /\ ~ExtraTooLong
  <2>1. Idx \in 1 .. Len(es) /\ Entry = es[Idx]
    BY <1>4, NextEntry
  <2>2. /\ Entry.policy = "output" /\ Entry.header
        /\ Entry.extra = NewExtra(Entry, Entry.off + LfhLen + Entry.name)
        /\ ExtraLen(Entry.extra) < U16
    BY <2>1 DEF Normal
  <2>3. /\ Entry.off \in Nat /\ DataOff(Entry) \in Nat /\ DataLen(Entry) \in Nat
        /\ DataOff(Entry) + DataLen(Entry) <= apk.end /\ ExtraLen(Entry.extra) \in Nat
    BY <1>2, <2>1
  <2>4. NewOff = Entry.off /\ ~Overlaps /\ ~Overruns
    BY <1>1, <1>4, <2>3 DEF NewOff, Overlaps, Overruns
  <2>5. ~NoHeader
    BY <1>1, <2>2, <2>3 DEF NoHeader
  <2>6. Extra = Entry.extra
    BY <2>2, <2>4 DEF Extra
  <2>7. ~ExtraTooLong
    BY <1>1, <2>2, <2>3, <2>6 DEF ExtraTooLong
  <2>. QED BY <2>2, <2>4, <2>5, <2>6, <2>7
<1>. QED BY <1>3, <1>4

\* A step that leaves the APK alone leaves it normal.
LEMMA SameNormal ==
    ASSUME apk' = apk, page' = page, Normal(apk)
    PROVE  Normal(apk)'
BY DEF Normal, NewExtra, Align, Required

\* A record that is kept, the second time.
LEMMA CopyAgain ==
    ASSUME PlanInv, Copy
    PROVE  AgainInv'
<1>1. /\ More /\ ~Overlaps /\ ~Overruns /\ ~NoHeader /\ ~ExtraTooLong /\ Entry.policy = "output"
      /\ left' = left \ {Idx} /\ dropped' = dropped
      /\ apk' = apk /\ page' = page /\ round' = round /\ pc' = pc /\ pc = "entry"
      /\ cursor' = NewOff + NewPlan.hdr + NewPlan.len
      /\ consumed' = DataOff(Entry) + DataLen(Entry)
      /\ plans' = plans \o GapBefore \o <<NewPlan>>
  BY DEF Copy, Accepted, More
<1>. SUFFICES ASSUME round > 1
              PROVE  /\ Normal(apk)' /\ InPlace(plans)' /\ apk'.end % BlockPage = 0
                     /\ dropped' = 0 /\ cursor' = consumed'
                     /\ \A j \in left' : consumed' <= apk'.entries[j].off
  BY <1>1 DEF AgainInv
<1>2. PlanTypeInv /\ PlanningInv
  BY DEF PlanInv
<1>3. /\ Normal(apk) /\ InPlace(plans) /\ apk.end % BlockPage = 0 /\ dropped = 0
      /\ cursor = consumed /\ \A j \in left : consumed <= apk.entries[j].off
  BY <1>1 DEF PlanInv, AgainInv
<1>4. /\ apk.entries \in Seq(CdEntry) /\ Idx \in left /\ Entry = apk.entries[Idx]
      /\ Entry \in CdEntry /\ Idx \in 1 .. Len(apk.entries)
      /\ \A j \in left : Entry.off <= apk.entries[j].off
  BY <1>1, <1>2, NextEntry
<1>5. /\ Entry.off \in Nat /\ DataOff(Entry) \in Nat /\ DataLen(Entry) \in Nat
      /\ DataOff(Entry) = Entry.off + (LfhLen + Entry.name + ExtraLen(Entry.extra))
  BY <1>4, EntryLens DEF PrefixLen
<1>6. NewOff = Entry.off /\ Extra = Entry.extra
  <2>1. consumed <= Entry.off
    BY <1>3, <1>4
  <2>. QED BY <1>1, <1>2, <1>3, <2>1, NormalIsAccepted
<1>7. /\ Planning(plans \o GapBefore, NewOff, Entry.off, Done) /\ NewOff \in Nat
      /\ \A q \in 1 .. Len(plans \o GapBefore) :
            (plans \o GapBefore)[q].idx # 0 =>
                q \in 1 .. Len(plans) /\ (plans \o GapBefore)[q] = plans[q]
  BY <1>1, <1>2, GapBeforePlanned
<1>8. /\ NewPlan \in PlanType /\ NewPlan.idx = Idx /\ NewPlan.off = NewOff
      /\ NewPlan.hdr = LfhLen + Entry.name + ExtraLen(Extra) /\ NewPlan.hdr \in Nat
      /\ NewPlan.len = DataLen(Entry) /\ NewPlan.extra = Extra
  BY <1>1, <1>2, <1>7, NewPlanFacts
<1>9. cursor' = consumed'
  BY <1>1, <1>5, <1>6, <1>8
<1>10. ASSUME NEW j \in left' PROVE consumed' <= apk'.entries[j].off
  <2>1. j \in left /\ j # Idx /\ j \in 1 .. Len(apk.entries)
    BY <1>1, <1>2 DEF PlanTypeInv
  <2>. DEFINE e == apk.entries[j]
  <2>2. e \in CdEntry /\ Entry.off <= e.off
    BY <1>4, <2>1, ElementOfSeq
  <2>3. \/ DataOff(Entry) + DataLen(Entry) <= e.off
        \/ DataOff(e) + DataLen(e) <= Entry.off
    BY <1>3, <1>4, <2>1 DEF Normal
  <2>. HIDE DEF e
  <2>4. /\ e.off \in Nat /\ PrefixLen(e) \in Nat /\ PrefixLen(e) > 0
        /\ DataOff(e) = e.off + PrefixLen(e) /\ DataLen(e) \in Nat
    BY <2>2, EntryLens
  <2>5. DataOff(Entry) + DataLen(Entry) <= e.off
    BY <1>5, <2>2, <2>3, <2>4
  <2>. QED BY <1>1, <2>5 DEF e
<1>11. InPlace(plans)'
  <2>. DEFINE ps == plans \o GapBefore
              p == NewPlan
              t == ps \o <<p>>
              m == Len(ps)
  <2>1. ps \in Seq(PlanType) /\ p \in PlanType /\ plans' = t
    BY <1>1, <1>7, <1>8 DEF Planning
  <2>2. \A q \in 1 .. m : ps[q].idx # 0 => q \in 1 .. Len(plans) /\ ps[q] = plans[q]
    BY <1>7
  <2>3. p.idx = Idx /\ p.off = Entry.off /\ p.extra = Entry.extra
    BY <1>6, <1>8
  <2>. HIDE DEF ps, p, m
  <2>4. /\ Len(t) = m + 1 /\ \A q \in 1 .. m : t[q] = ps[q]
        /\ t[m + 1] = p /\ \A q \in 1 .. m + 1 : q # m + 1 => q \in 1 .. m
    BY <2>1, PlanAdded DEF m
  <2>. HIDE DEF t
  <2>5. ASSUME NEW q \in 1 .. Len(t), t[q].idx # 0
        PROVE  t[q].off = apk.entries[t[q].idx].off /\ t[q].extra = apk.entries[t[q].idx].extra
    <3>1. CASE q = m + 1
      BY <1>4, <2>3, <2>4, <3>1
    <3>2. CASE q # m + 1
      <4>1. q \in 1 .. m /\ t[q] = ps[q]
        BY <2>4, <3>2
      <4>2. q \in 1 .. Len(plans) /\ t[q] = plans[q]
        BY <2>2, <2>5, <4>1
      <4>. QED BY <1>3, <2>5, <4>2 DEF InPlace
    <3>. QED BY <3>1, <3>2
  <2>. QED BY <1>1, <2>1, <2>5 DEF InPlace
<1>12. Normal(apk)'
  BY <1>1, <1>3, SameNormal
<1>. QED BY <1>1, <1>3, <1>9, <1>10, <1>11, <1>12

\* The steps that make no plan for an entry, the second time.
LEMMA OtherAgain ==
    ASSUME PlanInv, Ordered \/ OrderFails \/ Gap \/ EntryFails \/ Skip
    PROVE  AgainInv'
<1>1. PlanTypeInv /\ PlanningInv /\ AgainInv
  BY DEF PlanInv
<1>2. /\ apk' = apk /\ page' = page /\ round' = round
      /\ Ordered \/ OrderFails \/ More
  BY DEF Ordered, OrderFails, Gap, EntryFails, Skip, Fail, Accepted
<1>. SUFFICES ASSUME round > 1 PROVE AgainInv'
  BY <1>2 DEF AgainInv
<1>3. /\ Normal(apk) /\ InPlace(plans) /\ pc # "failed" /\ dropped = 0
      /\ apk.end % BlockPage = 0
      /\ pc # "done" => cursor = consumed /\ \A j \in left : consumed <= apk.entries[j].off
  BY <1>1 DEF AgainInv
<1>4. ~Unordered(apk.entries, apk.end)
  BY <1>1, <1>3, NormalIsAccepted
<1>5. CASE More
  <2>1. cursor = consumed /\ consumed <= Entry.off
    <3>1. Idx \in left /\ Entry = apk.entries[Idx]
      BY <1>1, <1>5, NextEntry
    <3>. QED BY <1>3, <1>5, <3>1 DEF More
  <2>2. Entry.policy = "output" /\ ~Overlaps /\ ~NoHeader /\ ~Overruns /\ ~ExtraTooLong
    BY <1>1, <1>3, <1>5, <2>1, NormalIsAccepted
  <2>3. pc = "entry"
    BY <1>5 DEF More
  <2>. QED BY <2>2, <2>3 DEF Ordered, OrderFails, Gap, EntryFails, Skip
<1>6. CASE OrderFails
  BY <1>4, <1>6 DEF OrderFails
<1>7. CASE Ordered
  <2>1. /\ pc = "order" /\ pc' = "entry" /\ left' = left /\ cursor' = cursor
        /\ consumed' = consumed /\ dropped' = dropped /\ plans' = plans
    BY <1>7 DEF Ordered
  <2>2. Normal(apk)' /\ InPlace(plans)'
    BY <1>2, <1>3, <2>1, SameNormal DEF InPlace
  <2>. QED BY <1>2, <1>3, <2>1, <2>2 DEF AgainInv
<1>. QED BY <1>2, <1>5, <1>6, <1>7

\* The end, the second time.
LEMMA FinishAgain ==
    ASSUME PlanInv, Finish
    PROVE  AgainInv'
<1>1. /\ pc = "entry" /\ left = {} /\ pc' = "done" /\ cursor' = cursor + apk.end - consumed
      /\ apk' = apk /\ page' = page /\ round' = round /\ left' = left /\ consumed' = consumed
      /\ dropped' = dropped
  BY DEF Finish
<1>2. PlanTypeInv /\ PlanningInv /\ AgainInv
  BY DEF PlanInv
<1>3. \A q \in 1 .. Len(plans') : plans'[q].idx # 0 =>
          q \in 1 .. Len(plans) /\ plans'[q] = plans[q]
  BY <1>2, FinishStep
<1>4. cursor \in Nat /\ consumed \in Nat /\ apk.end \in Nat
  BY <1>2 DEF PlanTypeInv
<1>. SUFFICES ASSUME round > 1 PROVE AgainInv'
  BY <1>1 DEF AgainInv
<1>5. /\ Normal(apk) /\ InPlace(plans) /\ apk.end % BlockPage = 0 /\ dropped = 0
      /\ cursor = consumed
  BY <1>1, <1>2 DEF AgainInv
<1>6. cursor' = apk'.end
  BY <1>1, <1>4, <1>5
<1>7. Normal(apk)'
  BY <1>1, <1>5, SameNormal
<1>8. InPlace(plans)'
  BY <1>1, <1>3, <1>5 DEF InPlace
<1>. QED BY <1>1, <1>5, <1>6, <1>7, <1>8 DEF AgainInv

\* The next rewrite begins.
LEMMA AgainStep ==
    ASSUME PlanInv, Again
    PROVE  PlanInv'
<1>1. /\ pc = "done" /\ apk' = Rewritten /\ round' = round + 1 /\ pc' = "order" /\ page' = page
      /\ left' = DOMAIN apk'.entries /\ cursor' = 0 /\ consumed' = 0 /\ dropped' = 0
      /\ plans' = <<>>
  BY DEF Again
<1>2. PlanTypeInv /\ PlanningInv
  BY DEF PlanInv
<1>3. /\ Normal(Rewritten) /\ apk' \in [entries : Seq(CdEntry), end : Nat]
      /\ apk'.end % BlockPage = 0
  BY <1>1, <1>2, RewrittenIsNormal
<1>4. /\ apk'.entries \in Seq(CdEntry) /\ apk'.end \in Nat
      /\ DOMAIN apk'.entries = 1 .. Len(apk'.entries)
  BY <1>3, LenProperties
<1>5. PlanTypeInv'
  BY <1>1, <1>2, <1>3, <1>4 DEF PlanTypeInv
<1>6. PlanningInv' /\ InPlace(plans)'
  <2>1. Fresh'
    BY <1>1, <1>4 DEF Fresh
  <2>. QED BY <2>1, NothingPlanned, PTL
<1>7. Normal(apk)'
  BY <1>1, <1>3 DEF Normal, NewExtra, Align, Required
<1>8. AgainInv'
  <2>1. \A j \in left' : apk'.entries[j].off \in Nat
    BY <1>1, <1>4, ElementOfSeq, EntryLens
  <2>2. \A j \in left' : consumed' <= apk'.entries[j].off
    BY <1>1, <2>1
  <2>. QED BY <1>1, <1>3, <1>6, <1>7, <2>2 DEF AgainInv
<1>. QED BY <1>5, <1>6, <1>8 DEF PlanInv

\* Every step keeps the invariant.
LEMMA PlanInvStep == PlanInv /\ [Next]_vars => PlanInv'
<1>. SUFFICES ASSUME PlanInv, [Next]_vars PROVE PlanInv'
  OBVIOUS
<1>1. PlanTypeInv /\ PlanningInv /\ AgainInv
  BY DEF PlanInv
<1>2. ASSUME Ordered \/ OrderFails \/ EntryFails PROVE PlanInv'
  <2>1. /\ apk' = apk /\ page' = page /\ round' = round /\ left' = left /\ cursor' = cursor
        /\ consumed' = consumed /\ dropped' = dropped /\ plans' = plans
        /\ pc' \in {"entry", "failed"} /\ pc # "done"
    BY <1>2 DEF Ordered, OrderFails, EntryFails, Fail, More
  <2>2. PlanTypeInv'
    BY <1>1, <2>1 DEF PlanTypeInv
  <2>3. Planning(plans', cursor', Taken', Done')
    BY <1>1, <2>1 DEF PlanningInv, Taken, Done
  <2>4. PlanningInv'
    BY <2>1, <2>3, SamePlanning DEF PlanningInv
  <2>5. AgainInv'
    BY <1>2, OtherAgain
  <2>. QED BY <2>2, <2>4, <2>5 DEF PlanInv
<1>3. CASE Gap
  BY <1>1, <1>3, GapStep, OtherAgain DEF PlanInv
<1>4. CASE Skip
  BY <1>1, <1>4, SkipStep, OtherAgain DEF PlanInv
<1>5. CASE Copy
  BY <1>1, <1>5, CopyStep, CopyAgain DEF PlanInv
<1>6. CASE Finish
  BY <1>1, <1>6, FinishStep, FinishAgain DEF PlanInv
<1>7. CASE Again
  BY <1>7, AgainStep
<1>8. CASE UNCHANGED vars
  <2>1. /\ apk' = apk /\ page' = page /\ round' = round /\ left' = left /\ cursor' = cursor
        /\ consumed' = consumed /\ dropped' = dropped /\ plans' = plans /\ pc' = pc
    BY <1>8 DEF vars
  <2>2. PlanTypeInv'
    BY <1>1, <2>1 DEF PlanTypeInv
  <2>3. Planning(plans', cursor', Taken', Done')
    BY <1>1, <2>1 DEF PlanningInv, Taken, Done
  <2>4. PlanningInv'
    BY <1>1, <2>1, <2>3, SamePlanning DEF PlanningInv
  <2>5. AgainInv'
    <3>1. round > 1 => Normal(apk)'
      BY <1>1, <2>1, SameNormal DEF AgainInv
    <3>2. InPlace(plans) => InPlace(plans)'
      BY <2>1 DEF InPlace
    <3>. QED BY <1>1, <2>1, <3>1, <3>2 DEF AgainInv
  <2>. QED BY <2>2, <2>4, <2>5 DEF PlanInv
<1>. QED BY <1>2, <1>3, <1>4, <1>5, <1>6, <1>7, <1>8 DEF Next, Finished

\* The invariant holds when the first rewrite begins.
LEMMA PlanInvStarts == Init => PlanInv
<1>. SUFFICES ASSUME Init PROVE PlanInv
  OBVIOUS
<1>1. apk \in [entries : Seq(CdEntry), end : Nat] /\ page \in Nat
  BY ConstantsAssumption DEF Init
<1>2. apk.entries \in Seq(CdEntry) /\ apk.end \in Nat /\ DOMAIN apk.entries = 1 .. Len(apk.entries)
  BY <1>1, LenProperties
<1>3. PlanTypeInv
  BY <1>1, <1>2 DEF Init, PlanTypeInv
<1>4. PlanningInv
  BY <1>2, NothingPlanned DEF Init, Fresh
<1>5. AgainInv
  BY DEF Init, AgainInv
<1>. QED BY <1>3, <1>4, <1>5 DEF PlanInv

\* The invariant of the planner.
LEMMA PlanInvAlways == Spec => []PlanInv
BY PlanInvStarts, PlanInvStep, PTL DEF Spec

-----------------------------------------------------------------------------
(* The theorems about the planner.                                         *)

\* The plans lie one behind the other in the output at every moment of the
\* planning, whatever the entries: the order the binary searches of
\* assemble_and_hash rely on.
THEOREM PlansAlwaysTile == Spec => []PlansTile
<1>1. PlanInv => PlansTile
  <2>. SUFFICES ASSUME PlanInv PROVE PlansTile
    OBVIOUS
  <2>1. plans \in Seq(PlanType) /\ Tiled(plans, cursor)
    BY DEF PlanInv, PlanningInv, Planning
  <2>2. DOMAIN plans = 1 .. Len(plans) /\ (plans = <<>> <=> Len(plans) = 0)
    BY <2>1, LenProperties, EmptySeq
  <2>. QED BY <2>1, <2>2 DEF PlansTile, Tiled
<1>. QED BY <1>1, PlanInvAlways, PTL

\* The plans are a layout, and new_end is where the last of them ends.
PlansFeedTheAssembly ==
    pc = "done" =>
        /\ IsLayout(Laid(plans))
        /\ cursor = IF Laid(plans) = <<>> THEN 0 ELSE OutEnd(Laid(plans)[Len(Laid(plans))])

\* What the planner ends with is what the producers of the rewrite assume of
\* their plans, so that the theorems about the assembly hold of every APK
\* that can be planned for.
THEOREM PlannerFeedsAssembly == Spec => []PlansFeedTheAssembly
<1>1. PlanInv => PlansFeedTheAssembly
  <2>. SUFFICES ASSUME PlanInv PROVE PlansFeedTheAssembly
    OBVIOUS
  <2>. DEFINE L == Laid(plans)
              m == Len(plans)
  <2>1. plans \in Seq(PlanType) /\ Tiled(plans, cursor)
    BY DEF PlanInv, PlanningInv, Planning
  <2>2. /\ IsLayout(L) /\ Len(L) = m /\ m \in Nat
        /\ \A q \in 1 .. m : OutEnd(L[q]) = plans[q].off + plans[q].hdr + plans[q].len
    BY <2>1, TiledIsLayout
  <2>. HIDE DEF L, m
  <2>3. L = <<>> <=> m = 0
    <3>1. L \in Seq([off : Nat, hdr : Nat, src : Nat, len : Nat])
      BY <2>2 DEF IsLayout
    <3>. QED BY <2>2, <3>1, EmptySeq
  <2>4. m # 0 => m \in 1 .. m
    BY <2>2
  <2>5. cursor = IF m = 0 THEN 0 ELSE OutEnd(L[m])
    BY <2>1, <2>2, <2>4 DEF Tiled, m
  <2>. QED BY <2>2, <2>3, <2>5 DEF PlansFeedTheAssembly, L
<1>. QED BY <1>1, PlanInvAlways, PTL

\* A byte is left out if some entry is not kept with it.
LEMMA LeftOutBytes ==
    ASSUME PlanTypeInv, NEW n \in Nat
    PROVE  n \in LeftOut <=> \E i \in 1 .. Len(apk.entries) : Drops(apk.entries[i], n)
<1>. DEFINE es == apk.entries
            m == Len(es)
            A == {j \in DOMAIN es : es[j].policy = "output"}
            B == {j \in DOMAIN es : es[j].policy = "skip"}
            X(i) == ByteRange(es[i].off, PrefixLen(es[i]))
            Y(i) == ByteRange(es[i].off, PrefixLen(es[i]) + DataLen(es[i]))
<1>1. es \in Seq(CdEntry) /\ DOMAIN es = 1 .. m /\ \A i \in 1 .. m : es[i] \in CdEntry
  <2>1. es \in Seq(CdEntry)
    BY DEF PlanTypeInv
  <2>. QED BY <2>1, LenProperties, ElementOfSeq
<1>2. ASSUME NEW i \in 1 .. m
      PROVE  /\ n \in X(i) <=> es[i].off <= n /\ n < DataOff(es[i])
             /\ n \in Y(i) <=> es[i].off <= n /\ n < DataOff(es[i]) + DataLen(es[i])
  <2>. DEFINE e == es[i]
              o == e.off
              l == PrefixLen(e)
              d == DataLen(e)
              a == DataOff(e)
  <2>1. e \in CdEntry
    BY <1>1
  <2>2. o \in Nat /\ l \in Nat /\ d \in Nat /\ a = o + l
    <3>. HIDE DEF e
    <3>. QED BY <2>1, EntryLens
  <2>3. X(i) = o .. o + l - 1 /\ Y(i) = o .. o + (l + d) - 1
    BY DEF ByteRange
  <2>. HIDE DEF X, Y, o, l, d, a
  <2>4. /\ n \in X(i) <=> o <= n /\ n < a
        /\ n \in Y(i) <=> o <= n /\ n < a + d
    BY <2>2, <2>3
  <2>. QED BY <2>4 DEF o, a, d
<1>3. LeftOut = (UNION {X(i) : i \in A}) \cup (UNION {Y(i) : i \in B})
  BY DEF LeftOut
<1>. HIDE DEF X, Y
<1>4. n \in LeftOut <=> (\E i \in A : n \in X(i)) \/ (\E i \in B : n \in Y(i))
  <2>. HIDE DEF A, B
  <2>1. n \in UNION {X(i) : i \in A} <=> \E i \in A : n \in X(i)
    BY Zenon
  <2>2. n \in UNION {Y(i) : i \in B} <=> \E i \in B : n \in Y(i)
    BY Zenon
  <2>. QED BY <1>3, <2>1, <2>2, Zenon
<1>5. \A i \in 1 .. m : Drops(es[i], n) <=> (i \in A /\ n \in X(i)) \/ (i \in B /\ n \in Y(i))
  BY <1>1, <1>2 DEF Drops
<1>6. A \subseteq 1 .. m /\ B \subseteq 1 .. m
  BY <1>1
<1>. HIDE DEF A, B
<1>. QED BY <1>4, <1>5, <1>6

\* Every byte of the entries section but the old headers of the entries kept
\* and the skipped records is copied, once and in its place among the others.
THEOREM EveryByteIsCopiedOnce == Spec => []EveryByteOnce
<1>1. PlanInv => EveryByteOnce
  <2>. SUFFICES ASSUME PlanInv, pc = "done" PROVE EveryByteOnce
    BY DEF EveryByteOnce
  <2>1. PlanTypeInv /\ plans \in Seq(PlanType) /\ CopyOnce(plans, apk.end, Done)
    BY DEF PlanInv, PlanningInv, Planning, Taken
  <2>2. Done = 1 .. Len(apk.entries) /\ apk.end \in Nat
    BY DEF PlanInv, PlanningInv, PlanTypeInv, Done
  <2>. DEFINE m == Len(plans)
              Q == UNION {ByteRange(plans[k].src, plans[k].len) : k \in DOMAIN plans}
  <2>3. DOMAIN plans = 1 .. m /\ \A k \in 1 .. m : plans[k].src \in Nat /\ plans[k].len \in Nat
    BY <2>1, LenProperties, ElementOfSeq, PlanFields
  <2>4. \A n : n \in Q => n \in Nat
    BY <2>3 DEF ByteRange
  <2>5. \A n : n \in ByteRange(0, apk.end) <=> n \in Nat /\ n < apk.end
    BY <2>2 DEF ByteRange
  <2>6. ASSUME NEW n \in Nat
        PROVE  n \in Q <=> n \in ByteRange(0, apk.end) /\ n \notin LeftOut
    <3>1. n \in Q <=> \E k \in 1 .. m : plans[k].src <= n /\ n < plans[k].src + plans[k].len
      <4>1. \A k \in 1 .. m : n \in ByteRange(plans[k].src, plans[k].len)
                                <=> plans[k].src <= n /\ n < plans[k].src + plans[k].len
        BY <2>3 DEF ByteRange
      <4>2. n \in Q <=> \E k \in 1 .. m : n \in ByteRange(plans[k].src, plans[k].len)
        BY <2>3
      <4>. HIDE DEF Q
      <4>. QED BY <4>1, <4>2
    <3>2. (\E k \in 1 .. m : plans[k].src <= n /\ n < plans[k].src + plans[k].len)
              <=> n < apk.end /\ \A i \in Done : ~Drops(apk.entries[i], n)
      BY <2>1 DEF CopyOnce
    <3>3. n \in LeftOut <=> \E i \in Done : Drops(apk.entries[i], n)
      BY <2>1, <2>2, LeftOutBytes
    <3>. HIDE DEF Q, m
    <3>. QED BY <2>5, <3>1, <3>2, <3>3
  <2>. HIDE DEF Q
  <2>7. Q = ByteRange(0, apk.end) \ LeftOut
    BY <2>4, <2>5, <2>6
  <2>8. \A j, k \in DOMAIN plans : j < k => plans[j].src + plans[j].len <= plans[k].src
    BY <2>1, <2>3 DEF CopyOnce
  <2>. QED BY <2>7, <2>8 DEF EveryByteOnce, Q
<1>. QED BY <1>1, PlanInvAlways, PTL

\* A multiple of a multiple.
LEMMA MultipleOf ==
    ASSUME NEW x \in Nat, NEW a \in Nat \ {0}, NEW r \in Nat \ {0}, x % a = 0, a % r = 0
    PROVE  x % r = 0
<1>. DEFINE u == x \div a
            v == a \div r
<1>1. u \in Nat /\ v \in Nat /\ x = a * u /\ a = r * v
  OBVIOUS
<1>. HIDE DEF u, v
<1>2. x = r * (v * u) /\ v * u \in Nat
  BY <1>1
<1>. DEFINE w == v * u
<1>3. w \in Nat /\ x = r * w + 0 /\ 0 \in 0 .. r - 1
  BY <1>2
<1>. HIDE DEF w
<1>. QED BY <1>3, Division

\* The alignment that is used is a multiple of the one the rule asks for.
LEMMA AlignFits ==
    ASSUME NEW e \in CdEntry, page \in Nat, Fits(e)
    PROVE  Align(e) % Required(e) = 0
<1>. DEFINE r == Required(e)
            d == Declared(e.extra)
<1>1. r \in Nat \ {0} /\ d \in Nat /\ (d <= r \/ d % r = 0)
  <2>1. d \in 0 .. U16 - 1 /\ U16 \in Nat
    BY EntryLens, DeclaredIsShort, ConstantsAssumption
  <2>2. r \in Nat \ {0}
    BY EntryLens
  <2>3. d <= r \/ d % r = 0
    BY DEF Fits
  <2>. QED BY <2>1, <2>2, <2>3
<1>2. Align(e) = IF r >= d THEN r ELSE d
  BY DEF Align, Larger
<1>. HIDE DEF r, d
<1>3. r % r = 0
  <2>1. r * 1 + 0 = r /\ 0 \in 0 .. r - 1
    BY <1>1
  <2>2. (r * 1 + 0) % r = 0
    BY <1>1, <2>1, Division
  <2>. QED BY <2>1, <2>2
<1>4. Align(e) % r = 0
  BY <1>1, <1>2, <1>3
<1>. QED BY <1>4 DEF r

\* The padding of a plan counts the header it is part of.
LEMMA Aligned == PlanInv => RewrittenIsAligned
<1>. SUFFICES ASSUME PlanInv, pc = "done", \A i \in DOMAIN apk.entries : Fits(apk.entries[i]),
                     NEW i \in DOMAIN NewEntries
              PROVE  DataOff(NewEntries[i]) % Required(NewEntries[i]) = 0
  BY DEF RewrittenIsAligned
<1>1. /\ PlanTypeInv /\ PlanningInv /\ plans \in Seq(PlanType) /\ page \in Nat
      /\ apk.entries \in Seq(CdEntry) /\ DOMAIN apk.entries = 1 .. Len(apk.entries)
  BY LenProperties DEF PlanInv, PlanningInv, Planning, PlanTypeInv
<1>2. i \in 1 .. Len(NewEntries)
  BY <1>1, NewEntriesFacts, LenProperties
<1>3. PICK q \in 1 .. Len(plans) :
          /\ plans[q].idx \in 1 .. Len(apk.entries)
          /\ PlanFor(plans[q], apk.entries[plans[q].idx])
          /\ NewEntries[i] = Moved(apk.entries[plans[q].idx], plans[q])
  BY <1>1, <1>2, NewEntriesFacts
<1>. DEFINE p == plans[q]
            e == apk.entries[p.idx]
            start == p.off + LfhLen + e.name
<1>4. p \in PlanType /\ e \in CdEntry /\ Fits(e)
  <2>1. p \in PlanType
    BY <1>1, ElementOfSeq
  <2>. QED BY <1>1, <1>3, <2>1, ElementOfSeq
<1>5. PlanFor(p, e) /\ NewEntries[i] = Moved(e, p)
  BY <1>3
<1>. HIDE DEF p, e
<1>6. p.off \in Nat /\ p.extra \in Seq(Field) /\ e.name \in Nat /\ LfhLen \in Nat
  BY <1>4, PlanFields, EntryLens, ConstantsAssumption
<1>7. /\ Required(NewEntries[i]) = Required(e)
      /\ DataOff(NewEntries[i]) = p.off + (LfhLen + e.name + ExtraLen(p.extra))
  BY <1>4, <1>5, <1>6, MovedFacts
<1>8. p.extra = NewExtra(e, start) /\ start \in Nat
  BY <1>5, <1>6 DEF PlanFor
<1>. DEFINE l == ExtraLen(p.extra)
            r == Required(e)
            a == Align(e)
<1>9. DataOff(NewEntries[i]) = start + l /\ l \in Nat
  <2>1. l \in Nat
    BY <1>6, ExtraLens
  <2>. HIDE DEF l
  <2>2. DataOff(NewEntries[i]) = p.off + (LfhLen + e.name + l)
    BY <1>7 DEF l
  <2>. QED BY <1>6, <2>1, <2>2
<1>10. r \in Nat \ {0} /\ a \in Nat \ {0} /\ a % r = 0
  BY <1>1, <1>4, EntryLens, AlignFacts, AlignFits
<1>11. r > 1 => (start + l) % a = 0
  <2>. HIDE DEF start
  <2>. QED BY <1>1, <1>4, <1>8, NewExtraFacts
<1>. DEFINE x == start + l
<1>12. x \in Nat
  BY <1>8, <1>9
<1>. HIDE DEF start, l, r, a, x
<1>13. CASE r > 1
  <2>1. x % a = 0
    BY <1>11, <1>13 DEF x
  <2>2. x % r = 0
    BY <1>10, <1>12, <2>1, MultipleOf
  <2>. QED BY <1>7, <1>9, <2>2 DEF x, r
<1>14. CASE ~(r > 1)
  <2>1. r = 1 /\ 1 * x + 0 = x
    BY <1>10, <1>12, <1>14
  <2>2. x % r = 0
    BY <1>12, <2>1
  <2>. QED BY <1>7, <1>9, <2>2 DEF x, r
<1>. QED BY <1>13, <1>14

\* The data of every entry of the new directory is where the rule asks for
\* it, if what the entries declare is a multiple of the rule or less: padding
\* counts the header it is part of, whatever fields the entry had.
THEOREM RewritesAreAligned == Spec => []RewrittenIsAligned
BY Aligned, PlanInvAlways, PTL

\* A second rewrite leaves every entry as and where it is.
LEMMA Stable == PlanInv => RewriteIsStable
<1>. SUFFICES ASSUME PlanInv, round > 1
              PROVE  pc # "failed" /\ (pc = "done" => Rewritten = apk /\ dropped = 0)
  BY DEF RewriteIsStable
<1>1. /\ PlanTypeInv /\ PlanningInv /\ Normal(apk) /\ InPlace(plans)
      /\ pc # "failed" /\ dropped = 0 /\ (pc = "done" => cursor = apk.end)
      /\ apk.end % BlockPage = 0
  BY DEF PlanInv, AgainInv
<1>2. ASSUME pc = "done" PROVE Rewritten = apk
  <2>. DEFINE es == apk.entries
              m == Len(es)
  <2>1. /\ es \in Seq(CdEntry) /\ DOMAIN es = 1 .. m /\ m \in Nat
        /\ \A i \in 1 .. m : es[i] \in CdEntry /\ es[i].policy = "output"
        /\ apk = [entries |-> es, end |-> apk.end]
    <3>1. apk \in [entries : Seq(CdEntry), end : Nat]
      BY <1>1 DEF PlanTypeInv
    <3>2. es \in Seq(CdEntry) /\ apk = [entries |-> es, end |-> apk.end]
      BY <3>1
    <3>3. \A i \in 1 .. m : es[i].policy = "output"
      BY <1>1 DEF Normal
    <3>. QED BY <3>2, <3>3, LenProperties, ElementOfSeq
  <2>2. /\ plans \in Seq(PlanType) /\ DOMAIN plans = 1 .. Len(plans) /\ Placed(plans, 1 .. m)
    <3>1. Done = 1 .. m
      BY <1>1, <1>2 DEF PlanningInv, Done
    <3>2. plans \in Seq(PlanType) /\ Placed(plans, Done)
      BY <1>1 DEF PlanningInv, Planning
    <3>. QED BY <3>1, <3>2, LenProperties
  <2>3. Planned = 1 .. m
    BY <2>1, <2>2 DEF Planned, Placed
  <2>4. ASSUME NEW i \in 1 .. m PROVE Moved(es[i], PlanOf(i)) = es[i]
    <3>. DEFINE p == PlanOf(i)
    <3>1. \E k \in DOMAIN plans : plans[k].idx = i
      BY <2>3 DEF Planned
    <3>2. PICK k \in 1 .. Len(plans) : p = plans[k] /\ plans[k].idx = i
      BY <2>2, <3>1 DEF PlanOf
    <3>3. i # 0
      BY <2>1
    <3>4. p.off = es[i].off /\ p.extra = es[i].extra
      BY <1>1, <3>2, <3>3 DEF InPlace
    <3>. HIDE DEF p
    <3>5. p.off \in Nat /\ p.extra \in Seq(Field) /\ es[i] \in CdEntry
      BY <2>1, <3>4, EntryLens
    <3>6. Moved(es[i], p) = es[i]
      BY <3>4, <3>5, MovedFacts
    <3>. QED BY <3>6 DEF p
  <2>. DEFINE F == [i \in DOMAIN es |-> IF i \in Planned THEN Moved(es[i], PlanOf(i)) ELSE es[i]]
  <2>5. F = es
    <3>1. F = [i \in 1 .. m |-> es[i]]
      BY <2>1, <2>3, <2>4
    <3>2. es = [i \in 1 .. m |-> es[i]]
      BY <2>1
    <3>. QED BY <3>1, <3>2
  <2>6. NewEntries = Picked(F, Planned)
    BY DEF NewEntries
  <2>. HIDE DEF F
  <2>7. NewEntries = es
    BY <2>1, <2>3, <2>5, <2>6, PickedMost
  <2>8. PadTo(BlockPage, apk.end) = 0 /\ apk.end + 0 = apk.end
    <3>1. apk.end \in Nat /\ BlockPage \in Nat \ {0}
      BY <1>1, ConstantsAssumption DEF PlanTypeInv
    <3>2. BlockPage - 0 = BlockPage * 1 + 0 /\ 0 \in 0 .. BlockPage - 1
      BY <3>1
    <3>3. (BlockPage - 0) % BlockPage = 0
      BY <3>1, <3>2, Division
    <3>. QED BY <1>1, <3>1, <3>3 DEF PadTo
  <2>. QED BY <1>1, <1>2, <2>1, <2>7, <2>8 DEF Rewritten
<1>. QED BY <1>1, <1>2

\* Rewriting what was rewritten drops nothing, refuses nothing and changes
\* nothing, down to the last offset and the last byte of padding.
THEOREM RewritesAreStable == Spec => []RewriteIsStable
BY Stable, PlanInvAlways, PTL

-----------------------------------------------------------------------------
(* The checks that decide whether an APK is rewritten.                     *)

\* Two records that do not overlap.
ApartFrom(e, f) == DataOff(e) + DataLen(e) <= f.off \/ DataOff(f) + DataLen(f) <= e.off

\* The kept entries behind the loop do not overlap.
Apart ==
    \A i, j \in Done :
        i # j /\ apk.entries[i].policy = "output" /\ apk.entries[j].policy = "output"
            => ApartFrom(apk.entries[i], apk.entries[j])

\* No step puts an entry behind the loop that overlaps one that is there.
LEMMA ApartStep == PlanInv /\ Apart /\ [Next]_vars => Apart'
<1>. SUFFICES ASSUME PlanInv, Apart, [Next]_vars PROVE Apart'
  OBVIOUS
<1>1. PlanTypeInv /\ PlanningInv
  BY DEF PlanInv
<1>2. CASE apk' = apk /\ left' = left
  BY <1>2 DEF Apart, Done, ApartFrom, DataOff, DataLen, PrefixLen
<1>3. CASE Gap \/ Skip
  <2>1. More /\ left' = left \ {Idx} /\ apk' = apk /\ Entry.policy # "output"
    BY <1>3 DEF Gap, Skip, Accepted
  <2>2. Done' = Done \cup {Idx} /\ Entry = apk.entries[Idx]
    BY <1>1, <2>1, NextEntry DEF Done
  <2>. QED BY <2>1, <2>2 DEF Apart
<1>4. CASE Copy
  <2>1. More /\ ~Overlaps /\ left' = left \ {Idx} /\ apk' = apk /\ pc = "entry"
    BY <1>4 DEF Copy, Accepted, More
  <2>2. Done' = Done \cup {Idx} /\ Entry = apk.entries[Idx] /\ Entry \in CdEntry
    BY <1>1, <2>1, NextEntry DEF Done
  <2>3. consumed <= Entry.off /\ consumed \in Nat /\ Entry.off \in Nat
    <3>1. consumed \in Nat /\ Entry.off \in Nat
      BY <1>1, <2>2, EntryLens DEF PlanTypeInv
    <3>. QED BY <2>1, <3>1 DEF Overlaps
  <2>4. ASSUME NEW i \in Done, apk.entries[i].policy = "output"
        PROVE  ApartFrom(apk.entries[i], Entry) /\ ApartFrom(Entry, apk.entries[i])
    <3>. DEFINE e == apk.entries[i]
    <3>1. DataOff(e) + DataLen(e) <= consumed
      BY <1>1, <2>1, <2>4 DEF PlanningInv, Planning, CopyOnce, Taken
    <3>2. e \in CdEntry
      BY <1>1, ElementOfSeq DEF PlanTypeInv, Done
    <3>. HIDE DEF e
    <3>3. DataOff(e) \in Nat /\ DataLen(e) \in Nat
      BY <3>2, EntryLens
    <3>4. DataOff(e) + DataLen(e) <= Entry.off
      BY <2>3, <3>1, <3>3
    <3>. QED BY <3>4 DEF ApartFrom, e
  <2>. QED BY <2>1, <2>2, <2>4 DEF Apart
<1>5. CASE Again
  <2>1. Done' = {}
    BY <1>1, <1>5, RewrittenIsNormal, LenProperties DEF Again, Done
  <2>. QED BY <2>1 DEF Apart
<1>. QED
  BY <1>2, <1>3, <1>4, <1>5
  DEF Next, Ordered, OrderFails, EntryFails, Finish, Finished, Fail, vars

\* The kept entries of a planned APK do not overlap.
LEMMA AlwaysApart == Spec => [](PlanInv /\ Apart)
<1>1. Init => Apart
  <2>. SUFFICES ASSUME Init PROVE Apart
    OBVIOUS
  <2>1. PlanTypeInv
    BY PlanInvStarts DEF PlanInv
  <2>2. Done = {}
    BY <2>1, LenProperties DEF Init, Done, PlanTypeInv
  <2>. QED BY <2>2 DEF Apart
<1>. QED BY <1>1, PlanInvStarts, PlanInvStep, ApartStep, PTL DEF Spec

\* What the checks see of an APK that was planned to its end: the kept
\* entries, each with a header and its data within the entries section, and
\* no two of them overlapping.
LEMMA OutputFacts ==
    ASSUME PlanInv, Apart, pc = "done"
    PROVE  /\ Output \in Seq(CdEntry) /\ DOMAIN Output = 1 .. Len(Output)
           /\ \A k \in 1 .. Len(Output) :
                 /\ Output[k].header /\ Output[k].off \in Nat /\ Output[k].off + LfhLen <= apk.end
                 /\ DataOff(Output[k]) \in Nat /\ Output[k].off < DataOff(Output[k])
                 /\ DataLen(Output[k]) \in Nat /\ DataOff(Output[k]) + DataLen(Output[k]) <= apk.end
                 /\ \E i \in DOMAIN apk.entries : Output[k] = apk.entries[i]
           /\ \A k, l \in 1 .. Len(Output) : k # l => ApartFrom(Output[k], Output[l])
<1>. DEFINE es == apk.entries
            O == {i \in DOMAIN es : es[i].policy = "output"}
<1>1. /\ es \in Seq(CdEntry) /\ DOMAIN es = 1 .. Len(es) /\ Done = 1 .. Len(es)
      /\ apk.end \in Nat /\ plans \in Seq(PlanType)
      /\ Placed(plans, Done) /\ CopyOnce(plans, apk.end, Done)
  <2>1. es \in Seq(CdEntry) /\ apk.end \in Nat
    BY DEF PlanInv, PlanTypeInv
  <2>. QED BY <2>1, LenProperties DEF PlanInv, PlanningInv, Planning, Taken, Done
<1>2. O \in SUBSET (1 .. Len(es)) /\ Output = Picked(es, O)
  BY <1>1 DEF Output
<1>3. ASSUME NEW i \in O
      PROVE  /\ es[i].header /\ es[i].off \in Nat /\ es[i].off + LfhLen <= apk.end
             /\ DataOff(es[i]) \in Nat /\ es[i].off < DataOff(es[i])
             /\ DataLen(es[i]) \in Nat /\ DataOff(es[i]) + DataLen(es[i]) <= apk.end
  <2>1. i \in Done /\ es[i].policy = "output" /\ es[i] \in CdEntry
    BY <1>1, ElementOfSeq
  <2>2. es[i].header
    BY <1>1, <2>1 DEF Placed, PlanFor
  <2>3. DataOff(es[i]) + DataLen(es[i]) <= apk.end
    BY <1>1, <2>1 DEF CopyOnce
  <2>. DEFINE e == es[i]
  <2>4. e \in CdEntry /\ DataOff(e) + DataLen(e) <= apk.end
    BY <2>1, <2>3
  <2>. HIDE DEF e
  <2>5. /\ e.off \in Nat /\ PrefixLen(e) \in Nat /\ PrefixLen(e) > 0 /\ PrefixLen(e) >= LfhLen
        /\ DataOff(e) = e.off + PrefixLen(e) /\ DataOff(e) \in Nat /\ DataLen(e) \in Nat
        /\ LfhLen \in Nat
    BY <2>4, EntryLens, ConstantsAssumption
  <2>6. e.off + LfhLen <= apk.end /\ e.off < DataOff(e)
    BY <1>1, <2>4, <2>5
  <2>. QED BY <2>2, <2>4, <2>5, <2>6 DEF e
<1>4. \A i, j \in O : i # j => ApartFrom(es[i], es[j])
  BY <1>1 DEF Apart
<1>. HIDE DEF O
<1>5. PICK g : Picks(g, Output, es, O)
  BY <1>1, <1>2, PickedPlaces
<1>6. Output \in Seq(CdEntry) /\ DOMAIN Output = 1 .. Len(Output)
  BY <1>1, <1>2, PickedPlaces, LenProperties
<1>7. /\ \A k \in 1 .. Len(Output) : g[k] \in O /\ Output[k] = es[g[k]]
      /\ \A k, l \in 1 .. Len(Output) : k # l => g[k] # g[l]
  BY <1>5 DEF Picks
<1>. HIDE DEF es
<1>8. ASSUME NEW k \in 1 .. Len(Output) PROVE \E i \in DOMAIN es : Output[k] = es[i]
  BY <1>1, <1>2, <1>7
<1>9. ASSUME NEW k \in 1 .. Len(Output)
      PROVE  /\ Output[k].header /\ Output[k].off \in Nat /\ Output[k].off + LfhLen <= apk.end
             /\ DataOff(Output[k]) \in Nat /\ Output[k].off < DataOff(Output[k])
             /\ DataLen(Output[k]) \in Nat /\ DataOff(Output[k]) + DataLen(Output[k]) <= apk.end
  <2>1. g[k] \in O /\ Output[k] = es[g[k]]
    BY <1>7
  <2>. QED BY <1>3, <2>1
<1>10. ASSUME NEW k \in 1 .. Len(Output), NEW l \in 1 .. Len(Output), k # l
       PROVE  ApartFrom(Output[k], Output[l])
  <2>1. /\ g[k] \in O /\ Output[k] = es[g[k]] /\ g[l] \in O /\ Output[l] = es[g[l]]
        /\ g[k] # g[l]
    BY <1>7, <1>10
  <2>. QED BY <1>4, <2>1
<1>. QED BY <1>6, <1>8, <1>9, <1>10 DEF es

\* What quick_misaligned says, one of the kept entries says, or none does.
LEMMA SampleIsOutput ==
    ASSUME PlanInv, Apart, pc = "done"
    PROVE  \/ QuickMisaligned = "unproven"
           \/ \E k \in 1 .. Len(Output) : QuickMisaligned = HeaderVerdict(Output[k])
<1>. DEFINE I == {i \in DOMAIN Output : Required(Output[i]) > 1}
            S == {k \in 1 .. Len(ToAlign) : k <= Sample /\ HeaderVerdict(ToAlign[k]) # "unproven"}
            c == CHOOSE k \in S : \A j \in S : k <= j
<1>1. Output \in Seq(CdEntry) /\ I \in SUBSET (1 .. Len(Output)) /\ ToAlign = Picked(Output, I)
  BY OutputFacts DEF ToAlign
<1>2. QuickMisaligned = IF S = {} THEN "unproven" ELSE HeaderVerdict(ToAlign[c])
  BY DEF QuickMisaligned
<1>3. PICK g : Picks(g, ToAlign, Output, I)
  <2>. HIDE DEF I
  <2>. QED BY <1>1, PickedPlaces
<1>4. ASSUME S # {} PROVE c \in 1 .. Len(ToAlign)
  <2>1. S \subseteq 1 .. Len(ToAlign) /\ Len(ToAlign) \in Nat
    <3>1. ToAlign \in Seq(CdEntry)
      <4>. HIDE DEF I
      <4>. QED BY <1>1, PickedPlaces
    <3>. QED BY <3>1, LenProperties
  <2>. HIDE DEF S
  <2>2. \E k \in S : \A j \in S : k <= j
    BY <1>4, <2>1, LeastNumber
  <2>. QED BY <2>1, <2>2
<1>5. ASSUME S # {} PROVE \E k \in 1 .. Len(Output) : ToAlign[c] = Output[k]
  <2>1. g[c] \in I /\ ToAlign[c] = Output[g[c]]
    <3>. HIDE DEF I, c, S
    <3>. QED BY <1>3, <1>4, <1>5 DEF Picks
  <2>. HIDE DEF I, c, S
  <2>. QED BY <1>1, <2>1
<1>. HIDE DEF S, c
<1>. QED BY <1>2, <1>5

\* Neither check refuses such an APK, and what the sample shows is a matter
\* of alignment.
LEMMA NotRefused ==
    ASSUME PlanInv, Apart, pc = "done"
    PROVE  ~Refused
<1>1. /\ Output \in Seq(CdEntry) /\ DOMAIN Output = 1 .. Len(Output)
      /\ \A k \in 1 .. Len(Output) :
            /\ Output[k].header /\ Output[k].off \in Nat /\ Output[k].off + LfhLen <= apk.end
            /\ DataOff(Output[k]) \in Nat /\ Output[k].off < DataOff(Output[k])
            /\ DataLen(Output[k]) \in Nat /\ DataOff(Output[k]) + DataLen(Output[k]) <= apk.end
      /\ \A k, l \in 1 .. Len(Output) : k # l => ApartFrom(Output[k], Output[l])
  BY OutputFacts
<1>2. apk.end \in Nat /\ LfhLen \in Nat
  BY ConstantsAssumption DEF PlanInv, PlanTypeInv
<1>3. ~Unordered(Output, apk.end)
  <2>1. \A k \in 1 .. Len(Output) : ~(Output[k].off + LfhLen > apk.end)
    BY <1>1, <1>2
  <2>2. ASSUME NEW k \in 1 .. Len(Output), NEW l \in 1 .. Len(Output), k # l,
               Output[k].off = Output[l].off
        PROVE  FALSE
    <3>1. ApartFrom(Output[k], Output[l])
      BY <1>1, <2>2
    <3>. QED BY <1>1, <2>2, <3>1 DEF ApartFrom
  <2>. QED BY <1>1, <2>1, <2>2 DEF Unordered
<1>4. ~CheckFails
  <2>1. ASSUME NEW k \in 1 .. Len(Output) PROVE ~(DataOff(Output[k]) > apk.end)
    BY <1>1, <1>2
  <2>2. ASSUME NEW k \in 1 .. Len(Output), NEW l \in 1 .. Len(Output),
               Output[k].off < Output[l].off, Output[l].off < DataOff(Output[k])
        PROVE  FALSE
    <3>1. /\ Output[k].off \in Nat /\ DataOff(Output[k]) \in Nat /\ DataLen(Output[k]) \in Nat
          /\ Output[l].off \in Nat /\ DataOff(Output[l]) \in Nat /\ DataLen(Output[l]) \in Nat
          /\ Output[l].off < DataOff(Output[l])
      BY <1>1
    <3>2. k # l
      BY <2>2, <3>1
    <3>3. ApartFrom(Output[k], Output[l])
      BY <1>1, <3>2
    <3>. QED BY <2>2, <3>1, <3>3 DEF ApartFrom
  <2>. QED BY <1>1, <1>3, <2>1, <2>2 DEF CheckFails
<1>5. ASSUME NEW k \in 1 .. Len(Output) PROVE HeaderVerdict(Output[k]) # "error"
  BY <1>1, <1>2 DEF HeaderVerdict
<1>6. QuickMisaligned # "error"
  BY <1>5, SampleIsOutput
<1>. QED BY <1>1, <1>3, <1>4, <1>6 DEF Refused

\* --zipalign check refuses no APK that the rewrite plans to its end, and keeps
\* one that was rewritten: the sample and the full check agree with the
\* rewrite about where headers and data are.
THEOREM ChecksAgree == Spec => []CheckAgreesWithRewrite
<1>1. PlanInv /\ Apart => CheckAgreesWithRewrite
  <2>. SUFFICES ASSUME PlanInv, Apart, pc = "done"
                PROVE  /\ ZipalignCheck # "refuse"
                       /\ round > 1 /\ (\A i \in DOMAIN apk.entries : Fits(apk.entries[i]))
                            => ZipalignCheck = "keep"
    BY DEF CheckAgreesWithRewrite
  <2>1. ~Refused
    BY NotRefused
  <2>2. ASSUME round > 1, \A i \in DOMAIN apk.entries : Fits(apk.entries[i])
        PROVE  QuickMisaligned # "misaligned" /\ Bad = {}
    <3>1. NewEntries = apk.entries
      <4>1. Rewritten = apk
        BY <2>2, Stable DEF RewriteIsStable
      <4>. QED BY <4>1 DEF Rewritten
    <3>2. \A i \in DOMAIN apk.entries : DataOff(apk.entries[i]) % Required(apk.entries[i]) = 0
      BY <2>2, <3>1, Aligned DEF RewrittenIsAligned
    <3>3. DOMAIN Output = 1 .. Len(Output)
      BY OutputFacts
    <3>4. \A k \in 1 .. Len(Output) : DataOff(Output[k]) % Required(Output[k]) = 0
      BY <3>2, OutputFacts
    <3>5. ASSUME NEW k \in 1 .. Len(Output) PROVE HeaderVerdict(Output[k]) # "misaligned"
      BY <3>4 DEF HeaderVerdict
    <3>6. QuickMisaligned # "misaligned"
      BY <3>5, SampleIsOutput
    <3>. QED BY <3>3, <3>4, <3>6 DEF Bad
  <2>. QED BY <2>1, <2>2 DEF ZipalignCheck
<1>. QED BY <1>1, AlwaysApart, PTL
=============================================================================
