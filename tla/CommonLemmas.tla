---------------------------- MODULE CommonLemmas ----------------------------
(***************************************************************************)
(* Facts that the proofs share and the provers do not know: induction and  *)
(* definition by recursion over the natural numbers, division with a       *)
(* divisor that is no literal, and what the filter of Picking returns.     *)
(*                                                                         *)
(* The library states induction for a predicate, which the provers cannot  *)
(* instantiate.  Here a statement about all numbers is the set of those    *)
(* for which it holds, and the steps of a recursion are a function.        *)
(***************************************************************************)
EXTENDS Picking, WellFoundedInduction, SequenceTheorems, TLAPS

\* A set of natural numbers has a least one.
LEMMA LeastNumber ==
    ASSUME NEW S \in SUBSET Nat, S # {}
    PROVE  \E n \in S : \A m \in S : n <= m
<1>. DEFINE R == OpToRel(<, Nat)
<1>1. IsWellFoundedOn(R, Nat)
  BY NatLessThanWellFounded, Zenon
<1>2. PICK n \in S : \A m \in S : ~(<<m, n>> \in R)
  <2>. HIDE DEF R
  <2>. QED BY <1>1, WFMin
<1>3. \A m \in Nat, k \in Nat : <<m, k>> \in R <=> m < k
  BY DEF OpToRel
<1>. HIDE DEF R
<1>4. \A m \in S : ~(m < n)
  BY <1>2, <1>3
<1>. QED BY <1>4

\* What holds of 0, and of n + 1 if it holds of n, holds up to any bound.
LEMMA UpTo ==
    ASSUME NEW m \in Nat, NEW S, 0 \in S, \A n \in 0 .. m - 1 : n \in S => n + 1 \in S
    PROVE  0 .. m \subseteq S
<1>. DEFINE Bad == (0 .. m) \ S
<1>. SUFFICES ASSUME Bad # {} PROVE FALSE
  OBVIOUS
<1>1. Bad \in SUBSET Nat
  OBVIOUS
<1>2. PICK n \in Bad : \A k \in Bad : n <= k
  BY <1>1, LeastNumber
<1>3. n \in 1 .. m /\ n - 1 \in 0 .. m - 1 /\ (n - 1) + 1 = n
  OBVIOUS
<1>4. n - 1 \notin Bad
  BY <1>2, <1>3
<1>5. n - 1 \in S
  BY <1>3, <1>4
<1>. QED BY <1>3, <1>5

\* The values of a loop that starts with base and turns a value into step[n]
\* of it.
IsLoop(f, T, base, m, step) ==
    /\ f \in [0 .. m -> T] /\ f[0] = base
    /\ \A n \in 1 .. m : f[n] = step[n][f[n - 1]]

\* Such a loop has a value after every turn.
LEMMA Loop ==
    ASSUME NEW T, NEW base \in T, NEW m \in Nat, NEW step, step \in [1 .. m -> [T -> T]]
    PROVE  \E f : IsLoop(f, T, base, m, step)
<1>. DEFINE S == {n \in 0 .. m : \E f : IsLoop(f, T, base, n, step)}
<1>1. 0 \in S
  <2>. DEFINE f == [i \in 0 .. 0 |-> base]
  <2>1. f \in [0 .. 0 -> T] /\ f[0] = base /\ 1 .. 0 = {}
    OBVIOUS
  <2>. HIDE DEF f
  <2>2. IsLoop(f, T, base, 0, step) /\ 0 \in 0 .. m
    BY <2>1 DEF IsLoop
  <2>. QED BY <2>2
<1>2. ASSUME NEW n \in 0 .. m - 1, n \in S PROVE n + 1 \in S
  <2>1. PICK f : IsLoop(f, T, base, n, step)
    BY <1>2
  <2>2. /\ f \in [0 .. n -> T] /\ f[0] = base
        /\ \A i \in 1 .. n : f[i] = step[i][f[i - 1]]
    BY <2>1 DEF IsLoop
  <2>. DEFINE g == [i \in 0 .. n + 1 |-> IF i = n + 1 THEN step[n + 1][f[n]] ELSE f[i]]
  <2>3. n + 1 \in 1 .. m /\ n \in 0 .. n
    OBVIOUS
  <2>4. g \in [0 .. n + 1 -> T]
    <3>1. step[n + 1][f[n]] \in T
      BY <2>2, <2>3
    <3>2. \A i \in 0 .. n + 1 : i # n + 1 => i \in 0 .. n
      OBVIOUS
    <3>. QED BY <2>2, <3>1, <3>2
  <2>5. g[0] = base
    BY <2>2
  <2>6. ASSUME NEW i \in 1 .. n + 1 PROVE g[i] = step[i][g[i - 1]]
    <3>1. CASE i = n + 1
      <4>1. i - 1 = n /\ n \in 0 .. n + 1 /\ n # n + 1 /\ n + 1 \in 0 .. n + 1
        BY <3>1
      <4>2. g[i - 1] = f[n] /\ g[i] = step[n + 1][f[n]]
        BY <3>1, <4>1
      <4>. QED BY <3>1, <4>2
    <3>2. CASE i # n + 1
      <4>1. i \in 1 .. n /\ i - 1 \in 0 .. n + 1 /\ i - 1 # n + 1 /\ i \in 0 .. n + 1
        BY <3>2
      <4>2. g[i - 1] = f[i - 1] /\ g[i] = f[i]
        BY <3>2, <4>1
      <4>. QED BY <2>2, <4>1, <4>2
    <3>. QED BY <3>1, <3>2
  <2>. HIDE DEF g
  <2>7. IsLoop(g, T, base, n + 1, step) /\ n + 1 \in 0 .. m
    BY <2>3, <2>4, <2>5, <2>6 DEF IsLoop
  <2>. QED BY <2>7
<1>. HIDE DEF S
<1>3. 0 .. m \subseteq S
  BY <1>1, <1>2, UpTo, Zenon
<1>4. m \in S
  BY <1>3
<1>. QED BY <1>4 DEF S

\* What a division gives.
LEMMA Quotient ==
    ASSUME NEW d \in Nat \ {0}, NEW a \in Nat
    PROVE  a \div d \in Nat /\ (a % d) \in 0 .. d - 1 /\ a = d * (a \div d) + (a % d)
OBVIOUS

\* Quotient and rest are what they were put together from.
LEMMA Division ==
    ASSUME NEW d \in Nat \ {0}, NEW q \in Nat, NEW r \in 0 .. d - 1
    PROVE  (d * q + r) % d = r /\ (d * q + r) \div d = q
<1>. DEFINE a == d * q + r
            p == a \div d
            s == a % d
<1>1. a \in Nat
  OBVIOUS
<1>2. p \in Nat /\ s \in 0 .. d - 1 /\ a = d * p + s
  <2>. HIDE DEF a
  <2>. QED BY <1>1
<1>3. d * q + r = d * p + s
  BY <1>2
<1>. HIDE DEF p, s
<1>4. CASE p = q
  <2>1. s = r
    <3>. DEFINE c == d * q
    <3>1. c \in Nat /\ c + r = c + s
      BY <1>3, <1>4
    <3>. HIDE DEF c
    <3>. QED BY <1>2, <3>1
  <2>. QED BY <1>4, <2>1 DEF p, s
<1>5. CASE p < q
  <2>1. PICK e \in Nat : q = p + 1 + e
    <3>1. q - p - 1 \in Nat /\ q = p + 1 + (q - p - 1)
      BY <1>2, <1>5
    <3>. QED BY <3>1
  <2>2. d * q = d * p + d + d * e
    BY <1>2, <2>1
  <2>3. d * p \in Nat /\ d * e \in Nat
    BY <1>2
  <2>. QED BY <1>2, <1>3, <2>2, <2>3
<1>6. CASE q < p
  <2>1. PICK e \in Nat : p = q + 1 + e
    <3>1. p - q - 1 \in Nat /\ p = q + 1 + (p - q - 1)
      BY <1>2, <1>6
    <3>. QED BY <3>1
  <2>2. d * p = d * q + d + d * e
    BY <2>1
  <2>3. d * q \in Nat /\ d * e \in Nat
    OBVIOUS
  <2>. QED BY <1>2, <1>3, <2>2, <2>3
<1>. QED BY <1>2, <1>4, <1>5, <1>6

\* A multiple of d leaves no rest, and adding one changes none.
LEMMA Multiples ==
    ASSUME NEW d \in Nat \ {0}, NEW a \in Nat, NEW b \in Nat, b % d = 0
    PROVE  (a + b) % d = a % d
<1>. DEFINE q == a \div d
            r == a % d
            p == b \div d
<1>1. q \in Nat /\ r \in 0 .. d - 1 /\ a = d * q + r
  OBVIOUS
<1>2. p \in Nat /\ b = d * p
  OBVIOUS
<1>. HIDE DEF q, r, p
<1>3. a + b = d * (q + p) + r
  BY <1>1, <1>2
<1>4. (d * (q + p) + r) % d = r
  BY <1>1, <1>2, Division
<1>. QED BY <1>3, <1>4 DEF r
-----------------------------------------------------------------------------
(* The operators of Picking.                                               *)

\* A sequence with one more element.
LEMMA OneMore ==
    ASSUME NEW S, NEW s \in Seq(S), NEW e \in S
    PROVE  /\ Append(s, e) \in Seq(S) /\ Len(Append(s, e)) = Len(s) + 1 /\ Len(s) \in Nat
           /\ \A i \in 1 .. Len(s) : Append(s, e)[i] = s[i]
           /\ Append(s, e)[Len(s) + 1] = e
BY AppendProperties, LenProperties

\* The loop of Picked.
LEMMA PickedLoop ==
    ASSUME NEW S, NEW s \in Seq(S), NEW I
    PROVE  \E f \in [0 .. Len(s) -> Seq(S)] :
              /\ Picked(s, I) = f[Len(s)] /\ f[0] = <<>>
              /\ \A n \in 1 .. Len(s) :
                    f[n] = IF n \in I THEN Append(f[n - 1], s[n]) ELSE f[n - 1]
<1>. DEFINE m == Len(s)
            T == Seq(S)
            step == [n \in 1 .. m |-> [x \in T |-> IF n \in I THEN Append(x, s[n]) ELSE x]]
            Is(f) == f = [n \in 0 .. m |->
                            IF n = 0 THEN <<>>
                            ELSE IF n \in I THEN Append(f[n - 1], s[n]) ELSE f[n - 1]]
            upto == CHOOSE f : Is(f)
<1>1. m \in Nat /\ \A n \in 1 .. m : s[n] \in S
  BY LenProperties, ElementOfSeq
<1>2. step \in [1 .. m -> [T -> T]]
  <2>1. ASSUME NEW n \in 1 .. m, NEW x \in T
        PROVE  (IF n \in I THEN Append(x, s[n]) ELSE x) \in T
    BY <1>1, OneMore
  <2>. HIDE DEF m, T
  <2>. QED BY <2>1
<1>3. PICK f \in [0 .. m -> T] : f[0] = <<>> /\ \A n \in 1 .. m : f[n] = step[n][f[n - 1]]
  <2>. DEFINE none == <<>>
  <2>1. none \in T
    BY EmptySeq
  <2>. HIDE DEF m, T, step, none
  <2>2. PICK f : IsLoop(f, T, none, m, step)
    BY <1>1, <1>2, <2>1, Loop, Zenon
  <2>. QED BY <2>2 DEF none, IsLoop
<1>4. \A n \in 1 .. m : f[n] = IF n \in I THEN Append(f[n - 1], s[n]) ELSE f[n - 1]
  <2>. SUFFICES ASSUME NEW n \in 1 .. m
                PROVE  f[n] = IF n \in I THEN Append(f[n - 1], s[n]) ELSE f[n - 1]
    OBVIOUS
  <2>. HIDE DEF m, T
  <2>1. n - 1 \in 0 .. m
    BY <1>1
  <2>2. f[n - 1] \in T
    BY <2>1
  <2>3. step[n][f[n - 1]] = IF n \in I THEN Append(f[n - 1], s[n]) ELSE f[n - 1]
    BY <2>2
  <2>. QED BY <1>3, <2>3
<1>5. Is(f)
  <2>1. ASSUME NEW n \in 0 .. m
        PROVE  f[n] = IF n = 0 THEN <<>>
                      ELSE IF n \in I THEN Append(f[n - 1], s[n]) ELSE f[n - 1]
    <3>1. CASE n = 0
      BY <1>3, <3>1
    <3>2. CASE n # 0
      <4>1. n \in 1 .. m
        BY <1>1, <3>2
      <4>. QED BY <1>4, <3>2, <4>1
    <3>. QED BY <3>1, <3>2
  <2>. HIDE DEF m
  <2>. QED BY <2>1
<1>6. Is(upto)
  BY <1>5
<1>. DEFINE U == {n \in 0 .. m : upto[n] = f[n]}
<1>7. 0 \in U
  <2>1. upto[0] = <<>> /\ 0 \in 0 .. m
    <3>. HIDE DEF upto, m
    <3>. QED BY <1>1, <1>6
  <2>. HIDE DEF upto, m
  <2>. QED BY <1>3, <2>1
<1>8. ASSUME NEW n \in 0 .. m - 1, n \in U PROVE n + 1 \in U
  <2>. HIDE DEF upto, m
  <2>1. n + 1 \in 1 .. m /\ n + 1 \in 0 .. m /\ n + 1 # 0 /\ (n + 1) - 1 = n /\ upto[n] = f[n]
    BY <1>1, <1>8
  <2>2. upto[n + 1] = IF n + 1 \in I THEN Append(upto[n], s[n + 1]) ELSE upto[n]
    BY <1>6, <2>1
  <2>3. f[n + 1] = IF n + 1 \in I THEN Append(f[n], s[n + 1]) ELSE f[n]
    BY <1>4, <2>1
  <2>. QED BY <2>1, <2>2, <2>3
<1>9. upto[m] = f[m]
  <2>. HIDE DEF U, upto, m
  <2>1. 0 .. m \subseteq U
    BY <1>1, <1>7, <1>8, UpTo, Zenon
  <2>. QED BY <1>1, <2>1 DEF U
<1>10. Picked(s, I) = upto[m]
  BY DEF Picked
<1>. HIDE DEF upto, step
<1>. QED BY <1>3, <1>4, <1>9, <1>10

\* g tells where in s, of the places in I, the elements of p are: each at a
\* place of its own.
Picks(g, p, s, I) ==
    /\ g \in [1 .. Len(p) -> I]
    /\ \A j \in 1 .. Len(p) : p[j] = s[g[j]]
    /\ \A i, j \in 1 .. Len(p) : i # j => g[i] # g[j]
    /\ \A i \in I : \E j \in 1 .. Len(p) : g[j] = i

\* What is picked is what lies at the places.
LEMMA PickedPlaces ==
    ASSUME NEW S, NEW s \in Seq(S), NEW I \in SUBSET (1 .. Len(s))
    PROVE  Picked(s, I) \in Seq(S) /\ \E g : Picks(g, Picked(s, I), s, I)
<1>. DEFINE m == Len(s)
<1>1. m \in Nat /\ \A n \in 1 .. m : s[n] \in S
  BY LenProperties, ElementOfSeq
<1>2. PICK f \in [0 .. m -> Seq(S)] :
          /\ Picked(s, I) = f[m] /\ f[0] = <<>>
          /\ \A n \in 1 .. m : f[n] = IF n \in I THEN Append(f[n - 1], s[n]) ELSE f[n - 1]
  BY PickedLoop
<1>. DEFINE Good(n, g) ==
              /\ g \in [1 .. Len(f[n]) -> I \cap (1 .. n)]
              /\ \A j \in 1 .. Len(f[n]) : f[n][j] = s[g[j]]
              /\ \A i, j \in 1 .. Len(f[n]) : i # j => g[i] # g[j]
              /\ \A i \in I \cap (1 .. n) : \E j \in 1 .. Len(f[n]) : g[j] = i
            U == {n \in 0 .. m : \E g : Good(n, g)}
<1>. HIDE DEF m
<1>3. 0 \in U
  <2>. DEFINE g == [j \in 1 .. 0 |-> 0]
  <2>1. Len(f[0]) = 0 /\ 1 .. 0 = {} /\ 0 \in 0 .. m
    BY <1>1, <1>2, EmptySeq
  <2>2. g \in [1 .. 0 -> I \cap (1 .. 0)]
    BY <2>1
  <2>3. Good(0, g)
    BY <2>1, <2>2
  <2>. QED BY <2>1, <2>3
<1>4. ASSUME NEW n \in 0 .. m - 1, n \in U PROVE n + 1 \in U
  <2>1. PICK g : Good(n, g)
    BY <1>4
  <2>2. /\ n + 1 \in 1 .. m /\ n + 1 \in 0 .. m /\ (n + 1) - 1 = n /\ n \in 0 .. m
        /\ n + 1 \notin 1 .. n
    BY <1>1
  <2>3. f[n] \in Seq(S) /\ s[n + 1] \in S /\ Len(f[n]) \in Nat
    BY <1>1, <2>2, LenProperties
  <2>4. f[n + 1] = IF n + 1 \in I THEN Append(f[n], s[n + 1]) ELSE f[n]
    BY <1>2, <2>2
  <2>5. CASE n + 1 \notin I
    <3>1. I \cap (1 .. n + 1) = I \cap (1 .. n)
      BY <2>2, <2>5
    <3>2. f[n + 1] = f[n]
      BY <2>4, <2>5
    <3>3. Good(n + 1, g)
      BY <2>1, <3>1, <3>2
    <3>. QED BY <2>2, <3>3
  <2>6. CASE n + 1 \in I
    <3>. DEFINE l == Len(f[n])
                t == Append(f[n], s[n + 1])
                h == [j \in 1 .. l + 1 |-> IF j = l + 1 THEN n + 1 ELSE g[j]]
    <3>1. f[n + 1] = t /\ Len(t) = l + 1 /\ l \in Nat /\ t[l + 1] = s[n + 1]
      BY <2>3, <2>4, <2>6, OneMore
    <3>2. \A j \in 1 .. l : t[j] = f[n][j]
      BY <2>3, OneMore
    <3>3. /\ g \in [1 .. l -> I \cap (1 .. n)]
          /\ \A j \in 1 .. l : f[n][j] = s[g[j]]
          /\ \A i, j \in 1 .. l : i # j => g[i] # g[j]
          /\ \A i \in I \cap (1 .. n) : \E j \in 1 .. l : g[j] = i
      BY <2>1
    <3>. HIDE DEF l, t
    <3>4. \A j \in 1 .. l + 1 : j # l + 1 => j \in 1 .. l
      BY <3>1
    <3>5. \A j \in 1 .. l : h[j] = g[j] /\ j \in 1 .. l + 1
      BY <3>1
    <3>6. h[l + 1] = n + 1 /\ l + 1 \in 1 .. l + 1
      BY <3>1
    <3>7. I \cap (1 .. n + 1) = (I \cap (1 .. n)) \cup {n + 1}
      BY <2>2, <2>6
    <3>8. h \in [1 .. l + 1 -> I \cap (1 .. n + 1)]
      <4>1. \A j \in 1 .. l + 1 : (IF j = l + 1 THEN n + 1 ELSE g[j]) \in I \cap (1 .. n + 1)
        BY <3>3, <3>4, <3>7
      <4>. QED BY <4>1
    <3>. HIDE DEF h
    <3>9. \A j \in 1 .. l + 1 : t[j] = s[h[j]]
      <4>. SUFFICES ASSUME NEW j \in 1 .. l + 1 PROVE t[j] = s[h[j]]
        OBVIOUS
      <4>1. CASE j = l + 1
        BY <3>1, <3>6, <4>1
      <4>2. CASE j # l + 1
        <5>1. j \in 1 .. l
          BY <3>4, <4>2
        <5>. QED BY <3>2, <3>3, <3>5, <5>1
      <4>. QED BY <4>1, <4>2
    <3>10. \A j \in 1 .. l : h[j] \in I \cap (1 .. n) /\ h[j] # n + 1
      BY <2>2, <3>3, <3>5
    <3>11. ASSUME NEW i \in 1 .. l + 1, NEW j \in 1 .. l + 1, i # j PROVE h[i] # h[j]
      <4>1. CASE i = l + 1
        <5>1. j \in 1 .. l
          BY <3>4, <3>11, <4>1
        <5>. QED BY <3>6, <3>10, <4>1, <5>1
      <4>2. CASE j = l + 1
        <5>1. i \in 1 .. l
          BY <3>4, <3>11, <4>2
        <5>. QED BY <3>6, <3>10, <4>2, <5>1
      <4>3. CASE i # l + 1 /\ j # l + 1
        <5>1. i \in 1 .. l /\ j \in 1 .. l
          BY <3>4, <4>3
        <5>. QED BY <3>3, <3>5, <3>11, <5>1
      <4>. QED BY <4>1, <4>2, <4>3
    <3>12. ASSUME NEW i \in I \cap (1 .. n + 1) PROVE \E j \in 1 .. l + 1 : h[j] = i
      <4>1. CASE i = n + 1
        BY <3>6, <4>1
      <4>2. CASE i # n + 1
        <5>1. i \in I \cap (1 .. n)
          BY <3>7, <4>2
        <5>2. PICK j \in 1 .. l : g[j] = i
          BY <3>3, <5>1
        <5>. QED BY <3>5, <5>2
      <4>. QED BY <4>1, <4>2
    <3>13. Good(n + 1, h)
      BY <3>1, <3>8, <3>9, <3>11, <3>12
    <3>. QED BY <2>2, <3>13
  <2>. QED BY <2>5, <2>6
<1>. HIDE DEF U
<1>5. 0 .. m \subseteq U
  BY <1>1, <1>3, <1>4, UpTo, Zenon
<1>6. PICK g : Good(m, g)
  <2>1. m \in U
    BY <1>1, <1>5
  <2>2. \E g : Good(m, g)
    BY <2>1, Zenon DEF U
  <2>. QED BY <2>2, Zenon
<1>7. I \cap (1 .. m) = I
  BY DEF m
<1>8. Picked(s, I) \in Seq(S)
  <2>1. m \in 0 .. m
    BY <1>1
  <2>. QED BY <1>2, <2>1
<1>9. Picks(g, Picked(s, I), s, I)
  BY <1>2, <1>6, <1>7 DEF Picks
<1>. QED BY <1>8, <1>9

\* Picking the first places gives the beginning.
LEMMA PickedFront ==
    ASSUME NEW S, NEW s \in Seq(S), NEW l \in 0 .. Len(s)
    PROVE  /\ Len(Picked(s, 1 .. l)) = l
           /\ \A j \in 1 .. l : Picked(s, 1 .. l)[j] = s[j]
           /\ Picked(s, 1 .. l) \in Seq(S)
<1>. DEFINE m == Len(s)
            I == 1 .. l
<1>1. m \in Nat /\ l \in Nat /\ \A n \in 1 .. m : s[n] \in S
  BY LenProperties, ElementOfSeq
<1>2. PICK f \in [0 .. m -> Seq(S)] :
          /\ Picked(s, I) = f[m] /\ f[0] = <<>>
          /\ \A n \in 1 .. m : f[n] = IF n \in I THEN Append(f[n - 1], s[n]) ELSE f[n - 1]
  <2>. HIDE DEF I
  <2>. QED BY PickedLoop
<1>. DEFINE low(n) == IF n <= l THEN n ELSE l
            U == {n \in 0 .. m : Len(f[n]) = low(n) /\ \A j \in 1 .. low(n) : f[n][j] = s[j]}
<1>3. 0 \in U
  <2>1. Len(f[0]) = 0 /\ low(0) = 0 /\ 1 .. 0 = {} /\ 0 \in 0 .. m
    BY <1>1, <1>2, EmptySeq
  <2>. QED BY <2>1
<1>4. ASSUME NEW n \in 0 .. m - 1, n \in U PROVE n + 1 \in U
  <2>1. n + 1 \in 1 .. m /\ n + 1 \in 0 .. m /\ (n + 1) - 1 = n /\ n \in 0 .. m
    BY <1>1
  <2>2. f[n] \in Seq(S) /\ s[n + 1] \in S
    BY <1>1, <2>1
  <2>3. Len(f[n]) = low(n) /\ \A j \in 1 .. low(n) : f[n][j] = s[j]
    BY <1>4
  <2>4. f[n + 1] = IF n + 1 \in I THEN Append(f[n], s[n + 1]) ELSE f[n]
    BY <1>2, <2>1
  <2>5. CASE n + 1 <= l
    <3>. DEFINE t == Append(f[n], s[n + 1])
    <3>1. low(n) = n /\ low(n + 1) = n + 1 /\ n + 1 \in I
      BY <1>1, <2>1, <2>5
    <3>2. Len(t) = n + 1 /\ t[n + 1] = s[n + 1] /\ \A j \in 1 .. n : t[j] = f[n][j]
      BY <2>2, <2>3, <3>1, OneMore
    <3>. HIDE DEF t
    <3>3. \A j \in 1 .. n + 1 : t[j] = s[j]
      <4>. SUFFICES ASSUME NEW j \in 1 .. n + 1 PROVE t[j] = s[j]
        OBVIOUS
      <4>1. CASE j = n + 1
        BY <3>2, <4>1
      <4>2. CASE j # n + 1
        <5>1. j \in 1 .. n
          BY <2>1, <4>2
        <5>. QED BY <2>3, <3>1, <3>2, <5>1
      <4>. QED BY <4>1, <4>2
    <3>4. f[n + 1] = t
      BY <2>4, <3>1 DEF t
    <3>. HIDE DEF I, m, low
    <3>. QED BY <2>1, <3>1, <3>2, <3>3, <3>4
  <2>6. CASE ~(n + 1 <= l)
    <3>1. low(n + 1) = low(n) /\ n + 1 \notin I
      BY <1>1, <2>1, <2>6
    <3>2. f[n + 1] = f[n]
      BY <2>4, <3>1
    <3>. HIDE DEF I, m, low
    <3>. QED BY <2>1, <2>3, <3>1, <3>2
  <2>. QED BY <2>5, <2>6
<1>. HIDE DEF U
<1>5. m \in U
  <2>1. 0 .. m \subseteq U
    <3>. HIDE DEF m
    <3>. QED BY <1>1, <1>3, <1>4, UpTo, Zenon
  <2>. QED BY <1>1, <2>1
<1>6. low(m) = l
  BY <1>1
<1>7. f[m] \in Seq(S)
  BY <1>1
<1>. QED BY <1>2, <1>5, <1>6, <1>7 DEF U

\* Picking every place gives the sequence, and all but the last what it was
\* before that.
LEMMA PickedMost ==
    ASSUME NEW S, NEW s \in Seq(S)
    PROVE  /\ Picked(s, 1 .. Len(s)) = s
           /\ \A e \in S : Picked(Append(s, e), 1 .. Len(s)) = s
<1>1. Len(s) \in Nat /\ Len(s) \in 0 .. Len(s)
  BY LenProperties
<1>2. Picked(s, 1 .. Len(s)) = s
  <2>. DEFINE p == Picked(s, 1 .. Len(s))
  <2>1. p \in Seq(S) /\ Len(p) = Len(s) /\ \A j \in 1 .. Len(s) : p[j] = s[j]
    BY <1>1, PickedFront
  <2>. HIDE DEF p
  <2>2. p = s
    BY <2>1, SeqEqual
  <2>. QED BY <2>2 DEF p
<1>3. ASSUME NEW e \in S PROVE Picked(Append(s, e), 1 .. Len(s)) = s
  <2>. DEFINE t == Append(s, e)
              p == Picked(t, 1 .. Len(s))
  <2>1. t \in Seq(S) /\ Len(t) = Len(s) + 1 /\ \A j \in 1 .. Len(s) : t[j] = s[j]
    BY OneMore
  <2>. HIDE DEF t
  <2>2. Len(s) \in 0 .. Len(t)
    BY <1>1, <2>1
  <2>3. p \in Seq(S) /\ Len(p) = Len(s) /\ \A j \in 1 .. Len(s) : p[j] = t[j]
    BY <2>1, <2>2, PickedFront
  <2>. HIDE DEF p
  <2>4. p = s
    BY <2>1, <2>3, SeqEqual
  <2>. QED BY <2>4 DEF p, t
<1>. QED BY <1>2, <1>3
=============================================================================
