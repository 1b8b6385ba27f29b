------------------------------- MODULE Sha256 -------------------------------
(***************************************************************************)
(* SHA-256 as src/src/sha256.rs computes it around its kernels: the        *)
(* streaming hasher, its padding, the two-way update, and the iterated     *)
(* hashes of the keystores.  The compression function is free: a state is  *)
(* the sequence of bytes compressed into it, so two states are equal only  *)
(* if they absorbed the same blocks.  A byte is a tuple that begins with   *)
(* the name of its origin.                                                 *)
(*                                                                         *)
(* Sizes are of a small scale: Block stands for 64 bytes, DigestLen for 32 *)
(* and LenField for the 8 that hold the length of a message.  A machine    *)
(* word (usize) has Word values.                                           *)
(***************************************************************************)
EXTENDS Integers, Sequences, FiniteSets

CONSTANTS Block, DigestLen, LenField, Word

\* The digest, 0x80 and the length fit one block (iterate, pbkdf2), and the
\* block divides the range of a machine word (the padding in finish).
ASSUME ShaAssumption ==
    /\ {Block, DigestLen, LenField, Word} \subseteq Nat \ {0}
    /\ DigestLen + 1 + LenField <= Block
    /\ Word % Block = 0

Byte(origin, n) == <<origin, n>>
Zero == Byte("zero", 0)
Mark == Byte("mark", 0)    \* 0x80
Zeros(n) == [i \in 1 .. n |-> Zero]
LenBytes(n) == [i \in 1 .. LenField |-> <<"len", n, i>>]

From(s, n) == SubSeq(s, n, Len(s))
Upto(s, n) == SubSeq(s, 1, n)
Least(a, b) == IF a <= b THEN a ELSE b

\* The length of the whole blocks at the start of s.
Whole(s) == Len(s) - (Len(s) % Block)

H0 == <<>>
Compress(state, blocks) == state \o blocks

StateBytes(state) == [i \in 1 .. DigestLen |-> <<"hash", state, i>>]
-----------------------------------------------------------------------------
(* The streaming hasher.                                                   *)

New == [state |-> H0, buf |-> <<>>, len |-> 0]

\* Sha256::update completes a partial block, then takes the whole blocks
\* straight from the data and keeps the rest.
Update(h, data) ==
    LET take == IF h.buf = <<>> THEN 0 ELSE Least(Block - Len(h.buf), Len(data))
        buf == h.buf \o Upto(data, take)
        rest == From(data, take + 1)
    IN IF h.buf # <<>> /\ Len(buf) < Block
         THEN [state |-> h.state, buf |-> buf, len |-> h.len + Len(data)]
         ELSE [state |-> Compress(Compress(h.state, buf), Upto(rest, Whole(rest))),
               buf |-> From(rest, Whole(rest) + 1),
               len |-> h.len + Len(data)]

\* Sha256::gap
Gap(h) == (Block - Len(h.buf)) % Block

\* Sha256::finish: the number of zeros wraps around the machine word when
\* the length does not fit the last block.
Finish(h) ==
    LET zeros == ((Block - 1 - LenField - Len(h.buf)) % Word) % Block
    IN StateBytes(Update(h, <<Mark>> \o Zeros(zeros) \o LenBytes(h.len)).state)

\* The length that goes into the padding misses what the two-way kernel took.
Update2Uncounted(a, b, da, db) ==
    <<[a EXCEPT !.state = Compress(@, da)], [b EXCEPT !.state = Compress(@, db)]>>

\* update2: whole blocks into two hashers at a block boundary.
Update2(a, b, da, db) ==
    <<[state |-> Compress(a.state, da), buf |-> a.buf, len |-> a.len + Len(da)],
      [state |-> Compress(b.state, db), buf |-> b.buf, len |-> b.len + Len(db)]>>
-----------------------------------------------------------------------------
(* What is iterated over one block.                                        *)

\* A digest as the only, or the last, block of a message of n bytes.
DigestBlock(d, n) == d \o <<Mark>> \o Zeros(Block - DigestLen - 1 - LenField) \o LenBytes(n)

\* ShaExt::iterate
Iterate(x, n) ==
    LET it[i \in 0 .. n] ==
            IF i = 0 THEN x ELSE StateBytes(Compress(H0, DigestBlock(it[i - 1], DigestLen)))
    IN it[n]

Xor(pad, s) == [i \in DOMAIN s |-> <<pad, s[i]>>]

\* The exclusive or of the digests u[1] .. u[n]: those that occur an odd
\* number of times.
XorBytes(u, n) ==
    LET odd == {d \in {u[j] : j \in 1 .. n} :
                    Cardinality({j \in 1 .. n : u[j] = d}) % 2 = 1}
    IN [i \in 1 .. DigestLen |-> <<"xor", odd, i>>]

\* An output of n bytes: its blocks one after the other, the last one cut.
BlockOf(n) == 1 .. (n + DigestLen - 1) \div DigestLen
Blocks(t, n) ==
    [c \in 1 .. n |-> t[(c - 1) \div DigestLen + 1][((c - 1) % DigestLen) + 1]]

\* The key of an HMAC, filled up to a block; too long a one is hashed.
HmacKey(password) ==
    LET key == IF Len(password) > Block THEN Finish(Update(New, password)) ELSE password
    IN key \o Zeros(Block - Len(key))

\* The length in the block of an iteration leaves out the pad block.
Pbkdf2ShortLength(password, salt, iterations, n) ==
    LET inner == Compress(H0, Xor("ipad", HmacKey(password)))
        outer == Compress(H0, Xor("opad", HmacKey(password)))
        After(state) == [state |-> state, buf |-> <<>>, len |-> Block]
        T(i) ==
            LET u[j \in 1 .. iterations] ==
                    IF j = 1
                      THEN Finish(Update(After(outer),
                               Finish(Update(Update(After(inner), salt), <<Byte("int", i)>>))))
                      ELSE LET s == Compress(inner, DigestBlock(u[j - 1], DigestLen))
                           IN StateBytes(Compress(outer, DigestBlock(StateBytes(s), DigestLen)))
            IN XorBytes(u, iterations)
    IN Blocks([i \in BlockOf(n) |-> T(i)], n)

\* ShaExt::pbkdf2_hmac_sha256: the pads are absorbed once, and an iteration
\* is two compressions.
Pbkdf2(password, salt, iterations, n) ==
    LET inner == Compress(H0, Xor("ipad", HmacKey(password)))
        outer == Compress(H0, Xor("opad", HmacKey(password)))
        After(state) == [state |-> state, buf |-> <<>>, len |-> Block]
        T(i) ==
            LET u[j \in 1 .. iterations] ==
                    IF j = 1
                      THEN Finish(Update(After(outer),
                               Finish(Update(Update(After(inner), salt), <<Byte("int", i)>>))))
                      ELSE LET s == Compress(inner, DigestBlock(u[j - 1], Block + DigestLen))
                           IN StateBytes(Compress(outer, DigestBlock(StateBytes(s), Block + DigestLen)))
            IN XorBytes(u, iterations)
    IN Blocks([i \in BlockOf(n) |-> T(i)], n)
-----------------------------------------------------------------------------
(* The standards: FIPS 180-4, RFC 2104 and RFC 8018.  This is also what    *)
(* ring, which takes over without the SHA instructions, computes.          *)

\* A message padded with as few zeros as make whole blocks.
Padded(m) ==
    LET zeros == CHOOSE z \in 0 .. Block - 1 : (Len(m) + 1 + z + LenField) % Block = 0
    IN m \o <<Mark>> \o Zeros(zeros) \o LenBytes(Len(m))

Hash(m) == StateBytes(Padded(m))

Hmac(key, m) ==
    LET k == IF Len(key) > Block THEN Hash(key) ELSE key
        full == k \o Zeros(Block - Len(k))
    IN Hash(Xor("opad", full) \o Hash(Xor("ipad", full) \o m))

HashIterated(x, n) ==
    LET it[i \in 0 .. n] == IF i = 0 THEN x ELSE Hash(it[i - 1]) IN it[n]

DerivedKey(password, salt, iterations, n) ==
    LET T(i) ==
            LET u[j \in 1 .. iterations] ==
                    Hmac(password, IF j = 1 THEN salt \o <<Byte("int", i)>> ELSE u[j - 1])
            IN XorBytes(u, iterations)
    IN Blocks([i \in BlockOf(n) |-> T(i)], n)
=============================================================================
