--------------------------- MODULE HashingProofs ---------------------------
(***************************************************************************)
(* Proofs about the two users of the streaming hasher of Sha256, the       *)
(* content digest (DigestPool) and the keystores (Keystore).               *)
(*                                                                         *)
(* DigestPool, for any number of workers, any lengths of the sections and  *)
(* any placement of the local headers: every chunk is hashed exactly once  *)
(* although a second one is claimed after a look at a counter that others  *)
(* move, every local header is inspected exactly once, and the digest is   *)
(* the one the signature scheme defines, whichever way the bytes of a      *)
(* chunk went through the hasher.                                          *)
(*                                                                         *)
(* Keystore, for any request and any files, passwords, salts and iteration *)
(* counts of any size: the iterated hashes are those of the standards, a   *)
(* password that is not the right one derives another key, and whatever    *)
(* order the threads end in, what is reported is the cause and what signs  *)
(* is the key that was asked for.                                          *)
(***************************************************************************)
EXTENDS DigestPool, Keystore, CommonLemmas, FiniteSetTheorems

\* Lane i of worker w holds chunk k.
Holds(w, i, k) == lanes[w][i].k = k

\* The type invariant, as far as it matters who has which chunk.
TypeInv ==
    /\ next \in Nat
    /\ twoLanes \in BOOLEAN /\ joined \in BOOLEAN
    /\ pc \in [Worker -> {"fill", "claim", "hash", "done"}]
    /\ at \in [Worker -> Lane]
    /\ DOMAIN lanes = Worker
    /\ \A w \in Worker : DOMAIN lanes[w] = Lane
    /\ \A w \in Worker, i \in Lane :
          /\ DOMAIN lanes[w][i] = {"k", "h", "parts"}
          /\ lanes[w][i] = NoChunk \/ lanes[w][i].k \in Chunk
    /\ DOMAIN recorded = Chunk
    /\ \A k \in Chunk : recorded[k] = <<>> \/ recorded[k] = <<recorded[k][1]>>

\* The counter hands out every chunk once: what it has not reached is
\* untouched, and the rest is in one lane or has a digest.
Shared ==
    \A k \in Chunk :
        /\ ~(k < next) => recorded[k] = <<>> /\ \A w \in Worker, i \in Lane : ~Holds(w, i, k)
        /\ k < next => recorded[k] # <<>> \/ \E w \in Worker, i \in Lane : Holds(w, i, k)
        /\ recorded[k] # <<>> => \A w \in Worker, i \in Lane : ~Holds(w, i, k)
        /\ \A v, w \in Worker, i, j \in Lane : Holds(v, i, k) /\ Holds(w, j, k) => v = w /\ i = j

\* A worker claims into a free lane, and leaves when the counter is at its
\* end and both its lanes are free.
Drained ==
    /\ \A w \in Worker : pc[w] = "claim" => ~Full(w, at[w])
    /\ \A w \in Worker : pc[w] = "hash" => ~(next < Total) \/ Full(w, 0) \/ Full(w, 1)
    /\ \A w \in Worker : pc[w] = "done" => ~(next < Total) /\ ~Full(w, 0) /\ ~Full(w, 1)
    /\ ~twoLanes => \A w \in Worker :
          pc[w] \in {"fill", "done"} /\ ~Full(w, 0) /\ ~Full(w, 1)
    /\ joined => \A w \in Worker : pc[w] = "done"
    /\ lens # "none" => joined

\* A header that starts in chunk k is read or set aside when k is claimed.
Inspected(o, k) ==
    /\ ~(k < next) => o \notin found /\ o \notin straddlers
    /\ o \in WholeIn(k) => o \notin straddlers
    /\ o \notin WholeIn(k) => o \notin found
    /\ k < next /\ WholeIn(k) \cap bad = {} => o \in found \cup straddlers
    /\ k < next /\ WholeIn(k) \cap bad # {} => error

\* The headers, as far as the counter has come.
Headers ==
    /\ lfh \in LfhOffsets /\ bad \subseteq lfh
    /\ found \cup straddlers \subseteq lfh
    /\ error \in BOOLEAN
    /\ error => bad # {}
    /\ \A o \in lfh : \A k \in Chunk : k < ChunkCount(1) /\ o \in StartsIn(k) => Inspected(o, k)
    /\ lens \in {"none", "ok", "err", "unseen"}
    /\ lens # "none" => lens = IF bad = {} THEN "ok" ELSE "err"

\* h has absorbed the bytes m: whole blocks of them are in its state, the
\* rest is in its buffer, and their number is the length it will write.
HasherOf(h, m, S) ==
    /\ h \in [state : Seq(S), buf : Seq(S), len : Nat]
    /\ h.state \o h.buf = m
    /\ Len(h.buf) < Block
    /\ Len(h.state) % Block = 0
    /\ h.len = Len(m)

\* The bytes that are hashed for a chunk.
AnyByte ==
    {Mark, Zero, Byte("a5", 0)} \cup {Byte("u32", n) : n \in Nat}
      \cup {<<"len", n, i>> : n \in Nat, i \in Nat} \cup {<<"data", s, j>> : s \in Nat, j \in Nat}

\* What the signature scheme hashes for chunk k.
Message(k) == Prefix("a5", ChunkLen(k)) \o (Parts(k)[1] \o Parts(k)[2])

\* A lane for chunk k whose hasher has absorbed all of the chunk but p and q.
Left(k, h, p, q) ==
    /\ p \in Seq(AnyByte) /\ q \in Seq(AnyByte)
    /\ \E m \in Seq(AnyByte) : HasherOf(h, m, AnyByte) /\ m \o (p \o q) = Message(k)
Going(lane) ==
    \E h, p, q : /\ lane = [k |-> lane.k, h |-> h, parts |-> <<p, q>>]
                 /\ lane.k \in Chunk /\ Left(lane.k, h, p, q)

\* The lanes and the digests hold what the scheme asks for.
Hashed ==
    /\ \A w \in Worker, i \in Lane : Full(w, i) => Going(lanes[w][i])
    /\ \A k \in Chunk : recorded[k] # <<>> => recorded[k] = <<HashChunk(Parts(k))>>
    /\ joined => digest = TopDigest(Total, InOrder)

\* The inductive invariant.
IInv == TypeInv /\ Shared /\ Drained /\ Headers /\ Hashed
-----------------------------------------------------------------------------
(* Numbers.                                                                *)

\* The chunks are numbered, and those of the entries section come first.
LEMMA Counts ==
    /\ ChunkCount(1) \in Nat /\ Total \in Nat /\ ChunkCount(1) <= Total
    /\ \A k \in Chunk : k \in Nat /\ k < Total
    /\ \A k \in Nat : k < Total => k \in Chunk
    /\ -1 \notin Chunk /\ NoChunk.k = -1
<1>1. \A n \in Nat : n + ChunkSize - 1 \in Nat /\ (n + ChunkSize - 1) \div ChunkSize \in Nat
  <2>. SUFFICES ASSUME NEW n \in Nat
                PROVE  n + ChunkSize - 1 \in Nat /\ (n + ChunkSize - 1) \div ChunkSize \in Nat
    OBVIOUS
  <2>. DEFINE a == n + ChunkSize - 1
  <2>1. a \in Nat /\ ChunkSize \in Nat \ {0}
    BY LengthsAssumption
  <2>2. a \div ChunkSize \in Nat
    <3>. HIDE DEF a
    <3>. QED BY <2>1
  <2>. QED BY <2>1, <2>2
<1>2. SourceLen[1] \in Nat /\ SourceLen[2] \in Nat /\ SourceLen[3] \in Nat
  BY LengthsAssumption DEF SourceLen
<1>3. ChunkCount(1) \in Nat /\ ChunkCount(2) \in Nat /\ ChunkCount(3) \in Nat
  BY <1>1, <1>2 DEF ChunkCount
<1>4. Total \in Nat /\ ChunkCount(1) <= Total
  BY <1>3 DEF Total
<1>. QED BY <1>3, <1>4 DEF Chunk, NoChunk

\* A number lies in one chunk.
LEMMA ChunkOf ==
    ASSUME NEW o \in Nat
    PROVE  /\ \E k \in Nat : k * ChunkSize <= o /\ o < (k + 1) * ChunkSize
           /\ \A j, k \in Nat :
                 /\ j * ChunkSize <= o /\ o < (j + 1) * ChunkSize
                 /\ k * ChunkSize <= o /\ o < (k + 1) * ChunkSize
                 => j = k
<1>1. ChunkSize \in Nat \ {0}
  BY LengthsAssumption
<1>2. o \div ChunkSize \in Nat
  BY <1>1
<1>3. o = ChunkSize * (o \div ChunkSize) + (o % ChunkSize) /\ o % ChunkSize \in 0 .. ChunkSize - 1
  BY <1>1
<1>. DEFINE q == o \div ChunkSize
            r == o % ChunkSize
<1>4. q * ChunkSize <= o /\ o < (q + 1) * ChunkSize
  <2>1. q \in Nat /\ r \in Nat /\ r < ChunkSize /\ o = ChunkSize * q + r
    BY <1>1, <1>2, <1>3
  <2>. HIDE DEF q, r
  <2>. QED BY <1>1, <2>1
<1>5. ASSUME NEW j \in Nat, NEW k \in Nat, j < k, k * ChunkSize <= o
      PROVE  ~(o < (j + 1) * ChunkSize)
  <2>1. PICK d \in Nat : k = j + 1 + d
    <3>1. k - j - 1 \in Nat /\ k = j + 1 + (k - j - 1)
      BY <1>5
    <3>. QED BY <3>1
  <2>2. k * ChunkSize = (j + 1) * ChunkSize + d * ChunkSize
    BY <1>1, <2>1
  <2>3. d * ChunkSize \in Nat /\ (j + 1) * ChunkSize \in Nat
    BY <1>1
  <2>. QED BY <1>5, <2>2, <2>3
<1>6. \A j, k \in Nat : j < k \/ k < j \/ j = k
  OBVIOUS
<1>. QED BY <1>2, <1>4, <1>5, <1>6

\* Every local header starts in one chunk of the entries section.
LEMMA HeaderChunk ==
    ASSUME lfh \in LfhOffsets, NEW o \in lfh
    PROVE  /\ \E k \in Chunk : k < ChunkCount(1) /\ o \in StartsIn(k)
           /\ \A j, k \in Chunk : o \in StartsIn(j) /\ o \in StartsIn(k) => j = k
<1>1. /\ ChunkSize \in Nat \ {0} /\ HeaderLen \in Nat \ {0}
      /\ EntriesLen \in Nat /\ PadLen \in Nat
  BY LengthsAssumption
<1>2. o \in Nat /\ o < EntriesLen
  BY <1>1, OffsetsAssumption
<1>3. PICK k \in Nat : k * ChunkSize <= o /\ o < (k + 1) * ChunkSize
  BY <1>2, ChunkOf
<1>4. k < ChunkCount(1)
  <2>. DEFINE a == EntriesLen + PadLen + ChunkSize - 1
              n == a \div ChunkSize
              r == a % ChunkSize
  <2>1. a \in Nat
    BY <1>1
  <2>2. n \in Nat /\ r \in 0 .. ChunkSize - 1 /\ a = ChunkSize * n + r
    <3>. HIDE DEF a
    <3>. QED BY <1>1, <2>1
  <2>3. ChunkCount(1) = n
    BY DEF ChunkCount, SourceLen
  <2>4. EntriesLen <= ChunkSize * n
    <3>. HIDE DEF n, r
    <3>1. ChunkSize * n \in Nat
      BY <1>1, <2>2
    <3>. QED BY <1>1, <2>2, <3>1
  <2>5. ASSUME n <= k PROVE FALSE
    <3>. HIDE DEF n
    <3>1. PICK d \in Nat : k = n + d
      <4>1. k - n \in Nat /\ k = n + (k - n)
        BY <1>3, <2>2, <2>5
      <4>. QED BY <4>1
    <3>2. k * ChunkSize = ChunkSize * n + d * ChunkSize
      BY <1>1, <2>2, <3>1
    <3>3. d * ChunkSize \in Nat /\ ChunkSize * n \in Nat
      BY <1>1, <2>2
    <3>. QED BY <1>1, <1>2, <1>3, <2>4, <3>2, <3>3
  <2>. QED BY <2>2, <2>3, <2>5
<1>5. \A j \in Chunk : o \in StartsIn(j) <=> j * ChunkSize <= o /\ o < (j + 1) * ChunkSize
  <2>. SUFFICES ASSUME NEW j \in Chunk
                PROVE  o \in StartsIn(j) <=> j * ChunkSize <= o /\ o < (j + 1) * ChunkSize
    OBVIOUS
  <2>1. j \in Nat /\ (j + 1) * ChunkSize \in Nat
    BY <1>1, Counts
  <2>. QED BY <1>1, <1>2, <2>1 DEF StartsIn, MappedFrom, MappedTo, Least
<1>6. k \in Chunk
  BY <1>4, Counts
<1>. QED BY <1>2, <1>3, <1>4, <1>5, <1>6, ChunkOf, Counts
-----------------------------------------------------------------------------
(* What a step of a worker does to the chunks.                             *)

\* The lanes keep their chunks, whatever their hashers absorb.
SameChunks ==
    /\ DOMAIN lanes' = Worker
    /\ \A v \in Worker : DOMAIN lanes'[v] = Lane
    /\ \A v \in Worker, i \in Lane :
          /\ DOMAIN lanes'[v][i] = {"k", "h", "parts"}
          /\ lanes'[v][i].k = lanes[v][i].k
          /\ lanes[v][i] = NoChunk => lanes'[v][i] = NoChunk

\* Lane i of worker w gets a new content, all others keep theirs.
OneLane(w, i, lane) ==
    /\ DOMAIN lanes' = Worker
    /\ \A v \in Worker : DOMAIN lanes'[v] = Lane
    /\ lanes'[w][i] = lane
    /\ \A v \in Worker, j \in Lane : v # w \/ j # i => lanes'[v][j] = lanes[v][j]

\* An update of one lane changes no other.
LEMMA LaneUpdate ==
    ASSUME TypeInv, NEW w \in Worker, NEW i \in Lane, NEW lane,
           lanes' = [lanes EXCEPT ![w][i] = lane]
    PROVE  OneLane(w, i, lane)
  BY DEF TypeInv, OneLane

\* A lane whose hasher absorbs bytes keeps its chunk.
LEMMA Absorbing ==
    ASSUME TypeInv, NEW w \in Worker, NEW i \in Lane, Full(w, i), NEW new, OneLane(w, i, new),
           DOMAIN new = {"k", "h", "parts"}, new.k = lanes[w][i].k
    PROVE  SameChunks
<1>1. lanes[w][i] # NoChunk
  BY DEF Full
<1>2. /\ lanes'[w][i] = new /\ DOMAIN lanes' = Worker
      /\ \A v \in Worker : DOMAIN lanes'[v] = Lane
      /\ \A v \in Worker, j \in Lane : v # w \/ j # i => lanes'[v][j] = lanes[v][j]
  BY DEF OneLane
<1>3. ASSUME NEW v \in Worker, NEW j \in Lane
      PROVE  /\ DOMAIN lanes'[v][j] = {"k", "h", "parts"}
             /\ lanes'[v][j].k = lanes[v][j].k
             /\ lanes[v][j] = NoChunk => lanes'[v][j] = NoChunk
  <2>1. CASE v = w /\ j = i
    BY <1>1, <1>2, <2>1
  <2>2. CASE v # w \/ j # i
    BY <1>2, <2>2 DEF TypeInv
  <2>. QED BY <2>1, <2>2
<1>. QED BY <1>2, <1>3 DEF SameChunks

\* A lane that goes on is a lane with the same chunk.
LEMMA SameLane ==
    ASSUME NEW lane
    PROVE  /\ \A h, rest : /\ DOMAIN Advance(lane, h, rest) = {"k", "h", "parts"}
                           /\ Advance(lane, h, rest).k = lane.k
           /\ DOMAIN Turn(lane) = {"k", "h", "parts"} /\ Turn(lane).k = lane.k
<1>1. \A h, rest : /\ DOMAIN Advance(lane, h, rest) = {"k", "h", "parts"}
                  /\ Advance(lane, h, rest).k = lane.k
  BY DEF Advance
<1>2. CASE lane.parts[1] = <<>>
  BY <1>1, <1>2 DEF Turn
<1>3. CASE lane.parts[1] # <<>>
  BY <1>1, <1>3 DEF Turn
<1>. QED BY <1>1, <1>2, <1>3

\* The steps that claim no chunk and record no digest.
Hashing(w) == Settle(w) \/ KeepLane(w) \/ Look(w) \/ HashBoth(w) \/ HashOne(w) \/ Return(w)

\* They leave every chunk in its lane.
LEMMA HashingKeeps ==
    ASSUME TypeInv, NEW w \in Worker, Hashing(w)
    PROVE  SameChunks /\ UNCHANGED <<next, recorded, input, inspector, caller>>
<1>1. UNCHANGED <<next, recorded, input, inspector, caller>>
  BY DEF Hashing, Settle, KeepLane, Look, HashBoth, HashOne, Return
<1>2. CASE lanes' = lanes
  BY <1>1, <1>2 DEF SameChunks, TypeInv
<1>3. CASE Settle(w)
  <2>. DEFINE i == at[w]
              lane == lanes[w][i]
  <2>1. i \in Lane /\ Full(w, i) /\ lanes' = [lanes EXCEPT ![w][i] = Turn(lane)]
    BY <1>3 DEF Settle, TypeInv
  <2>2. OneLane(w, i, Turn(lane))
    BY <2>1, LaneUpdate
  <2>. HIDE DEF i, lane
  <2>3. SameChunks
    BY <2>1, <2>2, Absorbing, SameLane DEF lane
  <2>. QED BY <1>1, <2>3
<1>4. CASE HashBoth(w)
  <2>1. PICK n : lanes' = [lanes EXCEPT ![w] = TakeBoth(w, n)] /\ Full(w, 0) /\ Full(w, 1)
    BY <1>4 DEF HashBoth
  <2>2. \A i \in Lane : \E h, rest : lanes'[w][i] = Advance(lanes[w][i], h, rest)
    BY <2>1 DEF TakeBoth, TypeInv
  <2>3. \A i \in Lane : DOMAIN lanes'[w][i] = {"k", "h", "parts"} /\ lanes'[w][i].k = lanes[w][i].k
    <3>. SUFFICES ASSUME NEW i \in Lane
                  PROVE  DOMAIN lanes'[w][i] = {"k", "h", "parts"} /\ lanes'[w][i].k = lanes[w][i].k
      OBVIOUS
    <3>1. PICK h, rest : lanes'[w][i] = Advance(lanes[w][i], h, rest)
      BY <2>2
    <3>2. /\ DOMAIN Advance(lanes[w][i], h, rest) = {"k", "h", "parts"}
          /\ Advance(lanes[w][i], h, rest).k = lanes[w][i].k
      BY SameLane
    <3>. QED BY <3>1, <3>2
  <2>4. DOMAIN lanes' = Worker /\ DOMAIN lanes'[w] = Lane /\ \A v \in Worker : v # w => lanes'[v] = lanes[v]
    BY <2>1 DEF TakeBoth, TypeInv
  <2>. QED BY <1>1, <2>1, <2>3, <2>4 DEF SameChunks, TypeInv, Full, Lane
<1>5. CASE HashOne(w)
  <2>1. PICK i, h, rest :
           /\ i \in Lane /\ Full(w, i)
           /\ lanes' = [lanes EXCEPT ![w][i] = Advance(lanes[w][i], h, rest)]
    BY <1>5 DEF HashOne
  <2>2. OneLane(w, i, Advance(lanes[w][i], h, rest))
    BY <2>1, LaneUpdate
  <2>. QED BY <1>1, <2>1, <2>2, Absorbing, SameLane
<1>. QED BY <1>1, <1>2, <1>3, <1>4, <1>5 DEF Hashing, KeepLane, Look, Return


\* The first digest of a chunk.
LEMMA FirstDigest ==
    ASSUME NEW d
    PROVE  Append(<<>>, d) = <<d>> /\ <<d>> # <<>> /\ <<d>>[1] = d
<1>1. <<>> \in Seq({d}) /\ d \in {d}
  OBVIOUS
<1>. QED BY <1>1

\* A new lane holds the chunk it is made for.
LEMMA NewLaneHolds ==
    ASSUME NEW k \in Chunk
    PROVE  /\ NewLane(k).k = k /\ DOMAIN NewLane(k) = {"k", "h", "parts"}
           /\ NewLane(k) # NoChunk
  BY Counts DEF NewLane, NoChunk

\* A step of a worker, by what it does to the chunks: it claims one into a
\* free lane, records the digest of one, hashes one in one go, finds the
\* counter at its end, or leaves the chunks alone.
ClaimsChunk(w) ==
    /\ pc[w] = "claim" /\ next < Total /\ next' = next + 1
    /\ OneLane(w, at[w], NewLane(next)) /\ Inspect(next)
    /\ pc' = [pc EXCEPT ![w] = "fill"]
    /\ UNCHANGED <<at, recorded, input, caller>>
RecordsChunk(w) ==
    /\ pc[w] = "fill" /\ Full(w, at[w])
    /\ \E d : recorded' = [recorded EXCEPT ![lanes[w][at[w]].k] = Append(@, d)]
    /\ OneLane(w, at[w], NoChunk)
    /\ UNCHANGED <<next, pc, at, input, inspector, caller>>
HashesChunk(w) ==
    /\ ~twoLanes /\ next < Total /\ next' = next + 1
    /\ \E d : recorded' = [recorded EXCEPT ![next] = Append(@, d)]
    /\ Inspect(next)
    /\ UNCHANGED <<pc, at, lanes, input, caller>>
FindsNone(w) ==
    /\ ~(next < Total) /\ next' = next + 1
    /\ \/ pc[w] = "claim" /\ NextLane(w)
       \/ pc[w] = "fill" /\ ~twoLanes /\ pc' = [pc EXCEPT ![w] = "done"] /\ at' = at
    /\ UNCHANGED <<lanes, recorded, input, inspector, caller>>

\* These are the steps.
LEMMA WorkerCases ==
    ASSUME TypeInv, NEW w \in Worker, WorkerStep(w)
    PROVE  ClaimsChunk(w) \/ RecordsChunk(w) \/ HashesChunk(w) \/ FindsNone(w) \/ Hashing(w)
<1>0. at[w] \in Lane
  BY DEF TypeInv
<1>1. CASE ClaimLane(w) /\ next < Total
  <2>1. OneLane(w, at[w], NewLane(next))
    BY <1>0, <1>1, LaneUpdate DEF ClaimLane
  <2>. QED BY <1>1, <2>1 DEF ClaimLane, ClaimsChunk
<1>2. CASE ClaimLane(w) /\ ~(next < Total)
  BY <1>2 DEF ClaimLane, FindsNone
<1>3. CASE FinishLane(w)
  <2>1. OneLane(w, at[w], NoChunk)
    BY <1>0, <1>3, LaneUpdate DEF FinishLane
  <2>. QED BY <1>3, <2>1 DEF FinishLane, RecordsChunk
<1>4. CASE HashWhole(w) /\ next < Total
  BY <1>4 DEF HashWhole, HashesChunk
<1>5. CASE HashWhole(w) /\ ~(next < Total)
  BY <1>5 DEF HashWhole, FindsNone
<1>. QED BY <1>1, <1>2, <1>3, <1>4, <1>5 DEF WorkerStep, Hashing
-----------------------------------------------------------------------------
(* Every chunk once.                                                       *)

\* Where a worker can be after a step.
LEMMA WorkerPlaces ==
    ASSUME TypeInv, NEW w \in Worker, WorkerStep(w)
    PROVE  /\ pc' \in [Worker -> {"fill", "claim", "hash", "done"}] /\ at' \in [Worker -> Lane]
           /\ \A v \in Worker : v # w => pc'[v] = pc[v] /\ at'[v] = at[v]
  BY DEF TypeInv, WorkerStep, Settle, KeepLane, FinishLane, Look, ClaimLane, HashBoth, HashOne,
     Return, HashWhole, NextLane, Lane

\* A chunk in a lane has no digest yet, and no other lane has it.
LEMMA HeldChunk ==
    ASSUME TypeInv, Shared, NEW w \in Worker, NEW i \in Lane, Full(w, i)
    PROVE  /\ lanes[w][i].k \in Chunk /\ recorded[lanes[w][i].k] = <<>>
           /\ lanes[w][i].k < next
           /\ \A v \in Worker, j \in Lane : v # w \/ j # i => lanes[v][j].k # lanes[w][i].k
<1>1. lanes[w][i].k \in Chunk
  BY DEF TypeInv, Full
<1>. QED BY <1>1 DEF Shared, Holds

\* A step of a worker keeps the type invariant.
LEMMA WorkerType ==
    ASSUME TypeInv, Shared, NEW w \in Worker, WorkerStep(w)
    PROVE  TypeInv'
<1>. DEFINE LanesTyped ==
              /\ DOMAIN lanes = Worker /\ \A v \in Worker : DOMAIN lanes[v] = Lane
              /\ \A v \in Worker, i \in Lane :
                    /\ DOMAIN lanes[v][i] = {"k", "h", "parts"}
                    /\ lanes[v][i] = NoChunk \/ lanes[v][i].k \in Chunk
            Digests ==
              /\ DOMAIN recorded = Chunk
              /\ \A k \in Chunk : recorded[k] = <<>> \/ recorded[k] = <<recorded[k][1]>>
<1>1. LanesTyped /\ Digests /\ at[w] \in Lane /\ next \in Nat
  BY DEF TypeInv
<1>2. UNCHANGED <<twoLanes, joined>> /\ next' \in Nat
  <2>1. UNCHANGED <<twoLanes, joined>> /\ (next' = next \/ next' = next + 1)
    BY DEF WorkerStep, Settle, KeepLane, FinishLane, Look, ClaimLane, HashBoth, HashOne,
       Return, HashWhole, input, caller
  <2>. QED BY <1>1, <2>1
<1>3. ASSUME NEW i \in Lane, NEW lane, OneLane(w, i, lane),
             DOMAIN lane = {"k", "h", "parts"}, lane = NoChunk \/ lane.k \in Chunk
      PROVE  LanesTyped'
  <2>1. ASSUME NEW v \in Worker, NEW j \in Lane
        PROVE  /\ DOMAIN lanes'[v][j] = {"k", "h", "parts"}
               /\ lanes'[v][j] = NoChunk \/ lanes'[v][j].k \in Chunk
    <3>1. CASE v = w /\ j = i
      BY <1>3, <3>1 DEF OneLane
    <3>2. CASE v # w \/ j # i
      BY <1>1, <1>3, <3>2 DEF OneLane
    <3>. QED BY <3>1, <3>2
  <2>. QED BY <1>3, <2>1 DEF OneLane
<1>4. ASSUME NEW k \in Chunk, NEW d, recorded[k] = <<>>,
             recorded' = [recorded EXCEPT ![k] = Append(@, d)]
      PROVE  Digests'
  <2>1. recorded'[k] = <<d>> /\ \A j \in Chunk : j # k => recorded'[j] = recorded[j]
    BY <1>1, <1>4, FirstDigest
  <2>. QED BY <1>1, <1>4, <2>1, FirstDigest
<1>5. CASE ClaimsChunk(w)
  <2>1. next \in Chunk /\ Digests'
    BY <1>1, <1>5, Counts DEF ClaimsChunk
  <2>2. LanesTyped'
    <3>. HIDE DEF LanesTyped
    <3>. QED BY <1>1, <1>3, <1>5, <2>1, NewLaneHolds DEF ClaimsChunk
  <2>. QED BY <1>2, <2>1, <2>2, WorkerPlaces DEF TypeInv
<1>6. CASE RecordsChunk(w)
  <2>. DEFINE k == lanes[w][at[w]].k
  <2>1. k \in Chunk /\ recorded[k] = <<>>
    BY <1>1, <1>6, HeldChunk DEF RecordsChunk
  <2>2. PICK d : recorded' = [recorded EXCEPT ![k] = Append(@, d)]
    BY <1>6 DEF RecordsChunk
  <2>3. Digests'
    <3>. HIDE DEF k, Digests
    <3>. QED BY <1>4, <2>1, <2>2
  <2>4. DOMAIN NoChunk = {"k", "h", "parts"}
    BY DEF NoChunk
  <2>5. LanesTyped'
    <3>. HIDE DEF LanesTyped
    <3>. QED BY <1>1, <1>3, <1>6, <2>4 DEF RecordsChunk
  <2>. QED BY <1>2, <2>3, <2>5, WorkerPlaces DEF TypeInv
<1>7. CASE HashesChunk(w)
  <2>1. next \in Chunk /\ recorded[next] = <<>> /\ LanesTyped'
    BY <1>1, <1>7, Counts DEF HashesChunk, Shared
  <2>2. PICK d : recorded' = [recorded EXCEPT ![next] = Append(@, d)]
    BY <1>7 DEF HashesChunk
  <2>3. Digests'
    <3>. HIDE DEF Digests
    <3>. QED BY <1>4, <2>1, <2>2
  <2>. QED BY <1>2, <2>1, <2>3, WorkerPlaces DEF TypeInv
<1>8. CASE FindsNone(w)
  BY <1>1, <1>2, <1>8, WorkerPlaces DEF FindsNone, TypeInv
<1>9. CASE Hashing(w)
  <2>1. SameChunks /\ recorded' = recorded
    BY <1>9, HashingKeeps
  <2>. QED BY <1>1, <1>2, <2>1, WorkerPlaces DEF SameChunks, TypeInv
<1>. QED BY <1>5, <1>6, <1>7, <1>8, <1>9, WorkerCases


\* A step of a worker hands out, moves or records a chunk, and never twice.
LEMMA WorkerShared ==
    ASSUME TypeInv, Shared, Drained, NEW w \in Worker, WorkerStep(w)
    PROVE  Shared'
<1>1. at[w] \in Lane /\ next \in Nat /\ DOMAIN recorded = Chunk
  BY DEF TypeInv
<1>2. \A k \in Chunk : k \in Nat
  BY Counts
<1>3. CASE ClaimsChunk(w)
  <2>. DEFINE i == at[w]
  <2>1. next \in Chunk /\ next' = next + 1 /\ recorded' = recorded
    BY <1>1, <1>3, Counts DEF ClaimsChunk
  <2>2. /\ lanes'[w][i].k = next
        /\ \A v \in Worker, j \in Lane : v # w \/ j # i => lanes'[v][j].k = lanes[v][j].k
    BY <1>1, <1>3, <2>1, NewLaneHolds DEF ClaimsChunk, OneLane
  <2>3. lanes[w][i].k = -1
    BY <1>1, <1>3, Counts DEF ClaimsChunk, Drained, Full
  <2>4. ASSUME NEW k \in Chunk, k # next
        PROVE  /\ k < next' <=> k < next
               /\ \A v \in Worker, j \in Lane : Holds(v, j, k)' <=> Holds(v, j, k)
    <3>1. k \in Nat /\ k # -1
      BY <1>2
    <3>2. k < next' <=> k < next
      BY <1>1, <2>1, <2>4, <3>1
    <3>3. \A v \in Worker, j \in Lane : Holds(v, j, k)' <=> Holds(v, j, k)
      BY <1>1, <2>2, <2>3, <2>4, <3>1 DEF Holds
    <3>. QED BY <3>2, <3>3
  <2>5. ASSUME NEW k \in Chunk, k = next
        PROVE  /\ k < next' /\ recorded'[k] = <<>>
               /\ \A v \in Worker, j \in Lane : Holds(v, j, k)' <=> v = w /\ j = i
    BY <1>1, <2>1, <2>2, <2>5 DEF Holds, Shared
  <2>. HIDE DEF i
  <2>6. i \in Lane
    BY <1>1 DEF i
  <2>7. ASSUME NEW k \in Chunk
        PROVE  /\ ~(k < next') => recorded'[k] = <<>>
                                  /\ \A v \in Worker, j \in Lane : ~Holds(v, j, k)'
               /\ k < next' => recorded'[k] # <<>> \/ \E v \in Worker, j \in Lane : Holds(v, j, k)'
               /\ recorded'[k] # <<>> => \A v \in Worker, j \in Lane : ~Holds(v, j, k)'
               /\ \A u, v \in Worker, j, l \in Lane :
                     Holds(u, j, k)' /\ Holds(v, l, k)' => u = v /\ j = l
    <3>1. CASE k = next
      BY <2>5, <2>6, <3>1
    <3>2. CASE k # next
      BY <2>1, <2>4, <3>2 DEF Shared
    <3>. QED BY <3>1, <3>2
  <2>. QED BY <2>7 DEF Shared
<1>4. CASE RecordsChunk(w)
  <2>. DEFINE i == at[w]
  <2>0. PICK c \in Chunk : c = lanes[w][i].k
    BY <1>1, <1>4, HeldChunk DEF RecordsChunk
  <2>1. /\ recorded[c] = <<>> /\ c < next
        /\ \A v \in Worker, j \in Lane : v # w \/ j # i => lanes[v][j].k # c
    BY <1>1, <1>4, <2>0, HeldChunk DEF RecordsChunk
  <2>2. PICK d : recorded' = [recorded EXCEPT ![c] = Append(@, d)]
    BY <1>4, <2>0 DEF RecordsChunk
  <2>3. recorded'[c] # <<>> /\ \A k \in Chunk : k # c => recorded'[k] = recorded[k]
    BY <1>1, <2>1, <2>2, FirstDigest
  <2>4. /\ lanes'[w][i].k = -1 /\ next' = next
        /\ \A v \in Worker, j \in Lane : v # w \/ j # i => lanes'[v][j].k = lanes[v][j].k
    BY <1>4, Counts DEF RecordsChunk, OneLane
  <2>5. \A k \in Chunk : k # -1
    BY <1>2
  <2>6. \A k \in Chunk : k # c => \A v \in Worker, j \in Lane : Holds(v, j, k)' <=> Holds(v, j, k)
    BY <2>0, <2>4, <2>5 DEF Holds
  <2>7. \A v \in Worker, j \in Lane : ~Holds(v, j, c)'
    BY <2>1, <2>4, <2>5 DEF Holds
  <2>. HIDE DEF i
  <2>8. ASSUME NEW k \in Chunk
        PROVE  /\ ~(k < next') => recorded'[k] = <<>>
                                  /\ \A v \in Worker, j \in Lane : ~Holds(v, j, k)'
               /\ k < next' => recorded'[k] # <<>> \/ \E v \in Worker, j \in Lane : Holds(v, j, k)'
               /\ recorded'[k] # <<>> => \A v \in Worker, j \in Lane : ~Holds(v, j, k)'
               /\ \A u, v \in Worker, j, l \in Lane :
                     Holds(u, j, k)' /\ Holds(v, l, k)' => u = v /\ j = l
    <3>1. CASE k = c
      BY <2>1, <2>3, <2>4, <2>7, <3>1
    <3>2. CASE k # c
      BY <2>3, <2>4, <2>6, <3>2 DEF Shared
    <3>. QED BY <3>1, <3>2
  <2>. QED BY <2>8 DEF Shared
<1>5. CASE HashesChunk(w)
  <2>1. next \in Chunk /\ next' = next + 1 /\ lanes' = lanes
    BY <1>1, <1>5, Counts DEF HashesChunk
  <2>2. recorded[next] = <<>> /\ \A v \in Worker, j \in Lane : ~Holds(v, j, next)
    BY <1>1, <2>1 DEF Shared
  <2>3. PICK d : recorded' = [recorded EXCEPT ![next] = Append(@, d)]
    BY <1>5 DEF HashesChunk
  <2>4. recorded'[next] # <<>> /\ \A k \in Chunk : k # next => recorded'[k] = recorded[k]
    BY <1>1, <2>1, <2>2, <2>3, FirstDigest
  <2>5. \A k \in Chunk : k # next => (k < next' <=> k < next)
    BY <1>1, <1>2, <2>1
  <2>6. \A v \in Worker, j \in Lane, k \in Chunk : Holds(v, j, k)' <=> Holds(v, j, k)
    BY <2>1 DEF Holds
  <2>7. next < next'
    BY <1>1, <2>1
  <2>. QED BY <2>1, <2>2, <2>4, <2>5, <2>6, <2>7 DEF Shared
<1>6. CASE FindsNone(w)
  <2>1. \A k \in Chunk : k < next /\ k < next'
    BY <1>1, <1>6, Counts DEF FindsNone
  <2>2. UNCHANGED <<lanes, recorded>>
    BY <1>6 DEF FindsNone
  <2>. QED BY <2>1, <2>2 DEF Shared, Holds
<1>7. CASE Hashing(w)
  <2>1. SameChunks /\ UNCHANGED <<next, recorded>>
    BY <1>7, HashingKeeps
  <2>2. \A v \in Worker, j \in Lane, k \in Chunk : Holds(v, j, k)' <=> Holds(v, j, k)
    BY <2>1 DEF SameChunks, Holds
  <2>. QED BY <2>1, <2>2 DEF Shared
<1>. QED BY <1>3, <1>4, <1>5, <1>6, <1>7, WorkerCases

\* A worker leaves only when there is nothing left to claim and nothing left
\* in its lanes.
LEMMA WorkerDrained ==
    ASSUME TypeInv, Shared, Drained, NEW w \in Worker, WorkerStep(w)
    PROVE  Drained'
<1>1. at[w] \in Lane /\ next \in Nat /\ Lane = {0, 1} /\ Total \in Nat
  BY Counts DEF TypeInv, Lane
<1>2. UNCHANGED <<twoLanes, joined, lens>>
  BY DEF WorkerStep, Settle, KeepLane, FinishLane, Look, ClaimLane, HashBoth, HashOne,
     Return, HashWhole, input, caller
<1>3. pc[w] # "done"
  BY DEF WorkerStep, Settle, KeepLane, FinishLane, Look, ClaimLane, HashBoth, HashOne,
     Return, HashWhole
<1>4. ~(next < Total) => ~(next' < Total)
  <2>1. next' = next \/ next' = next + 1
    BY DEF WorkerStep, Settle, KeepLane, FinishLane, Look, ClaimLane, HashBoth, HashOne,
       Return, HashWhole
  <2>. QED BY <1>1, <2>1
<1>5. \A v \in Worker, j \in Lane : v # w => (Full(v, j)' <=> Full(v, j))
  <2>1. CASE Hashing(w)
    BY <2>1, HashingKeeps, Counts DEF SameChunks, Full, TypeInv
  <2>2. CASE ClaimsChunk(w) \/ RecordsChunk(w)
    BY <2>2 DEF ClaimsChunk, RecordsChunk, OneLane, Full
  <2>3. CASE HashesChunk(w) \/ FindsNone(w)
    BY <2>3 DEF HashesChunk, FindsNone, Full
  <2>. QED BY <2>1, <2>2, <2>3, WorkerCases
<1>6. /\ pc'[w] = "claim" => ~Full(w, at[w])'
      /\ pc'[w] = "hash" => ~(next' < Total) \/ Full(w, 0)' \/ Full(w, 1)'
      /\ pc'[w] = "done" => ~(next' < Total) /\ ~Full(w, 0)' /\ ~Full(w, 1)'
      /\ ~twoLanes => pc'[w] \in {"fill", "done"} /\ ~Full(w, 0)' /\ ~Full(w, 1)'
  <2>1. CASE ClaimsChunk(w)
    BY <1>1, <2>1 DEF ClaimsChunk, TypeInv, Drained
  <2>2. CASE RecordsChunk(w)
    BY <1>1, <2>2 DEF RecordsChunk, TypeInv, Drained
  <2>3. CASE HashesChunk(w)
    BY <1>1, <1>3, <2>3 DEF HashesChunk, TypeInv, Drained, Full
  <2>4. CASE FindsNone(w)
    <3>1. (\A j \in Lane : Full(w, j)' <=> Full(w, j)) /\ ~(next' < Total)
      BY <1>4, <2>4 DEF FindsNone, Full
    <3>. QED BY <1>1, <2>4, <3>1 DEF FindsNone, NextLane, TypeInv, Drained
  <2>5. CASE Hashing(w)
    <3>1. \A j \in Lane : Full(w, j)' <=> Full(w, j)
      BY <2>5, HashingKeeps, Counts DEF SameChunks, Full, TypeInv
    <3>2. CASE Settle(w)
      BY <1>1, <3>1, <3>2 DEF Settle, TypeInv, Drained
    <3>3. CASE KeepLane(w)
      BY <1>1, <3>1, <3>3 DEF KeepLane, NextLane, TypeInv, Drained
    <3>4. CASE Look(w)
      BY <1>1, <3>1, <3>4 DEF Look, NextLane, TypeInv, Drained
    <3>5. CASE HashBoth(w) \/ HashOne(w)
      BY <1>1, <3>1, <3>5 DEF HashBoth, HashOne, TypeInv, Drained
    <3>6. CASE Return(w)
      BY <1>1, <3>1, <3>6 DEF Return, TypeInv, Drained
    <3>. QED BY <2>5, <3>2, <3>3, <3>4, <3>5, <3>6 DEF Hashing
  <2>. QED BY <2>1, <2>2, <2>3, <2>4, <2>5, WorkerCases
<1>7. ~joined
  BY <1>3 DEF Drained
<1>8. \A v \in Worker : v # w => Full(v, at[v])' <=> Full(v, at[v])
  BY <1>5, WorkerPlaces DEF TypeInv, Full
<1>9. \A v \in Worker : v # w => pc'[v] = pc[v] /\ at'[v] = at[v]
  BY WorkerPlaces
<1>. QED BY <1>1, <1>2, <1>4, <1>5, <1>6, <1>7, <1>8, <1>9 DEF Drained

-----------------------------------------------------------------------------
(* Every header once.                                                      *)

\* What a chunk contributes depends on the offsets alone.
LEMMA FixedHeaders ==
    ASSUME lfh' = lfh
    PROVE  \A k : StartsIn(k)' = StartsIn(k) /\ WholeIn(k)' = WholeIn(k)
  BY DEF StartsIn, WholeIn

\* Claiming a chunk inspects the headers that start in it and no others.
LEMMA InspectHeaders ==
    ASSUME TypeInv, Headers, next < Total, next' = next + 1, Inspect(next),
           UNCHANGED <<lfh, bad, lens>>
    PROVE  Headers'
<1>1. next \in Chunk /\ next \in Nat /\ ChunkCount(1) \in Nat /\ \A k \in Chunk : k \in Nat
  BY Counts DEF TypeInv
<1>2. \A k : StartsIn(k)' = StartsIn(k) /\ WholeIn(k)' = WholeIn(k)
  BY FixedHeaders
<1>3. \A k \in Chunk : k # next => (k < next' <=> k < next)
  BY <1>1
<1>4. next < next'
  BY <1>1
<1>5. WholeIn(next) \subseteq StartsIn(next) /\ StartsIn(next) \subseteq lfh
  BY DEF WholeIn, StartsIn
<1>6. CASE ~(next < ChunkCount(1))
  <2>1. UNCHANGED <<found, straddlers, error>>
    BY <1>6 DEF Inspect, SourceOf, inspector
  <2>2. ASSUME NEW o \in lfh, NEW k \in Chunk, k < ChunkCount(1), o \in StartsIn(k)
        PROVE  Inspected(o, k)'
    <3>1. Inspected(o, k) /\ k # next
      BY <1>6, <2>2 DEF Headers
    <3>. QED BY <1>2, <1>3, <2>1, <3>1 DEF Inspected
  <2>. QED BY <1>2, <2>1, <2>2 DEF Headers
<1>7. CASE next < ChunkCount(1)
  <2>1. \/ /\ WholeIn(next) \cap bad # {}
           /\ error' = TRUE /\ UNCHANGED <<found, straddlers>>
        \/ /\ WholeIn(next) \cap bad = {}
           /\ found' = found \cup WholeIn(next)
           /\ straddlers' = straddlers \cup (StartsIn(next) \ WholeIn(next))
           /\ error' = error
    BY <1>7 DEF Inspect, SourceOf
  <2>2. ASSUME NEW o \in lfh, NEW k \in Chunk, k < ChunkCount(1), o \in StartsIn(k)
        PROVE  Inspected(o, k)'
    <3>1. Inspected(o, k)
      BY <2>2 DEF Headers
    <3>2. CASE k = next
      <4>1. o \notin found /\ o \notin straddlers
        BY <1>1, <3>1, <3>2 DEF Inspected
      <4>. QED BY <1>2, <1>4, <2>1, <2>2, <3>2, <4>1 DEF Inspected
    <3>3. CASE k # next
      <4>1. o \notin StartsIn(next) /\ o \notin WholeIn(next)
        BY <1>1, <1>5, <2>2, <3>3, HeaderChunk DEF Headers
      <4>2. (o \in found' <=> o \in found) /\ (o \in straddlers' <=> o \in straddlers)
        BY <2>1, <4>1
      <4>3. error => error'
        BY <2>1
      <4>. QED BY <1>2, <1>3, <3>1, <3>3, <4>2, <4>3 DEF Inspected
    <3>. QED BY <3>2, <3>3
  <2>3. found' \cup straddlers' \subseteq lfh
    BY <1>5, <2>1 DEF Headers
  <2>4. error' \in BOOLEAN
    BY <2>1 DEF Headers
  <2>5. error' => bad # {}
    BY <2>1, Zenon DEF Headers
  <2>. QED BY <1>2, <2>2, <2>3, <2>4, <2>5 DEF Headers
<1>. QED BY <1>6, <1>7

\* A step of a worker inspects the headers of the chunk it claims.
LEMMA WorkerHeaders ==
    ASSUME TypeInv, Headers, NEW w \in Worker, WorkerStep(w)
    PROVE  Headers'
<1>1. next \in Nat /\ Total \in Nat /\ \A k \in Chunk : k \in Nat /\ k < Total
  BY Counts DEF TypeInv
<1>2. CASE ClaimsChunk(w) \/ HashesChunk(w)
  BY <1>2, InspectHeaders DEF ClaimsChunk, HashesChunk, input, caller
<1>3. CASE RecordsChunk(w) \/ FindsNone(w) \/ Hashing(w)
  <2>1. UNCHANGED <<input, inspector, caller>>
    BY <1>3, HashingKeeps DEF RecordsChunk, FindsNone
  <2>2. \A k \in Chunk : k < next' <=> k < next
    <3>1. CASE RecordsChunk(w) \/ Hashing(w)
      BY <3>1, HashingKeeps DEF RecordsChunk
    <3>2. CASE FindsNone(w)
      BY <1>1, <3>2, Counts DEF FindsNone
    <3>. QED BY <1>3, <3>1, <3>2
  <2>3. \A k : StartsIn(k)' = StartsIn(k) /\ WholeIn(k)' = WholeIn(k)
    BY <2>1, FixedHeaders DEF input
  <2>4. \A o \in lfh : \A k \in Chunk : Inspected(o, k)' <=> Inspected(o, k)
    BY <2>1, <2>2, <2>3 DEF Inspected, input, inspector
  <2>. QED BY <2>1, <2>3, <2>4 DEF Headers, input, inspector, caller
<1>. QED BY <1>2, <1>3, WorkerCases

\* Once everything is claimed, the verdict on the headers is right.
LEMMA FinishHeaders ==
    ASSUME TypeInv, Drained, Headers, FinishInspect
    PROVE  Headers'
<1>1. /\ joined /\ UNCHANGED <<lfh, bad, next, found, straddlers, error>>
      /\ lens' = IF error \/ straddlers \cap bad # {} THEN "err"
                 ELSE IF found \cup straddlers = lfh THEN "ok" ELSE "unseen"
  BY DEF FinishInspect, input, inspector
<1>2. 1 \in Worker
  BY LengthsAssumption DEF Worker
<1>3. ~(next < Total)
  BY <1>1, <1>2 DEF Drained
<1>4. \A k \in Chunk : k < next
  BY <1>3, Counts DEF TypeInv
<1>5. ASSUME NEW o \in lfh
      PROVE  \E k \in Chunk : /\ o \in StartsIn(k) /\ Inspected(o, k) /\ k < next
  BY <1>4, <1>5, HeaderChunk DEF Headers
<1>6. CASE bad = {}
  <2>1. ~error /\ straddlers \cap bad = {}
    BY <1>6 DEF Headers
  <2>2. \A o \in lfh : o \in found \cup straddlers
    BY <1>5, <1>6 DEF Inspected
  <2>3. found \cup straddlers = lfh
    BY <2>2 DEF Headers
  <2>. QED BY <1>1, <1>6, <2>1, <2>3, FixedHeaders DEF Headers, Inspected
<1>7. CASE bad # {}
  <2>1. PICK o \in bad : o \in lfh
    BY <1>7 DEF Headers
  <2>2. PICK k \in Chunk : o \in StartsIn(k) /\ Inspected(o, k) /\ k < next
    BY <1>5, <2>1
  <2>3. error \/ o \in straddlers
    BY <2>1, <2>2 DEF Inspected
  <2>4. lens' = "err"
    BY <1>1, <2>1, <2>3
  <2>. QED BY <1>1, <1>7, <2>4, FixedHeaders DEF Headers, Inspected
<1>. QED BY <1>6, <1>7
-----------------------------------------------------------------------------
(* The hasher.                                                             *)

\* The rest after division by the size of a block.
LEMMA Rests ==
    /\ Block \in Nat \ {0} /\ DigestLen \in Nat \ {0} /\ LenField \in Nat \ {0}
    /\ \A n \in Nat : n % Block \in 0 .. Block - 1 /\ n % Block <= n /\ (n - (n % Block)) % Block = 0
    /\ \A n \in 0 .. Block - 1 : n % Block = n
    /\ \A a, b \in Nat : b % Block = 0 => (a + b) % Block = a % Block
    /\ Block % Block = 0
<1>1. Block \in Nat \ {0} /\ DigestLen \in Nat \ {0} /\ LenField \in Nat \ {0}
  BY ShaAssumption
<1>2. \A a, b \in Nat : b % Block = 0 => (a + b) % Block = a % Block
  BY <1>1, Multiples
<1>3. \A q \in Nat, r \in 0 .. Block - 1 : (Block * q + r) % Block = r
  BY <1>1, Division
<1>4. \A q \in Nat : (Block * q) % Block = 0
  <2>. SUFFICES ASSUME NEW q \in Nat PROVE (Block * q) % Block = 0
    OBVIOUS
  <2>1. Block * q = Block * q + 0 /\ 0 \in 0 .. Block - 1
    BY <1>1
  <2>. QED BY <1>3, <2>1
<1>5. ASSUME NEW n \in Nat
      PROVE  n % Block \in 0 .. Block - 1 /\ n % Block <= n /\ (n - (n % Block)) % Block = 0
  <2>. DEFINE q == n \div Block
              r == n % Block
  <2>1. q \in Nat /\ r \in 0 .. Block - 1 /\ n = Block * q + r
    BY <1>1
  <2>. HIDE DEF q, r
  <2>2. Block * q \in Nat
    BY <1>1, <2>1
  <2>3. n - r = Block * q /\ r <= n
    BY <1>1, <2>1, <2>2
  <2>4. (n - r) % Block = 0
    BY <1>4, <2>1, <2>3
  <2>. QED BY <2>1, <2>3, <2>4 DEF r
<1>6. ASSUME NEW n \in 0 .. Block - 1 PROVE n % Block = n
  <2>1. n = Block * 0 + n /\ 0 \in Nat
    BY <1>1
  <2>. QED BY <1>3, <2>1
<1>7. Block % Block = 0
  <2>1. Block = Block * 1 /\ 1 \in Nat
    BY <1>1
  <2>. QED BY <1>4, <2>1
<1>. QED BY <1>1, <1>2, <1>5, <1>6, <1>7

\* Concatenation.
LEMMA Concats ==
    ASSUME NEW S
    PROVE  /\ \A s, t \in Seq(S) : s \o t \in Seq(S) /\ Len(s \o t) = Len(s) + Len(t)
           /\ \A s, t, u \in Seq(S) : (s \o t) \o u = s \o (t \o u)
           /\ \A s \in Seq(S) : Len(s) \in Nat /\ s \o <<>> = s /\ <<>> \o s = s
           /\ \A s \in Seq(S) : s = <<>> <=> Len(s) = 0
           /\ <<>> \in Seq(S)
<1>1. \A s, t \in Seq(S) : s \o t \in Seq(S) /\ Len(s \o t) = Len(s) + Len(t)
  BY ConcatProperties
<1>2. ASSUME NEW s \in Seq(S), NEW t \in Seq(S), NEW u \in Seq(S)
      PROVE  (s \o t) \o u = s \o (t \o u)
  BY ConcatAssociative
<1>3. \A s \in Seq(S) : Len(s) \in Nat /\ s \o <<>> = s /\ <<>> \o s = s
  BY ConcatEmptySeq, LenProperties, Zenon
<1>4. \A s \in Seq(S) : s = <<>> <=> Len(s) = 0
  BY EmptySeq
<1>. QED BY <1>1, <1>2, <1>3, <1>4, EmptySeq

\* A sequence is its first n elements and those from n + 1 on.
LEMMA Split ==
    ASSUME NEW S, NEW s \in Seq(S), NEW n \in 0 .. Len(s)
    PROVE  /\ Upto(s, n) \in Seq(S) /\ Len(Upto(s, n)) = n
           /\ From(s, n + 1) \in Seq(S) /\ Len(From(s, n + 1)) = Len(s) - n
           /\ Upto(s, n) \o From(s, n + 1) = s
<1>1. Len(s) \in Nat /\ n \in Nat /\ n <= Len(s)
  OBVIOUS
<1>2. (\A i \in 1 .. n : s[i] \in S) /\ (\A i \in n + 1 .. Len(s) : s[i] \in S)
  <2>1. \A i \in 1 .. Len(s) : s[i] \in S
    BY ElementOfSeq
  <2>. QED BY <1>1, <2>1
<1>3. Upto(s, n) \in Seq(S) /\ Len(Upto(s, n)) = n
  <2>1. SubSeq(s, 1, n) \in Seq(S) /\ Len(SubSeq(s, 1, n)) = IF 1 <= n THEN n - 1 + 1 ELSE 0
    BY <1>1, <1>2, SubSeqProperties
  <2>. QED BY <1>1, <2>1 DEF Upto
<1>4. From(s, n + 1) \in Seq(S) /\ Len(From(s, n + 1)) = Len(s) - n
  <2>1. /\ SubSeq(s, n + 1, Len(s)) \in Seq(S)
        /\ Len(SubSeq(s, n + 1, Len(s))) = IF n + 1 <= Len(s) THEN Len(s) - (n + 1) + 1 ELSE 0
    BY <1>1, <1>2, SubSeqProperties
  <2>. QED BY <1>1, <2>1 DEF From
<1>5. Upto(s, n) \o From(s, n + 1) = s
  <2>1. 1 \in 1 .. Len(s) + 1 /\ n \in 1 - 1 .. Len(s) /\ Len(s) \in n .. Len(s)
    BY <1>1
  <2>2. SubSeq(s, 1, n) \o SubSeq(s, n + 1, Len(s)) = SubSeq(s, 1, Len(s))
    BY <2>1, ConcatAdjacentSubSeq
  <2>. QED BY <2>2, SubSeqFull DEF Upto, From
<1>. QED BY <1>3, <1>4, <1>5

\* Update absorbs the data.
LEMMA UpdateAbsorbs ==
    ASSUME NEW S, NEW m, NEW data \in Seq(S), NEW h, HasherOf(h, m, S)
    PROVE  HasherOf(Update(h, data), m \o data, S) /\ m \o data \in Seq(S)
<1>. DEFINE st == h.state
            bf == h.buf
            ln == h.len
            take == IF bf = <<>> THEN 0 ELSE Least(Block - Len(bf), Len(data))
            head == Upto(data, take)
            buf == bf \o head
            rest == From(data, take + 1)
            w == Whole(rest)
            blocks == Upto(rest, w)
            left == From(rest, w + 1)
            state == (st \o buf) \o blocks
<1>1. /\ st \in Seq(S) /\ bf \in Seq(S) /\ ln \in Nat
      /\ st \o bf = m /\ Len(bf) < Block /\ ln = Len(m)
  BY DEF HasherOf
<1>0. Len(st) % Block = 0
  BY DEF HasherOf
<1>2. h \in [state : Seq(S), buf : Seq(S), len : Nat]
  BY DEF HasherOf
<1>3. Update(h, data) = IF bf # <<>> /\ Len(buf) < Block
                          THEN [state |-> st, buf |-> buf, len |-> ln + Len(data)]
                          ELSE [state |-> state, buf |-> left, len |-> ln + Len(data)]
  BY DEF Update, Compress
<1>. HIDE DEF st, bf, ln
<1>4. Block \in Nat \ {0}
  BY Rests
<1>5. Len(bf) \in Nat /\ Len(data) \in Nat /\ Len(st) \in Nat
  BY <1>1, Concats
<1>6. m \in Seq(S) /\ m \o data \in Seq(S) /\ Len(m \o data) = ln + Len(data)
  <2>1. st \o bf \in Seq(S)
    BY <1>1, ConcatProperties
  <2>2. m \in Seq(S)
    BY <1>1, <2>1
  <2>3. m \o data \in Seq(S) /\ Len(m \o data) = Len(m) + Len(data)
    BY <2>2, ConcatProperties
  <2>. QED BY <1>1, <2>2, <2>3
<1>7. bf = <<>> <=> Len(bf) = 0
  BY <1>1, Concats
<1>8. take \in 0 .. Len(data) /\ (bf # <<>> => Len(bf) + take <= Block)
      /\ (bf # <<>> /\ Len(bf) + take < Block => take = Len(data))
      /\ (bf = <<>> => take = 0)
  BY <1>1, <1>4, <1>5 DEF Least
<1>. HIDE DEF take
<1>9. /\ head \in Seq(S) /\ Len(head) = take
      /\ rest \in Seq(S) /\ Len(rest) = Len(data) - take /\ head \o rest = data
  BY <1>8, Split
<1>. HIDE DEF head, rest
<1>10. buf \in Seq(S) /\ Len(buf) = Len(bf) + take
  <2>1. bf \o head \in Seq(S) /\ Len(bf \o head) = Len(bf) + Len(head)
    BY <1>1, <1>9, ConcatProperties
  <2>. QED BY <1>9, <2>1
<1>11. buf \o rest = bf \o data
  <2>1. (bf \o head) \o rest = bf \o (head \o rest)
    <3>1. bf \in Seq(S) /\ head \in Seq(S) /\ rest \in Seq(S)
      BY <1>1, <1>9
    <3>. QED BY ONLY <3>1, ConcatAssociative
  <2>. QED BY <1>9, <2>1
<1>. HIDE DEF buf
<1>12. st \o (buf \o rest) = m \o data
  <2>1. (st \o bf) \o data = st \o (bf \o data)
    <3>1. st \in Seq(S) /\ bf \in Seq(S) /\ data \in Seq(S)
      BY <1>1
    <3>. QED BY ONLY <3>1, ConcatAssociative
  <2>. QED BY <1>1, <1>11, <2>1
<1>13. ln + Len(data) \in Nat
  BY <1>1, <1>5
<1>14. CASE bf # <<>> /\ Len(buf) < Block
  <2>1. Len(rest) = 0
    BY <1>5, <1>8, <1>9, <1>10, <1>14
  <2>2. rest = <<>>
    BY <1>9, <2>1, Concats
  <2>3. st \o buf = m \o data
    BY <1>10, <1>12, <2>2, Concats
  <2>4. Update(h, data) = [state |-> st, buf |-> buf, len |-> ln + Len(data)]
    BY <1>3, <1>14
  <2>. DEFINE g == Update(h, data)
  <2>. HIDE DEF g
  <2>5. g = [state |-> st, buf |-> buf, len |-> ln + Len(data)]
    BY <2>4 DEF g
  <2>6. g \in [state : Seq(S), buf : Seq(S), len : Nat]
    <3>1. st \in Seq(S) /\ buf \in Seq(S)
      BY <1>1, <1>10
    <3>. QED BY ONLY <1>13, <2>5, <3>1
  <2>7. g.state = st /\ g.buf = buf /\ g.len = ln + Len(data)
    BY <2>5
  <2>8. Len(buf) < Block
    BY <1>14
  <2>. QED BY ONLY <1>0, <1>6, <2>3, <2>6, <2>7, <2>8 DEF HasherOf, g
<1>15. CASE ~(bf # <<>> /\ Len(buf) < Block)
  <2>1. Len(buf) % Block = 0
    <3>1. Len(buf) = 0 \/ Len(buf) = Block
      <4>1. CASE bf = <<>>
        BY <1>7, <1>8, <1>10, <4>1
      <4>2. CASE bf # <<>>
        BY <1>4, <1>5, <1>8, <1>10, <1>15, <4>2
      <4>. QED BY <4>1, <4>2
    <3>. QED BY <3>1, Rests
  <2>2. Len(rest) \in Nat
    BY <1>9, Concats
  <2>3. w \in 0 .. Len(rest) /\ Len(rest) - w < Block
    <3>. DEFINE r == Len(rest) % Block
    <3>1. r \in 0 .. Block - 1 /\ r <= Len(rest)
      BY <2>2, Rests
    <3>2. w = Len(rest) - r
      BY DEF Whole
    <3>. HIDE DEF r, w
    <3>. QED BY <1>4, <2>2, <3>1, <3>2
  <2>11. w % Block = 0
    BY <2>2, Rests DEF Whole
  <2>. HIDE DEF w
  <2>4. /\ blocks \in Seq(S) /\ Len(blocks) = w
        /\ left \in Seq(S) /\ Len(left) = Len(rest) - w /\ blocks \o left = rest
    BY <1>9, <2>3, Split
  <2>. HIDE DEF blocks, left
  <2>5. st \o buf \in Seq(S) /\ Len(st \o buf) = Len(st) + Len(buf)
    BY <1>1, <1>10, Concats
  <2>6. state \in Seq(S) /\ Len(state) = Len(st) + Len(buf) + w
    <3>. DEFINE b == st \o buf
    <3>. HIDE DEF b
    <3>2. b \in Seq(S)
      BY <2>5 DEF b
    <3>3. b \o blocks \in Seq(S) /\ Len(b \o blocks) = Len(b) + Len(blocks)
      BY <2>4, <3>2, ConcatProperties
    <3>1. state \in Seq(S) /\ Len(state) = Len(st \o buf) + Len(blocks)
      BY <3>3 DEF b
    <3>. QED BY <2>4, <2>5, <3>1
  <2>7. Len(state) % Block = 0
    <3>1. Len(buf) \in Nat /\ w \in Nat /\ Len(st) + Len(buf) \in Nat
      BY <1>5, <1>10, <2>3, Concats
    <3>2. (Len(st) + Len(buf)) % Block = 0
      BY <1>0, <1>5, <2>1, <3>1, Rests
    <3>3. (Len(st) + Len(buf) + w) % Block = 0
      BY <2>11, <3>1, <3>2, Rests
    <3>. QED BY <2>6, <3>3
  <2>8. state \o left = m \o data
    <3>1. state \o left = (st \o buf) \o (blocks \o left)
      <4>. DEFINE b == st \o buf
      <4>. HIDE DEF b
      <4>1. b \in Seq(S)
        BY <2>5 DEF b
      <4>2. (b \o blocks) \o left = b \o (blocks \o left)
        <5>1. b \in Seq(S) /\ blocks \in Seq(S) /\ left \in Seq(S)
          BY <2>4, <4>1
        <5>. QED BY ONLY <5>1, ConcatAssociative
      <4>. QED BY <4>2 DEF b
    <3>2. (st \o buf) \o rest = st \o (buf \o rest)
      <4>1. st \in Seq(S) /\ buf \in Seq(S) /\ rest \in Seq(S)
        BY <1>1, <1>9, <1>10
      <4>. QED BY ONLY <4>1, ConcatAssociative
    <3>. QED BY <1>12, <2>4, <3>1, <3>2
  <2>9. Len(left) < Block
    BY <2>3, <2>4
  <2>. HIDE DEF state
  <2>10. Update(h, data) = [state |-> state, buf |-> left, len |-> ln + Len(data)]
    BY <1>3, <1>15
  <2>. DEFINE g == Update(h, data)
  <2>. HIDE DEF g
  <2>12. g = [state |-> state, buf |-> left, len |-> ln + Len(data)]
    BY <2>10 DEF g
  <2>13. g \in [state : Seq(S), buf : Seq(S), len : Nat]
    BY <1>13, <2>4, <2>6, <2>12
  <2>14. g.state = state /\ g.buf = left /\ g.len = ln + Len(data)
    BY <2>12
  <2>. QED BY ONLY <1>6, <2>7, <2>8, <2>9, <2>13, <2>14 DEF HasherOf, g
<1>. QED BY <1>6, <1>14, <1>15

\* A hasher at a block boundary takes whole blocks straight into its state.
LEMMA BlocksAbsorbed ==
    ASSUME NEW S, NEW m, NEW data \in Seq(S), NEW h, HasherOf(h, m, S),
           data = <<>> \/ (Gap(h) = 0 /\ Len(data) % Block = 0),
           NEW g, g = [state |-> h.state \o data, buf |-> h.buf, len |-> h.len + Len(data)]
    PROVE  HasherOf(g, m \o data, S) /\ m \o data \in Seq(S)
<1>. DEFINE st == h.state
            bf == h.buf
            ln == h.len
<1>1. /\ st \in Seq(S) /\ bf \in Seq(S) /\ ln \in Nat
      /\ st \o bf = m /\ Len(bf) < Block /\ ln = Len(m)
  BY DEF HasherOf
<1>2. Len(st) % Block = 0
  BY DEF HasherOf
<1>3. g = [state |-> st \o data, buf |-> bf, len |-> ln + Len(data)]
  OBVIOUS
<1>4. Block \in Nat \ {0} /\ Len(bf) \in Nat /\ Len(data) \in Nat /\ Len(st) \in Nat
  BY <1>1, Rests, Concats
<1>5. data = <<>> \/ bf = <<>>
  <2>. SUFFICES ASSUME Gap(h) = 0 PROVE bf = <<>>
    OBVIOUS
  <2>. DEFINE n == Block - Len(bf)
  <2>0. n % Block = 0
    BY DEF Gap
  <2>1. n \in 1 .. Block
    BY <1>1, <1>4
  <2>. HIDE DEF n
  <2>2. n \in 0 .. Block - 1 => n % Block = n
    BY Rests
  <2>3. n = Block
    BY <1>4, <2>0, <2>1, <2>2
  <2>4. Len(bf) = 0
    BY <1>4, <2>3 DEF n
  <2>. QED BY <1>1, <2>4, Concats
<1>6. Len(data) % Block = 0
  BY Rests, Concats
<1>. HIDE DEF st, bf, ln
<1>7. m \in Seq(S) /\ m \o data \in Seq(S) /\ Len(m \o data) = ln + Len(data)
  <2>1. st \o bf \in Seq(S)
    BY <1>1, ConcatProperties
  <2>2. m \in Seq(S)
    BY <1>1, <2>1
  <2>3. m \o data \in Seq(S) /\ Len(m \o data) = Len(m) + Len(data)
    BY <2>2, ConcatProperties
  <2>. QED BY <1>1, <2>2, <2>3
<1>8. st \o data \in Seq(S) /\ Len(st \o data) = Len(st) + Len(data)
  BY <1>1, ConcatProperties
<1>9. Len(st \o data) % Block = 0
  <2>1. (Len(st) + Len(data)) % Block = 0
    BY <1>2, <1>4, <1>6, Rests
  <2>. QED BY <1>8, <2>1
<1>10. (st \o data) \o bf = m \o data
  <2>1. CASE data = <<>>
    <3>1. st \o <<>> = st /\ m \o <<>> = m
      BY <1>1, <1>7, ConcatEmptySeq
    <3>. QED BY <1>1, <2>1, <3>1
  <2>2. CASE bf = <<>>
    <3>1. st \o <<>> = st
      BY <1>1, ConcatEmptySeq
    <3>2. (st \o data) \o <<>> = st \o data
      <4>. DEFINE b == st \o data
      <4>1. b \in Seq(S)
        BY <1>8
      <4>. HIDE DEF b
      <4>2. b \o <<>> = b
        BY <4>1, ConcatEmptySeq
      <4>. QED BY <4>2 DEF b
    <3>. QED BY <1>1, <2>2, <3>1, <3>2
  <2>. QED BY <1>5, <2>1, <2>2
<1>11. ln + Len(data) \in Nat
  BY <1>1, <1>4
<1>. DEFINE b == st \o data
<1>12. g = [state |-> b, buf |-> bf, len |-> ln + Len(data)] /\ b \in Seq(S)
  BY <1>3, <1>8
<1>13. Len(b) % Block = 0 /\ b \o bf = m \o data
  BY <1>9, <1>10
<1>. HIDE DEF b
<1>14. g \in [state : Seq(S), buf : Seq(S), len : Nat]
  <2>1. bf \in Seq(S)
    BY <1>1
  <2>. QED BY ONLY <1>11, <1>12, <2>1
<1>15. g.state = b /\ g.buf = bf /\ g.len = ln + Len(data)
  BY <1>12
<1>. QED BY ONLY <1>1, <1>7, <1>13, <1>14, <1>15 DEF HasherOf

\* There is one way to fill up to a multiple of Block with less than Block.
LEMMA OneFilling ==
    ASSUME NEW a \in Nat, NEW y \in 0 .. Block - 1, NEW z \in 0 .. Block - 1,
           (a + y) % Block = 0, (a + z) % Block = 0
    PROVE  y = z
<1>1. Block \in Nat \ {0}
  BY Rests
<1>2. ASSUME NEW u \in 0 .. Block - 1, NEW v \in 0 .. Block - 1, u <= v,
             (a + u) % Block = 0, (a + v) % Block = 0
      PROVE  u = v
  <2>. DEFINE d == v - u
              b == a + u
  <2>1. d \in 0 .. Block - 1 /\ d \in Nat /\ b \in Nat /\ a + v = d + b
    BY <1>1, <1>2
  <2>2. b % Block = 0 /\ (d + b) % Block = 0
    BY <1>2, <2>1
  <2>. HIDE DEF d, b
  <2>3. d % Block = 0 /\ d % Block = d
    BY <2>1, <2>2, Rests
  <2>4. d = 0
    BY <2>3
  <2>. QED BY <1>1, <2>4 DEF d
<1>3. y <= z \/ z <= y
  BY <1>1
<1>. QED BY <1>2, <1>3

\* The number of zeros in finish, which wraps around the machine word, is
\* the number the standard asks for.
LEMMA WrappedZeros ==
    ASSUME NEW n \in Nat, NEW b \in 0 .. Block - 1, n % Block = 0,
           NEW z, z = ((Block - 1 - LenField - b) % Word) % Block
    PROVE  /\ z \in 0 .. Block - 1
           /\ (n + b + 1 + z + LenField) % Block = 0
<1>. DEFINE x == Block - 1 - LenField - b
<1>1. /\ Block \in Nat \ {0} /\ LenField \in Nat \ {0} /\ Word \in Nat \ {0}
      /\ DigestLen \in Nat /\ DigestLen + 1 + LenField <= Block
  BY ShaAssumption
<1>2. Word % Block = 0
  BY ShaAssumption
<1>3. x \in Int /\ x < Block /\ -Block < x
  BY <1>1
<1>4. Block <= Word
  <2>1. ~(Word \in 0 .. Block - 1)
    <3>1. Word \in 0 .. Block - 1 => Word % Block = Word
      BY Rests
    <3>. QED BY <1>1, <1>2, <3>1
  <2>. QED BY <1>1, <2>1
<1>5. (n + Block) % Block = 0 /\ (n + Block + Block) % Block = 0
  <2>1. n + Block \in Nat /\ Block \in Nat
    BY <1>1
  <2>2. \A a, b2 \in Nat : b2 % Block = 0 => (a + b2) % Block = a % Block
    BY Rests
  <2>3. Block % Block = 0
    BY Rests
  <2>4. (n + Block) % Block = 0
    BY <2>1, <2>2, <2>3
  <2>. DEFINE c == n + Block
  <2>. HIDE DEF c
  <2>5. (c + Block) % Block = 0
    BY <2>1, <2>2, <2>3, <2>4 DEF c
  <2>. QED BY <2>4, <2>5 DEF c
<1>6. CASE 0 <= x
  <2>1. x % Word = x
    <3>1. x = Word * 0 + x /\ x \in 0 .. Word - 1 /\ 0 \in Nat
      BY <1>1, <1>3, <1>4, <1>6
    <3>. HIDE DEF x
    <3>2. (Word * 0 + x) % Word = x
      BY <1>1, <3>1, Division
    <3>. QED BY <3>1, <3>2
  <2>2. x \in 0 .. Block - 1
    BY <1>1, <1>3, <1>6
  <2>3. z = x
    <3>. HIDE DEF x
    <3>1. z = (x % Word) % Block
      BY DEF x
    <3>. QED BY <2>1, <2>2, <3>1, Rests
  <2>4. n + b + 1 + z + LenField = n + Block
    BY <1>1, <2>3
  <2>. QED BY <1>5, <2>2, <2>3, <2>4
<1>7. CASE x < 0
  <2>1. x % Word = x + Word
    <3>. HIDE DEF x
    <3>. DEFINE q == x \div Word
                r == x % Word
    <3>1. q \in Int /\ r \in 0 .. Word - 1 /\ x = Word * q + r
      BY <1>1, <1>3
    <3>. HIDE DEF q, r
    <3>2. q < 0
      <4>. SUFFICES ASSUME 0 <= q PROVE FALSE
        BY <3>1
      <4>1. Word * q \in Nat
        BY <1>1, <3>1
      <4>. QED BY <1>7, <3>1, <4>1
    <3>3. ~(q < -1)
      <4>. SUFFICES ASSUME q < -1 PROVE FALSE
        OBVIOUS
      <4>. DEFINE e == -2 - q
      <4>1. e \in Nat /\ q = -2 - e
        BY <3>1
      <4>. HIDE DEF e
      <4>2. Word * q = -2 * Word - Word * e /\ Word * e \in Nat
        BY <1>1, <4>1
      <4>. QED BY <1>1, <1>3, <1>4, <3>1, <4>2
    <3>4. q = -1
      BY <3>1, <3>2, <3>3
    <3>5. x = r - Word
      BY <1>1, <3>1, <3>4
    <3>. QED BY <1>1, <3>1, <3>5 DEF r
  <2>. DEFINE y == x + Block
              v == Word - Block
  <2>2. y \in 0 .. Block - 1 /\ y \in Nat /\ v \in Nat /\ x + Word = y + v
    BY <1>1, <1>3, <1>4, <1>7
  <2>3. v % Block = 0
    <3>1. v + Block = Word
      BY <1>1
    <3>. HIDE DEF v
    <3>2. (v + Block) % Block = v % Block
      BY <1>1, <2>2, Rests
    <3>. QED BY <1>2, <3>1, <3>2
  <2>4. z = (y + v) % Block
    <3>1. z = (x % Word) % Block
      OBVIOUS
    <3>. HIDE DEF x, y, v
    <3>. QED BY <2>1, <2>2, <3>1
  <2>5. z = y
    <3>. HIDE DEF y, v
    <3>. QED BY <2>2, <2>3, <2>4, Rests
  <2>6. n + b + 1 + z + LenField = n + Block + Block
    BY <1>1, <2>5
  <2>. QED BY <1>5, <2>2, <2>5, <2>6
<1>. QED BY <1>3, <1>6, <1>7

\* finish returns the hash of what the hasher absorbed, as the standard
\* defines it.
LEMMA FinishIsHash ==
    ASSUME NEW S, NEW m \in Seq(S), NEW h, HasherOf(h, m, S),
           Mark \in S, Zero \in S, \A n \in Nat, i \in 1 .. LenField : <<"len", n, i>> \in S
    PROVE  Finish(h) = Hash(m)
<1>. DEFINE st == h.state
            bf == h.buf
            z == ((Block - 1 - LenField - Len(bf)) % Word) % Block
            length == LenBytes(Len(m))
            pad == <<Mark>> \o Zeros(z) \o length
            g == Update(h, pad)
<1>1. Block \in Nat \ {0} /\ LenField \in Nat \ {0}
  BY Rests
<1>2. st \in Seq(S) /\ bf \in Seq(S) /\ st \o bf = m /\ Len(bf) < Block /\ h.len = Len(m)
  BY DEF HasherOf
<1>3. Len(st) % Block = 0
  BY DEF HasherOf
<1>4. Len(st) \in Nat /\ Len(bf) \in 0 .. Block - 1 /\ Len(m) \in Nat
  BY <1>1, <1>2, LenProperties
<1>5. Len(m) = Len(st) + Len(bf)
  <2>1. Len(st \o bf) = Len(st) + Len(bf)
    BY <1>2, ConcatProperties
  <2>. QED BY <1>2, <2>1
<1>6. Finish(h) = StateBytes(g.state)
  BY <1>2 DEF Finish
<1>7. z \in 0 .. Block - 1 /\ (Len(m) + 1 + z + LenField) % Block = 0
  <2>. HIDE DEF st, bf
  <2>1. z \in 0 .. Block - 1 /\ (Len(st) + Len(bf) + 1 + z + LenField) % Block = 0
    <3>1. z = ((Block - 1 - LenField - Len(bf)) % Word) % Block
      OBVIOUS
    <3>. HIDE DEF z
    <3>. QED BY <1>3, <1>4, <3>1, WrappedZeros
  <2>. QED BY <1>5, <2>1
<1>. HIDE DEF z, st, bf
<1>8. z = CHOOSE y \in 0 .. Block - 1 : (Len(m) + 1 + y + LenField) % Block = 0
  <2>. DEFINE c == CHOOSE y \in 0 .. Block - 1 : (Len(m) + 1 + y + LenField) % Block = 0
              a == Len(m) + 1 + LenField
  <2>1. c \in 0 .. Block - 1 /\ (Len(m) + 1 + c + LenField) % Block = 0
    BY <1>7
  <2>. HIDE DEF c
  <2>2. a \in Nat /\ Len(m) + 1 + c + LenField = a + c /\ Len(m) + 1 + z + LenField = a + z
    BY <1>1, <1>4, <1>7, <2>1
  <2>3. (a + c) % Block = 0 /\ (a + z) % Block = 0
    BY <1>7, <2>1, <2>2
  <2>. HIDE DEF a
  <2>4. z = c
    BY <1>7, <2>1, <2>2, <2>3, OneFilling
  <2>. QED BY <2>4 DEF c
<1>9. Padded(m) = m \o <<Mark>> \o Zeros(z) \o length
  BY <1>8 DEF Padded
<1>10. z \in Nat /\ Zeros(z) \in Seq(S) /\ Len(Zeros(z)) = z
  <2>1. z \in Nat
    BY <1>1, <1>7
  <2>. QED BY <2>1 DEF Zeros
<1>11. length \in Seq(S) /\ Len(length) = LenField
  BY <1>1, <1>4 DEF LenBytes
<1>12. <<Mark>> \in Seq(S) /\ Len(<<Mark>>) = 1
  OBVIOUS
<1>. HIDE DEF length
<1>. DEFINE mark == <<Mark>>
            zeros == Zeros(z)
<1>13. mark \in Seq(S) /\ Len(mark) = 1 /\ zeros \in Seq(S) /\ Len(zeros) = z
  BY <1>10, <1>12
<1>14. Padded(m) = m \o mark \o zeros \o length /\ pad = mark \o zeros \o length
  BY <1>9
<1>. HIDE DEF mark, zeros
<1>15. pad \in Seq(S) /\ Len(pad) = 1 + z + LenField
  <2>1. mark \o zeros \in Seq(S) /\ Len(mark \o zeros) = Len(mark) + Len(zeros)
    BY <1>13, ConcatProperties
  <2>. DEFINE b == mark \o zeros
  <2>. HIDE DEF b
  <2>2. b \in Seq(S) /\ Len(b) = 1 + z
    BY <1>10, <1>13, <2>1 DEF b
  <2>3. b \o length \in Seq(S) /\ Len(b \o length) = Len(b) + Len(length)
    BY <1>11, <2>2, ConcatProperties
  <2>. QED BY <1>11, <1>14, <2>2, <2>3 DEF b
<1>16. Padded(m) = m \o pad
  <2>1. m \in Seq(S) /\ mark \in Seq(S) /\ zeros \in Seq(S) /\ length \in Seq(S)
    BY <1>11, <1>13
  <2>2. mark \o zeros \in Seq(S)
    BY <2>1, ConcatProperties
  <2>3. (m \o mark) \o zeros = m \o (mark \o zeros)
    <3>1. m \in Seq(S) /\ mark \in Seq(S) /\ zeros \in Seq(S)
      BY <2>1
    <3>. QED BY ONLY <3>1, ConcatAssociative
  <2>. DEFINE b == mark \o zeros
  <2>. HIDE DEF b
  <2>4. b \in Seq(S)
    BY <2>2 DEF b
  <2>5. (m \o b) \o length = m \o (b \o length)
    <3>1. m \in Seq(S) /\ b \in Seq(S) /\ length \in Seq(S)
      BY <2>1, <2>4
    <3>. QED BY ONLY <3>1, ConcatAssociative
  <2>. QED BY <1>14, <2>3, <2>5 DEF b
<1>. HIDE DEF pad
<1>17. HasherOf(g, m \o pad, S)
  BY <1>15, UpdateAbsorbs
<1>. HIDE DEF g
<1>. DEFINE gs == g.state
            gb == g.buf
<1>18. gs \in Seq(S) /\ gb \in Seq(S) /\ gs \o gb = m \o pad /\ Len(gb) < Block
  BY <1>17 DEF HasherOf
<1>19. Len(gs) % Block = 0
  BY <1>17 DEF HasherOf
<1>. HIDE DEF gs, gb
<1>20. Len(gs) \in Nat /\ Len(gb) \in 0 .. Block - 1 /\ Len(gb) \in Nat
  BY <1>1, <1>18, LenProperties
<1>21. Len(gs) + Len(gb) = Len(m) + 1 + z + LenField
  <2>1. Len(gs \o gb) = Len(gs) + Len(gb)
    BY <1>18, ConcatProperties
  <2>2. Len(m \o pad) = Len(m) + Len(pad)
    BY <1>15, ConcatProperties
  <2>. QED BY <1>1, <1>4, <1>10, <1>15, <1>18, <2>1, <2>2
<1>22. Len(gb) = 0
  <2>. DEFINE x == Len(gb)
              y == Len(gs)
  <2>1. x \in 0 .. Block - 1 /\ x \in Nat /\ y \in Nat /\ y % Block = 0
    BY <1>19, <1>20
  <2>2. (x + y) % Block = 0
    <3>1. x + y = Len(m) + 1 + z + LenField
      BY <1>20, <1>21
    <3>. QED BY <1>7, <3>1
  <2>. HIDE DEF x, y
  <2>3. x % Block = 0 /\ x % Block = x
    BY <2>1, <2>2, Rests
  <2>. QED BY <2>3 DEF x
<1>23. gb = <<>>
  BY <1>18, <1>22, EmptySeq
<1>24. gs \o <<>> = gs
  BY <1>18, ConcatEmptySeq
<1>25. gs = Padded(m)
  BY <1>16, <1>18, <1>23, <1>24
<1>. QED BY <1>6, <1>25 DEF Hash, gs
-----------------------------------------------------------------------------
(* The bytes of a chunk.                                                   *)

\* The length of a chunk and of its part of the data.
LEMMA ChunkLengths ==
    ASSUME NEW k \in Chunk
    PROVE  /\ SourceOf(k) \in {1, 2, 3} /\ IndexIn(k) \in Nat
           /\ SourceLen[SourceOf(k)] \in Nat
           /\ IndexIn(k) * ChunkSize \in Nat /\ (IndexIn(k) + 1) * ChunkSize \in Nat
           /\ IndexIn(k) * ChunkSize < SourceLen[SourceOf(k)]
           /\ IndexIn(k) * ChunkSize < (IndexIn(k) + 1) * ChunkSize
           /\ ChunkLen(k) \in Nat /\ DataLen(k) \in 0 .. ChunkLen(k)
<1>. DEFINE s == SourceOf(k)
            i == IndexIn(k)
            L == SourceLen[s]
            n == ChunkCount(s)
<1>1. /\ ChunkSize \in Nat \ {0} /\ {EntriesLen, PadLen, CdLen, EocdLen} \subseteq Nat
  BY LengthsAssumption
<1>2. SourceLen[1] \in Nat /\ SourceLen[2] \in Nat /\ SourceLen[3] \in Nat
  BY <1>1 DEF SourceLen
<1>3. ASSUME NEW t \in {1, 2, 3}
      PROVE  /\ ChunkCount(t) \in Nat
             /\ \A j \in Nat : j < ChunkCount(t) => j * ChunkSize < SourceLen[t]
  <2>. DEFINE a == SourceLen[t] + ChunkSize - 1
              q == a \div ChunkSize
              r == a % ChunkSize
  <2>1. SourceLen[t] \in Nat /\ a \in Nat
    BY <1>1, <1>2
  <2>2. q \in Nat /\ r \in 0 .. ChunkSize - 1 /\ a = ChunkSize * q + r
    <3>. HIDE DEF a
    <3>. QED BY <1>1, <2>1
  <2>3. ChunkCount(t) = q
    BY DEF ChunkCount
  <2>. HIDE DEF q, r
  <2>4. ASSUME NEW j \in Nat, j < q PROVE j * ChunkSize < SourceLen[t]
    <3>. DEFINE e == q - 1 - j
    <3>1. e \in Nat /\ q = j + 1 + e
      BY <2>2, <2>4
    <3>. HIDE DEF e
    <3>2. ChunkSize * q = j * ChunkSize + ChunkSize + e * ChunkSize
      BY <1>1, <3>1
    <3>3. e * ChunkSize \in Nat /\ j * ChunkSize \in Nat
      BY <1>1, <3>1
    <3>. QED BY <1>1, <2>1, <2>2, <3>2, <3>3
  <2>. QED BY <2>2, <2>3, <2>4
<1>4. ChunkCount(1) \in Nat /\ ChunkCount(2) \in Nat /\ ChunkCount(3) \in Nat
  BY <1>3
<1>5. k \in Nat /\ k < ChunkCount(1) + ChunkCount(2) + ChunkCount(3)
  BY <1>4 DEF Chunk, Total
<1>6. s \in {1, 2, 3} /\ i \in Nat /\ i < n
  BY <1>4, <1>5 DEF SourceOf, IndexIn
<1>7. L \in Nat /\ i * ChunkSize < L
  BY <1>2, <1>3, <1>6
<1>. HIDE DEF s, i, L
<1>8. i * ChunkSize \in Nat /\ (i + 1) * ChunkSize \in Nat
      /\ (i + 1) * ChunkSize = i * ChunkSize + ChunkSize
  BY <1>1, <1>6
<1>. DEFINE c == i * ChunkSize
            e == (i + 1) * ChunkSize
<1>9. ChunkLen(k) = Least(e, L) - c
  BY DEF ChunkLen, s, i, L
<1>10. DataLen(k) = IF s = 1 THEN Least(ChunkLen(k), Larger(0, EntriesLen - c)) ELSE ChunkLen(k)
  BY DEF DataLen, s, i
<1>11. c \in Nat /\ e \in Nat /\ e = c + ChunkSize /\ c < L /\ c < e
  BY <1>1, <1>7, <1>8
<1>. HIDE DEF c, e
<1>12. ChunkLen(k) \in Nat
  BY <1>1, <1>7, <1>9, <1>11 DEF Least
<1>13. DataLen(k) \in 0 .. ChunkLen(k)
  BY <1>1, <1>10, <1>11, <1>12 DEF Least, Larger
<1>. QED BY <1>6, <1>7, <1>11, <1>12, <1>13 DEF s, i, L, c, e

\* The bytes of a chunk.
LEMMA ChunkBytes ==
    ASSUME NEW k \in Chunk
    PROVE  /\ Parts(k)[1] \in Seq(AnyByte) /\ Len(Parts(k)[1]) = DataLen(k)
           /\ Parts(k)[2] \in Seq(AnyByte) /\ Len(Parts(k)[2]) = ChunkLen(k) - DataLen(k)
           /\ Parts(k) = <<Parts(k)[1], Parts(k)[2]>>
           /\ Prefix("a5", ChunkLen(k)) \in Seq(AnyByte)
<1>1. /\ SourceOf(k) \in Nat /\ IndexIn(k) * ChunkSize \in Nat
      /\ ChunkLen(k) \in Nat /\ DataLen(k) \in Nat /\ DataLen(k) <= ChunkLen(k)
  BY ChunkLengths
<1>. DEFINE p == [j \in 1 .. DataLen(k) |-> <<"data", SourceOf(k), IndexIn(k) * ChunkSize + j>>]
            q == Zeros(ChunkLen(k) - DataLen(k))
<1>2. Parts(k)[1] = p /\ Parts(k)[2] = q /\ Parts(k) = <<p, q>>
  BY DEF Parts
<1>3. p \in Seq(AnyByte) /\ Len(p) = DataLen(k)
  <2>1. \A j \in 1 .. DataLen(k) : <<"data", SourceOf(k), IndexIn(k) * ChunkSize + j>> \in AnyByte
    <3>. SUFFICES ASSUME NEW j \in 1 .. DataLen(k)
                  PROVE  <<"data", SourceOf(k), IndexIn(k) * ChunkSize + j>> \in AnyByte
      OBVIOUS
    <3>1. IndexIn(k) * ChunkSize + j \in Nat
      BY <1>1
    <3>. QED BY <1>1, <3>1 DEF AnyByte
  <2>. QED BY <1>1, <2>1
<1>4. q \in Seq(AnyByte) /\ Len(q) = ChunkLen(k) - DataLen(k)
  <2>1. Zero \in AnyByte /\ ChunkLen(k) - DataLen(k) \in Nat
    BY <1>1 DEF AnyByte
  <2>. QED BY <2>1 DEF Zeros
<1>5. Prefix("a5", ChunkLen(k)) \in Seq(AnyByte)
  <2>1. Byte("a5", 0) \in AnyByte /\ Byte("u32", ChunkLen(k)) \in AnyByte
    BY <1>1 DEF AnyByte
  <2>. QED BY <2>1 DEF Prefix
<1>. HIDE DEF p, q
<1>. QED BY <1>2, <1>3, <1>4, <1>5

\* What is hashed for a chunk is the message of the scheme, whoever hashes it.
LEMMA ChunkMessage ==
    ASSUME NEW k \in Chunk
    PROVE  Message(k) \in Seq(AnyByte) /\ HashChunk(Parts(k)) = Hash(Message(k))
<1>. DEFINE p == Parts(k)[1]
            q == Parts(k)[2]
            a == Prefix("a5", ChunkLen(k))
<1>1. /\ p \in Seq(AnyByte) /\ Len(p) = DataLen(k)
      /\ q \in Seq(AnyByte) /\ Len(q) = ChunkLen(k) - DataLen(k) /\ a \in Seq(AnyByte)
  BY ChunkBytes
<1>2. ChunkLen(k) \in Nat /\ DataLen(k) \in Nat
  BY ChunkLengths
<1>3. Len(p) + Len(q) = ChunkLen(k)
  BY <1>1, <1>2
<1>4. HashChunk(Parts(k)) = Hash(a \o p \o q)
  BY <1>3 DEF HashChunk
<1>5. Message(k) = a \o (p \o q)
  BY DEF Message
<1>. HIDE DEF a, p, q
<1>6. p \in Seq(AnyByte) /\ q \in Seq(AnyByte) /\ a \in Seq(AnyByte)
  BY <1>1
<1>7. (a \o p) \o q = a \o (p \o q)
  BY ONLY <1>6, ConcatAssociative
<1>8. p \o q \in Seq(AnyByte)
  BY <1>6, ConcatProperties
<1>9. a \o (p \o q) \in Seq(AnyByte)
  <2>. DEFINE b == p \o q
  <2>1. b \in Seq(AnyByte)
    BY <1>8
  <2>. HIDE DEF b
  <2>2. a \o b \in Seq(AnyByte)
    BY <1>6, <2>1, ConcatProperties
  <2>. QED BY <2>2 DEF b
<1>. QED BY <1>4, <1>5, <1>7, <1>9

\* The two parts of a chunk are the piece of its section.
LEMMA PieceOfSection ==
    ASSUME NEW k \in Chunk
    PROVE  SchemeDigest(Piece(SourceOf(k), IndexIn(k))) = HashChunk(Parts(k))
<1>. DEFINE s == SourceOf(k)
            i == IndexIn(k)
            L == SourceLen[s]
            c == i * ChunkSize
            e == (i + 1) * ChunkSize
            p == Parts(k)[1]
            q == Parts(k)[2]
            piece == Piece(s, i)
<1>1. /\ s \in {1, 2, 3} /\ s \in Nat /\ L \in Nat /\ c \in Nat /\ e \in Nat /\ c < L /\ c < e
      /\ ChunkLen(k) \in Nat /\ DataLen(k) \in 0 .. ChunkLen(k)
  BY ChunkLengths
<1>2. EntriesLen \in Nat
  BY LengthsAssumption
<1>3. ChunkLen(k) = Least(e, L) - c
  BY DEF ChunkLen
<1>4. DataLen(k) = IF s = 1 THEN Least(ChunkLen(k), Larger(0, EntriesLen - c)) ELSE ChunkLen(k)
  BY DEF DataLen
<1>5. /\ p = [j \in 1 .. DataLen(k) |-> <<"data", s, c + j>>]
      /\ q = Zeros(ChunkLen(k) - DataLen(k))
  BY DEF Parts
<1>6. piece = SubSeq(Section(s), c + 1, Least(e, L))
  BY DEF Piece
<1>7. /\ p \in Seq(AnyByte) /\ Len(p) = DataLen(k)
      /\ q \in Seq(AnyByte) /\ Len(q) = ChunkLen(k) - DataLen(k)
  BY ChunkBytes
<1>8. Section(s) = [j \in 1 .. L |-> IF s = 1 /\ j > EntriesLen THEN Zero ELSE <<"data", s, j>>]
  BY DEF Section
<1>. HIDE DEF s, L, c, e, p, q, piece
<1>9. Least(e, L) \in c + 1 .. L /\ Least(e, L) \in Nat
  BY <1>1 DEF Least
<1>10. \A j \in c + 1 .. Least(e, L) : Section(s)[j] \in AnyByte
  <2>. SUFFICES ASSUME NEW j \in c + 1 .. Least(e, L) PROVE Section(s)[j] \in AnyByte
    OBVIOUS
  <2>1. j \in 1 .. L /\ j \in Nat
    BY <1>1, <1>9
  <2>2. Section(s)[j] = IF s = 1 /\ j > EntriesLen THEN Zero ELSE <<"data", s, j>>
    BY <1>8, <2>1
  <2>3. Zero \in AnyByte /\ <<"data", s, j>> \in AnyByte
    BY <1>1, <2>1 DEF AnyByte
  <2>. QED BY <2>2, <2>3
<1>11. /\ piece \in Seq(AnyByte) /\ Len(piece) = ChunkLen(k)
       /\ \A j \in 1 .. ChunkLen(k) : piece[j] = Section(s)[c + j]
  <2>. DEFINE lo == c + 1
              hi == Least(e, L)
              sec == Section(s)
  <2>1. lo \in Int /\ hi \in Int /\ lo <= hi
    BY <1>1, <1>9
  <2>2. \A j \in lo .. hi : sec[j] \in AnyByte
    BY <1>10
  <2>3. piece = SubSeq(sec, lo, hi)
    BY <1>6
  <2>. HIDE DEF lo, hi, sec
  <2>4. /\ SubSeq(sec, lo, hi) \in Seq(AnyByte) /\ Len(SubSeq(sec, lo, hi)) = hi - lo + 1
        /\ \A j \in 1 .. hi - lo + 1 : SubSeq(sec, lo, hi)[j] = sec[lo + j - 1]
    BY <2>1, <2>2, SubSeqProperties
  <2>5. hi - lo + 1 = ChunkLen(k)
    BY <1>1, <1>3, <1>9 DEF hi, lo
  <2>6. \A j \in 1 .. ChunkLen(k) : lo + j - 1 = c + j
    BY <1>1 DEF lo
  <2>. QED BY <2>3, <2>4, <2>5, <2>6 DEF sec
<1>12. /\ p \o q \in Seq(AnyByte) /\ Len(p \o q) = ChunkLen(k)
       /\ \A j \in 1 .. ChunkLen(k) : (p \o q)[j] = IF j <= DataLen(k) THEN p[j] ELSE q[j - DataLen(k)]
  <2>1. /\ p \o q \in Seq(AnyByte) /\ Len(p \o q) = Len(p) + Len(q)
        /\ \A j \in 1 .. Len(p) + Len(q) : (p \o q)[j] = IF j <= Len(p) THEN p[j] ELSE q[j - Len(p)]
    BY <1>7, ConcatProperties
  <2>2. Len(p) + Len(q) = ChunkLen(k) /\ Len(p) = DataLen(k)
    BY <1>1, <1>7
  <2>. QED BY <2>1, <2>2
<1>13. ASSUME NEW j \in 1 .. ChunkLen(k) PROVE piece[j] = (p \o q)[j]
  <2>1. c + j \in 1 .. L
    BY <1>1, <1>3 DEF Least
  <2>2. piece[j] = IF s = 1 /\ c + j > EntriesLen THEN Zero ELSE <<"data", s, c + j>>
    BY <1>8, <1>11, <2>1
  <2>3. CASE j <= DataLen(k)
    <3>1. ~(s = 1 /\ c + j > EntriesLen)
      BY <1>1, <1>2, <1>4, <2>3 DEF Least, Larger
    <3>2. p[j] = <<"data", s, c + j>>
      <4>1. j \in 1 .. DataLen(k)
        BY <1>1, <2>3
      <4>. QED BY <1>5, <4>1
    <3>. QED BY <1>12, <2>2, <2>3, <3>1, <3>2
  <2>4. CASE ~(j <= DataLen(k))
    <3>1. s = 1 /\ c + j > EntriesLen
      BY <1>1, <1>2, <1>4, <2>4 DEF Least, Larger
    <3>2. q[j - DataLen(k)] = Zero
      <4>1. j - DataLen(k) \in 1 .. ChunkLen(k) - DataLen(k)
        BY <1>1, <2>4
      <4>. QED BY <1>5, <4>1 DEF Zeros
    <3>. QED BY <1>12, <2>2, <2>4, <3>1, <3>2
  <2>. QED BY <2>3, <2>4
<1>14. piece = p \o q
  <2>. DEFINE b == p \o q
  <2>1. b \in Seq(AnyByte) /\ Len(b) = ChunkLen(k) /\ \A j \in 1 .. ChunkLen(k) : piece[j] = b[j]
    BY <1>12, <1>13
  <2>. HIDE DEF b
  <2>2. piece = b
    BY <1>11, <2>1, SeqEqual
  <2>. QED BY <2>2 DEF b
<1>15. SchemeDigest(piece) = Hash(Prefix("a5", ChunkLen(k)) \o (p \o q))
  BY <1>11, <1>14 DEF SchemeDigest
<1>16. Hash(Message(k)) = Hash(Prefix("a5", ChunkLen(k)) \o (p \o q))
  BY DEF Message, p, q
<1>. QED BY <1>15, <1>16, ChunkMessage DEF piece, s

\* A hasher that takes the first n bytes that are left.
LEMMA LeftAfter ==
    ASSUME NEW k, NEW h, NEW p, NEW q, Left(k, h, p, q), NEW n \in 0 .. Len(p), NEW g,
           \/ g = Update(h, Upto(p, n))
           \/ /\ g = [state |-> h.state \o Upto(p, n), buf |-> h.buf, len |-> h.len + Len(Upto(p, n))]
              /\ n = 0 \/ (Gap(h) = 0 /\ n % Block = 0)
    PROVE  Left(k, g, From(p, n + 1), q)
<1>1. p \in Seq(AnyByte) /\ q \in Seq(AnyByte)
  BY DEF Left
<1>2. PICK m \in Seq(AnyByte) : HasherOf(h, m, AnyByte) /\ m \o (p \o q) = Message(k)
  BY DEF Left
<1>. DEFINE front == Upto(p, n)
            rest == From(p, n + 1)
<1>3. front \in Seq(AnyByte) /\ Len(front) = n /\ rest \in Seq(AnyByte) /\ front \o rest = p
  BY <1>1, Split
<1>4. \/ g = Update(h, front)
      \/ /\ g = [state |-> h.state \o front, buf |-> h.buf, len |-> h.len + Len(front)]
         /\ n = 0 \/ (Gap(h) = 0 /\ n % Block = 0)
  OBVIOUS
<1>. HIDE DEF front, rest
<1>5. HasherOf(g, m \o front, AnyByte) /\ m \o front \in Seq(AnyByte)
  <2>1. CASE g = Update(h, front)
    BY <1>2, <1>3, <2>1, UpdateAbsorbs
  <2>2. CASE /\ g = [state |-> h.state \o front, buf |-> h.buf, len |-> h.len + Len(front)]
             /\ n = 0 \/ (Gap(h) = 0 /\ n % Block = 0)
    <3>1. front = <<>> \/ (Gap(h) = 0 /\ Len(front) % Block = 0)
      BY <1>3, <2>2, EmptySeq
    <3>. QED BY <1>2, <1>3, <2>2, <3>1, BlocksAbsorbed
  <2>. QED BY <1>4, <2>1, <2>2
<1>6. (m \o front) \o (rest \o q) = m \o ((front \o rest) \o q)
  <2>1. m \in Seq(AnyByte) /\ front \in Seq(AnyByte) /\ rest \in Seq(AnyByte) /\ q \in Seq(AnyByte)
    BY <1>1, <1>3
  <2>3. (front \o rest) \o q = front \o (rest \o q)
    <3>. DEFINE B == AnyByte
    <3>. HIDE DEF B
    <3>1. front \in Seq(B) /\ rest \in Seq(B) /\ q \in Seq(B)
      BY <2>1 DEF B
    <3>. QED BY ONLY <3>1, ConcatAssociative
  <2>. DEFINE x == rest \o q
  <2>2. x \in Seq(AnyByte)
    BY <2>1, ConcatProperties
  <2>. HIDE DEF x
  <2>4. (m \o front) \o x = m \o (front \o x)
    <3>1. m \in Seq(AnyByte) /\ front \in Seq(AnyByte) /\ x \in Seq(AnyByte)
      BY <2>1, <2>2
    <3>. QED BY ONLY <3>1, ConcatAssociative
  <2>. QED BY <2>3, <2>4 DEF x
<1>. DEFINE mu == m \o front
<1>7. mu \in Seq(AnyByte) /\ HasherOf(g, mu, AnyByte)
  BY <1>5
<1>8. mu \o (rest \o q) = Message(k)
  BY <1>2, <1>3, <1>6
<1>. HIDE DEF mu
<1>9. Left(k, g, rest, q)
  BY <1>1, <1>3, <1>7, <1>8 DEF Left
<1>. QED BY <1>9 DEF rest

\* A new lane has everything left but the prefix.
LEMMA NewGoing ==
    ASSUME NEW k \in Chunk
    PROVE  Going(NewLane(k))
<1>. DEFINE a == Prefix("a5", ChunkLen(k))
            p == Parts(k)[1]
            q == Parts(k)[2]
            h == Update(New, a)
<1>1. /\ p \in Seq(AnyByte) /\ q \in Seq(AnyByte) /\ a \in Seq(AnyByte)
      /\ Parts(k) = <<p, q>>
  BY ChunkBytes
<1>2. NewLane(k) = [k |-> k, h |-> h, parts |-> <<p, q>>] /\ NewLane(k).k = k
  BY <1>1 DEF NewLane
<1>3. Message(k) = a \o (p \o q)
  BY DEF Message
<1>. HIDE DEF a, p, q
<1>4. HasherOf(New, <<>>, AnyByte)
  <2>. DEFINE e == <<>>
  <2>1. e \in Seq(AnyByte) /\ Len(e) = 0 /\ e \o e = e
    OBVIOUS
  <2>2. 0 % Block = 0 /\ 0 < Block
    BY Rests
  <2>3. New = [state |-> e, buf |-> e, len |-> 0]
    BY DEF New, H0
  <2>. HIDE DEF e
  <2>4. New \in [state : Seq(AnyByte), buf : Seq(AnyByte), len : Nat]
    BY <2>1, <2>3
  <2>5. HasherOf(New, e, AnyByte)
    BY <2>1, <2>2, <2>3, <2>4 DEF HasherOf
  <2>. QED BY <2>5 DEF e
<1>5. HasherOf(h, <<>> \o a, AnyByte)
  BY <1>1, <1>4, UpdateAbsorbs
<1>6. <<>> \o a = a
  BY <1>1, ConcatEmptySeq
<1>7. Left(k, h, p, q)
  BY <1>1, <1>3, <1>5, <1>6 DEF Left
<1>. HIDE DEF h
<1>. QED BY <1>2, <1>7, Zenon DEF Going

\* All of the chunk is absorbed: the digest is the one of the scheme.
LEMMA FinishGoing ==
    ASSUME NEW lane, Going(lane), Absorbed(lane)
    PROVE  lane.k \in Chunk /\ Finish(lane.h) = HashChunk(Parts(lane.k))
<1>1. PICK h, p, q : /\ lane = [k |-> lane.k, h |-> h, parts |-> <<p, q>>]
                     /\ lane.k \in Chunk /\ Left(lane.k, h, p, q)
  BY DEF Going
<1>. DEFINE k == lane.k
<1>2. lane.h = h /\ lane.parts = <<p, q>>
  BY <1>1
<1>3. p = <<>> /\ q = <<>>
  BY <1>2 DEF Absorbed
<1>4. PICK m \in Seq(AnyByte) : HasherOf(h, m, AnyByte) /\ m \o (p \o q) = Message(k)
  BY <1>1 DEF Left
<1>. HIDE DEF k
<1>5. <<>> \o <<>> = <<>> /\ m \o <<>> = m
  BY EmptySeq, ConcatEmptySeq
<1>6. m = Message(k)
  BY <1>3, <1>4, <1>5
<1>7. Mark \in AnyByte /\ Zero \in AnyByte
  BY DEF AnyByte
<1>8. \A n \in Nat, i \in 1 .. LenField : <<"len", n, i>> \in AnyByte
  BY Rests DEF AnyByte
<1>9. Finish(h) = Hash(m)
  BY <1>4, <1>7, <1>8, FinishIsHash
<1>10. k \in Chunk
  BY <1>1 DEF k
<1>. QED BY <1>2, <1>6, <1>9, <1>10, ChunkMessage DEF k

\* One turn of settle leaves the rest of the chunk.
LEMMA TurnGoing ==
    ASSUME NEW lane, Going(lane)
    PROVE  Going(Turn(lane))
<1>1. PICK h, p, q : /\ lane = [k |-> lane.k, h |-> h, parts |-> <<p, q>>]
                     /\ lane.k \in Chunk /\ Left(lane.k, h, p, q)
  BY DEF Going
<1>. DEFINE k == lane.k
            take == IF Gap(h) = 0 THEN Len(p) ELSE Least(Gap(h), Len(p))
            g == Update(h, Upto(p, take))
            r == From(p, take + 1)
<1>2. lane.h = h /\ lane.parts = <<p, q>> /\ lane = [k |-> k, h |-> h, parts |-> <<p, q>>]
  BY <1>1
<1>3. p \in Seq(AnyByte) /\ q \in Seq(AnyByte) /\ Left(k, h, p, q) /\ k \in Chunk
  BY <1>1 DEF Left
<1>. HIDE DEF k
<1>4. CASE p = <<>>
  <2>1. Turn(lane) = [k |-> k, h |-> h, parts |-> <<q, <<>>>>]
    BY <1>2, <1>4 DEF Turn
  <2>2. <<>> \o q = q /\ q \o <<>> = q /\ <<>> \in Seq(AnyByte)
    BY <1>3, ConcatEmptySeq, EmptySeq
  <2>3. Left(k, h, q, <<>>)
    BY <1>3, <1>4, <2>2 DEF Left
  <2>4. Turn(lane).k = k
    BY <2>1
  <2>. QED BY <1>3, <2>1, <2>3, <2>4, Zenon DEF Going
<1>5. CASE p # <<>>
  <2>1. take \in 0 .. Len(p)
    <3>1. Len(p) \in Nat
      BY <1>3, LenProperties
    <3>2. Gap(h) \in Nat
      <4>1. h.buf \in Seq(AnyByte) /\ Len(h.buf) < Block
        BY <1>3 DEF Left, HasherOf
      <4>. DEFINE b == Len(h.buf)
      <4>2. b \in Nat /\ b < Block /\ Block \in Nat \ {0}
        BY <4>1, LenProperties, Rests
      <4>. HIDE DEF b
      <4>3. Block - b \in Nat
        BY <4>2
      <4>4. (Block - b) % Block \in 0 .. Block - 1
        BY <4>3, Rests
      <4>5. (Block - b) % Block \in Nat
        BY <4>2, <4>4
      <4>. QED BY <4>5 DEF Gap, b
    <3>. DEFINE gap == Gap(h)
    <3>. HIDE DEF gap
    <3>3. gap \in Nat /\ take = IF gap = 0 THEN Len(p) ELSE Least(gap, Len(p))
      BY <3>2 DEF gap
    <3>. HIDE DEF take
    <3>. QED BY <3>1, <3>3 DEF Least
  <2>2. Turn(lane) = [k |-> k, h |-> g, parts |-> <<r, q>>]
    BY <1>2, <1>5 DEF Turn, Advance
  <2>3. Left(k, g, r, q)
    <3>. HIDE DEF take
    <3>. QED BY <1>3, <2>1, LeftAfter
  <2>. HIDE DEF g, r
  <2>4. Turn(lane).k = k
    BY <2>2
  <2>. QED BY <1>3, <2>2, <2>3, <2>4, Zenon DEF Going
<1>. QED BY <1>4, <1>5

\* A lane gives whole blocks to the kernel, as many as it has at most.
LEMMA BlocksGoing ==
    ASSUME NEW lane, Going(lane), NEW n \in Nat, n <= Ready(lane), NEW g,
           \/ g = Update(lane.h, Taken(lane, n))
           \/ g = [state |-> lane.h.state \o Taken(lane, n), buf |-> lane.h.buf,
                   len |-> lane.h.len + Len(Taken(lane, n))]
    PROVE  Going(Advance(lane, g, Kept(lane, n)))
<1>1. PICK h, p, q : /\ lane = [k |-> lane.k, h |-> h, parts |-> <<p, q>>]
                     /\ lane.k \in Chunk /\ Left(lane.k, h, p, q)
  BY DEF Going
<1>. DEFINE k == lane.k
            t == n * Block
            r == From(p, t + 1)
<1>2. lane.h = h /\ lane.parts = <<p, q>> /\ lane = [k |-> k, h |-> h, parts |-> <<p, q>>]
  BY <1>1
<1>3. p \in Seq(AnyByte) /\ Left(k, h, p, q) /\ k \in Chunk
  BY <1>1 DEF Left
<1>4. Taken(lane, n) = Upto(p, t) /\ Kept(lane, n) = r
  BY <1>2 DEF Taken, Kept
<1>5. Len(p) \in Nat /\ Block \in Nat \ {0}
  BY <1>3, LenProperties, Rests
<1>6. n = 0 \/ (Gap(h) = 0 /\ n <= Len(p) \div Block)
  <2>1. n <= IF Gap(h) = 0 THEN Len(p) \div Block ELSE 0
    BY <1>2 DEF Ready
  <2>2. CASE Gap(h) = 0
    BY <2>1, <2>2
  <2>3. CASE Gap(h) # 0
    BY <2>1, <2>3
  <2>. QED BY <2>2, <2>3
<1>7. t \in 0 .. Len(p) /\ (n = 0 => t = 0)
  <2>. DEFINE d == Len(p) \div Block
              e == Len(p) % Block
              l == Len(p)
  <2>1. d \in Nat /\ e \in 0 .. Block - 1 /\ l = Block * d + e
    BY <1>5
  <2>2. n <= d
    BY <1>6, <2>1
  <2>3. l \in Nat
    BY <1>5
  <2>. HIDE DEF d, e, l
  <2>. DEFINE f == d - n
  <2>4. f \in Nat /\ d = n + f
    BY <2>1, <2>2
  <2>. HIDE DEF f
  <2>5. Block * d = n * Block + Block * f /\ Block * f \in Nat /\ n * Block \in Nat
    BY <1>5, <2>4
  <2>6. t \in 0 .. l
    BY <1>5, <2>1, <2>3, <2>5
  <2>7. n = 0 => t = 0
    BY <1>5
  <2>. QED BY <2>6, <2>7 DEF l
<1>8. t % Block = 0
  <2>1. t = Block * n + 0 /\ 0 \in 0 .. Block - 1
    BY <1>5
  <2>2. (Block * n + 0) % Block = 0
    BY <1>5, <2>1, Division
  <2>. QED BY <2>1, <2>2
<1>. HIDE DEF t, k
<1>9. Left(k, g, r, q)
  BY <1>2, <1>3, <1>4, <1>6, <1>7, <1>8, LeftAfter
<1>. DEFINE new == Advance(lane, g, Kept(lane, n))
<1>10. new = [k |-> k, h |-> g, parts |-> <<r, q>>]
  <2>. HIDE DEF r
  <2>. QED BY <1>2, <1>4 DEF Advance
<1>. HIDE DEF new, r
<1>11. new.k = k
  BY <1>10
<1>12. Going(new)
  BY <1>3, <1>9, <1>10, <1>11, Zenon DEF Going
<1>. QED BY <1>12 DEF new

\* What a step leaves as it was stays right.
LEMMA HashedLanes ==
    ASSUME TypeInv, Hashed, NEW w \in Worker, NEW i \in Lane, NEW lane, OneLane(w, i, lane),
           lane # NoChunk => Going(lane)
    PROVE  \A v \in Worker, j \in Lane : Full(v, j)' => Going(lanes'[v][j])
<1>. SUFFICES ASSUME NEW v \in Worker, NEW j \in Lane, lanes'[v][j] # NoChunk
              PROVE  Going(lanes'[v][j])
  BY DEF Full
<1>1. CASE v = w /\ j = i
  BY <1>1 DEF OneLane
<1>2. CASE v # w \/ j # i
  BY <1>2 DEF OneLane, Hashed, Full
<1>. QED BY <1>1, <1>2

\* A step of a worker keeps the lanes and the digests right.
LEMMA WorkerHashed ==
    ASSUME TypeInv, Shared, Drained, Hashed, NEW w \in Worker, WorkerStep(w)
    PROVE  Hashed'
<1>. DEFINE LanesRight == \A v \in Worker, j \in Lane : Full(v, j) => Going(lanes[v][j])
            DigestsRight == \A k \in Chunk : recorded[k] # <<>> => recorded[k] = <<HashChunk(Parts(k))>>
<1>1. at[w] \in Lane /\ next \in Nat /\ DOMAIN recorded = Chunk
  BY DEF TypeInv
<1>2. LanesRight /\ DigestsRight
  BY DEF Hashed
<1>3. ~joined /\ joined' = joined
  <2>1. pc[w] # "done"
    BY DEF WorkerStep, Settle, KeepLane, FinishLane, Look, ClaimLane, HashBoth, HashOne,
       Return, HashWhole
  <2>2. UNCHANGED joined
    BY DEF WorkerStep, Settle, KeepLane, FinishLane, Look, ClaimLane, HashBoth, HashOne,
       Return, HashWhole, caller
  <2>. QED BY <2>1, <2>2 DEF Drained
<1>4. ASSUME LanesRight', DigestsRight' PROVE Hashed'
  BY <1>3, <1>4 DEF Hashed
<1>5. ASSUME lanes' = lanes PROVE LanesRight'
  BY <1>2, <1>5 DEF Full
<1>6. ASSUME recorded' = recorded PROVE DigestsRight'
  BY <1>2, <1>6
<1>7. ASSUME NEW i \in Lane, NEW lane, OneLane(w, i, lane), lane # NoChunk => Going(lane)
      PROVE  LanesRight'
  BY <1>7, HashedLanes
<1>8. ASSUME NEW k \in Chunk, recorded[k] = <<>>,
             recorded' = [recorded EXCEPT ![k] = Append(@, HashChunk(Parts(k)))]
      PROVE  DigestsRight'
  <2>. DEFINE d == HashChunk(Parts(k))
  <2>. HIDE DEF d
  <2>1. recorded'[k] = <<d>> /\ \A j \in Chunk : j # k => recorded'[j] = recorded[j]
    BY <1>1, <1>8, FirstDigest DEF d
  <2>. QED BY <1>2, <2>1 DEF d
<1>. HIDE DEF LanesRight, DigestsRight
<1>9. CASE Settle(w)
  <2>. DEFINE i == at[w]
              lane == lanes[w][i]
  <2>1. Full(w, i) /\ recorded' = recorded /\ lanes' = [lanes EXCEPT ![w][i] = Turn(lane)]
    BY <1>9 DEF Settle
  <2>2. Going(lane)
    BY <1>1, <1>2, <2>1 DEF LanesRight
  <2>3. OneLane(w, i, Turn(lane)) /\ Going(Turn(lane))
    BY <1>1, <2>1, <2>2, LaneUpdate, TurnGoing
  <2>. QED BY <1>1, <1>4, <1>6, <1>7, <2>1, <2>3
<1>10. CASE KeepLane(w) \/ Look(w) \/ Return(w)
  BY <1>4, <1>5, <1>6, <1>10 DEF KeepLane, Look, Return
<1>11. CASE FinishLane(w)
  <2>. DEFINE i == at[w]
              lane == lanes[w][i]
  <2>1. /\ Full(w, i) /\ Absorbed(lane) /\ lanes' = [lanes EXCEPT ![w][i] = NoChunk]
        /\ recorded' = [recorded EXCEPT ![lane.k] = Append(@, Finish(lane.h))]
    BY <1>11 DEF FinishLane
  <2>2. Going(lane)
    BY <1>1, <1>2, <2>1 DEF LanesRight
  <2>3. lane.k \in Chunk /\ Finish(lane.h) = HashChunk(Parts(lane.k))
    BY <2>1, <2>2, FinishGoing
  <2>4. recorded[lane.k] = <<>>
    BY <1>1, <2>1, HeldChunk
  <2>5. DigestsRight'
    BY <1>8, <2>1, <2>3, <2>4
  <2>6. OneLane(w, i, NoChunk)
    BY <1>1, <2>1, LaneUpdate
  <2>. QED BY <1>1, <1>4, <1>7, <2>5, <2>6
<1>12. CASE ClaimLane(w)
  <2>1. recorded' = recorded
    BY <1>12 DEF ClaimLane
  <2>2. CASE next < Total
    <3>1. lanes' = [lanes EXCEPT ![w][at[w]] = NewLane(next)]
      BY <1>12, <2>2 DEF ClaimLane
    <3>2. OneLane(w, at[w], NewLane(next)) /\ Going(NewLane(next))
      BY <1>1, <2>2, <3>1, LaneUpdate, NewGoing, Counts
    <3>. QED BY <1>1, <1>4, <1>6, <1>7, <2>1, <3>2
  <2>3. CASE ~(next < Total)
    BY <1>4, <1>5, <1>6, <1>12, <2>1, <2>3 DEF ClaimLane
  <2>. QED BY <2>2, <2>3
<1>13. CASE HashBoth(w)
  <2>. DEFINE a == lanes[w][0]
              b == lanes[w][1]
              n == Least(Ready(a), Ready(b))
              h == Update2(a.h, b.h, Taken(a, n), Taken(b, n))
  <2>1. /\ Full(w, 0) /\ Full(w, 1) /\ recorded' = recorded
        /\ lanes' = [lanes EXCEPT ![w] = TakeBoth(w, n)]
    BY <1>13 DEF HashBoth
  <2>2. Going(a) /\ Going(b)
    BY <1>2, <2>1 DEF LanesRight, Lane
  <2>3. ASSUME NEW lane, Going(lane) PROVE Ready(lane) \in Nat
    <3>1. PICK hh, p, q : lane = [k |-> lane.k, h |-> hh, parts |-> <<p, q>>] /\ Left(lane.k, hh, p, q)
      BY <2>3 DEF Going
    <3>2. lane.parts[1] = p
      BY <3>1
    <3>3. Len(p) \in Nat /\ Block \in Nat \ {0}
      BY <3>1, LenProperties, Rests DEF Left
    <3>4. Len(p) \div Block \in Nat
      BY <3>3
    <3>. QED BY <3>2, <3>4 DEF Ready
  <2>4. n \in Nat /\ n <= Ready(a) /\ n <= Ready(b)
    BY <2>2, <2>3 DEF Least
  <2>5. TakeBoth(w, n) = [i \in Lane |-> Advance(lanes[w][i], h[i + 1], Kept(lanes[w][i], n))]
    BY DEF TakeBoth
  <2>. HIDE DEF n
  <2>6. /\ h[1] = [state |-> a.h.state \o Taken(a, n), buf |-> a.h.buf,
                   len |-> a.h.len + Len(Taken(a, n))]
        /\ h[2] = [state |-> b.h.state \o Taken(b, n), buf |-> b.h.buf,
                   len |-> b.h.len + Len(Taken(b, n))]
    BY DEF Update2, Compress
  <2>7. Going(Advance(a, h[1], Kept(a, n))) /\ Going(Advance(b, h[2], Kept(b, n)))
    <3>. HIDE DEF a, b, h
    <3>. QED BY <2>2, <2>4, <2>6, BlocksGoing
  <2>8. /\ lanes'[w][0] = Advance(a, h[1], Kept(a, n))
        /\ lanes'[w][1] = Advance(b, h[2], Kept(b, n))
        /\ \A v \in Worker : v # w => lanes'[v] = lanes[v]
    <3>. HIDE DEF h
    <3>. QED BY <2>1, <2>5 DEF TypeInv, Lane
  <2>. HIDE DEF a, b, h
  <2>9. LanesRight'
    <3>. SUFFICES ASSUME NEW v \in Worker, NEW j \in Lane, lanes'[v][j] # NoChunk
                  PROVE  Going(lanes'[v][j])
      BY DEF LanesRight, Full
    <3>1. CASE v = w
      BY <2>7, <2>8, <3>1 DEF Lane
    <3>2. CASE v # w
      BY <1>2, <2>8, <3>2 DEF LanesRight, Full
    <3>. QED BY <3>1, <3>2
  <2>. QED BY <1>4, <1>6, <2>1, <2>9
<1>14. CASE HashOne(w)
  <2>1. PICK i \in Lane :
           /\ Full(w, i)
           /\ lanes' = [lanes EXCEPT ![w][i] =
                          Advance(lanes[w][i],
                                  Update(lanes[w][i].h, Taken(lanes[w][i], Ready(lanes[w][i]))),
                                  Kept(lanes[w][i], Ready(lanes[w][i])))]
    BY <1>14 DEF HashOne
  <2>2. recorded' = recorded
    BY <1>14 DEF HashOne
  <2>. DEFINE lane == lanes[w][i]
              n == Ready(lane)
              g == Update(lane.h, Taken(lane, n))
              new == Advance(lane, g, Kept(lane, n))
  <2>3. Going(lane)
    BY <1>2, <2>1 DEF LanesRight
  <2>4. n \in Nat /\ n <= Ready(lane)
    <3>1. PICK hh, p, q : lane = [k |-> lane.k, h |-> hh, parts |-> <<p, q>>] /\ Left(lane.k, hh, p, q)
      BY <2>3 DEF Going
    <3>2. lane.parts[1] = p
      BY <3>1
    <3>3. Len(p) \in Nat /\ Block \in Nat \ {0}
      BY <3>1, LenProperties, Rests DEF Left
    <3>4. Len(p) \div Block \in Nat
      BY <3>3
    <3>. QED BY <3>2, <3>4 DEF Ready
  <2>5. lanes' = [lanes EXCEPT ![w][i] = new]
    BY <2>1
  <2>6. Going(new)
    <3>. HIDE DEF lane
    <3>1. g = Update(lane.h, Taken(lane, n))
      OBVIOUS
    <3>. HIDE DEF g, n
    <3>. QED BY <2>3, <2>4, <3>1, BlocksGoing
  <2>. HIDE DEF new
  <2>7. OneLane(w, i, new)
    BY <2>5, LaneUpdate
  <2>. QED BY <1>4, <1>6, <1>7, <2>2, <2>6, <2>7
<1>15. CASE HashWhole(w)
  <2>1. lanes' = lanes
    BY <1>15 DEF HashWhole
  <2>2. CASE next < Total
    <3>1. next \in Chunk /\ recorded[next] = <<>>
      BY <1>1, <2>2, Counts DEF Shared
    <3>2. recorded' = [recorded EXCEPT ![next] = Append(@, HashChunk(Parts(next)))]
      BY <1>15, <2>2 DEF HashWhole
    <3>. QED BY <1>4, <1>5, <1>8, <2>1, <3>1, <3>2
  <2>3. CASE ~(next < Total)
    BY <1>4, <1>5, <1>6, <1>15, <2>1, <2>3 DEF HashWhole
  <2>. QED BY <2>2, <2>3
<1>. QED BY <1>9, <1>10, <1>11, <1>12, <1>13, <1>14, <1>15 DEF WorkerStep
-----------------------------------------------------------------------------
(* The theorems.                                                           *)

\* Initially nothing is claimed.
LEMMA InitInv == Init => IInv
<1>. SUFFICES ASSUME Init PROVE IInv
  OBVIOUS
<1>1. DOMAIN NoChunk = {"k", "h", "parts"} /\ NoChunk.k = -1
  BY DEF NoChunk
<1>2. \A k \in Chunk : k \in Nat /\ k # -1
  BY Counts
<1>3. \A w \in Worker, i \in Lane : lanes[w][i] = NoChunk
  BY DEF Init
<1>4. TypeInv
  BY <1>1, <1>3 DEF Init, TypeInv, Lane
<1>5. Shared
  BY <1>1, <1>2, <1>3 DEF Init, Shared, Holds
<1>6. Drained
  BY <1>3 DEF Init, Drained, Full, Lane
<1>7. Headers
  <2>1. bad \subseteq lfh
    BY DEF Init
  <2>2. \A k \in Chunk : ~(k < next)
    BY <1>2 DEF Init
  <2>. QED BY <2>1, <2>2 DEF Init, Headers, Inspected
<1>8. Hashed
  BY <1>3 DEF Init, Hashed, Full
<1>. QED BY <1>4, <1>5, <1>6, <1>7, <1>8 DEF IInv

\* Every step keeps the invariant.
LEMMA NextInv == IInv /\ [Next]_vars => IInv'
<1>. SUFFICES ASSUME IInv, [Next]_vars PROVE IInv'
  OBVIOUS
<1>. USE DEF IInv
<1>1. ASSUME NEW w \in Worker, WorkerStep(w) PROVE IInv'
  BY <1>1, WorkerType, WorkerShared, WorkerDrained, WorkerHeaders, WorkerHashed
<1>2. ASSUME UNCHANGED <<input, next, pc, at, lanes, recorded, inspector>>
      PROVE  TypeInv /\ joined' \in BOOLEAN => TypeInv'
  BY <1>2 DEF TypeInv, input
<1>3. ASSUME UNCHANGED <<next, lanes, recorded>> PROVE Shared'
  BY <1>3 DEF Shared, Holds
<1>4. ASSUME UNCHANGED <<input, next, inspector, lens>> PROVE Headers'
  <2>1. \A k : StartsIn(k)' = StartsIn(k) /\ WholeIn(k)' = WholeIn(k)
    BY <1>4, FixedHeaders DEF input
  <2>2. \A o \in lfh : \A k \in Chunk : Inspected(o, k)' <=> Inspected(o, k)
    BY <1>4, <2>1 DEF Inspected, input, inspector
  <2>. QED BY <1>4, <2>1, <2>2 DEF Headers, input, inspector
<1>8. ASSUME UNCHANGED <<lanes, recorded>>,
             joined' => digest' = TopDigest(Total, InOrder)
      PROVE  Hashed'
  <2>1. InOrder' = InOrder
    BY <1>8 DEF InOrder
  <2>. QED BY <1>8, <2>1 DEF Hashed, Full
<1>5. CASE Join
  <2>1. Drained'
    BY <1>5 DEF Join, Drained, Full, input
  <2>2. Hashed'
    BY <1>5, <1>8 DEF Join
  <2>. QED BY <1>2, <1>3, <1>4, <1>5, <2>1, <2>2 DEF Join
<1>6. CASE FinishInspect
  <2>1. Drained'
    BY <1>6 DEF FinishInspect, Drained, Full, input
  <2>2. joined' \in BOOLEAN
    BY <1>6 DEF FinishInspect, TypeInv
  <2>3. Hashed'
    BY <1>6, <1>8 DEF FinishInspect, Hashed
  <2>. QED BY <1>2, <1>3, <1>6, <2>1, <2>2, <2>3, FinishHeaders DEF FinishInspect
<1>7. CASE UNCHANGED vars
  <2>1. Drained' /\ joined' \in BOOLEAN
    BY <1>7 DEF vars, Drained, Full, input, caller, TypeInv
  <2>2. Hashed'
    BY <1>7, <1>8 DEF vars, caller, Hashed
  <2>. QED BY <1>2, <1>3, <1>4, <1>7, <2>1, <2>2 DEF vars, caller
<1>. QED BY <1>1, <1>5, <1>6, <1>7 DEF Next, Finished

\* Once the workers are joined, every chunk has a digest.
LEMMA AllRecorded ==
    ASSUME IInv, joined, NEW k \in Chunk
    PROVE  recorded[k] # <<>>
<1>. USE DEF IInv
<1>1. 1 \in Worker
  BY LengthsAssumption DEF Worker
<1>2. ~(next < Total)
  BY <1>1 DEF Drained
<1>3. k < next
  BY <1>2, Counts DEF TypeInv
<1>4. \A w \in Worker, i \in Lane : ~Full(w, i)
  BY DEF Drained, Lane
<1>5. \A w \in Worker, i \in Lane : ~Holds(w, i, k)
  BY <1>4, Counts DEF Full, Holds
<1>. QED BY <1>3, <1>5 DEF Shared

\* Every chunk is hashed exactly once, by one worker in one lane, and the
\* caller gets a digest for each: whoever looked at the counter when, and
\* whichever lane stayed free at the end.
THEOREM ChunksOnce == Spec => []EveryChunkOnce
<1>1. IInv => EveryChunkOnce
  <2>. SUFFICES ASSUME IInv PROVE EveryChunkOnce
    OBVIOUS
  <2>. USE DEF IInv
  <2>1. ASSUME NEW k \in Chunk
        PROVE  Len(recorded[k]) + Cardinality({s \in Worker \X Lane : lanes[s[1]][s[2]].k = k})
                 = IF k < next THEN 1 ELSE 0
    <3>. DEFINE slots == {s \in Worker \X Lane : lanes[s[1]][s[2]].k = k}
    <3>1. \A s \in Worker \X Lane : s \in slots <=> Holds(s[1], s[2], k)
      BY DEF Holds
    <3>2. recorded[k] # <<>> => Len(recorded[k]) = 1
      <4>1. recorded[k] # <<>> => recorded[k] = <<recorded[k][1]>>
        BY DEF TypeInv
      <4>2. \A d : Len(<<d>>) = 1
        OBVIOUS
      <4>. QED BY <4>1, <4>2
    <3>3. recorded[k] = <<>> => Len(recorded[k]) = 0
      OBVIOUS
    <3>4. CASE recorded[k] # <<>> \/ ~(k < next)
      <4>1. \A w \in Worker, i \in Lane : ~Holds(w, i, k)
        BY <3>4 DEF Shared
      <4>2. slots = {}
        BY <3>1, <4>1
      <4>3. Cardinality(slots) = 0
        BY <4>2, FS_EmptySet
      <4>4. ~(k < next) => recorded[k] = <<>>
        BY DEF Shared
      <4>. HIDE DEF slots
      <4>5. Len(recorded[k]) + Cardinality(slots) = IF k < next THEN 1 ELSE 0
        <5>1. CASE k < next
          <6>1. Len(recorded[k]) = 1
            BY <3>2, <3>4, <5>1
          <6>. QED BY <4>3, <5>1, <6>1
        <5>2. CASE ~(k < next)
          <6>1. Len(recorded[k]) = 0
            BY <3>3, <4>4, <5>2
          <6>. QED BY <4>3, <5>2, <6>1
        <5>. QED BY <5>1, <5>2
      <4>. QED BY <4>5 DEF slots
    <3>5. CASE recorded[k] = <<>> /\ k < next
      <4>1. PICK w \in Worker, i \in Lane : Holds(w, i, k)
        BY <3>5 DEF Shared
      <4>2. \A v \in Worker, j \in Lane : Holds(v, j, k) => v = w /\ j = i
        BY <4>1 DEF Shared
      <4>3. slots = {<<w, i>>}
        BY <3>1, <4>1, <4>2
      <4>4. Cardinality(slots) = 1
        BY <4>3, FS_Singleton
      <4>. HIDE DEF slots
      <4>5. Len(recorded[k]) + Cardinality(slots) = IF k < next THEN 1 ELSE 0
        BY <3>3, <3>5, <4>4
      <4>. QED BY <4>5 DEF slots
    <3>. QED BY <3>4, <3>5
  <2>2. joined => \A k \in Chunk : recorded[k] # <<>>
    BY AllRecorded
  <2>. QED BY <2>1, <2>2 DEF EveryChunkOnce
<1>. QED BY InitInv, NextInv, <1>1, PTL DEF Spec

\* The header check that rides on the digest pass accepts exactly the files
\* whose headers are all there, and never reports one as unseen.
THEOREM HeadersOnce == Spec => []EveryHeaderSeen
<1>1. IInv => EveryHeaderSeen
  <2>. SUFFICES ASSUME IInv PROVE EveryHeaderSeen
    OBVIOUS
  <2>1. ASSUME NEW o \in found, o \in straddlers PROVE FALSE
    <3>1. o \in lfh /\ lfh \in LfhOffsets
      BY <2>1 DEF IInv, Headers
    <3>2. PICK k \in Chunk : k < ChunkCount(1) /\ o \in StartsIn(k)
      BY <3>1, HeaderChunk
    <3>. QED BY <2>1, <3>1, <3>2 DEF IInv, Headers, Inspected
  <2>. QED BY <2>1 DEF EveryHeaderSeen, IInv, Headers
<1>. QED BY InitInv, NextInv, <1>1, PTL DEF Spec

\* The digest is the one the signature scheme defines over the sections,
\* whichever worker hashed a chunk, in which lane, with which other chunk,
\* and wherever the prefix, the data and the padding end within a block.
THEOREM SchemeDigests == Spec => []DigestIsTheScheme
<1>1. IInv => DigestIsTheScheme
  <2>. SUFFICES ASSUME IInv, joined PROVE DigestIsTheScheme
    BY DEF DigestIsTheScheme
  <2>. DEFINE ours == [k \in Chunk |-> IF recorded[k] = <<>> THEN Zeros(DigestLen)
                                       ELSE recorded[k][Len(recorded[k])]]
              theirs == [k \in Chunk |-> SchemeDigest(Piece(SourceOf(k), IndexIn(k)))]
  <2>1. ASSUME NEW k \in Chunk PROVE ours[k] = theirs[k]
    <3>. DEFINE d == HashChunk(Parts(k))
    <3>1. recorded[k] # <<>> /\ recorded[k] = <<d>>
      BY AllRecorded DEF IInv, Hashed
    <3>2. ours[k] = recorded[k][Len(recorded[k])]
      BY <3>1
    <3>3. theirs[k] = d
      BY PieceOfSection
    <3>. HIDE DEF d, ours, theirs
    <3>4. Len(<<d>>) = 1 /\ <<d>>[1] = d
      OBVIOUS
    <3>. QED BY <3>1, <3>2, <3>3, <3>4
  <2>2. ours = theirs
    BY <2>1
  <2>3. digest = TopDigest(Total, Concat(ours))
    BY DEF IInv, Hashed, InOrder
  <2>. HIDE DEF ours
  <2>. QED BY <2>2, <2>3 DEF DigestIsTheScheme, TopDigest
<1>. QED BY InitInv, NextInv, <1>1, PTL DEF Spec
-----------------------------------------------------------------------------
(* The iterated hashes of the keystores.                                   *)

\* A sequence over a larger set.
LEMMA WiderSeq ==
    ASSUME NEW S, NEW T, S \subseteq T, NEW s \in Seq(S)
    PROVE  s \in Seq(T)
<1>1. Len(s) \in Nat /\ s = [i \in 1 .. Len(s) |-> s[i]]
  BY LenProperties
<1>2. \A i \in 1 .. Len(s) : s[i] \in T
  BY ElementOfSeq
<1>. QED BY <1>1, <1>2

\* S with the bytes of a padding.
Padding(S) == S \cup {Mark, Zero} \cup {<<"len", n, i>> : n \in Nat, i \in Nat}

\* Hashing the bytes m with a hasher that has absorbed them.
LEMMA FinishAny ==
    ASSUME NEW S, NEW m \in Seq(S), NEW h, HasherOf(h, m, Padding(S))
    PROVE  Finish(h) = Hash(m)
<1>1. m \in Seq(Padding(S))
  BY WiderSeq DEF Padding
<1>2. Mark \in Padding(S) /\ Zero \in Padding(S)
  BY DEF Padding
<1>3. LenField \in Nat
  BY ShaAssumption
<1>4. \A n \in Nat, i \in 1 .. LenField : <<"len", n, i>> \in Padding(S)
  BY <1>3 DEF Padding
<1>. QED BY <1>1, <1>2, <1>4, FinishIsHash

\* A digest is a sequence of its length.
LEMMA DigestSeq ==
    ASSUME NEW x
    PROVE  /\ StateBytes(x) \in Seq({<<"hash", x, i>> : i \in 1 .. DigestLen})
           /\ Len(StateBytes(x)) = DigestLen
<1>1. DigestLen \in Nat
  BY ShaAssumption
<1>. QED BY <1>1 DEF StateBytes

\* A hasher that is started behind a block.
After(b) == [state |-> Compress(H0, b), buf |-> <<>>, len |-> Block]

\* It has absorbed the block.
LEMMA AfterBlock ==
    ASSUME NEW S, NEW b \in Seq(S), Len(b) = Block
    PROVE  Compress(H0, b) = b /\ HasherOf(After(b), b, S)
<1>1. Compress(H0, b) = b
  BY ConcatEmptySeq DEF Compress, H0
<1>2. b \o <<>> = b /\ <<>> \in Seq(S) /\ Len(<<>>) = 0
  BY ConcatEmptySeq, EmptySeq
<1>3. Block \in Nat \ {0} /\ Block % Block = 0
  BY Rests
<1>4. After(b) = [state |-> b, buf |-> <<>>, len |-> Block]
  BY <1>1 DEF After
<1>5. After(b).state = b /\ After(b).buf = <<>> /\ After(b).len = Block
  BY <1>4
<1>6. After(b) \in [state : Seq(S), buf : Seq(S), len : Nat]
  BY <1>2, <1>3, <1>4
<1>. QED BY <1>1, <1>2, <1>3, <1>5, <1>6 DEF HasherOf

\* What follows is hashed with the block before it, in one piece or in two.
LEMMA FinishBehind ==
    ASSUME NEW S, NEW b \in Seq(S), Len(b) = Block, NEW d \in Seq(S), NEW e \in Seq(S)
    PROVE  /\ Finish(Update(After(b), d)) = Hash(b \o d)
           /\ Finish(Update(Update(After(b), d), e)) = Hash(b \o (d \o e))
<1>. DEFINE P == Padding(S)
<1>0. S \subseteq P
  BY DEF Padding
<1>. HIDE DEF P
<1>1. b \in Seq(P) /\ d \in Seq(P) /\ e \in Seq(P)
  BY <1>0, WiderSeq
<1>2. HasherOf(After(b), b, P)
  BY <1>1, AfterBlock
<1>3. HasherOf(Update(After(b), d), b \o d, P)
  BY <1>1, <1>2, UpdateAbsorbs
<1>4. HasherOf(Update(Update(After(b), d), e), (b \o d) \o e, P)
  BY <1>1, <1>3, UpdateAbsorbs
<1>5. (b \o d) \o e = b \o (d \o e)
  BY ConcatAssociative
<1>6. b \o d \in Seq(S) /\ d \o e \in Seq(S)
  BY ConcatProperties
<1>7. b \o (d \o e) \in Seq(S)
  BY <1>6, ConcatProperties
<1>8. Finish(Update(After(b), d)) = Hash(b \o d)
  BY <1>3, <1>6, FinishAny DEF P
<1>9. HasherOf(Update(Update(After(b), d), e), b \o (d \o e), P)
  BY <1>4, <1>5
<1>10. Finish(Update(Update(After(b), d), e)) = Hash(b \o (d \o e))
  BY <1>7, <1>9, FinishAny DEF P
<1>. QED BY <1>8, <1>10

\* Whole blocks and a digest behind them: one more block, which the code puts
\* together itself, is their padding.
LEMMA DigestBlockPads ==
    ASSUME NEW S, NEW b \in Seq(S), Len(b) % Block = 0, NEW d \in Seq(S), Len(d) = DigestLen
    PROVE  Compress(b, DigestBlock(d, Len(b) + DigestLen)) = Padded(b \o d)
<1>. DEFINE P == Padding(S)
            z == Block - DigestLen - 1 - LenField
            n == Len(b) + DigestLen
            mark == <<Mark>>
            zeros == Zeros(z)
            length == LenBytes(n)
            m == b \o d
<1>0. S \subseteq P
  BY DEF Padding
<1>1. Block \in Nat \ {0} /\ DigestLen \in Nat /\ LenField \in Nat \ {0} /\ Block % Block = 0
  BY Rests
<1>2. DigestLen + 1 + LenField <= Block /\ Len(b) \in Nat /\ n \in Nat
  BY <1>1, ShaAssumption, LenProperties
<1>3. z \in 0 .. Block - 1 /\ z \in Nat
  BY <1>1, <1>2, ShaAssumption
<1>4. Len(m) = n
  BY ConcatProperties
<1>5. (Len(m) + 1 + z + LenField) % Block = 0
  <2>. DEFINE a == Len(b)
  <2>1. Len(m) + 1 + z + LenField = Block + a /\ a \in Nat /\ a % Block = 0
    BY <1>1, <1>2, <1>4
  <2>. HIDE DEF a
  <2>2. (Block + a) % Block = Block % Block
    BY <1>1, <2>1, Rests
  <2>. QED BY <1>1, <2>1, <2>2
<1>6. mark \in Seq(P) /\ zeros \in Seq(P) /\ length \in Seq(P) /\ b \in Seq(P) /\ d \in Seq(P)
  <2>1. Mark \in P /\ Zero \in P /\ \A i \in Nat : <<"len", n, i>> \in P
    BY <1>2 DEF Padding
  <2>. HIDE DEF P, n, z
  <2>2. b \in Seq(P) /\ d \in Seq(P)
    BY <1>0, WiderSeq
  <2>. QED BY <1>1, <1>3, <2>1, <2>2 DEF Zeros, LenBytes
<1>. HIDE DEF P, z
<1>7. z = CHOOSE y \in 0 .. Block - 1 : (Len(m) + 1 + y + LenField) % Block = 0
  <2>. DEFINE c == CHOOSE y \in 0 .. Block - 1 : (Len(m) + 1 + y + LenField) % Block = 0
              a == Len(m) + 1 + LenField
  <2>1. c \in 0 .. Block - 1 /\ (Len(m) + 1 + c + LenField) % Block = 0
    BY <1>3, <1>5
  <2>. HIDE DEF c, m, n
  <2>2. a \in Nat /\ Len(m) + 1 + c + LenField = a + c /\ Len(m) + 1 + z + LenField = a + z
    BY <1>1, <1>2, <1>3, <1>4, <2>1
  <2>3. (a + c) % Block = 0 /\ (a + z) % Block = 0
    BY <1>5, <2>1, <2>2
  <2>. HIDE DEF a
  <2>4. z = c
    BY <1>3, <2>1, <2>2, <2>3, OneFilling
  <2>. QED BY <2>4 DEF c
<1>8. Padded(m) = m \o mark \o zeros \o length
  BY <1>4, <1>7 DEF Padded
<1>9. Compress(b, DigestBlock(d, n)) = b \o (d \o mark \o zeros \o length)
  BY DEF Compress, DigestBlock, z
<1>. HIDE DEF mark, zeros, length, n
<1>10. b \o (((d \o mark) \o zeros) \o length) = (((b \o d) \o mark) \o zeros) \o length
  <2>1. d \o mark \in Seq(P)
    BY <1>6, ConcatProperties
  <2>2. (d \o mark) \o zeros \in Seq(P)
    BY <1>6, <2>1, ConcatProperties
  <2>. DEFINE x == d \o mark
              y == x \o zeros
  <2>3. (b \o d) \o mark = b \o x
    <3>1. b \in Seq(P) /\ d \in Seq(P) /\ mark \in Seq(P)
      BY <1>6
    <3>. QED BY ONLY <3>1, ConcatAssociative
  <2>4. (b \o x) \o zeros = b \o y
    <3>1. b \in Seq(P) /\ x \in Seq(P) /\ zeros \in Seq(P)
      BY <1>6, <2>1
    <3>. HIDE DEF x
    <3>. QED BY ONLY <3>1, ConcatAssociative
  <2>5. (b \o y) \o length = b \o (y \o length)
    <3>1. b \in Seq(P) /\ y \in Seq(P) /\ length \in Seq(P)
      BY <1>6, <2>2
    <3>. HIDE DEF y
    <3>. QED BY ONLY <3>1, ConcatAssociative
  <2>. QED BY <2>3, <2>4, <2>5 DEF x, y
<1>. QED BY <1>8, <1>9, <1>10 DEF n

\* A digest behind whole blocks is hashed with one compression.
LEMMA OneCompression ==
    ASSUME NEW S, NEW b \in Seq(S), Len(b) % Block = 0,
           NEW T, NEW d \in Seq(T), Len(d) = DigestLen
    PROVE  StateBytes(Compress(b, DigestBlock(d, Len(b) + DigestLen))) = Hash(b \o d)
<1>. DEFINE U == S \cup T
<1>1. b \in Seq(U) /\ d \in Seq(U)
  <2>1. S \subseteq U /\ T \subseteq U
    OBVIOUS
  <2>. HIDE DEF U
  <2>. QED BY <2>1, WiderSeq
<1>. HIDE DEF U
<1>2. Compress(b, DigestBlock(d, Len(b) + DigestLen)) = Padded(b \o d)
  BY <1>1, DigestBlockPads
<1>. QED BY <1>2 DEF Hash

\* An iteration: two compressions behind the pads are an HMAC of the digest.
LEMMA TwoCompressions ==
    ASSUME NEW S, NEW ipad \in Seq(S), NEW opad \in Seq(S), Len(ipad) = Block, Len(opad) = Block,
           NEW T, NEW d \in Seq(T), Len(d) = DigestLen
    PROVE  StateBytes(Compress(opad, DigestBlock(
               StateBytes(Compress(ipad, DigestBlock(d, Block + DigestLen))), Block + DigestLen)))
             = Hash(opad \o Hash(ipad \o d))
<1>1. Block % Block = 0
  BY Rests
<1>. DEFINE e == Hash(ipad \o d)
<1>2. StateBytes(Compress(ipad, DigestBlock(d, Block + DigestLen))) = e
  BY <1>1, OneCompression
<1>3. e \in Seq({<<"hash", Padded(ipad \o d), i>> : i \in 1 .. DigestLen}) /\ Len(e) = DigestLen
  BY DigestSeq DEF Hash
<1>. HIDE DEF e
<1>4. StateBytes(Compress(opad, DigestBlock(e, Block + DigestLen))) = Hash(opad \o e)
  BY <1>1, <1>3, OneCompression
<1>. QED BY <1>2, <1>4 DEF e

\* The first digest: the hashers that start behind the pads give an HMAC.
LEMMA FirstHmac ==
    ASSUME NEW S, NEW ipad \in Seq(S), NEW opad \in Seq(S), Len(ipad) = Block, Len(opad) = Block,
           NEW d \in Seq(S), NEW e \in Seq(S)
    PROVE  Finish(Update(After(opad), Finish(Update(Update(After(ipad), d), e))))
             = Hash(opad \o Hash(ipad \o (d \o e)))
<1>. DEFINE f == Hash(ipad \o (d \o e))
            T == {<<"hash", Padded(ipad \o (d \o e)), i>> : i \in 1 .. DigestLen}
            U == S \cup T
<1>1. Finish(Update(Update(After(ipad), d), e)) = f
  BY FinishBehind
<1>2. f \in Seq(T)
  BY DigestSeq DEF Hash
<1>. HIDE DEF f, T
<1>3. opad \in Seq(U) /\ f \in Seq(U)
  <2>1. S \subseteq U /\ T \subseteq U
    OBVIOUS
  <2>. HIDE DEF U
  <2>. QED BY <1>2, <2>1, WiderSeq
<1>. HIDE DEF U
<1>4. Finish(Update(After(opad), f)) = Hash(opad \o f)
  BY <1>3, FinishBehind
<1>. QED BY <1>1, <1>4 DEF f

\* The key of an HMAC as the standard has it.
FullKey(password) ==
    LET k == IF Len(password) > Block THEN Hash(password) ELSE password
    IN  k \o Zeros(Block - Len(k))

\* The code's key is that one, and both pads are a block.
LEMMA PadBlocks ==
    ASSUME NEW S, NEW password \in Seq(S)
    PROVE  /\ HmacKey(password) = FullKey(password)
           /\ DOMAIN FullKey(password) = 1 .. Block
           /\ FullKey(password) = [i \in 1 .. Block |-> FullKey(password)[i]]
           /\ \A pad : /\ Xor(pad, FullKey(password)) \in Seq({<<pad, FullKey(password)[i]>> : i \in 1 .. Block})
                       /\ Len(Xor(pad, FullKey(password))) = Block
<1>. DEFINE P == Padding(S)
            k == IF Len(password) > Block THEN Hash(password) ELSE password
            zeros == Zeros(Block - Len(k))
            full == FullKey(password)
<1>1. Block \in Nat \ {0} /\ DigestLen \in Nat /\ DigestLen <= Block /\ LenField \in Nat
  BY ShaAssumption
<1>2. Finish(Update(New, password)) = Hash(password)
  <2>1. password \in Seq(P) /\ <<>> \in Seq(P)
    BY WiderSeq, EmptySeq DEF Padding
  <2>2. HasherOf(New, <<>>, P)
    <3>1. <<>> \o <<>> = <<>> /\ Len(<<>>) = 0 /\ 0 % Block = 0
      BY <1>1, Rests, ConcatEmptySeq, EmptySeq, <2>1
    <3>2. New = [state |-> <<>>, buf |-> <<>>, len |-> 0]
      BY DEF New, H0
    <3>. HIDE DEF P
    <3>3. New \in [state : Seq(P), buf : Seq(P), len : Nat]
      BY <2>1, <3>2
    <3>4. New.state = <<>> /\ New.buf = <<>> /\ New.len = 0
      BY <3>2
    <3>. QED BY <1>1, <3>1, <3>3, <3>4 DEF HasherOf
  <2>. HIDE DEF P
  <2>3. HasherOf(Update(New, password), <<>> \o password, P)
    BY <2>1, <2>2, UpdateAbsorbs
  <2>4. <<>> \o password = password
    BY ConcatEmptySeq
  <2>. QED BY <2>3, <2>4, FinishAny DEF P
<1>3. HmacKey(password) = full
  BY <1>2 DEF HmacKey, FullKey
<1>4. PICK T : k \in Seq(T) /\ Len(k) \in 0 .. Block
  <2>1. CASE Len(password) > Block
    <3>. DEFINE T == {<<"hash", Padded(password), i>> : i \in 1 .. DigestLen}
    <3>1. Hash(password) \in Seq(T) /\ Len(Hash(password)) = DigestLen
      BY DigestSeq DEF Hash
    <3>. HIDE DEF T
    <3>2. k = Hash(password)
      BY <2>1
    <3>. QED BY <1>1, <3>1, <3>2
  <2>2. CASE ~(Len(password) > Block)
    <3>1. k = password /\ Len(password) \in Nat
      BY <2>2, LenProperties
    <3>. QED BY <1>1, <2>2, <3>1
  <2>. QED BY <2>1, <2>2
<1>5. full = k \o zeros
  BY DEF FullKey
<1>. HIDE DEF k, full
<1>. DEFINE U == T \cup {Zero}
            z == Block - Len(k)
<1>6. z \in Nat /\ Len(k) + z = Block
  BY <1>1, <1>4
<1>7. k \in Seq(U) /\ zeros \in Seq(U) /\ Len(zeros) = z
  <2>1. T \subseteq U /\ Zero \in U
    OBVIOUS
  <2>. HIDE DEF U
  <2>2. k \in Seq(U)
    BY <1>4, <2>1, WiderSeq
  <2>. HIDE DEF z
  <2>3. Zeros(z) \in Seq(U) /\ Len(Zeros(z)) = z
    BY <1>6, <2>1 DEF Zeros
  <2>. QED BY <2>2, <2>3 DEF z
<1>. HIDE DEF U, zeros, z
<1>8. full \in Seq(U) /\ Len(full) = Block
  <2>1. k \o zeros \in Seq(U) /\ Len(k \o zeros) = Len(k) + Len(zeros)
    BY <1>7, ConcatProperties
  <2>. QED BY <1>5, <1>6, <1>7, <2>1
<1>9. DOMAIN full = 1 .. Block
  BY <1>1, <1>8, LenProperties
<1>10. ASSUME NEW pad
       PROVE  Xor(pad, full) \in Seq({<<pad, full[i]>> : i \in 1 .. Block}) /\ Len(Xor(pad, full)) = Block
  <2>1. Xor(pad, full) = [i \in 1 .. Block |-> <<pad, full[i]>>]
    BY <1>9 DEF Xor
  <2>. DEFINE V == {<<pad, full[i]>> : i \in 1 .. Block}
  <2>2. \A i \in 1 .. Block : <<pad, full[i]>> \in V
    OBVIOUS
  <2>. HIDE DEF V
  <2>3. [i \in 1 .. Block |-> <<pad, full[i]>>] \in Seq(V)
    BY <1>1, <2>2
  <2>4. Len([i \in 1 .. Block |-> <<pad, full[i]>>]) = Block
    BY <1>1
  <2>. QED BY <2>1, <2>3, <2>4 DEF V
<1>11. full = [i \in 1 .. Block |-> full[i]]
  BY <1>8, <1>9
<1>. QED BY <1>3, <1>9, <1>10, <1>11 DEF full

\* ShaExt::pbkdf2_hmac_sha256 computes what the standard defines, and ring
\* computes: the two hashers that start behind the pads and the two
\* compressions of an iteration on a block put together by hand are HMACs, for
\* every password, also one longer than a block, every salt and any number of
\* iterations.
THEOREM Pbkdf2IsTheStandard ==
    ASSUME NEW S, NEW password \in Seq(S), NEW salt \in Seq(S), NEW iterations \in Nat, NEW n \in Nat
    PROVE  Pbkdf2(password, salt, iterations, n) = DerivedKey(password, salt, iterations, n)
<1>. DEFINE full == FullKey(password)
            ipad == Xor("ipad", full)
            opad == Xor("opad", full)
            First(i) == Hash(opad \o Hash(ipad \o (salt \o <<Byte("int", i)>>)))
            Two(x) == StateBytes(Compress(opad, DigestBlock(
                          StateBytes(Compress(ipad, DigestBlock(x, Block + DigestLen))), Block + DigestLen)))
            One(x) == Hash(opad \o Hash(ipad \o x))
            TwoStep(i, f) == [j \in 1 .. iterations |-> IF j = 1 THEN First(i) ELSE Two(f[j - 1])]
            OneStep(i, f) == [j \in 1 .. iterations |-> IF j = 1 THEN First(i) ELSE One(f[j - 1])]
            U(i) == CHOOSE f : f = TwoStep(i, f)
            V(i) == CHOOSE f : f = OneStep(i, f)
<1>1. PICK R : ipad \in Seq(R) /\ opad \in Seq(R) /\ Len(ipad) = Block /\ Len(opad) = Block
  <2>. DEFINE A == {<<"ipad", full[i]>> : i \in 1 .. Block}
              B == {<<"opad", full[i]>> : i \in 1 .. Block}
              R == A \cup B
  <2>1. ipad \in Seq(A) /\ opad \in Seq(B) /\ Len(ipad) = Block /\ Len(opad) = Block
    <3>1. \A pad : /\ Xor(pad, full) \in Seq({<<pad, full[i]>> : i \in 1 .. Block})
                   /\ Len(Xor(pad, full)) = Block
      BY PadBlocks, Zenon
    <3>. HIDE DEF full
    <3>. QED BY <3>1, Zenon
  <2>2. A \subseteq R /\ B \subseteq R
    OBVIOUS
  <2>. HIDE DEF A, B, R, ipad, opad
  <2>. QED BY <2>1, <2>2, WiderSeq
<1>2. HmacKey(password) = full
  BY PadBlocks
<1>3. Compress(H0, ipad) = ipad /\ Compress(H0, opad) = opad
  <2>. HIDE DEF ipad, opad
  <2>. QED BY <1>1, AfterBlock
<1>4. ASSUME NEW i
      PROVE  Finish(Update(After(opad), Finish(Update(Update(After(ipad), salt), <<Byte("int", i)>>)))) = First(i)
  <2>. DEFINE c == <<Byte("int", i)>>
              W == R \cup S \cup {Byte("int", i)}
  <2>1. R \subseteq W /\ S \subseteq W /\ Byte("int", i) \in W
    OBVIOUS
  <2>. HIDE DEF W, ipad, opad
  <2>2. ipad \in Seq(W) /\ opad \in Seq(W) /\ salt \in Seq(W) /\ c \in Seq(W)
    BY <1>1, <2>1, WiderSeq
  <2>. HIDE DEF c
  <2>3. Finish(Update(After(opad), Finish(Update(Update(After(ipad), salt), c))))
          = Hash(opad \o Hash(ipad \o (salt \o c)))
    BY <1>1, <2>2, FirstHmac
  <2>. QED BY <2>3 DEF c
<1>5. ASSUME NEW x PROVE Two(StateBytes(x)) = One(StateBytes(x))
  <2>. DEFINE d == StateBytes(x)
              D == {<<"hash", x, i>> : i \in 1 .. DigestLen}
  <2>1. d \in Seq(D) /\ Len(d) = DigestLen
    BY DigestSeq
  <2>. HIDE DEF d, D, ipad, opad
  <2>2. Two(d) = One(d)
    BY <1>1, <2>1, TwoCompressions
  <2>. QED BY <2>2 DEF d
<1>6. ASSUME NEW i, NEW f PROVE f = TwoStep(i, f) <=> f = OneStep(i, f)
  <2>1. \E x : First(i) = StateBytes(x)
    BY DEF Hash
  <2>2. \A y : (\E x : Two(y) = StateBytes(x)) /\ (\E x : One(y) = StateBytes(x))
    BY DEF Hash
  <2>3. \A x : Two(StateBytes(x)) = One(StateBytes(x))
    BY <1>5
  <2>. HIDE DEF First, Two, One
  <2>4. ASSUME \A j \in 1 .. iterations : \E x : f[j] = StateBytes(x) PROVE TwoStep(i, f) = OneStep(i, f)
    <3>1. \A j \in 1 .. iterations : j # 1 => j - 1 \in 1 .. iterations
      OBVIOUS
    <3>2. \A j \in 1 .. iterations : j # 1 => Two(f[j - 1]) = One(f[j - 1])
      BY <2>3, <2>4, <3>1
    <3>. QED BY <3>2
  <2>5. ASSUME f = TwoStep(i, f) \/ f = OneStep(i, f), NEW j \in 1 .. iterations
        PROVE  \E x : f[j] = StateBytes(x)
    <3>1. f[j] = First(i) \/ f[j] = Two(f[j - 1]) \/ f[j] = One(f[j - 1])
      BY <2>5
    <3>. QED BY <2>1, <2>2, <3>1
  <2>. QED BY <2>4, <2>5
<1>7. ASSUME NEW i PROVE U(i) = V(i)
  <2>1. \A f : f = TwoStep(i, f) <=> f = OneStep(i, f)
    BY <1>6
  <2>. HIDE DEF TwoStep, OneStep
  <2>. QED BY <2>1
<1>8. Pbkdf2(password, salt, iterations, n)
        = Blocks([i \in BlockOf(n) |-> XorBytes(U(i), iterations)], n)
  <2>. DEFINE inner == Compress(H0, Xor("ipad", HmacKey(password)))
              outer == Compress(H0, Xor("opad", HmacKey(password)))
              Behind(state) == [state |-> state, buf |-> <<>>, len |-> Block]
              Step(i, f) ==
                  [j \in 1 .. iterations |->
                      IF j = 1
                        THEN Finish(Update(Behind(outer),
                                 Finish(Update(Update(Behind(inner), salt), <<Byte("int", i)>>))))
                        ELSE LET s == Compress(inner, DigestBlock(f[j - 1], Block + DigestLen))
                             IN StateBytes(Compress(outer, DigestBlock(StateBytes(s), Block + DigestLen)))]
              C(i) == CHOOSE f : f = Step(i, f)
  <2>1. Pbkdf2(password, salt, iterations, n)
          = Blocks([i \in BlockOf(n) |-> XorBytes(C(i), iterations)], n)
    BY DEF Pbkdf2
  <2>2. inner = ipad /\ outer = opad
    BY <1>2, <1>3
  <2>3. Behind(inner) = After(ipad) /\ Behind(outer) = After(opad)
    BY <1>2, <1>3 DEF After
  <2>4. ASSUME NEW i, NEW f PROVE Step(i, f) = TwoStep(i, f)
    <3>. HIDE DEF ipad, opad, inner, outer, Behind, First
    <3>. QED BY <1>4, <2>2, <2>3
  <2>. HIDE DEF Step, TwoStep
  <2>5. ASSUME NEW i PROVE C(i) = U(i)
    <3>1. \A f : f = Step(i, f) <=> f = TwoStep(i, f)
      BY <2>4
    <3>. QED BY <3>1
  <2>. HIDE DEF C, U
  <2>6. [i \in BlockOf(n) |-> XorBytes(C(i), iterations)]
          = [i \in BlockOf(n) |-> XorBytes(U(i), iterations)]
    BY <2>5
  <2>. QED BY <2>1, <2>6
<1>9. DerivedKey(password, salt, iterations, n)
        = Blocks([i \in BlockOf(n) |-> XorBytes(V(i), iterations)], n)
  <2>. DEFINE Step(i, f) ==
                  [j \in 1 .. iterations |->
                      Hmac(password, IF j = 1 THEN salt \o <<Byte("int", i)>> ELSE f[j - 1])]
              C(i) == CHOOSE f : f = Step(i, f)
  <2>1. DerivedKey(password, salt, iterations, n)
          = Blocks([i \in BlockOf(n) |-> XorBytes(C(i), iterations)], n)
    BY DEF DerivedKey
  <2>2. \A m : Hmac(password, m) = Hash(opad \o Hash(ipad \o m))
    BY DEF Hmac, FullKey
  <2>3. ASSUME NEW i, NEW f PROVE Step(i, f) = OneStep(i, f)
    <3>. HIDE DEF ipad, opad
    <3>. QED BY <2>2
  <2>. HIDE DEF Step, OneStep
  <2>4. ASSUME NEW i PROVE C(i) = V(i)
    <3>1. \A f : f = Step(i, f) <=> f = OneStep(i, f)
      BY <2>3
    <3>. QED BY <3>1
  <2>. HIDE DEF C, V
  <2>5. [i \in BlockOf(n) |-> XorBytes(C(i), iterations)]
          = [i \in BlockOf(n) |-> XorBytes(V(i), iterations)]
    BY <2>4
  <2>. QED BY <2>1, <2>5
<1>. HIDE DEF U, V
<1>10. [i \in BlockOf(n) |-> XorBytes(U(i), iterations)]
         = [i \in BlockOf(n) |-> XorBytes(V(i), iterations)]
  BY <1>7
<1>. QED BY <1>8, <1>9, <1>10

\* ShaExt::iterate computes what hashing a digest n times gives: one
\* compression of a block put together by hand is a hash with its padding.
THEOREM IterateIsHashing ==
    ASSUME NEW S, NEW x \in Seq(S), Len(x) = DigestLen, NEW n \in Nat
    PROVE  Iterate(x, n) = HashIterated(x, n)
<1>. DEFINE Short(y) == StateBytes(Compress(H0, DigestBlock(y, DigestLen)))
            ShortStep(f) == [i \in 0 .. n |-> IF i = 0 THEN x ELSE Short(f[i - 1])]
            LongStep(f) == [i \in 0 .. n |-> IF i = 0 THEN x ELSE Hash(f[i - 1])]
            U == CHOOSE f : f = ShortStep(f)
            V == CHOOSE f : f = LongStep(f)
<1>1. ASSUME NEW T, NEW d \in Seq(T), Len(d) = DigestLen PROVE Short(d) = Hash(d)
  <2>1. <<>> \in Seq(T) /\ Len(<<>>) = 0 /\ <<>> \o d = d /\ 0 % Block = 0
    BY EmptySeq, ConcatEmptySeq, Rests
  <2>2. Len(<<>>) + DigestLen = DigestLen
    BY <2>1, Rests
  <2>3. StateBytes(Compress(<<>>, DigestBlock(d, Len(<<>>) + DigestLen))) = Hash(<<>> \o d)
    BY <1>1, <2>1, OneCompression
  <2>. QED BY <2>1, <2>2, <2>3 DEF H0
<1>2. ASSUME NEW y PROVE Short(StateBytes(y)) = Hash(StateBytes(y))
  <2>. DEFINE d == StateBytes(y)
              D == {<<"hash", y, i>> : i \in 1 .. DigestLen}
  <2>1. d \in Seq(D) /\ Len(d) = DigestLen
    BY DigestSeq
  <2>. HIDE DEF d, D, Short
  <2>2. Short(d) = Hash(d)
    BY <1>1, <2>1
  <2>. QED BY <2>2 DEF d
<1>3. ASSUME NEW f PROVE f = ShortStep(f) <=> f = LongStep(f)
  <2>1. \A y : (\E z : Short(y) = StateBytes(z)) /\ (\E z : Hash(y) = StateBytes(z))
    BY DEF Hash
  <2>2. Short(x) = Hash(x) /\ \A y : Short(StateBytes(y)) = Hash(StateBytes(y))
    BY <1>1, <1>2
  <2>. HIDE DEF Short
  <2>3. ASSUME \A i \in 0 .. n : f[i] = x \/ \E y : f[i] = StateBytes(y)
        PROVE  ShortStep(f) = LongStep(f)
    <3>1. \A i \in 0 .. n : i # 0 => i - 1 \in 0 .. n
      OBVIOUS
    <3>2. \A i \in 0 .. n : i # 0 => Short(f[i - 1]) = Hash(f[i - 1])
      BY <2>2, <2>3, <3>1
    <3>. QED BY <3>2
  <2>4. ASSUME f = ShortStep(f) \/ f = LongStep(f), NEW i \in 0 .. n
        PROVE  f[i] = x \/ \E y : f[i] = StateBytes(y)
    <3>1. f[i] = x \/ f[i] = Short(f[i - 1]) \/ f[i] = Hash(f[i - 1])
      BY <2>4
    <3>. QED BY <2>1, <3>1
  <2>. QED BY <2>3, <2>4
<1>4. U = V
  <2>. HIDE DEF ShortStep, LongStep
  <2>. QED BY <1>3
<1>5. Iterate(x, n) = U[n]
  BY DEF Iterate
<1>6. HashIterated(x, n) = V[n]
  BY DEF HashIterated
<1>. QED BY <1>4, <1>5, <1>6

-----------------------------------------------------------------------------
(* Passwords.  Different passwords give different keys: the hashes and the *)
(* pads lose nothing of what they are given.                               *)

\* Two concatenations whose first parts are equally long.
LEMMA CutAt ==
    ASSUME NEW S, NEW a \in Seq(S), NEW b \in Seq(S), NEW c \in Seq(S), NEW d \in Seq(S),
           Len(a) = Len(b), a \o c = b \o d
    PROVE  a = b /\ c = d
<1>1. Len(a) \in Nat /\ Len(c) \in Nat /\ Len(d) \in Nat
  BY LenProperties
<1>2. Len(a \o c) = Len(a) + Len(c) /\ Len(b \o d) = Len(b) + Len(d)
  <2>1. Len(a \o c) = Len(a) + Len(c)
    BY ONLY ConcatProperties, a \in Seq(S), c \in Seq(S)
  <2>2. Len(b \o d) = Len(b) + Len(d)
    BY ONLY ConcatProperties, b \in Seq(S), d \in Seq(S)
  <2>. QED BY <2>1, <2>2
<1>3. Len(c) = Len(d)
  BY <1>1, <1>2
<1>4. \A i \in 1 .. Len(a) : a[i] = b[i]
  <2>. SUFFICES ASSUME NEW i \in 1 .. Len(a) PROVE a[i] = b[i]
    OBVIOUS
  <2>1. (a \o c)[i] = a[i] /\ (b \o d)[i] = b[i]
    BY <1>1, <1>3, ConcatProperties
  <2>. QED BY <2>1
<1>5. \A i \in 1 .. Len(c) : c[i] = d[i]
  <2>. SUFFICES ASSUME NEW i \in 1 .. Len(c) PROVE c[i] = d[i]
    OBVIOUS
  <2>. DEFINE j == Len(a) + i
  <2>1. j \in 1 .. Len(a) + Len(c) /\ ~(j <= Len(a)) /\ j - Len(a) = i
    BY <1>1
  <2>2. (a \o c)[j] = c[i] /\ (b \o d)[j] = d[i]
    BY <1>1, <1>3, <2>1, ConcatProperties
  <2>. QED BY <2>2
<1>. QED BY <1>3, <1>4, <1>5, SeqEqual


\* A padded message ends with its length.
LEMMA PaddedEnds ==
    ASSUME NEW S, NEW m \in Seq(S)
    PROVE  \E r \in Seq(Padding(S)) :
              Padded(m) = m \o r /\ Len(r) \in Nat \ {0} /\ r[Len(r)] = <<"len", Len(m), LenField>>
<1>. DEFINE P == Padding(S)
            n == Len(m)
            z == CHOOSE y \in 0 .. Block - 1 : (n + 1 + y + LenField) % Block = 0
            mark == <<Mark>>
            zeros == Zeros(z)
            length == LenBytes(n)
            r == mark \o (zeros \o length)
<1>1. Block \in Nat \ {0} /\ LenField \in Nat \ {0} /\ n \in Nat
  BY Rests, LenProperties
<1>2. z \in 0 .. Block - 1
  <2>. DEFINE b == n % Block
              w == n - (n % Block)
              y == ((Block - 1 - LenField - b) % Word) % Block
  <2>. HIDE DEF n
  <2>0. n % Block \in 0 .. Block - 1 /\ n % Block <= n /\ (n - (n % Block)) % Block = 0
    BY <1>1, Rests
  <2>1. b \in 0 .. Block - 1 /\ w \in Nat /\ w % Block = 0 /\ w + b = n
    BY <1>1, <2>0
  <2>. HIDE DEF b, w
  <2>2. y \in 0 .. Block - 1 /\ (w + b + 1 + y + LenField) % Block = 0
    BY <2>1, WrappedZeros
  <2>3. (n + 1 + y + LenField) % Block = 0
    BY <2>1, <2>2
  <2>. HIDE DEF y
  <2>. QED BY <2>2, <2>3
<1>3. mark \in Seq(P) /\ zeros \in Seq(P) /\ length \in Seq(P) /\ m \in Seq(P) /\ Len(length) = LenField
      /\ length[LenField] = <<"len", n, LenField>> /\ Len(mark) = 1
  <2>1. Mark \in P /\ Zero \in P /\ \A i \in Nat : <<"len", n, i>> \in P
    BY <1>1 DEF Padding
  <2>2. S \subseteq P
    BY DEF Padding
  <2>. HIDE DEF P, n, z
  <2>3. m \in Seq(P)
    BY <2>2, WiderSeq
  <2>4. z \in Nat
    BY <1>1, <1>2
  <2>5. zeros \in Seq(P) /\ length \in Seq(P)
    BY <1>1, <2>1, <2>4 DEF Zeros, LenBytes
  <2>6. Len(length) = LenField /\ length[LenField] = <<"len", n, LenField>>
    BY <1>1 DEF LenBytes
  <2>. QED BY <2>1, <2>3, <2>5, <2>6
<1>4. Padded(m) = ((m \o mark) \o zeros) \o length
  BY DEF Padded
<1>. HIDE DEF P, n, z, mark, zeros, length
<1>5. Padded(m) = m \o r
  <2>1. m \o mark \in Seq(P) /\ zeros \o length \in Seq(P)
    BY <1>3, ConcatProperties
  <2>. DEFINE t == zeros \o length
              u == m \o mark
  <2>2. (u \o zeros) \o length = u \o (zeros \o length)
    <3>1. u \in Seq(P) /\ zeros \in Seq(P) /\ length \in Seq(P)
      BY <1>3, <2>1
    <3>. HIDE DEF u
    <3>. QED BY ONLY <3>1, ConcatAssociative
  <2>3. (m \o mark) \o t = m \o (mark \o t)
    <3>1. m \in Seq(P) /\ mark \in Seq(P) /\ t \in Seq(P)
      BY <1>3, <2>1
    <3>. HIDE DEF t
    <3>. QED BY ONLY <3>1, ConcatAssociative
  <2>. QED BY <1>4, <2>2, <2>3 DEF t, u
<1>6. r \in Seq(P) /\ Len(r) = 1 + (Len(zeros) + LenField) /\ r[Len(r)] = <<"len", n, LenField>>
  <2>. DEFINE t == zeros \o length
  <2>0. Len(zeros) \in Nat
    BY <1>3, LenProperties
  <2>1. t \in Seq(P) /\ Len(t) = Len(zeros) + LenField
    BY <1>3, ConcatProperties
  <2>2. t[Len(t)] = length[LenField]
    <3>1. Len(t) \in 1 .. Len(zeros) + Len(length) /\ ~(Len(t) <= Len(zeros)) /\ Len(t) - Len(zeros) = LenField
      BY <1>1, <1>3, <2>0, <2>1
    <3>. HIDE DEF t
    <3>2. (zeros \o length)[Len(t)] = length[Len(t) - Len(zeros)]
      BY <1>3, <3>1, ConcatProperties
    <3>. QED BY <3>1, <3>2 DEF t
  <2>. HIDE DEF t
  <2>3. mark \o t \in Seq(P) /\ Len(mark \o t) = 1 + Len(t)
    <3>1. mark \in Seq(P) /\ t \in Seq(P) /\ Len(mark) = 1
      BY <1>3, <2>1
    <3>. QED BY ONLY <3>1, ConcatProperties
  <2>4. (mark \o t)[1 + Len(t)] = t[Len(t)]
    <3>1. 1 + Len(t) \in 1 .. Len(mark) + Len(t) /\ ~(1 + Len(t) <= Len(mark)) /\ 1 + Len(t) - Len(mark) = Len(t)
      BY <1>1, <1>3, <2>0, <2>1
    <3>2. mark \in Seq(P) /\ t \in Seq(P)
      BY <1>3, <2>1
    <3>. QED BY ONLY <3>1, <3>2, ConcatProperties
  <2>. QED BY <1>3, <2>1, <2>2, <2>3, <2>4 DEF t
<1>7. Len(r) \in Nat \ {0}
  <2>1. Len(zeros) \in Nat
    BY <1>3, LenProperties
  <2>. QED BY <1>1, <1>6, <2>1
<1>. QED BY <1>5, <1>6, <1>7 DEF P, n

\* Two messages with one hash are one.
LEMMA HashIsInjective ==
    ASSUME NEW S, NEW a \in Seq(S), NEW T, NEW b \in Seq(T), Hash(a) = Hash(b)
    PROVE  a = b
<1>. DEFINE U == S \cup T
            P == Padding(U)
<1>1. DigestLen \in Nat \ {0} /\ Block \in Nat \ {0} /\ LenField \in Nat \ {0}
  BY ShaAssumption
<1>2. Padded(a) = Padded(b)
  <2>1. StateBytes(Padded(a))[1] = <<"hash", Padded(a), 1>> /\ StateBytes(Padded(b))[1] = <<"hash", Padded(b), 1>>
    BY <1>1 DEF StateBytes
  <2>2. <<"hash", Padded(a), 1>> = <<"hash", Padded(b), 1>>
    BY <2>1 DEF Hash
  <2>. QED BY <2>2
<1>3. a \in Seq(U) /\ b \in Seq(U) /\ a \in Seq(P) /\ b \in Seq(P)
  <2>1. S \subseteq U /\ T \subseteq U /\ U \subseteq P
    BY DEF Padding
  <2>. HIDE DEF U, P
  <2>2. a \in Seq(U) /\ b \in Seq(U)
    BY <2>1, WiderSeq
  <2>. QED BY <2>1, <2>2, WiderSeq
<1>. HIDE DEF U
<1>4. PICK r \in Seq(P) :
          Padded(a) = a \o r /\ Len(r) \in Nat \ {0} /\ r[Len(r)] = <<"len", Len(a), LenField>>
  BY <1>3, PaddedEnds
<1>5. PICK q \in Seq(P) :
          Padded(b) = b \o q /\ Len(q) \in Nat \ {0} /\ q[Len(q)] = <<"len", Len(b), LenField>>
  BY <1>3, PaddedEnds
<1>. HIDE DEF P
<1>6. Len(a) \in Nat /\ Len(b) \in Nat
  BY LenProperties
<1>7. Len(a \o r) = Len(a) + Len(r) /\ (a \o r)[Len(a) + Len(r)] = r[Len(r)]
  <2>1. Len(a) + Len(r) \in 1 .. Len(a) + Len(r) /\ ~(Len(a) + Len(r) <= Len(a)) /\ Len(a) + Len(r) - Len(a) = Len(r)
    BY <1>4, <1>6
  <2>2. a \in Seq(P) /\ r \in Seq(P)
    BY <1>3, <1>4
  <2>. QED BY ONLY <2>1, <2>2, ConcatProperties
<1>8. Len(b \o q) = Len(b) + Len(q) /\ (b \o q)[Len(b) + Len(q)] = q[Len(q)]
  <2>1. Len(b) + Len(q) \in 1 .. Len(b) + Len(q) /\ ~(Len(b) + Len(q) <= Len(b)) /\ Len(b) + Len(q) - Len(b) = Len(q)
    BY <1>5, <1>6
  <2>2. b \in Seq(P) /\ q \in Seq(P)
    BY <1>3, <1>5
  <2>. QED BY ONLY <2>1, <2>2, ConcatProperties
<1>9. Len(a) = Len(b)
  <2>1. <<"len", Len(a), LenField>> = <<"len", Len(b), LenField>>
    BY <1>2, <1>4, <1>5, <1>7, <1>8
  <2>. QED BY <2>1
<1>. QED BY <1>2, <1>3, <1>4, <1>5, <1>9, CutAt

\* The values that hashing x again and again passes through.
Hashes(f, x, n) ==
    /\ f = [i \in 0 .. n |-> f[i]] /\ f[0] = x
    /\ \A i \in 1 .. n : f[i] = Hash(f[i - 1])

\* HashIterated is the last of them.
LEMMA IteratedHashes ==
    ASSUME NEW x, NEW n \in Nat
    PROVE  \E f : Hashes(f, x, n) /\ HashIterated(x, n) = f[n]
<1>. DEFINE Again(f) == [i \in 0 .. n |-> IF i = 0 THEN x ELSE Hash(f[i - 1])]
            it == CHOOSE f : f = Again(f)
            S == {k \in 0 .. n : \E f : Hashes(f, x, k)}
<1>1. 0 \in S
  <2>. DEFINE f == [i \in 0 .. 0 |-> x]
  <2>1. f = [i \in 0 .. 0 |-> f[i]] /\ f[0] = x /\ 1 .. 0 = {}
    OBVIOUS
  <2>. HIDE DEF f
  <2>2. Hashes(f, x, 0)
    BY <2>1 DEF Hashes
  <2>. QED BY <2>2
<1>2. ASSUME NEW k \in 0 .. n - 1, k \in S PROVE k + 1 \in S
  <2>1. PICK f : Hashes(f, x, k)
    BY <1>2
  <2>. DEFINE g == [i \in 0 .. k + 1 |-> IF i = k + 1 THEN Hash(f[k]) ELSE f[i]]
  <2>2. k \in 0 .. k + 1 /\ 0 \in 0 .. k + 1 /\ 0 # k + 1 /\ k # k + 1 /\ k + 1 \in 0 .. n
    OBVIOUS
  <2>3. g[0] = x /\ g = [i \in 0 .. k + 1 |-> g[i]]
    BY <2>1, <2>2 DEF Hashes
  <2>4. ASSUME NEW i \in 1 .. k + 1 PROVE g[i] = Hash(g[i - 1])
    <3>1. i - 1 \in 0 .. k + 1 /\ i - 1 # k + 1 /\ i \in 0 .. k + 1
      OBVIOUS
    <3>2. g[i - 1] = f[i - 1] /\ g[i] = IF i = k + 1 THEN Hash(f[k]) ELSE f[i]
      BY <3>1
    <3>. HIDE DEF g
    <3>3. CASE i = k + 1
      <4>1. i - 1 = k
        BY <3>3
      <4>. QED BY <3>2, <3>3, <4>1
    <3>4. CASE i # k + 1
      <4>1. i \in 1 .. k
        BY <3>4
      <4>. QED BY <2>1, <3>2, <3>4, <4>1 DEF Hashes
    <3>. QED BY <3>3, <3>4
  <2>. HIDE DEF g
  <2>5. Hashes(g, x, k + 1)
    BY <2>3, <2>4 DEF Hashes
  <2>. QED BY <2>2, <2>5
<1>3. n \in S
  <2>. HIDE DEF S
  <2>1. 0 .. n \subseteq S
    BY <1>1, <1>2, UpTo, Zenon
  <2>. QED BY <2>1
<1>4. PICK f : Hashes(f, x, n)
  BY <1>3
<1>5. f = Again(f)
  <2>1. ASSUME NEW i \in 0 .. n PROVE f[i] = IF i = 0 THEN x ELSE Hash(f[i - 1])
    <3>1. CASE i = 0
      BY <1>4, <3>1 DEF Hashes
    <3>2. CASE i # 0
      <4>1. i \in 1 .. n
        BY <3>2
      <4>. QED BY <1>4, <3>2, <4>1 DEF Hashes
    <3>. QED BY <3>1, <3>2
  <2>2. f = [i \in 0 .. n |-> f[i]]
    BY <1>4 DEF Hashes
  <2>. QED BY <2>1, <2>2
<1>6. it = Again(it)
  <2>. HIDE DEF Again
  <2>. QED BY <1>5
<1>7. HashIterated(x, n) = it[n]
  BY DEF HashIterated
<1>. HIDE DEF it
<1>8. it = [i \in 0 .. n |-> it[i]] /\ it[0] = x
  BY <1>6
<1>9. ASSUME NEW i \in 1 .. n PROVE it[i] = Hash(it[i - 1])
  <2>1. i \in 0 .. n /\ i # 0
    OBVIOUS
  <2>2. it[i] = IF i = 0 THEN x ELSE Hash(it[i - 1])
    BY <1>6, <2>1
  <2>. QED BY <2>1, <2>2
<1>10. Hashes(it, x, n)
  BY <1>8, <1>9 DEF Hashes
<1>. QED BY <1>7, <1>10

\* A first hash before the others is one more.
LEMMA OneMoreHash ==
    ASSUME NEW x, NEW n \in Nat
    PROVE  HashIterated(Hash(x), n) = HashIterated(x, n + 1)
<1>1. PICK f : Hashes(f, Hash(x), n) /\ HashIterated(Hash(x), n) = f[n]
  BY IteratedHashes
<1>2. PICK g : Hashes(g, x, n + 1) /\ HashIterated(x, n + 1) = g[n + 1]
  <2>1. n + 1 \in Nat
    OBVIOUS
  <2>. QED BY <2>1, IteratedHashes
<1>. DEFINE S == {i \in 0 .. n : f[i] = g[i + 1]}
<1>3. 0 \in S
  <2>1. 1 \in 1 .. n + 1 /\ 1 - 1 = 0 /\ 0 + 1 = 1
    OBVIOUS
  <2>. QED BY <1>1, <1>2, <2>1 DEF Hashes
<1>4. ASSUME NEW i \in 0 .. n - 1, i \in S PROVE i + 1 \in S
  <2>1. i + 1 \in 1 .. n /\ (i + 1) - 1 = i /\ (i + 1) + 1 \in 1 .. n + 1 /\ ((i + 1) + 1) - 1 = i + 1
    OBVIOUS
  <2>2. f[i + 1] = Hash(f[i]) /\ g[(i + 1) + 1] = Hash(g[i + 1]) /\ f[i] = g[i + 1]
    BY <1>1, <1>2, <1>4, <2>1 DEF Hashes
  <2>. QED BY <2>1, <2>2
<1>5. n \in S
  <2>. HIDE DEF S
  <2>1. 0 .. n \subseteq S
    BY <1>3, <1>4, UpTo, Zenon
  <2>. QED BY <2>1
<1>. QED BY <1>1, <1>2, <1>5

\* Every hash is a sequence.
LEMMA HashSeq ==
    ASSUME NEW x PROVE \E T : Hash(x) \in Seq(T)
BY DigestSeq DEF Hash

\* Hashing equally often, two messages come to one digest only if they are one.
LEMMA IteratedIsInjective ==
    ASSUME NEW S, NEW x \in Seq(S), NEW T, NEW y \in Seq(T), NEW n \in Nat,
           HashIterated(x, n) = HashIterated(y, n)
    PROVE  x = y
<1>1. PICK f : Hashes(f, x, n) /\ HashIterated(x, n) = f[n]
  BY IteratedHashes
<1>2. PICK g : Hashes(g, y, n) /\ HashIterated(y, n) = g[n]
  BY IteratedHashes
<1>3. ASSUME NEW i \in 0 .. n PROVE (\E A : f[i] \in Seq(A)) /\ (\E A : g[i] \in Seq(A))
  <2>1. CASE i = 0
    <3>1. f[i] = x /\ g[i] = y
      BY <1>1, <1>2, <2>1 DEF Hashes
    <3>. QED BY <3>1
  <2>2. CASE i # 0
    <3>1. i \in 1 .. n
      BY <2>2
    <3>2. f[i] = Hash(f[i - 1]) /\ g[i] = Hash(g[i - 1])
      BY <1>1, <1>2, <3>1 DEF Hashes
    <3>. QED BY <3>2, HashSeq
  <2>. QED BY <2>1, <2>2
<1>. DEFINE U == {k \in 0 .. n : f[n - k] = g[n - k]}
<1>4. 0 \in U
  <2>1. n - 0 = n /\ 0 \in 0 .. n
    OBVIOUS
  <2>2. f[n] = g[n]
    BY <1>1, <1>2, Zenon
  <2>. QED BY <2>1, <2>2
<1>5. ASSUME NEW k \in 0 .. n - 1, k \in U PROVE k + 1 \in U
  <2>. DEFINE i == n - k
  <2>1. i \in 1 .. n /\ i - 1 \in 0 .. n /\ n - (k + 1) = i - 1 /\ k + 1 \in 0 .. n
    OBVIOUS
  <2>2. f[i] = g[i]
    BY <1>5
  <2>. HIDE DEF i
  <2>3. Hash(f[i - 1]) = Hash(g[i - 1])
    BY <1>1, <1>2, <2>1, <2>2 DEF Hashes
  <2>4. f[i - 1] = g[i - 1]
    BY <1>3, <2>1, <2>3, HashIsInjective
  <2>. QED BY <2>1, <2>4
<1>6. n \in U
  <2>. HIDE DEF U
  <2>1. 0 .. n \subseteq U
    BY <1>4, <1>5, UpTo, Zenon
  <2>. QED BY <2>1
<1>7. f[0] = g[0]
  <2>1. n - n = 0
    OBVIOUS
  <2>. QED BY <1>6, <2>1
<1>. QED BY <1>1, <1>2, <1>7 DEF Hashes

\* Filling up repeats a sequence, from its beginning.
LEMMA Filled ==
    ASSUME NEW S, NEW s \in Seq(S)
    PROVE  /\ Fill(s) \in Seq(S) /\ Len(s) <= Len(Fill(s))
           /\ \A i \in 1 .. Len(s) : Fill(s)[i] = s[i]
<1>. DEFINE n == Len(s)
            q == (n + Block - 1) \div Block
            r == (n + Block - 1) % Block
            m == Block * q
<1>1. n \in Nat /\ Block \in Nat \ {0} /\ \A i \in 1 .. n : s[i] \in S
  BY LenProperties, ElementOfSeq, ShaAssumption
<1>2. q \in Nat /\ r \in 0 .. Block - 1 /\ m + r = n + Block - 1 /\ m \in Nat
  <2>. DEFINE a == n + Block - 1
  <2>. HIDE DEF n
  <2>1. a \in Nat
    BY <1>1
  <2>. HIDE DEF a
  <2>2. a \div Block \in Nat /\ (a % Block) \in 0 .. Block - 1 /\ a = Block * (a \div Block) + (a % Block)
    BY <1>1, <2>1, Quotient
  <2>. QED BY <1>1, <2>2 DEF a
<1>. HIDE DEF q, r
<1>3. n <= m
  BY <1>1, <1>2
<1>4. n = 0 => m = 0
  <2>. SUFFICES ASSUME n = 0 PROVE m = 0
    OBVIOUS
  <2>1. m <= Block - 1
    BY <1>1, <1>2
  <2>2. q = 0
    <3>. SUFFICES ASSUME q >= 1 PROVE FALSE
      BY <1>2
    <3>1. Block * q >= Block
      BY <1>1, <1>2
    <3>. QED BY <1>1, <1>2, <2>1, <3>1
  <2>. QED BY <1>1, <2>2
<1>5. Fill(s) = [i \in 1 .. m |-> s[((i - 1) % n) + 1]]
  BY DEF Fill, q
<1>. HIDE DEF m, n
<1>6. ASSUME NEW i \in 1 .. m PROVE s[((i - 1) % n) + 1] \in S /\ (i <= n => ((i - 1) % n) + 1 = i)
  <2>1. n \in Nat \ {0} /\ i - 1 \in Nat
    BY <1>1, <1>2, <1>4
  <2>2. (i - 1) % n \in 0 .. n - 1
    BY <2>1
  <2>3. ((i - 1) % n) + 1 \in 1 .. n
    BY <2>1, <2>2
  <2>4. ASSUME i <= n PROVE (i - 1) % n = i - 1
    <3>. DEFINE j == i - 1
    <3>1. j \in 0 .. n - 1 /\ n * 0 + j = j
      BY <2>1, <2>4
    <3>2. (n * 0 + j) % n = j
      BY <2>1, <3>1, Division
    <3>. QED BY <3>1, <3>2
  <2>. QED BY <1>1, <2>1, <2>3, <2>4
<1>7. Fill(s) \in Seq(S) /\ Len(Fill(s)) = m
  <2>1. \A i \in 1 .. m : s[((i - 1) % n) + 1] \in S
    BY <1>6
  <2>2. Len([i \in 1 .. m |-> s[((i - 1) % n) + 1]]) = m
    BY <1>2
  <2>. QED BY <1>2, <1>5, <2>1, <2>2
<1>8. ASSUME NEW i \in 1 .. n PROVE Fill(s)[i] = s[i]
  <2>1. i \in 1 .. m /\ i <= n
    BY <1>1, <1>2, <1>3
  <2>. QED BY <1>5, <1>6, <2>1
<1>. QED BY <1>3, <1>7, <1>8 DEF n

\* The characters of passwords, the bytes of salts, and what is put to them.
Char == {"char"} \X Nat
KdfByte == Char \cup ({"salt"} \X Nat) \cup {Zero, Byte("id", 3)}

\* PKCS#12 derives a key from the whole password, NUL included.
LEMMA KdfInputIsInjective ==
    ASSUME NEW p \in Password, NEW q \in Password, NEW salt \in Seq({"salt"} \X Nat)
    PROVE  /\ KdfInput(p, salt) \in Seq(KdfByte)
           /\ KdfInput(p, salt) = KdfInput(q, salt) => p = q
<1>. DEFINE B == KdfByte
            id == [i \in 1 .. Block |-> Byte("id", 3)]
            fill == Fill(salt)
            P == BmpPassword(p)
            Q == BmpPassword(q)
            front == id \o fill
<1>1. Block \in Nat \ {0}
  BY ShaAssumption
<1>2. Char \subseteq B /\ {"salt"} \X Nat \subseteq B /\ Zero \in B /\ Byte("id", 3) \in B
  BY DEF KdfByte
<1>3. p \in Seq(Char) /\ q \in Seq(Char)
  BY DEF Password, Char
<1>. HIDE DEF B
<1>4. p \in Seq(B) /\ q \in Seq(B) /\ salt \in Seq(B)
  BY <1>2, <1>3, WiderSeq
<1>5. id \in Seq(B)
  BY <1>1, <1>2
<1>6. fill \in Seq(B)
  BY <1>4, Filled
<1>. HIDE DEF id, fill
<1>7. front \in Seq(B)
  BY <1>5, <1>6, ConcatProperties
<1>8. ASSUME NEW w \in Seq(Char)
      PROVE  /\ BmpPassword(w) \in Seq(B) /\ Len(BmpPassword(w)) = Len(w) + 1 /\ Len(w) \in Nat
             /\ \A i \in 1 .. Len(w) : BmpPassword(w)[i] = w[i] /\ w[i] # Zero
             /\ BmpPassword(w)[Len(w) + 1] = Zero
  <2>1. w \in Seq(B)
    BY <1>2, WiderSeq
  <2>2. /\ Append(w, Zero) \in Seq(B) /\ Len(Append(w, Zero)) = Len(w) + 1 /\ Len(w) \in Nat
        /\ \A i \in 1 .. Len(w) : Append(w, Zero)[i] = w[i]
        /\ Append(w, Zero)[Len(w) + 1] = Zero
    BY <1>2, <2>1, OneMore
  <2>3. ASSUME NEW i \in 1 .. Len(w) PROVE w[i] # Zero
    <3>1. w[i] \in Char
      BY ElementOfSeq
    <3>. QED BY <3>1 DEF Char, Zero, Byte
  <2>. QED BY <2>2, <2>3 DEF BmpPassword
<1>9. P \in Seq(B) /\ Q \in Seq(B)
  BY <1>3, <1>8
<1>10. Fill(P) \in Seq(B) /\ Fill(Q) \in Seq(B)
  BY <1>9, Filled
<1>11. KdfInput(p, salt) = front \o Fill(P) /\ KdfInput(q, salt) = front \o Fill(Q)
  BY DEF KdfInput, id, fill
<1>12. KdfInput(p, salt) \in Seq(B)
  <2>. HIDE DEF front, P
  <2>. QED BY <1>7, <1>10, <1>11, ConcatProperties
<1>13. ASSUME KdfInput(p, salt) = KdfInput(q, salt) PROVE p = q
  <2>1. Fill(P) = Fill(Q)
    <3>. HIDE DEF front, P, Q
    <3>1. Len(front) = Len(front) /\ front \o Fill(P) = front \o Fill(Q)
      BY <1>11, <1>13
    <3>. QED BY <1>7, <1>10, <3>1, CutAt
  <2>2. Len(p) \in Nat /\ Len(q) \in Nat
    BY <1>3, <1>8
  <2>3. \A i \in 1 .. Len(p) + 1 : Fill(P)[i] = P[i]
    BY <1>3, <1>8, <1>9, Filled
  <2>4. \A i \in 1 .. Len(q) + 1 : Fill(Q)[i] = Q[i]
    BY <1>3, <1>8, <1>9, Filled
  <2>. DEFINE F == Fill(P)
  <2>5. /\ F[Len(p) + 1] = Zero /\ F[Len(q) + 1] = Zero
        /\ \A i \in 1 .. Len(p) : F[i] = p[i] /\ p[i] # Zero
        /\ \A i \in 1 .. Len(q) : F[i] = q[i] /\ q[i] # Zero
    <3>. HIDE DEF P, Q, F
    <3>1. /\ P[Len(p) + 1] = Zero /\ \A i \in 1 .. Len(p) : P[i] = p[i] /\ p[i] # Zero
          /\ Q[Len(q) + 1] = Zero /\ \A i \in 1 .. Len(q) : Q[i] = q[i] /\ q[i] # Zero
      BY <1>3, <1>8 DEF P, Q
    <3>2. \A i \in 1 .. Len(p) + 1 : F[i] = P[i]
      BY <2>3 DEF F
    <3>3. \A i \in 1 .. Len(q) + 1 : F[i] = Q[i]
      BY <2>1, <2>4 DEF F
    <3>4. /\ Len(p) + 1 \in 1 .. Len(p) + 1 /\ Len(q) + 1 \in 1 .. Len(q) + 1
          /\ 1 .. Len(p) \subseteq 1 .. Len(p) + 1 /\ 1 .. Len(q) \subseteq 1 .. Len(q) + 1
      BY <2>2
    <3>. QED BY <3>1, <3>2, <3>3, <3>4
  <2>. HIDE DEF F
  <2>6. Len(p) = Len(q)
    <3>1. ~(Len(p) < Len(q))
      <4>. SUFFICES ASSUME Len(p) < Len(q) PROVE FALSE
        OBVIOUS
      <4>1. Len(p) + 1 \in 1 .. Len(q)
        BY <2>2
      <4>. QED BY <2>5, <4>1
    <3>2. ~(Len(q) < Len(p))
      <4>. SUFFICES ASSUME Len(q) < Len(p) PROVE FALSE
        OBVIOUS
      <4>1. Len(q) + 1 \in 1 .. Len(p)
        BY <2>2
      <4>. QED BY <2>5, <4>1
    <3>. QED BY <2>2, <3>1, <3>2
  <2>7. \A i \in 1 .. Len(p) : p[i] = q[i]
    BY <2>5, <2>6
  <2>. QED BY <1>3, <2>6, <2>7, SeqEqual
<1>. QED BY <1>12, <1>13 DEF B

\* What the verification of the MAC comes to, with the SHA instructions and
\* without: the password is the one the store was written with, and nothing
\* was changed.
LEMMA MacVerdict ==
    ASSUME NEW p \in Password, file.mac \in MacData
    PROVE  VerifyMac(p) = IF ~file.mac.supported THEN Err("unsupported")
                          ELSE IF ~file.tampered /\ p = file.mac.pw THEN Ok(<<>>) ELSE Err("integrity")
<1>. DEFINE mac == file.mac
            n == mac.iterations
            mine == KdfInput(p, mac.salt)
            theirs == KdfInput(mac.pw, mac.salt)
<1>1. mac.pw \in Password /\ mac.salt \in Seq({"salt"} \X Nat) /\ n \in Nat \ {0}
  BY DEF MacData
<1>2. mine \in Seq(KdfByte) /\ theirs \in Seq(KdfByte) /\ (mine = theirs => p = mac.pw)
  BY <1>1, KdfInputIsInjective
<1>3. Pkcs12Kdf(p, mac.salt, n, mac.sha256) = HashIterated(mine, n)
  <2>1. n - 1 \in Nat /\ (n - 1) + 1 = n
    BY <1>1
  <2>. DEFINE k == n - 1
  <2>2. HashIterated(Hash(mine), k) = HashIterated(mine, k + 1)
    <3>. HIDE DEF mine, k
    <3>. QED BY <2>1, OneMoreHash DEF k
  <2>3. Iterate(Hash(mine), k) = HashIterated(Hash(mine), k)
    <3>1. PICK T : Hash(mine) \in Seq(T) /\ Len(Hash(mine)) = DigestLen
      BY DigestSeq DEF Hash
    <3>. HIDE DEF mine, k
    <3>. QED BY <2>1, <3>1, IterateIsHashing DEF k
  <2>. HIDE DEF n
  <2>. QED BY <2>1, <2>2, <2>3 DEF Pkcs12Kdf
<1>4. Pkcs12Kdf(p, mac.salt, n, mac.sha256) = HashIterated(theirs, n) <=> p = mac.pw
  <2>1. ASSUME HashIterated(mine, n) = HashIterated(theirs, n) PROVE p = mac.pw
    <3>. HIDE DEF mine, theirs, n
    <3>1. mine = theirs
      BY <1>1, <1>2, <2>1, IteratedIsInjective
    <3>. QED BY <1>2, <3>1
  <2>2. p = mac.pw => mine = theirs
    OBVIOUS
  <2>. HIDE DEF mine, theirs, n
  <2>. QED BY <1>3, <2>1, <2>2
<1>. HIDE DEF n, theirs
<1>5. VerifyMac(p) = IF ~mac.supported THEN Err("unsupported")
                     ELSE IF ~file.tampered /\ Pkcs12Kdf(p, mac.salt, n, mac.sha256) = HashIterated(theirs, n)
                            THEN Ok(<<>>) ELSE Err("integrity")
  BY DEF VerifyMac, n, theirs
<1>. QED BY <1>4, <1>5

\* An HMAC is a hash behind a pad.
LEMMA HmacShape ==
    ASSUME NEW S, NEW p \in Seq(S)
    PROVE  \E R : /\ Xor("ipad", FullKey(p)) \in Seq(R) /\ Len(Xor("ipad", FullKey(p))) = Block
                  /\ Xor("opad", FullKey(p)) \in Seq(R) /\ Len(Xor("opad", FullKey(p))) = Block
                  /\ \A m : Hmac(p, m) = Hash(Xor("opad", FullKey(p)) \o Hash(Xor("ipad", FullKey(p)) \o m))
<1>. DEFINE full == FullKey(p)
            inner == Xor("ipad", full)
            outer == Xor("opad", full)
            A == {<<"ipad", full[i]>> : i \in 1 .. Block}
            B == {<<"opad", full[i]>> : i \in 1 .. Block}
            R == A \cup B
<1>1. inner \in Seq(A) /\ outer \in Seq(B) /\ Len(inner) = Block /\ Len(outer) = Block
  <2>1. \A pad : /\ Xor(pad, full) \in Seq({<<pad, full[i]>> : i \in 1 .. Block})
                 /\ Len(Xor(pad, full)) = Block
    BY PadBlocks, Zenon
  <2>. HIDE DEF full
  <2>. QED BY <2>1, Zenon
<1>2. A \subseteq R /\ B \subseteq R
  OBVIOUS
<1>3. \A m : Hmac(p, m) = Hash(outer \o Hash(inner \o m))
  BY DEF Hmac, FullKey
<1>. HIDE DEF A, B, R, inner, outer
<1>4. inner \in Seq(R) /\ outer \in Seq(R)
  BY <1>1, <1>2, WiderSeq
<1>. QED BY <1>1, <1>3, <1>4 DEF inner, outer

\* Two hashes behind pads are equal only if the pads and what follows are.
LEMMA BehindPads ==
    ASSUME NEW R, NEW a \in Seq(R), NEW T, NEW b \in Seq(T), Len(a) = Len(b),
           NEW C, NEW c \in Seq(C), NEW D, NEW d \in Seq(D), Hash(a \o c) = Hash(b \o d)
    PROVE  a = b /\ c = d
<1>1. PICK W : R \subseteq W /\ T \subseteq W /\ C \subseteq W /\ D \subseteq W
  <2>. DEFINE V == R \cup T \cup C \cup D
  <2>1. R \subseteq V /\ T \subseteq V /\ C \subseteq V /\ D \subseteq V
    OBVIOUS
  <2>. QED BY <2>1
<1>2. a \in Seq(W) /\ b \in Seq(W) /\ c \in Seq(W) /\ d \in Seq(W)
  BY <1>1, WiderSeq
<1>3. a \o c \in Seq(W)
  BY ONLY <1>2, ConcatProperties
<1>4. b \o d \in Seq(W)
  BY ONLY <1>2, ConcatProperties
<1>5. a \o c = b \o d
  BY <1>3, <1>4, HashIsInjective
<1>6. Len(a) = Len(b)
  OBVIOUS
<1>7. \A s, t, u, v \in Seq(W) : Len(s) = Len(t) /\ s \o u = t \o v => s = t /\ u = v
  BY CutAt
<1>8. Len(a) = Len(b) /\ a \o c = b \o d => a = b /\ c = d
  BY ONLY <1>2, <1>7
<1>. QED BY ONLY <1>5, <1>6, <1>8

\* The key that is filled up to a block is that of one password only.
LEMMA FullKeyIsInjective ==
    ASSUME NEW p \in Password, NEW q \in Password, FullKey(p) = FullKey(q)
    PROVE  p = q
<1>. DEFINE H(w) == {<<"hash", Padded(w), i>> : i \in 1 .. DigestLen}
            V == Char \cup H(p) \cup H(q) \cup {Zero}
            k(w) == IF Len(w) > Block THEN Hash(w) ELSE w
            rest(w) == Zeros(Block - Len(k(w)))
<1>1. Block \in Nat \ {0} /\ DigestLen \in Nat \ {0} /\ DigestLen < Block /\ LenField \in Nat \ {0}
  BY ShaAssumption
<1>2. p \in Seq(Char) /\ q \in Seq(Char) /\ Len(p) \in Nat /\ Len(q) \in Nat
  BY LenProperties DEF Password, Char
<1>3. ASSUME NEW w \in {p, q}
      PROVE  /\ k(w) \in Seq(V) /\ Len(k(w)) \in 0 .. Block
             /\ rest(w) \in Seq(V) /\ Len(rest(w)) = Block - Len(k(w)) /\ FullKey(w) = k(w) \o rest(w)
             /\ \A i \in 1 .. Block - Len(k(w)) : rest(w)[i] = Zero
             /\ Len(w) > Block => Len(k(w)) = DigestLen /\ k(w)[1] = <<"hash", Padded(w), 1>>
  <2>1. w \in Seq(Char) /\ Len(w) \in Nat
    BY <1>2, <1>3
  <2>2. Char \subseteq V /\ H(w) \subseteq V /\ Zero \in V
    BY <1>3
  <2>. HIDE DEF V
  <2>3. w \in Seq(V)
    BY <2>1, <2>2, WiderSeq
  <2>4. Hash(w) \in Seq(H(w)) /\ Len(Hash(w)) = DigestLen
    BY DigestSeq DEF Hash
  <2>5. Hash(w)[1] = <<"hash", Padded(w), 1>>
    BY <1>1 DEF Hash, StateBytes
  <2>. HIDE DEF H
  <2>6. Hash(w) \in Seq(V)
    BY <2>2, <2>4, WiderSeq
  <2>7. k(w) \in Seq(V) /\ Len(k(w)) \in 0 .. Block
    <3>1. CASE Len(w) > Block
      BY <1>1, <2>4, <2>6, <3>1
    <3>2. CASE ~(Len(w) > Block)
      BY <1>1, <2>1, <2>3, <3>2
    <3>. QED BY <3>1, <3>2
  <2>8. Len(w) > Block => Len(k(w)) = DigestLen /\ k(w)[1] = <<"hash", Padded(w), 1>>
    BY <2>4, <2>5
  <2>9. FullKey(w) = k(w) \o rest(w)
    BY DEF FullKey
  <2>. HIDE DEF k
  <2>10. Block - Len(k(w)) \in Nat
    BY <1>1, <2>7
  <2>11. rest(w) \in Seq(V) /\ Len(rest(w)) = Block - Len(k(w)) /\ \A i \in 1 .. Block - Len(k(w)) : rest(w)[i] = Zero
    BY <2>2, <2>10 DEF Zeros
  <2>. QED BY <2>7, <2>8, <2>9, <2>11
<1>4. \A w \in {p, q} : ~(Len(w) > Block) => k(w) = w
  OBVIOUS
<1>. HIDE DEF V, H
<1>5. ASSUME NEW w \in {p, q}
      PROVE  /\ \A i \in 1 .. Len(k(w)) : FullKey(w)[i] = k(w)[i]
             /\ \A i \in Len(k(w)) + 1 .. Block : FullKey(w)[i] = Zero
  <2>. DEFINE a == k(w)
              b == rest(w)
  <2>1. a \in Seq(V) /\ b \in Seq(V) /\ Len(a) \in 0 .. Block /\ Len(b) = Block - Len(a) /\ FullKey(w) = a \o b
        /\ \A i \in 1 .. Block - Len(a) : b[i] = Zero
    BY <1>3
  <2>. HIDE DEF a, b
  <2>2. \A i \in 1 .. Len(a) : (a \o b)[i] = a[i]
    <3>1. 1 .. Len(a) \subseteq 1 .. Len(a) + Len(b) /\ \A i \in 1 .. Len(a) : i <= Len(a)
      BY <1>1, <2>1
    <3>. QED BY <2>1, <3>1, ConcatProperties
  <2>3. ASSUME NEW i \in Len(a) + 1 .. Block PROVE (a \o b)[i] = Zero
    <3>1. i \in 1 .. Len(a) + Len(b) /\ ~(i <= Len(a)) /\ i - Len(a) \in 1 .. Block - Len(a)
      BY <1>1, <2>1
    <3>2. (a \o b)[i] = b[i - Len(a)]
      BY <2>1, <3>1, ConcatProperties
    <3>. QED BY <2>1, <3>1, <3>2
  <2>4. FullKey(w) = a \o b
    BY <2>1
  <2>5. /\ \A i \in 1 .. Len(a) : FullKey(w)[i] = a[i]
        /\ \A i \in Len(a) + 1 .. Block : FullKey(w)[i] = Zero
    BY <2>2, <2>3, <2>4
  <2>. QED BY <2>5 DEF a
<1>. HIDE DEF rest
<1>6. \A w \in {p, q} : \A i \in 1 .. Len(w) : w[i] # Zero /\ \A x : w[i] # <<"hash", x, 1>>
  <2>. SUFFICES ASSUME NEW w \in {p, q}, NEW i \in 1 .. Len(w)
                PROVE  w[i] # Zero /\ \A x : w[i] # <<"hash", x, 1>>
    OBVIOUS
  <2>1. w[i] \in Char
    BY <1>2, ElementOfSeq
  <2>2. w[i][1] = "char"
    BY <2>1 DEF Char
  <2>3. \A x : <<"hash", x, 1>>[1] = "hash"
    OBVIOUS
  <2>4. Zero[1] = "zero"
    BY DEF Zero, Byte
  <2>. QED BY <2>2, <2>3, <2>4
<1>7. ASSUME NEW v \in {p, q}, NEW w \in {p, q}, Len(v) > Block, ~(Len(w) > Block), FullKey(v) = FullKey(w)
      PROVE  FALSE
  <2>1. FullKey(v)[1] = <<"hash", Padded(v), 1>>
    <3>1. Len(k(v)) = DigestLen /\ k(v)[1] = <<"hash", Padded(v), 1>>
      BY <1>3, <1>7
    <3>2. 1 \in 1 .. Len(k(v))
      BY <1>1, <3>1
    <3>. HIDE DEF k
    <3>. QED BY <1>5, <3>1, <3>2
  <2>2. k(w) = w /\ Len(w) \in Nat
    BY <1>2, <1>4, <1>7
  <2>. HIDE DEF k
  <2>3. CASE Len(w) = 0
    <3>1. 1 \in Len(k(w)) + 1 .. Block
      BY <1>1, <2>2, <2>3
    <3>2. FullKey(w)[1] = Zero
      BY <1>5, <3>1
    <3>3. <<"hash", Padded(v), 1>>[1] = "hash" /\ Zero[1] = "zero"
      BY DEF Zero, Byte
    <3>. QED BY <1>7, <2>1, <3>2, <3>3
  <2>4. CASE Len(w) # 0
    <3>1. 1 \in 1 .. Len(w)
      BY <2>2, <2>4
    <3>2. FullKey(w)[1] = w[1]
      BY <1>5, <2>2, <3>1
    <3>. QED BY <1>6, <1>7, <2>1, <3>1, <3>2
  <2>. QED BY <2>3, <2>4
<1>8. CASE Len(p) > Block /\ Len(q) > Block
  <2>1. Len(k(p)) = Len(k(q)) /\ k(p) = Hash(p) /\ k(q) = Hash(q)
    BY <1>3, <1>8
  <2>2. \A i \in 1 .. Len(k(p)) : k(p)[i] = k(q)[i]
    <3>. HIDE DEF k
    <3>. QED BY <1>5, <2>1
  <2>3. k(p) \in Seq(V) /\ k(q) \in Seq(V)
    BY <1>3
  <2>4. k(p) = k(q)
    <3>. HIDE DEF k
    <3>. QED BY <2>1, <2>2, <2>3, SeqEqual
  <2>5. Hash(p) = Hash(q)
    BY <2>1, <2>4
  <2>. QED BY <1>2, <2>5, HashIsInjective
<1>9. CASE ~(Len(p) > Block) /\ ~(Len(q) > Block)
  <2>1. k(p) = p /\ k(q) = q
    BY <1>9
  <2>2. ASSUME NEW v \in {p, q}, NEW w \in {p, q}, Len(v) < Len(w), FullKey(v) = FullKey(w) PROVE FALSE
    <3>1. k(v) = v /\ k(w) = w /\ Len(v) \in Nat /\ Len(w) \in 0 .. Block
      BY <1>1, <1>2, <1>9, <2>1
    <3>2. Len(v) + 1 \in Len(v) + 1 .. Block /\ Len(v) + 1 \in 1 .. Len(w)
      BY <1>1, <2>2, <3>1
    <3>. HIDE DEF k
    <3>3. FullKey(v)[Len(v) + 1] = Zero /\ FullKey(w)[Len(v) + 1] = w[Len(v) + 1]
      BY <1>5, <3>1, <3>2
    <3>. QED BY <1>6, <2>2, <3>2, <3>3
  <2>3. Len(p) = Len(q)
    BY <1>2, <2>2
  <2>4. \A i \in 1 .. Len(p) : p[i] = q[i]
    <3>. HIDE DEF k
    <3>. QED BY <1>5, <2>1, <2>3
  <2>. QED BY <1>2, <2>3, <2>4, SeqEqual
<1>. QED BY <1>7, <1>8, <1>9

\* Two passwords never give one HMAC, whatever the messages are.
LEMMA HmacSeparates ==
    ASSUME NEW p \in Password, NEW q \in Password, NEW a, NEW b, Hmac(p, a) = Hmac(q, b)
    PROVE  p = q
<1>. DEFINE Key(w) == FullKey(w)
            Pad(w) == Xor("opad", Key(w))
<1>1. Block \in Nat \ {0} /\ p \in Seq(Char) /\ q \in Seq(Char)
  BY ShaAssumption DEF Password, Char
<1>2. PICK R : Pad(p) \in Seq(R) /\ Len(Pad(p)) = Block /\ \E x : Hmac(p, a) = Hash(Pad(p) \o Hash(x))
  BY <1>1, HmacShape
<1>3. PICK T : Pad(q) \in Seq(T) /\ Len(Pad(q)) = Block /\ \E x : Hmac(q, b) = Hash(Pad(q) \o Hash(x))
  BY <1>1, HmacShape
<1>4. PICK x : Hmac(p, a) = Hash(Pad(p) \o Hash(x))
  BY <1>2
<1>5. PICK y : Hmac(q, b) = Hash(Pad(q) \o Hash(y))
  BY <1>3
<1>6. Pad(p) = Pad(q)
  <2>1. PICK C : Hash(x) \in Seq(C)
    BY HashSeq
  <2>2. PICK D : Hash(y) \in Seq(D)
    BY HashSeq
  <2>3. Hash(Pad(p) \o Hash(x)) = Hash(Pad(q) \o Hash(y)) /\ Len(Pad(p)) = Len(Pad(q))
    BY <1>2, <1>3, <1>4, <1>5
  <2>. HIDE DEF Pad
  <2>. QED BY <1>2, <1>3, <2>1, <2>2, <2>3, BehindPads
<1>7. DOMAIN Key(p) = 1 .. Block /\ Key(p) = [i \in 1 .. Block |-> Key(p)[i]]
      /\ DOMAIN Key(q) = 1 .. Block /\ Key(q) = [i \in 1 .. Block |-> Key(q)[i]]
  BY <1>1, PadBlocks
<1>. HIDE DEF Key
<1>8. \A i \in 1 .. Block : Key(p)[i] = Key(q)[i]
  <2>. SUFFICES ASSUME NEW i \in 1 .. Block PROVE Key(p)[i] = Key(q)[i]
    OBVIOUS
  <2>1. Pad(p)[i] = <<"opad", Key(p)[i]>> /\ Pad(q)[i] = <<"opad", Key(q)[i]>>
    BY <1>7 DEF Xor
  <2>2. <<"opad", Key(p)[i]>> = <<"opad", Key(q)[i]>>
    BY <1>6, <2>1
  <2>. QED BY <2>2
<1>9. Key(p) = Key(q)
  BY <1>7, <1>8
<1>. QED BY <1>9, FullKeyIsInjective DEF Key

\* The digests of the iterations for one block of a derived key.
Turns(f, p, m, n) == f = [j \in 1 .. n |-> Hmac(p, IF j = 1 THEN m ELSE f[j - 1])]

\* There are such digests.
LEMMA TurnsExist ==
    ASSUME NEW p, NEW m, NEW n \in Nat
    PROVE  \E f : Turns(f, p, m, n)
<1>. DEFINE S == {k \in 0 .. n : \E f : Turns(f, p, m, k)}
<1>1. 0 \in S
  <2>. DEFINE f == [j \in 1 .. 0 |-> 0]
  <2>1. 1 .. 0 = {} /\ 0 \in 0 .. n
    OBVIOUS
  <2>2. f = [j \in 1 .. 0 |-> Hmac(p, IF j = 1 THEN m ELSE f[j - 1])]
    BY <2>1
  <2>. HIDE DEF f
  <2>3. Turns(f, p, m, 0)
    BY <2>2 DEF Turns
  <2>. QED BY <2>1, <2>3
<1>2. ASSUME NEW k \in 0 .. n - 1, k \in S PROVE k + 1 \in S
  <2>1. PICK f : Turns(f, p, m, k)
    BY <1>2
  <2>. DEFINE turn(h, j) == Hmac(p, IF j = 1 THEN m ELSE h[j - 1])
              g == [j \in 1 .. k + 1 |-> IF j = k + 1 THEN turn(f, j) ELSE f[j]]
  <2>2. ASSUME NEW j \in 1 .. k + 1 PROVE g[j] = turn(g, j)
    <3>1. turn(g, j) = turn(f, j)
      <4>1. CASE j = 1
        BY <4>1
      <4>2. CASE j # 1
        <5>1. j - 1 \in 1 .. k + 1 /\ j - 1 # k + 1
          BY <4>2
        <5>2. g[j - 1] = f[j - 1]
          BY <5>1
        <5>. QED BY <5>2
      <4>. QED BY <4>1, <4>2
    <3>2. CASE j = k + 1
      <4>1. g[j] = turn(f, j)
        BY <3>2
      <4>. QED BY <3>1, <4>1
    <3>3. CASE j # k + 1
      <4>1. j \in 1 .. k
        BY <3>3
      <4>2. f[j] = turn(f, j)
        BY <2>1, <4>1 DEF Turns
      <4>3. g[j] = f[j]
        BY <3>3
      <4>. QED BY <3>1, <4>2, <4>3
    <3>. QED BY <3>2, <3>3
  <2>3. g = [j \in 1 .. k + 1 |-> g[j]]
    OBVIOUS
  <2>4. g = [j \in 1 .. k + 1 |-> turn(g, j)]
    <3>. HIDE DEF g, turn
    <3>. QED BY <2>2, <2>3
  <2>5. Turns(g, p, m, k + 1)
    <3>. HIDE DEF g
    <3>. QED BY <2>4 DEF Turns
  <2>6. k + 1 \in 0 .. n
    OBVIOUS
  <2>. HIDE DEF g
  <2>. QED BY <2>5, <2>6
<1>. HIDE DEF S
<1>3. n \in S
  <2>1. 0 .. n \subseteq S
    BY <1>1, <1>2, UpTo, Zenon
  <2>. QED BY <2>1
<1>. QED BY <1>3 DEF S

\* The first of them comes once, so that it is in their exclusive or.
LEMMA FirstTurnStays ==
    ASSUME NEW p \in Password, NEW salt \in Seq({"salt"} \X Nat), NEW i \in Nat, NEW n \in Nat \ {0},
           NEW f, Turns(f, p, salt \o <<Byte("int", i)>>, n)
    PROVE  f[1] \in {d \in {f[j] : j \in 1 .. n} : Cardinality({j \in 1 .. n : f[j] = d}) % 2 = 1}
<1>. DEFINE int == <<Byte("int", i)>>
            m == salt \o int
            S == ({"salt"} \X Nat) \cup {Byte("int", i)}
<1>1. p \in Seq(Char)
  BY DEF Password, Char
<1>2. salt \in Seq(S) /\ int \in Seq(S) /\ Len(int) = 1
  <2>1. {"salt"} \X Nat \subseteq S /\ Byte("int", i) \in S
    OBVIOUS
  <2>. HIDE DEF S
  <2>. QED BY <2>1, WiderSeq
<1>. HIDE DEF S
<1>3. m \in Seq(S) /\ Len(m) \in Nat \ {0} /\ m[Len(m)] = Byte("int", i)
  <2>0. int[1] = Byte("int", i)
    OBVIOUS
  <2>. HIDE DEF int
  <2>1. Len(salt) \in Nat
    BY LenProperties
  <2>2. salt \o int \in Seq(S) /\ Len(salt \o int) = Len(salt) + 1
    BY <1>2, ConcatProperties
  <2>3. Len(salt) + 1 \in 1 .. Len(salt) + Len(int) /\ ~(Len(salt) + 1 <= Len(salt)) /\ Len(salt) + 1 - Len(salt) = 1
    BY <1>2, <2>1
  <2>4. (salt \o int)[Len(salt) + 1] = int[1]
    <3>1. salt \in Seq(S) /\ int \in Seq(S)
      BY <1>2
    <3>. QED BY ONLY <2>3, <3>1, ConcatProperties
  <2>. QED BY <2>0, <2>1, <2>2, <2>4
<1>4. PICK R : /\ Xor("ipad", FullKey(p)) \in Seq(R) /\ Len(Xor("ipad", FullKey(p))) = Block
               /\ Xor("opad", FullKey(p)) \in Seq(R) /\ Len(Xor("opad", FullKey(p))) = Block
               /\ \A x : Hmac(p, x) = Hash(Xor("opad", FullKey(p)) \o Hash(Xor("ipad", FullKey(p)) \o x))
  BY <1>1, HmacShape
<1>. DEFINE ipad == Xor("ipad", FullKey(p))
            opad == Xor("opad", FullKey(p))
<1>5. ASSUME NEW T, NEW x \in Seq(T), Hmac(p, m) = Hmac(p, x) PROVE m = x
  <2>. HIDE DEF ipad, opad, m
  <2>1. opad \in Seq(R) /\ ipad \in Seq(R) /\ Hash(opad \o Hash(ipad \o m)) = Hash(opad \o Hash(ipad \o x))
    BY <1>4, <1>5 DEF ipad, opad
  <2>2. PICK C : Hash(ipad \o m) \in Seq(C)
    BY HashSeq
  <2>3. PICK D : Hash(ipad \o x) \in Seq(D)
    BY HashSeq
  <2>. DEFINE first == Hash(ipad \o m)
              other == Hash(ipad \o x)
  <2>4. first = other
    <3>1. opad \in Seq(R) /\ Len(opad) = Len(opad) /\ first \in Seq(C) /\ other \in Seq(D)
          /\ Hash(opad \o first) = Hash(opad \o other)
      BY <2>1, <2>2, <2>3
    <3>. HIDE DEF first, other
    <3>. QED BY ONLY <3>1, BehindPads
  <2>5. Len(ipad) = Len(ipad) /\ m \in Seq(S) /\ x \in Seq(T) /\ Hash(ipad \o m) = Hash(ipad \o x)
    BY <1>3, <1>5, <2>4
  <2>. QED BY ONLY <2>1, <2>5, BehindPads
<1>. HIDE DEF m
<1>6. 1 \in 1 .. n /\ n \in Nat
  OBVIOUS
<1>7. f[1] = Hmac(p, m)
  <2>1. f[1] = Hmac(p, IF 1 = 1 THEN m ELSE f[1 - 1])
    BY <1>6 DEF Turns, m
  <2>. QED BY <2>1
<1>8. ASSUME NEW j \in 1 .. n, j # 1 PROVE f[j] # f[1]
  <2>1. j - 1 \in 1 .. n
    BY <1>8
  <2>2. f[j] = Hmac(p, f[j - 1])
    <3>1. f[j] = Hmac(p, IF j = 1 THEN m ELSE f[j - 1])
      BY DEF Turns, m
    <3>. QED BY <1>8, <3>1
  <2>3. \E x : f[j - 1] = StateBytes(x)
    <3>1. f[j - 1] = Hmac(p, IF j - 1 = 1 THEN m ELSE f[j - 1 - 1])
      BY <2>1 DEF Turns, m
    <3>. QED BY <3>1 DEF Hmac, Hash
  <2>4. PICK x : f[j - 1] = StateBytes(x)
    BY <2>3
  <2>5. m # f[j - 1]
    <3>. SUFFICES ASSUME m = StateBytes(x) PROVE FALSE
      BY <2>4
    <3>1. Len(m) = DigestLen /\ DigestLen \in Nat
      BY DigestSeq, ShaAssumption
    <3>2. Len(m) \in 1 .. DigestLen
      BY <1>3, <3>1
    <3>3. m[Len(m)] = <<"hash", x, Len(m)>>
      BY <3>2 DEF StateBytes
    <3>4. <<"hash", x, Len(m)>>[1] = "hash" /\ Byte("int", i)[1] = "int"
      BY DEF Byte
    <3>. QED BY <1>3, <3>3, <3>4
  <2>6. f[j - 1] \in Seq({<<"hash", x, k>> : k \in 1 .. DigestLen})
    BY <2>4, DigestSeq
  <2>. QED BY <1>5, <1>7, <2>2, <2>5, <2>6
<1>9. {j \in 1 .. n : f[j] = f[1]} = {1}
  BY <1>6, <1>8
<1>10. Cardinality({j \in 1 .. n : f[j] = f[1]}) = 1
  BY <1>9, FS_Singleton
<1>11. 1 % 2 = 1
  OBVIOUS
<1>. QED BY <1>6, <1>10, <1>11

\* Two passwords never give one derived key.
LEMMA DerivedKeyIsInjective ==
    ASSUME NEW p \in Password, NEW q \in Password, NEW salt \in Seq({"salt"} \X Nat),
           NEW n \in Nat \ {0}, NEW l \in Nat \ {0}, DerivedKey(p, salt, n, l) = DerivedKey(q, salt, n, l)
    PROVE  p = q
<1>. DEFINE m(i) == salt \o <<Byte("int", i)>>
            U(w, i) == CHOOSE f : f = [j \in 1 .. n |-> Hmac(w, IF j = 1 THEN m(i) ELSE f[j - 1])]
            odd(f) == {d \in {f[j] : j \in 1 .. n} : Cardinality({j \in 1 .. n : f[j] = d}) % 2 = 1}
<1>1. DigestLen \in Nat \ {0} /\ n \in Nat
  BY ShaAssumption
<1>2. ASSUME NEW w \in Password PROVE Turns(U(w, 1), w, m(1), n)
  <2>. DEFINE mm == m(1)
  <2>1. \E f : Turns(f, w, mm, n)
    <3>. HIDE DEF mm
    <3>. QED BY <1>1, TurnsExist
  <2>. QED BY <2>1 DEF Turns
<1>3. ASSUME NEW w \in Password PROVE DerivedKey(w, salt, n, l)[1] = <<"xor", odd(U(w, 1)), 1>>
  <2>. DEFINE t == [i \in BlockOf(l) |-> XorBytes(U(w, i), n)]
  <2>1. DerivedKey(w, salt, n, l) = Blocks(t, l)
    BY DEF DerivedKey
  <2>2. 1 \in 1 .. l /\ 1 \in BlockOf(l)
    <3>1. (l + DigestLen - 1) \div DigestLen >= 1
      <4>. DEFINE a == l + DigestLen - 1
                  k == a \div DigestLen
      <4>1. a \in Nat /\ a >= DigestLen
        BY <1>1
      <4>. HIDE DEF a
      <4>2. k \in Nat /\ a % DigestLen \in 0 .. DigestLen - 1 /\ a = DigestLen * k + (a % DigestLen)
        <5>1. a \div DigestLen \in Nat /\ (a % DigestLen) \in 0 .. DigestLen - 1
              /\ a = DigestLen * (a \div DigestLen) + (a % DigestLen)
          BY <1>1, <4>1, Quotient
        <5>. QED BY <5>1
      <4>3. k # 0
        <5>. SUFFICES ASSUME k = 0 PROVE FALSE
          OBVIOUS
        <5>1. DigestLen * k = 0
          BY <1>1
        <5>. HIDE DEF k
        <5>. QED BY <1>1, <4>1, <4>2, <5>1
      <4>. QED BY <4>2, <4>3 DEF a
    <3>2. (l + DigestLen - 1) \div DigestLen \in Nat
      <4>. DEFINE a == l + DigestLen - 1
      <4>1. a \in Nat
        BY <1>1
      <4>. HIDE DEF a
      <4>2. a \div DigestLen \in Nat
        BY <1>1, <4>1, Quotient
      <4>. QED BY <4>2 DEF a
    <3>. QED BY <3>1, <3>2 DEF BlockOf
  <2>3. (1 - 1) \div DigestLen + 1 = 1 /\ ((1 - 1) % DigestLen) + 1 = 1
    <3>1. 0 \div DigestLen = 0 /\ 0 % DigestLen = 0
      <4>1. DigestLen * 0 + 0 = 0 /\ 0 \in 0 .. DigestLen - 1 /\ 0 \in Nat
        BY <1>1
      <4>2. (DigestLen * 0 + 0) % DigestLen = 0 /\ (DigestLen * 0 + 0) \div DigestLen = 0
        BY <1>1, <4>1, Division
      <4>. QED BY <4>1, <4>2
    <3>. QED BY <3>1
  <2>4. Blocks(t, l)[1] = t[1][1]
    <3>. HIDE DEF t
    <3>1. Blocks(t, l)[1] = t[(1 - 1) \div DigestLen + 1][((1 - 1) % DigestLen) + 1]
      BY <2>2 DEF Blocks
    <3>. QED BY <2>3, <3>1
  <2>5. t[1] = XorBytes(U(w, 1), n)
    BY <2>2
  <2>. HIDE DEF t, U
  <2>6. XorBytes(U(w, 1), n)[1] = <<"xor", odd(U(w, 1)), 1>>
    BY <1>1 DEF XorBytes
  <2>. QED BY <2>1, <2>4, <2>5, <2>6
<1>. HIDE DEF U
<1>4. odd(U(p, 1)) = odd(U(q, 1))
  <2>. HIDE DEF odd
  <2>1. <<"xor", odd(U(p, 1)), 1>> = <<"xor", odd(U(q, 1)), 1>>
    BY <1>3
  <2>. QED BY <2>1
<1>5. U(p, 1)[1] \in odd(U(p, 1))
  <2>1. Turns(U(p, 1), p, salt \o <<Byte("int", 1)>>, n) /\ 1 \in Nat
    BY <1>2
  <2>. DEFINE f == U(p, 1)
  <2>. HIDE DEF f
  <2>2. Turns(f, p, salt \o <<Byte("int", 1)>>, n)
    BY <2>1 DEF f
  <2>3. f[1] \in odd(f)
    BY <2>1, <2>2, FirstTurnStays
  <2>. QED BY <2>3 DEF f
<1>6. PICK j \in 1 .. n : U(p, 1)[1] = U(q, 1)[j]
  BY <1>4, <1>5
<1>7. (\E a : U(p, 1)[1] = Hmac(p, a)) /\ (\E b : U(q, 1)[j] = Hmac(q, b))
  <2>1. 1 \in 1 .. n
    OBVIOUS
  <2>2. U(p, 1)[1] = Hmac(p, IF 1 = 1 THEN m(1) ELSE U(p, 1)[1 - 1])
    BY <1>2, <2>1 DEF Turns
  <2>3. U(q, 1)[j] = Hmac(q, IF j = 1 THEN m(1) ELSE U(q, 1)[j - 1])
    BY <1>2 DEF Turns
  <2>. QED BY <2>2, <2>3
<1>. QED BY <1>6, <1>7, HmacSeparates

\* What a decryption comes to, with the SHA instructions and without: the
\* password is the one that the text was encrypted with, or it is not.
LEMMA DecryptVerdict ==
    ASSUME NEW p \in Password, NEW lock \in Lock, NEW plain
    PROVE  Pbes2Decrypt(lock, plain, p) =
             IF ~lock.supported THEN Err("unsupported")
             ELSE IF p = lock.pw THEN Ok(plain) ELSE Err(luck)
<1>. DEFINE n == lock.iterations
            salt == lock.salt
            derived == IF ext /\ lock.sha256 THEN Pbkdf2(p, salt, n, KeyLen) ELSE DerivedKey(p, salt, n, KeyLen)
<1>1. lock.pw \in Password /\ salt \in Seq({"salt"} \X Nat) /\ n \in Nat \ {0} /\ KeyLen \in Nat \ {0}
  BY KeyLenAssumption DEF Lock
<1>2. Pbkdf2(p, salt, n, KeyLen) = DerivedKey(p, salt, n, KeyLen)
  <2>. DEFINE S == Char \cup ({"salt"} \X Nat)
  <2>1. Char \subseteq S /\ {"salt"} \X Nat \subseteq S /\ p \in Seq(Char)
    BY DEF Password, Char
  <2>. HIDE DEF S, salt, n
  <2>2. p \in Seq(S) /\ salt \in Seq(S) /\ n \in Nat /\ KeyLen \in Nat
    BY <1>1, <2>1, WiderSeq
  <2>. QED BY <2>2, Pbkdf2IsTheStandard
<1>3. derived = DerivedKey(p, salt, n, KeyLen)
  BY <1>2
<1>4. Pbes2Decrypt(lock, plain, p) =
        IF ~lock.supported THEN Err("unsupported")
        ELSE IF derived = DerivedKey(lock.pw, salt, n, KeyLen) THEN Ok(plain) ELSE Err(luck)
  BY DEF Pbes2Decrypt
<1>. HIDE DEF derived, salt, n
<1>5. DerivedKey(p, salt, n, KeyLen) = DerivedKey(lock.pw, salt, n, KeyLen) <=> p = lock.pw
  BY <1>1, DerivedKeyIsInjective
<1>. QED BY <1>3, <1>4, <1>5

-----------------------------------------------------------------------------
(* The keystores.  The inductive invariant says what the loading thread    *)
(* knows at each of its stages, and what it tells at the end.              *)

\* The request and the files are one of the cases.
Request ==
    /\ \E c \in Cases : ask = c.ask /\ file = c.file
    /\ luck \in {"pad", "noise", "empty"}

\* What is read of a PKCS#12 store.
Pkcs12 == Keyed /\ file.kind = "pkcs12" /\ file.wellFormed
MacPasses == file.mac.present => VerifyMac(storePw).err = "ok"
OpenedStore == Pkcs12 /\ MacPasses /\ WalkError = "ok"

\* What the thread t returns, and what has become of container i.
Outcome(t) ==
    CASE t[1] = "mac" -> VerifyMac(storePw)
      [] t[1] = "part" -> Pbes2Decrypt(Containers[t[2]].lock, Containers[t[2]].bags, storePw)
      [] t[1] = "key" -> RecoverKey(PlainKeys[t[2]].der, keyPw)
Derived ==
    DOMAIN out = MacThread \cup DeriveThreads /\ \A t \in DeriveThreads : out[t] = Outcome(t)
Deciphered(i) ==
    LET c == Containers[i]
    IN  IF c.kind = "data" \/ (c.lock.supported /\ c.lock.pw = storePw) THEN Ok(c.bags)
        ELSE IF ~c.lock.supported THEN Err("unsupported")
        ELSE IF luck = "pad" THEN Err("store password")
        ELSE IF luck = "noise" THEN Err("malformed") ELSE Ok(<<>>)
Readable(i) == Deciphered(i).err = "ok" /\ WellFormed(Deciphered(i).value)
Texts == [i \in 1 .. Len(Containers) |-> Deciphered(i).value]

\* The values of the loop that joins sequences.
FlatTo(ss) ==
    CHOOSE f : f = [n \in 0 .. Len(ss) |-> IF n = 0 THEN <<>> ELSE f[n - 1] \o ss[n]]

\* The containers are read in their order.
Gathering ==
    /\ OpenedStore
    /\ part \in 0 .. Len(Containers) /\ bags = FlatTo(Texts)[part]
    /\ \A i \in 1 .. part : Readable(i)

\* Every key becomes an entry.
LeafAt(k) == LeafOf(Keys[k], Len(Keys) = 1, Certs)
ChainAt(k) == IF LeafAt(k) = 0 THEN <<>> ELSE BuildChain(Certs, LeafAt(k))
AllNamed == \A i \in DOMAIN Certs : Certs[i].der.wellFormed
Fits(e, k) ==
    /\ e.alias = AliasOf(Keys, k) /\ e.der = Keys[k].der /\ e.chain = ChainAt(k)
    /\ e.recovered \in {NotTried, RecoverKey(e.der, keyPw)}
    /\ LeafAt(k) # 0 => AllNamed
Listing ==
    /\ Gathering
    /\ entries # <<>> => part = Len(Containers)
    /\ \E S : entries \in Seq(S)
    /\ Len(entries) <= Len(Keys) /\ \A k \in 1 .. Len(entries) : Fits(entries[k], k)
JksEntries ==
    [i \in DOMAIN JksKeys |-> [alias |-> JksKeys[i].alias, der |-> JksKeys[i].der,
                               chain |-> JksKeys[i].chain, recovered |-> NotTried]]
JksListed ==
    /\ Keyed /\ file.kind = "jks" /\ file.wellFormed
    /\ \A i \in DOMAIN file.jks : file.jks[i].tag # "unknown"
    /\ storePw = file.mac.pw /\ ~file.tampered
    /\ entries = JksEntries
Listed == JksListed \/ (Listing /\ part = Len(Containers) /\ Len(entries) = Len(Keys))

\* One entry is chosen, and its key recovered.
Selected(n) ==
    IF ask.alias = None THEN n = 1 /\ Len(entries) = 1
    ELSE entries[n].alias = Lower[ask.alias] /\ \A m \in 1 .. n - 1 : entries[m].alias # Lower[ask.alias]
Chose == Listed /\ \E n \in 1 .. Len(entries) : Selected(n) /\ chosen = entries[n]
Recovery ==
    IF file.kind = "jks" THEN JksRecoverKey(chosen.der, keyPw) ELSE RecoverKey(chosen.der, keyPw)
Usable == Chose /\ Recovery.err = "ok" /\ chosen.chain # <<>> /\ chosen.chain[1].wellFormed
Made ==
    /\ Usable /\ Parses(Recovery.value, chosen.chain[1])
    /\ signer.key = Recovery.value /\ signer.certs = chosen.chain
Matches == signer.key.id = signer.certs[1].pub

\* How a request ends.
Unreadable ==
    \/ file.kind = "unreadable" /\ verdict = "io"
    \/ file.kind = "pkcs12" /\ ~file.wellFormed /\ verdict = "malformed"
    \/ file.kind \in {"jceks", "unknown"} /\ verdict = "unsupported"
    \/ /\ file.kind = "jks"
       /\ ~file.wellFormed \/ \E i \in DOMAIN file.jks : file.jks[i].tag = "unknown"
       /\ verdict = "malformed"
Rejected ==
    \/ file.kind = "jks" /\ (storePw # file.mac.pw \/ file.tampered) /\ verdict = "integrity"
    \/ Pkcs12 /\ ~MacPasses /\ verdict = VerifyMac(storePw).err
    \/ Pkcs12 /\ MacPasses /\ WalkError # "ok" /\ verdict = WalkError
    \/ /\ OpenedStore
       /\ \E i \in 1 .. Len(Containers) :
             /\ ~Readable(i)
             /\ verdict = IF Deciphered(i).err = "ok" THEN "malformed" ELSE Deciphered(i).err
    \/ /\ Listing /\ part = Len(Containers)
       /\ \E k \in 1 .. Len(Keys) : LeafAt(k) # 0
       /\ ~AllNamed /\ verdict = "malformed"
Refused ==
    \/ Listed /\ (~\E n \in 1 .. Len(entries) : Selected(n)) /\ verdict = "no such key"
    \/ Chose /\ Recovery.err # "ok" /\ verdict = Recovery.err
    \/ Chose /\ Recovery.err = "ok" /\ chosen.chain = <<>> /\ verdict = "no chain"
    \/ /\ Chose /\ Recovery.err = "ok" /\ chosen.chain # <<>> /\ ~chosen.chain[1].wellFormed
       /\ verdict = "certificate"
    \/ Usable /\ ~Parses(Recovery.value, chosen.chain[1]) /\ verdict = "key"
Told ==
    \/ ask.source = "files" /\ (verdict = "signed" => Matches)
    \/ ask.source = "ks" /\ ~Given /\ verdict = "no password"
    \/ Keyed /\ (Unreadable \/ Rejected \/ Refused)
    \/ Made /\ verdict = IF Matches THEN "signed" ELSE "mismatch"

\* Where the loading thread is, and what it knows there.
Fresh == part = 0 /\ bags = <<>> /\ entries = <<>>
Where ==
    \/ stage = "password" /\ Fresh /\ DOMAIN out = {}
    \/ stage = "files" /\ ask.source = "files" /\ DOMAIN out = {}
    \/ stage = "read" /\ Keyed /\ Fresh /\ DOMAIN out = {}
    \/ stage = "jks" /\ Keyed /\ file.kind \in {"jks", "jceks", "unknown"} /\ DOMAIN out = {}
    \/ stage = "walk" /\ Pkcs12 /\ Fresh /\ DOMAIN out = MacThread
    \/ /\ stage = "join" /\ Pkcs12 /\ Fresh /\ walkErr = "ok" /\ WalkError = "ok"
       /\ DOMAIN out = MacThread \cup DeriveThreads
    \/ /\ stage = "mac" /\ Pkcs12 /\ Fresh /\ walkErr = WalkError /\ MacThread \subseteq DOMAIN out
       /\ WalkError = "ok" => Derived
    \/ stage = "collect" /\ Listing /\ Derived
    \/ stage = "select" /\ Listed
    \/ stage = "recover" /\ Chose
    \/ stage = "sign" /\ (ask.source = "files" \/ Made)
    \/ stage = "done" /\ Told

LoadInv ==
    /\ Request
    /\ stage # "password" /\ Keyed => storePw = GivenStore /\ keyPw = GivenKey
    /\ \A t \in DOMAIN out : out[t] \in {Running, Outcome(t)}
    /\ signer # NoSigner => stage \in {"sign", "done"} /\ (ask.source = "ks" => Made)
    /\ stage # "done" => verdict = "none"
    /\ Where

\* The least of some numbers.
LEMMA MinOf ==
    ASSUME NEW I \in SUBSET Nat, I # {}
    PROVE  Min(I) \in I /\ \A j \in I : Min(I) <= j
<1>1. \E n \in I : \A j \in I : n <= j
  BY LeastNumber
<1>. QED BY <1>1 DEF Min

\* What the assumption on the cases says of a request.
LEMMA RequestTypes ==
    ASSUME Request
    PROVE  /\ ask \in KeySource /\ file \in KeyFile
           /\ ask.source = "ks" => file.kind # "files"
           /\ ask.source = "files" => file.kind \in {"files", "unreadable"}
           /\ file.kind = "jks" =>
                 /\ file.mac.present /\ file.mac.supported
                 /\ \A i \in DOMAIN file.jks : file.jks[i].tag = "key" => file.jks[i].der.shrouded
BY CasesAssumption DEF Request

\* The bags of a kind are bags of the list, of that kind.
LEMMA BagsOfAKind ==
    ASSUME NEW bs \in Seq(SafeBag)
    PROVE  /\ KeyBags(bs) \in Seq(SafeBag) /\ CertBags(bs) \in Seq(SafeBag)
           /\ \A k \in DOMAIN KeyBags(bs) : KeyBags(bs)[k].der \in KeyDer
           /\ \A i \in DOMAIN CertBags(bs) : CertBags(bs)[i].der \in CertDer
<1>. DEFINE Of(kind) == {i \in DOMAIN bs : bs[i].kind = kind}
<1>1. DOMAIN bs = 1 .. Len(bs) /\ Len(bs) \in Nat
  BY LenProperties
<1>2. ASSUME NEW kind
      PROVE  /\ Picked(bs, Of(kind)) \in Seq(SafeBag)
             /\ \A k \in DOMAIN Picked(bs, Of(kind)) :
                   Picked(bs, Of(kind))[k] \in SafeBag /\ Picked(bs, Of(kind))[k].kind = kind
  <2>. DEFINE I == Of(kind)
              p == Picked(bs, I)
  <2>1. I \in SUBSET (1 .. Len(bs)) /\ \A i \in I : bs[i].kind = kind
    BY <1>1
  <2>. HIDE DEF I
  <2>2. p \in Seq(SafeBag) /\ \E g : Picks(g, p, bs, I)
    BY <2>1, PickedPlaces
  <2>3. PICK g : Picks(g, p, bs, I)
    BY <2>2
  <2>. HIDE DEF p
  <2>4. DOMAIN p = 1 .. Len(p)
    BY <2>2, LenProperties
  <2>5. ASSUME NEW k \in DOMAIN p PROVE p[k] \in SafeBag /\ p[k].kind = kind
    <3>1. p[k] \in SafeBag
      BY <2>2, <2>4, ElementOfSeq
    <3>2. g[k] \in I /\ p[k] = bs[g[k]]
      BY <2>3, <2>4 DEF Picks
    <3>. QED BY <2>1, <3>1, <3>2
  <2>. QED BY <2>2, <2>5 DEF p, I
<1>3. KeyBags(bs) = Picked(bs, Of("key")) /\ CertBags(bs) = Picked(bs, Of("cert"))
  BY DEF KeyBags, CertBags
<1>4. \A b \in SafeBag : (b.kind = "key" => b.der \in KeyDer) /\ (b.kind = "cert" => b.der \in CertDer)
  BY DEF SafeBag
<1>. HIDE DEF Of
<1>. QED BY <1>2, <1>3, <1>4

\* The containers that are kept.
LEMMA ContainerTypes ==
    ASSUME file \in KeyFile
    PROVE  /\ Containers \in Seq(ContentInfo) /\ DOMAIN Containers = 1 .. Len(Containers) /\ Len(Containers) \in Nat
           /\ \A i \in DOMAIN Containers :
                 /\ Containers[i] \in ContentInfo /\ Containers[i].kind # "absent"
                 /\ Containers[i].lock \in Lock /\ Containers[i].bags \in Seq(SafeBag)
                 /\ \E j \in DOMAIN file.parts : Containers[i] = file.parts[j]
<1>. DEFINE I == {i \in DOMAIN file.parts : file.parts[i].kind # "absent"}
            s == file.parts
<1>1. s \in Seq(ContentInfo)
  BY DEF KeyFile
<1>2. DOMAIN s = 1 .. Len(s)
  <2>. HIDE DEF s
  <2>. QED BY <1>1, LenProperties
<1>3. I \in SUBSET (1 .. Len(s)) /\ \A i \in I : s[i].kind # "absent"
  BY <1>2
<1>4. Containers = Picked(s, I)
  BY DEF Containers
<1>. HIDE DEF I, s
<1>5. Containers \in Seq(ContentInfo)
  BY <1>1, <1>3, <1>4, PickedPlaces
<1>6. PICK g : Picks(g, Containers, s, I)
  BY <1>1, <1>3, <1>4, PickedPlaces
<1>7. DOMAIN Containers = 1 .. Len(Containers) /\ Len(Containers) \in Nat
  BY <1>5, LenProperties
<1>8. ASSUME NEW i \in DOMAIN Containers
      PROVE  /\ Containers[i] \in ContentInfo /\ Containers[i].kind # "absent"
             /\ Containers[i].lock \in Lock /\ Containers[i].bags \in Seq(SafeBag)
             /\ \E j \in DOMAIN file.parts : Containers[i] = file.parts[j]
  <2>1. Containers[i] \in ContentInfo
    BY <1>5, <1>7, ElementOfSeq
  <2>2. g[i] \in I /\ Containers[i] = s[g[i]]
    BY <1>6, <1>7 DEF Picks
  <2>3. Containers[i].kind # "absent"
    BY <1>3, <2>2
  <2>4. g[i] \in DOMAIN file.parts /\ Containers[i] = file.parts[g[i]]
    BY <1>2, <1>3, <2>2 DEF s
  <2>5. Containers[i].lock \in Lock /\ Containers[i].bags \in Seq(SafeBag)
    BY <2>1 DEF ContentInfo
  <2>. QED BY <2>1, <2>3, <2>4, <2>5
<1>. QED BY <1>5, <1>7, <1>8

\* A walk without an error has met only containers in the clear, which are
\* well formed, and encrypted ones.
LEMMA WalkedWell ==
    ASSUME file \in KeyFile
    PROVE  /\ WalkError = "ok" =>
                 \A j \in DOMAIN file.parts :
                     /\ file.parts[j].kind \in {"data", "encrypted", "absent"}
                     /\ file.parts[j].kind = "data" => WellFormed(file.parts[j].bags)
           /\ (\A j \in DOMAIN file.parts : /\ file.parts[j].kind \in {"data", "encrypted", "absent"}
                                            /\ WellFormed(file.parts[j].bags)) => WalkError = "ok"
           /\ WalkError \in {"ok", "unsupported", "malformed"}
<1>. DEFINE s == file.parts
            odd(p) == p.kind = "enveloped" \/ p.kind = "malformed" \/ (p.kind = "data" /\ ~WellFormed(p.bags))
            n == SelectInSeq(s, odd)
<1>1. s \in Seq(ContentInfo)
  BY DEF KeyFile
<1>2. DOMAIN s = 1 .. Len(s) /\ Len(s) \in Nat /\ \A j \in 1 .. Len(s) : s[j] \in ContentInfo
  <2>. HIDE DEF s
  <2>. QED BY <1>1, LenProperties, ElementOfSeq
<1>3. WalkError = IF n = 0 THEN "ok" ELSE IF s[n].kind = "enveloped" THEN "unsupported" ELSE "malformed"
  BY DEF WalkError
<1>. HIDE DEF s
<1>. DEFINE I == {j \in 1 .. Len(s) : odd(s[j])}
<1>0. n = IF I # {} THEN Min(I) ELSE 0
  BY DEF SelectInSeq
<1>4. n = 0 => \A j \in 1 .. Len(s) : ~odd(s[j])
  <2>. SUFFICES ASSUME n = 0, NEW j \in 1 .. Len(s), odd(s[j]) PROVE FALSE
    OBVIOUS
  <2>1. I # {} /\ I \in SUBSET Nat /\ 0 \notin I
    BY <1>2
  <2>. HIDE DEF I, n
  <2>2. n = Min(I) /\ Min(I) \in I
    BY <1>0, <2>1, MinOf
  <2>. QED BY <2>1, <2>2
<1>5. (\A j \in 1 .. Len(s) : ~odd(s[j])) => n = 0
  <2>. HIDE DEF n
  <2>. QED BY <1>0
<1>6. \A c \in ContentInfo : c.kind \in {"data", "encrypted", "absent", "enveloped", "malformed"}
  BY DEF ContentInfo
<1>. HIDE DEF n
<1>7. ASSUME WalkError = "ok", NEW j \in DOMAIN s
      PROVE  s[j].kind \in {"data", "encrypted", "absent"} /\ (s[j].kind = "data" => WellFormed(s[j].bags))
  <2>1. n = 0
    BY <1>3, <1>7
  <2>2. ~odd(s[j]) /\ s[j] \in ContentInfo
    BY <1>2, <1>4, <2>1
  <2>. QED BY <1>6, <2>2
<1>8. ASSUME \A j \in DOMAIN s : s[j].kind \in {"data", "encrypted", "absent"} /\ WellFormed(s[j].bags)
      PROVE  WalkError = "ok"
  <2>1. n = 0
    BY <1>2, <1>5, <1>8
  <2>. QED BY <1>3, <2>1
<1>9. WalkError \in {"ok", "unsupported", "malformed"}
  BY <1>3
<1>. QED BY <1>7, <1>8, <1>9 DEF s

\* The passwords of a request are passwords.
LEMMA GivenTypes ==
    ASSUME Request, Keyed
    PROVE  GivenStore \in Password /\ GivenKey \in Password
<1>1. /\ ask.ksPass \in PasswordSpec /\ ask.keyPass \in PasswordSpec /\ ask.stdin \in Seq(Password)
  BY RequestTypes DEF KeySource
<1>2. <<>> \in Password
  BY DEF Password
<1>3. \A n \in Nat \ {0} : Line(n) \in Password
  <2>. SUFFICES ASSUME NEW n \in Nat \ {0} PROVE Line(n) \in Password
    OBVIOUS
  <2>1. Len(ask.stdin) \in Nat
    BY <1>1, LenProperties
  <2>2. CASE n <= Len(ask.stdin)
    <3>1. n \in 1 .. Len(ask.stdin)
      BY <2>1, <2>2
    <3>2. ask.stdin[n] \in Password
      BY <1>1, <3>1, ElementOfSeq
    <3>. QED BY <2>2, <3>2 DEF Line
  <2>3. CASE ~(n <= Len(ask.stdin))
    BY <1>2, <2>3 DEF Line
  <2>. QED BY <2>2, <2>3
<1>4. /\ ask.ksPass.pw \in Password /\ ask.ksPass.from \in {"stdin", "value"}
      /\ ask.keyPass.pw \in Password /\ ask.keyPass.from \in {"absent", "stdin", "value"}
  BY <1>1 DEF PasswordSpec, Keyed, Given
<1>5. Line(1) \in Password /\ Line(2) \in Password
  BY <1>3
<1>6. GivenStore \in Password
  BY <1>4, <1>5 DEF GivenStore
<1>7. GivenKey \in Password
  BY <1>4, <1>5, <1>6 DEF GivenKey
<1>. QED BY <1>6, <1>7

\* The loop that joins sequences.
LEMMA FlatSteps ==
    ASSUME NEW S, NEW ss \in Seq(Seq(S))
    PROVE  /\ FlatTo(ss) \in [0 .. Len(ss) -> Seq(S)] /\ FlatTo(ss)[0] = <<>>
           /\ \A n \in 1 .. Len(ss) : FlatTo(ss)[n] = FlatTo(ss)[n - 1] \o ss[n]
           /\ Flattened(ss) = FlatTo(ss)[Len(ss)]
<1>. DEFINE m == Len(ss)
            T == Seq(S)
            step == [n \in 1 .. m |-> [x \in T |-> x \o ss[n]]]
            Is(f) == f = [n \in 0 .. m |-> IF n = 0 THEN <<>> ELSE f[n - 1] \o ss[n]]
            upto == CHOOSE f : Is(f)
<1>1. m \in Nat /\ \A n \in 1 .. m : ss[n] \in T
  BY LenProperties, ElementOfSeq
<1>2. step \in [1 .. m -> [T -> T]]
  <2>1. ASSUME NEW n \in 1 .. m, NEW x \in T PROVE x \o ss[n] \in T
    BY <1>1, ConcatProperties
  <2>. HIDE DEF m, T
  <2>. QED BY <2>1
<1>3. PICK f \in [0 .. m -> T] : f[0] = <<>> /\ \A n \in 1 .. m : f[n] = step[n][f[n - 1]]
  <2>. DEFINE none == <<>>
  <2>1. none \in T
    BY EmptySeq
  <2>. HIDE DEF m, T, step, none
  <2>2. PICK f : IsLoop(f, T, none, m, step)
    BY <1>1, <1>2, <2>1, Loop, Zenon
  <2>. QED BY <2>2 DEF none, IsLoop
<1>4. \A n \in 1 .. m : f[n] = f[n - 1] \o ss[n]
  <2>. SUFFICES ASSUME NEW n \in 1 .. m PROVE f[n] = f[n - 1] \o ss[n]
    OBVIOUS
  <2>. HIDE DEF m, T
  <2>1. n - 1 \in 0 .. m
    BY <1>1
  <2>2. f[n - 1] \in T
    BY <2>1
  <2>3. step[n][f[n - 1]] = f[n - 1] \o ss[n]
    BY <2>2
  <2>. QED BY <1>3, <2>3
<1>5. Is(f)
  <2>1. ASSUME NEW n \in 0 .. m PROVE f[n] = IF n = 0 THEN <<>> ELSE f[n - 1] \o ss[n]
    <3>1. CASE n = 0
      BY <1>3, <3>1
    <3>2. CASE n # 0
      <4>1. n \in 1 .. m
        BY <1>1, <3>2
      <4>. QED BY <1>4, <3>2, <4>1
    <3>. QED BY <3>1, <3>2
  <2>. HIDE DEF m
  <2>. QED BY <2>1
<1>6. Is(upto)
  BY <1>5
<1>7. FlatTo(ss) = upto /\ Flattened(ss) = upto[m]
  BY DEF FlatTo, Flattened
<1>. DEFINE U == {n \in 0 .. m : upto[n] = f[n]}
<1>8. 0 \in U
  <2>1. upto[0] = <<>> /\ 0 \in 0 .. m
    <3>. HIDE DEF upto, m
    <3>. QED BY <1>1, <1>6
  <2>. HIDE DEF upto, m
  <2>. QED BY <1>3, <2>1
<1>9. ASSUME NEW n \in 0 .. m - 1, n \in U PROVE n + 1 \in U
  <2>. HIDE DEF upto, m
  <2>1. n + 1 \in 1 .. m /\ n + 1 \in 0 .. m /\ n + 1 # 0 /\ (n + 1) - 1 = n /\ upto[n] = f[n]
    BY <1>1, <1>9
  <2>2. upto[n + 1] = upto[n] \o ss[n + 1]
    BY <1>6, <2>1
  <2>3. f[n + 1] = f[n] \o ss[n + 1]
    BY <1>4, <2>1
  <2>. QED BY <2>1, <2>2, <2>3
<1>10. upto = f
  <2>. HIDE DEF upto, m, U
  <2>1. 0 .. m \subseteq U
    BY <1>1, <1>8, <1>9, UpTo, Zenon
  <2>2. \A n \in 0 .. m : upto[n] = f[n]
    BY <2>1 DEF U
  <2>3. upto = [n \in 0 .. m |-> upto[n]]
    BY <1>6
  <2>. HIDE DEF Is, T
  <2>. QED BY <2>2, <2>3
<1>. HIDE DEF upto, step, Is
<1>. QED BY <1>3, <1>4, <1>7, <1>10

\* A container's text is what its thread has decrypted.
LEMMA TextIs ==
    ASSUME file \in KeyFile, luck \in {"pad", "noise", "empty"}, storePw \in Password,
           WalkError = "ok", Derived, NEW i \in 1 .. Len(Containers)
    PROVE  Text(i) = Deciphered(i)
<1>. DEFINE c == Containers[i]
            t == <<"part", i>>
            r == Pbes2Decrypt(c.lock, c.bags, storePw)
<1>1. i \in DOMAIN Containers /\ c.lock \in Lock /\ c.kind # "absent" /\ \E j \in DOMAIN file.parts : c = file.parts[j]
  BY ContainerTypes
<1>2. c.kind \in {"data", "encrypted"}
  BY <1>1, WalkedWell
<1>3. CASE c.kind = "data"
  BY <1>3 DEF Text, Deciphered
<1>4. CASE c.kind = "encrypted"
  <2>1. t \in DeriveThreads
    <3>1. i \in {k \in DOMAIN Containers : Containers[k].kind = "encrypted"}
      BY <1>1, <1>4
    <3>. QED BY <3>1 DEF DeriveThreads
  <2>2. out[t] = Outcome(t)
    BY <2>1 DEF Derived
  <2>3. Outcome(t) = r
    <3>1. t[1] = "part" /\ t[2] = i
      OBVIOUS
    <3>. HIDE DEF t
    <3>. QED BY <3>1 DEF Outcome
  <2>4. r = IF ~c.lock.supported THEN Err("unsupported")
            ELSE IF storePw = c.lock.pw THEN Ok(c.bags) ELSE Err(luck)
    <3>. DEFINE lock == c.lock
                plain == c.bags
    <3>1. lock \in Lock
      BY <1>1
    <3>. HIDE DEF lock, plain
    <3>2. Pbes2Decrypt(lock, plain, storePw) = IF ~lock.supported THEN Err("unsupported")
              ELSE IF storePw = lock.pw THEN Ok(plain) ELSE Err(luck)
      BY <3>1, DecryptVerdict
    <3>. QED BY <3>2 DEF lock, plain
  <2>5. Text(i) = CASE r.err = "pad" -> Err("store password")
                    [] r.err = "noise" -> Err("malformed")
                    [] r.err = "empty" -> Ok(<<>>)
                    [] r.err \in {"ok", "unsupported"} -> r
    BY <1>4, <2>2, <2>3 DEF Text
  <2>. HIDE DEF r, t
  <2>6. Deciphered(i) =
          IF c.lock.supported /\ c.lock.pw = storePw THEN Ok(c.bags)
          ELSE IF ~c.lock.supported THEN Err("unsupported")
          ELSE IF luck = "pad" THEN Err("store password")
          ELSE IF luck = "noise" THEN Err("malformed") ELSE Ok(<<>>)
    BY <1>4 DEF Deciphered
  <2>. HIDE DEF c
  <2>7. CASE ~c.lock.supported
    BY <2>4, <2>5, <2>6, <2>7 DEF Ok, Err
  <2>8. CASE c.lock.supported /\ c.lock.pw = storePw
    BY <2>4, <2>5, <2>6, <2>8 DEF Ok, Err
  <2>9. CASE c.lock.supported /\ c.lock.pw # storePw
    BY <2>4, <2>5, <2>6, <2>9 DEF Ok, Err
  <2>. QED BY <1>1, <2>7, <2>8, <2>9
<1>. QED BY <1>2, <1>3, <1>4

\* The bags of a container, as far as they are collected.
LEMMA GatheredBags ==
    ASSUME file \in KeyFile
    PROVE  /\ Texts \in Seq(Seq(SafeBag)) /\ Len(Texts) = Len(Containers) /\ Len(Containers) \in Nat
           /\ FlatTo(Texts) \in [0 .. Len(Containers) -> Seq(SafeBag)] /\ FlatTo(Texts)[0] = <<>>
           /\ \A n \in 1 .. Len(Containers) : FlatTo(Texts)[n] = FlatTo(Texts)[n - 1] \o Deciphered(n).value
           /\ Flattened(Texts) = FlatTo(Texts)[Len(Containers)]
<1>1. Len(Containers) \in Nat /\ \A i \in 1 .. Len(Containers) : Containers[i].bags \in Seq(SafeBag)
  BY ContainerTypes
<1>2. ASSUME NEW i \in 1 .. Len(Containers) PROVE Deciphered(i).value \in Seq(SafeBag)
  <2>1. Containers[i].bags \in Seq(SafeBag) /\ <<>> \in Seq(SafeBag)
    BY <1>1, EmptySeq
  <2>2. Deciphered(i).value \in {Containers[i].bags, <<>>}
    BY DEF Deciphered, Ok, Err
  <2>. QED BY <2>1, <2>2
<1>. DEFINE T == Seq(SafeBag)
            n == Len(Containers)
<1>3. Texts \in Seq(Seq(SafeBag)) /\ Len(Texts) = Len(Containers)
  <2>1. \A i \in 1 .. n : Deciphered(i).value \in T
    BY <1>2
  <2>2. Texts = [i \in 1 .. n |-> Deciphered(i).value]
    BY DEF Texts
  <2>3. n \in Nat
    BY <1>1
  <2>. HIDE DEF T, n
  <2>4. Texts \in Seq(T) /\ Len(Texts) = n
    BY <2>1, <2>2, <2>3
  <2>. QED BY <2>4 DEF T, n
<1>4. \A i \in 1 .. Len(Containers) : Texts[i] = Deciphered(i).value
  BY DEF Texts
<1>. DEFINE m == Len(Texts)
<1>5. /\ FlatTo(Texts) \in [0 .. m -> T] /\ FlatTo(Texts)[0] = <<>>
      /\ \A k \in 1 .. m : FlatTo(Texts)[k] = FlatTo(Texts)[k - 1] \o Texts[k]
      /\ Flattened(Texts) = FlatTo(Texts)[m]
  BY <1>3, FlatSteps
<1>6. \A k \in 1 .. Len(Containers) : FlatTo(Texts)[k] = FlatTo(Texts)[k - 1] \o Deciphered(k).value
  <2>. SUFFICES ASSUME NEW k \in 1 .. Len(Containers)
                PROVE  FlatTo(Texts)[k] = FlatTo(Texts)[k - 1] \o Deciphered(k).value
    OBVIOUS
  <2>1. Texts[k] = Deciphered(k).value /\ k \in 1 .. m
    BY <1>3, <1>4
  <2>. HIDE DEF m, n, T
  <2>. QED BY <1>5, <2>1
<1>. QED BY <1>1, <1>3, <1>5, <1>6

-----------------------------------------------------------------------------
(* The steps of the loading thread and of the others.                      *)

\* The files and the passwords.
SameFiles == ask' = ask /\ file' = file /\ luck' = luck /\ ext' = ext
SamePasswords == storePw' = storePw /\ keyPw' = keyPw

\* What depends on the request and the files alone.
LEMMA FilesStay ==
    ASSUME SameFiles
    PROVE  /\ Request' = Request /\ Given' = Given /\ Keyed' = Keyed /\ GivenStore' = GivenStore
           /\ GivenKey' = GivenKey /\ Containers' = Containers /\ PlainKeys' = PlainKeys
           /\ MacThread' = MacThread /\ DeriveThreads' = DeriveThreads /\ WalkError' = WalkError
           /\ Pkcs12' = Pkcs12 /\ JksKeys' = JksKeys
<1>1. Request' = Request
  BY DEF SameFiles, Request
<1>2. Given' = Given /\ Keyed' = Keyed
  BY DEF SameFiles, Given, Keyed
<1>3. GivenStore' = GivenStore /\ GivenKey' = GivenKey
  BY DEF SameFiles, GivenStore, GivenKey, Line
<1>4. Containers' = Containers
  BY DEF SameFiles, Containers
<1>5. PlainKeys' = PlainKeys
  BY <1>4 DEF PlainKeys
<1>6. MacThread' = MacThread
  BY DEF SameFiles, MacThread
<1>7. DeriveThreads' = DeriveThreads
  BY <1>4, <1>5 DEF SameFiles, DeriveThreads, Wanted
<1>8. WalkError' = WalkError
  BY DEF SameFiles, WalkError, SelectInSeq
<1>9. Pkcs12' = Pkcs12
  BY <1>2 DEF SameFiles, Pkcs12
<1>10. JksKeys' = JksKeys
  BY DEF SameFiles, JksKeys
<1>. QED BY <1>1, <1>2, <1>3, <1>4, <1>5, <1>6, <1>7, <1>8, <1>9, <1>10

\* What depends on the passwords, too.
LEMMA PasswordsStay ==
    ASSUME SameFiles, SamePasswords
    PROVE  /\ VerifyMac(storePw)' = VerifyMac(storePw) /\ MacPasses' = MacPasses /\ OpenedStore' = OpenedStore
           /\ \A der : RecoverKey(der, keyPw)' = RecoverKey(der, keyPw)
           /\ \A t : Outcome(t)' = Outcome(t)
           /\ \A i : Deciphered(i)' = Deciphered(i) /\ Readable(i)' = Readable(i)
           /\ Texts' = Texts
<1>0. storePw' = storePw /\ keyPw' = keyPw /\ Containers' = Containers /\ PlainKeys' = PlainKeys /\ Pkcs12' = Pkcs12
      /\ WalkError' = WalkError
  BY FilesStay DEF SamePasswords
<1>1. VerifyMac(storePw)' = VerifyMac(storePw)
  BY <1>0 DEF SameFiles, VerifyMac, Pkcs12Kdf
<1>2. MacPasses' = MacPasses
  BY <1>1 DEF SameFiles, MacPasses
<1>3. OpenedStore' = OpenedStore
  BY <1>0, <1>2 DEF OpenedStore
<1>4. ASSUME NEW lock, NEW plain, NEW pw
      PROVE  Pbes2Decrypt(lock, plain, pw)' = Pbes2Decrypt(lock, plain, pw)
  BY DEF SameFiles, Pbes2Decrypt
<1>5. \A der : RecoverKey(der, keyPw)' = RecoverKey(der, keyPw)
  BY <1>0, <1>4 DEF RecoverKey
<1>6. ASSUME NEW t PROVE Outcome(t)' = Outcome(t)
  BY <1>0, <1>1, <1>4, <1>5 DEF Outcome
<1>7. ASSUME NEW i PROVE Deciphered(i)' = Deciphered(i) /\ Readable(i)' = Readable(i)
  BY <1>0 DEF Deciphered, Readable, SameFiles
<1>8. Texts' = Texts
  BY <1>0, <1>7 DEF Texts
<1>. QED BY <1>1, <1>2, <1>3, <1>5, <1>6, <1>7, <1>8

\* What depends on the bags, too.
LEMMA BagsStay ==
    ASSUME SameFiles, SamePasswords, part' = part, bags' = bags
    PROVE  /\ Gathering' = Gathering /\ Keys' = Keys /\ Certs' = Certs /\ AllNamed' = AllNamed
           /\ \A k : LeafAt(k)' = LeafAt(k) /\ ChainAt(k)' = ChainAt(k)
           /\ \A e, k : Fits(e, k)' = Fits(e, k)
<1>0. Containers' = Containers
  BY FilesStay
<1>1. Gathering' = Gathering
  BY <1>0, PasswordsStay DEF Gathering
<1>2. Keys' = Keys /\ Certs' = Certs
  BY DEF Keys, Certs
<1>3. AllNamed' = AllNamed
  BY <1>2 DEF AllNamed
<1>4. ASSUME NEW k PROVE LeafAt(k)' = LeafAt(k) /\ ChainAt(k)' = ChainAt(k)
  BY <1>2 DEF LeafAt, ChainAt
<1>5. ASSUME NEW e, NEW k PROVE Fits(e, k)' = Fits(e, k)
  BY <1>2, <1>3, <1>4, PasswordsStay DEF Fits
<1>. QED BY <1>1, <1>2, <1>3, <1>4, <1>5

\* What depends on the entries, too.
LEMMA EntriesStay ==
    ASSUME SameFiles, SamePasswords, part' = part, bags' = bags, entries' = entries
    PROVE  /\ Listing' = Listing /\ JksListed' = JksListed /\ Listed' = Listed
           /\ \A n : Selected(n)' = Selected(n)
<1>0. Containers' = Containers /\ Keyed' = Keyed /\ JksKeys' = JksKeys
  BY FilesStay
<1>1. Listing' = Listing
  BY <1>0, BagsStay DEF Listing
<1>2. JksListed' = JksListed
  BY <1>0 DEF JksListed, JksEntries, SameFiles, SamePasswords
<1>3. Listed' = Listed
  BY <1>0, <1>1, <1>2, BagsStay DEF Listed
<1>4. ASSUME NEW n PROVE Selected(n)' = Selected(n)
  BY DEF Selected, SameFiles
<1>. QED BY <1>1, <1>2, <1>3, <1>4

\* What depends on the chosen entry, too.
LEMMA ChosenStays ==
    ASSUME SameFiles, SamePasswords, part' = part, bags' = bags, entries' = entries, chosen' = chosen
    PROVE  Chose' = Chose /\ Recovery' = Recovery /\ Usable' = Usable
<1>1. Chose' = Chose
  BY EntriesStay DEF Chose
<1>2. Recovery' = Recovery
  <2>1. RecoverKey(chosen.der, keyPw)' = RecoverKey(chosen.der, keyPw)
    <3>. DEFINE der == chosen.der
    <3>1. der' = der
      OBVIOUS
    <3>. QED BY <3>1, PasswordsStay DEF RecoverKey, Pbes2Decrypt, SameFiles, SamePasswords
  <2>. QED BY <2>1 DEF Recovery, SameFiles, SamePasswords
<1>3. Usable' = Usable
  BY <1>1, <1>2 DEF Usable
<1>. QED BY <1>1, <1>2, <1>3

\* What depends on the signer, too.
LEMMA SignerStays ==
    ASSUME SameFiles, SamePasswords, part' = part, bags' = bags, entries' = entries, chosen' = chosen,
           signer' = signer
    PROVE  Made' = Made /\ Matches' = Matches
BY ChosenStays DEF Made, Matches

\* The invariant at the start.
LEMMA LoadStarts == LoadInit => LoadInv
<1>. SUFFICES ASSUME LoadInit PROVE LoadInv
  OBVIOUS
<1>1. Request /\ stage = "password" /\ Fresh /\ DOMAIN out = {} /\ verdict = "none"
  BY DEF LoadInit, Request, Fresh
<1>2. signer = NoSigner
  BY DEF LoadInit
<1>. QED BY <1>1, <1>2 DEF LoadInv, Where

\* What no step but the first and those of the threads disturbs.
LEMMA Carried ==
    ASSUME LoadInv, SameFiles, SamePasswords, stage # "password"
    PROVE  Request' /\ (Keyed' => storePw' = GivenStore' /\ keyPw' = GivenKey')
BY FilesStay DEF LoadInv, SamePasswords

\* Nor the results of the threads.
LEMMA ThreadsStay ==
    ASSUME LoadInv, SameFiles, SamePasswords, out' = out
    PROVE  (\A t \in DOMAIN out : out[t] \in {Running, Outcome(t)})'
BY PasswordsStay DEF LoadInv, Running, Err

\* A step of the loading thread that makes no signer.
LEMMA Settled ==
    ASSUME LoadInv, SameFiles, SamePasswords, out' = out, signer' = signer,
           stage \notin {"password", "sign", "done"}, stage' # "done" => verdict' = "none", Where'
    PROVE  LoadInv'
<1>1. signer = NoSigner
  BY DEF LoadInv
<1>2. signer' = NoSigner'
  BY <1>1 DEF NoSigner
<1>. QED BY <1>2, Carried, ThreadsStay DEF LoadInv

\* The passwords are the ones the request gives, in the order of stdin.
LEMMA GetPasswordsStep == ASSUME LoadInv, GetPasswords PROVE LoadInv'
<1>0. /\ stage = "password" /\ SameFiles /\ out' = out /\ signer' = signer /\ part' = part
      /\ bags' = bags /\ entries' = entries
  BY DEF GetPasswords, SameFiles, fixed, collected
<1>1. Fresh /\ DOMAIN out = {} /\ verdict = "none" /\ signer = NoSigner /\ Request
  BY <1>0 DEF LoadInv, Where
<1>2. (\A t \in DOMAIN out : out[t] \in {Running, Outcome(t)})'
  BY <1>0, <1>1
<1>3. Request' /\ Fresh' /\ signer' = NoSigner'
  BY <1>0, <1>1, FilesStay DEF Fresh, NoSigner
<1>4. ask \in KeySource
  BY <1>1, RequestTypes
<1>5. CASE ask.source = "files"
  <2>1. stage' = "files" /\ verdict' = verdict
    BY <1>0, <1>5 DEF GetPasswords, Goto
  <2>2. ~Keyed' /\ ask'.source = "files"
    BY <1>0, <1>5, FilesStay DEF Keyed, SameFiles
  <2>3. Where'
    BY <1>0, <1>1, <2>1, <2>2 DEF Where
  <2>. QED BY <1>1, <1>2, <1>3, <2>1, <2>2, <2>3 DEF LoadInv
<1>6. CASE ask.source = "ks" /\ ~Given
  <2>1. stage' = "done" /\ verdict' = "no password"
    BY <1>0, <1>6 DEF GetPasswords, Conclude, Given
  <2>2. ~Keyed' /\ ~Given' /\ ask'.source = "ks"
    BY <1>0, <1>6, FilesStay DEF Keyed, SameFiles
  <2>3. Where'
    BY <2>1, <2>2 DEF Where, Told
  <2>. QED BY <1>2, <1>3, <2>1, <2>2, <2>3 DEF LoadInv
<1>7. CASE ask.source = "ks" /\ Given
  <2>1. /\ stage' = "read" /\ verdict' = verdict
        /\ storePw' = Passwords(ask.stdin).store /\ keyPw' = Passwords(ask.stdin).key
    BY <1>0, <1>7 DEF GetPasswords, Goto, Given
  <2>2. Keyed' /\ GivenStore' = GivenStore /\ GivenKey' = GivenKey
    BY <1>0, <1>7, FilesStay DEF Keyed
  <2>3. Passwords(ask.stdin).store = GivenStore /\ Passwords(ask.stdin).key = GivenKey
    <3>. DEFINE lines == ask.stdin
    <3>1. ask.ksPass \in PasswordSpec /\ ask.keyPass \in PasswordSpec /\ lines \in Seq(Password)
      BY <1>4 DEF KeySource
    <3>. HIDE DEF lines
    <3>2. Len(lines) \in Nat /\ (lines = <<>> <=> Len(lines) = 0)
      BY <3>1, LenProperties, EmptySeq
    <3>3. /\ Line(1) = IF lines = <<>> THEN <<>> ELSE Head(lines)
          /\ Line(1) = IF lines # <<>> THEN Head(lines) ELSE <<>>
      BY <3>1, <3>2 DEF Line, lines
    <3>4. ask.ksPass.from \in {"stdin", "value"} /\ ask.keyPass.from \in {"absent", "stdin", "value"}
      BY <1>7, <3>1 DEF PasswordSpec, Given
    <3>5. Resolve(ask.ksPass, lines) = GivenStore
      BY <3>3, <3>4 DEF Resolve, GivenStore
    <3>6. CASE ask.keyPass.from = "absent"
      BY <3>5, <3>6 DEF Passwords, GivenKey, lines
    <3>7. CASE ask.keyPass.from = "value"
      BY <3>5, <3>7 DEF Passwords, GivenKey, lines, Resolve
    <3>8. CASE ask.keyPass.from = "stdin" /\ ask.ksPass.from = "value"
      BY <3>3, <3>5, <3>8 DEF Passwords, GivenKey, lines, Resolve, Rest
    <3>9. CASE ask.keyPass.from = "stdin" /\ ask.ksPass.from = "stdin"
      <4>1. CASE lines = <<>>
        <5>1. Line(2) = <<>>
          BY <3>2, <4>1 DEF Line, lines
        <5>. QED BY <3>5, <3>9, <4>1, <5>1 DEF Passwords, GivenKey, lines, Resolve, Rest
      <4>2. CASE lines # <<>>
        <5>1. /\ Tail(lines) \in Seq(Password) /\ Len(Tail(lines)) = Len(lines) - 1
              /\ \A i \in 1 .. Len(Tail(lines)) : Tail(lines)[i] = lines[i + 1]
          BY <3>1, <4>2, HeadTailProperties
        <5>2. Tail(lines) = <<>> <=> Len(Tail(lines)) = 0
          <6>1. \A q \in Seq(Password) : q = <<>> <=> Len(q) = 0
            BY EmptySeq
          <6>. QED BY <5>1, <6>1, Zenon
        <5>3. Line(2) = IF Tail(lines) = <<>> THEN <<>> ELSE Head(Tail(lines))
          <6>1. CASE Len(lines) = 1
            <7>1. Tail(lines) = <<>>
              BY <5>1, <5>2, <6>1
            <7>. QED BY <6>1, <7>1 DEF Line, lines
          <6>2. CASE Len(lines) # 1
            <7>1. Tail(lines) # <<>> /\ 1 \in 1 .. Len(Tail(lines)) /\ 2 <= Len(lines)
              BY <3>2, <4>2, <5>1, <5>2, <6>2
            <7>2. Head(Tail(lines)) = lines[2]
              BY <5>1, <7>1
            <7>. QED BY <7>1, <7>2 DEF Line, lines
          <6>. QED BY <6>1, <6>2
        <5>. QED BY <3>5, <3>9, <4>2, <5>3 DEF Passwords, GivenKey, lines, Resolve, Rest
      <4>. QED BY <4>1, <4>2
    <3>. QED BY <3>4, <3>6, <3>7, <3>8, <3>9
  <2>4. Where'
    BY <1>0, <1>1, <1>3, <2>1, <2>2 DEF Where
  <2>. QED BY <1>1, <1>2, <1>3, <2>1, <2>2, <2>3, <2>4 DEF LoadInv
<1>8. ask.source \in {"ks", "files"}
  BY <1>4 DEF KeySource
<1>. QED BY <1>5, <1>6, <1>7, <1>8

\* What is told depends on neither the threads nor the stage.
LEMMA TellingStays ==
    ASSUME SameFiles, SamePasswords, part' = part, bags' = bags, entries' = entries, chosen' = chosen,
           signer' = signer, verdict' = verdict
    PROVE  Told' = Told
<1>1. Unreadable' = Unreadable
  BY DEF Unreadable, SameFiles
<1>2. Keyed' = Keyed /\ Given' = Given /\ Pkcs12' = Pkcs12 /\ WalkError' = WalkError /\ Containers' = Containers
  BY FilesStay
<1>3. Rejected' = Rejected
  <2>1. /\ MacPasses' = MacPasses /\ VerifyMac(storePw)' = VerifyMac(storePw) /\ OpenedStore' = OpenedStore
        /\ \A i : Readable(i)' = Readable(i) /\ Deciphered(i)' = Deciphered(i)
    BY PasswordsStay
  <2>2. Keys' = Keys /\ AllNamed' = AllNamed /\ Listing' = Listing /\ \A k : LeafAt(k)' = LeafAt(k)
    BY BagsStay, EntriesStay
  <2>. QED BY <1>2, <2>1, <2>2 DEF Rejected, SamePasswords, SameFiles
<1>4. Refused' = Refused
  <2>1. Listed' = Listed /\ \A n : Selected(n)' = Selected(n)
    BY EntriesStay
  <2>2. Chose' = Chose /\ Recovery' = Recovery /\ Usable' = Usable
    BY ChosenStays
  <2>. QED BY <2>1, <2>2 DEF Refused
<1>5. Made' = Made /\ Matches' = Matches
  BY SignerStays
<1>. QED BY <1>1, <1>2, <1>3, <1>4, <1>5 DEF Told, SameFiles

\* The thread that verifies the MAC is started before the walk.
LEMMA ReadStoreStep == ASSUME LoadInv, ReadStore PROVE LoadInv'
<1>0. /\ stage = "read" /\ SameFiles /\ SamePasswords /\ signer' = signer /\ part' = part
      /\ bags' = bags /\ entries' = entries
  BY DEF ReadStore, SameFiles, SamePasswords, fixed, pwds, collected
<1>1. Keyed /\ Fresh /\ DOMAIN out = {} /\ verdict = "none" /\ signer = NoSigner /\ Request
  BY <1>0 DEF LoadInv, Where
<1>2. Keyed' /\ Fresh' /\ file' = file
  BY <1>0, <1>1, FilesStay DEF Fresh, SameFiles
<1>3. file.kind \in {"pkcs12", "jks", "jceks", "unknown", "unreadable"}
  BY <1>1, RequestTypes DEF KeyFile, Keyed
<1>4. CASE file.kind = "unreadable"
  <2>1. stage' = "done" /\ verdict' = "io" /\ out' = out
    BY <1>0, <1>4 DEF ReadStore, Conclude
  <2>2. Where'
    BY <1>2, <1>4, <2>1 DEF Where, Told, Unreadable
  <2>. QED BY <1>0, <2>1, <2>2, Settled
<1>5. CASE file.kind = "pkcs12" /\ ~file.wellFormed
  <2>1. stage' = "done" /\ verdict' = "malformed" /\ out' = out
    BY <1>0, <1>5 DEF ReadStore, Conclude
  <2>2. Where'
    BY <1>2, <1>5, <2>1 DEF Where, Told, Unreadable
  <2>. QED BY <1>0, <2>1, <2>2, Settled
<1>6. CASE file.kind = "pkcs12" /\ file.wellFormed
  <2>1. stage' = "walk" /\ verdict' = verdict /\ out' = [t \in MacThread |-> Running]
    BY <1>0, <1>6 DEF ReadStore, Goto
  <2>2. Pkcs12' /\ MacThread' = MacThread
    BY <1>0, <1>1, <1>6, FilesStay DEF Pkcs12
  <2>3. (\A t \in DOMAIN out : out[t] \in {Running, Outcome(t)})'
    BY <2>1 DEF Running, Err
  <2>4. Where'
    BY <1>2, <2>1, <2>2 DEF Where
  <2>5. signer' = NoSigner' /\ verdict' = "none"
    BY <1>0, <1>1, <2>1 DEF NoSigner
  <2>. QED BY <1>0, <2>1, <2>3, <2>4, <2>5, Carried DEF LoadInv
<1>7. CASE file.kind \in {"jks", "jceks", "unknown"}
  <2>1. stage' = "jks" /\ verdict' = verdict /\ out' = out
    BY <1>0, <1>7 DEF ReadStore, Goto
  <2>2. Where'
    BY <1>1, <1>2, <1>7, <2>1 DEF Where
  <2>. QED BY <1>0, <1>1, <2>1, <2>2, Settled
<1>. QED BY <1>3, <1>4, <1>5, <1>6, <1>7

\* The walk leaves its error, or starts the other threads.
LEMMA WalkStep == ASSUME LoadInv, Walk PROVE LoadInv'
<1>0. /\ stage = "walk" /\ SameFiles /\ SamePasswords /\ signer' = signer /\ part' = part
      /\ bags' = bags /\ entries' = entries /\ walkErr' = WalkError
  BY DEF Walk, SameFiles, SamePasswords, fixed, pwds, collected
<1>1. Pkcs12 /\ Fresh /\ DOMAIN out = MacThread /\ verdict = "none" /\ signer = NoSigner
  BY <1>0 DEF LoadInv, Where
<1>2. /\ Pkcs12' /\ Fresh' /\ MacThread' = MacThread /\ DeriveThreads' = DeriveThreads
      /\ WalkError' = WalkError
  BY <1>0, <1>1, FilesStay DEF Fresh
<1>3. CASE WalkError = "ok"
  <2>1. /\ stage' = "join" /\ verdict' = verdict
        /\ out' = [t \in DOMAIN out \cup DeriveThreads |-> IF t \in DOMAIN out THEN out[t] ELSE Running]
    BY <1>0, <1>3 DEF Walk, Goto
  <2>2. DOMAIN out' = MacThread \cup DeriveThreads
    BY <1>1, <2>1
  <2>3. (\A t \in DOMAIN out : out[t] \in {Running, Outcome(t)})'
    <3>1. ASSUME NEW t \in DOMAIN out' PROVE out'[t] \in {Running, Outcome(t)}
      BY <2>1 DEF LoadInv
    <3>. QED BY <1>0, <3>1, PasswordsStay DEF Running, Err
  <2>4. Where'
    BY <1>0, <1>2, <1>3, <2>1, <2>2 DEF Where
  <2>5. signer' = NoSigner' /\ verdict' = "none"
    BY <1>0, <1>1, <2>1 DEF NoSigner
  <2>. QED BY <1>0, <2>1, <2>3, <2>4, <2>5, Carried DEF LoadInv
<1>4. CASE WalkError # "ok"
  <2>1. stage' = "mac" /\ verdict' = verdict /\ out' = out
    BY <1>0, <1>4 DEF Walk, Goto
  <2>2. Where'
    BY <1>0, <1>1, <1>2, <1>4, <2>1 DEF Where
  <2>. QED BY <1>0, <1>1, <2>1, <2>2, Settled
<1>. QED BY <1>3, <1>4

\* Once joined, every thread has left its outcome.
LEMMA JoinThreadsStep == ASSUME LoadInv, JoinThreads PROVE LoadInv'
<1>0. /\ stage = "join" /\ SameFiles /\ SamePasswords /\ signer' = signer /\ part' = part
      /\ bags' = bags /\ entries' = entries /\ walkErr' = walkErr /\ out' = out
      /\ stage' = "mac" /\ verdict' = verdict
  BY DEF JoinThreads, SameFiles, SamePasswords, fixed, pwds, collected, Goto
<1>1. /\ Pkcs12 /\ Fresh /\ walkErr = "ok" /\ WalkError = "ok" /\ verdict = "none"
      /\ DOMAIN out = MacThread \cup DeriveThreads
  BY <1>0 DEF LoadInv, Where
<1>2. Derived
  <2>1. ASSUME NEW t \in DeriveThreads PROVE out[t] = Outcome(t)
    <3>1. out[t].err # "running"
      BY DEF JoinThreads, Ended
    <3>2. out[t] \in {Running, Outcome(t)}
      BY <1>1 DEF LoadInv
    <3>. QED BY <3>1, <3>2 DEF Running, Err
  <2>. QED BY <1>1, <2>1 DEF Derived
<1>3. /\ Pkcs12' /\ Fresh' /\ MacThread' = MacThread /\ DeriveThreads' = DeriveThreads /\ WalkError' = WalkError
  BY <1>0, <1>1, FilesStay DEF Fresh
<1>4. Derived'
  BY <1>0, <1>2, <1>3, PasswordsStay DEF Derived
<1>5. Where'
  BY <1>0, <1>1, <1>3, <1>4 DEF Where
<1>. QED BY <1>0, <1>1, <1>5, Settled

\* A thread ends with its outcome.
LEMMA DeriveStep ==
    ASSUME LoadInv, NEW t \in DOMAIN out, Derive(t)
    PROVE  LoadInv'
<1>0. /\ SameFiles /\ SamePasswords /\ signer' = signer /\ part' = part /\ bags' = bags
      /\ entries' = entries /\ chosen' = chosen /\ walkErr' = walkErr /\ stage' = stage /\ verdict' = verdict
      /\ out' = [out EXCEPT ![t] = Outcome(t)]
  BY DEF Derive, SameFiles, SamePasswords, fixed, pwds, collected, result, Outcome
<1>1. DOMAIN out' = DOMAIN out /\ \A u \in DOMAIN out : out'[u] \in {out[u], Outcome(u)}
  BY <1>0
<1>2. (\A u \in DOMAIN out : out[u] \in {Running, Outcome(u)})'
  <2>1. ASSUME NEW u \in DOMAIN out' PROVE out'[u] \in {Running, Outcome(u)}
    BY <1>1 DEF LoadInv
  <2>. QED BY <1>0, <2>1, PasswordsStay DEF Running, Err
<1>3. /\ Keyed' = Keyed /\ Pkcs12' = Pkcs12 /\ MacThread' = MacThread /\ DeriveThreads' = DeriveThreads
      /\ WalkError' = WalkError /\ Fresh' = Fresh /\ file' = file /\ ask' = ask /\ Given' = Given
      /\ Request' = Request /\ GivenStore' = GivenStore /\ GivenKey' = GivenKey
  BY <1>0, FilesStay DEF Fresh, SameFiles
<1>4. Derived => Derived'
  <2>. SUFFICES ASSUME Derived PROVE Derived'
    OBVIOUS
  <2>1. ASSUME NEW u \in DeriveThreads PROVE out'[u] = Outcome(u)
    BY <1>1 DEF Derived
  <2>. QED BY <1>0, <1>1, <1>3, <2>1, PasswordsStay DEF Derived
<1>5. Listing' = Listing /\ Listed' = Listed /\ Chose' = Chose /\ Made' = Made /\ Matches' = Matches
  BY <1>0, EntriesStay, ChosenStays, SignerStays
<1>6. Told' = Told
  BY <1>0, TellingStays
<1>7. Where'
  BY <1>0, <1>1, <1>3, <1>4, <1>5, <1>6 DEF LoadInv, Where
<1>8. NoSigner' = NoSigner
  BY DEF NoSigner
<1>. QED BY <1>0, <1>2, <1>3, <1>5, <1>7, <1>8 DEF LoadInv, SamePasswords

\* A step that changes nothing.
LEMMA LoaderRests == ASSUME LoadInv, UNCHANGED loadVars PROVE LoadInv'
<1>0. /\ SameFiles /\ SamePasswords /\ signer' = signer /\ part' = part /\ bags' = bags
      /\ entries' = entries /\ chosen' = chosen /\ walkErr' = walkErr /\ stage' = stage /\ verdict' = verdict
      /\ out' = out
  BY DEF loadVars, SameFiles, SamePasswords, fixed, pwds, collected, result
<1>3. /\ Keyed' = Keyed /\ Pkcs12' = Pkcs12 /\ MacThread' = MacThread /\ DeriveThreads' = DeriveThreads
      /\ WalkError' = WalkError /\ Fresh' = Fresh /\ file' = file /\ ask' = ask /\ Given' = Given
      /\ Request' = Request /\ GivenStore' = GivenStore /\ GivenKey' = GivenKey
  BY <1>0, FilesStay DEF Fresh, SameFiles
<1>4. Derived' = Derived
  BY <1>0, <1>3, PasswordsStay DEF Derived
<1>5. Listing' = Listing /\ Listed' = Listed /\ Chose' = Chose /\ Made' = Made /\ Matches' = Matches
  BY <1>0, EntriesStay, ChosenStays, SignerStays
<1>6. Told' = Told
  BY <1>0, TellingStays
<1>7. Where'
  BY <1>0, <1>3, <1>4, <1>5, <1>6 DEF LoadInv, Where
<1>8. NoSigner' = NoSigner
  BY DEF NoSigner
<1>. QED BY <1>0, <1>3, <1>5, <1>7, <1>8, ThreadsStay DEF LoadInv, SamePasswords

\* The lists begin empty.
LEMMA ListingBegins ==
    ASSUME Gathering, file \in KeyFile, entries = <<>>
    PROVE  Listing
<1>1. bags \in Seq(SafeBag)
  BY GatheredBags DEF Gathering
<1>2. Len(Keys) \in Nat
  <2>1. Keys \in Seq(SafeBag)
    BY <1>1, BagsOfAKind DEF Keys
  <2>. QED BY <2>1, LenProperties
<1>3. Len(entries) = 0 /\ entries \in Seq({})
  OBVIOUS
<1>. QED BY <1>2, <1>3 DEF Listing

\* The verdict of the MAC comes before that of the walk.
LEMMA JoinMacStep == ASSUME LoadInv, JoinMac PROVE LoadInv'
<1>0. /\ stage = "mac" /\ SameFiles /\ SamePasswords /\ signer' = signer /\ part' = part
      /\ bags' = bags /\ entries' = entries /\ chosen' = chosen /\ out' = out
  BY DEF JoinMac, SameFiles, SamePasswords, fixed, pwds, collected
<1>1. /\ Pkcs12 /\ Fresh /\ walkErr = WalkError /\ verdict = "none" /\ MacThread \subseteq DOMAIN out
      /\ WalkError = "ok" => Derived
  BY <1>0 DEF LoadInv, Where
<1>2. file \in KeyFile
  BY RequestTypes DEF LoadInv
<1>3. file.mac.present => out[Mac] = VerifyMac(storePw)
  <2>. SUFFICES ASSUME file.mac.present PROVE out[Mac] = VerifyMac(storePw)
    OBVIOUS
  <2>1. Mac \in MacThread
    BY DEF MacThread
  <2>2. out[Mac].err # "running"
    BY <2>1 DEF JoinMac, Ended
  <2>3. out[Mac] \in {Running, Outcome(Mac)}
    BY <1>1, <2>1 DEF LoadInv
  <2>4. Outcome(Mac) = VerifyMac(storePw)
    <3>1. Mac[1] = "mac"
      BY DEF Mac
    <3>. QED BY <3>1 DEF Outcome
  <2>. QED BY <2>2, <2>3, <2>4 DEF Running, Err
<1>4. MacPasses <=> (file.mac.present => out[Mac].err = "ok")
  BY <1>3 DEF MacPasses
<1>5. /\ Keyed' /\ Pkcs12' /\ MacPasses' = MacPasses /\ WalkError' = WalkError
      /\ VerifyMac(storePw)' = VerifyMac(storePw) /\ file' = file
  BY <1>0, <1>1, FilesStay, PasswordsStay DEF SameFiles, Pkcs12
<1>6. CASE ~MacPasses
  <2>1. stage' = "done" /\ verdict' = VerifyMac(storePw).err
    BY <1>0, <1>3, <1>4, <1>6 DEF JoinMac, Conclude
  <2>2. Where'
    BY <1>5, <1>6, <2>1 DEF Where, Told, Rejected
  <2>. QED BY <1>0, <2>1, <2>2, Settled
<1>7. CASE MacPasses /\ WalkError # "ok"
  <2>1. stage' = "done" /\ verdict' = WalkError
    BY <1>0, <1>1, <1>4, <1>7 DEF JoinMac, Conclude
  <2>2. Where'
    BY <1>5, <1>7, <2>1 DEF Where, Told, Rejected
  <2>. QED BY <1>0, <2>1, <2>2, Settled
<1>8. CASE MacPasses /\ WalkError = "ok"
  <2>1. stage' = "collect" /\ verdict' = verdict
    BY <1>0, <1>1, <1>4, <1>8 DEF JoinMac, Goto
  <2>2. Gathering
    BY <1>1, <1>2, <1>8, GatheredBags DEF Gathering, OpenedStore, Fresh
  <2>3. Listing
    BY <1>1, <1>2, <2>2, ListingBegins DEF Fresh
  <2>4. Listing' /\ Derived'
    BY <1>0, <1>1, <1>8, <2>3, EntriesStay, FilesStay, PasswordsStay DEF Derived
  <2>5. Where'
    BY <2>1, <2>4 DEF Where
  <2>. QED BY <1>0, <1>1, <2>1, <2>5, Settled
<1>. QED BY <1>6, <1>7, <1>8

\* The next container is read, or is the reason to stop.
LEMMA CollectStep == ASSUME LoadInv, Collect PROVE LoadInv'
<1>. DEFINE n == part + 1
            r == Text(n)
<1>0. /\ stage = "collect" /\ SameFiles /\ SamePasswords /\ signer' = signer
      /\ entries' = entries /\ chosen' = chosen /\ out' = out /\ part < Len(Containers)
  BY DEF Collect, SameFiles, SamePasswords, fixed, pwds, collected
<1>1. Listing /\ Derived /\ verdict = "none" /\ Request
  BY <1>0 DEF LoadInv, Where
<1>2. file \in KeyFile /\ luck \in {"pad", "noise", "empty"}
  BY <1>1, RequestTypes DEF Request
<1>3. /\ OpenedStore /\ part \in 0 .. Len(Containers) /\ bags = FlatTo(Texts)[part] /\ Keyed
      /\ WalkError = "ok" /\ entries = <<>> /\ \A i \in 1 .. part : Readable(i)
  BY <1>0, <1>1 DEF Listing, Gathering, OpenedStore, Pkcs12
<1>4. storePw \in Password
  BY <1>0, <1>1, <1>3, GivenTypes DEF LoadInv
<1>5. Len(Containers) \in Nat
  BY <1>2, ContainerTypes
<1>6. n \in 1 .. Len(Containers)
  BY <1>0, <1>3, <1>5
<1>7. r = Deciphered(n)
  BY <1>1, <1>2, <1>3, <1>4, <1>6, TextIs
<1>8. /\ Keyed' /\ OpenedStore' /\ Containers' = Containers /\ Texts' = Texts
      /\ \A i : Readable(i)' = Readable(i) /\ Deciphered(i)' = Deciphered(i)
      /\ MacThread' = MacThread /\ DeriveThreads' = DeriveThreads /\ file' = file
      /\ \A t : Outcome(t)' = Outcome(t)
  BY <1>0, <1>3, FilesStay, PasswordsStay DEF SameFiles
<1>. HIDE DEF n
<1>9. CASE ~Readable(n)
  <2>1. /\ stage' = "done"
        /\ verdict' = IF Deciphered(n).err = "ok" THEN "malformed" ELSE Deciphered(n).err
    <3>1. r = Text(part + 1)
      BY DEF n
    <3>2. IF r.err # "ok" THEN Conclude(r.err) ELSE Conclude("malformed")
      <4>. HIDE DEF r
      <4>. QED BY <1>7, <1>9, <3>1 DEF Collect, Readable
    <3>. QED BY <1>7, <3>2 DEF Conclude
  <2>2. Rejected'
    BY <1>6, <1>8, <1>9, <2>1 DEF Rejected
  <2>3. Where'
    BY <1>8, <2>1, <2>2 DEF Where, Told
  <2>. QED BY <1>0, <2>1, <2>3, Settled
<1>10. CASE Readable(n)
  <2>1. stage' = "collect" /\ verdict' = verdict /\ part' = n /\ bags' = bags \o Deciphered(n).value
    <3>1. r = Text(part + 1) /\ n = part + 1
      BY DEF n
    <3>. HIDE DEF r
    <3>. QED BY <1>7, <1>10, <3>1 DEF Collect, Readable, Goto
  <2>2. bags' = FlatTo(Texts)[n]
    <3>1. FlatTo(Texts)[n] = FlatTo(Texts)[n - 1] \o Deciphered(n).value
      BY <1>2, <1>6, GatheredBags
    <3>2. n - 1 = part
      BY <1>3, <1>5 DEF n
    <3>. QED BY <1>3, <2>1, <3>1, <3>2
  <2>3. \A i \in 1 .. n : Readable(i)
    BY <1>3, <1>5, <1>10 DEF n
  <2>4. n \in 0 .. Len(Containers)
    BY <1>5, <1>6
  <2>5. Gathering'
    BY <1>8, <2>1, <2>2, <2>3, <2>4 DEF Gathering
  <2>6. Listing'
    <3>1. bags' \in Seq(SafeBag)
      BY <1>2, <2>2, <2>4, GatheredBags
    <3>2. Len(Keys') \in Nat
      <4>1. Keys' = KeyBags(bags')
        BY DEF Keys
      <4>2. Keys' \in Seq(SafeBag)
        BY <3>1, <4>1, BagsOfAKind
      <4>. QED BY <4>2, LenProperties
    <3>3. entries' = <<>> /\ Len(entries') = 0 /\ entries' \in Seq({})
      BY <1>0, <1>3
    <3>. QED BY <2>5, <3>2, <3>3 DEF Listing
  <2>7. Derived'
    BY <1>0, <1>1, <1>8 DEF Derived
  <2>8. Where'
    BY <2>1, <2>6, <2>7 DEF Where
  <2>. QED BY <1>0, <1>1, <2>1, <2>8, Settled
<1>. QED BY <1>9, <1>10

\* A key that was recovered beside the rest is the one recovered on demand.
LEMMA RecoveredIsRecovery ==
    ASSUME Derived, file \in KeyFile, NEW der
    PROVE  RecoveredOf(der) \in {NotTried, RecoverKey(der, keyPw)}
<1>. DEFINE js == {j \in DOMAIN PlainKeys : <<"key", j>> \in DOMAIN out /\ PlainKeys[j].der = der}
            j == Min(js)
            t == <<"key", j>>
<1>1. CASE js = {}
  BY <1>1 DEF RecoveredOf
<1>2. CASE js # {}
  <2>1. DOMAIN PlainKeys \subseteq Nat
    <3>. DEFINE clear == [i \in DOMAIN Containers |->
                            IF Containers[i].kind = "data" THEN Containers[i].bags ELSE <<>>]
                T == Seq(SafeBag)
    <3>1. clear \in Seq(T)
      <4>1. \A i \in DOMAIN Containers : Containers[i].bags \in T
        BY ContainerTypes
      <4>2. <<>> \in T
        OBVIOUS
      <4>3. DOMAIN Containers = 1 .. Len(Containers) /\ Len(Containers) \in Nat
        BY ContainerTypes
      <4>. HIDE DEF T
      <4>4. clear \in [1 .. Len(Containers) -> T]
        BY <4>1, <4>2, <4>3
      <4>. HIDE DEF clear
      <4>. QED BY <4>3, <4>4
    <3>2. Flattened(clear) \in T
      <4>. HIDE DEF clear
      <4>1. FlatTo(clear) \in [0 .. Len(clear) -> T] /\ Flattened(clear) = FlatTo(clear)[Len(clear)]
        BY <3>1, FlatSteps
      <4>2. Len(clear) \in 0 .. Len(clear)
        BY <3>1, LenProperties
      <4>. HIDE DEF T
      <4>. QED BY <4>1, <4>2
    <3>3. PlainKeys = KeyBags(Flattened(clear))
      BY DEF PlainKeys
    <3>. HIDE DEF clear
    <3>4. PlainKeys \in T
      BY <3>2, <3>3, BagsOfAKind
    <3>. QED BY <3>4, LenProperties
  <2>2. j \in js
    <3>1. js \in SUBSET Nat
      BY <2>1
    <3>. HIDE DEF js
    <3>. QED BY <1>2, <3>1, MinOf
  <2>3. t \in DOMAIN out /\ PlainKeys[j].der = der
    <3>. HIDE DEF j
    <3>. QED BY <2>2
  <2>4. t \in DeriveThreads
    <3>1. t[1] = "key" /\ Mac[1] = "mac"
      BY DEF Mac
    <3>2. t # Mac
      <4>. HIDE DEF t
      <4>. QED BY <3>1
    <3>. HIDE DEF t
    <3>. QED BY <2>3, <3>2 DEF Derived, MacThread
  <2>5. out[t] = Outcome(t)
    <3>. HIDE DEF t
    <3>. QED BY <2>4 DEF Derived
  <2>6. Outcome(t) = RecoverKey(der, keyPw)
    <3>1. t[1] = "key" /\ t[2] = j
      OBVIOUS
    <3>. HIDE DEF t, j
    <3>. QED BY <2>3, <3>1 DEF Outcome
  <2>7. RecoveredOf(der) = out[t]
    BY <1>2 DEF RecoveredOf
  <2>. HIDE DEF t
  <2>. QED BY <2>5, <2>6, <2>7
<1>. QED BY <1>1, <1>2

\* The keys and certificates that were collected.
LEMMA CollectedTypes ==
    ASSUME Gathering, file \in KeyFile
    PROVE  /\ bags \in Seq(SafeBag)
           /\ Keys \in Seq(SafeBag) /\ Len(Keys) \in Nat /\ DOMAIN Keys = 1 .. Len(Keys)
           /\ Certs \in Seq(SafeBag) /\ Len(Certs) \in Nat /\ DOMAIN Certs = 1 .. Len(Certs)
           /\ \A k \in DOMAIN Keys : Keys[k].der \in KeyDer
           /\ \A i \in DOMAIN Certs : Certs[i].der \in CertDer
<1>1. bags \in Seq(SafeBag)
  BY GatheredBags DEF Gathering
<1>2. /\ Keys \in Seq(SafeBag) /\ Certs \in Seq(SafeBag)
      /\ \A k \in DOMAIN Keys : Keys[k].der \in KeyDer
      /\ \A i \in DOMAIN Certs : Certs[i].der \in CertDer
  BY <1>1, BagsOfAKind DEF Keys, Certs
<1>. QED BY <1>1, <1>2, LenProperties

\* The next key becomes an entry that fits it.
LEMMA PairStep == ASSUME LoadInv, Pair PROVE LoadInv'
<1>. DEFINE k == Len(entries) + 1
            e == [alias |-> AliasOf(Keys, k), der |-> Keys[k].der, chain |-> ChainAt(k),
                  recovered |-> RecoveredOf(Keys[k].der)]
<1>0. /\ stage = "collect" /\ SameFiles /\ SamePasswords /\ signer' = signer /\ part' = part /\ bags' = bags
      /\ chosen' = chosen /\ out' = out /\ part = Len(Containers) /\ Len(entries) < Len(Keys)
  BY DEF Pair, SameFiles, SamePasswords, fixed, pwds, collected
<1>1. Listing /\ Derived /\ verdict = "none" /\ file \in KeyFile
  BY <1>0, RequestTypes DEF LoadInv, Where
<1>2. PICK S : entries \in Seq(S)
  BY <1>1 DEF Listing
<1>3. Len(entries) \in Nat /\ Len(Keys) \in Nat
  BY <1>1, <1>2, LenProperties, CollectedTypes DEF Listing
<1>4. k \in 1 .. Len(Keys)
  BY <1>0, <1>3
<1>5. Gathering' /\ Keys' = Keys /\ Certs' = Certs /\ AllNamed' = AllNamed /\ Containers' = Containers
      /\ (\A x : LeafAt(x)' = LeafAt(x)) /\ (\A x, y : Fits(x, y)' = Fits(x, y))
  BY <1>0, <1>1, BagsStay, FilesStay DEF Listing
<1>6. CASE LeafAt(k) # 0 /\ ~AllNamed
  <2>1. stage' = "done" /\ verdict' = "malformed" /\ entries' = entries
    BY <1>0, <1>6 DEF Pair, Conclude, AllNamed, LeafAt
  <2>2. Listing'
    BY <1>0, <1>1, <2>1, EntriesStay
  <2>3. \E x \in 1 .. Len(Keys) : LeafAt(x) # 0
    BY <1>4, <1>6
  <2>4. Keyed'
    BY <2>2 DEF Listing, Gathering, OpenedStore, Pkcs12
  <2>. HIDE DEF k
  <2>5. Rejected'
    BY <1>0, <1>5, <1>6, <2>1, <2>2, <2>3 DEF Rejected
  <2>6. Where'
    BY <2>1, <2>4, <2>5 DEF Where, Told
  <2>. QED BY <1>0, <2>1, <2>6, Settled
<1>7. CASE ~(LeafAt(k) # 0 /\ ~AllNamed)
  <2>1. stage' = "collect" /\ verdict' = verdict /\ entries' = Append(entries, e)
    BY <1>0, <1>7 DEF Pair, Goto, AllNamed, LeafAt, ChainAt
  <2>2. e.recovered \in {NotTried, RecoverKey(e.der, keyPw)}
    <3>. DEFINE der == Keys[k].der
    <3>1. RecoveredOf(der) \in {NotTried, RecoverKey(der, keyPw)}
      <4>. HIDE DEF der
      <4>. QED BY <1>1, RecoveredIsRecovery
    <3>2. e.der = der /\ e.recovered = RecoveredOf(der)
      OBVIOUS
    <3>. HIDE DEF der, e
    <3>. QED BY <3>1, <3>2
  <2>3. Fits(e, k)
    <3>1. e.alias = AliasOf(Keys, k) /\ e.der = Keys[k].der /\ e.chain = ChainAt(k)
      OBVIOUS
    <3>. HIDE DEF e, k
    <3>. QED BY <1>7, <2>2, <3>1 DEF Fits
  <2>. HIDE DEF e
  <2>4. /\ Len(entries') = k /\ entries' \in Seq(S \cup {e})
        /\ \A m \in 1 .. Len(entries) : entries'[m] = entries[m]
        /\ entries'[k] = e
    <3>1. entries \in Seq(S \cup {e})
      BY <1>2
    <3>. QED BY <2>1, <3>1, AppendProperties
  <2>5. \A m \in 1 .. k : Fits(entries'[m], m)
    <3>1. ASSUME NEW m \in 1 .. k PROVE Fits(entries'[m], m)
      <4>1. CASE m = k
        BY <2>3, <2>4, <4>1
      <4>2. CASE m # k
        <5>1. m \in 1 .. Len(entries)
          BY <1>3, <4>2
        <5>2. Fits(entries[m], m)
          BY <1>1, <5>1 DEF Listing
        <5>. QED BY <2>4, <5>1, <5>2
      <4>. QED BY <4>1, <4>2
    <3>. QED BY <3>1
  <2>6. Listing'
    <3>1. \E Q : entries' \in Seq(Q)
      BY <2>4
    <3>2. part' = Len(Containers)' /\ Len(entries') <= Len(Keys')
      BY <1>0, <1>3, <1>4, <1>5, <2>4
    <3>. HIDE DEF k
    <3>3. \A m \in 1 .. Len(entries') : Fits(entries[m], m)'
      BY <1>5, <2>4, <2>5
    <3>. QED BY <1>5, <3>1, <3>2, <3>3 DEF Listing
  <2>7. Derived'
    BY <1>0, <1>1, FilesStay, PasswordsStay DEF Derived
  <2>8. Where'
    BY <2>1, <2>6, <2>7 DEF Where
  <2>. QED BY <1>0, <1>1, <2>1, <2>8, Settled
<1>. QED BY <1>6, <1>7

\* All keys have become entries.
LEMMA ParsedStep == ASSUME LoadInv, Parsed PROVE LoadInv'
<1>0. /\ stage = "collect" /\ SameFiles /\ SamePasswords /\ signer' = signer /\ part' = part /\ bags' = bags
      /\ entries' = entries /\ out' = out /\ part = Len(Containers) /\ Len(entries) = Len(Keys)
      /\ stage' = "select" /\ verdict' = verdict
  BY DEF Parsed, SameFiles, SamePasswords, fixed, pwds, collected, Goto
<1>1. Listing /\ verdict = "none"
  BY <1>0 DEF LoadInv, Where
<1>2. Listed
  BY <1>0, <1>1 DEF Listed
<1>3. Where'
  BY <1>0, <1>2, EntriesStay DEF Where
<1>. QED BY <1>0, <1>1, <1>3, Settled

\* The keys of a JKS store.
LEMMA JksTypes ==
    ASSUME Request
    PROVE  /\ JksKeys \in Seq(JksEntry) /\ Len(JksKeys) \in Nat /\ DOMAIN JksKeys = 1 .. Len(JksKeys)
           /\ \A i \in DOMAIN JksKeys : JksKeys[i] \in JksEntry
           /\ file.kind = "jks" => \A i \in DOMAIN JksKeys : JksKeys[i].der.shrouded
<1>. DEFINE s == file.jks
            I == {i \in DOMAIN file.jks : file.jks[i].tag = "key"}
<1>1. s \in Seq(JksEntry)
  BY RequestTypes DEF KeyFile
<1>2. DOMAIN s = 1 .. Len(s)
  <2>. HIDE DEF s
  <2>. QED BY <1>1, LenProperties
<1>3. I \in SUBSET (1 .. Len(s)) /\ (file.kind = "jks" => \A i \in I : s[i].der.shrouded)
  BY <1>2, RequestTypes
<1>4. JksKeys = Picked(s, I)
  BY DEF JksKeys
<1>. HIDE DEF I, s
<1>5. JksKeys \in Seq(JksEntry)
  BY <1>1, <1>3, <1>4, PickedPlaces
<1>6. PICK g : Picks(g, JksKeys, s, I)
  BY <1>1, <1>3, <1>4, PickedPlaces
<1>7. DOMAIN JksKeys = 1 .. Len(JksKeys) /\ Len(JksKeys) \in Nat
  BY <1>5, LenProperties
<1>8. ASSUME NEW i \in DOMAIN JksKeys PROVE g[i] \in I /\ JksKeys[i] = s[g[i]]
  BY <1>6, <1>7 DEF Picks
<1>9. \A i \in DOMAIN JksKeys : JksKeys[i] \in JksEntry
  BY <1>5, <1>7, ElementOfSeq
<1>. QED BY <1>3, <1>5, <1>7, <1>8, <1>9

\* A JKS store is listed after its check.
LEMMA JksStep == ASSUME LoadInv, Jks PROVE LoadInv'
<1>0. /\ stage = "jks" /\ SameFiles /\ SamePasswords /\ signer' = signer /\ part' = part /\ bags' = bags
      /\ out' = out
  BY DEF Jks, SameFiles, SamePasswords, fixed, pwds, collected
<1>1. Keyed /\ file.kind \in {"jks", "jceks", "unknown"} /\ verdict = "none"
  BY <1>0 DEF LoadInv, Where
<1>2. Keyed' /\ file' = file /\ storePw' = storePw /\ JksKeys' = JksKeys
  BY <1>0, <1>1, FilesStay DEF SameFiles, SamePasswords
<1>. DEFINE broken == ~file.wellFormed \/ \E i \in DOMAIN file.jks : file.jks[i].tag = "unknown"
<1>3. CASE file.kind # "jks"
  <2>1. stage' = "done" /\ verdict' = "unsupported"
    BY <1>3 DEF Jks, Conclude
  <2>2. Where'
    BY <1>1, <1>2, <1>3, <2>1 DEF Where, Told, Unreadable
  <2>. QED BY <1>0, <2>1, <2>2, Settled
<1>4. CASE file.kind = "jks" /\ broken
  <2>1. stage' = "done" /\ verdict' = "malformed"
    BY <1>4 DEF Jks, Conclude
  <2>2. Where'
    BY <1>2, <1>4, <2>1 DEF Where, Told, Unreadable
  <2>. QED BY <1>0, <2>1, <2>2, Settled
<1>5. CASE file.kind = "jks" /\ ~broken /\ (storePw # file.mac.pw \/ file.tampered)
  <2>1. stage' = "done" /\ verdict' = "integrity"
    BY <1>5 DEF Jks, Conclude
  <2>2. Where'
    BY <1>2, <1>5, <2>1 DEF Where, Told, Rejected
  <2>. QED BY <1>0, <2>1, <2>2, Settled
<1>6. CASE file.kind = "jks" /\ ~broken /\ storePw = file.mac.pw /\ ~file.tampered
  <2>1. stage' = "select" /\ verdict' = verdict /\ entries' = JksEntries
    BY <1>6 DEF Jks, Goto, JksEntries
  <2>2. JksEntries' = JksEntries
    BY <1>2 DEF JksEntries, NotTried, Err
  <2>3. JksListed'
    BY <1>2, <1>6, <2>1, <2>2 DEF JksListed
  <2>4. Where'
    BY <2>1, <2>3 DEF Where, Listed
  <2>. QED BY <1>0, <1>1, <2>1, <2>4, Settled
<1>. QED BY <1>3, <1>4, <1>5, <1>6

\* The entries of a store are a sequence.
LEMMA EntriesAreASequence ==
    ASSUME Listed, Request
    PROVE  Len(entries) \in Nat /\ DOMAIN entries = 1 .. Len(entries)
<1>1. CASE JksListed
  <2>1. Len(JksKeys) \in Nat /\ DOMAIN JksKeys = 1 .. Len(JksKeys)
    BY JksTypes
  <2>. DEFINE m == Len(JksKeys)
              f(i) == [alias |-> JksKeys[i].alias, der |-> JksKeys[i].der,
                       chain |-> JksKeys[i].chain, recovered |-> NotTried]
  <2>2. entries = [i \in 1 .. m |-> f(i)]
    BY <1>1, <2>1 DEF JksListed, JksEntries
  <2>. HIDE DEF m, f
  <2>3. DOMAIN entries = 1 .. m /\ Len(entries) = m
    BY <2>1, <2>2 DEF m
  <2>. QED BY <2>1, <2>3 DEF m
<1>2. CASE Listing
  <2>1. PICK S : entries \in Seq(S)
    BY <1>2 DEF Listing
  <2>. QED BY <2>1, LenProperties
<1>. QED BY <1>1, <1>2 DEF Listed

\* The first entry of the name is selected.
LEMMA SelectStep == ASSUME LoadInv, Select PROVE LoadInv'
<1>. DEFINE I == {i \in 1 .. Len(entries) : entries[i].alias = Lower[ask.alias]}
            n == IF ask.alias = None THEN IF Len(entries) = 1 THEN 1 ELSE 0
                 ELSE IF I # {} THEN Min(I) ELSE 0
<1>0. /\ stage = "select" /\ SameFiles /\ SamePasswords /\ signer' = signer /\ part' = part /\ bags' = bags
      /\ out' = out /\ entries' = entries
  BY DEF Select, SameFiles, SamePasswords, fixed, pwds, collected
<1>1. Listed /\ verdict = "none" /\ Request
  BY <1>0 DEF LoadInv, Where
<1>2. Len(entries) \in Nat
  BY <1>1, EntriesAreASequence
<1>3. IF n = 0 THEN Conclude("no such key") /\ UNCHANGED chosen
      ELSE chosen' = entries[n] /\ Goto("recover")
  BY DEF Select, SelectInSeq
<1>4. I \in SUBSET Nat /\ 0 \notin I /\ \A i \in I : i \in 1 .. Len(entries) /\ entries[i].alias = Lower[ask.alias]
  BY <1>2
<1>5. ask.alias # None /\ I # {} => n \in I /\ \A j \in I : n <= j
  <2>. SUFFICES ASSUME ask.alias # None, I # {} PROVE Min(I) \in I /\ \A j \in I : Min(I) <= j
    OBVIOUS
  <2>. HIDE DEF I
  <2>. QED BY <1>4, MinOf
<1>6. n # 0 => n \in 1 .. Len(entries) /\ Selected(n)
  <2>1. CASE ask.alias = None
    BY <1>2, <2>1 DEF Selected
  <2>2. CASE ask.alias # None /\ I # {}
    <3>1. n \in 1 .. Len(entries) /\ entries[n].alias = Lower[ask.alias]
      <4>. HIDE DEF I, n
      <4>. QED BY <1>4, <1>5, <2>2
    <3>2. ASSUME NEW m \in 1 .. n - 1 PROVE entries[m].alias # Lower[ask.alias]
      <4>1. m \notin I
        <5>1. n \in Nat /\ m \in Nat /\ m < n
          <6>. HIDE DEF n
          <6>. QED BY <1>2, <3>1
        <5>. HIDE DEF I, n
        <5>. QED BY <1>5, <2>2, <5>1
      <4>2. m \in 1 .. Len(entries)
        <5>. HIDE DEF n
        <5>. QED BY <1>2, <3>1
      <4>. QED BY <4>1, <4>2
    <3>. HIDE DEF I, n
    <3>. QED BY <2>2, <3>1, <3>2 DEF Selected
  <2>3. CASE ask.alias # None /\ I = {}
    BY <2>3
  <2>. QED BY <2>1, <2>2, <2>3
<1>7. n = 0 => ~\E m \in 1 .. Len(entries) : Selected(m)
  <2>1. CASE ask.alias = None
    BY <1>2, <2>1 DEF Selected
  <2>2. CASE ask.alias # None
    <3>1. n = 0 => I = {}
      <4>. HIDE DEF I, n
      <4>. QED BY <1>4, <1>5, <2>2
    <3>2. I = {} => \A m \in 1 .. Len(entries) : entries[m].alias # Lower[ask.alias]
      OBVIOUS
    <3>. HIDE DEF I, n
    <3>. QED BY <2>2, <3>1, <3>2 DEF Selected
  <2>. QED BY <2>1, <2>2
<1>. HIDE DEF n
<1>8. Listed' /\ \A m : Selected(m)' = Selected(m)
  BY <1>0, <1>1, EntriesStay
<1>9. Keyed'
  BY <1>8 DEF Listed, JksListed, Listing, Gathering, OpenedStore, Pkcs12
<1>10. CASE n = 0
  <2>1. stage' = "done" /\ verdict' = "no such key"
    BY <1>3, <1>10 DEF Conclude
  <2>2. Refused'
    BY <1>0, <1>7, <1>8, <1>10, <2>1 DEF Refused
  <2>3. Where'
    BY <1>9, <2>1, <2>2 DEF Where, Told
  <2>. QED BY <1>0, <2>1, <2>3, Settled
<1>11. CASE n # 0
  <2>1. stage' = "recover" /\ verdict' = verdict /\ chosen' = entries[n]
    BY <1>3, <1>11 DEF Goto
  <2>2. Chose'
    BY <1>0, <1>6, <1>8, <1>11, <2>1 DEF Chose
  <2>3. Where'
    BY <2>1, <2>2 DEF Where
  <2>. QED BY <1>0, <1>1, <2>1, <2>3, Settled
<1>. QED BY <1>10, <1>11

\* The chosen key is the one recovered on demand, whenever it was recovered.
LEMMA ChosenRecovery ==
    ASSUME Chose, Request
    PROVE  (IF chosen.recovered.err # "not tried" THEN chosen.recovered
            ELSE IF file.kind = "jks" THEN JksRecoverKey(chosen.der, keyPw)
            ELSE RecoverKey(chosen.der, keyPw)) = Recovery
<1>1. PICK n \in 1 .. Len(entries) : chosen = entries[n]
  BY DEF Chose
<1>0. NotTried.err = "not tried"
  BY DEF NotTried, Err
<1>2. CASE JksListed
  <2>1. n \in DOMAIN JksKeys
    <3>1. n \in DOMAIN entries
      BY <1>1, EntriesAreASequence DEF Chose
    <3>. QED BY <1>2, <3>1 DEF JksListed, JksEntries
  <2>2. chosen.recovered = NotTried
    BY <1>1, <1>2, <2>1 DEF JksListed, JksEntries
  <2>. QED BY <1>0, <1>2, <2>2 DEF Recovery, JksListed
<1>3. CASE Listing /\ Len(entries) = Len(Keys)
  <2>1. Fits(chosen, n) /\ file.kind = "pkcs12"
    BY <1>1, <1>3 DEF Listing, Gathering, OpenedStore, Pkcs12
  <2>2. chosen.recovered \in {NotTried, RecoverKey(chosen.der, keyPw)}
    BY <2>1 DEF Fits
  <2>. QED BY <1>0, <2>1, <2>2 DEF Recovery
<1>. QED BY <1>2, <1>3 DEF Chose, Listed

\* A signer is made of the chosen entry.
LEMMA RecoverStep == ASSUME LoadInv, Recover PROVE LoadInv'
<1>0. /\ stage = "recover" /\ SameFiles /\ SamePasswords /\ part' = part /\ bags' = bags
      /\ out' = out /\ entries' = entries /\ chosen' = chosen
  BY DEF Recover, SameFiles, SamePasswords, fixed, pwds, collected
<1>1. Chose /\ verdict = "none" /\ Request /\ signer = NoSigner
  BY <1>0 DEF LoadInv, Where
<1>2. Chose' /\ Recovery' = Recovery /\ Usable' = Usable
  BY <1>0, <1>1, ChosenStays
<1>3. Keyed'
  BY <1>2 DEF Chose, Listed, JksListed, Listing, Gathering, OpenedStore, Pkcs12
<1>. DEFINE r == Recovery
            cert == chosen.chain[1]
            n == IF Parses(r.value, cert) THEN 1 ELSE 0
<1>4. IF r.err # "ok" THEN Conclude(r.err) /\ UNCHANGED signer
      ELSE IF chosen.chain = <<>> THEN Conclude("no chain") /\ UNCHANGED signer
      ELSE FromMaterial(<<r.value>>, chosen.chain)
  <2>. HIDE DEF r
  <2>1. r = IF chosen.recovered.err # "not tried" THEN chosen.recovered
            ELSE IF file.kind = "jks" THEN JksRecoverKey(chosen.der, keyPw)
            ELSE RecoverKey(chosen.der, keyPw)
    BY <1>1, ChosenRecovery DEF r
  <2>. QED BY <2>1 DEF Recover
<1>5. SelectInSeq(<<r.value>>, LAMBDA k : Parses(k, cert)) = n
  <2>. DEFINE v == r.value
              T(k) == Parses(k, cert)
              I == {i \in 1 .. Len(<<v>>) : T(<<v>>[i])}
  <2>. HIDE DEF v, T
  <2>1. I = IF T(v) THEN {1} ELSE {}
    <3>1. Len(<<v>>) = 1 /\ <<v>>[1] = v
      OBVIOUS
    <3>2. 1 .. 1 = {1}
      OBVIOUS
    <3>. QED BY <3>1, <3>2
  <2>2. Min({1}) = 1
    <3>1. {1} \in SUBSET Nat /\ {1} # {}
      OBVIOUS
    <3>. QED BY <3>1, MinOf
  <2>3. SelectInSeq(<<v>>, T) = IF I # {} THEN Min(I) ELSE 0
    BY DEF SelectInSeq
  <2>. HIDE DEF I
  <2>4. SelectInSeq(<<v>>, T) = IF T(v) THEN 1 ELSE 0
    BY <2>1, <2>2, <2>3
  <2>. QED BY <2>4 DEF v, T, n
<1>6. CASE r.err # "ok"
  <2>1. stage' = "done" /\ verdict' = r.err /\ signer' = signer
    BY <1>4, <1>6 DEF Conclude
  <2>2. Refused'
    BY <1>2, <1>6, <2>1 DEF Refused
  <2>3. Where'
    BY <1>3, <2>1, <2>2 DEF Where, Told
  <2>. QED BY <1>0, <2>1, <2>3, Settled
<1>7. CASE r.err = "ok" /\ chosen.chain = <<>>
  <2>1. stage' = "done" /\ verdict' = "no chain" /\ signer' = signer
    BY <1>4, <1>7 DEF Conclude
  <2>2. Refused'
    BY <1>0, <1>2, <1>7, <2>1 DEF Refused
  <2>3. Where'
    BY <1>3, <2>1, <2>2 DEF Where, Told
  <2>. QED BY <1>0, <2>1, <2>3, Settled
<1>8. CASE r.err = "ok" /\ chosen.chain # <<>>
  <2>1. IF ~cert.wellFormed THEN Conclude("certificate") /\ UNCHANGED signer
        ELSE IF n = 0 THEN Conclude("key") /\ UNCHANGED signer
        ELSE /\ signer' = [key |-> <<r.value>>[n], alg |-> Algorithm(<<r.value>>[n]), certs |-> chosen.chain]
             /\ Goto("sign")
    BY <1>4, <1>5, <1>8 DEF FromMaterial
  <2>. HIDE DEF r, n
  <2>2. CASE ~cert.wellFormed
    <3>1. stage' = "done" /\ verdict' = "certificate" /\ signer' = signer
      BY <2>1, <2>2 DEF Conclude
    <3>2. Refused'
      BY <1>0, <1>2, <1>8, <2>2, <3>1 DEF Refused, r
    <3>3. Where'
      BY <1>3, <3>1, <3>2 DEF Where, Told
    <3>. QED BY <1>0, <3>1, <3>3, Settled
  <2>3. CASE cert.wellFormed /\ n = 0
    <3>1. stage' = "done" /\ verdict' = "key" /\ signer' = signer
      BY <2>1, <2>3 DEF Conclude
    <3>2. Usable' /\ ~Parses(r.value, cert)
      BY <1>1, <1>2, <1>8, <2>3 DEF Usable, n, r
    <3>3. Refused'
      BY <1>0, <1>2, <3>1, <3>2 DEF Refused, r
    <3>4. Where'
      BY <1>3, <3>1, <3>3 DEF Where, Told
    <3>. QED BY <1>0, <3>1, <3>4, Settled
  <2>4. CASE cert.wellFormed /\ n # 0
    <3>1. stage' = "sign" /\ verdict' = verdict
      BY <2>1, <2>4 DEF Goto
    <3>2. Usable' /\ Parses(r.value, cert) /\ n = 1
      BY <1>1, <1>2, <1>8, <2>4 DEF Usable, n, r
    <3>3. signer'.key = r.value /\ signer'.certs = chosen.chain
      BY <2>1, <2>4, <3>2
    <3>4. Made'
      BY <1>0, <1>2, <3>2, <3>3 DEF Made, r
    <3>5. Where'
      BY <3>1, <3>4 DEF Where
    <3>. QED BY <1>0, <1>1, <3>1, <3>4, <3>5, Carried, ThreadsStay DEF LoadInv
  <2>. QED BY <2>2, <2>3, <2>4
<1>. QED BY <1>6, <1>7, <1>8

\* A signer is made of two files.
LEMMA LoadFilesStep == ASSUME LoadInv, LoadFiles PROVE LoadInv'
<1>0. stage = "files" /\ SameFiles /\ SamePasswords /\ out' = out
  BY DEF LoadFiles, SameFiles, SamePasswords, fixed, pwds
<1>1. ask.source = "files" /\ verdict = "none" /\ signer = NoSigner
  BY <1>0 DEF LoadInv, Where
<1>2. ask'.source = "files" /\ ~Keyed'
  BY <1>0, <1>1 DEF SameFiles, Keyed
<1>3. \/ stage' = "done" /\ verdict' # "signed" /\ signer' = signer
      \/ stage' = "sign" /\ verdict' = verdict
  BY DEF LoadFiles, FromMaterial, Conclude, Goto
<1>4. Where'
  BY <1>2, <1>3 DEF Where, Told
<1>5. NoSigner' = NoSigner
  BY DEF NoSigner
<1>. QED BY <1>0, <1>1, <1>2, <1>3, <1>4, <1>5, Carried, ThreadsStay DEF LoadInv

\* A signature is returned only if it verifies.
LEMMA SignStep == ASSUME LoadInv, Sign PROVE LoadInv'
<1>0. /\ stage = "sign" /\ SameFiles /\ SamePasswords /\ part' = part /\ bags' = bags /\ stage' = "done"
      /\ out' = out /\ entries' = entries /\ chosen' = chosen /\ signer' = signer
      /\ verdict' = IF Matches THEN "signed" ELSE "mismatch"
  BY DEF Sign, SameFiles, SamePasswords, fixed, pwds, collected, Conclude, Matches
<1>1. (ask.source = "files" \/ Made) /\ Made' = Made /\ Matches' = Matches /\ ask' = ask
  BY <1>0, SignerStays DEF LoadInv, Where, SameFiles
<1>2. Told'
  BY <1>0, <1>1 DEF Told
<1>3. Where'
  BY <1>0, <1>2 DEF Where
<1>4. NoSigner' = NoSigner
  BY DEF NoSigner
<1>. QED BY <1>0, <1>1, <1>3, <1>4, Carried, ThreadsStay DEF LoadInv

\* The loading thread knows what it should, in whatever order the threads end.
THEOREM LoadKnows == Loading => []LoadInv
<1>1. LoadInv /\ [LoadNext]_loadVars => LoadInv'
  <2>. SUFFICES ASSUME LoadInv, [LoadNext]_loadVars PROVE LoadInv'
    OBVIOUS
  <2>1. CASE Loader
    BY <2>1, GetPasswordsStep, ReadStoreStep, WalkStep, JoinThreadsStep, JoinMacStep, CollectStep, PairStep,
       ParsedStep, JksStep, SelectStep, RecoverStep, LoadFilesStep, SignStep DEF Loader
  <2>2. CASE \E t \in DOMAIN out : Derive(t)
    BY <2>2, DeriveStep
  <2>3. CASE Reported \/ UNCHANGED loadVars
    BY <2>3, LoaderRests DEF Reported
  <2>. QED BY <2>1, <2>2, <2>3 DEF LoadNext
<1>. QED BY <1>1, LoadStarts, PTL DEF Loading

-----------------------------------------------------------------------------
(* Chains of certificates.                                                 *)

\* One turn of build_chain: the certificates used, and whether it stops there.
Issuers(certs, u) ==
    {i \in DOMAIN certs : /\ \A j \in DOMAIN u : u[j] # i
                          /\ certs[i].der.subject = certs[Last(u)].der.issuer}
Stops(certs, u) ==
    certs[Last(u)].der.issuer = certs[Last(u)].der.subject \/ Issuers(certs, u) = {}
NextUsed(certs, u) == IF Stops(certs, u) THEN u ELSE Append(u, Min(Issuers(certs, u)))

\* Certificates that issue one another, from a leaf on, each used once.
Lineage(certs, leaf) ==
    {u \in Seq(1 .. Len(certs)) :
        /\ Len(u) >= 1 /\ u[1] = leaf
        /\ \A i, j \in 1 .. Len(u) : u[i] = u[j] => i = j
        /\ \A i \in 1 .. Len(u) - 1 : /\ certs[u[i]].der.issuer = certs[u[i + 1]].der.subject
                                      /\ certs[u[i]].der.issuer # certs[u[i]].der.subject}

\* A turn adds one more of the line, or stops.
LEMMA LineGrows ==
    ASSUME NEW S, NEW certs \in Seq(S), NEW leaf, NEW u \in Lineage(certs, leaf)
    PROVE  /\ NextUsed(certs, u) \in Lineage(certs, leaf)
           /\ Stops(certs, u) => NextUsed(certs, u) = u
           /\ ~Stops(certs, u) => Len(NextUsed(certs, u)) = Len(u) + 1
<1>. DEFINE m == Len(certs)
            I == Issuers(certs, u)
            i == Min(I)
            v == Append(u, i)
            n == Len(u)
<1>1. m \in Nat /\ DOMAIN certs = 1 .. m
  BY LenProperties
<1>2. /\ u \in Seq(1 .. m) /\ n \in Nat /\ n >= 1 /\ u[1] = leaf /\ DOMAIN u = 1 .. n
      /\ \A a, b \in 1 .. n : u[a] = u[b] => a = b
      /\ \A a \in 1 .. n - 1 : /\ certs[u[a]].der.issuer = certs[u[a + 1]].der.subject
                               /\ certs[u[a]].der.issuer # certs[u[a]].der.subject
  BY LenProperties DEF Lineage
<1>3. Last(u) = u[n]
  BY DEF Last
<1>4. CASE Stops(certs, u)
  BY <1>4 DEF NextUsed
<1>5. CASE ~Stops(certs, u)
  <2>1. NextUsed(certs, u) = v
    BY <1>5 DEF NextUsed
  <2>2. I # {} /\ certs[u[n]].der.issuer # certs[u[n]].der.subject
    BY <1>3, <1>5 DEF Stops
  <2>3. I \in SUBSET Nat
    BY <1>1 DEF Issuers
  <2>4. i \in I
    <3>. HIDE DEF I
    <3>. QED BY <2>2, <2>3, MinOf
  <2>5. i \in 1 .. m /\ (\A j \in 1 .. n : u[j] # i) /\ certs[i].der.subject = certs[u[n]].der.issuer
    <3>. HIDE DEF i
    <3>. QED BY <1>1, <1>2, <1>3, <2>4 DEF Issuers
  <2>. HIDE DEF i, I, m
  <2>6. /\ v \in Seq(1 .. m) /\ Len(v) = n + 1 /\ (\A a \in 1 .. n : v[a] = u[a]) /\ v[n + 1] = i
    BY <1>2, <2>5, OneMore
  <2>. HIDE DEF v, n
  <2>7. Len(v) >= 1 /\ v[1] = leaf
    BY <1>2, <2>6
  <2>8. ASSUME NEW a \in 1 .. Len(v), NEW b \in 1 .. Len(v), v[a] = v[b] PROVE a = b
    <3>1. CASE a \in 1 .. n /\ b \in 1 .. n
      BY <1>2, <2>6, <2>8, <3>1
    <3>2. CASE a = n + 1 /\ b \in 1 .. n
      BY <2>5, <2>6, <2>8, <3>2
    <3>3. CASE b = n + 1 /\ a \in 1 .. n
      BY <2>5, <2>6, <2>8, <3>3
    <3>. QED BY <1>2, <2>6, <3>1, <3>2, <3>3
  <2>9. ASSUME NEW a \in 1 .. Len(v) - 1
        PROVE  /\ certs[v[a]].der.issuer = certs[v[a + 1]].der.subject
               /\ certs[v[a]].der.issuer # certs[v[a]].der.subject
    <3>1. CASE a = n
      <4>1. v[a] = u[n] /\ v[a + 1] = i
        BY <1>2, <2>6, <3>1
      <4>. QED BY <2>2, <2>5, <4>1
    <3>2. CASE a # n
      <4>1. a \in 1 .. n - 1 /\ a \in 1 .. n /\ a + 1 \in 1 .. n
        BY <1>2, <2>6, <3>2
      <4>2. v[a] = u[a] /\ v[a + 1] = u[a + 1]
        BY <2>6, <4>1
      <4>. QED BY <1>2, <4>1, <4>2
    <3>. QED BY <3>1, <3>2
  <2>10. v \in Lineage(certs, leaf)
    BY <2>6, <2>7, <2>8, <2>9 DEF Lineage, m
  <2>. QED BY <1>5, <2>1, <2>6, <2>10 DEF n
<1>. QED BY <1>4, <1>5

\* All certificates can be used once.
LEMMA AllAreUsed ==
    ASSUME NEW m \in Nat, NEW u \in [1 .. m -> 1 .. m], \A a, b \in 1 .. m : u[a] = u[b] => a = b,
           NEW i \in 1 .. m
    PROVE  \E a \in 1 .. m : u[a] = i
<1>. SUFFICES ASSUME \A a \in 1 .. m : u[a] # i PROVE FALSE
  OBVIOUS
<1>. DEFINE S == 1 .. m
            T == S \ {i}
<1>1. IsFiniteSet(S) /\ Cardinality(S) = m
  BY FS_Interval
<1>2. IsFiniteSet(T) /\ Cardinality(T) = m - 1
  <2>. HIDE DEF S
  <2>1. i \in S
    BY DEF S
  <2>. QED BY <1>1, <2>1, FS_RemoveElement
<1>3. u \in [S -> T]
  OBVIOUS
<1>. HIDE DEF S, T
<1>4. \E x, y \in S : x # y /\ u[x] = u[y]
  <2>1. Cardinality(T) < Cardinality(S)
    BY <1>1, <1>2
  <2>2. \A f \in [S -> T] : \E x, y \in S : x # y /\ f[x] = f[y]
    <3>. SUFFICES ASSUME NEW f \in [S -> T] PROVE \E x, y \in S : x # y /\ f[x] = f[y]
      OBVIOUS
    <3>. QED BY <1>1, <1>2, <2>1, FS_PigeonHole
  <2>. QED BY <1>3, <2>2, Zenon
<1>. QED BY <1>4 DEF S

\* build_chain ends with a line that stops.
LEMMA ChainBuilt ==
    ASSUME NEW S, NEW certs \in Seq(S), NEW leaf \in 1 .. Len(certs)
    PROVE  \E u \in Lineage(certs, leaf) :
              /\ BuildChain(certs, leaf) = [n \in DOMAIN u |-> certs[u[n]].der]
              /\ Stops(certs, u)
<1>. DEFINE m == Len(certs)
            T == Lineage(certs, leaf)
            step == [n \in 1 .. m - 1 |-> [x \in T |-> NextUsed(certs, x)]]
            Is(f) == f = [n \in 1 .. m |-> IF n = 1 THEN <<leaf>> ELSE NextUsed(certs, f[n - 1])]
            used == CHOOSE f : Is(f)
<1>1. m \in Nat /\ m >= 1 /\ m - 1 \in Nat
  BY LenProperties
<1>2. <<leaf>> \in T
  <2>. DEFINE u == <<leaf>>
  <2>1. u \in Seq(1 .. m) /\ Len(u) = 1 /\ u[1] = leaf
    OBVIOUS
  <2>. HIDE DEF u
  <2>2. /\ \A i, j \in 1 .. Len(u) : u[i] = u[j] => i = j
        /\ \A i \in 1 .. Len(u) - 1 : FALSE
    BY <2>1
  <2>3. u \in T
    <3>1. Len(u) >= 1 /\ u \in Seq(1 .. Len(certs))
      BY <2>1
    <3>. QED BY <2>1, <2>2, <3>1 DEF Lineage
  <2>. QED BY <2>3 DEF u
<1>3. step \in [1 .. m - 1 -> [T -> T]]
  <2>1. \A x \in T : NextUsed(certs, x) \in T
    BY LineGrows
  <2>. HIDE DEF T, m
  <2>. QED BY <2>1
<1>4. PICK f : IsLoop(f, T, <<leaf>>, m - 1, step)
  <2>. DEFINE base == <<leaf>>
              k == m - 1
  <2>1. base \in T /\ k \in Nat /\ step \in [1 .. k -> [T -> T]]
    BY <1>1, <1>2, <1>3
  <2>. HIDE DEF base, k, step, T
  <2>2. \E f : IsLoop(f, T, base, k, step)
    BY <2>1, Loop, Zenon
  <2>. QED BY <2>2 DEF base, k
<1>5. /\ f \in [0 .. m - 1 -> T] /\ f[0] = <<leaf>>
      /\ \A n \in 1 .. m - 1 : f[n] = NextUsed(certs, f[n - 1])
  <2>. HIDE DEF T, m
  <2>1. /\ f \in [0 .. m - 1 -> T] /\ f[0] = <<leaf>>
        /\ \A n \in 1 .. m - 1 : f[n] = step[n][f[n - 1]]
    BY <1>4 DEF IsLoop
  <2>2. ASSUME NEW n \in 1 .. m - 1 PROVE f[n] = NextUsed(certs, f[n - 1])
    <3>1. n - 1 \in 0 .. m - 1
      BY <1>1
    <3>2. f[n - 1] \in T
      BY <2>1, <3>1
    <3>. QED BY <2>1, <3>2
  <2>. QED BY <2>1, <2>2
<1>. DEFINE g == [n \in 1 .. m |-> f[n - 1]]
<1>6. Is(g)
  <2>1. ASSUME NEW n \in 1 .. m
        PROVE  g[n] = IF n = 1 THEN <<leaf>> ELSE NextUsed(certs, g[n - 1])
    <3>1. CASE n = 1
      BY <1>5, <3>1
    <3>2. CASE n # 1
      <4>1. n - 1 \in 1 .. m - 1 /\ n - 1 \in 1 .. m
        BY <1>1, <3>2
      <4>2. g[n - 1] = f[(n - 1) - 1] /\ g[n] = f[n - 1]
        BY <4>1
      <4>. QED BY <1>5, <3>2, <4>1, <4>2
    <3>. QED BY <3>1, <3>2
  <2>. HIDE DEF m
  <2>. QED BY <2>1
<1>7. Is(used)
  BY <1>6
<1>8. BuildChain(certs, leaf) = [n \in DOMAIN used[m] |-> certs[used[m][n]].der]
  BY DEF BuildChain, NextUsed, Stops, Issuers
<1>. HIDE DEF used, g, step
\* Up to every turn, all turns have added one, or it stopped.
<1>. DEFINE U == {n \in 0 .. m - 1 : /\ used[n + 1] \in T
                                     /\ Len(used[n + 1]) = n + 1 \/ Stops(certs, used[n + 1])}
<1>9. 0 \in U
  <2>1. used[1] = <<leaf>>
    <3>. HIDE DEF m
    <3>. QED BY <1>1, <1>7
  <2>2. Len(used[1]) = 1 /\ 0 + 1 = 1 /\ 0 \in 0 .. m - 1 /\ used[1] \in T
    BY <1>1, <1>2, <2>1
  <2>. HIDE DEF m, T
  <2>. QED BY <2>2
<1>10. ASSUME NEW n \in 0 .. (m - 1) - 1, n \in U PROVE n + 1 \in U
  <2>. DEFINE a == used[n + 1]
              b == used[(n + 1) + 1]
  <2>1. a \in T /\ (Len(a) = n + 1 \/ Stops(certs, a))
    <3>. HIDE DEF m, T
    <3>. QED BY <1>10
  <2>2. b = NextUsed(certs, a)
    <3>. HIDE DEF m
    <3>1. (n + 1) + 1 \in 1 .. m /\ (n + 1) + 1 # 1 /\ ((n + 1) + 1) - 1 = n + 1
      BY <1>1
    <3>. QED BY <1>7, <3>1
  <2>. HIDE DEF a, b
  <2>3. b \in T /\ (Len(b) = (n + 1) + 1 \/ Stops(certs, b))
    BY <2>1, <2>2, LineGrows
  <2>4. n + 1 \in 0 .. m - 1
    BY <1>1
  <2>. HIDE DEF m, T
  <2>. QED BY <2>3, <2>4 DEF b
<1>11. m - 1 \in U
  <2>. DEFINE k == m - 1
  <2>1. k \in Nat /\ 0 \in U /\ \A n \in 0 .. k - 1 : n \in U => n + 1 \in U
    BY <1>1, <1>9, <1>10
  <2>. HIDE DEF k, U
  <2>2. 0 .. k \subseteq U
    BY <2>1, UpTo, Zenon
  <2>3. k \in 0 .. k
    BY <2>1
  <2>. QED BY <2>2, <2>3 DEF k
<1>. DEFINE u == used[m]
<1>12. u \in T /\ (Len(u) = m \/ Stops(certs, u))
  <2>1. (m - 1) + 1 = m
    BY <1>1
  <2>. HIDE DEF m, T
  <2>. QED BY <1>11, <2>1
<1>. HIDE DEF u
<1>13. Stops(certs, u)
  <2>. SUFFICES ASSUME Len(u) = m PROVE Stops(certs, u)
    BY <1>12
  <2>1. u \in Seq(1 .. m) /\ \A i, j \in 1 .. m : u[i] = u[j] => i = j
    BY <1>12 DEF Lineage
  <2>2. u \in [1 .. m -> 1 .. m] /\ DOMAIN u = 1 .. m
    BY <2>1
  <2>3. \A i \in 1 .. m : \E a \in 1 .. m : u[a] = i
    <3>. HIDE DEF m
    <3>. QED BY <1>1, <2>1, <2>2, AllAreUsed
  <2>4. DOMAIN certs = 1 .. m
    BY LenProperties
  <2>5. Issuers(certs, u) = {}
    BY <2>2, <2>3, <2>4 DEF Issuers
  <2>. QED BY <2>5 DEF Stops
<1>. QED BY <1>8, <1>12, <1>13 DEF u

-----------------------------------------------------------------------------
(* What is told is true.                                                   *)

\* What a result says.
LEMMA ResultFields ==
    /\ \A v : Ok(v).err = "ok" /\ Ok(v).value = v
    /\ \A cause : Err(cause).err = cause
BY DEF Ok, Err

\* The check of the store as a whole passes exactly if it should.
LEMMA PassesIs ==
    ASSUME Request, Keyed, storePw = GivenStore
    PROVE  /\ MacPasses <=> Passes
           /\ VerifyMac(storePw).err \in {"ok", "unsupported", "integrity"}
           /\ VerifyMac(storePw).err = "integrity" <=>
                 file.mac.supported /\ (file.tampered \/ storePw # file.mac.pw)
           /\ file.kind = "jks" => (Passes <=> storePw = file.mac.pw /\ ~file.tampered)
<1>1. storePw \in Password
  BY GivenTypes
<1>2. file.mac \in MacData
  BY RequestTypes DEF KeyFile
<1>3. VerifyMac(storePw) = IF ~file.mac.supported THEN Err("unsupported")
          ELSE IF ~file.tampered /\ storePw = file.mac.pw THEN Ok(<<>>) ELSE Err("integrity")
  BY <1>1, <1>2, MacVerdict
<1>4. VerifyMac(storePw).err = IF ~file.mac.supported THEN "unsupported"
          ELSE IF ~file.tampered /\ storePw = file.mac.pw THEN "ok" ELSE "integrity"
  BY <1>3 DEF Ok, Err
<1>5. MacPasses <=> Passes
  BY <1>4 DEF MacPasses, Passes
<1>6. file.kind = "jks" => (Passes <=> storePw = file.mac.pw /\ ~file.tampered)
  BY RequestTypes DEF Passes
<1>. QED BY <1>4, <1>5, <1>6

\* What becomes of a container.
LEMMA ContainerVerdict ==
    ASSUME Request, Keyed, storePw = GivenStore, WalkError = "ok", NEW i \in 1 .. Len(Containers)
    PROVE  /\ Deciphered(i).err \in {"ok", "unsupported", "store password", "malformed"}
           /\ Deciphered(i).err = "store password" => ~Opens
           /\ Opens => Deciphered(i) = Ok(Containers[i].bags)
           /\ Opens /\ Intact => Readable(i)
           /\ Readable(i) /\ Containers[i].kind = "encrypted" =>
                 Containers[i].lock.supported \/ Containers[i].lock.pw # storePw
<1>. DEFINE c == Containers[i]
<1>1. i \in DOMAIN Containers /\ c.kind # "absent" /\ \E j \in DOMAIN file.parts : c = file.parts[j]
  BY RequestTypes, ContainerTypes
<1>2. c.kind \in {"data", "encrypted"}
  BY <1>1, WalkedWell, RequestTypes
<1>3. Deciphered(i) = IF c.kind = "data" \/ (c.lock.supported /\ c.lock.pw = storePw) THEN Ok(c.bags)
        ELSE IF ~c.lock.supported THEN Err("unsupported")
        ELSE IF luck = "pad" THEN Err("store password")
        ELSE IF luck = "noise" THEN Err("malformed") ELSE Ok(<<>>)
  BY DEF Deciphered
<1>4. Opens => c.kind = "data" \/ (c.lock.supported /\ c.lock.pw = storePw)
  BY <1>1, <1>2 DEF Opens
<1>5. Intact => WellFormed(c.bags)
  BY <1>1 DEF Intact
<1>. HIDE DEF c
<1>6. Deciphered(i).err \in {"ok", "unsupported", "store password", "malformed"}
  BY <1>3, ResultFields
<1>7. Opens => Deciphered(i) = Ok(c.bags)
  BY <1>3, <1>4
<1>8. Deciphered(i).err = "store password" => ~Opens
  BY <1>7, ResultFields
<1>9. Opens /\ Intact => Readable(i)
  <2>1. Ok(c.bags).err = "ok" /\ Ok(c.bags).value = c.bags
    BY DEF Ok
  <2>. QED BY <1>5, <1>7, <2>1 DEF Readable
<1>10. Readable(i) /\ c.kind = "encrypted" => c.lock.supported
  BY <1>3, ResultFields DEF Readable
<1>. QED BY <1>6, <1>7, <1>8, <1>9, <1>10 DEF c

\* What becomes of a key.
LEMMA KeyVerdict ==
    ASSUME Request, NEW der \in KeyDer, NEW p \in Password
    PROVE  RecoverKey(der, p) =
             IF ~der.shrouded THEN Ok(der.key)
             ELSE IF ~der.lock.supported THEN Err("unsupported")
             ELSE IF p = der.lock.pw THEN Ok(der.key)
             ELSE IF luck = "empty" THEN Ok(JunkKey) ELSE Err("key password")
<1>. DEFINE lock == der.lock
            plain == der.key
            r == Pbes2Decrypt(lock, plain, p)
<1>1. lock \in Lock /\ der.shrouded \in BOOLEAN
  BY DEF KeyDer
<1>2. luck \in {"pad", "noise", "empty"}
  BY DEF Request
<1>. HIDE DEF lock, plain
<1>3. r = IF ~lock.supported THEN Err("unsupported")
          ELSE IF p = lock.pw THEN Ok(plain) ELSE Err(luck)
  BY <1>1, DecryptVerdict
<1>4. RecoverKey(der, p) =
        CASE ~der.shrouded -> Ok(plain)
          [] der.shrouded /\ r.err \in {"pad", "noise"} -> Err("key password")
          [] der.shrouded /\ r.err = "empty" -> Ok(JunkKey)
          [] der.shrouded /\ r.err \in {"ok", "unsupported"} -> r
  BY DEF RecoverKey, lock, plain
<1>. HIDE DEF r
<1>5. CASE ~der.shrouded
  BY <1>4, <1>5 DEF plain
<1>6. CASE der.shrouded /\ ~lock.supported
  <2>1. r = Err("unsupported") /\ r.err = "unsupported"
    BY <1>3, <1>6 DEF Err
  <2>2. RecoverKey(der, p) = r
    BY <1>4, <1>6, <2>1
  <2>. QED BY <1>6, <2>1, <2>2 DEF lock
<1>7. CASE der.shrouded /\ lock.supported /\ p = lock.pw
  <2>1. r = Ok(plain) /\ r.err = "ok"
    BY <1>3, <1>7 DEF Ok
  <2>2. RecoverKey(der, p) = r
    BY <1>4, <1>7, <2>1
  <2>. QED BY <1>7, <2>1, <2>2 DEF lock, plain
<1>8. CASE der.shrouded /\ lock.supported /\ p # lock.pw
  <2>1. r.err = luck
    BY <1>3, <1>8 DEF Err
  <2>2. CASE luck = "empty"
    <3>1. RecoverKey(der, p) = Ok(JunkKey)
      BY <1>4, <1>8, <2>1, <2>2
    <3>. QED BY <1>8, <2>2, <3>1 DEF lock
  <2>3. CASE luck # "empty"
    <3>1. RecoverKey(der, p) = Err("key password")
      BY <1>2, <1>4, <1>8, <2>1, <2>3
    <3>. QED BY <1>8, <2>3, <3>1 DEF lock
  <2>. QED BY <2>2, <2>3
<1>. QED BY <1>5, <1>6, <1>7, <1>8

\* What was collected is what was written, if every container opens.
LEMMA CollectedIsWritten ==
    ASSUME Request, Gathering, part = Len(Containers), storePw = GivenStore, Opens
    PROVE  bags = Written
<1>1. Keyed /\ WalkError = "ok" /\ bags = FlatTo(Texts)[part] /\ file \in KeyFile
  BY RequestTypes DEF Gathering, OpenedStore, Pkcs12
<1>2. DOMAIN Containers = 1 .. Len(Containers)
  BY <1>1, ContainerTypes
<1>3. ASSUME NEW i \in 1 .. Len(Containers) PROVE Deciphered(i).value = Containers[i].bags
  <2>1. Deciphered(i) = Ok(Containers[i].bags)
    BY <1>1, ContainerVerdict
  <2>. QED BY <2>1 DEF Ok
<1>4. Texts = [i \in DOMAIN Containers |-> Containers[i].bags]
  BY <1>2, <1>3 DEF Texts
<1>5. bags = Flattened(Texts)
  BY <1>1, GatheredBags
<1>. QED BY <1>4, <1>5 DEF Written

\* The entries are the keys of the store, in their order.
LEMMA StoreIsListed ==
    ASSUME Request, Listed, storePw = GivenStore, file.kind = "jks" \/ Opens
    PROVE  /\ DOMAIN StoreKeys = 1 .. Len(entries) /\ Len(StoreKeys) = Len(entries) /\ Len(entries) \in Nat
           /\ \A n \in 1 .. Len(entries) : /\ entries[n].der = StoreKeys[n].der
                                           /\ entries[n].alias = NameOf(n)
           /\ \A n \in 1 .. Len(entries) : Selected(n) <=> Asked(n)
           /\ file.kind = "jks" => \A n \in 1 .. Len(entries) : entries[n].chain = StoreKeys[n].chain
           /\ file.kind # "jks" => /\ file.kind = "pkcs12" /\ Listing /\ StoreKeys = Keys /\ Certs = CertBags(Written)
                                   /\ \A n \in 1 .. Len(entries) : Fits(entries[n], n)
<1>. DEFINE N == Len(entries)
<1>1. N \in Nat
  BY EntriesAreASequence
<1>2. CASE file.kind = "jks"
  <2>1. JksListed
    BY <1>2 DEF Listed, Listing, Gathering, OpenedStore, Pkcs12
  <2>2. StoreKeys = JksKeys
    BY <1>2 DEF StoreKeys
  <2>3. DOMAIN JksKeys = 1 .. Len(JksKeys) /\ Len(JksKeys) \in Nat
    BY JksTypes
  <2>4. DOMAIN entries = DOMAIN JksKeys /\ DOMAIN entries = 1 .. N
    BY <2>1, EntriesAreASequence DEF JksListed, JksEntries
  <2>5. Len(JksKeys) = N
    <3>1. 1 .. N = 1 .. Len(JksKeys)
      BY <2>3, <2>4
    <3>. DEFINE M == Len(JksKeys)
    <3>. HIDE DEF N
    <3>2. N >= 1 => N \in 1 .. M
      BY <1>1, <3>1
    <3>3. M \in Nat /\ 1 .. N = 1 .. M
      BY <2>3, <3>1
    <3>. HIDE DEF M
    <3>4. M >= 1 => M \in 1 .. N
      BY <1>1, <3>3
    <3>5. M = N
      BY <1>1, <3>2, <3>3, <3>4
    <3>. QED BY <3>5 DEF M
  <2>6. ASSUME NEW n \in 1 .. N
        PROVE  /\ entries[n].der = JksKeys[n].der /\ entries[n].alias = JksKeys[n].alias
               /\ entries[n].chain = JksKeys[n].chain
    BY <2>1, <2>4 DEF JksListed, JksEntries
  <2>7. \A n \in 1 .. N : entries[n].alias = NameOf(n)
    BY <1>2, <2>2, <2>6 DEF NameOf
  <2>. QED BY <1>1, <1>2, <2>2, <2>3, <2>5, <2>6, <2>7 DEF Selected, Asked
<1>3. CASE file.kind # "jks"
  <2>1. Listing /\ part = Len(Containers) /\ N = Len(Keys) /\ Opens /\ Gathering
    BY <1>3 DEF Listed, JksListed, Listing
  <2>2. OpenedStore /\ Keyed /\ WalkError = "ok" /\ file.kind = "pkcs12" /\ bags = FlatTo(Texts)[part]
    BY <2>1 DEF Gathering, OpenedStore, Pkcs12
  <2>3. file \in KeyFile
    BY RequestTypes
  <2>4. bags = Written
    BY <2>1, CollectedIsWritten
  <2>5. StoreKeys = Keys /\ Certs = CertBags(Written)
    BY <1>3, <2>4 DEF StoreKeys, Keys, Certs
  <2>6. DOMAIN Keys = 1 .. N
    BY <2>1, <2>3, CollectedTypes
  <2>7. \A n \in 1 .. N : Fits(entries[n], n)
    BY <2>1 DEF Listing
  <2>8. \A n \in 1 .. N : entries[n].der = Keys[n].der /\ entries[n].alias = AliasOf(Keys, n)
    BY <2>7 DEF Fits
  <2>9. \A n \in 1 .. N : entries[n].alias = NameOf(n)
    BY <1>3, <2>5, <2>8 DEF NameOf
  <2>. HIDE DEF N
  <2>10. ASSUME NEW n \in 1 .. N PROVE Selected(n) <=> Asked(n)
    <3>1. \A m \in 1 .. n - 1 : m \in 1 .. N
      BY <1>1
    <3>. QED BY <1>1, <2>1, <2>5, <2>9, <3>1 DEF Selected, Asked, N
  <2>. QED BY <1>1, <1>3, <2>1, <2>2, <2>5, <2>6, <2>7, <2>8, <2>9, <2>10 DEF N
<1>. QED BY <1>2, <1>3

\* One entry is selected, if any.
LEMMA SelectedOnce ==
    ASSUME Request, Listed, NEW n \in 1 .. Len(entries), NEW m \in 1 .. Len(entries), Selected(n), Selected(m)
    PROVE  n = m
<1>1. Len(entries) \in Nat
  BY EntriesAreASequence
<1>2. CASE ask.alias = None
  BY <1>2 DEF Selected
<1>3. CASE ask.alias # None
  <2>1. ~(m < n)
    <3>1. m < n => m \in 1 .. n - 1
      BY <1>1
    <3>. QED BY <1>3, <3>1 DEF Selected
  <2>2. ~(n < m)
    <3>1. n < m => n \in 1 .. m - 1
      BY <1>1
    <3>. QED BY <1>3, <3>1 DEF Selected
  <2>. QED BY <1>1, <2>1, <2>2
<1>. QED BY <1>2, <1>3

\* What the recovery of the chosen key gives.
LEMMA RecoveryIs ==
    ASSUME Request, Keyed, Chose, keyPw = GivenKey
    PROVE  /\ chosen.der \in KeyDer
           /\ Recovery.err \in {"ok", "unsupported", "key password"}
           /\ KeyOpens(chosen.der) => Recovery = Ok(chosen.der.key)
           /\ ~KeyOpens(chosen.der) /\ Recovery.err = "ok" =>
                 file.kind # "jks" /\ luck = "empty" /\ Recovery.value = JunkKey
<1>. DEFINE der == chosen.der
<1>1. PICK n \in 1 .. Len(entries) : chosen = entries[n]
  BY DEF Chose
<1>2. keyPw \in Password
  BY GivenTypes
<1>3. CASE file.kind = "jks"
  <2>1. JksListed
    BY <1>3 DEF Chose, Listed, Listing, Gathering, OpenedStore, Pkcs12
  <2>2. n \in DOMAIN JksKeys
    <3>1. n \in DOMAIN entries
      BY <1>1, EntriesAreASequence DEF Chose
    <3>. QED BY <2>1, <3>1 DEF JksListed, JksEntries
  <2>3. chosen.der = JksKeys[n].der
    BY <1>1, <2>1, <2>2 DEF JksListed, JksEntries
  <2>4. chosen.der \in KeyDer /\ chosen.der.shrouded
    BY <1>3, <2>2, <2>3, JksTypes DEF JksEntry
  <2>5. Recovery = IF ~der.lock.supported THEN Err("unsupported")
                   ELSE IF keyPw = der.lock.pw THEN Ok(der.key) ELSE Err("key password")
    BY <1>3 DEF Recovery, JksRecoverKey
  <2>6. KeyOpens(der) <=> der.lock.supported /\ keyPw = der.lock.pw
    BY <2>4 DEF KeyOpens
  <2>. HIDE DEF der
  <2>7. Recovery.err = IF ~der.lock.supported THEN "unsupported"
                       ELSE IF keyPw = der.lock.pw THEN "ok" ELSE "key password"
    BY <2>5, ResultFields
  <2>8. KeyOpens(der) => Recovery = Ok(der.key)
    BY <2>5, <2>6
  <2>9. /\ Recovery.err \in {"ok", "unsupported", "key password"}
        /\ Recovery.err = "ok" => KeyOpens(der)
    BY <2>6, <2>7
  <2>. QED BY <2>4, <2>8, <2>9 DEF der
<1>4. CASE file.kind # "jks"
  <2>1. Listing /\ Len(entries) = Len(Keys)
    BY <1>4 DEF Chose, Listed, JksListed
  <2>2. chosen.der = Keys[n].der
    BY <1>1, <2>1 DEF Listing, Fits
  <2>3. chosen.der \in KeyDer
    <3>1. n \in DOMAIN Keys /\ \A k \in DOMAIN Keys : Keys[k].der \in KeyDer
      BY <1>1, <2>1, CollectedTypes, RequestTypes DEF Listing
    <3>. QED BY <2>2, <3>1
  <2>. HIDE DEF der
  <2>4. Recovery = RecoverKey(der, keyPw) /\ der \in KeyDer
    BY <1>4, <2>3 DEF Recovery, der
  <2>5. Recovery =
             IF ~der.shrouded THEN Ok(der.key)
             ELSE IF ~der.lock.supported THEN Err("unsupported")
             ELSE IF keyPw = der.lock.pw THEN Ok(der.key)
             ELSE IF luck = "empty" THEN Ok(JunkKey) ELSE Err("key password")
    BY <1>2, <2>4, KeyVerdict
  <2>6. KeyOpens(der) <=> (der.shrouded => der.lock.supported /\ keyPw = der.lock.pw)
    BY DEF KeyOpens
  <2>7. Recovery.err \in {"ok", "unsupported", "key password"}
    BY <2>5, ResultFields
  <2>8. KeyOpens(der) => Recovery = Ok(der.key)
    BY <2>5, <2>6
  <2>9. ~KeyOpens(der) /\ Recovery.err = "ok" => luck = "empty" /\ Recovery.value = JunkKey
    <3>. SUFFICES ASSUME ~KeyOpens(der), Recovery.err = "ok" PROVE luck = "empty" /\ Recovery.value = JunkKey
      OBVIOUS
    <3>1. \/ Recovery = Err("unsupported")
          \/ luck = "empty" /\ Recovery = Ok(JunkKey)
          \/ Recovery = Err("key password")
      BY <2>5, <2>6
    <3>2. /\ Err("unsupported").err = "unsupported" /\ Err("key password").err = "key password"
          /\ Ok(JunkKey).value = JunkKey
      BY ResultFields
    <3>. QED BY <3>1, <3>2
  <2>. QED BY <1>4, <2>3, <2>7, <2>8, <2>9 DEF der
<1>. QED BY <1>3, <1>4

\* No key parses out of chance.
LEMMA JunkIsNoKey == \A cert : ~Parses(JunkKey, cert)
BY DEF Parses, JunkKey

\* A key with its own certificate has a chain that begins with it.
LEMMA OwnChain ==
    ASSUME Request, Listed, storePw = GivenStore, file.kind = "jks" \/ Opens,
           NEW n \in 1 .. Len(entries), HasOwn(n), StoreKeys[n].der \in KeyDer
    PROVE  /\ file.kind = "pkcs12" => AllNamed
           /\ entries[n].chain # <<>> /\ entries[n].chain[1].wellFormed
           /\ entries[n].chain[1].pub = StoreKeys[n].der.key.id
           /\ Parses(StoreKeys[n].der.key, entries[n].chain[1])
<1>. DEFINE key == StoreKeys[n].der.key
<1>1. key.type \in {"rsa3072", "rsa4096", "ec", "bareEc"}
  BY DEF KeyDer, PrivateKey, HasOwn
<1>2. SUFFICES /\ file.kind = "pkcs12" => AllNamed
               /\ entries[n].chain # <<>> /\ entries[n].chain[1].wellFormed
               /\ entries[n].chain[1].pub = key.id
  <2>. HIDE DEF key
  <2>1. entries[n].chain[1].pub = key.id => Parses(key, entries[n].chain[1])
    BY <1>1 DEF Parses
  <2>. QED BY <2>1 DEF key
<1>3. CASE file.kind = "jks"
  BY <1>3, StoreIsListed DEF HasOwn
<1>4. CASE file.kind # "jks"
  <2>1. /\ Listing /\ StoreKeys = Keys /\ Certs = CertBags(Written) /\ Fits(entries[n], n)
        /\ DOMAIN StoreKeys = 1 .. Len(entries)
    BY <1>4, StoreIsListed
  <2>2. /\ Certs \in Seq(SafeBag) /\ DOMAIN Certs = 1 .. Len(Certs) /\ Len(Certs) \in Nat
    BY <2>1, CollectedTypes, RequestTypes DEF Listing
  <2>3. PICK i \in DOMAIN Certs : /\ Certs[i].localId = Keys[n].localId
                                  /\ \A j \in 1 .. i - 1 : Certs[j].localId # Keys[n].localId
                                  /\ Certs[i].der.pub = key.id
    BY <1>4, <2>1 DEF HasOwn
  <2>4. AllNamed /\ Keys[n].localId # None
    BY <1>4, <2>1 DEF HasOwn, AllNamed
  <2>. DEFINE I == {j \in 1 .. Len(Certs) : Certs[j].localId = Keys[n].localId}
  <2>5. LeafAt(n) = i
    <3>1. i \in I /\ I \in SUBSET Nat /\ \A j \in I : i <= j
      <4>1. ASSUME NEW j \in I PROVE i <= j
        <5>1. j \in 1 .. Len(Certs) /\ i \in 1 .. Len(Certs) /\ j \notin 1 .. i - 1
          BY <2>2, <2>3
        <5>. QED BY <2>2, <5>1
      <4>. QED BY <2>2, <2>3, <4>1
    <3>2. Min(I) = i
      <4>. HIDE DEF I
      <4>1. Min(I) \in I /\ \A j \in I : Min(I) <= j
        BY <3>1, MinOf
      <4>. QED BY <3>1, <4>1
    <3>3. i # 0 /\ I # {}
      BY <2>2, <3>1
    <3>. QED BY <2>4, <3>2, <3>3 DEF LeafAt, LeafOf, SelectInSeq
  <2>6. i \in 1 .. Len(Certs) /\ i # 0
    BY <2>2
  <2>7. entries[n].chain = BuildChain(Certs, i)
    BY <2>1, <2>5, <2>6 DEF Fits, ChainAt
  <2>8. PICK u \in Lineage(Certs, i) : BuildChain(Certs, i) = [k \in DOMAIN u |-> Certs[u[k]].der]
    BY <2>2, <2>6, ChainBuilt
  <2>9. 1 \in DOMAIN u /\ u[1] = i
    <3>1. u \in Seq(1 .. Len(Certs)) /\ Len(u) >= 1 /\ u[1] = i
      BY DEF Lineage
    <3>. QED BY <3>1, LenProperties
  <2>10. entries[n].chain # <<>> /\ entries[n].chain[1] = Certs[i].der
    BY <2>7, <2>8, <2>9
  <2>. QED BY <2>3, <2>4, <2>10 DEF AllNamed
<1>. QED BY <1>2, <1>3, <1>4

\* A store that was listed passed its check.
LEMMA ListedPasses ==
    ASSUME Request, Keyed, storePw = GivenStore, Listed \/ Listing
    PROVE  Passes
<1>1. CASE JksListed
  BY <1>1, PassesIs DEF JksListed
<1>2. CASE Listing
  BY <1>2, PassesIs DEF Listing, Gathering, OpenedStore
<1>. QED BY <1>1, <1>2 DEF Listed

\* What is told of a file that is no store.
LEMMA UnreadableIs ==
    ASSUME Unreadable
    PROVE  verdict \in {"io", "malformed", "unsupported"} /\ ~Intact
BY DEF Unreadable, Intact

\* What is told of a store that does not open.
LEMMA RejectedIs ==
    ASSUME Request, Keyed, storePw = GivenStore, Rejected
    PROVE  /\ verdict \in {"integrity", "unsupported", "malformed", "store password"}
           /\ verdict = "integrity" => ~Passes
           /\ verdict = "store password" => ~Opens
           /\ Intact /\ Passes /\ Opens =>
                 /\ Listing /\ part = Len(Containers) /\ ~AllNamed /\ verdict = "malformed"
                 /\ file.kind = "pkcs12"
<1>1. CASE file.kind = "jks" /\ (storePw # file.mac.pw \/ file.tampered) /\ verdict = "integrity"
  BY <1>1, PassesIs
<1>2. CASE Pkcs12 /\ ~MacPasses /\ verdict = VerifyMac(storePw).err
  BY <1>2, PassesIs DEF MacPasses
<1>3. CASE Pkcs12 /\ MacPasses /\ WalkError # "ok" /\ verdict = WalkError
  BY <1>3, WalkedWell, RequestTypes DEF Intact
<1>4. CASE /\ OpenedStore
           /\ \E i \in 1 .. Len(Containers) :
                 /\ ~Readable(i)
                 /\ verdict = IF Deciphered(i).err = "ok" THEN "malformed" ELSE Deciphered(i).err
  <2>1. PICK i \in 1 .. Len(Containers) :
           /\ ~Readable(i)
           /\ verdict = IF Deciphered(i).err = "ok" THEN "malformed" ELSE Deciphered(i).err
    BY <1>4
  <2>2. /\ Deciphered(i).err \in {"ok", "unsupported", "store password", "malformed"}
        /\ Deciphered(i).err = "store password" => ~Opens
        /\ Opens /\ Intact => Readable(i)
    BY <1>4, ContainerVerdict DEF OpenedStore
  <2>. QED BY <2>1, <2>2
<1>5. CASE Listing /\ part = Len(Containers) /\ ~AllNamed /\ verdict = "malformed"
  BY <1>5 DEF Listing, Gathering, OpenedStore, Pkcs12
<1>. QED BY <1>1, <1>2, <1>3, <1>4, <1>5 DEF Rejected

\* What is told of a key that cannot be used.
LEMMA RefusedIs ==
    ASSUME Request, Keyed, keyPw = GivenKey, Refused
    PROVE  /\ verdict \in {"no such key", "unsupported", "key password", "no chain", "certificate", "key"}
           /\ verdict = "no such key" => Listed /\ ~\E n \in 1 .. Len(entries) : Selected(n)
           /\ verdict # "no such key" => Chose
           /\ verdict \in {"unsupported", "key password"} => Recovery.err # "ok"
           /\ verdict \in {"no chain", "certificate", "key"} =>
                 /\ Recovery.err = "ok"
                 /\ \/ chosen.chain = <<>> \/ ~chosen.chain[1].wellFormed
                    \/ ~Parses(Recovery.value, chosen.chain[1])
<1>1. CASE Listed /\ (~\E n \in 1 .. Len(entries) : Selected(n)) /\ verdict = "no such key"
  BY <1>1
<1>2. CASE Chose /\ Recovery.err # "ok" /\ verdict = Recovery.err
  <2>1. Recovery.err \in {"unsupported", "key password"}
    BY <1>2, RecoveryIs
  <2>. QED BY <1>2, <2>1
<1>3. CASE Chose /\ Recovery.err = "ok" /\ chosen.chain = <<>> /\ verdict = "no chain"
  BY <1>3
<1>4. CASE /\ Chose /\ Recovery.err = "ok" /\ chosen.chain # <<>> /\ ~chosen.chain[1].wellFormed
           /\ verdict = "certificate"
  BY <1>4
<1>5. CASE Usable /\ ~Parses(Recovery.value, chosen.chain[1]) /\ verdict = "key"
  BY <1>5 DEF Usable
<1>. QED BY <1>1, <1>2, <1>3, <1>4, <1>5 DEF Refused

\* How a request for a store ends.
LEMMA Endings ==
    ASSUME LoadInv, stage = "done", Keyed
    PROVE  /\ Request /\ storePw = GivenStore /\ keyPw = GivenKey
           /\ \/ Unreadable \/ Rejected \/ Refused
              \/ Made /\ verdict = IF Matches THEN "signed" ELSE "mismatch"
BY DEF LoadInv, Where, Told, Keyed

\* What is told when the check of the store fails.
LEMMA IntegrityShown == LoadInv => IntegrityFirst
<1>. SUFFICES ASSUME LoadInv, stage = "done", Keyed, file.kind = "pkcs12", file.wellFormed,
                     file.mac.present, file.mac.supported, ~Passes
              PROVE  verdict = "integrity"
  BY DEF IntegrityFirst
<1>1. Request /\ storePw = GivenStore /\ keyPw = GivenKey
  BY Endings
<1>2. ~MacPasses /\ VerifyMac(storePw).err = "integrity"
  BY <1>1, PassesIs DEF Passes
<1>3. ~Listed /\ ~Listing
  BY <1>1, ListedPasses
<1>4. ~Unreadable
  BY DEF Unreadable
<1>5. ~Refused /\ ~Made
  BY <1>3 DEF Refused, Made, Usable, Chose
<1>6. Rejected => verdict = "integrity"
  BY <1>2, <1>3 DEF Rejected, OpenedStore
<1>. QED BY <1>4, <1>5, <1>6, Endings

\* What a signature was made with.
LEMMA SignerShown == LoadInv => SignerIsTheKeys
<1>. SUFFICES ASSUME LoadInv, verdict = "signed" PROVE SignerIsTheKeys
  BY DEF SignerIsTheKeys
<1>1. stage = "done" /\ Request
  BY DEF LoadInv
<1>2. ask.source \in {"ks", "files"}
  BY <1>1, RequestTypes DEF KeySource
<1>3. CASE ask.source = "files"
  <2>1. Matches
    <3>1. Told /\ ~Keyed
      BY <1>1, <1>3 DEF LoadInv, Where, Keyed
    <3>. QED BY <1>3, <3>1 DEF Told
  <2>. QED BY <1>3, <2>1 DEF SignerIsTheKeys, Matches
<1>4. CASE ask.source = "ks"
  <2>1. Keyed
    <3>1. Told
      BY <1>1 DEF LoadInv, Where
    <3>2. Made => Keyed
      BY DEF Made, Usable, Chose, Listed, JksListed, Listing, Gathering, OpenedStore, Pkcs12
    <3>. QED BY <1>4, <3>1, <3>2 DEF Told
  <2>2. storePw = GivenStore /\ keyPw = GivenKey
    BY <1>1, <2>1, Endings
  <2>3. Made /\ Matches
    <3>1. ~Unreadable /\ ~Rejected /\ ~Refused
      BY <1>1, <2>1, <2>2, UnreadableIs, RejectedIs, RefusedIs
    <3>. QED BY <1>1, <2>1, <3>1, Endings
  <2>4. Chose /\ Listed
    BY <2>3 DEF Made, Usable, Chose
  <2>5. Passes
    BY <1>1, <2>1, <2>2, <2>4, ListedPasses
  <2>6. ASSUME OnePassword \/ Opens
        PROVE  \E n \in DOMAIN StoreKeys : /\ Asked(n) /\ KeyOpens(StoreKeys[n].der)
                                           /\ signer.key = StoreKeys[n].der.key
    <3>1. file.kind = "jks" \/ Opens
      <4>. SUFFICES ASSUME file.kind # "jks", OnePassword PROVE Opens
        BY <2>6
      <4>1. Listing /\ part = Len(Containers) /\ Gathering
        BY <2>4 DEF Listed, JksListed, Listing
      <4>2. WalkError = "ok" /\ \A i \in 1 .. Len(Containers) : Readable(i)
        BY <4>1 DEF Gathering, OpenedStore
      <4>3. DOMAIN Containers = 1 .. Len(Containers)
        BY <1>1, RequestTypes, ContainerTypes
      <4>4. file.mac.pw = GivenStore
        BY <2>5 DEF Passes, OnePassword
      <4>. QED BY <1>1, <2>1, <2>2, <4>2, <4>3, <4>4, ContainerVerdict DEF OnePassword, Opens
    <3>2. PICK n \in 1 .. Len(entries) : Selected(n) /\ chosen = entries[n]
      BY <2>4 DEF Chose
    <3>3. n \in DOMAIN StoreKeys /\ Asked(n) /\ chosen.der = StoreKeys[n].der
      BY <1>1, <2>2, <2>4, <3>1, <3>2, StoreIsListed
    <3>4. KeyOpens(chosen.der)
      <4>1. Recovery.err = "ok" /\ Parses(Recovery.value, chosen.chain[1])
        BY <2>3 DEF Made, Usable
      <4>2. Recovery.value # JunkKey
        BY <4>1, JunkIsNoKey
      <4>. QED BY <1>1, <2>1, <2>2, <2>4, <4>1, <4>2, RecoveryIs
    <3>5. signer.key = chosen.der.key
      <4>1. Recovery = Ok(chosen.der.key) /\ signer.key = Recovery.value
        BY <1>1, <2>1, <2>2, <2>3, <2>4, <3>4, RecoveryIs DEF Made
      <4>. QED BY <4>1, ResultFields
    <3>. QED BY <3>3, <3>4, <3>5
  <2>. QED BY <2>1, <2>3, <2>5, <2>6 DEF SignerIsTheKeys, Matches, Keyed
<1>. QED BY <1>2, <1>3, <1>4

\* The entry that was chosen is the one that was asked for.
LEMMA ChosenIsAsked ==
    ASSUME Request, Keyed, storePw = GivenStore, Chose, file.kind = "jks" \/ Opens,
           NEW n \in DOMAIN StoreKeys, Asked(n)
    PROVE  n \in 1 .. Len(entries) /\ chosen = entries[n] /\ chosen.der = StoreKeys[n].der
<1>1. Listed
  BY DEF Chose
<1>2. PICK m \in 1 .. Len(entries) : Selected(m) /\ chosen = entries[m]
  BY DEF Chose
<1>3. n \in 1 .. Len(entries) /\ Selected(n) /\ entries[n].der = StoreKeys[n].der
  BY <1>1, StoreIsListed
<1>4. n = m
  BY <1>1, <1>2, <1>3, SelectedOnce
<1>. QED BY <1>2, <1>3, <1>4

\* With the right passwords nothing else can be told.
LEMMA RightPasswordsShown == LoadInv => RightPasswordsSign
<1>. SUFFICES ASSUME LoadInv, stage = "done", Keyed, Intact, Passes, Opens,
                     NEW n \in DOMAIN StoreKeys, Asked(n), KeyOpens(StoreKeys[n].der), HasOwn(n)
              PROVE  verdict = "signed" /\ signer.key = StoreKeys[n].der.key
  BY DEF RightPasswordsSign
<1>. DEFINE key == StoreKeys[n].der.key
<1>1. Request /\ storePw = GivenStore /\ keyPw = GivenKey
  BY Endings
<1>2. ~Unreadable
  BY UnreadableIs
<1>3. ~Rejected
  <2>. SUFFICES ASSUME Rejected PROVE FALSE
    OBVIOUS
  <2>1. Listing /\ part = Len(Containers) /\ ~AllNamed /\ file.kind = "pkcs12"
    BY <1>1, RejectedIs
  <2>2. Certs = CertBags(Written)
    BY <1>1, <2>1, CollectedIsWritten DEF Listing, Certs
  <2>. QED BY <2>1, <2>2 DEF HasOwn, AllNamed
<1>4. Chose =>
        /\ Recovery = Ok(key) /\ chosen.chain # <<>> /\ chosen.chain[1].wellFormed
        /\ chosen.chain[1].pub = key.id /\ Parses(key, chosen.chain[1])
  <2>. SUFFICES ASSUME Chose
                PROVE  /\ Recovery = Ok(key) /\ chosen.chain # <<>> /\ chosen.chain[1].wellFormed
                       /\ chosen.chain[1].pub = key.id /\ Parses(key, chosen.chain[1])
    OBVIOUS
  <2>1. n \in 1 .. Len(entries) /\ chosen = entries[n] /\ chosen.der = StoreKeys[n].der
    BY <1>1, ChosenIsAsked
  <2>2. chosen.der \in KeyDer /\ Recovery = Ok(key)
    BY <1>1, <2>1, RecoveryIs
  <2>. HIDE DEF key
  <2>3. /\ entries[n].chain # <<>> /\ entries[n].chain[1].wellFormed
        /\ entries[n].chain[1].pub = key.id /\ Parses(key, entries[n].chain[1])
    BY <1>1, <2>1, <2>2, OwnChain DEF Chose, key
  <2>. QED BY <2>1, <2>2, <2>3
<1>5. ~Refused
  <2>. SUFFICES ASSUME Refused PROVE FALSE
    OBVIOUS
  <2>1. CASE verdict = "no such key"
    <3>1. Listed /\ ~\E m \in 1 .. Len(entries) : Selected(m)
      BY <1>1, <2>1, RefusedIs
    <3>. QED BY <1>1, <3>1, StoreIsListed
  <2>2. CASE verdict # "no such key"
    <3>1. Recovery.err = "ok" /\ Recovery.value = key
      BY <1>1, <1>4, <2>2, RefusedIs, ResultFields
    <3>. QED BY <1>1, <1>4, <2>2, <3>1, RefusedIs
  <2>. QED BY <2>1, <2>2
<1>6. Made /\ verdict = IF Matches THEN "signed" ELSE "mismatch"
  BY <1>2, <1>3, <1>5, Endings
<1>7. Chose /\ signer.key = Recovery.value /\ signer.certs = chosen.chain
  BY <1>6 DEF Made, Usable
<1>8. signer.key = key
  BY <1>4, <1>7, ResultFields
<1>9. Matches
  BY <1>4, <1>7, <1>8 DEF Matches
<1>. QED BY <1>6, <1>8, <1>9

\* Every verdict has its cause.
LEMMA BlameShown == LoadInv => BlameIsTrue
<1>. SUFFICES ASSUME LoadInv, stage = "done", Keyed PROVE BlameIsTrue
  BY DEF BlameIsTrue
<1>1. Request /\ storePw = GivenStore /\ keyPw = GivenKey
  BY Endings
<1>2. /\ Unreadable \/ Rejected \/ Refused \/ (Made /\ verdict \in {"signed", "mismatch"})
  BY Endings
<1>3. verdict = "store password" => ~Opens
  BY <1>1, <1>2, UnreadableIs, RejectedIs, RefusedIs
<1>4. verdict = "integrity" => ~Passes
  BY <1>1, <1>2, UnreadableIs, RejectedIs, RefusedIs
<1>5. ASSUME verdict = "no such key", Opens PROVE ~\E n \in DOMAIN StoreKeys : Asked(n)
  <2>1. Listed /\ ~\E n \in 1 .. Len(entries) : Selected(n)
    BY <1>1, <1>2, <1>5, UnreadableIs, RejectedIs, RefusedIs
  <2>. QED BY <1>1, <1>5, <2>1, StoreIsListed
<1>6. ASSUME Intact, Passes, Opens, NEW n \in DOMAIN StoreKeys, Asked(n)
      PROVE  /\ verdict = "key password" => ~KeyOpens(StoreKeys[n].der)
             /\ KeyOpens(StoreKeys[n].der) \/ verdict \in {"key password", "unsupported", "malformed"}
                  \/ (luck = "empty" /\ verdict \in {"key", "no chain", "certificate"})
  <2>1. ~Unreadable
    BY <1>6, UnreadableIs
  <2>2. CASE Rejected
    BY <1>1, <1>6, <2>2, RejectedIs
  <2>3. Chose =>
          /\ KeyOpens(StoreKeys[n].der) => Recovery.err = "ok"
          /\ ~KeyOpens(StoreKeys[n].der) /\ Recovery.err = "ok" => luck = "empty" /\ Recovery.value = JunkKey
    <3>. SUFFICES ASSUME Chose
                  PROVE  /\ KeyOpens(StoreKeys[n].der) => Recovery.err = "ok"
                         /\ ~KeyOpens(StoreKeys[n].der) /\ Recovery.err = "ok" =>
                               luck = "empty" /\ Recovery.value = JunkKey
      OBVIOUS
    <3>1. chosen.der = StoreKeys[n].der
      BY <1>1, <1>6, ChosenIsAsked
    <3>. QED BY <1>1, <3>1, RecoveryIs, ResultFields
  <2>4. CASE Refused
    <3>1. verdict # "no such key"
      BY <1>5, <1>6
    <3>2. /\ verdict \in {"unsupported", "key password", "no chain", "certificate", "key"}
          /\ Chose
          /\ verdict \in {"unsupported", "key password"} => Recovery.err # "ok"
          /\ verdict \in {"no chain", "certificate", "key"} => Recovery.err = "ok"
      BY <1>1, <2>4, <3>1, RefusedIs
    <3>. QED BY <2>3, <3>2
  <2>5. CASE Made /\ verdict \in {"signed", "mismatch"}
    <3>1. Chose /\ Recovery.err = "ok" /\ Parses(Recovery.value, chosen.chain[1])
      BY <2>5 DEF Made, Usable
    <3>2. Recovery.value # JunkKey
      BY <3>1, JunkIsNoKey
    <3>. QED BY <2>3, <2>5, <3>1, <3>2
  <2>. QED BY <1>2, <2>1, <2>2, <2>4, <2>5
<1>. QED BY <1>3, <1>4, <1>5, <1>6 DEF BlameIsTrue

\* The certificate a chain begins with is the key's.
LEMMA LeafIs ==
    ASSUME Gathering, file \in KeyFile, NEW k \in DOMAIN Keys, LeafAt(k) # 0, AllNamed
    PROVE  /\ LeafAt(k) \in 1 .. Len(Certs)
           /\ IF Keys[k].localId # None /\ \E d \in DOMAIN Certs : Certs[d].localId = Keys[k].localId
                THEN Certs[LeafAt(k)].localId = Keys[k].localId
                ELSE /\ Len(Keys) = 1
                     /\ \A d \in DOMAIN Certs \ {LeafAt(k)} :
                           Certs[d].der.issuer = Certs[LeafAt(k)].der.subject
                             => Certs[d].der.issuer = Certs[d].der.subject
<1>. DEFINE m == Len(Certs)
            id == Keys[k].localId
            I == {j \in 1 .. m : Certs[j].localId = id}
            byId == IF id = None THEN 0 ELSE IF I # {} THEN Min(I) ELSE 0
            all == [i \in DOMAIN Certs |-> Certs[i].der]
            ders == Picked(all, {i \in DOMAIN Certs : Certs[i].der.wellFormed})
            Leaves(s) == {i \in DOMAIN s : ~\E j \in DOMAIN s : /\ j # i
                                                                /\ s[j].issuer = s[i].subject
                                                                /\ s[j].issuer # s[j].subject}
            L == Leaves(ders)
<1>1. m \in Nat /\ DOMAIN Certs = 1 .. m /\ \A i \in 1 .. m : Certs[i].der \in CertDer
  BY CollectedTypes
<1>2. LeafAt(k) = IF byId # 0 THEN byId ELSE IF Len(Keys) = 1 /\ Cardinality(L) = 1 THEN Min(L) ELSE 0
  BY DEF LeafAt, LeafOf, SelectInSeq
<1>3. ders = all
  <2>1. all \in Seq(CertDer) /\ Len(all) = m
    <3>. HIDE DEF m
    <3>1. all = [i \in 1 .. m |-> Certs[i].der]
      BY <1>1
    <3>2. all \in [1 .. m -> CertDer]
      BY <1>1, <3>1
    <3>. HIDE DEF all
    <3>. QED BY <1>1, <3>2
  <2>2. {i \in DOMAIN Certs : Certs[i].der.wellFormed} = 1 .. Len(all)
    BY <1>1, <2>1 DEF AllNamed
  <2>. HIDE DEF all
  <2>3. Picked(all, 1 .. Len(all)) = all
    BY <2>1, PickedMost
  <2>. QED BY <2>2, <2>3
<1>4. DOMAIN all = 1 .. m /\ \A i \in 1 .. m : all[i] = Certs[i].der
  BY <1>1
<1>5. I \in SUBSET Nat /\ 0 \notin I /\ (\A i \in I : i \in 1 .. m /\ Certs[i].localId = id)
      /\ (I # {} <=> \E d \in 1 .. m : Certs[d].localId = id)
  BY <1>1
<1>6. L \in SUBSET Nat /\ \A i \in L : /\ i \in 1 .. m
                                       /\ \A j \in 1 .. m : j # i /\ Certs[j].der.issuer = Certs[i].der.subject
                                            => Certs[j].der.issuer = Certs[j].der.subject
  <2>1. L = Leaves(all)
    <3>. HIDE DEF ders, all, Leaves
    <3>. QED BY <1>3
  <2>. HIDE DEF L, all, m
  <2>. QED BY <1>1, <1>4, <2>1
<1>. HIDE DEF I, L, m
<1>7. I # {} => Min(I) \in I
  BY <1>5, MinOf
<1>8. CASE byId # 0
  <2>1. id # None /\ I # {} /\ byId = Min(I) /\ LeafAt(k) = byId
    BY <1>2, <1>8
  <2>. HIDE DEF byId
  <2>. QED BY <1>1, <1>5, <1>7, <2>1 DEF m
<1>9. CASE byId = 0
  <2>1. ~(id # None /\ I # {})
    BY <1>5, <1>7, <1>9
  <2>. HIDE DEF byId
  <2>2. Len(Keys) = 1 /\ Cardinality(L) = 1 /\ LeafAt(k) = Min(L)
    BY <1>2, <1>9
  <2>3. L # {}
    BY <2>2, FS_EmptySet
  <2>4. LeafAt(k) \in L
    BY <1>6, <2>2, <2>3, MinOf
  <2>. QED BY <1>1, <1>5, <1>6, <2>1, <2>2, <2>4 DEF m
<1>. QED BY <1>8, <1>9

\* The chain of a signer is a line that stops.
LEMMA ChainShown == LoadInv => ChainIsLinked
<1>. SUFFICES ASSUME LoadInv, signer # NoSigner, file.kind = "pkcs12" PROVE ChainIsLinked
  BY DEF ChainIsLinked
<1>1. Request /\ file \in KeyFile /\ ask.source = "ks"
  BY RequestTypes DEF LoadInv, KeySource
<1>2. Made
  BY <1>1 DEF LoadInv
<1>3. Chose /\ signer.certs = chosen.chain /\ chosen.chain # <<>>
  BY <1>2 DEF Made, Usable
<1>4. Listing /\ part = Len(Containers) /\ Len(entries) = Len(Keys) /\ Gathering
  BY <1>3 DEF Chose, Listed, JksListed, Listing
<1>5. PICK k \in 1 .. Len(entries) : chosen = entries[k]
  BY <1>3 DEF Chose
<1>6. /\ chosen.der = Keys[k].der /\ chosen.chain = ChainAt(k) /\ LeafAt(k) # 0 /\ AllNamed
  BY <1>3, <1>4, <1>5 DEF Listing, Fits, ChainAt
<1>7. /\ k \in DOMAIN Keys /\ Certs \in Seq(SafeBag) /\ DOMAIN Certs = 1 .. Len(Certs) /\ Len(Certs) \in Nat
  BY <1>1, <1>4, <1>5, CollectedTypes
<1>. DEFINE leaf == LeafAt(k)
            certs == Certs
            chain == signer.certs
            last == chain[Len(chain)]
            m == Len(certs)
            inChain(c) == \E i \in DOMAIN chain : chain[i] = c
<1>8. /\ leaf \in 1 .. m
      /\ IF Keys[k].localId # None /\ \E d \in DOMAIN certs : certs[d].localId = Keys[k].localId
           THEN certs[leaf].localId = Keys[k].localId
           ELSE /\ Len(Keys) = 1
                /\ \A d \in DOMAIN certs \ {leaf} : certs[d].der.issuer = certs[leaf].der.subject
                                                      => certs[d].der.issuer = certs[d].der.subject
  BY <1>1, <1>4, <1>6, <1>7, LeafIs
<1>9. chain = BuildChain(certs, leaf)
  BY <1>3, <1>6 DEF ChainAt
<1>10. PICK u \in Lineage(certs, leaf) :
          BuildChain(certs, leaf) = [n \in DOMAIN u |-> certs[u[n]].der] /\ Stops(certs, u)
  <2>. HIDE DEF leaf, certs
  <2>1. certs \in Seq(SafeBag) /\ leaf \in 1 .. Len(certs)
    BY <1>7, <1>8 DEF certs
  <2>. QED BY <2>1, ChainBuilt
<1>. DEFINE n == Len(u)
<1>11. /\ u \in Seq(1 .. m) /\ n \in Nat /\ n >= 1 /\ DOMAIN u = 1 .. n /\ u[1] = leaf
       /\ \A i, j \in 1 .. n : u[i] = u[j] => i = j
       /\ \A i \in 1 .. n - 1 : /\ certs[u[i]].der.issuer = certs[u[i + 1]].der.subject
                                /\ certs[u[i]].der.issuer # certs[u[i]].der.subject
       /\ \A i \in 1 .. n : u[i] \in 1 .. m
  <2>. HIDE DEF certs, leaf
  <2>. QED BY LenProperties, ElementOfSeq DEF Lineage
<1>12. /\ DOMAIN chain = 1 .. n /\ Len(chain) = n /\ \A i \in 1 .. n : chain[i] = certs[u[i]].der
  <2>. HIDE DEF certs, leaf, chain, n
  <2>1. chain = [i \in 1 .. n |-> certs[u[i]].der]
    BY <1>9, <1>10, <1>11
  <2>. QED BY <1>11, <2>1
<1>13. DOMAIN certs = 1 .. m
  BY <1>7
<1>14. /\ k \in DOMAIN Keys /\ leaf \in DOMAIN certs /\ Keys[k].der = chosen.der
       /\ certs[leaf].der = chain[1]
  BY <1>6, <1>7, <1>8, <1>11, <1>12, <1>13
<1>. HIDE DEF certs, leaf, chain, m, n
<1>15. \E x \in DOMAIN Keys : \E c \in DOMAIN certs :
          /\ Keys[x].der = chosen.der /\ certs[c].der = chain[1]
          /\ IF Keys[x].localId # None /\ \E d \in DOMAIN certs : certs[d].localId = Keys[x].localId
               THEN certs[c].localId = Keys[x].localId
               ELSE /\ Len(Keys) = 1
                    /\ \A d \in DOMAIN certs \ {c} : certs[d].der.issuer = chain[1].subject
                          => certs[d].der.issuer = certs[d].der.subject
  BY <1>8, <1>14
<1>16. ASSUME NEW i \in 1 .. Len(chain) - 1
       PROVE  chain[i].issuer = chain[i + 1].subject /\ chain[i].issuer # chain[i].subject
  <2>1. i \in 1 .. n - 1 /\ i \in 1 .. n /\ i + 1 \in 1 .. n
    BY <1>11, <1>12
  <2>. QED BY <1>11, <1>12, <2>1
<1>17. ASSUME \A c, d \in DOMAIN certs : certs[c].der = certs[d].der => c = d,
              NEW i \in DOMAIN chain, NEW j \in DOMAIN chain, chain[i] = chain[j]
       PROVE  i = j
  <2>1. i \in 1 .. n /\ j \in 1 .. n /\ u[i] \in DOMAIN certs /\ u[j] \in DOMAIN certs
    BY <1>11, <1>12, <1>13
  <2>2. u[i] = u[j]
    BY <1>12, <1>17, <2>1
  <2>. QED BY <1>11, <2>1, <2>2
<1>18. last.issuer = last.subject
         \/ \A d \in DOMAIN certs : certs[d].der.subject = last.issuer => inChain(certs[d].der)
  <2>1. Last(u) = u[n] /\ n \in 1 .. n /\ last = certs[u[n]].der
    BY <1>11, <1>12 DEF Last, n
  <2>2. CASE certs[Last(u)].der.issuer = certs[Last(u)].der.subject
    BY <2>1, <2>2
  <2>3. CASE Issuers(certs, u) = {}
    <3>. SUFFICES ASSUME NEW d \in DOMAIN certs, certs[d].der.subject = last.issuer
                  PROVE  inChain(certs[d].der)
      OBVIOUS
    <3>1. \E i \in DOMAIN u : u[i] = d
      BY <2>1, <2>3 DEF Issuers
    <3>. QED BY <1>11, <1>12, <3>1
  <2>. QED BY <1>10, <2>2, <2>3 DEF Stops
<1>. QED BY <1>15, <1>16, <1>17, <1>18 DEF ChainIsLinked, certs, chain

-----------------------------------------------------------------------------
(* The theorems on keystores.                                              *)

\* A wrong store password or a tampered PKCS#12 file ends as an integrity
\* failure, whatever else is wrong with the store and whichever thread ends
\* first.
THEOREM IntegrityComesFirst == Loading => []IntegrityFirst
BY LoadKnows, IntegrityShown, PTL

\* The right passwords for an intact store give a signer with the key that
\* was asked for, if that key has its own certificate.
THEOREM RightPasswordsAlwaysSign == Loading => []RightPasswordsSign
BY LoadKnows, RightPasswordsShown, PTL

\* A signature is made only with the key that was asked for, by the right
\* passwords, out of a store that passed its check, and only if the first
\* certificate is the key's.
THEOREM SignerIsAlwaysTheKeys == Loading => []SignerIsTheKeys
BY LoadKnows, SignerShown, PTL

\* What is reported is the cause.
THEOREM BlameIsAlwaysTrue == Loading => []BlameIsTrue
BY LoadKnows, BlameShown, PTL

\* The chain of a PKCS#12 key begins with its certificate, is linked, has no
\* repetition and ends where it must, however certificates are signed across.
THEOREM ChainsAreLinked == Loading => []ChainIsLinked
BY LoadKnows, ChainShown, PTL
=============================================================================
