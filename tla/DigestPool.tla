----------------------------- MODULE DigestPool -----------------------------
(***************************************************************************)
(* The chunk digest pass (digest::content_digest, src/src/digest.rs) with  *)
(* the zipalign inspector that rides on it (align::LfhInspector,           *)
(* src/src/align.rs).  Workers claim chunks of the entries section, the    *)
(* Central Directory and the EOCD from one counter.  With the SHA          *)
(* instructions a worker hashes two chunks in two lanes at once; a second  *)
(* chunk is taken only after a look at the counter that may be stale when  *)
(* the chunk is claimed.                                                   *)
(*                                                                         *)
(* Lengths are of a small scale, as in Sha256: HeaderLen stands for the 30 *)
(* bytes of a local file header.  A lane holds its hasher and the bytes it *)
(* has not absorbed.  Mmap::release, which only unmaps pages that fault    *)
(* back in, is left out.                                                   *)
(***************************************************************************)
EXTENDS Sha256

CONSTANTS
    Threads,     \* threads: the workers, the calling thread included
    ChunkSize,   \* CHUNK_SIZE
    HeaderLen,   \* LFH_LEN
    EntriesLen,  \* the mapped part of the first source (entries section)
    PadLen,      \* its zero padding (tail)
    CdLen,       \* the second source: the Central Directory
    EocdLen,     \* the third
    LfhOffsets   \* the sets of local header offsets to be tried

ASSUME LengthsAssumption ==
    /\ {Threads, ChunkSize, HeaderLen} \subseteq Nat \ {0}
    /\ {EntriesLen, PadLen, CdLen, EocdLen} \subseteq Nat

\* file_order has accepted the offsets.
ASSUME OffsetsAssumption ==
    \A offs \in LfhOffsets : offs \subseteq 0 .. EntriesLen - HeaderLen

Larger(a, b) == IF a >= b THEN a ELSE b

\* Source::len, the sources in the order of the digest.
SourceLen == <<EntriesLen + PadLen, CdLen, EocdLen>>

\* Source::chunk_count
ChunkCount(s) == (SourceLen[s] + ChunkSize - 1) \div ChunkSize
Total == ChunkCount(1) + ChunkCount(2) + ChunkCount(3)
Chunk == 0 .. Total - 1

\* The source a claimed chunk belongs to, and its index there.
SourceOf(k) ==
    IF k < ChunkCount(1) THEN 1 ELSE IF k < ChunkCount(1) + ChunkCount(2) THEN 2 ELSE 3
IndexIn(k) ==
    k - (CASE SourceOf(k) = 1 -> 0
           [] SourceOf(k) = 2 -> ChunkCount(1)
           [] SourceOf(k) = 3 -> ChunkCount(1) + ChunkCount(2))

\* Source::chunk: its part of the data and its part of the padding.
ChunkLen(k) ==
    Least((IndexIn(k) + 1) * ChunkSize, SourceLen[SourceOf(k)]) - IndexIn(k) * ChunkSize
DataLen(k) ==
    IF SourceOf(k) = 1
      THEN Least(ChunkLen(k), Larger(0, EntriesLen - IndexIn(k) * ChunkSize))
      ELSE ChunkLen(k)

\* Its bytes: those of the mapped file or the section, then zeros.
Parts(k) ==
    << [j \in 1 .. DataLen(k) |-> <<"data", SourceOf(k), IndexIn(k) * ChunkSize + j>>],
       Zeros(ChunkLen(k) - DataLen(k)) >>

\* The tag and the length that are hashed before a list of bytes.
Prefix(tag, n) == <<Byte(tag, 0), Byte("u32", n)>>

\* hash_chunk and top_digest, on ring.
HashChunk(parts) == Hash(Prefix("a5", Len(parts[1]) + Len(parts[2])) \o parts[1] \o parts[2])
TopDigest(count, digests) == Hash(Prefix("5a", count) \o digests)

NoChunk == [k |-> -1, h |-> New, parts |-> << <<>>, <<>> >>]

\* Lane::new
NewLane(k) ==
    [k |-> k, h |-> Update(New, Prefix("a5", ChunkLen(k))), parts |-> Parts(k)]

\* The whole blocks of a lane that the two-way kernel can take.
Ready(lane) == IF Gap(lane.h) = 0 THEN Len(lane.parts[1]) \div Block ELSE 0

\* All of the chunk is absorbed.
Absorbed(lane) == lane.parts = << <<>>, <<>> >>

\* The lane once its hasher is h and only rest is left of the part in hand.
Advance(lane, h, rest) == [k |-> lane.k, h |-> h, parts |-> <<rest, lane.parts[2]>>]

\* One turn of the loop in Lane::settle: on to the padding, or bytes through
\* the buffer of the hasher.
Turn(lane) ==
    LET p == lane.parts[1]
        take == IF Gap(lane.h) = 0 THEN Len(p) ELSE Least(Gap(lane.h), Len(p))
    IN IF p = <<>>
         THEN [k |-> lane.k, h |-> lane.h, parts |-> <<lane.parts[2], <<>>>>]
         ELSE Advance(lane, Update(lane.h, Upto(p, take)), From(p, take + 1))

\* Lane::take_blocks: the bytes that go, and those that stay.
Taken(lane, n) == Upto(lane.parts[1], n * Block)
Kept(lane, n) == From(lane.parts[1], n * Block + 1)

Worker == 1 .. Threads
Lane == {0, 1}

VARIABLES
    lfh,         \* the offsets of the local headers, fixed
    bad,         \* those of them where there is no header, fixed
    twoLanes,    \* the SHA instructions are there and the digest is SHA-256
    next,        \* the shared chunk counter
    pc,          \* where each worker is
    at,          \* i: the lane a worker is filling
    lanes,       \* the chunk in each lane, its hasher and the bytes left
    recorded,    \* the digests the workers recorded for each chunk (out)
    found,       \* LfhInspector.found
    straddlers,  \* LfhInspector.straddlers
    error,       \* LfhInspector.error is set
    joined,      \* the caller has collected the digests of all workers
    digest,      \* the content digest, once joined
    lens         \* what finish returns: "none", then "ok", "err" or "unseen"

input == <<lfh, bad, twoLanes>>
inspector == <<found, straddlers, error>>
caller == <<joined, digest, lens>>
vars == <<input, next, pc, at, lanes, recorded, inspector, caller>>

Init ==
    /\ lfh \in LfhOffsets
    /\ bad \in {{}} \cup {{o} : o \in lfh}
    /\ twoLanes \in BOOLEAN
    /\ next = 0
    /\ pc = [w \in Worker |-> "fill"]
    /\ at = [w \in Worker |-> 0]
    /\ lanes = [w \in Worker |-> [i \in Lane |-> NoChunk]]
    /\ recorded = [k \in Chunk |-> <<>>]
    /\ found = {}
    /\ straddlers = {}
    /\ error = FALSE
    /\ joined = FALSE
    /\ digest = <<>>
    /\ lens = "none"

Full(w, i) == lanes[w][i] # NoChunk

\* LfhInspector::inspect of the mapped part of chunk k, before it is hashed:
\* headers that are whole in it are read, the others are set aside.  If one
\* that is read is no header, nothing of the chunk is kept but the error.
MappedFrom(k) == k * ChunkSize
MappedTo(k) == Least((k + 1) * ChunkSize, EntriesLen)
StartsIn(k) == {o \in lfh : MappedFrom(k) <= o /\ o < MappedTo(k)}
WholeIn(k) == {o \in StartsIn(k) : o + HeaderLen <= MappedTo(k)}

\* A header that runs into the next chunk is not set aside.
InspectForgets(k) ==
    CASE SourceOf(k) # 1 -> UNCHANGED inspector
      [] SourceOf(k) = 1 /\ WholeIn(k) \cap bad # {} ->
            error' = TRUE /\ UNCHANGED <<found, straddlers>>
      [] SourceOf(k) = 1 /\ WholeIn(k) \cap bad = {} ->
            found' = found \cup WholeIn(k) /\ UNCHANGED <<straddlers, error>>

Inspect(k) ==
    CASE SourceOf(k) # 1 -> UNCHANGED inspector
      [] SourceOf(k) = 1 /\ WholeIn(k) \cap bad # {} ->
            error' = TRUE /\ UNCHANGED <<found, straddlers>>
      [] SourceOf(k) = 1 /\ WholeIn(k) \cap bad = {} ->
            /\ found' = found \cup WholeIn(k)
            /\ straddlers' = straddlers \cup (StartsIn(k) \ WholeIn(k))
            /\ UNCHANGED error

\* On to the other lane, or to hashing once both have been looked at.
NextLane(w) ==
    IF at[w] = 0
      THEN at' = [at EXCEPT ![w] = 1] /\ pc' = [pc EXCEPT ![w] = "fill"]
      ELSE at' = [at EXCEPT ![w] = 0] /\ pc' = [pc EXCEPT ![w] = "hash"]

-----------------------------------------------------------------------------
(* A worker that fills its lanes.                                          *)

\* The lane is full and settle() goes on.
Settle(w) ==
    /\ pc[w] = "fill" /\ twoLanes /\ Full(w, at[w])
    /\ Ready(lanes[w][at[w]]) = 0 /\ ~Absorbed(lanes[w][at[w]])
    /\ lanes' = [lanes EXCEPT ![w][at[w]] = Turn(@)]
    /\ UNCHANGED <<input, next, pc, at, recorded, inspector, caller>>

\* settle() has blocks for the kernel.
KeepLane(w) ==
    /\ pc[w] = "fill" /\ twoLanes /\ Full(w, at[w]) /\ Ready(lanes[w][at[w]]) > 0
    /\ NextLane(w)
    /\ UNCHANGED <<input, next, lanes, recorded, inspector, caller>>

\* All of its chunk is absorbed: the digest is recorded and the lane is free.
FinishLane(w) ==
    /\ pc[w] = "fill" /\ twoLanes /\ Full(w, at[w]) /\ Absorbed(lanes[w][at[w]])
    /\ recorded' = [recorded EXCEPT ![lanes[w][at[w]].k] = Append(@, Finish(lanes[w][at[w]].h))]
    /\ lanes' = [lanes EXCEPT ![w][at[w]] = NoChunk]
    /\ UNCHANGED <<input, next, pc, at, inspector, caller>>

\* next.load(): a second chunk only while there is one for every thread.
Look(w) ==
    /\ pc[w] = "fill" /\ twoLanes /\ ~Full(w, at[w])
    /\ IF Full(w, 1 - at[w]) /\ Total - next < Threads
         THEN NextLane(w)
         ELSE pc' = [pc EXCEPT ![w] = "claim"] /\ UNCHANGED at
    /\ UNCHANGED <<input, next, lanes, recorded, inspector, caller>>

\* The claim uses the counter as it was looked at.
ClaimLaneStale(w) ==
    /\ pc[w] = "claim"
    /\ next' = next + 1
    /\ IF next < Total
         THEN \E k \in {next, next - 1} \cap Chunk :
                /\ Inspect(k)
                /\ lanes' = [lanes EXCEPT ![w][at[w]] = NewLane(k)]
                /\ pc' = [pc EXCEPT ![w] = "fill"]
                /\ UNCHANGED at
         ELSE /\ NextLane(w)
              /\ UNCHANGED <<lanes, inspector>>
    /\ UNCHANGED <<input, recorded, caller>>

\* claim() into a lane.  The other lane keeps its chunk if there is none.
ClaimLane(w) ==
    /\ pc[w] = "claim"
    /\ next' = next + 1
    /\ IF next < Total
         THEN /\ Inspect(next)
              /\ lanes' = [lanes EXCEPT ![w][at[w]] = NewLane(next)]
              /\ pc' = [pc EXCEPT ![w] = "fill"]
              /\ UNCHANGED at
         ELSE /\ NextLane(w)
              /\ UNCHANGED <<lanes, inspector>>
    /\ UNCHANGED <<input, recorded, caller>>

-----------------------------------------------------------------------------
(* A worker that hashes.                                                   *)

\* The two lanes after the kernel took n blocks of each.
TakeBoth(w, n) ==
    LET a == lanes[w][0]
        b == lanes[w][1]
        h == Update2(a.h, b.h, Taken(a, n), Taken(b, n))
    IN [i \in Lane |-> Advance(lanes[w][i], h[i + 1], Kept(lanes[w][i], n))]

\* One block less than the shorter lane has: never done with it.
HashBothOffByOne(w) ==
    /\ pc[w] = "hash" /\ Full(w, 0) /\ Full(w, 1)
    /\ lanes' = [lanes EXCEPT ![w] = TakeBoth(w, Least(Ready(@[0]), Ready(@[1])) - 1)]
    /\ pc' = [pc EXCEPT ![w] = "fill"]
    /\ UNCHANGED <<input, next, at, recorded, inspector, caller>>

\* Two lanes take as many blocks as both have.
HashBoth(w) ==
    /\ pc[w] = "hash" /\ Full(w, 0) /\ Full(w, 1)
    /\ lanes' = [lanes EXCEPT ![w] = TakeBoth(w, Least(Ready(@[0]), Ready(@[1])))]
    /\ pc' = [pc EXCEPT ![w] = "fill"]
    /\ UNCHANGED <<input, next, at, recorded, inspector, caller>>

\* A single lane takes all its blocks.
HashOne(w) ==
    /\ pc[w] = "hash"
    /\ \E i \in Lane :
          /\ Full(w, i) /\ ~Full(w, 1 - i)
          /\ LET lane == lanes[w][i]
                 n == Ready(lane)
             IN lanes' = [lanes EXCEPT ![w][i] =
                                Advance(lane, Update(lane.h, Taken(lane, n)), Kept(lane, n))]
    /\ pc' = [pc EXCEPT ![w] = "fill"]
    /\ UNCHANGED <<input, next, at, recorded, inspector, caller>>

\* No lane has anything: the worker returns what it recorded.
Return(w) ==
    /\ pc[w] = "hash" /\ ~Full(w, 0) /\ ~Full(w, 1)
    /\ pc' = [pc EXCEPT ![w] = "done"]
    /\ UNCHANGED <<input, next, at, lanes, recorded, inspector, caller>>

\* Without the SHA instructions: one chunk after the other.
HashWhole(w) ==
    /\ pc[w] = "fill" /\ ~twoLanes
    /\ next' = next + 1
    /\ IF next < Total
         THEN /\ Inspect(next)
              /\ recorded' = [recorded EXCEPT ![next] = Append(@, HashChunk(Parts(next)))]
              /\ UNCHANGED pc
         ELSE /\ pc' = [pc EXCEPT ![w] = "done"]
              /\ UNCHANGED <<recorded, inspector>>
    /\ UNCHANGED <<input, at, lanes, caller>>

WorkerStep(w) ==
    \/ Settle(w) \/ KeepLane(w) \/ FinishLane(w) \/ Look(w) \/ ClaimLane(w)
    \/ HashBoth(w) \/ HashOne(w) \/ Return(w) \/ HashWhole(w)

\* One digest for every chunk, one after the other.
Concat(d) ==
    LET upto[n \in 0 .. Total] == IF n = 0 THEN <<>> ELSE upto[n - 1] \o d[n - 1]
    IN upto[Total]

\* concat: every digest at the place of its chunk, zeros where there is none.
InOrder ==
    Concat([k \in Chunk |-> IF recorded[k] = <<>> THEN Zeros(DigestLen)
                            ELSE recorded[k][Len(recorded[k])]])

\* The caller has joined every worker and hashes their digests.
Join ==
    /\ \A w \in Worker : pc[w] = "done"
    /\ ~joined
    /\ joined' = TRUE
    /\ digest' = TopDigest(Total, InOrder)
    /\ UNCHANGED <<input, next, pc, at, lanes, recorded, inspector, lens>>

\* LfhInspector::finish: the headers set aside are read, and all must have
\* been seen.
FinishInspect ==
    /\ joined /\ lens = "none"
    /\ lens' = IF error \/ straddlers \cap bad # {} THEN "err"
               ELSE IF found \cup straddlers = lfh THEN "ok" ELSE "unseen"
    /\ UNCHANGED <<input, next, pc, at, lanes, recorded, inspector, joined, digest>>

Finished == lens # "none" /\ UNCHANGED vars

Next == (\E w \in Worker : WorkerStep(w)) \/ Join \/ FinishInspect \/ Finished

\* The operating system runs every thread that can go on.
Fairness == (\A w \in Worker : WF_vars(WorkerStep(w))) /\ WF_vars(Join \/ FinishInspect)

Spec == Init /\ [][Next]_vars
FairSpec == Spec /\ Fairness
-----------------------------------------------------------------------------
(* Properties.                                                             *)

\* A chunk that was claimed is in one lane of one worker or has one digest,
\* never both or neither, no matter who looked at the counter when; once the
\* workers are joined all have a digest (the debug_assert on all.len()).
EveryChunkOnce ==
    /\ \A k \in Chunk :
          Len(recorded[k]) + Cardinality({s \in Worker \X Lane : lanes[s[1]][s[2]].k = k})
            = IF k < next THEN 1 ELSE 0
    /\ joined => \A k \in Chunk : recorded[k] # <<>>

\* What the signature scheme says: a section, the i-th piece of it that is
\* digested, and the digest of a piece.
Section(s) ==
    [j \in 1 .. SourceLen[s] |-> IF s = 1 /\ j > EntriesLen THEN Zero ELSE <<"data", s, j>>]
Piece(s, i) ==
    SubSeq(Section(s), i * ChunkSize + 1, Least((i + 1) * ChunkSize, SourceLen[s]))
SchemeDigest(m) == Hash(Prefix("a5", Len(m)) \o m)

\* The digest is the one the signature scheme defines, over the chunks of
\* the sections one after the other, no matter which worker hashed a chunk,
\* in which lane, with which other chunk, and where the prefix, the data and
\* the padding end within a block.
DigestIsTheScheme ==
    joined =>
        digest = Hash(Prefix("5a", Total)
                      \o Concat([k \in Chunk |-> SchemeDigest(Piece(SourceOf(k), IndexIn(k)))]))

\* The check of the headers that rides on the digest pass accepts exactly
\* the files whose headers are all there, in whatever order and by whichever
\* worker the chunks are seen and wherever a header straddles two of them; it
\* never claims that a header was not seen.
EveryHeaderSeen ==
    /\ found \cap straddlers = {}
    /\ lens # "none" => lens = IF bad = {} THEN "ok" ELSE "err"

\* The pass ends.
Termination == <>(lens # "none")
=============================================================================
