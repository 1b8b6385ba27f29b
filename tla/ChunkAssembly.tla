---------------------------- MODULE ChunkAssembly ----------------------------
(***************************************************************************)
(* Chunker::assemble_and_hash (src/src/align.rs): one producer builds      *)
(* chunks of the rewritten APK, header bytes from the plans and data bytes *)
(* from the input, through a buffer for the chunk and a buffer for the     *)
(* span of the input it needs, both full of what earlier chunks left.      *)
(* Other producers may take any of the chunks.                             *)
(*                                                                         *)
(* A byte is named for where it comes from: a place in a plan's header, a  *)
(* place in the input, or a zero.                                          *)
(***************************************************************************)
EXTENDS Integers, Sequences

CONSTANTS
    Plans,      \* the lists of plans to be tried, as the planner makes them
    ChunkSize,  \* CHUNK_SIZE
    Page,       \* PAGE_ALIGNMENT, the length of ZEROS
    SrcWindow   \* the length of src_buf

OutEnd(p) == p.off + p.hdr + p.len

\* Plans that lie one behind the other: what the planner promises.
IsLayout(ps) ==
    /\ ps \in Seq([off : Nat, hdr : Nat, src : Nat, len : Nat])
    /\ \A i \in DOMAIN ps :
          /\ ps[i].hdr + ps[i].len > 0
          /\ ps[i].off = IF i = 1 THEN 0 ELSE OutEnd(ps[i - 1])

ASSUME SizesAssumption ==
    /\ {ChunkSize, Page, SrcWindow} \subseteq Nat \ {0}
    /\ ChunkSize % Page = 0
    /\ \A ps \in Plans : IsLayout(ps)

VARIABLES
    layout,     \* self.plans
    stage,
    chunk,      \* the chunk at hand, or the least that may be left to claim
    buf,        \* buf
    src,        \* src_buf
    window,     \* where in the input src_buf begins, -1 for none
    copied,     \* how many of the overlapping plans are copied
    hashed      \* the bytes that were digested for the chunk

assemblyVars == <<layout, stage, chunk, buf, src, window, copied, hashed>>
-----------------------------------------------------------------------------
(* Bytes and places.                                                       *)

MaxOf(a, b) == IF a >= b THEN a ELSE b
MinOf(a, b) == IF a <= b THEN a ELSE b

Zero == <<"zero">>
HeaderByte(p, n) == <<"header", p.off, n>>
InputByte(n) == <<"input", n>>

NewEnd == IF layout = <<>> THEN 0 ELSE OutEnd(layout[Len(layout)])

\* A whole page at the end of a page.
PadTooMuch == Page - (NewEnd % Page)

\* padding_before_block
Pad == (Page - (NewEnd % Page)) % Page

PaddedEnd == NewEnd + Pad
ChunkCount == (PaddedEnd + ChunkSize - 1) \div ChunkSize

\* The chunk is [Cs, Ce), of which [Cs, RealEnd) is entries.
Cs == chunk * ChunkSize
Ce == MinOf(Cs + ChunkSize, PaddedEnd)
RealEnd == MinOf(Ce, NewEnd)
Real == MaxOf(RealEnd - Cs, 0)
Zeros == Ce - Cs - Real

\* What the two binary searches find: how many plans end before the chunk
\* begins, and how many begin before its entries end.
Ended ==
    CHOOSE i \in 0 .. Len(layout) : \A j \in DOMAIN layout : OutEnd(layout[j]) <= Cs <=> j <= i
Begun ==
    CHOOSE i \in 0 .. Len(layout) : \A j \in DOMAIN layout : layout[j].off < RealEnd <=> j <= i

\* The first plan is taken for the one that begins in the chunk.
OverlappingByStart ==
    SubSeq(layout, (CHOOSE i \in 0 .. Len(layout) :
                       \A j \in DOMAIN layout : layout[j].off < Cs <=> j <= i) + 1, Begun)

\* The plans that have bytes in the chunk.
Overlapping == SubSeq(layout, Ended + 1, Begun)

\* The part of plan p's data in the chunk, as [From, To) of the output, and
\* the place in the input of output byte n.
From(p) == MaxOf(p.off + p.hdr, Cs)
To(p) == MinOf(OutEnd(p), RealEnd)

InputOff(p, n) == p.src + n - (p.off + p.hdr)

\* The span of the input the chunk needs, and whether src_buf holds it.
Pieces ==
    {Overlapping[i] : i \in {j \in DOMAIN Overlapping : From(Overlapping[j]) < To(Overlapping[j])}}
Least(S) == CHOOSE n \in S : \A o \in S : n <= o
Greatest(S) == CHOOSE n \in S : \A o \in S : n >= o
Lo == Least({InputOff(p, From(p)) : p \in Pieces})
Hi == Greatest({InputOff(p, To(p)) : p \in Pieces})
Compact == Pieces # {} /\ Hi - Lo <= SrcWindow
-----------------------------------------------------------------------------
AssemblyInit ==
    /\ layout \in Plans
    /\ stage = "claim" /\ chunk = 0
    /\ buf = [n \in 0 .. ChunkSize - 1 |-> Zero]
    /\ src = [n \in 0 .. SrcWindow - 1 |-> Zero]
    /\ window = -1
    /\ copied = 0
    /\ hashed = <<>>

\* The counter may have gone on by any number.
Claim ==
    /\ stage = "claim"
    /\ \E j \in chunk .. ChunkCount - 1 : chunk' = j
    /\ stage' = "span"
    /\ UNCHANGED <<layout, buf, src, window, copied, hashed>>

\* One read for the whole chunk, into the front of src_buf.
ReadWindow ==
    /\ stage = "span" /\ Compact
    /\ src' = [n \in DOMAIN src |-> IF n < Hi - Lo THEN InputByte(Lo + n) ELSE src[n]]
    /\ window' = Lo
    /\ stage' = "copy" /\ copied' = 0
    /\ UNCHANGED <<layout, chunk, buf, hashed>>

\* The span is too wide, or empty.
NoWindow ==
    /\ stage = "span" /\ ~Compact
    /\ window' = -1
    /\ stage' = "copy" /\ copied' = 0
    /\ UNCHANGED <<layout, chunk, buf, src, hashed>>

\* One plan: what the chunk has of its header, then of its data, from
\* src_buf or straight from the input.
CopyPlan ==
    /\ stage = "copy" /\ copied < Len(Overlapping)
    /\ LET p == Overlapping[copied + 1]
           Byte(n) == IF window = -1 THEN InputByte(InputOff(p, n))
                      ELSE src[InputOff(p, n) - window]
       IN  buf' = [c \in DOMAIN buf |->
                     CASE Cs + c >= p.off /\ Cs + c < MinOf(p.off + p.hdr, RealEnd) ->
                            HeaderByte(p, Cs + c - p.off)
                       [] Cs + c >= From(p) /\ Cs + c < To(p) -> Byte(Cs + c)
                       [] OTHER -> buf[c]]
    /\ copied' = copied + 1
    /\ UNCHANGED <<layout, stage, chunk, src, window, hashed>>

\* A read fails: the producer leaves with the error.
ReadFails ==
    /\ \/ stage = "span" /\ Compact
       \/ /\ stage = "copy" /\ copied < Len(Overlapping) /\ window = -1
          /\ From(Overlapping[copied + 1]) < To(Overlapping[copied + 1])
    /\ stage' = "failed"
    /\ UNCHANGED <<layout, chunk, buf, src, window, copied, hashed>>

\* hash_chunk: the parts, one behind the other.
HashChunk(bytes, zeros) == bytes \o zeros

Hash ==
    /\ stage = "copy" /\ copied = Len(Overlapping)
    /\ hashed' = HashChunk([c \in 1 .. Real |-> buf[c - 1]], [c \in 1 .. Zeros |-> Zero])
    /\ stage' = "hashed"
    /\ UNCHANGED <<layout, chunk, buf, src, window, copied>>

\* acc.push and tx.send; the buffer comes back as it is.
Send ==
    /\ stage = "hashed"
    /\ stage' = "claim" /\ chunk' = chunk + 1
    /\ hashed' = <<>> /\ window' = -1 /\ copied' = 0
    /\ UNCHANGED <<layout, buf, src>>

NoMoreChunks ==
    /\ stage = "failed" \/ (stage = "claim" /\ chunk >= ChunkCount)
    /\ UNCHANGED assemblyVars

AssemblyNext == Claim \/ ReadWindow \/ NoWindow \/ CopyPlan \/ ReadFails \/ Hash \/ Send \/ NoMoreChunks

Assembly == AssemblyInit /\ [][AssemblyNext]_assemblyVars
-----------------------------------------------------------------------------
(* Properties.                                                             *)

\* The whole contents section: plan after plan, and the padding.
PlanBytes(p) ==
    [n \in 1 .. p.hdr |-> HeaderByte(p, n - 1)] \o [n \in 1 .. p.len |-> InputByte(p.src + n - 1)]
Image ==
    LET upto[i \in 0 .. Len(layout)] ==
            IF i = 0 THEN <<>> ELSE upto[i - 1] \o PlanBytes(layout[i])
    IN  upto[Len(layout)] \o [n \in 1 .. Pad |-> Zero]

\* What is digested for a chunk is that part of the contents section, and
\* what is handed to the writer is the same without the padding, however the
\* plans lie across its bounds and whatever the buffers held before.
ChunkIsTheImage ==
    stage = "hashed" =>
        /\ hashed = SubSeq(Image, Cs + 1, Ce)
        /\ \A n \in 1 .. Real : buf[n - 1] = Image[Cs + n]

\* Every chunk has a byte of the entries, so it is sent to the writer, and
\* its padding fits in the page of zeros the code has for it.
NoPaddingAlone == stage # "claim" => Real > 0 /\ Zeros \in 0 .. Page
=============================================================================
