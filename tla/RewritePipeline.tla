-------------------------- MODULE RewritePipeline --------------------------
(***************************************************************************)
(* The materialising half of align::rewrite (src/src/align.rs): producers  *)
(* claim output chunks from a shared counter, assemble and hash each one   *)
(* in one of two private buffers and send it to the only writer thread;    *)
(* the writer stores it and sends the buffer back through the producer's   *)
(* own channel.  The calling thread spawns them, drops its own sender,     *)
(* joins the producers in order and then the writer.                       *)
(*                                                                         *)
(* A step is what one thread does between two operations other threads can *)
(* see.  Every read of the input and every write of the output may fail.   *)
(* The bytes of a chunk are abstracted to its index; a failed write leaves *)
(* its range torn.                                                         *)
(***************************************************************************)
EXTENDS Integers, Sequences

CONSTANTS
    Threads,        \* the digest thread count (threads)
    MaxProducers,   \* MAX_PRODUCERS
    NewEnd,         \* new_end: the length of the rewritten entries section
    PageAlignment,  \* PAGE_ALIGNMENT, where the signing block starts
    PagesPerChunk,  \* CHUNK_SIZE / PAGE_ALIGNMENT
    NoBuf,          \* no buffer
    Unwritten,      \* what a never written range of the output holds
    Torn            \* what the range of a failed write holds

ASSUME ConstantsAssumption ==
    /\ Threads \in Nat /\ NewEnd \in Nat
    /\ MaxProducers \in Nat \ {0}
    /\ PageAlignment \in Nat \ {0} /\ PagesPerChunk \in Nat \ {0}

ASSUME MarkersAssumption ==
    /\ NoBuf \notin (Nat \X Nat)
    /\ Unwritten \notin Int /\ Torn \notin Int
    /\ Unwritten # Torn

Smaller(a, b) == IF a <= b THEN a ELSE b
Larger(a, b) == IF a >= b THEN a ELSE b

ChunkSize == PageAlignment * PagesPerChunk

\* The zeros that put the signing block on a page boundary: part of the
\* digested section, never written by the pipeline.
PaddingBeforeBlock == (PageAlignment - (NewEnd % PageAlignment)) % PageAlignment

ChunkCount == (NewEnd + PaddingBeforeBlock + ChunkSize - 1) \div ChunkSize
Chunk == 0 .. ChunkCount - 1

\* The bytes of chunk k that assemble_and_hash returns to be written.
RealLen(k) ==
    Larger(0, Smaller((k + 1) * ChunkSize, NewEnd) - k * ChunkSize)
Materialised == {k \in Chunk : RealLen(k) > 0}

NProducers ==
    Smaller(Smaller(Larger(Threads - 1, 1), MaxProducers), Larger(ChunkCount, 1))
Producer == 1 .. NProducers

\* Each producer allocates two buffers.
Buffer == Producer \X {1, 2}

VARIABLES
    next,       \* the shared chunk counter
    pc,         \* where each producer is
    cur,        \* k: the chunk each producer has claimed
    spare,      \* each producer's spare buffer
    held,       \* buf: the buffer each producer fills
    back,       \* each producer's channel of returned buffers
    acc,        \* acc: the chunks whose digest each producer recorded
    content,    \* the chunk whose bytes each buffer holds
    chan,       \* the channel of jobs to the writer
    wpc,        \* where the writer is
    job,        \* the job the writer has in hand
    werr,       \* the writer's first_err is set
    disk,       \* the output file, by chunk
    mpc,        \* where the calling thread is
    started,    \* how many producers are spawned
    joined,     \* how many producers are joined
    all,        \* all: the digests of the joined producers
    merr,       \* the calling thread's first_err is set
    result      \* copy_result

producerVars == <<pc, cur, spare, held, back, acc>>
writerVars == <<wpc, job, werr, disk>>
mainVars == <<mpc, started, joined, all, merr, result>>
vars == <<next, content, chan, producerVars, writerVars, mainVars>>

Bytes == Chunk \cup {Unwritten, Torn}
Job == [off : Chunk, buf : Buffer, back : Producer]
NoJob == [off |-> -1, buf |-> NoBuf, back |-> 0]

Init ==
    /\ next = 0
    /\ pc = [p \in Producer |-> "unborn"]
    /\ cur = [p \in Producer |-> -1]
    /\ spare = [p \in Producer |-> <<p, 1>>]
    /\ held = [p \in Producer |-> NoBuf]
    /\ back = [p \in Producer |-> << <<p, 2>> >>]
    /\ acc = [p \in Producer |-> {}]
    /\ content = [b \in Buffer |-> Unwritten]
    /\ chan = <<>>
    /\ wpc = "recv"
    /\ job = NoJob
    /\ werr = FALSE
    /\ disk = [k \in Chunk |-> Unwritten]
    /\ mpc = "spawn"
    /\ started = 0
    /\ joined = 0
    /\ all = {}
    /\ merr = FALSE
    /\ result = "running"

-----------------------------------------------------------------------------
(* Producers.                                                              *)

\* A producer that returns drops its sender, its spare buffer and its
\* channel with everything in it.
Leave(p, how) ==
    /\ pc' = [pc EXCEPT ![p] = how]
    /\ spare' = [spare EXCEPT ![p] = NoBuf]
    /\ held' = [held EXCEPT ![p] = NoBuf]
    /\ back' = [back EXCEPT ![p] = <<>>]

\* One chunk too many.
ClaimOffByOne(p) ==
    /\ pc[p] = "claim"
    /\ next' = next + 1
    /\ IF next <= ChunkCount
         THEN /\ cur' = [cur EXCEPT ![p] = next]
              /\ pc' = [pc EXCEPT ![p] = "buffer"]
              /\ UNCHANGED <<spare, held, back>>
         ELSE /\ Leave(p, "ok")
              /\ UNCHANGED cur
    /\ UNCHANGED <<acc, content, chan, writerVars, mainVars>>

\* The counter is read and advanced as two operations: the claim hands out
\* what another producer may already hold.
ClaimStale(p) ==
    /\ pc[p] = "claim"
    /\ next' = next + 1
    /\ IF next < ChunkCount
         THEN /\ \E k \in {next, next - 1} \cap Chunk : cur' = [cur EXCEPT ![p] = k]
              /\ pc' = [pc EXCEPT ![p] = "buffer"]
              /\ UNCHANGED <<spare, held, back>>
         ELSE /\ Leave(p, "ok")
              /\ UNCHANGED cur
    /\ UNCHANGED <<acc, content, chan, writerVars, mainVars>>

Claim(p) ==
    /\ pc[p] = "claim"
    /\ next' = next + 1
    /\ IF next < ChunkCount
         THEN /\ cur' = [cur EXCEPT ![p] = next]
              /\ pc' = [pc EXCEPT ![p] = "buffer"]
              /\ UNCHANGED <<spare, held, back>>
         ELSE /\ Leave(p, "ok")
              /\ UNCHANGED cur
    /\ UNCHANGED <<acc, content, chan, writerVars, mainVars>>

\* The spare buffer is used but not taken.
TakeSpareKeepsIt(p) ==
    /\ pc[p] = "buffer" /\ spare[p] # NoBuf
    /\ held' = [held EXCEPT ![p] = spare[p]]
    /\ spare' = spare
    /\ pc' = [pc EXCEPT ![p] = "assemble"]
    /\ UNCHANGED <<next, cur, back, acc, content, chan, writerVars, mainVars>>

\* spare.take()
TakeSpare(p) ==
    /\ pc[p] = "buffer" /\ spare[p] # NoBuf
    /\ held' = [held EXCEPT ![p] = spare[p]]
    /\ spare' = [spare EXCEPT ![p] = NoBuf]
    /\ pc' = [pc EXCEPT ![p] = "assemble"]
    /\ UNCHANGED <<next, cur, back, acc, content, chan, writerVars, mainVars>>

\* back_rx.recv(): the producer owns a sender of this channel, so it blocks
\* while the channel is empty and never sees it closed.
RecvBack(p) ==
    /\ pc[p] = "buffer" /\ spare[p] = NoBuf /\ back[p] # <<>>
    /\ held' = [held EXCEPT ![p] = Head(back[p])]
    /\ back' = [back EXCEPT ![p] = Tail(@)]
    /\ pc' = [pc EXCEPT ![p] = "assemble"]
    /\ UNCHANGED <<next, cur, spare, acc, content, chan, writerVars, mainVars>>

\* assemble_and_hash succeeds: the buffer holds the chunk, its digest is
\* recorded, and the buffer goes to the writer if there are bytes to write.
Assemble(p) ==
    /\ pc[p] = "assemble"
    /\ acc' = [acc EXCEPT ![p] = @ \cup {cur[p]}]
    /\ IF RealLen(cur[p]) > 0
         THEN /\ content' = [content EXCEPT ![held[p]] = cur[p]]
              /\ pc' = [pc EXCEPT ![p] = "send"]
              /\ UNCHANGED <<held, spare>>
         ELSE /\ spare' = [spare EXCEPT ![p] = held[p]]
              /\ held' = [held EXCEPT ![p] = NoBuf]
              /\ pc' = [pc EXCEPT ![p] = "claim"]
              /\ UNCHANGED content
    /\ UNCHANGED <<next, cur, back, chan, writerVars, mainVars>>

\* A read of the input fails; only a chunk with bytes reads any.
AssembleFails(p) ==
    /\ pc[p] = "assemble"
    /\ RealLen(cur[p]) > 0
    /\ content' = [content EXCEPT ![held[p]] = Torn]
    /\ Leave(p, "err")
    /\ UNCHANGED <<next, cur, acc, chan, writerVars, mainVars>>

\* tx.send(): an error if the writer is gone.
Send(p) ==
    /\ pc[p] = "send"
    /\ IF wpc = "done"
         THEN /\ Leave(p, "err")
              /\ UNCHANGED chan
         ELSE /\ chan' = Append(chan, [off |-> cur[p], buf |-> held[p], back |-> p])
              /\ held' = [held EXCEPT ![p] = NoBuf]
              /\ pc' = [pc EXCEPT ![p] = "claim"]
              /\ UNCHANGED <<spare, back>>
    /\ UNCHANGED <<next, cur, acc, content, writerVars, mainVars>>

ProducerStep(p) ==
    \/ Claim(p) \/ TakeSpare(p) \/ RecvBack(p)
    \/ Assemble(p) \/ AssembleFails(p) \/ Send(p)
-----------------------------------------------------------------------------
(* The writer.                                                             *)

\* The writer does not look at first_err.
RecvIgnoresError ==
    /\ wpc = "recv" /\ chan # <<>>
    /\ job' = Head(chan)
    /\ chan' = Tail(chan)
    /\ wpc' = "write"
    /\ UNCHANGED <<next, content, producerVars, werr, disk, mainVars>>

Recv ==
    /\ wpc = "recv" /\ chan # <<>>
    /\ job' = Head(chan)
    /\ chan' = Tail(chan)
    /\ wpc' = IF werr THEN "return" ELSE "write"
    /\ UNCHANGED <<next, content, producerVars, werr, disk, mainVars>>

Write ==
    /\ wpc = "write"
    /\ disk' = [disk EXCEPT ![job.off] = content[job.buf]]
    /\ wpc' = "return"
    /\ UNCHANGED <<next, content, chan, producerVars, job, werr, mainVars>>

\* The error is swallowed: the loop goes on as if the write had succeeded.
WriteFailsSilently ==
    /\ wpc = "write"
    /\ disk' = [disk EXCEPT ![job.off] = Torn]
    /\ wpc' = "return"
    /\ UNCHANGED <<next, content, chan, producerVars, job, werr, mainVars>>

WriteFails ==
    /\ wpc = "write"
    /\ disk' = [disk EXCEPT ![job.off] = Torn]
    /\ werr' = TRUE
    /\ wpc' = "return"
    /\ UNCHANGED <<next, content, chan, producerVars, job, mainVars>>

\* The writer gives up on the first error and keeps the buffer.
ReturnBufferUnlessFailed ==
    /\ wpc = "return"
    /\ back' = IF werr \/ pc[job.back] \in {"ok", "err"}
                 THEN back
                 ELSE [back EXCEPT ![job.back] = Append(@, job.buf)]
    /\ job' = NoJob
    /\ wpc' = "recv"
    /\ UNCHANGED <<next, content, chan, pc, cur, spare, held, acc, werr, disk, mainVars>>

\* job.back.send(job.buf): its failure, the producer being gone, is ignored.
ReturnBuffer ==
    /\ wpc = "return"
    /\ back' = IF pc[job.back] \in {"ok", "err"}
                 THEN back
                 ELSE [back EXCEPT ![job.back] = Append(@, job.buf)]
    /\ job' = NoJob
    /\ wpc' = "recv"
    /\ UNCHANGED <<next, content, chan, pc, cur, spare, held, acc, werr, disk, mainVars>>

\* for job in rx ends once the channel is empty and every sender is gone:
\* the caller's and those of all producers.
SendersGone ==
    /\ mpc \notin {"spawn", "drop"}
    /\ \A p \in Producer : pc[p] \in {"ok", "err"}

WriterStop ==
    /\ wpc = "recv" /\ chan = <<>> /\ SendersGone
    /\ wpc' = "done"
    /\ UNCHANGED <<next, content, chan, producerVars, job, werr, disk, mainVars>>

WriterStep == Recv \/ Write \/ WriteFails \/ ReturnBuffer \/ WriterStop
-----------------------------------------------------------------------------
(* The calling thread, inside std::thread::scope.                          *)

Spawn ==
    /\ mpc = "spawn"
    /\ started' = started + 1
    /\ pc' = [pc EXCEPT ![started + 1] = "claim"]
    /\ mpc' = IF started + 1 = NProducers THEN "drop" ELSE "spawn"
    /\ UNCHANGED <<next, content, chan, cur, spare, held, back, acc, writerVars,
                   joined, all, merr, result>>

\* drop(tx)
DropSender ==
    /\ mpc = "drop"
    /\ mpc' = "join"
    /\ UNCHANGED <<next, content, chan, producerVars, writerVars,
                   started, joined, all, merr, result>>

\* h.join() of the producers, in the order they were spawned.
JoinProducer ==
    /\ mpc = "join"
    /\ pc[joined + 1] \in {"ok", "err"}
    /\ joined' = joined + 1
    /\ IF pc[joined + 1] = "ok"
         THEN all' = all \cup acc[joined + 1] /\ UNCHANGED merr
         ELSE merr' = TRUE /\ UNCHANGED all
    /\ mpc' = IF joined + 1 = NProducers THEN "joinWriter" ELSE "join"
    /\ UNCHANGED <<next, content, chan, producerVars, writerVars, started, result>>

\* Only the writer's verdict is looked at.
JoinWriterOnly ==
    /\ mpc = "joinWriter" /\ wpc = "done"
    /\ result' = IF werr THEN "write" ELSE "ok"
    /\ mpc' = "done"
    /\ UNCHANGED <<next, content, chan, producerVars, writerVars,
                   started, joined, all, merr>>

\* A producer's error comes before the writer's.
JoinWriter ==
    /\ mpc = "joinWriter" /\ wpc = "done"
    /\ result' = IF merr THEN "read" ELSE IF werr THEN "write" ELSE "ok"
    /\ mpc' = "done"
    /\ UNCHANGED <<next, content, chan, producerVars, writerVars,
                   started, joined, all, merr>>

MainStep == Spawn \/ DropSender \/ JoinProducer \/ JoinWriter

Terminated == mpc = "done" /\ UNCHANGED vars

Next ==
    \/ \E p \in Producer : ProducerStep(p)
    \/ WriterStep
    \/ MainStep
    \/ Terminated

\* The operating system runs every thread that can go on.
Fairness ==
    /\ \A p \in Producer : WF_vars(ProducerStep(p))
    /\ WF_vars(WriterStep)
    /\ WF_vars(MainStep)

Spec == Init /\ [][Next]_vars
FairSpec == Spec /\ Fairness
-----------------------------------------------------------------------------
(* Properties.                                                             *)

TypeOK ==
    /\ next \in Nat
    /\ pc \in [Producer -> {"unborn", "claim", "buffer", "assemble", "send", "ok", "err"}]
    /\ cur \in [Producer -> Chunk \cup {-1}]
    /\ spare \in [Producer -> Buffer \cup {NoBuf}]
    /\ held \in [Producer -> Buffer \cup {NoBuf}]
    /\ back \in [Producer -> Seq(Buffer)]
    /\ acc \in [Producer -> SUBSET Chunk]
    /\ content \in [Buffer -> Bytes]
    /\ chan \in Seq(Job)
    /\ wpc \in {"recv", "write", "return", "done"}
    /\ job \in Job \cup {NoJob}
    /\ werr \in BOOLEAN
    /\ disk \in [Chunk -> Bytes]
    /\ mpc \in {"spawn", "drop", "join", "joinWriter", "done"}
    /\ started \in 0 .. NProducers
    /\ joined \in 0 .. NProducers
    /\ all \in SUBSET Chunk
    /\ merr \in BOOLEAN
    /\ result \in {"running", "ok", "read", "write"}

\* The places where buffer b is; only its owner's channel takes it back.
Places(b) ==
    {<<"spare", p>> : p \in {q \in Producer : spare[q] = b}}
    \cup {<<"held", p>> : p \in {q \in Producer : held[q] = b}}
    \cup {<<"back", i>> : i \in {j \in 1 .. Len(back[b[1]]) : back[b[1]][j] = b}}
    \cup {<<"chan", i>> : i \in {j \in 1 .. Len(chan) : chan[j].buf = b}}
    \cup {<<"writer", i>> : i \in {j \in {0} : job.buf = b}}

\* While a producer runs, each of its two buffers is in exactly one place:
\* no two threads ever hold the same buffer, and none is lost, which is why a
\* producer waiting for a buffer always gets one.
BufferConservation ==
    \A b \in Buffer :
        pc[b[1]] \notin {"ok", "err"} => \E x \in Places(b) : Places(b) = {x}

\* Ok means that every chunk was digested exactly as it lies in the output
\* file, whatever buffer it travelled in and whoever assembled it.
SuccessMeansComplete ==
    result = "ok" => /\ all = Chunk
                     /\ \A k \in Materialised : disk[k] = k

\* The error that rewrite returns is the one that happened: a read error of
\* any producer is reported even when the writer did well, and a write error
\* only when every producer did.
VerdictNamesTheCause ==
    result # "running" =>
        /\ result = "read" <=> \E p \in Producer : pc[p] = "err"
        /\ result = "write" <=> /\ \A p \in Producer : pc[p] = "ok"
                                /\ \E k \in Chunk : disk[k] = Torn

\* After a failed write the writer only hands buffers back: the output file
\* is never touched again.
NoWriteAfterFailure == [][werr => UNCHANGED disk]_vars

\* rewrite returns, whatever fails and in whatever order the threads run.
Termination == <>(result # "running")

Promise == INSTANCE ChunkedRewrite WITH
    hashed <- UNION {acc[p] : p \in Producer},
    written <- {k \in Chunk : disk[k] = k},
    failed <- werr \/ \E p \in Producer : pc[p] = "err",
    verdict <- IF result \in {"read", "write"} THEN "err" ELSE result

\* The pipeline does what its caller is promised: ChunkedRewrite.
KeepsPromise == Promise!AbsSpec
=============================================================================
