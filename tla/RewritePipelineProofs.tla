----------------------- MODULE RewritePipelineProofs -----------------------
(***************************************************************************)
(* Proofs about RewritePipeline: why the pipeline of align::rewrite loses  *)
(* no buffer, no chunk and no error, for every number of threads and every *)
(* length of the rewritten entries section.                                *)
(*                                                                         *)
(* After the types the inductive invariant has four parts.  Buffers says   *)
(* where buffers are: with their owner, in its channel, on the way to the  *)
(* writer or in the writer's hand, and in one of these places only.        *)
(* Carried says that a buffer holds the chunk its job names, which Buffers *)
(* keeps true while buffers are reused.  Tracked follows each claimed      *)
(* chunk to the file, and Verdicts each error to the caller.               *)
(***************************************************************************)
EXTENDS RewritePipeline, TLAPS

\* The derived constants: there is at least one producer, and the number of
\* chunks is a number.
LEMMA Constants ==
    /\ ChunkSize \in Nat \ {0}
    /\ PaddingBeforeBlock \in Nat
    /\ ChunkCount \in Nat
    /\ NProducers \in Nat \ {0}
    /\ \A k \in Chunk : k \in Nat /\ k < ChunkCount
<1>1. ChunkSize \in Nat \ {0}
  BY ConstantsAssumption DEF ChunkSize
<1>2. PaddingBeforeBlock \in Nat
  BY ConstantsAssumption DEF PaddingBeforeBlock
<1>3. ChunkCount \in Nat
  <2>. DEFINE a == NewEnd + PaddingBeforeBlock + ChunkSize - 1
  <2>1. a \in Nat
    BY <1>1, <1>2, ConstantsAssumption
  <2>2. a \div ChunkSize \in Nat
    <3>. HIDE DEF a
    <3>. QED BY <1>1, <2>1
  <2>. QED BY <2>2 DEF ChunkCount
<1>4. NProducers \in Nat \ {0}
  BY <1>3, ConstantsAssumption DEF NProducers, Smaller, Larger
<1>5. \A k \in Chunk : k \in Nat /\ k < ChunkCount
  BY <1>3 DEF Chunk
<1>. QED BY <1>1, <1>2, <1>3, <1>4, <1>5
-----------------------------------------------------------------------------
(* Type correctness.  A job in hand is a real one while the writer works on *)
(* it, and a producer between its claim and its send has a real chunk and  *)
(* from the assembly on a real buffer; the type invariant needs both.      *)

InHand ==
    /\ wpc \in {"write", "return"} => job \in Job
    /\ \A p \in Producer :
          /\ pc[p] \in {"buffer", "assemble", "send"} => cur[p] \in Chunk
          /\ pc[p] \in {"assemble", "send"} => held[p] \in Buffer
    /\ mpc = "spawn" => started < NProducers
    /\ mpc \in {"spawn", "drop"} => joined = 0
    /\ mpc = "join" => joined < NProducers

TypeInv == TypeOK /\ InHand

\* The type invariant holds initially.
LEMMA InitType == Init => TypeInv
<1>. SUFFICES ASSUME Init PROVE TypeInv
  OBVIOUS
<1>. USE Constants DEF Init
<1>1. back \in [Producer -> Seq(Buffer)]
  BY DEF Buffer
<1>2. spare \in [Producer -> Buffer \cup {NoBuf}]
  BY DEF Buffer
<1>3. started \in 0 .. NProducers /\ joined \in 0 .. NProducers
  OBVIOUS
<1>4. cur \in [Producer -> Chunk \cup {-1}]
  OBVIOUS
<1>5. chan \in Seq(Job) /\ acc \in [Producer -> SUBSET Chunk] /\ all \in SUBSET Chunk
  OBVIOUS
<1>6. disk \in [Chunk -> Bytes] /\ content \in [Buffer -> Bytes]
  BY DEF Bytes
<1>7. TypeOK
  BY <1>1, <1>2, <1>3, <1>4, <1>5, <1>6 DEF TypeOK
<1>8. InHand
  BY DEF InHand
<1>. QED BY <1>7, <1>8 DEF TypeInv

\* Every step of a producer keeps the type invariant.
LEMMA ProducerType ==
    ASSUME TypeInv, NEW p \in Producer, ProducerStep(p)
    PROVE  TypeInv'
<1>. USE DEF TypeInv, TypeOK, InHand
<1>1. CASE Claim(p) /\ next < ChunkCount
  <2>1. next \in Chunk
    BY <1>1, Constants DEF Chunk
  <2>. /\ next' = next + 1
       /\ cur' = [cur EXCEPT ![p] = next]
       /\ pc' = [pc EXCEPT ![p] = "buffer"]
       /\ UNCHANGED <<spare, held, back, acc, content, chan, writerVars, mainVars>>
    BY <1>1 DEF Claim
  <2>2. next' \in Nat
    OBVIOUS
  <2>3. TypeOK'
    BY <2>1, <2>2 DEF writerVars, mainVars
  <2>4. InHand'
    BY <2>1 DEF writerVars, mainVars
  <2>. QED BY <2>3, <2>4
<1>2. CASE Claim(p) /\ ~(next < ChunkCount)
  <2>1. <<>> \in Seq(Buffer)
    OBVIOUS
  <2>2. Leave(p, "ok") /\ next' = next + 1
        /\ UNCHANGED <<cur, acc, content, chan, writerVars, mainVars>>
    BY <1>2 DEF Claim
  <2>3. next' \in Nat
    BY <2>2
  <2>4. TypeOK'
    BY <2>1, <2>2, <2>3 DEF Leave, writerVars, mainVars
  <2>5. InHand'
    BY <2>2 DEF Leave, writerVars, mainVars
  <2>. QED BY <2>4, <2>5
<1>3. CASE TakeSpare(p)
  BY <1>3 DEF TakeSpare, writerVars, mainVars
<1>4. CASE RecvBack(p)
  BY <1>4 DEF RecvBack, writerVars, mainVars
<1>5. CASE Assemble(p)
  <2>1. CASE RealLen(cur[p]) > 0
    <3>1. /\ pc[p] = "assemble"
          /\ acc' = [acc EXCEPT ![p] = @ \cup {cur[p]}]
          /\ content' = [content EXCEPT ![held[p]] = cur[p]]
          /\ pc' = [pc EXCEPT ![p] = "send"]
          /\ UNCHANGED <<held, spare, next, cur, back, chan, writerVars, mainVars>>
      BY <1>5, <2>1 DEF Assemble
    <3>. QED BY <3>1 DEF writerVars, mainVars, Bytes
  <2>2. CASE ~(RealLen(cur[p]) > 0)
    <3>1. /\ pc[p] = "assemble"
          /\ acc' = [acc EXCEPT ![p] = @ \cup {cur[p]}]
          /\ spare' = [spare EXCEPT ![p] = held[p]]
          /\ held' = [held EXCEPT ![p] = NoBuf]
          /\ pc' = [pc EXCEPT ![p] = "claim"]
          /\ UNCHANGED <<content, next, cur, back, chan, writerVars, mainVars>>
      BY <1>5, <2>2 DEF Assemble
    <3>. QED BY <3>1 DEF writerVars, mainVars
  <2>. QED BY <2>1, <2>2
<1>6. CASE AssembleFails(p)
  BY <1>6 DEF AssembleFails, Leave, writerVars, mainVars, Bytes
<1>7. CASE Send(p) /\ wpc = "done"
  <2>1. <<>> \in Seq(Buffer)
    OBVIOUS
  <2>2. /\ Leave(p, "err")
        /\ UNCHANGED <<next, cur, acc, content, chan, writerVars, mainVars>>
    BY <1>7 DEF Send
  <2>. QED BY <2>1, <2>2 DEF Leave, writerVars, mainVars
<1>8. CASE Send(p) /\ wpc # "done"
  <2>1. [off |-> cur[p], buf |-> held[p], back |-> p] \in Job
    BY <1>8 DEF Send, Job
  <2>2. chan' = Append(chan, [off |-> cur[p], buf |-> held[p], back |-> p])
    BY <1>8 DEF Send
  <2>3. chan' \in Seq(Job)
    BY <2>1, <2>2
  <2>4. /\ held' = [held EXCEPT ![p] = NoBuf]
        /\ pc' = [pc EXCEPT ![p] = "claim"]
        /\ UNCHANGED <<spare, back, next, cur, acc, content, writerVars, mainVars>>
    BY <1>8 DEF Send
  <2>. QED BY <2>3, <2>4 DEF writerVars, mainVars
<1>. QED BY <1>1, <1>2, <1>3, <1>4, <1>5, <1>6, <1>7, <1>8 DEF ProducerStep

\* Every step of the writer keeps the type invariant.
LEMMA WriterType == TypeInv /\ WriterStep => TypeInv'
<1>. SUFFICES ASSUME TypeInv, WriterStep PROVE TypeInv'
  OBVIOUS
<1>. USE DEF TypeInv, TypeOK, InHand
<1>1. CASE Recv
  BY <1>1 DEF Recv, producerVars, mainVars
<1>2. CASE Write
  BY <1>2 DEF Write, producerVars, mainVars, Job
<1>3. CASE WriteFails
  BY <1>3 DEF WriteFails, producerVars, mainVars, Job, Bytes
<1>4. CASE ReturnBuffer
  BY <1>4 DEF ReturnBuffer, mainVars, Job
<1>5. CASE WriterStop
  BY <1>5 DEF WriterStop, producerVars, mainVars
<1>. QED BY <1>1, <1>2, <1>3, <1>4, <1>5 DEF WriterStep

\* Every step of the calling thread keeps the type invariant.
LEMMA MainType == TypeInv /\ MainStep => TypeInv'
<1>. SUFFICES ASSUME TypeInv, MainStep PROVE TypeInv'
  OBVIOUS
<1>. USE DEF TypeInv, TypeOK, InHand
<1>1. CASE Spawn
  <2>1. started + 1 \in 0 .. NProducers /\ started + 1 \in Producer
    BY <1>1, Constants DEF Spawn, Producer
  <2>2. mpc' = "spawn" => started' < NProducers
    BY <1>1, <2>1, Constants DEF Spawn
  <2>. QED BY <1>1, <2>1, <2>2 DEF Spawn, writerVars
<1>2. CASE DropSender
  BY <1>2, Constants DEF DropSender, producerVars, writerVars
<1>3. CASE JoinProducer
  <2>1. joined + 1 \in 0 .. NProducers /\ joined + 1 \in Producer
    BY <1>3, Constants DEF JoinProducer, Producer
  <2>2. mpc' = "join" => joined' < NProducers
    BY <1>3, <2>1, Constants DEF JoinProducer
  <2>. QED BY <1>3, <2>1, <2>2 DEF JoinProducer, producerVars, writerVars
<1>4. CASE JoinWriter
  BY <1>4 DEF JoinWriter, producerVars, writerVars
<1>. QED BY <1>1, <1>2, <1>3, <1>4 DEF MainStep

\* Every step keeps the type invariant.
LEMMA NextType == TypeInv /\ [Next]_vars => TypeInv'
<1>. SUFFICES ASSUME TypeInv, [Next]_vars PROVE TypeInv'
  OBVIOUS
<1>1. CASE \E p \in Producer : ProducerStep(p)
  BY <1>1, ProducerType
<1>2. CASE WriterStep
  BY <1>2, WriterType
<1>3. CASE MainStep
  BY <1>3, MainType
<1>4. CASE UNCHANGED vars
  BY <1>4 DEF TypeInv, TypeOK, InHand, vars, producerVars, writerVars, mainVars
<1>. QED BY <1>1, <1>2, <1>3, <1>4 DEF Next, Terminated

\* Every state the pipeline can reach is well typed: no producer works on a
\* chunk that does not exist or on no buffer, and the writer never on no job.
THEOREM TypeCorrect == Spec => []TypeOK
<1>1. TypeInv => TypeOK
  BY DEF TypeInv
<1>. QED BY InitType, NextType, <1>1, PTL DEF Spec
-----------------------------------------------------------------------------
(* The writer enters a write only while nothing has failed, and only one of *)
(* its own writes can fail.                                                *)

Quiet == wpc = "write" => werr = FALSE

\* Every step keeps Quiet.
LEMMA NextQuiet == TypeInv /\ Quiet /\ [Next]_vars => Quiet'
<1>. SUFFICES ASSUME TypeInv, Quiet, [Next]_vars PROVE Quiet'
  OBVIOUS
<1>. USE DEF Quiet
<1>1. ASSUME NEW p \in Producer, ProducerStep(p) PROVE Quiet'
  BY <1>1 DEF ProducerStep, Claim, TakeSpare, RecvBack, Assemble, AssembleFails,
              Send, writerVars
<1>2. CASE WriterStep
  BY <1>2 DEF WriterStep, Recv, Write, WriteFails, ReturnBuffer, WriterStop,
              TypeInv, TypeOK
<1>3. CASE MainStep
  BY <1>3 DEF MainStep, Spawn, DropSender, JoinProducer, JoinWriter, writerVars
<1>4. CASE UNCHANGED vars
  BY <1>4 DEF vars, writerVars
<1>. QED BY <1>1, <1>2, <1>3, <1>4 DEF Next, Terminated

\* After a failed write no step of any thread changes the output file: the
\* writer keeps receiving, to hand buffers back, but never writes again.
THEOREM QuietAfterFailure == Spec => NoWriteAfterFailure
<1>1. Init => Quiet
  BY DEF Init, Quiet
<1>2. Quiet /\ [Next]_vars => [werr => UNCHANGED disk]_vars
  <2>. SUFFICES ASSUME Quiet, Next, werr PROVE UNCHANGED disk
    OBVIOUS
  <2>1. ASSUME NEW p \in Producer, ProducerStep(p) PROVE UNCHANGED disk
    BY <2>1 DEF ProducerStep, Claim, TakeSpare, RecvBack, Assemble, AssembleFails,
                Send, writerVars
  <2>2. CASE WriterStep
    BY <2>2 DEF WriterStep, Recv, Write, WriteFails, ReturnBuffer, WriterStop, Quiet
  <2>3. CASE MainStep
    BY <2>3 DEF MainStep, Spawn, DropSender, JoinProducer, JoinWriter, writerVars
  <2>. QED BY <2>1, <2>2, <2>3 DEF Next, Terminated, vars, writerVars
<1>. QED BY InitType, NextType, NextQuiet, <1>1, <1>2, PTL DEF Spec, NoWriteAfterFailure
-----------------------------------------------------------------------------
(* What a buffer, a chunk and an error go through.                         *)

Gone(p) == pc[p] \in {"ok", "err"}
Owner(b) == b[1]

\* A buffer is only ever where its owner put it or where it comes back to it.
Owned ==
    /\ \A p \in Producer : spare[p] # NoBuf => Owner(spare[p]) = p
    /\ \A p \in Producer : held[p] # NoBuf => Owner(held[p]) = p
    /\ \A p \in Producer : \A i \in 1 .. Len(back[p]) : Owner(back[p][i]) = p
    /\ \A i \in 1 .. Len(chan) : Owner(chan[i].buf) = chan[i].back
    /\ job # NoJob => Owner(job.buf) = job.back

\* A producer holds a buffer exactly while it assembles or sends a chunk.
Holding ==
    /\ \A p \in Producer : held[p] # NoBuf <=> pc[p] \in {"assemble", "send"}
    /\ \A p \in Producer : held[p] # NoBuf => spare[p] = NoBuf
    /\ \A p \in Producer : Gone(p) => spare[p] = NoBuf /\ back[p] = <<>>
    /\ job = NoJob <=> wpc \in {"recv", "done"}

\* Buffer b is with producer p: its spare one, the one it fills, or one that
\* waits in its channel.
AtHome(p, b) ==
    spare[p] = b \/ held[p] = b \/ \E i \in 1 .. Len(back[p]) : back[p][i] = b

\* A producer has no buffer twice.
OnceAtHome ==
    \A p \in Producer :
        /\ spare[p] # NoBuf => spare[p] # held[p]
        /\ \A i \in 1 .. Len(back[p]) : back[p][i] # spare[p] /\ back[p][i] # held[p]
        /\ \A i, j \in 1 .. Len(back[p]) : back[p][i] = back[p][j] => i = j

\* A buffer on its way to the writer, or in its hand, is with no producer.
NotAtHome ==
    \A b \in Buffer : \A p \in Producer :
        AtHome(p, b) => job.buf # b /\ \A i \in 1 .. Len(chan) : chan[i].buf # b

\* No buffer travels twice.
OnceUnderway ==
    /\ \A i, j \in 1 .. Len(chan) : chan[i].buf = chan[j].buf => i = j
    /\ \A i \in 1 .. Len(chan) : chan[i].buf # job.buf

\* No buffer of a running producer is lost.
Kept ==
    \A b \in Buffer :
        \/ Gone(Owner(b))
        \/ AtHome(Owner(b), b)
        \/ \E i \in 1 .. Len(chan) : chan[i].buf = b
        \/ job.buf = b

\* A buffer on its way to the file holds the chunk it is sent for.
Carried ==
    /\ \A p \in Producer : pc[p] = "send" => content[held[p]] = cur[p]
    /\ \A i \in 1 .. Len(chan) : content[chan[i].buf] = chan[i].off
    /\ wpc = "write" => content[job.buf] = job.off

\* Where chunk k is, between its assembly and the file.
Underway(k) ==
    \/ \E p \in Producer : pc[p] = "send" /\ cur[p] = k
    \/ \E i \in 1 .. Len(chan) : chan[i].off = k
    \/ wpc = "write" /\ job.off = k

Failure == werr \/ \E p \in Producer : pc[p] = "err"

\* Unless something failed, every claimed chunk is in its claimant's hands or
\* digested, and every digested one with bytes is under way or in the file.
Tracked ==
    /\ Failure \/ \A k \in Chunk : k < next =>
          \E p \in Producer : k \in acc[p] \/ (pc[p] \in {"buffer", "assemble"} /\ cur[p] = k)
    /\ Failure \/ \A p \in Producer : \A k \in acc[p] \cap Materialised :
          disk[k] = k \/ Underway(k)
    /\ \A p \in Producer : pc[p] = "ok" => ~(next < ChunkCount)

\* Every error reaches the thread that reports it.
Verdicts ==
    /\ werr <=> \E k \in Chunk : disk[k] = Torn
    /\ \A p \in Producer : p > started => pc[p] = "unborn"
    /\ wpc = "done" => chan = <<>> /\ \A p \in Producer : Gone(p)
    /\ \A p \in 1 .. joined : Gone(p)
    /\ merr <=> \E p \in 1 .. joined : pc[p] = "err"
    /\ \A p \in 1 .. joined : pc[p] = "ok" => acc[p] \subseteq all
    /\ mpc \in {"joinWriter", "done"} => joined = NProducers
    /\ mpc = "done" <=> result # "running"
    /\ mpc = "done" =>
          /\ wpc = "done"
          /\ result = IF merr THEN "read" ELSE IF werr THEN "write" ELSE "ok"

Buffers == Owned /\ Holding /\ OnceAtHome /\ NotAtHome /\ OnceUnderway /\ Kept
-----------------------------------------------------------------------------
(* The branches of the actions that have two.                              *)

ClaimChunk(p) ==
    /\ pc[p] = "claim" /\ next < ChunkCount
    /\ next' = next + 1
    /\ cur' = [cur EXCEPT ![p] = next]
    /\ pc' = [pc EXCEPT ![p] = "buffer"]
    /\ UNCHANGED <<spare, held, back, acc, content, chan, writerVars, mainVars>>

ClaimNone(p) ==
    /\ pc[p] = "claim" /\ ~(next < ChunkCount)
    /\ next' = next + 1
    /\ Leave(p, "ok")
    /\ UNCHANGED <<cur, acc, content, chan, writerVars, mainVars>>

AssembleBytes(p) ==
    /\ pc[p] = "assemble" /\ RealLen(cur[p]) > 0
    /\ acc' = [acc EXCEPT ![p] = @ \cup {cur[p]}]
    /\ content' = [content EXCEPT ![held[p]] = cur[p]]
    /\ pc' = [pc EXCEPT ![p] = "send"]
    /\ UNCHANGED <<held, spare, next, cur, back, chan, writerVars, mainVars>>

AssemblePadding(p) ==
    /\ pc[p] = "assemble" /\ ~(RealLen(cur[p]) > 0)
    /\ acc' = [acc EXCEPT ![p] = @ \cup {cur[p]}]
    /\ spare' = [spare EXCEPT ![p] = held[p]]
    /\ held' = [held EXCEPT ![p] = NoBuf]
    /\ pc' = [pc EXCEPT ![p] = "claim"]
    /\ UNCHANGED <<content, next, cur, back, chan, writerVars, mainVars>>

SendJob(p) ==
    /\ pc[p] = "send" /\ wpc # "done"
    /\ chan' = Append(chan, [off |-> cur[p], buf |-> held[p], back |-> p])
    /\ held' = [held EXCEPT ![p] = NoBuf]
    /\ pc' = [pc EXCEPT ![p] = "claim"]
    /\ UNCHANGED <<spare, back, next, cur, acc, content, writerVars, mainVars>>

SendFails(p) ==
    /\ pc[p] = "send" /\ wpc = "done"
    /\ Leave(p, "err")
    /\ UNCHANGED <<chan, next, cur, acc, content, writerVars, mainVars>>

\* A producer's step is one of its branches.
LEMMA ProducerCases ==
    ASSUME NEW p \in Producer, ProducerStep(p)
    PROVE  \/ ClaimChunk(p) \/ ClaimNone(p) \/ TakeSpare(p) \/ RecvBack(p)
           \/ AssembleBytes(p) \/ AssemblePadding(p) \/ AssembleFails(p)
           \/ SendJob(p) \/ SendFails(p)
<1>1. CASE Claim(p)
  BY <1>1 DEF Claim, ClaimChunk, ClaimNone
<1>2. CASE Assemble(p)
  BY <1>2 DEF Assemble, AssembleBytes, AssemblePadding
<1>3. CASE Send(p)
  BY <1>3 DEF Send, SendJob, SendFails
<1>. QED BY <1>1, <1>2, <1>3 DEF ProducerStep
-----------------------------------------------------------------------------
(* Buffers.                                                                *)

\* No buffer is NoBuf, and every buffer belongs to a producer.
LEMMA BufferFacts ==
    \A b \in Buffer : b # NoBuf /\ Owner(b) \in Producer
<1>. SUFFICES ASSUME NEW b \in Buffer PROVE b # NoBuf /\ Owner(b) \in Producer
  OBVIOUS
<1>1. Producer \subseteq Nat
  BY Constants DEF Producer
<1>2. PICK q \in Producer, i \in {1, 2} : b = <<q, i>>
  BY DEF Buffer
<1>3. b \in Nat \X Nat
  BY <1>1, <1>2
<1>. QED BY <1>3, MarkersAssumption DEF Buffer, Owner

\* What is in the channel to the writer.
LEMMA ChanFacts ==
    ASSUME TypeInv
    PROVE  \A i \in 1 .. Len(chan) :
              /\ chan[i] \in Job /\ chan[i].off \in Chunk
              /\ chan[i].buf \in Buffer /\ chan[i].back \in Producer
<1>1. chan \in Seq(Job)
  BY DEF TypeInv, TypeOK
<1>2. \A i \in 1 .. Len(chan) : chan[i] \in Job
  BY ONLY <1>1
<1>. QED BY ONLY <1>2 DEF Job

\* What receiving and sending do to the elements of a channel.
LEMMA TailFacts ==
    ASSUME NEW S, NEW s \in Seq(S), s # <<>>
    PROVE  /\ Len(s) \in Nat /\ 1 \in 1 .. Len(s)
           /\ Head(s) = s[1] /\ Head(s) \in S
           /\ Len(Tail(s)) = Len(s) - 1
           /\ \A i \in 1 .. Len(Tail(s)) : i + 1 \in 1 .. Len(s) /\ Tail(s)[i] = s[i + 1]
           /\ \A i \in 1 .. Len(s) : i # 1 => i - 1 \in 1 .. Len(Tail(s)) /\ Tail(s)[i - 1] = s[i]
OBVIOUS

\* What is in the rest of a channel was in the channel.
LEMMA TailMembers ==
    ASSUME NEW S, NEW s \in Seq(S), s # <<>>
    PROVE  \A x : (\E i \in 1 .. Len(s) : s[i] = x)
                  <=> x = Head(s) \/ \E i \in 1 .. Len(Tail(s)) : Tail(s)[i] = x
<1>. TAKE x
<1>1. ASSUME NEW i \in 1 .. Len(s), s[i] = x, x # Head(s)
      PROVE  \E j \in 1 .. Len(Tail(s)) : Tail(s)[j] = x
  BY <1>1, TailFacts
<1>2. ASSUME NEW i \in 1 .. Len(Tail(s)), Tail(s)[i] = x
      PROVE  \E j \in 1 .. Len(s) : s[j] = x
  BY <1>2, TailFacts
<1>3. \E i \in 1 .. Len(s) : s[i] = Head(s)
  BY TailFacts
<1>. QED BY <1>1, <1>2, <1>3

\* What sending adds to a channel.
LEMMA AppendFacts ==
    ASSUME NEW S, NEW s \in Seq(S), NEW x \in S
    PROVE  /\ Len(s) \in Nat /\ Len(Append(s, x)) = Len(s) + 1
           /\ \A i \in 1 .. Len(s) : i \in 1 .. Len(Append(s, x)) /\ Append(s, x)[i] = s[i]
           /\ Len(s) + 1 \in 1 .. Len(Append(s, x)) /\ Append(s, x)[Len(s) + 1] = x
           /\ \A i \in 1 .. Len(Append(s, x)) : i \in 1 .. Len(s) \/ i = Len(s) + 1
OBVIOUS


\* Every step of a producer keeps the buffers in order.
LEMMA ProducerBuffers ==
    ASSUME TypeInv, TypeInv', Buffers, NEW p \in Producer, ProducerStep(p)
    PROVE  Buffers'
<1>. USE BufferFacts DEF TypeInv, TypeOK, InHand, Buffers
<1>1. CASE ClaimChunk(p)
  <2>1. \A q \in Producer, b \in Buffer : AtHome(q, b)' <=> AtHome(q, b)
    BY <1>1 DEF ClaimChunk, AtHome
  <2>2. Owned'
    BY <1>1 DEF ClaimChunk, writerVars, mainVars, Owned
  <2>3. Holding'
    BY <1>1 DEF ClaimChunk, writerVars, mainVars, Holding, Gone
  <2>4. OnceAtHome'
    BY <1>1 DEF ClaimChunk, writerVars, mainVars, OnceAtHome
  <2>5. NotAtHome'
    BY <1>1, <2>1 DEF ClaimChunk, writerVars, mainVars, NotAtHome, Job
  <2>6. OnceUnderway'
    BY <1>1 DEF ClaimChunk, writerVars, mainVars, OnceUnderway
  <2>7. Kept'
    BY <1>1, <2>1 DEF ClaimChunk, writerVars, mainVars, Kept, Gone
  <2>. QED BY <2>2, <2>3, <2>4, <2>5, <2>6, <2>7
<1>2. CASE ClaimNone(p)
  <2>1. \A q \in Producer, b \in Buffer :
          /\ AtHome(q, b)' => AtHome(q, b)
          /\ q # p => (AtHome(q, b)' <=> AtHome(q, b))
    BY <1>2 DEF ClaimNone, Leave, AtHome
  <2>2. Owned'
    BY <1>2 DEF ClaimNone, Leave, writerVars, mainVars, Owned
  <2>3. Holding'
    BY <1>2 DEF ClaimNone, Leave, writerVars, mainVars, Holding, Gone
  <2>4. OnceAtHome'
    BY <1>2 DEF ClaimNone, Leave, writerVars, mainVars, OnceAtHome
  <2>5. NotAtHome'
    BY <1>2, <2>1 DEF ClaimNone, Leave, writerVars, mainVars, NotAtHome, Job
  <2>6. OnceUnderway'
    BY <1>2 DEF ClaimNone, Leave, writerVars, mainVars, OnceUnderway
  <2>7. Kept'
    BY <1>2, <2>1 DEF ClaimNone, Leave, writerVars, mainVars, Kept, Gone
  <2>. QED BY <2>2, <2>3, <2>4, <2>5, <2>6, <2>7
<1>3. CASE TakeSpare(p)
  <2>1. \A q \in Producer, b \in Buffer : AtHome(q, b)' <=> AtHome(q, b)
    BY <1>3 DEF TakeSpare, AtHome, Holding
  <2>2. Owned'
    BY <1>3 DEF TakeSpare, writerVars, mainVars, Owned
  <2>3. Holding'
    BY <1>3 DEF TakeSpare, writerVars, mainVars, Holding, Gone
  <2>4. OnceAtHome'
    BY <1>3 DEF TakeSpare, writerVars, mainVars, OnceAtHome
  <2>5. NotAtHome'
    BY <1>3, <2>1 DEF TakeSpare, writerVars, mainVars, NotAtHome, Job
  <2>6. OnceUnderway'
    BY <1>3 DEF TakeSpare, writerVars, mainVars, OnceUnderway
  <2>7. Kept'
    BY <1>3, <2>1 DEF TakeSpare, writerVars, mainVars, Kept, Gone
  <2>. QED BY <2>2, <2>3, <2>4, <2>5, <2>6, <2>7
<1>4. CASE RecvBack(p)
  <2>1. \A q \in Producer, b \in Buffer : AtHome(q, b)' <=> AtHome(q, b)
    <3>1. back[p] \in Seq(Buffer) /\ back[p] # <<>>
      BY <1>4 DEF RecvBack
    <3>2. \A b : (\E i \in 1 .. Len(back[p]) : back[p][i] = b)
                 <=> \/ b = Head(back[p])
                     \/ \E i \in 1 .. Len(Tail(back[p])) : Tail(back[p])[i] = b
      BY ONLY <3>1, TailMembers
    <3>3. /\ back' = [back EXCEPT ![p] = Tail(back[p])]
          /\ held' = [held EXCEPT ![p] = Head(back[p])]
          /\ spare' = spare /\ held[p] = NoBuf
      BY <1>4 DEF RecvBack, Holding
    <3>4. \A b \in Buffer : AtHome(p, b)' <=> AtHome(p, b)
      BY <3>2, <3>3 DEF AtHome
    <3>5. \A q \in Producer \ {p}, b \in Buffer : AtHome(q, b)' <=> AtHome(q, b)
      BY <3>3 DEF AtHome
    <3>. QED BY <3>4, <3>5
  <2>2. Owned'
    BY <1>4 DEF RecvBack, writerVars, mainVars, Owned
  <2>3. Holding'
    BY <1>4 DEF RecvBack, writerVars, mainVars, Holding, Gone
  <2>4. OnceAtHome'
    BY <1>4 DEF RecvBack, writerVars, mainVars, OnceAtHome
  <2>5. NotAtHome'
    BY <1>4, <2>1 DEF RecvBack, writerVars, mainVars, NotAtHome, Job
  <2>6. OnceUnderway'
    BY <1>4 DEF RecvBack, writerVars, mainVars, OnceUnderway
  <2>7. Kept'
    BY <1>4, <2>1 DEF RecvBack, writerVars, mainVars, Kept, Gone
  <2>. QED BY <2>2, <2>3, <2>4, <2>5, <2>6, <2>7
<1>5. CASE AssembleBytes(p)
  <2>1. \A q \in Producer, b \in Buffer : AtHome(q, b)' <=> AtHome(q, b)
    BY <1>5 DEF AssembleBytes, AtHome
  <2>2. Owned'
    BY <1>5 DEF AssembleBytes, writerVars, mainVars, Owned
  <2>3. Holding'
    BY <1>5 DEF AssembleBytes, writerVars, mainVars, Holding, Gone
  <2>4. OnceAtHome'
    BY <1>5 DEF AssembleBytes, writerVars, mainVars, OnceAtHome
  <2>5. NotAtHome'
    BY <1>5, <2>1 DEF AssembleBytes, writerVars, mainVars, NotAtHome, Job
  <2>6. OnceUnderway'
    BY <1>5 DEF AssembleBytes, writerVars, mainVars, OnceUnderway
  <2>7. Kept'
    BY <1>5, <2>1 DEF AssembleBytes, writerVars, mainVars, Kept, Gone
  <2>. QED BY <2>2, <2>3, <2>4, <2>5, <2>6, <2>7
<1>6. CASE AssemblePadding(p)
  <2>1. \A q \in Producer, b \in Buffer : AtHome(q, b)' <=> AtHome(q, b)
    BY <1>6 DEF AssemblePadding, AtHome, Holding
  <2>2. Owned'
    BY <1>6 DEF AssemblePadding, writerVars, mainVars, Owned
  <2>3. Holding'
    BY <1>6 DEF AssemblePadding, writerVars, mainVars, Holding, Gone
  <2>4. OnceAtHome'
    BY <1>6 DEF AssemblePadding, writerVars, mainVars, OnceAtHome
  <2>5. NotAtHome'
    BY <1>6, <2>1 DEF AssemblePadding, writerVars, mainVars, NotAtHome, Job
  <2>6. OnceUnderway'
    BY <1>6 DEF AssemblePadding, writerVars, mainVars, OnceUnderway
  <2>7. Kept'
    BY <1>6, <2>1 DEF AssemblePadding, writerVars, mainVars, Kept, Gone
  <2>. QED BY <2>2, <2>3, <2>4, <2>5, <2>6, <2>7
<1>7. CASE AssembleFails(p)
  <2>1. \A q \in Producer, b \in Buffer :
          /\ AtHome(q, b)' => AtHome(q, b)
          /\ q # p => (AtHome(q, b)' <=> AtHome(q, b))
    BY <1>7 DEF AssembleFails, Leave, AtHome
  <2>2. Owned'
    BY <1>7 DEF AssembleFails, Leave, writerVars, mainVars, Owned
  <2>3. Holding'
    BY <1>7 DEF AssembleFails, Leave, writerVars, mainVars, Holding, Gone
  <2>4. OnceAtHome'
    BY <1>7 DEF AssembleFails, Leave, writerVars, mainVars, OnceAtHome
  <2>5. NotAtHome'
    BY <1>7, <2>1 DEF AssembleFails, Leave, writerVars, mainVars, NotAtHome, Job
  <2>6. OnceUnderway'
    BY <1>7 DEF AssembleFails, Leave, writerVars, mainVars, OnceUnderway
  <2>7. Kept'
    BY <1>7, <2>1 DEF AssembleFails, Leave, writerVars, mainVars, Kept, Gone
  <2>. QED BY <2>2, <2>3, <2>4, <2>5, <2>6, <2>7
<1>8. CASE SendJob(p)
  <2>1. \A q \in Producer, b \in Buffer : AtHome(q, b)' <=> AtHome(q, b) /\ b # held[p]
    BY <1>8 DEF SendJob, AtHome, OnceAtHome, Owned
  <2>2. Owned'
    BY <1>8 DEF SendJob, writerVars, mainVars, Owned
  <2>3. Holding'
    BY <1>8 DEF SendJob, writerVars, mainVars, Holding, Gone
  <2>4. OnceAtHome'
    BY <1>8 DEF SendJob, writerVars, mainVars, OnceAtHome
  <2>5. NotAtHome'
    <3>. DEFINE sent == [off |-> cur[p], buf |-> held[p], back |-> p]
    <3>1. sent \in Job /\ sent.buf = held[p]
      BY <1>8 DEF SendJob, Job
    <3>2. chan' = Append(chan, sent) /\ job' = job
      BY <1>8 DEF SendJob, writerVars
    <3>3. chan \in Seq(Job)
      OBVIOUS
    <3>. HIDE DEF sent
    <3>4. /\ \A i \in 1 .. Len(chan') : i \in 1 .. Len(chan) \/ i = Len(chan) + 1
          /\ \A i \in 1 .. Len(chan) : chan'[i] = chan[i]
          /\ chan'[Len(chan) + 1] = sent
      BY ONLY <3>1, <3>2, <3>3, AppendFacts
    <3>5. NotAtHome
      OBVIOUS
    <3>. QED BY ONLY <2>1, <3>1, <3>2, <3>4, <3>5 DEF NotAtHome
  <2>6. OnceUnderway'
    <3>. DEFINE sent == [off |-> cur[p], buf |-> held[p], back |-> p]
    <3>1. sent \in Job /\ sent.buf = held[p] /\ held[p] \in Buffer
      BY <1>8 DEF SendJob, Job
    <3>2. AtHome(p, held[p])
      BY DEF AtHome
    <3>3. held[p] # job.buf /\ \A i \in 1 .. Len(chan) : chan[i].buf # held[p]
      BY <3>1, <3>2 DEF NotAtHome
    <3>4. chan' = Append(chan, sent) /\ job' = job
      BY <1>8 DEF SendJob, writerVars
    <3>5. chan \in Seq(Job)
      OBVIOUS
    <3>. HIDE DEF sent
    <3>6. /\ \A i \in 1 .. Len(chan') : i \in 1 .. Len(chan) \/ i = Len(chan) + 1
          /\ \A i \in 1 .. Len(chan) : chan'[i] = chan[i]
          /\ chan'[Len(chan) + 1] = sent
      BY ONLY <3>1, <3>4, <3>5, AppendFacts
    <3>. QED BY ONLY <3>1, <3>3, <3>4, <3>6, OnceUnderway DEF OnceUnderway
  <2>7. Kept'
    <3>. DEFINE sent == [off |-> cur[p], buf |-> held[p], back |-> p]
    <3>1. sent \in Job /\ sent.buf = held[p]
      BY <1>8 DEF SendJob, Job
    <3>2. chan' = Append(chan, sent) /\ job' = job
      BY <1>8 DEF SendJob, writerVars
    <3>3. /\ \A i \in 1 .. Len(chan) : i \in 1 .. Len(chan') /\ chan'[i] = chan[i]
          /\ \E i \in 1 .. Len(chan') : chan'[i].buf = held[p]
      <4>1. chan \in Seq(Job)
        OBVIOUS
      <4>. HIDE DEF sent
      <4>. QED BY ONLY <3>1, <3>2, <4>1, AppendFacts
    <3>4. \A q \in Producer : Gone(q) => Gone(q)'
      BY <1>8 DEF SendJob, Gone
    <3>. QED BY <2>1, <3>2, <3>3, <3>4 DEF Kept
  <2>. QED BY <2>2, <2>3, <2>4, <2>5, <2>6, <2>7
<1>9. CASE SendFails(p)
  <2>1. \A q \in Producer, b \in Buffer :
          /\ AtHome(q, b)' => AtHome(q, b)
          /\ q # p => (AtHome(q, b)' <=> AtHome(q, b))
    <3>1. Leave(p, "err")
      BY <1>9 DEF SendFails
    <3>. QED BY <3>1 DEF Leave, AtHome
  <2>2. Owned'
    BY <1>9 DEF SendFails, Leave, writerVars, mainVars, Owned
  <2>3. Holding'
    BY <1>9 DEF SendFails, Leave, writerVars, mainVars, Holding, Gone
  <2>4. OnceAtHome'
    BY <1>9 DEF SendFails, Leave, writerVars, mainVars, OnceAtHome
  <2>5. NotAtHome'
    BY <1>9, <2>1 DEF SendFails, Leave, writerVars, mainVars, NotAtHome, Job
  <2>6. OnceUnderway'
    BY <1>9 DEF SendFails, Leave, writerVars, mainVars, OnceUnderway
  <2>7. Kept'
    BY <1>9, <2>1 DEF SendFails, Leave, writerVars, mainVars, Kept, Gone
  <2>. QED BY <2>2, <2>3, <2>4, <2>5, <2>6, <2>7
<1>. QED BY <1>1, <1>2, <1>3, <1>4, <1>5, <1>6, <1>7, <1>8, <1>9, ProducerCases

\* Every step of the writer keeps the buffers in order.
LEMMA WriterBuffers ==
    ASSUME TypeInv, TypeInv', Buffers, WriterStep
    PROVE  Buffers'
<1>. USE BufferFacts DEF TypeInv, TypeOK, InHand, Buffers
<1>1. CASE Recv
  <2>. DEFINE first == Head(chan)
  <2>1. /\ chan \in Seq(Job) /\ chan # <<>>
        /\ job = NoJob /\ job' = first /\ chan' = Tail(chan)
        /\ wpc' \in {"write", "return"}
        /\ UNCHANGED <<content, producerVars>>
    BY <1>1 DEF Recv, Holding
  <2>2. /\ first = chan[1] /\ first \in Job /\ 1 \in 1 .. Len(chan)
        /\ \A i \in 1 .. Len(chan') : i + 1 \in 1 .. Len(chan) /\ i + 1 # 1 /\ chan'[i] = chan[i + 1]
        /\ \A i \in 1 .. Len(chan) : i # 1 => i - 1 \in 1 .. Len(chan') /\ chan'[i - 1] = chan[i]
    BY <2>1, TailFacts
  <2>. HIDE DEF first
  <2>3. \A q \in Producer, b \in Buffer : AtHome(q, b)' <=> AtHome(q, b)
    BY <2>1 DEF producerVars, AtHome
  <2>4. Owned'
    BY <2>1, <2>2 DEF Owned, producerVars
  <2>5. Holding'
    BY <2>1, <2>2 DEF Holding, Gone, producerVars, Job, NoJob
  <2>6. OnceAtHome'
    BY <2>1 DEF OnceAtHome, producerVars
  <2>7. NotAtHome'
    BY <2>1, <2>2, <2>3 DEF NotAtHome
  <2>8. OnceUnderway'
    BY <2>1, <2>2 DEF OnceUnderway
  <2>9. Kept'
    <3>. SUFFICES ASSUME NEW b \in Buffer, ~Gone(Owner(b))', ~AtHome(Owner(b), b)'
                  PROVE  (\E i \in 1 .. Len(chan') : chan'[i].buf = b) \/ job'.buf = b
      BY DEF Kept
    <3>1. ~Gone(Owner(b)) /\ ~AtHome(Owner(b), b)
      BY <2>1, <2>3 DEF Gone, producerVars
    <3>2. job.buf # b
      BY <2>1 DEF NoJob
    <3>3. PICK i \in 1 .. Len(chan) : chan[i].buf = b
      BY <3>1, <3>2 DEF Kept
    <3>4. CASE i = 1
      BY <2>1, <2>2, <3>3, <3>4
    <3>5. CASE i # 1
      BY <2>2, <3>3, <3>5
    <3>. QED BY <3>4, <3>5
  <2>. QED BY <2>4, <2>5, <2>6, <2>7, <2>8, <2>9
<1>2. CASE Write \/ WriteFails \/ WriterStop
  <2>1. UNCHANGED <<content, chan, producerVars, job>>
        /\ (wpc \in {"recv", "done"} <=> wpc' \in {"recv", "done"})
    BY <1>2 DEF Write, WriteFails, WriterStop
  <2>2. \A q \in Producer, b \in Buffer : AtHome(q, b)' <=> AtHome(q, b)
    BY <2>1 DEF producerVars, AtHome
  <2>3. Owned'
    BY <2>1 DEF Owned, producerVars
  <2>4. Holding'
    BY <2>1 DEF Holding, Gone, producerVars
  <2>5. OnceAtHome' /\ OnceUnderway'
    BY <2>1 DEF OnceAtHome, OnceUnderway, producerVars
  <2>6. NotAtHome'
    BY <2>1, <2>2 DEF NotAtHome
  <2>7. Kept'
    BY <2>1, <2>2 DEF Kept, Gone, producerVars
  <2>. QED BY <2>3, <2>4, <2>5, <2>6, <2>7
<1>3. CASE ReturnBuffer /\ Gone(job.back)
  <2>1. /\ UNCHANGED <<content, chan, producerVars>>
        /\ job' = NoJob /\ wpc' = "recv" /\ job # NoJob /\ job \in Job
    BY <1>3 DEF ReturnBuffer, Gone, producerVars, Holding
  <2>2. \A q \in Producer, b \in Buffer : AtHome(q, b)' <=> AtHome(q, b)
    BY <2>1 DEF producerVars, AtHome
  <2>3. Owned'
    BY <2>1 DEF Owned, producerVars
  <2>4. Holding'
    BY <2>1 DEF Holding, Gone, producerVars
  <2>5. OnceAtHome'
    BY <2>1 DEF OnceAtHome, producerVars
  <2>6. NotAtHome'
    BY <2>1, <2>2 DEF NotAtHome, NoJob
  <2>7. OnceUnderway'
    BY <2>1, ChanFacts DEF OnceUnderway, NoJob
  <2>8. Kept'
    <3>1. Owner(job.buf) = job.back
      BY <2>1 DEF Owned
    <3>. QED BY <1>3, <2>1, <2>2, <3>1 DEF Kept, Gone, producerVars
  <2>. QED BY <2>3, <2>4, <2>5, <2>6, <2>7, <2>8
<1>4. CASE ReturnBuffer /\ ~Gone(job.back)
  <2>. DEFINE q == job.back
              b == job.buf
  <2>1. /\ back' = [back EXCEPT ![q] = Append(back[q], b)]
        /\ UNCHANGED <<content, chan, pc, cur, spare, held, acc>>
        /\ job' = NoJob /\ wpc' = "recv" /\ job # NoJob
    BY <1>4 DEF ReturnBuffer, Gone, Holding
  <2>2. job \in Job /\ q \in Producer /\ b \in Buffer /\ back[q] \in Seq(Buffer)
    BY <2>1 DEF Job
  <2>3. /\ Owner(b) = q
        /\ \A p \in Producer : ~AtHome(p, b)
        /\ \A i \in 1 .. Len(chan) : chan[i].buf # b
    BY <2>1, <2>2 DEF Owned, NotAtHome, OnceUnderway
  <2>4. /\ \A p \in Producer : p # q => back'[p] = back[p]
        /\ back'[q] = Append(back[q], b)
    BY <2>1, <2>2
  <2>. HIDE DEF q, b
  <2>5. /\ \A i \in 1 .. Len(back'[q]) : i \in 1 .. Len(back[q]) \/ i = Len(back[q]) + 1
        /\ \A i \in 1 .. Len(back[q]) : i \in 1 .. Len(back'[q]) /\ back'[q][i] = back[q][i]
        /\ Len(back[q]) + 1 \in 1 .. Len(back'[q]) /\ back'[q][Len(back[q]) + 1] = b
    BY ONLY <2>2, <2>4, AppendFacts
  <2>6. \A p \in Producer, c \in Buffer : AtHome(p, c)' <=> AtHome(p, c) \/ (p = q /\ c = b)
    <3>1. spare' = spare /\ held' = held
      BY <2>1
    <3>2. ASSUME NEW p \in Producer, NEW c \in Buffer, p # q
          PROVE  AtHome(p, c)' <=> AtHome(p, c)
      BY ONLY <2>4, <3>1, <3>2 DEF AtHome
    <3>3. ASSUME NEW p \in Producer, NEW c \in Buffer, p = q
          PROVE  AtHome(p, c)' <=> AtHome(p, c) \/ c = b
      BY ONLY <2>5, <3>1, <3>3 DEF AtHome
    <3>. QED BY ONLY <3>2, <3>3
  <2>7. Owned'
    BY <2>1, <2>2, <2>3, <2>4, <2>5 DEF Owned
  <2>8. Holding'
    BY <1>4, <2>1, <2>2, <2>4 DEF Holding, Gone, q
  <2>9. OnceAtHome'
    <3>1. ASSUME NEW p \in Producer, p # q
          PROVE  /\ spare'[p] # NoBuf => spare'[p] # held'[p]
                 /\ \A i \in 1 .. Len(back'[p]) :
                       back'[p][i] # spare'[p] /\ back'[p][i] # held'[p]
                 /\ \A i, j \in 1 .. Len(back'[p]) : back'[p][i] = back'[p][j] => i = j
      BY <2>1, <2>4, <3>1 DEF OnceAtHome
    <3>2. \A i \in 1 .. Len(back[q]) : back[q][i] # b
      BY <2>2, <2>3 DEF AtHome
    <3>3. spare[q] # b /\ held[q] # b
      BY <2>2, <2>3 DEF AtHome
    <3>4. \A i, j \in 1 .. Len(back'[q]) : back'[q][i] = back'[q][j] => i = j
      <4>1. \A i, j \in 1 .. Len(back[q]) : back[q][i] = back[q][j] => i = j
        BY <2>2 DEF OnceAtHome
      <4>. QED BY ONLY <2>5, <3>2, <4>1
    <3>5. \A i \in 1 .. Len(back'[q]) : back'[q][i] # spare'[q] /\ back'[q][i] # held'[q]
      BY <2>1, <2>2, <2>5, <3>3 DEF OnceAtHome
    <3>6. spare'[q] # NoBuf => spare'[q] # held'[q]
      BY <2>1, <2>2 DEF OnceAtHome
    <3>. QED BY <3>1, <3>4, <3>5, <3>6 DEF OnceAtHome
  <2>10. NotAtHome'
    BY <2>1, <2>2, <2>3, <2>6 DEF NotAtHome, NoJob
  <2>11. OnceUnderway'
    BY <2>1, ChanFacts DEF OnceUnderway, NoJob
  <2>12. Kept'
    BY <2>1, <2>2, <2>3, <2>6 DEF Kept, Gone, b
  <2>. QED BY <2>7, <2>8, <2>9, <2>10, <2>11, <2>12
<1>. QED BY <1>1, <1>2, <1>3, <1>4 DEF WriterStep

\* The calling thread only brings producers to life: the buffers stay.
LEMMA MainBuffers ==
    ASSUME TypeInv, TypeInv', Buffers, Verdicts, MainStep
    PROVE  Buffers'
<1>. USE BufferFacts DEF TypeInv, TypeOK, InHand, Buffers
<1>1. UNCHANGED <<chan, spare, held, back, job, wpc>>
  BY DEF MainStep, Spawn, DropSender, JoinProducer, JoinWriter, producerVars, writerVars
<1>2. \A p \in Producer :
         /\ Gone(p) <=> Gone(p)'
         /\ pc[p] \in {"assemble", "send"} <=> pc'[p] \in {"assemble", "send"}
  <2>1. CASE Spawn
    <3>1. started + 1 \in Producer /\ started + 1 > started
      BY <2>1, Constants DEF Spawn, Producer
    <3>2. pc[started + 1] = "unborn"
      BY <3>1 DEF Verdicts
    <3>. QED BY <2>1, <3>1, <3>2 DEF Spawn, Gone
  <2>2. CASE DropSender \/ JoinProducer \/ JoinWriter
    BY <2>2 DEF DropSender, JoinProducer, JoinWriter, producerVars, Gone
  <2>. QED BY <2>1, <2>2 DEF MainStep
<1>3. \A q \in Producer, b \in Buffer : AtHome(q, b)' <=> AtHome(q, b)
  BY <1>1 DEF AtHome
<1>4. Owned'
  BY <1>1 DEF Owned
<1>5. Holding'
  BY <1>1, <1>2 DEF Holding
<1>6. OnceAtHome' /\ OnceUnderway'
  BY <1>1 DEF OnceAtHome, OnceUnderway
<1>7. NotAtHome'
  BY <1>1, <1>3 DEF NotAtHome
<1>8. Kept'
  BY <1>1, <1>2, <1>3 DEF Kept
<1>. QED BY <1>4, <1>5, <1>6, <1>7, <1>8

\* At the start every producer has one spare buffer and one in its channel.
LEMMA InitBuffers == Init => Buffers
<1>. SUFFICES ASSUME Init PROVE Buffers
  OBVIOUS
<1>. USE BufferFacts DEF Init
<1>1. \A p \in Producer : spare[p] = <<p, 1>> /\ held[p] = NoBuf
                         /\ back[p] = << <<p, 2>> >> /\ pc[p] = "unborn"
  OBVIOUS
<1>2. \A p \in Producer : <<p, 1>> \in Buffer /\ <<p, 2>> \in Buffer
  BY DEF Buffer
<1>3. \A p \in Producer : Len(back[p]) = 1 /\ back[p][1] = <<p, 2>>
  BY <1>1
<1>4. Owned
  BY <1>1, <1>3 DEF Owned, Owner
<1>5. Holding
  BY <1>1 DEF Holding, Gone
<1>6. OnceAtHome
  <2>1. \A p \in Producer : <<p, 1>> # <<p, 2>> /\ <<p, 1>> # NoBuf /\ <<p, 2>> # NoBuf
    BY <1>2
  <2>2. \A p \in Producer : \A i \in 1 .. Len(back[p]) : i = 1 /\ back[p][i] = <<p, 2>>
    BY <1>3
  <2>. QED BY ONLY <1>1, <2>1, <2>2 DEF OnceAtHome
<1>7. NotAtHome
  BY DEF NotAtHome, NoJob
<1>8. OnceUnderway
  BY DEF OnceUnderway
<1>9. Kept
  <2>. SUFFICES ASSUME NEW b \in Buffer PROVE AtHome(Owner(b), b)
    BY DEF Kept
  <2>1. Owner(b) \in Producer /\ (b = <<Owner(b), 1>> \/ b = <<Owner(b), 2>>)
    BY DEF Buffer, Owner
  <2>2. 1 \in 1 .. Len(back[Owner(b)])
    BY <1>3, <2>1
  <2>. QED BY <1>1, <1>3, <2>1, <2>2 DEF AtHome
<1>. QED BY <1>4, <1>5, <1>6, <1>7, <1>8, <1>9 DEF Buffers
-----------------------------------------------------------------------------
(* What the buffers carry.                                                 *)

\* The buffer a producer fills is nobody else's.
LEMMA HeldIsApart ==
    ASSUME TypeInv, Buffers, NEW p \in Producer, pc[p] \in {"assemble", "send"}
    PROVE  /\ held[p] \in Buffer
           /\ \A q \in Producer : pc[q] \in {"assemble", "send"} /\ q # p => held[q] # held[p]
           /\ \A i \in 1 .. Len(chan) : chan[i].buf # held[p]
           /\ job.buf # held[p]
<1>1. held[p] \in Buffer /\ held[p] # NoBuf
  BY BufferFacts DEF TypeInv, InHand
<1>2. AtHome(p, held[p])
  BY DEF AtHome
<1>3. \A q \in Producer : pc[q] \in {"assemble", "send"} /\ q # p => held[q] # held[p]
  BY <1>1 DEF Buffers, Owned, Holding
<1>. QED BY <1>1, <1>2, <1>3 DEF Buffers, NotAtHome

\* Every step of a producer keeps the cargo: it fills only its own buffer.
LEMMA ProducerCarries ==
    ASSUME TypeInv, TypeInv', Buffers, Carried, NEW p \in Producer, ProducerStep(p)
    PROVE  Carried'
<1>. USE DEF TypeInv, TypeOK, InHand, Carried
<1>1. CASE ClaimChunk(p)
  BY <1>1 DEF ClaimChunk, writerVars
<1>2. CASE ClaimNone(p)
  BY <1>2 DEF ClaimNone, Leave, writerVars
<1>3. CASE TakeSpare(p)
  BY <1>3 DEF TakeSpare, writerVars
<1>4. CASE RecvBack(p)
  BY <1>4 DEF RecvBack, writerVars
<1>5. CASE AssembleBytes(p)
  BY <1>5, HeldIsApart, ChanFacts DEF AssembleBytes, writerVars, Job
<1>6. CASE AssemblePadding(p)
  BY <1>6 DEF AssemblePadding, writerVars
<1>7. CASE AssembleFails(p)
  BY <1>7, HeldIsApart, ChanFacts DEF AssembleFails, Leave, writerVars, Job
<1>8. CASE SendJob(p)
  <2>. DEFINE sent == [off |-> cur[p], buf |-> held[p], back |-> p]
  <2>1. sent \in Job /\ chan \in Seq(Job) /\ content[sent.buf] = sent.off
    BY <1>8 DEF SendJob, Job
  <2>2. chan' = Append(chan, sent) /\ UNCHANGED <<content, job, wpc, cur>>
    BY <1>8 DEF SendJob, writerVars
  <2>3. /\ \A i \in 1 .. Len(chan') : i \in 1 .. Len(chan) \/ i = Len(chan) + 1
        /\ \A i \in 1 .. Len(chan) : chan'[i] = chan[i]
        /\ chan'[Len(chan) + 1] = sent
    <3>. HIDE DEF sent
    <3>. QED BY ONLY <2>1, <2>2, AppendFacts
  <2>4. \A i \in 1 .. Len(chan') : content'[chan'[i].buf] = chan'[i].off
    <3>. HIDE DEF sent
    <3>. QED BY <2>1, <2>2, <2>3
  <2>. QED BY <1>8, <2>2, <2>4 DEF SendJob
<1>9. CASE SendFails(p)
  BY <1>9 DEF SendFails, Leave, writerVars
<1>. QED BY <1>1, <1>2, <1>3, <1>4, <1>5, <1>6, <1>7, <1>8, <1>9, ProducerCases

\* Every step of the writer keeps the cargo.
LEMMA WriterCarries ==
    ASSUME TypeInv, TypeInv', Buffers, Carried, WriterStep
    PROVE  Carried'
<1>. USE DEF TypeInv, TypeOK, InHand, Carried
<1>1. CASE Recv
  <2>1. /\ chan \in Seq(Job) /\ chan # <<>> /\ job' = Head(chan) /\ chan' = Tail(chan)
        /\ UNCHANGED <<content, pc, cur, held>>
    BY <1>1 DEF Recv, producerVars
  <2>2. /\ job' = chan[1] /\ 1 \in 1 .. Len(chan)
        /\ \A i \in 1 .. Len(chan') : i + 1 \in 1 .. Len(chan) /\ chan'[i] = chan[i + 1]
    BY ONLY <2>1, TailFacts
  <2>. QED BY <2>1, <2>2
<1>2. CASE Write \/ WriteFails \/ ReturnBuffer \/ WriterStop
  BY <1>2 DEF Write, WriteFails, ReturnBuffer, WriterStop, producerVars
<1>. QED BY <1>1, <1>2 DEF WriterStep

\* The calling thread has no part in it.
LEMMA MainCarries ==
    ASSUME TypeInv, Buffers, Carried, MainStep
    PROVE  Carried'
<1>1. CASE Spawn
  BY <1>1 DEF Spawn, writerVars, Carried, TypeInv, TypeOK
<1>2. CASE DropSender \/ JoinProducer \/ JoinWriter
  BY <1>2 DEF DropSender, JoinProducer, JoinWriter, producerVars, writerVars, Carried
<1>. QED BY <1>1, <1>2 DEF MainStep
-----------------------------------------------------------------------------
(* Chunks, from the claim to the file.                                     *)

Claimed(k) ==
    \E p \in Producer : k \in acc[p] \/ (pc[p] \in {"buffer", "assemble"} /\ cur[p] = k)
Safe(k) == disk[k] = k \/ Underway(k)

\* A failure stays.
LEMMA FailureStays ==
    ASSUME TypeInv, Verdicts, Failure, Next
    PROVE  Failure'
<1>. USE DEF TypeInv, TypeOK, Failure
<1>1. ASSUME NEW p \in Producer, ProducerStep(p) PROVE Failure'
  <2>1. pc[p] # "err" /\ UNCHANGED werr
    BY <1>1 DEF ProducerStep, Claim, TakeSpare, RecvBack, Assemble, AssembleFails,
                Send, writerVars
  <2>2. \E how \in {"buffer", "assemble", "send", "claim", "ok", "err"} :
            pc' = [pc EXCEPT ![p] = how]
    BY ONLY <1>1, ProducerCases DEF ClaimChunk, ClaimNone, TakeSpare, RecvBack,
       AssembleBytes, AssemblePadding, AssembleFails, SendJob, SendFails, Leave
  <2>3. \A q \in Producer \ {p} : pc'[q] = pc[q]
    BY <2>2
  <2>. QED BY <2>1, <2>3
<1>2. CASE WriterStep
  BY <1>2 DEF WriterStep, Recv, Write, WriteFails, ReturnBuffer, WriterStop, producerVars
<1>3. CASE Spawn
  <2>1. started + 1 \in Producer /\ started + 1 > started
    BY <1>3, Constants DEF Spawn, Producer, InHand
  <2>2. pc[started + 1] = "unborn"
    BY <2>1 DEF Verdicts
  <2>. QED BY <1>3, <2>1, <2>2 DEF Spawn, writerVars
<1>4. CASE DropSender \/ JoinProducer \/ JoinWriter \/ Terminated
  BY <1>4 DEF DropSender, JoinProducer, JoinWriter, Terminated, vars, producerVars, writerVars
<1>. QED BY <1>1, <1>2, <1>3, <1>4 DEF Next, MainStep

\* Every step of a producer keeps track of the chunks.
LEMMA ProducerTracks ==
    ASSUME TypeInv, TypeInv', Verdicts, Tracked, NEW p \in Producer, ProducerStep(p), Next
    PROVE  Tracked'
<1>. USE DEF TypeInv, TypeOK, InHand
<1>1. \A q \in Producer : pc'[q] = "ok" => ~(next' < ChunkCount)
  <2>1. next \in Nat /\ ChunkCount \in Nat /\ (next' = next \/ next' = next + 1)
    BY ProducerCases, Constants DEF ClaimChunk, ClaimNone, TakeSpare, RecvBack, AssembleBytes,
       AssemblePadding, AssembleFails, SendJob, SendFails
  <2>2. ~(next < ChunkCount) => ~(next' < ChunkCount)
    BY ONLY <2>1
  <2>3. \A q \in Producer : pc'[q] = "ok" => pc[q] = "ok" \/ ~(next < ChunkCount)
    BY ProducerCases DEF ClaimChunk, ClaimNone, TakeSpare, RecvBack, AssembleBytes,
       AssemblePadding, AssembleFails, SendJob, SendFails, Leave
  <2>. QED BY <2>2, <2>3 DEF Tracked
<1>. SUFFICES ASSUME ~Failure'
              PROVE  /\ \A k \in Chunk : k < next' => Claimed(k)'
                     /\ \A q \in Producer : \A k \in acc'[q] \cap Materialised : Safe(k)'
  BY <1>1 DEF Tracked, Claimed, Safe
<1>2. /\ \A k \in Chunk : k < next => Claimed(k)
      /\ \A q \in Producer : \A k \in acc[q] \cap Materialised : Safe(k)
  BY FailureStays DEF Tracked, Claimed, Safe
<1>3. CASE ClaimChunk(p)
  <2>1. \A k \in Chunk : Claimed(k) => Claimed(k)'
    BY <1>3 DEF ClaimChunk, Claimed
  <2>2. \A k \in Chunk : k < next' => k < next \/ k = next
    BY <1>3, Constants DEF ClaimChunk
  <2>3. \A k \in Chunk : k = next => Claimed(k)'
    BY <1>3 DEF ClaimChunk, Claimed
  <2>4. \A k \in Chunk : Safe(k) => Safe(k)'
    BY <1>3 DEF ClaimChunk, Safe, Underway, writerVars
  <2>5. acc' = acc
    BY <1>3 DEF ClaimChunk
  <2>. QED BY <1>2, <2>1, <2>2, <2>3, <2>4, <2>5 DEF Materialised
<1>4. CASE ClaimNone(p)
  <2>1. \A k \in Chunk : Claimed(k) => Claimed(k)'
    BY <1>4 DEF ClaimNone, Leave, Claimed
  <2>2. \A k \in Chunk : k < next
    BY <1>4, Constants DEF ClaimNone
  <2>3. \A k \in Chunk : Safe(k) => Safe(k)'
    BY <1>4 DEF ClaimNone, Leave, Safe, Underway, writerVars
  <2>4. acc' = acc
    BY <1>4 DEF ClaimNone
  <2>. QED BY <1>2, <2>1, <2>2, <2>3, <2>4 DEF Materialised
<1>5. CASE TakeSpare(p) \/ RecvBack(p)
  <2>1. \A k \in Chunk : Claimed(k) => Claimed(k)'
    BY <1>5 DEF TakeSpare, RecvBack, Claimed
  <2>2. \A k \in Chunk : Safe(k) => Safe(k)'
    BY <1>5 DEF TakeSpare, RecvBack, Safe, Underway, writerVars
  <2>3. acc' = acc /\ next' = next
    BY <1>5 DEF TakeSpare, RecvBack
  <2>. QED BY <1>2, <2>1, <2>2, <2>3 DEF Materialised
<1>6. CASE AssembleBytes(p)
  <2>1. \A k \in Chunk : Claimed(k) => Claimed(k)'
    BY <1>6 DEF AssembleBytes, Claimed
  <2>2. \A k \in Chunk : Safe(k) => Safe(k)'
    BY <1>6 DEF AssembleBytes, Safe, Underway, writerVars
  <2>3. \A k \in Chunk : k = cur[p] => Safe(k)'
    BY <1>6 DEF AssembleBytes, Safe, Underway
  <2>4. next' = next /\ \A q \in Producer : \A k \in acc'[q] : k \in acc[q] \/ k = cur[p]
    BY <1>6 DEF AssembleBytes
  <2>. QED BY <1>2, <2>1, <2>2, <2>3, <2>4 DEF Materialised
<1>7. CASE AssemblePadding(p)
  <2>1. \A k \in Chunk : Claimed(k) => Claimed(k)'
    BY <1>7 DEF AssemblePadding, Claimed
  <2>2. \A k \in Chunk : Safe(k) => Safe(k)'
    BY <1>7 DEF AssemblePadding, Safe, Underway, writerVars
  <2>3. cur[p] \notin Materialised
    BY <1>7 DEF AssemblePadding, Materialised
  <2>4. next' = next /\ \A q \in Producer : \A k \in acc'[q] : k \in acc[q] \/ k = cur[p]
    BY <1>7 DEF AssemblePadding
  <2>. QED BY <1>2, <2>1, <2>2, <2>3, <2>4 DEF Materialised
<1>8. CASE AssembleFails(p) \/ SendFails(p)
  BY <1>8 DEF AssembleFails, SendFails, Leave, Failure
<1>9. CASE SendJob(p)
  <2>. DEFINE sent == [off |-> cur[p], buf |-> held[p], back |-> p]
  <2>1. sent \in Job /\ chan \in Seq(Job) /\ sent.off = cur[p]
    BY <1>9 DEF SendJob, Job
  <2>2. chan' = Append(chan, sent) /\ UNCHANGED <<acc, next, cur, job, wpc, disk>>
    BY <1>9 DEF SendJob, writerVars
  <2>3. /\ \A i \in 1 .. Len(chan) : i \in 1 .. Len(chan') /\ chan'[i] = chan[i]
        /\ \E i \in 1 .. Len(chan') : chan'[i].off = cur[p]
    <3>. HIDE DEF sent
    <3>. QED BY ONLY <2>1, <2>2, AppendFacts
  <2>4. \A k \in Chunk : Claimed(k) => Claimed(k)'
    BY <1>9, <2>2 DEF SendJob, Claimed
  <2>5. \A k \in Chunk : Safe(k) => Safe(k)'
    BY <1>9, <2>2, <2>3 DEF SendJob, Safe, Underway
  <2>. QED BY <1>2, <2>2, <2>4, <2>5 DEF Materialised
<1>. QED BY <1>3, <1>4, <1>5, <1>6, <1>7, <1>8, <1>9, ProducerCases

\* Every step of the writer keeps track of the chunks.
LEMMA WriterTracks ==
    ASSUME TypeInv, TypeInv', Buffers, Carried, Quiet, Verdicts, Tracked, WriterStep, Next
    PROVE  Tracked'
<1>. USE DEF TypeInv, TypeOK, InHand
<1>1. UNCHANGED <<acc, pc, cur, next>>
  BY DEF WriterStep, Recv, Write, WriteFails, ReturnBuffer, WriterStop, producerVars
<1>. SUFFICES ASSUME ~Failure'
              PROVE  \A q \in Producer : \A k \in acc[q] \cap Materialised : Safe(k)'
  BY <1>1, FailureStays DEF Tracked, Safe
<1>2. \A q \in Producer : \A k \in acc[q] \cap Materialised : Safe(k)
  BY FailureStays DEF Tracked, Safe
<1>. SUFFICES \A k \in Chunk : Safe(k) => Safe(k)'
  BY <1>2 DEF Materialised
<1>3. CASE Recv
  <2>1. /\ chan \in Seq(Job) /\ chan # <<>> /\ job' = Head(chan) /\ chan' = Tail(chan)
        /\ disk' = disk /\ wpc = "recv" /\ wpc' = "write"
    BY <1>3 DEF Recv, Failure
  <2>2. \A i \in 1 .. Len(chan) :
           job' = chan[i] \/ (i - 1 \in 1 .. Len(chan') /\ chan'[i - 1] = chan[i])
    BY ONLY <2>1, TailFacts
  <2>3. ASSUME NEW k \in Chunk, NEW i \in 1 .. Len(chan), chan[i].off = k
        PROVE  Underway(k)'
    <3>1. CASE job' = chan[i]
      BY <2>1, <2>3, <3>1 DEF Underway
    <3>2. CASE i - 1 \in 1 .. Len(chan') /\ chan'[i - 1] = chan[i]
      BY <2>3, <3>2 DEF Underway
    <3>. QED BY <2>2, <3>1, <3>2
  <2>4. ASSUME NEW k \in Chunk, Underway(k)
        PROVE  Underway(k)'
    BY <1>1, <2>1, <2>3, <2>4 DEF Underway
  <2>. QED BY <2>1, <2>4 DEF Safe
<1>4. CASE Write
  <2>1. /\ wpc = "write" /\ disk' = [disk EXCEPT ![job.off] = job.off]
        /\ job.off \in Chunk /\ UNCHANGED chan
    BY <1>4 DEF Write, Carried, Job
  <2>. QED BY <1>1, <2>1 DEF Safe, Underway
<1>5. CASE WriteFails
  BY <1>5 DEF WriteFails, Failure
<1>6. CASE ReturnBuffer \/ WriterStop
  BY <1>1, <1>6 DEF ReturnBuffer, WriterStop, Safe, Underway
<1>. QED BY <1>3, <1>4, <1>5, <1>6 DEF WriterStep

\* The calling thread keeps track of the chunks.
LEMMA MainTracks ==
    ASSUME TypeInv, TypeInv', Verdicts, Tracked, MainStep, Next
    PROVE  Tracked'
<1>. USE DEF TypeInv, TypeOK, InHand
<1>1. UNCHANGED <<acc, cur, next, chan, job, wpc, disk>>
  BY DEF MainStep, Spawn, DropSender, JoinProducer, JoinWriter, producerVars, writerVars
<1>2. \A q \in Producer :
         /\ pc[q] = "send" => pc'[q] = "send"
         /\ pc[q] \in {"buffer", "assemble"} => pc'[q] \in {"buffer", "assemble"}
         /\ pc'[q] = "ok" => pc[q] = "ok"
  <2>1. CASE Spawn
    <3>1. started + 1 \in Producer /\ started + 1 > started
      BY <2>1, Constants DEF Spawn, Producer
    <3>2. pc[started + 1] = "unborn"
      BY <3>1 DEF Verdicts
    <3>. QED BY <2>1, <3>1, <3>2 DEF Spawn
  <2>2. CASE DropSender \/ JoinProducer \/ JoinWriter
    BY <2>2 DEF DropSender, JoinProducer, JoinWriter, producerVars
  <2>. QED BY <2>1, <2>2 DEF MainStep
<1>3. \A k \in Chunk : (Claimed(k) => Claimed(k)') /\ (Safe(k) => Safe(k)')
  BY <1>1, <1>2 DEF Claimed, Safe, Underway
<1>. QED BY <1>1, <1>2, <1>3, FailureStays DEF Tracked, Claimed, Safe, Materialised
-----------------------------------------------------------------------------
(* Errors, from where they happen to the verdict.                          *)

\* A producer's error is its own last word.
LEMMA ProducerVerdicts ==
    ASSUME TypeInv, TypeInv', Verdicts, NEW p \in Producer, ProducerStep(p)
    PROVE  Verdicts'
<1>. USE DEF TypeInv, TypeOK
<1>1. /\ UNCHANGED <<writerVars, mainVars>>
      /\ pc[p] \notin {"unborn", "ok", "err"}
  BY DEF ProducerStep, Claim, TakeSpare, RecvBack, Assemble, AssembleFails, Send
<1>2. \A q \in Producer \ {p} : pc'[q] = pc[q] /\ acc'[q] = acc[q]
  <2>1. CASE ClaimChunk(p) \/ TakeSpare(p) \/ RecvBack(p) \/ SendJob(p)
    BY <2>1 DEF ClaimChunk, TakeSpare, RecvBack, SendJob
  <2>2. CASE ClaimNone(p) \/ AssembleFails(p) \/ SendFails(p)
    BY <2>2 DEF ClaimNone, AssembleFails, SendFails, Leave
  <2>3. CASE AssembleBytes(p) \/ AssemblePadding(p)
    BY <2>3 DEF AssembleBytes, AssemblePadding
  <2>. QED BY <2>1, <2>2, <2>3, ProducerCases
<1>3. ~(p \in 1 .. joined) /\ ~(p > started) /\ wpc # "done"
  BY <1>1 DEF Verdicts, Gone
<1>4. 1 .. joined \subseteq Producer \ {p}
  BY <1>3, Constants DEF Producer
<1>. QED BY <1>1, <1>2, <1>3, <1>4 DEF Verdicts, Gone, writerVars, mainVars

\* The writer remembers its error, and leaves only when all senders have.
LEMMA WriterVerdicts ==
    ASSUME TypeInv, TypeInv', Buffers, Carried, Quiet, Verdicts, WriterStep
    PROVE  Verdicts'
<1>. USE DEF TypeInv, TypeOK, InHand
<1>1. UNCHANGED <<pc, acc, mainVars>> /\ wpc # "done"
  BY DEF WriterStep, Recv, Write, WriteFails, ReturnBuffer, WriterStop, producerVars
<1>2. werr' <=> \E k \in Chunk : disk'[k] = Torn
  <2>1. CASE Write
    <3>1. /\ ~werr /\ werr' = werr /\ job.off \in Chunk
          /\ disk' = [disk EXCEPT ![job.off] = job.off]
      BY <2>1 DEF Write, Carried, Quiet, Job
    <3>2. \A k \in Chunk : k # Torn
      BY Constants, MarkersAssumption
    <3>. QED BY <3>1, <3>2 DEF Verdicts
  <2>2. CASE WriteFails
    BY <2>2 DEF WriteFails, Job
  <2>3. CASE Recv \/ ReturnBuffer \/ WriterStop
    BY <2>3 DEF Recv, ReturnBuffer, WriterStop, Verdicts
  <2>. QED BY <2>1, <2>2, <2>3 DEF WriterStep
<1>3. wpc' = "done" => chan' = <<>> /\ \A p \in Producer : Gone(p)'
  BY <1>1 DEF WriterStep, Recv, Write, WriteFails, ReturnBuffer, WriterStop, SendersGone,
     Gone, producerVars
<1>. QED BY <1>1, <1>2, <1>3 DEF Verdicts, Gone, mainVars

\* The calling thread misses no producer and no error.
LEMMA MainVerdicts ==
    ASSUME TypeInv, TypeInv', Verdicts, MainStep
    PROVE  Verdicts'
<1>. USE DEF TypeInv, TypeOK, InHand
<1>1. CASE Spawn
  <2>1. started + 1 \in Producer /\ started + 1 > started /\ joined = 0
    BY <1>1, Constants DEF Spawn, Producer
  <2>2. pc[started + 1] = "unborn"
    BY <2>1 DEF Verdicts
  <2>3. wpc # "done"
    BY <2>1, <2>2 DEF Verdicts, Gone
  <2>4. /\ UNCHANGED <<writerVars, chan, acc, joined, all, merr, result>>
        /\ pc' = [pc EXCEPT ![started + 1] = "claim"] /\ started' = started + 1
        /\ mpc = "spawn" /\ mpc' \in {"spawn", "drop"}
    BY <1>1 DEF Spawn
  <2>5. \A p \in Producer : p > started' => p > started /\ p # started + 1
    BY <2>4, Constants DEF Producer
  <2>6. 1 .. joined = {} /\ 1 .. joined' = {}
    BY <2>1, <2>4
  <2>7. \A p \in Producer : p > started' => pc'[p] = "unborn"
    BY <2>1, <2>4, <2>5 DEF Verdicts
  <2>. QED BY <2>3, <2>4, <2>6, <2>7 DEF Verdicts, writerVars
<1>2. CASE DropSender
  BY <1>2 DEF DropSender, Verdicts, Gone, producerVars, writerVars
<1>3. CASE JoinProducer
  <2>. DEFINE q == joined + 1
  <2>1. q \in Producer /\ q \in Nat /\ Gone(q)
    BY <1>3, Constants DEF JoinProducer, Producer, Gone
  <2>2. /\ UNCHANGED <<chan, producerVars, writerVars, started, result>>
        /\ joined' = q /\ mpc = "join"
        /\ mpc' = IF q = NProducers THEN "joinWriter" ELSE "join"
    BY <1>3 DEF JoinProducer
  <2>3. IF pc[q] = "ok" THEN all' = all \cup acc[q] /\ merr' = merr
                        ELSE merr' = TRUE /\ all' = all
    BY <1>3 DEF JoinProducer
  <2>4. \A p : p \in 1 .. joined' <=> p \in 1 .. joined \/ p = q
    BY <2>2
  <2>. HIDE DEF q
  <2>5. merr' <=> \E p \in 1 .. joined' : pc'[p] = "err"
    BY <2>1, <2>2, <2>3, <2>4 DEF Verdicts, Gone, producerVars
  <2>6. \A p \in 1 .. joined' : Gone(p)' /\ (pc'[p] = "ok" => acc'[p] \subseteq all')
    BY <2>1, <2>2, <2>3, <2>4 DEF Verdicts, Gone, producerVars
  <2>7. mpc' \in {"joinWriter", "done"} => joined' = NProducers
    BY <2>2
  <2>. QED BY <2>2, <2>5, <2>6, <2>7 DEF Verdicts, Gone, producerVars, writerVars
<1>4. CASE JoinWriter
  BY <1>4 DEF JoinWriter, Verdicts, Gone, producerVars, writerVars
<1>. QED BY <1>1, <1>2, <1>3, <1>4 DEF MainStep
-----------------------------------------------------------------------------
(* The theorems.                                                           *)

IInv == TypeInv /\ Quiet /\ Buffers /\ Carried /\ Tracked /\ Verdicts

\* The inductive invariant holds initially.
LEMMA InitInv == Init => IInv
<1>. SUFFICES ASSUME Init PROVE IInv
  OBVIOUS
<1>1. Quiet /\ Carried
  BY DEF Init, Quiet, Carried
<1>2. Tracked
  <2>1. \A k \in Chunk : ~(k < next)
    BY Constants DEF Init
  <2>. QED BY <2>1 DEF Init, Tracked
<1>3. Verdicts
  <2>1. 1 .. joined = {} /\ Unwritten # Torn
    BY MarkersAssumption DEF Init
  <2>2. joined # NProducers
    BY Constants DEF Init
  <2>. QED BY <2>1, <2>2 DEF Init, Verdicts
<1>. QED BY <1>1, <1>2, <1>3, InitType, InitBuffers DEF IInv

\* Every step keeps the inductive invariant.
LEMMA NextInv == IInv /\ [Next]_vars => IInv'
<1>. SUFFICES ASSUME IInv, [Next]_vars PROVE IInv'
  OBVIOUS
<1>. USE DEF IInv
<1>1. TypeInv' /\ Quiet'
  BY NextType, NextQuiet
<1>2. ASSUME NEW p \in Producer, ProducerStep(p) PROVE IInv'
  <2>1. Next
    BY <1>2 DEF Next
  <2>. QED BY <1>1, <1>2, <2>1, ProducerBuffers, ProducerCarries, ProducerTracks, ProducerVerdicts
<1>3. CASE WriterStep
  <2>1. Next
    BY <1>3 DEF Next
  <2>. QED BY <1>1, <1>3, <2>1, WriterBuffers, WriterCarries, WriterTracks, WriterVerdicts
<1>4. CASE MainStep
  <2>1. Next
    BY <1>4 DEF Next
  <2>. QED BY <1>1, <1>4, <2>1, MainBuffers, MainCarries, MainTracks, MainVerdicts
<1>5. CASE UNCHANGED vars
  <2>1. Buffers'
    BY <1>5 DEF Buffers, Owned, Holding, OnceAtHome, NotAtHome, OnceUnderway, Kept, AtHome,
       Gone, vars, producerVars, writerVars
  <2>2. Carried'
    BY <1>5 DEF Carried, vars, producerVars, writerVars
  <2>3. Tracked'
    BY <1>5 DEF Tracked, Failure, Underway, vars, producerVars, writerVars
  <2>4. Verdicts'
    BY <1>5 DEF Verdicts, Gone, vars, producerVars, writerVars, mainVars
  <2>. QED BY <1>1, <2>1, <2>2, <2>3, <2>4
<1>. QED BY <1>2, <1>3, <1>4, <1>5 DEF Next, Terminated

\* rewrite returns Ok only with the digest of every chunk, and with every
\* chunk in the file as it was digested: no chunk is skipped by the counter,
\* lost in a channel, overwritten in a reused buffer or left unwritten.
THEOREM Completeness == Spec => []SuccessMeansComplete
<1>1. IInv => SuccessMeansComplete
  <2>. SUFFICES ASSUME IInv, result = "ok"
                PROVE  all = Chunk /\ \A k \in Materialised : disk[k] = k
    BY DEF SuccessMeansComplete
  <2>. USE DEF IInv, TypeInv, TypeOK
  <2>1. mpc = "done" /\ wpc = "done" /\ ~merr /\ ~werr /\ joined = NProducers /\ chan = <<>>
    BY DEF Verdicts
  <2>2. \A p \in Producer : pc[p] = "ok" /\ acc[p] \subseteq all
    BY <2>1 DEF Verdicts, Gone, Producer
  <2>3. ~Failure
    BY <2>1, <2>2 DEF Failure
  <2>4. 1 \in Producer
    BY Constants DEF Producer
  <2>5. ~(next < ChunkCount)
    BY <2>2, <2>4 DEF Tracked
  <2>6. \A k \in Chunk : k < next
    BY <2>5, Constants
  <2>7. \A k \in Chunk : \E p \in Producer : k \in acc[p]
    BY <2>2, <2>3, <2>6 DEF Tracked
  <2>8. \A k \in Chunk : ~Underway(k)
    BY <2>1, <2>2 DEF Underway
  <2>9. \A k \in Materialised : k \in Chunk
    BY DEF Materialised
  <2>. QED BY <2>2, <2>3, <2>7, <2>8, <2>9 DEF Tracked
<1>. QED BY InitInv, NextInv, <1>1, PTL DEF Spec

\* The error rewrite returns is the one that happened, whichever thread met
\* it, and a read error hides a write error.
THEOREM TrueVerdict == Spec => []VerdictNamesTheCause
<1>1. IInv => VerdictNamesTheCause
  <2>. SUFFICES ASSUME IInv, result # "running"
                PROVE  /\ result = "read" <=> \E p \in Producer : pc[p] = "err"
                       /\ result = "write" <=> /\ \A p \in Producer : pc[p] = "ok"
                                               /\ \E k \in Chunk : disk[k] = Torn
    BY DEF VerdictNamesTheCause
  <2>1. /\ joined = NProducers
        /\ result = IF merr THEN "read" ELSE IF werr THEN "write" ELSE "ok"
    BY DEF IInv, Verdicts
  <2>2. \A p \in Producer : Gone(p)
    BY <2>1 DEF IInv, Verdicts, Producer
  <2>3. merr <=> \E p \in Producer : pc[p] = "err"
    BY <2>1 DEF IInv, Verdicts, Producer
  <2>4. werr <=> \E k \in Chunk : disk[k] = Torn
    BY DEF IInv, Verdicts
  <2>. QED BY <2>1, <2>2, <2>3, <2>4 DEF Gone
<1>. QED BY InitInv, NextInv, <1>1, PTL DEF Spec

\* While a producer runs, each of its two buffers is in exactly one place.
THEOREM ConservedBuffers == Spec => []BufferConservation
<1>1. IInv => BufferConservation
  <2>. SUFFICES ASSUME IInv, NEW b \in Buffer, ~Gone(Owner(b))
                PROVE  \E x \in Places(b) : Places(b) = {x}
    BY DEF BufferConservation, Gone, Owner
  <2>. DEFINE q == Owner(b)
              InBack(i) == i \in 1 .. Len(back[q]) /\ back[q][i] = b
              InChan(i) == i \in 1 .. Len(chan) /\ chan[i].buf = b
  <2>1. q \in Producer /\ b # NoBuf
    BY BufferFacts
  <2>2. \A p \in Producer : (spare[p] = b => p = q) /\ (held[p] = b => p = q)
    BY <2>1 DEF IInv, Buffers, Owned
  <2>3. \A x : x \in Places(b) <=>
           \/ spare[q] = b /\ x = <<"spare", q>>
           \/ held[q] = b /\ x = <<"held", q>>
           \/ \E i : InBack(i) /\ x = <<"back", i>>
           \/ \E i : InChan(i) /\ x = <<"chan", i>>
           \/ job.buf = b /\ x = <<"writer", 0>>
    BY <2>1, <2>2 DEF Places, Owner
  <2>4. AtHome(q, b) <=> spare[q] = b \/ held[q] = b \/ \E i : InBack(i)
    BY DEF AtHome
  <2>5. AtHome(q, b) \/ (\E i : InChan(i)) \/ job.buf = b
    BY DEF IInv, Buffers, Kept
  <2>6. AtHome(q, b) => job.buf # b /\ \A i : ~InChan(i)
    BY <2>1 DEF IInv, Buffers, NotAtHome
  <2>7. /\ \A i, j : InChan(i) /\ InChan(j) => i = j
        /\ \A i : InChan(i) => job.buf # b
    BY DEF IInv, Buffers, OnceUnderway
  <2>8. /\ spare[q] = b => held[q] # b
        /\ \A i : InBack(i) => spare[q] # b /\ held[q] # b
        /\ \A i, j : InBack(i) /\ InBack(j) => i = j
    BY <2>1 DEF IInv, Buffers, OnceAtHome
  <2>. HIDE DEF q, InBack, InChan
  <2>9. CASE spare[q] = b
    <3>1. \A y : y \in Places(b) <=> y = <<"spare", q>>
      BY ONLY <2>3, <2>4, <2>6, <2>8, <2>9
    <3>2. Places(b) = {<<"spare", q>>}
      BY ONLY <3>1
    <3>. QED BY ONLY <3>2
  <2>10. CASE held[q] = b
    <3>1. \A y : y \in Places(b) <=> y = <<"held", q>>
      BY ONLY <2>3, <2>4, <2>6, <2>8, <2>10
    <3>2. Places(b) = {<<"held", q>>}
      BY ONLY <3>1
    <3>. QED BY ONLY <3>2
  <2>11. ASSUME NEW i, InBack(i) PROVE \E x \in Places(b) : Places(b) = {x}
    <3>1. \A y : y \in Places(b) <=> y = <<"back", i>>
      BY ONLY <2>3, <2>4, <2>6, <2>8, <2>11
    <3>2. Places(b) = {<<"back", i>>}
      BY ONLY <3>1
    <3>. QED BY ONLY <3>2
  <2>12. ASSUME NEW i, InChan(i) PROVE \E x \in Places(b) : Places(b) = {x}
    <3>1. \A y : y \in Places(b) <=> y = <<"chan", i>>
      BY ONLY <2>3, <2>4, <2>6, <2>7, <2>12
    <3>2. Places(b) = {<<"chan", i>>}
      BY ONLY <3>1
    <3>. QED BY ONLY <3>2
  <2>13. CASE job.buf = b
    <3>1. \A y : y \in Places(b) <=> y = <<"writer", 0>>
      BY ONLY <2>3, <2>4, <2>6, <2>7, <2>13
    <3>2. Places(b) = {<<"writer", 0>>}
      BY ONLY <3>1
    <3>. QED BY ONLY <3>2
  <2>. QED BY ONLY <2>4, <2>5, <2>9, <2>10, <2>11, <2>12, <2>13
<1>. QED BY InitInv, NextInv, <1>1, PTL DEF Spec
-----------------------------------------------------------------------------
(* The pipeline implements ChunkedRewrite: with its threads, channels and  *)
(* buffers hidden it hashes every chunk at most once, writes only what it  *)
(* hashed, repairs nothing and reports the truth.  Beyond the invariant    *)
(* above this needs that no chunk is claimed, hashed or on its way to the  *)
(* file twice: else a second write that failed would tear what the caller  *)
(* was promised.                                                           *)

Hashed == UNION {acc[p] : p \in Producer}
Claiming == {"buffer", "assemble"}

\* The counter hands out every chunk once.
ClaimedOnce ==
    /\ \A p \in Producer : \A k \in acc[p] : k < next
    /\ \A p \in Producer : pc[p] \in Claiming => cur[p] < next
    /\ \A p, q \in Producer : pc[p] \in Claiming => cur[p] \notin acc[q]
    /\ \A p, q \in Producer : p # q /\ pc[p] \in Claiming /\ pc[q] \in Claiming => cur[p] # cur[q]

\* Only a hashed chunk with bytes that is not in the file yet is on its way to it.
Travels(k) ==
    /\ k \in Materialised
    /\ \E p \in Producer : k \in acc[p]
    /\ disk[k] # k

\* What is on its way to the file, and what is in it.
Travelling ==
    /\ \A p \in Producer : pc[p] = "send" => Travels(cur[p])
    /\ \A i \in 1 .. Len(chan) : Travels(chan[i].off)
    /\ wpc = "write" => Travels(job.off)
    /\ \A k \in Chunk : disk[k] = k => k \in Materialised /\ \E p \in Producer : k \in acc[p]

\* No chunk is on its way twice.
TravelsOnce ==
    /\ \A p, q \in Producer : p # q /\ pc[p] = "send" /\ pc[q] = "send" => cur[p] # cur[q]
    /\ \A p \in Producer, i \in 1 .. Len(chan) : pc[p] = "send" => chan[i].off # cur[p]
    /\ \A p \in Producer : pc[p] = "send" /\ wpc = "write" => job.off # cur[p]
    /\ \A i, j \in 1 .. Len(chan) : i # j => chan[i].off # chan[j].off
    /\ \A i \in 1 .. Len(chan) : wpc = "write" => chan[i].off # job.off

Once == ClaimedOnce /\ Travelling /\ TravelsOnce
-----------------------------------------------------------------------------
(* No chunk twice.                                                         *)

\* Every step of a producer keeps its chunks apart from those of others.
LEMMA ProducerOnce ==
    ASSUME TypeInv, Once, NEW p \in Producer, ProducerStep(p)
    PROVE  Once'
<1>. USE DEF Once, Claiming
<1>1. CASE ClaimChunk(p)
  <2>1. next \in Nat /\ \A k \in Chunk : k \in Nat
    BY Constants DEF TypeInv, TypeOK
  <2>2. /\ cur' = [cur EXCEPT ![p] = next] /\ pc' = [pc EXCEPT ![p] = "buffer"] /\ next' = next + 1
        /\ pc[p] = "claim" /\ UNCHANGED <<acc, chan, wpc, job, disk>>
    BY <1>1 DEF ClaimChunk, writerVars
  <2>3. /\ cur'[p] = next /\ pc'[p] = "buffer"
        /\ \A q \in Producer : q # p => cur'[q] = cur[q] /\ pc'[q] = pc[q]
    BY <2>2 DEF TypeInv, TypeOK
  <2>4. \A q \in Producer : pc[q] \in Claiming => cur[q] \in Chunk
    BY DEF TypeInv, InHand
  <2>5. \A q \in Producer : acc[q] \subseteq Chunk
    BY DEF TypeInv, TypeOK
  <2>6. ClaimedOnce'
    BY <2>1, <2>2, <2>3, <2>4, <2>5 DEF ClaimedOnce
  <2>7. \A k : Travels(k)' <=> Travels(k)
    BY <2>2 DEF Travels
  <2>8. Travelling' /\ TravelsOnce'
    BY <2>2, <2>3, <2>7 DEF Travelling, TravelsOnce
  <2>. QED BY <2>6, <2>8
<1>2. CASE ClaimNone(p) \/ TakeSpare(p) \/ RecvBack(p) \/ AssembleFails(p) \/ SendFails(p)
  <2>1. /\ UNCHANGED <<cur, acc, chan, wpc, job, disk>>
        /\ next \in Nat /\ next' \in {next, next + 1}
        /\ \A q \in Producer : q # p => pc'[q] = pc[q]
        /\ pc'[p] # "send" /\ (pc'[p] \in Claiming => pc[p] \in Claiming)
    BY <1>2 DEF ClaimNone, TakeSpare, RecvBack, AssembleFails, SendFails, Leave, writerVars,
       TypeInv, TypeOK
  <2>2. \A q \in Producer : /\ pc'[q] \in Claiming => pc[q] \in Claiming
                            /\ pc'[q] = "send" => pc[q] = "send"
    BY <2>1
  <2>3. /\ \A q \in Producer : \A k \in acc[q] : k < next'
        /\ \A q \in Producer : pc[q] \in Claiming => cur[q] < next'
    <3>1. \A k \in Chunk : k \in Nat
      BY Constants
    <3>2. /\ \A q \in Producer : acc[q] \subseteq Chunk
          /\ \A q \in Producer : pc[q] \in Claiming => cur[q] \in Chunk
      BY DEF TypeInv, TypeOK, InHand
    <3>. QED BY <2>1, <3>1, <3>2 DEF ClaimedOnce
  <2>4. ClaimedOnce'
    BY <2>1, <2>2, <2>3 DEF ClaimedOnce
  <2>5. \A k : Travels(k)' <=> Travels(k)
    BY <2>1 DEF Travels
  <2>6. Travelling' /\ TravelsOnce'
    BY <2>1, <2>2, <2>5 DEF Travelling, TravelsOnce
  <2>. QED BY <2>4, <2>6
<1>3. CASE AssembleBytes(p) \/ AssemblePadding(p)
  <2>1. /\ UNCHANGED <<cur, next, chan, wpc, job, disk>> /\ pc[p] = "assemble"
        /\ acc' = [acc EXCEPT ![p] = @ \cup {cur[p]}]
        /\ \A q \in Producer : q # p => pc'[q] = pc[q]
        /\ pc'[p] \in {"send", "claim"} /\ (pc'[p] = "send" => RealLen(cur[p]) > 0)
    BY <1>3 DEF AssembleBytes, AssemblePadding, writerVars, TypeInv, TypeOK
  <2>2. /\ \A q \in Producer : q # p => acc'[q] = acc[q]
        /\ acc'[p] = acc[p] \cup {cur[p]} /\ cur[p] \in Chunk
    BY <2>1 DEF TypeInv, TypeOK, InHand
  <2>3. ClaimedOnce'
    BY <2>1, <2>2 DEF ClaimedOnce
  <2>4. \A k : Travels(k) => Travels(k)' /\ k # cur[p]
    BY <2>1, <2>2 DEF Travels, ClaimedOnce
  <2>5. disk[cur[p]] # cur[p]
    BY <2>1, <2>2 DEF Travelling, ClaimedOnce
  <2>6. pc'[p] = "send" => Travels(cur[p])'
    BY <2>1, <2>2, <2>5 DEF Travels, Materialised
  <2>7. \A k \in Chunk : disk[k] = k => k \in Materialised /\ \E q \in Producer : k \in acc'[q]
    BY <2>2 DEF Travelling
  <2>8. Travelling'
    <3>1. \A q \in Producer : pc'[q] = "send" => Travels(cur[q])'
      BY <2>1, <2>4, <2>6 DEF Travelling
    <3>. QED BY <2>1, <2>4, <2>7, <3>1 DEF Travelling
  <2>9. TravelsOnce'
    <3>1. /\ \A q \in Producer : q # p /\ pc[q] = "send" => cur[q] # cur[p]
          /\ \A i \in 1 .. Len(chan) : chan[i].off # cur[p]
          /\ wpc = "write" => job.off # cur[p]
      BY <2>4 DEF Travelling
    <3>. QED BY <2>1, <3>1 DEF TravelsOnce
  <2>. QED BY <2>3, <2>8, <2>9
<1>4. CASE SendJob(p)
  <2>. DEFINE sent == [off |-> cur[p], buf |-> held[p], back |-> p]
  <2>1. sent \in Job /\ chan \in Seq(Job) /\ sent.off = cur[p]
    BY <1>4 DEF SendJob, Job, TypeInv, TypeOK, InHand
  <2>2. /\ chan' = Append(chan, sent) /\ UNCHANGED <<acc, next, cur, job, wpc, disk>>
        /\ pc[p] = "send" /\ pc'[p] = "claim" /\ \A q \in Producer : q # p => pc'[q] = pc[q]
    BY <1>4 DEF SendJob, writerVars, TypeInv, TypeOK
  <2>3. /\ \A i \in 1 .. Len(chan) : i \in 1 .. Len(chan') /\ chan'[i].off = chan[i].off
        /\ \A i \in 1 .. Len(chan') :
              i \in 1 .. Len(chan) \/ (i = Len(chan) + 1 /\ chan'[i].off = cur[p])
    <3>. HIDE DEF sent
    <3>. QED BY ONLY <2>1, <2>2, AppendFacts
  <2>4. ClaimedOnce'
    BY <2>2 DEF ClaimedOnce
  <2>5. \A k : Travels(k)' <=> Travels(k)
    BY <2>2 DEF Travels
  <2>6. Travelling'
    BY <2>2, <2>3, <2>5 DEF Travelling
  <2>7. TravelsOnce'
    BY <2>2, <2>3 DEF TravelsOnce
  <2>. QED BY <2>4, <2>6, <2>7
<1>. QED BY <1>1, <1>2, <1>3, <1>4, ProducerCases

\* The writer puts a chunk into the file once.
LEMMA WriterOnce ==
    ASSUME TypeInv, Carried, Once, WriterStep
    PROVE  Once'
<1>. USE DEF Once
<1>1. UNCHANGED <<acc, pc, cur, next>>
  BY DEF WriterStep, Recv, Write, WriteFails, ReturnBuffer, WriterStop, producerVars
<1>2. ClaimedOnce'
  BY <1>1 DEF ClaimedOnce
<1>3. CASE Recv
  <2>1. /\ chan \in Seq(Job) /\ chan # <<>> /\ job' = Head(chan) /\ chan' = Tail(chan)
        /\ disk' = disk /\ wpc = "recv"
    BY <1>3 DEF Recv, TypeInv, TypeOK
  <2>2. /\ Len(chan) \in Nat /\ Len(chan') = Len(chan) - 1 /\ 1 \in 1 .. Len(chan)
        /\ job' = chan[1]
        /\ \A i \in 1 .. Len(chan') : i + 1 \in 1 .. Len(chan) /\ chan'[i] = chan[i + 1]
    BY ONLY <2>1, TailFacts
  <2>3. \A k : Travels(k)' <=> Travels(k)
    BY <1>1, <2>1 DEF Travels
  <2>4. Travelling'
    BY <1>1, <2>1, <2>2, <2>3 DEF Travelling
  <2>5. /\ \A i \in 1 .. Len(chan') : chan'[i].off # job'.off
        /\ \A i, j \in 1 .. Len(chan') : i # j => chan'[i].off # chan'[j].off
    <3>1. \A i, j \in 1 .. Len(chan) : i # j => chan[i].off # chan[j].off
      BY DEF TravelsOnce
    <3>2. ASSUME NEW i \in 1 .. Len(chan') PROVE chan'[i].off # job'.off
      <4>1. i + 1 # 1
        OBVIOUS
      <4>. QED BY ONLY <2>2, <3>1, <4>1
    <3>3. ASSUME NEW i \in 1 .. Len(chan'), NEW j \in 1 .. Len(chan'), i # j
          PROVE  chan'[i].off # chan'[j].off
      <4>1. i + 1 # j + 1
        BY <3>3
      <4>. QED BY ONLY <2>2, <3>1, <4>1
    <3>. QED BY <3>2, <3>3
  <2>6. TravelsOnce'
    BY <1>1, <2>1, <2>2, <2>5 DEF TravelsOnce
  <2>. QED BY <1>2, <2>4, <2>6
<1>4. CASE Write \/ WriteFails
  <2>1. /\ wpc = "write" /\ wpc' = "return" /\ job.off \in Chunk /\ UNCHANGED <<chan, job>>
        /\ disk' \in [Chunk -> Bytes]
        /\ \A k \in Chunk : k # job.off => disk'[k] = disk[k]
        /\ Travels(job.off)
    <3>1. job.off \in Chunk /\ wpc = "write" /\ disk \in [Chunk -> Bytes]
      BY <1>4 DEF Write, WriteFails, TypeInv, TypeOK, InHand, Job
    <3>2. wpc' = "return" /\ UNCHANGED <<chan, job>>
      BY <1>4 DEF Write, WriteFails
    <3>3. content[job.buf] \in Bytes /\ Torn \in Bytes
      BY <1>4 DEF Write, WriteFails, TypeInv, TypeOK, InHand, Job, Bytes
    <3>4. PICK b \in Bytes : disk' = [disk EXCEPT ![job.off] = b]
      BY <1>4, <3>3 DEF Write, WriteFails
    <3>5. /\ disk' \in [Chunk -> Bytes]
          /\ \A k \in Chunk : k # job.off => disk'[k] = disk[k]
      BY <3>1, <3>4
    <3>6. Travels(job.off)
      BY <3>1 DEF Travelling
    <3>. QED BY <3>1, <3>2, <3>5, <3>6
  <2>2. \A k : Travels(k) /\ k # job.off => Travels(k)'
    BY <1>1, <2>1 DEF Travels, Materialised
  <2>3. /\ \A q \in Producer : pc[q] = "send" => Travels(cur[q]) /\ cur[q] # job.off
        /\ \A i \in 1 .. Len(chan) : Travels(chan[i].off) /\ chan[i].off # job.off
    BY <2>1 DEF Travelling, TravelsOnce
  <2>4. ASSUME NEW k \in Chunk, disk'[k] = k
        PROVE  k \in Materialised /\ \E q \in Producer : k \in acc'[q]
    <3>1. CASE k = job.off
      BY <1>1, <2>1, <3>1 DEF Travels
    <3>2. CASE k # job.off
      BY <1>1, <2>1, <2>4, <3>2 DEF Travelling
    <3>. QED BY <3>1, <3>2
  <2>5. Travelling'
    BY <1>1, <2>1, <2>2, <2>3, <2>4 DEF Travelling
  <2>6. TravelsOnce'
    BY <1>1, <2>1 DEF TravelsOnce
  <2>. QED BY <1>2, <2>5, <2>6
<1>5. CASE ReturnBuffer \/ WriterStop
  <2>1. UNCHANGED <<chan, disk>> /\ wpc' # "write"
    BY <1>5 DEF ReturnBuffer, WriterStop
  <2>2. \A k : Travels(k)' <=> Travels(k)
    BY <1>1, <2>1 DEF Travels
  <2>3. Travelling' /\ TravelsOnce'
    BY <1>1, <2>1, <2>2 DEF Travelling, TravelsOnce
  <2>. QED BY <1>2, <2>3
<1>. QED BY <1>3, <1>4, <1>5 DEF WriterStep

\* The calling thread touches no chunk.
LEMMA MainOnce ==
    ASSUME TypeInv, Verdicts, Once, MainStep
    PROVE  Once'
<1>1. /\ UNCHANGED <<acc, cur, next, chan, wpc, job, disk>>
      /\ \A q \in Producer : pc'[q] = pc[q] \/ pc'[q] = "claim"
  BY DEF MainStep, Spawn, DropSender, JoinProducer, JoinWriter, producerVars, writerVars,
     TypeInv, TypeOK
<1>2. ClaimedOnce'
  BY <1>1 DEF Once, ClaimedOnce, Claiming
<1>3. \A k : Travels(k)' <=> Travels(k)
  BY <1>1 DEF Travels
<1>4. Travelling' /\ TravelsOnce'
  BY <1>1, <1>3 DEF Once, Travelling, TravelsOnce
<1>. QED BY <1>2, <1>4 DEF Once

\* Initially nothing is claimed, hashed or written.
LEMMA InitOnce == Init => Once
<1>. SUFFICES ASSUME Init PROVE Once
  OBVIOUS
<1>1. \A k \in Chunk : k # Unwritten
  BY Constants, MarkersAssumption
<1>. QED BY <1>1 DEF Init, Once, ClaimedOnce, Claiming, Travelling, TravelsOnce, Travels

\* The invariant of the refinement.
RefInv == IInv /\ Once

\* Every step keeps it.
LEMMA NextRefInv == RefInv /\ [Next]_vars => RefInv'
<1>. SUFFICES ASSUME RefInv, [Next]_vars PROVE RefInv'
  OBVIOUS
<1>1. IInv'
  BY NextInv DEF RefInv
<1>2. CASE UNCHANGED vars
  <2>1. \A k : Travels(k)' <=> Travels(k)
    BY <1>2 DEF Travels, vars, producerVars, writerVars
  <2>2. Once'
    BY <1>2, <2>1 DEF RefInv, Once, ClaimedOnce, Claiming, Travelling, TravelsOnce, vars,
       producerVars, writerVars
  <2>. QED BY <1>1, <2>2 DEF RefInv
<1>. QED BY <1>1, <1>2, ProducerOnce, WriterOnce, MainOnce DEF RefInv, IInv, Next, Terminated
-----------------------------------------------------------------------------
(* The refinement.                                                         *)

Written == {k \in Chunk : disk[k] = k}
Verdict == IF result \in {"read", "write"} THEN "err" ELSE result

\* A pipeline that has not started has hashed and written nothing.
LEMMA InitPromise == Init => Promise!AbsInit
<1>. SUFFICES ASSUME Init PROVE Promise!AbsInit
  OBVIOUS
<1>1. \A k \in Chunk : k # Unwritten
  BY Constants, MarkersAssumption
<1>2. Hashed = {} /\ Written = {} /\ ~Failure /\ Verdict = "running"
  BY <1>1 DEF Init, Hashed, Written, Failure, Verdict
<1>. QED BY <1>2 DEF Promise!AbsInit, Hashed, Written, Failure, Verdict

\* While a thread still works, the caller has no verdict.
LEMMA Working ==
    ASSUME IInv, (\E p \in Producer : ~Gone(p)) \/ wpc # "done" \/ mpc # "done"
    PROVE  result = "running" /\ Verdict = "running"
  BY DEF IInv, Verdicts, Verdict

\* A step of a producer hashes a chunk that nobody hashed, fails, or is
\* invisible to the caller.
LEMMA ProducerPromise ==
    ASSUME RefInv, NEW p \in Producer, ProducerStep(p)
    PROVE  Promise!AbsNext \/ UNCHANGED Promise!absVars
<1>. USE DEF RefInv, IInv
<1>1. UNCHANGED <<disk, werr, result>>
  BY DEF ProducerStep, Claim, TakeSpare, RecvBack, Assemble, AssembleFails, Send, writerVars,
     mainVars
<1>2. Written' = Written /\ Verdict' = Verdict
  BY <1>1 DEF Written, Verdict
<1>3. CASE AssembleBytes(p) \/ AssemblePadding(p)
  <2>1. /\ acc' = [acc EXCEPT ![p] = @ \cup {cur[p]}] /\ pc[p] = "assemble"
        /\ pc' = [pc EXCEPT ![p] = "send"] \/ pc' = [pc EXCEPT ![p] = "claim"]
    BY <1>3 DEF AssembleBytes, AssemblePadding
  <2>2. cur[p] \in Chunk /\ cur[p] \notin Hashed
    BY <2>1 DEF TypeInv, InHand, Once, ClaimedOnce, Claiming, Hashed
  <2>3. Hashed' = Hashed \cup {cur[p]}
    BY <2>1 DEF Hashed, TypeInv, TypeOK
  <2>4. Failure' <=> Failure
    BY <1>1, <2>1 DEF Failure, TypeInv, TypeOK
  <2>5. Verdict = "running"
    BY <2>1, Working DEF Gone
  <2>6. PICK k \in Chunk : k = cur[p]
    BY <2>2
  <2>7. Promise!AbsHash(k)
    BY <1>2, <2>2, <2>3, <2>4, <2>5, <2>6
       DEF Promise!AbsHash, Hashed, Written, Failure, Verdict
  <2>. QED BY <2>7 DEF Promise!AbsNext
<1>4. CASE AssembleFails(p) \/ SendFails(p)
  <2>1. pc' = [pc EXCEPT ![p] = "err"] /\ acc' = acc /\ pc[p] \in {"assemble", "send"}
    BY <1>4 DEF AssembleFails, SendFails, Leave
  <2>2. Failure' /\ Hashed' = Hashed
    BY <2>1 DEF Failure, Hashed, TypeInv, TypeOK
  <2>3. Verdict = "running"
    BY <2>1, Working DEF Gone
  <2>4. Promise!AbsFail
    BY <1>2, <2>2, <2>3 DEF Promise!AbsFail, Hashed, Written, Failure, Verdict
  <2>. QED BY <2>4 DEF Promise!AbsNext
<1>5. CASE ClaimChunk(p) \/ ClaimNone(p) \/ TakeSpare(p) \/ RecvBack(p) \/ SendJob(p)
  <2>1. /\ acc' = acc /\ pc[p] # "err"
        /\ \E s \in {"buffer", "ok", "assemble", "claim"} : pc' = [pc EXCEPT ![p] = s]
    BY <1>5 DEF ClaimChunk, ClaimNone, TakeSpare, RecvBack, SendJob, Leave
  <2>2. (Failure' <=> Failure) /\ Hashed' = Hashed
    BY <1>1, <2>1 DEF Failure, Hashed, TypeInv, TypeOK
  <2>. QED BY <1>2, <2>2 DEF Promise!absVars, Hashed, Written, Failure, Verdict
<1>. QED BY <1>3, <1>4, <1>5, ProducerCases

\* A step of the writer puts a hashed chunk into the file as it was hashed,
\* fails without touching what is already there, or is invisible.
LEMMA WriterPromise ==
    ASSUME RefInv, WriterStep
    PROVE  Promise!AbsNext \/ UNCHANGED Promise!absVars
<1>. USE DEF RefInv, IInv
<1>1. UNCHANGED <<acc, pc, result>>
  BY DEF WriterStep, Recv, Write, WriteFails, ReturnBuffer, WriterStop, producerVars, mainVars
<1>2. Hashed' = Hashed /\ Verdict' = Verdict
  BY <1>1 DEF Hashed, Verdict
<1>3. wpc = "write" => job.off \in Chunk /\ Travels(job.off) /\ content[job.buf] = job.off
  BY DEF TypeInv, InHand, Job, Once, Travelling, Carried
<1>4. CASE Write
  <2>1. /\ wpc = "write" /\ werr' = werr /\ disk' = [disk EXCEPT ![job.off] = job.off]
    BY <1>3, <1>4 DEF Write
  <2>2. Written' = Written \cup {job.off}
    BY <1>3, <2>1 DEF Written, TypeInv, TypeOK
  <2>3. job.off \in (Hashed \cap Materialised) \ Written
    BY <1>3, <2>1 DEF Travels, Hashed, Written
  <2>4. (Failure' <=> Failure) /\ Verdict = "running"
    BY <1>1, <2>1, Working DEF Failure
  <2>5. PICK k \in Chunk : k = job.off
    BY <1>3, <2>1
  <2>6. Promise!AbsWrite(k)
    BY <1>2, <2>2, <2>3, <2>4, <2>5 DEF Promise!AbsWrite, Hashed, Written, Failure, Verdict
  <2>. QED BY <2>6 DEF Promise!AbsNext
<1>5. CASE WriteFails
  <2>1. /\ wpc = "write" /\ werr' = TRUE /\ disk' = [disk EXCEPT ![job.off] = Torn]
    BY <1>5 DEF WriteFails
  <2>2. Torn # job.off /\ disk[job.off] # job.off
    BY <1>3, <2>1, Constants, MarkersAssumption DEF Travels
  <2>3. Written' = Written
    BY <1>3, <2>1, <2>2 DEF Written, TypeInv, TypeOK
  <2>4. Failure' /\ Verdict = "running"
    BY <2>1, Working DEF Failure
  <2>5. Promise!AbsFail
    BY <1>2, <2>3, <2>4 DEF Promise!AbsFail, Hashed, Written, Failure, Verdict
  <2>. QED BY <2>5 DEF Promise!AbsNext
<1>6. CASE Recv \/ ReturnBuffer \/ WriterStop
  <2>1. UNCHANGED <<disk, werr>>
    BY <1>6 DEF Recv, ReturnBuffer, WriterStop
  <2>2. Written' = Written /\ (Failure' <=> Failure)
    BY <1>1, <2>1 DEF Written, Failure
  <2>. QED BY <1>2, <2>2 DEF Promise!absVars, Hashed, Written, Failure, Verdict
<1>. QED BY <1>4, <1>5, <1>6 DEF WriterStep

\* The calling thread reports Ok only for a whole file and all its digests,
\* and an error only after one; its other steps are invisible.
LEMMA MainPromise ==
    ASSUME RefInv, MainStep
    PROVE  Promise!AbsNext \/ UNCHANGED Promise!absVars
<1>. USE DEF RefInv, IInv
<1>1. /\ UNCHANGED <<acc, disk, werr>>
      /\ pc' = pc \/ (mpc = "spawn" /\ pc' = [pc EXCEPT ![started + 1] = "claim"])
  BY DEF MainStep, Spawn, DropSender, JoinProducer, JoinWriter, producerVars, writerVars
<1>2. Failure' <=> Failure
  <2>1. mpc = "spawn" => started + 1 \in Producer /\ pc[started + 1] = "unborn"
    BY Constants DEF TypeInv, TypeOK, InHand, Producer, Verdicts
  <2>. QED BY <1>1, <2>1 DEF Failure, TypeInv, TypeOK
<1>3. Hashed' = Hashed /\ Written' = Written
  BY <1>1 DEF Hashed, Written
<1>4. CASE JoinWriter
  <2>1. /\ wpc = "done" /\ mpc = "joinWriter"
        /\ result' = IF merr THEN "read" ELSE IF werr THEN "write" ELSE "ok"
    BY <1>4 DEF JoinWriter
  <2>2. Verdict = "running"
    BY <2>1, Working
  <2>3. (\A q \in Producer : Gone(q)) /\ chan = <<>> /\ joined = NProducers
    BY <2>1 DEF Verdicts
  <2>4. Failure <=> merr \/ werr
    BY <2>3 DEF Failure, Verdicts, Producer
  <2>5. Verdict' = IF Failure THEN "err" ELSE "ok"
    BY <2>1, <2>4 DEF Verdict
  <2>6. ~Failure => Hashed = Chunk /\ Written = Materialised
    <3>. SUFFICES ASSUME ~Failure PROVE Hashed = Chunk /\ Written = Materialised
      OBVIOUS
    <3>1. \A q \in Producer : pc[q] = "ok"
      BY <2>3 DEF Gone, Failure
    <3>2. \A k \in Chunk : k < next
      BY <3>1, Constants DEF Tracked, Producer, TypeInv, TypeOK
    <3>3. \A k \in Chunk : \E q \in Producer : k \in acc[q]
      BY <3>1, <3>2 DEF Tracked
    <3>4. \A k \in Chunk : ~Underway(k)
      BY <2>1, <2>3, <3>1 DEF Underway
    <3>5. \A k \in Materialised : k \in Chunk /\ disk[k] = k
      BY <3>3, <3>4 DEF Tracked, Materialised
    <3>6. \A k \in Chunk : disk[k] = k => k \in Materialised
      BY DEF Once, Travelling
    <3>7. Hashed = Chunk
      BY <3>3 DEF Hashed, TypeInv, TypeOK
    <3>8. Written = Materialised
      BY <3>5, <3>6 DEF Written
    <3>. QED BY <3>7, <3>8
  <2>7. Promise!AbsFinish
    BY <1>2, <1>3, <2>2, <2>5, <2>6 DEF Promise!AbsFinish, Hashed, Written, Failure, Verdict
  <2>. QED BY <2>7 DEF Promise!AbsNext
<1>5. CASE Spawn \/ DropSender \/ JoinProducer
  <2>1. Verdict' = Verdict
    BY <1>5 DEF Spawn, DropSender, JoinProducer, Verdict
  <2>. QED BY <1>2, <1>3, <2>1 DEF Promise!absVars, Hashed, Written, Failure, Verdict
<1>. QED BY <1>4, <1>5 DEF MainStep

\* The pipeline, with its threads, channels and reused buffers, does what the
\* caller of rewrite is promised: each of its steps is a step of
\* ChunkedRewrite or invisible there.
THEOREM Implements == Spec => KeepsPromise
<1>1. Init => RefInv
  BY InitInv, InitOnce DEF RefInv
<1>2. RefInv /\ [Next]_vars => [Promise!AbsNext]_(Promise!absVars)
  <2>. SUFFICES ASSUME RefInv, [Next]_vars PROVE Promise!AbsNext \/ UNCHANGED Promise!absVars
    OBVIOUS
  <2>1. CASE UNCHANGED vars
    BY <2>1 DEF Promise!absVars, vars, producerVars, writerVars, mainVars
  <2>. QED BY <2>1, ProducerPromise, WriterPromise, MainPromise DEF Next, Terminated
<1>. QED BY <1>1, <1>2, InitPromise, NextRefInv, PTL DEF Spec, KeepsPromise, Promise!AbsSpec
=============================================================================
