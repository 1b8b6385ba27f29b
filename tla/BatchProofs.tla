---------------------------- MODULE BatchProofs ----------------------------
(***************************************************************************)
(* Proofs about Batch, for any command lines, any number of job threads    *)
(* and any --jobs: the inputs are shared out exactly, the report is        *)
(* complete, the exit code is true, nothing is signed without a key and no *)
(* two jobs meet at a file.                                                *)
(***************************************************************************)
EXTENDS Batch, FiniteSetTheorems, TLAPS

Verdict == {"ok", "err"}
Active == {"sign", "wait", "write"}

\* The type invariant.
TypeInv ==
    /\ args \in [inputs : ArgLists, mode : {"inPlace", "out", "outDir"}, jobs : JobsArg,
                 schemes : {"v1", "none", "some"}, slowKey : BOOLEAN]
    /\ key \in {"pending", "ok", "failed"}
    /\ mpc \in {"start", "key", "spawn", "scope", "report", "done"}
    /\ next \in Nat \ {0}
    /\ wpc \in [Worker -> Active \cup {"unborn", "claim", "done"}]
    /\ idx \in [Worker -> 0 .. N]
    /\ results \in Seq(Input \X Verdict)
    /\ signed \in [Input -> {0, 1}] /\ late \subseteq Input
    /\ exit \in {-1, 0, 1}

\* The inputs are shared out: every claimed input is with one job thread or
\* has one verdict.
Shared ==
    /\ \A w \in Worker : wpc[w] \in Active => idx[w] \in Input /\ idx[w] < next
    /\ \A v, w \in Worker : v # w /\ wpc[v] \in Active /\ wpc[w] \in Active => idx[v] # idx[w]
    /\ \A k \in 1 .. Len(results) : results[k][1] < next
    /\ \A j, k \in 1 .. Len(results) : j # k => results[j][1] # results[k][1]
    /\ \A k \in 1 .. Len(results), w \in Worker : wpc[w] \in Active => results[k][1] # idx[w]
    /\ \A i \in Input : i < next =>
          \/ \E w \in Worker : wpc[w] \in Active /\ idx[w] = i
          \/ \E k \in 1 .. Len(results) : results[k][1] = i

\* Among results there is an Ok for input i.
HasOk(s, i) == \E k \in 1 .. Len(s) : s[k][1] = i /\ s[k][2] = "ok"

\* Among results there is a verdict for input i.
Judged(s, i) == \E k \in 1 .. Len(s) : s[k][1] = i

\* A verdict is Ok exactly if the work on the input was completed, and an
\* input that is signed, late failure or not, has its verdict.
Verdicts ==
    \A i \in Input :
        /\ Complete(i) <=> HasOk(results, i)
        /\ i \in late => signed[i] = 1
        /\ signed[i] = 1 => Judged(results, i)

\* The key comes before the first signature.
KeyFirst ==
    /\ \A w \in Worker : wpc[w] = "write" => key = "ok"
    /\ \A i \in Input : signed[i] # 0 => key = "ok"
    /\ mpc \in {"start", "key"} => key = "pending"

\* The life of the job threads.
Threads ==
    /\ \A w \in Worker : wpc[w] # "unborn" => w \in Started
    /\ \A w \in Worker : wpc[w] = "done" => next > N
    /\ mpc \in {"start", "key"} => \A w \in Worker : wpc[w] = "unborn"
    /\ mpc = "spawn" => wpc[JobCount] = "unborn"
    /\ mpc = "scope" => \A w \in Started : wpc[w] # "unborn"
    /\ mpc \in {"report", "done"} =>
          \/ key # "ok" /\ \A w \in Worker : wpc[w] \in {"unborn", "done"}
          \/ key = "ok" /\ \A w \in Started : wpc[w] = "done"
    /\ mpc = "report" => key # "pending"

\* What is planned once a job thread runs.
Outputs ==
    [i \in Input |->
        CASE args.mode = "inPlace" -> InPlace
          [] args.mode = "out" -> Into(OutFile, args.inputs[i])
          [] args.mode = "outDir" -> Into(InDir(args.inputs[i]), args.inputs[i])]

Planned ==
    /\ args.mode = "out" => N = 1
    /\ mpc \notin {"start", "done"} \/ (\E w \in Worker : wpc[w] # "unborn") =>
          ~Clash /\ outputs = Outputs

\* What the end of the run has found.
Ended ==
    mpc = "done" =>
        /\ exit = IF key = "ok" /\ Failed = {} THEN 0 ELSE 1
        /\ key = "ok" => report = Sorted(results)

IInv == TypeInv /\ Shared /\ Verdicts /\ KeyFirst /\ Threads /\ Planned /\ Ended
-----------------------------------------------------------------------------
(* Facts about the command line and about a verdict that is pushed.        *)

\* There are inputs, and no more job threads than inputs.
LEMMA Counts ==
    ASSUME TypeInv
    PROVE /\ MaxInputs \in Nat /\ N \in 1 .. MaxInputs /\ Input = 1 .. N
          /\ JobCount \in 1 .. N /\ Started \subseteq Worker /\ JobCount \in Worker
<1>1. MaxInputs \in Nat /\ N \in 1 .. MaxInputs
  BY ArgListsAssumption DEF TypeInv, N
<1>2. args.jobs \in Nat
  BY JobsAssumption DEF TypeInv
<1> QED
  BY <1>1, <1>2 DEF Input, JobCount, Started, Worker

\* What depends on the command line alone stays.
LEMMA Fixed ==
    ASSUME args' = args
    PROVE /\ N' = N /\ Input' = Input /\ JobCount' = JobCount /\ Started' = Started
          /\ Outputs' = Outputs /\ Clash' = Clash
<1>1. N' = N /\ Input' = Input /\ JobCount' = JobCount /\ Started' = Started
  BY DEF N, Input, JobCount, Started
<1> QED
  BY <1>1 DEF Outputs, Clash

\* The results after a push.
LEMMA Pushed ==
    ASSUME TypeInv, NEW w \in Worker, idx[w] \in Input, NEW v \in Verdict, Push(w, v)
    PROVE /\ results' \in Seq(Input \X Verdict)
          /\ Len(results) \in Nat /\ Len(results') = Len(results) + 1
          /\ \A k \in 1 .. Len(results) : results'[k] = results[k]
          /\ results'[Len(results) + 1] = <<idx[w], v>>
          /\ wpc' \in [Worker -> Active \cup {"unborn", "claim", "done"}]
          /\ wpc'[w] = "claim" /\ \A x \in Worker : x # w => wpc'[x] = wpc[x]
<1>1. results \in Seq(Input \X Verdict) /\ <<idx[w], v>> \in Input \X Verdict
  BY DEF TypeInv
<1>2. results' = Append(results, <<idx[w], v>>)
  BY DEF Push
<1>3. /\ wpc' \in [Worker -> Active \cup {"unborn", "claim", "done"}]
      /\ wpc'[w] = "claim" /\ \A x \in Worker : x # w => wpc'[x] = wpc[x]
  BY DEF TypeInv, Push
<1> QED
  BY <1>1, <1>2, <1>3

\* The inputs with an Ok after a push.
LEMMA OkAfterPush ==
    ASSUME TypeInv, NEW w \in Worker, idx[w] \in Input, NEW v \in Verdict, Push(w, v), NEW i
    PROVE HasOk(results', i) <=> HasOk(results, i) \/ (i = idx[w] /\ v = "ok")
<1>1. /\ Len(results) \in Nat /\ Len(results') = Len(results) + 1
      /\ \A k \in 1 .. Len(results) : results'[k] = results[k]
      /\ results'[Len(results) + 1][1] = idx[w] /\ results'[Len(results) + 1][2] = v
  BY Pushed
<1>2. /\ \A k \in 1 .. Len(results') : k \in 1 .. Len(results) \/ k = Len(results) + 1
      /\ 1 .. Len(results) \subseteq 1 .. Len(results') /\ Len(results) + 1 \in 1 .. Len(results')
  BY <1>1
<1>3. ASSUME NEW k \in 1 .. Len(results'), results'[k][1] = i, results'[k][2] = "ok"
      PROVE \/ \E j \in 1 .. Len(results) : results[j][1] = i /\ results[j][2] = "ok"
            \/ i = idx[w] /\ v = "ok"
  BY <1>1, <1>2, <1>3
<1>4. ASSUME NEW k \in 1 .. Len(results), results[k][1] = i, results[k][2] = "ok"
      PROVE \E j \in 1 .. Len(results') : results'[j][1] = i /\ results'[j][2] = "ok"
  BY <1>1, <1>2, <1>4
<1>5. ASSUME i = idx[w], v = "ok"
      PROVE \E j \in 1 .. Len(results') : results'[j][1] = i /\ results'[j][2] = "ok"
  BY <1>1, <1>2, <1>5
<1> QED
  BY <1>3, <1>4, <1>5 DEF HasOk

\* The inputs with a verdict after a push.
LEMMA JudgedAfterPush ==
    ASSUME TypeInv, NEW w \in Worker, idx[w] \in Input, NEW v \in Verdict, Push(w, v)
    PROVE Judged(results', idx[w]) /\ \A i : Judged(results, i) => Judged(results', i)
<1>1. /\ Len(results) \in Nat /\ Len(results') = Len(results) + 1
      /\ \A k \in 1 .. Len(results) : results'[k] = results[k]
      /\ results'[Len(results) + 1][1] = idx[w]
  BY Pushed
<1>2. 1 .. Len(results) \subseteq 1 .. Len(results') /\ Len(results) + 1 \in 1 .. Len(results')
  BY <1>1
<1>3. ASSUME NEW i, NEW k \in 1 .. Len(results), results[k][1] = i
      PROVE \E j \in 1 .. Len(results') : results'[j][1] = i
  BY <1>1, <1>2, <1>3
<1> QED
  BY <1>1, <1>2, <1>3 DEF Judged

\* A thread that pushes a verdict gives up its input: the inputs stay shared
\* out exactly.
LEMMA PushShares ==
    ASSUME IInv, NEW w \in Worker, wpc[w] \in Active, NEW v \in Verdict, Push(w, v),
           UNCHANGED <<args, next, idx>>
    PROVE Shared'
<1> USE DEF IInv
<1>1. N' = N /\ Input' = Input
  BY Fixed
<1>2. idx[w] \in Input /\ idx[w] < next /\ Input \subseteq Nat
  BY Counts DEF Shared
<1>3. /\ Len(results) \in Nat /\ Len(results') = Len(results) + 1
      /\ \A k \in 1 .. Len(results) : results'[k] = results[k]
      /\ results'[Len(results) + 1] = <<idx[w], v>>
      /\ wpc'[w] = "claim" /\ \A x \in Worker : x # w => wpc'[x] = wpc[x]
  BY <1>2, Pushed
<1>4. /\ results'[Len(results) + 1][1] = idx[w]
      /\ \A k \in 1 .. Len(results') : k \in 1 .. Len(results) \/ k = Len(results) + 1
      /\ 1 .. Len(results) \subseteq 1 .. Len(results') /\ Len(results) + 1 \in 1 .. Len(results')
  BY <1>3
<1>5. \A x \in Worker : wpc'[x] \in Active => x # w /\ wpc[x] \in Active
  BY <1>3 DEF Active
<1>6. /\ \A x \in Worker : wpc'[x] \in Active => idx'[x] \in Input' /\ idx'[x] < next'
      /\ \A x, y \in Worker : x # y /\ wpc'[x] \in Active /\ wpc'[y] \in Active => idx'[x] # idx'[y]
  BY <1>1, <1>5 DEF Shared
<1>7. /\ \A k \in 1 .. Len(results') : results'[k][1] < next'
      /\ \A k \in 1 .. Len(results'), x \in Worker : wpc'[x] \in Active => results'[k][1] # idx'[x]
  BY <1>2, <1>3, <1>4, <1>5 DEF Shared
<1>8. \A j, k \in 1 .. Len(results') : j # k => results'[j][1] # results'[k][1]
  BY <1>3, <1>4 DEF Shared
<1>9. ASSUME NEW i \in Input', i < next'
      PROVE \/ \E x \in Worker : wpc'[x] \in Active /\ idx'[x] = i
            \/ \E k \in 1 .. Len(results') : results'[k][1] = i
  <2>1. CASE i = idx[w]
    BY <1>4, <2>1
  <2>2. CASE i # idx[w] /\ \E x \in Worker : wpc[x] \in Active /\ idx[x] = i
    BY <1>3, <2>2
  <2>3. CASE \E k \in 1 .. Len(results) : results[k][1] = i
    BY <1>3, <1>4, <2>3
  <2> QED
    BY <1>1, <1>9, <2>1, <2>2, <2>3 DEF Shared
<1> QED
  BY <1>6, <1>7, <1>8, <1>9 DEF Shared

\* An input that a thread has is not signed yet and has no verdict.
LEMMA ActiveIsUnsigned ==
    ASSUME IInv, NEW w \in Worker, wpc[w] \in Active
    PROVE idx[w] \in Input /\ signed[idx[w]] = 0 /\ idx[w] \notin late
<1>1. idx[w] \in Input /\ \A k \in 1 .. Len(results) : results[k][1] # idx[w]
  BY DEF IInv, Shared
<1>2. signed[idx[w]] # 1 /\ idx[w] \notin late
  BY <1>1 DEF IInv, Verdicts, Judged
<1> QED
  BY <1>1, <1>2 DEF IInv, TypeInv

\* An error is pushed: the input stays unsigned.
LEMMA PushErr ==
    ASSUME IInv, NEW w \in Worker, wpc[w] \in Active, Push(w, "err"),
           UNCHANGED <<args, outputs, key, mpc, next, idx, signed, late, report, exit>>
    PROVE IInv'
<1> USE DEF IInv
<1>1. /\ N' = N /\ Input' = Input /\ JobCount' = JobCount /\ Started' = Started
      /\ Outputs' = Outputs /\ Clash' = Clash
  BY Fixed
<1>2. idx[w] \in Input
  BY ActiveIsUnsigned
<1>3. /\ results' \in Seq(Input \X Verdict)
      /\ Len(results) \in Nat /\ Len(results') = Len(results) + 1
      /\ \A k \in 1 .. Len(results) : results'[k] = results[k]
      /\ results'[Len(results) + 1] = <<idx[w], "err">>
      /\ wpc' \in [Worker -> Active \cup {"unborn", "claim", "done"}]
      /\ wpc'[w] = "claim" /\ \A x \in Worker : x # w => wpc'[x] = wpc[x]
  BY <1>2, Pushed DEF Verdict
<1>4. TypeInv'
  BY <1>1, <1>3 DEF TypeInv
<1>5. Shared'
  BY PushShares DEF Verdict
<1>6. Verdicts'
  <2>1. \A i \in Input : HasOk(results', i) <=> HasOk(results, i)
    BY <1>2, OkAfterPush DEF Verdict
  <2>2. \A i \in Input : Judged(results, i) => Judged(results', i)
    BY <1>2, JudgedAfterPush DEF Verdict
  <2>3. \A i \in Input : Complete(i)' <=> Complete(i)
    BY DEF Complete
  <2> QED
    BY <1>1, <2>1, <2>2, <2>3 DEF Verdicts
<1>7. KeyFirst'
  BY <1>1, <1>3 DEF KeyFirst
<1>8. mpc \in {"spawn", "scope"}
  BY Counts DEF Threads, Active, TypeInv
<1>9. Threads'
  BY <1>1, <1>3, <1>8, Counts DEF Threads, Active
<1>10. Planned' /\ Ended'
  BY <1>1, <1>8 DEF Planned, Ended
<1> QED
  BY <1>4, <1>5, <1>6, <1>7, <1>9, <1>10
-----------------------------------------------------------------------------
(* The main thread and the key's.                                          *)

\* A refused command line signs nothing.
LEMMA RefuseKeeps == IInv /\ Refuse => IInv'
<1> SUFFICES ASSUME IInv, Refuse PROVE IInv'
  OBVIOUS
<1> USE DEF IInv, Refuse
<1>1. /\ N' = N /\ Input' = Input /\ JobCount' = JobCount /\ Started' = Started
      /\ Outputs' = Outputs /\ Clash' = Clash
  BY Fixed
<1>2. TypeInv'
  BY <1>1 DEF TypeInv, threadVars, Exit
<1>3. Shared'
  BY <1>1 DEF Shared, threadVars, Exit
<1>4. Verdicts'
  BY <1>1 DEF Verdicts, Complete, threadVars, Exit
<1>5. KeyFirst' /\ Threads'
  BY <1>1, Counts DEF KeyFirst, Threads, TypeInv, threadVars, Exit
<1>6. Planned' /\ Ended'
  BY <1>1 DEF Planned, Ended, Threads, KeyFirst, TypeInv, threadVars, Exit
<1> QED
  BY <1>2, <1>3, <1>4, <1>5, <1>6

\* The plan.
LEMMA PlanKeeps == IInv /\ Plan => IInv'
<1> SUFFICES ASSUME IInv, Plan PROVE IInv'
  OBVIOUS
<1> USE DEF IInv, Plan
<1>1. /\ N' = N /\ Input' = Input /\ JobCount' = JobCount /\ Started' = Started
      /\ Outputs' = Outputs /\ Clash' = Clash
  BY Fixed
<1>2. TypeInv'
  BY <1>1 DEF TypeInv, threadVars
<1>3. Shared'
  BY <1>1 DEF Shared, threadVars
<1>4. Verdicts'
  BY <1>1 DEF Verdicts, Complete, threadVars
<1>5. KeyFirst' /\ Threads'
  BY <1>1, Counts DEF KeyFirst, Threads, TypeInv, threadVars
<1>6. Planned' /\ Ended'
  BY <1>1 DEF Planned, Ended, Threads, KeyFirst, TypeInv, threadVars, Failed, Outputs
<1> QED
  BY <1>2, <1>3, <1>4, <1>5, <1>6

\* A plan that fails.
LEMMA PlanFailsKeeps == IInv /\ PlanFails => IInv'
<1> SUFFICES ASSUME IInv, PlanFails PROVE IInv'
  OBVIOUS
<1> USE DEF IInv, PlanFails
<1>1. /\ N' = N /\ Input' = Input /\ JobCount' = JobCount /\ Started' = Started
      /\ Outputs' = Outputs /\ Clash' = Clash
  BY Fixed
<1>2. TypeInv'
  BY <1>1 DEF TypeInv, threadVars, Exit
<1>3. Shared'
  BY <1>1 DEF Shared, threadVars, Exit
<1>4. Verdicts'
  BY <1>1 DEF Verdicts, Complete, threadVars, Exit
<1>5. KeyFirst' /\ Threads'
  BY <1>1, Counts DEF KeyFirst, Threads, TypeInv, threadVars, Exit
<1>6. Planned' /\ Ended'
  BY <1>1 DEF Planned, Ended, Threads, KeyFirst, TypeInv, threadVars, Exit
<1> QED
  BY <1>2, <1>3, <1>4, <1>5, <1>6

\* The key is left to its thread.
LEMMA StartKeyKeeps == IInv /\ StartKey => IInv'
<1> SUFFICES ASSUME IInv, StartKey PROVE IInv'
  OBVIOUS
<1> USE DEF IInv, StartKey
<1>1. /\ N' = N /\ Input' = Input /\ JobCount' = JobCount /\ Started' = Started
      /\ Outputs' = Outputs /\ Clash' = Clash
  BY Fixed
<1>2. TypeInv'
  BY <1>1 DEF TypeInv, threadVars
<1>3. Shared'
  BY <1>1 DEF Shared, threadVars
<1>4. Verdicts'
  BY <1>1 DEF Verdicts, Complete, threadVars
<1>5. KeyFirst' /\ Threads'
  BY <1>1, Counts DEF KeyFirst, Threads, TypeInv, threadVars
<1>6. Planned' /\ Ended'
  BY <1>1 DEF Planned, Ended, Threads, KeyFirst, TypeInv, threadVars, Failed
<1> QED
  BY <1>2, <1>3, <1>4, <1>5, <1>6

\* The key is loaded, or not, before any job thread is there.
LEMMA LoadKeyKeeps == IInv /\ LoadKey => IInv'
<1> SUFFICES ASSUME IInv, LoadKey PROVE IInv'
  OBVIOUS
<1> USE DEF IInv, LoadKey
<1>1. /\ N' = N /\ Input' = Input /\ JobCount' = JobCount /\ Started' = Started
      /\ Outputs' = Outputs /\ Clash' = Clash
  BY Fixed
<1>2. TypeInv'
  BY <1>1 DEF TypeInv, threadVars
<1>3. Shared'
  BY <1>1 DEF Shared, threadVars
<1>4. Verdicts'
  BY <1>1 DEF Verdicts, Complete, threadVars
<1>5. KeyFirst' /\ Threads'
  BY <1>1, Counts DEF KeyFirst, Threads, TypeInv, threadVars
<1>6. Planned' /\ Ended'
  BY <1>1 DEF Planned, Ended, Threads, KeyFirst, TypeInv, threadVars, Failed
<1> QED
  BY <1>2, <1>3, <1>4, <1>5, <1>6

\* The key's thread ends.
LEMMA KeyLoadsKeeps == IInv /\ KeyLoads => IInv'
<1> SUFFICES ASSUME IInv, KeyLoads PROVE IInv'
  OBVIOUS
<1> USE DEF IInv, KeyLoads
<1>1. /\ N' = N /\ Input' = Input /\ JobCount' = JobCount /\ Started' = Started
      /\ Outputs' = Outputs /\ Clash' = Clash
  BY Fixed
<1>2. TypeInv'
  BY <1>1 DEF TypeInv, threadVars
<1>3. Shared'
  BY <1>1 DEF Shared, threadVars
<1>4. Verdicts'
  BY <1>1 DEF Verdicts, Complete, threadVars
<1>5. KeyFirst' /\ Threads'
  BY <1>1, Counts DEF KeyFirst, Threads, TypeInv, threadVars
<1>6. Planned' /\ Ended'
  BY <1>1 DEF Planned, Ended, Threads, KeyFirst, TypeInv, threadVars, Failed
<1> QED
  BY <1>2, <1>3, <1>4, <1>5, <1>6

\* All threads are gone.
LEMMA ScopeEndsKeeps == IInv /\ ScopeEnds => IInv'
<1> SUFFICES ASSUME IInv, ScopeEnds PROVE IInv'
  OBVIOUS
<1> USE DEF IInv, ScopeEnds
<1>1. /\ N' = N /\ Input' = Input /\ JobCount' = JobCount /\ Started' = Started
      /\ Outputs' = Outputs /\ Clash' = Clash
  BY Fixed
<1>2. TypeInv'
  BY <1>1 DEF TypeInv, threadVars
<1>3. Shared'
  BY <1>1 DEF Shared, threadVars
<1>4. Verdicts'
  BY <1>1 DEF Verdicts, Complete, threadVars
<1>5. KeyFirst' /\ Threads'
  BY <1>1, Counts DEF KeyFirst, Threads, TypeInv, threadVars
<1>6. Planned' /\ Ended'
  BY <1>1 DEF Planned, Ended, Threads, KeyFirst, TypeInv, threadVars, Failed
<1> QED
  BY <1>2, <1>3, <1>4, <1>5, <1>6

\* The report and the exit code.
LEMMA ReportKeeps == IInv /\ Report => IInv'
<1> SUFFICES ASSUME IInv, Report PROVE IInv'
  OBVIOUS
<1> USE DEF IInv, Report
<1>1. /\ N' = N /\ Input' = Input /\ JobCount' = JobCount /\ Started' = Started
      /\ Outputs' = Outputs /\ Clash' = Clash
  BY Fixed
<1>2. TypeInv'
  BY <1>1 DEF TypeInv, threadVars, Exit, Failed
<1>3. Shared'
  BY <1>1 DEF Shared, threadVars, Exit, Failed
<1>4. Verdicts'
  BY <1>1 DEF Verdicts, Complete, threadVars, Exit, Failed
<1>5. KeyFirst' /\ Threads'
  BY <1>1, Counts DEF KeyFirst, Threads, TypeInv, threadVars, Exit, Failed
<1>6. Planned' /\ Ended'
  BY <1>1 DEF Planned, Ended, Threads, KeyFirst, TypeInv, threadVars, Exit, Failed
<1> QED
  BY <1>2, <1>3, <1>4, <1>5, <1>6

\* A job thread is started, in order.
LEMMA SpawnKeeps == IInv /\ Spawn => IInv'
<1> SUFFICES ASSUME IInv, Spawn PROVE IInv'
  OBVIOUS
<1> USE DEF IInv, Spawn
<1>1. /\ N' = N /\ Input' = Input /\ JobCount' = JobCount /\ Started' = Started
      /\ Outputs' = Outputs /\ Clash' = Clash
  BY Fixed
<1>2. PICK w \in Started :
        /\ wpc[w] = "unborn" /\ \A v \in 1 .. w - 1 : wpc[v] # "unborn"
        /\ wpc' = [wpc EXCEPT ![w] = "claim"]
        /\ mpc' = IF w = JobCount THEN "scope" ELSE "spawn"
  OBVIOUS
<1>3. /\ wpc' \in [Worker -> Active \cup {"unborn", "claim", "done"}] /\ w \in Worker
      /\ wpc'[w] = "claim" /\ \A x \in Worker : x # w => wpc'[x] = wpc[x]
  BY <1>2, Counts DEF TypeInv
<1>4. TypeInv' /\ Verdicts'
  BY <1>1, <1>2, <1>3 DEF TypeInv, Verdicts, Complete
<1>5. \A x \in Worker : wpc'[x] \in Active <=> wpc[x] \in Active
  BY <1>2, <1>3 DEF Active
<1>6. Shared'
  BY <1>1, <1>5 DEF Shared
<1>7. KeyFirst'
  BY <1>1, <1>2, <1>3 DEF KeyFirst
<1>8. Threads'
  BY <1>1, <1>2, <1>3, Counts DEF Threads, Started
<1>9. Planned' /\ Ended'
  BY <1>1, <1>2 DEF Planned, Ended
<1> QED
  BY <1>4, <1>6, <1>7, <1>8, <1>9
-----------------------------------------------------------------------------
(* The job threads.                                                        *)

\* A claim takes the next input, which nobody has had, or ends the thread.
LEMMA ClaimKeeps == ASSUME NEW w \in Worker PROVE IInv /\ Claim(w) => IInv'
<1> SUFFICES ASSUME IInv, Claim(w) PROVE IInv'
  OBVIOUS
<1> USE DEF IInv, Claim
<1>1. /\ N' = N /\ Input' = Input /\ JobCount' = JobCount /\ Started' = Started
      /\ Outputs' = Outputs /\ Clash' = Clash
  BY Fixed
<1>2. mpc \in {"spawn", "scope"} /\ next \in Nat /\ next # 0 /\ next' = next + 1
  BY Counts DEF Threads, TypeInv
<1>3. Verdicts'
  BY <1>1 DEF Verdicts, Complete
<1>4. Planned' /\ Ended'
  BY <1>1, <1>2 DEF Planned, Ended
<1>5. CASE next <= N
  <2>1. next \in Input /\ next \in 0 .. N
    BY <1>2, <1>5, Counts
  <2>2. /\ wpc' \in [Worker -> Active \cup {"unborn", "claim", "done"}]
        /\ idx' \in [Worker -> 0 .. N]
        /\ wpc'[w] = "sign" /\ \A x \in Worker : x # w => wpc'[x] = wpc[x]
        /\ idx'[w] = next /\ \A x \in Worker : x # w => idx'[x] = idx[x]
    <3>1. wpc' = [wpc EXCEPT ![w] = "sign"] /\ idx' = [idx EXCEPT ![w] = next]
      BY <1>5
    <3>2. wpc \in [Worker -> Active \cup {"unborn", "claim", "done"}] /\ idx \in [Worker -> 0 .. N]
      BY DEF TypeInv
    <3> QED
      BY ONLY <2>1, <3>1, <3>2, w \in Worker DEF Active
  <2>3. TypeInv'
    BY <1>1, <1>2, <2>2 DEF TypeInv
  <2>4. /\ \A x \in Worker : x # w => (wpc'[x] \in Active <=> wpc[x] \in Active)
        /\ wpc'[w] \in Active /\ wpc[w] \notin Active
    BY <2>2 DEF Active
  <2>5. Shared'
    <3>1. \A x \in Worker : wpc'[x] \in Active => idx'[x] \in Input' /\ idx'[x] < next'
      BY <1>1, <1>2, <2>1, <2>2, <2>4, Counts DEF Shared
    <3>2. \A x, y \in Worker :
             x # y /\ wpc'[x] \in Active /\ wpc'[y] \in Active => idx'[x] # idx'[y]
      <4>1. \A x \in Worker : x # w /\ wpc'[x] \in Active => idx'[x] < next
        BY <2>2, <2>4 DEF Shared
      <4>2. \A x, y \in Worker :
               x # w /\ y # w /\ x # y /\ wpc'[x] \in Active /\ wpc'[y] \in Active
                 => idx'[x] # idx'[y]
        BY <2>2, <2>4 DEF Shared
      <4> QED
        BY <1>2, <2>2, <4>1, <4>2
    <3>3. \A k \in 1 .. Len(results) : results[k][1] \in Input /\ results[k][1] < next
      BY DEF TypeInv, Shared
    <3>4. \A k \in 1 .. Len(results), x \in Worker : wpc'[x] \in Active => results[k][1] # idx'[x]
      <4>1. \A k \in 1 .. Len(results), x \in Worker :
               x # w /\ wpc'[x] \in Active => results[k][1] # idx'[x]
        BY <2>2, <2>4 DEF Shared
      <4> QED
        BY <1>2, <2>2, <3>3, <4>1
    <3>5. ASSUME NEW i \in Input, i < next + 1
          PROVE \/ \E x \in Worker : wpc'[x] \in Active /\ idx'[x] = i
                \/ \E k \in 1 .. Len(results) : results[k][1] = i
      <4>1. CASE i = next
        BY <2>2, <2>4, <4>1
      <4>2. CASE i < next
        BY <2>2, <2>4, <4>2 DEF Shared
      <4> QED
        BY <1>2, <3>5, <4>1, <4>2, Counts
    <3> QED
      BY <1>1, <1>2, <3>1, <3>2, <3>3, <3>4, <3>5, Counts DEF Shared
  <2>6. KeyFirst' /\ Threads'
    BY <1>1, <1>2, <2>2, Counts DEF KeyFirst, Threads
  <2> QED
    BY <1>3, <1>4, <2>3, <2>5, <2>6
<1>6. CASE ~(next <= N)
  <2>1. /\ wpc' \in [Worker -> Active \cup {"unborn", "claim", "done"}]
        /\ wpc'[w] = "done" /\ \A x \in Worker : x # w => wpc'[x] = wpc[x]
        /\ idx' = idx
    BY <1>6 DEF TypeInv
  <2>2. TypeInv'
    BY <1>1, <1>2, <2>1 DEF TypeInv
  <2>3. \A x \in Worker : wpc'[x] \in Active <=> wpc[x] \in Active
    BY <2>1 DEF Active
  <2>4. \A i \in Input : i < next /\ i < next + 1
    BY <1>2, <1>6, Counts
  <2>5. \A k \in 1 .. Len(results) : results[k][1] \in Input
    BY DEF TypeInv
  <2>6. Shared'
    BY <1>1, <1>2, <2>1, <2>3, <2>4, <2>5 DEF Shared
  <2>7. KeyFirst' /\ Threads'
    BY <1>1, <1>2, <1>6, <2>1, Counts DEF KeyFirst, Threads
  <2> QED
    BY <1>3, <1>4, <2>2, <2>6, <2>7
<1> QED
  BY <1>5, <1>6

\* sign_one fails before it needs the key, for want of a key, or afterwards.
LEMMA FailureKeeps ==
    ASSUME NEW w \in Worker
    PROVE IInv /\ (SignFails(w) \/ NoKey(w) \/ WriteFails(w)) => IInv'
  BY PushErr DEF SignFails, NoKey, WriteFails, Active

\* The wait for the key begins, and ends with a key.
LEMMA WaitKeeps ==
    ASSUME NEW w \in Worker
    PROVE IInv /\ (NeedsKey(w) \/ HasKey(w)) => IInv'
<1> SUFFICES ASSUME IInv, NeedsKey(w) \/ HasKey(w) PROVE IInv'
  OBVIOUS
<1> USE DEF IInv
<1>1. /\ UNCHANGED <<args, outputs, key, mpc, next, idx, results, signed, late, report, exit>>
      /\ N' = N /\ Input' = Input /\ JobCount' = JobCount /\ Started' = Started
      /\ Outputs' = Outputs /\ Clash' = Clash
  BY Fixed DEF NeedsKey, HasKey
<1>2. /\ wpc' \in [Worker -> Active \cup {"unborn", "claim", "done"}]
      /\ wpc[w] \in Active /\ wpc'[w] \in Active
      /\ wpc'[w] = "write" => key = "ok"
      /\ \A x \in Worker : x # w => wpc'[x] = wpc[x]
  BY DEF NeedsKey, HasKey, TypeInv, Active
<1>3. mpc \in {"spawn", "scope"}
  BY <1>2, Counts DEF Threads, TypeInv, Active
<1>4. TypeInv' /\ Verdicts'
  BY <1>1, <1>2 DEF TypeInv, Verdicts, Complete
<1>5. \A x \in Worker : wpc'[x] \in Active <=> wpc[x] \in Active
  BY <1>2
<1>6. Shared'
  BY <1>1, <1>5 DEF Shared
<1>7. KeyFirst'
  BY <1>1, <1>2 DEF KeyFirst
<1>8. Threads'
  BY <1>1, <1>2, <1>3, Counts DEF Threads, Active
<1>9. Planned' /\ Ended'
  BY <1>1, <1>3 DEF Planned, Ended
<1> QED
  BY <1>4, <1>6, <1>7, <1>8, <1>9

\* sign_one replaces the destination, and succeeds or fails late: the input
\* is signed, once.
LEMMA ReplaceKeeps ==
    ASSUME IInv, NEW w \in Worker, wpc[w] = "write", NEW v \in Verdict, Push(w, v),
           signed' = [signed EXCEPT ![idx[w]] = @ + 1],
           late' = IF v = "ok" THEN late ELSE late \cup {idx[w]},
           UNCHANGED <<args, outputs, key, mpc, next, idx, report, exit>>
    PROVE IInv'
<1> USE DEF IInv
<1>1. /\ N' = N /\ Input' = Input /\ JobCount' = JobCount /\ Started' = Started
      /\ Outputs' = Outputs /\ Clash' = Clash
  BY Fixed
<1>2. /\ wpc[w] \in Active /\ key = "ok"
      /\ idx[w] \in Input /\ signed[idx[w]] = 0 /\ idx[w] \notin late
  BY ActiveIsUnsigned DEF Active, KeyFirst
<1>3. /\ results' \in Seq(Input \X Verdict)
      /\ wpc' \in [Worker -> Active \cup {"unborn", "claim", "done"}]
      /\ wpc'[w] = "claim" /\ \A x \in Worker : x # w => wpc'[x] = wpc[x]
  BY <1>2, Pushed
<1>4. /\ signed' \in [Input -> {0, 1}] /\ signed'[idx[w]] = 1
      /\ \A i \in Input : i # idx[w] => signed'[i] = signed[i]
      /\ late' \subseteq Input /\ (idx[w] \in late' <=> v # "ok")
      /\ \A i \in Input : i # idx[w] => (i \in late' <=> i \in late)
  BY <1>2 DEF TypeInv
<1>5. TypeInv'
  BY <1>1, <1>3, <1>4 DEF TypeInv
<1>6. Shared'
  BY <1>2, PushShares
<1>7. Verdicts'
  <2>1. \A i \in Input : HasOk(results', i) <=> HasOk(results, i) \/ (i = idx[w] /\ v = "ok")
    BY <1>2, OkAfterPush
  <2>2. Judged(results', idx[w]) /\ \A i \in Input : Judged(results, i) => Judged(results', i)
    BY <1>2, JudgedAfterPush
  <2>3. ~Complete(idx[w]) /\ (Complete(idx[w])' <=> v = "ok")
    BY <1>2, <1>4 DEF Complete
  <2>4. \A i \in Input : i # idx[w] => (Complete(i)' <=> Complete(i))
    BY <1>4 DEF Complete
  <2>5. ASSUME NEW i \in Input
        PROVE /\ Complete(i)' <=> HasOk(results', i)
              /\ i \in late' => signed'[i] = 1
              /\ signed'[i] = 1 => Judged(results', i)
    <3>1. CASE i = idx[w]
      BY <1>2, <1>4, <2>1, <2>2, <2>3, <3>1 DEF Verdicts
    <3>2. CASE i # idx[w]
      BY <1>4, <2>1, <2>2, <2>4, <3>2 DEF Verdicts
    <3> QED
      BY <3>1, <3>2
  <2> QED
    BY <1>1, <2>5 DEF Verdicts
<1>8. KeyFirst'
  BY <1>1, <1>2, <1>3 DEF KeyFirst, Threads, Active
<1>9. mpc \in {"spawn", "scope"}
  BY <1>2, Counts DEF Threads, Active, TypeInv
<1>10. Threads'
  BY <1>1, <1>2, <1>3, <1>9, Counts DEF Threads, Active
<1>11. Planned' /\ Ended'
  BY <1>1, <1>9 DEF Planned, Ended
<1> QED
  BY <1>5, <1>6, <1>7, <1>8, <1>10, <1>11

\* With either verdict.
LEMMA SignsKeeps ==
    ASSUME NEW w \in Worker PROVE IInv /\ (Signs(w) \/ FailsLate(w)) => IInv'
<1>1. ASSUME IInv, Signs(w) PROVE IInv'
  <2>1. "ok" \in Verdict
    BY DEF Verdict
  <2> QED
    BY <1>1, <2>1, ReplaceKeeps DEF Signs
<1>2. ASSUME IInv, FailsLate(w) PROVE IInv'
  <2>1. "err" \in Verdict
    BY DEF Verdict
  <2> QED
    BY <1>2, <2>1, ReplaceKeeps DEF FailsLate
<1> QED
  BY <1>1, <1>2
-----------------------------------------------------------------------------
(* The inductive invariant.                                                *)

\* The initial states: no thread, no result, no key.
LEMMA InitHolds == Init => IInv
<1> SUFFICES ASSUME Init PROVE IInv
  OBVIOUS
<1>1. TypeInv
  <2>1. results \in Seq(Input \X Verdict)
    BY DEF Init
  <2>2. N \in Nat
    BY ArgListsAssumption DEF Init, N
  <2>3. idx \in [Worker -> 0 .. N] /\ signed \in [Input -> {0, 1}]
    BY <2>2 DEF Init
  <2> QED
    BY <2>1, <2>3 DEF Init, TypeInv
<1>2. Len(results) = 0
  BY DEF Init
<1>3. Shared /\ Verdicts
  BY <1>1, <1>2, Counts DEF Init, Shared, Verdicts, Complete, HasOk, Active
<1>4. KeyFirst /\ Threads
  BY <1>1, Counts DEF Init, KeyFirst, Threads
<1>5. Planned /\ Ended
  BY DEF Init, Planned, Ended, N
<1> QED
  BY <1>1, <1>3, <1>4, <1>5 DEF IInv

\* A step that changes nothing.
LEMMA StutterKeeps == IInv /\ UNCHANGED vars => IInv'
<1> SUFFICES ASSUME IInv, UNCHANGED vars PROVE IInv'
  OBVIOUS
<1> USE DEF IInv, vars, threadVars
<1>1. /\ N' = N /\ Input' = Input /\ JobCount' = JobCount /\ Started' = Started
      /\ Outputs' = Outputs /\ Clash' = Clash
  BY Fixed
<1>2. TypeInv' /\ Verdicts'
  BY <1>1 DEF TypeInv, Verdicts, Complete
<1>3. Shared'
  BY <1>1 DEF Shared
<1>4. KeyFirst' /\ Threads'
  BY <1>1 DEF KeyFirst, Threads
<1>5. Planned' /\ Ended'
  BY <1>1 DEF Planned, Ended, Failed
<1> QED
  BY <1>2, <1>3, <1>4, <1>5

\* Every step of every thread keeps the invariant.
LEMMA NextKeeps == IInv /\ [Next]_vars => IInv'
<1> SUFFICES ASSUME IInv, [Next]_vars PROVE IInv'
  OBVIOUS
<1>1. CASE MainStep
  BY <1>1, RefuseKeeps, PlanKeeps, PlanFailsKeeps, StartKeyKeeps, LoadKeyKeeps, SpawnKeeps,
     ScopeEndsKeeps, ReportKeeps DEF MainStep
<1>2. CASE KeyLoads
  BY <1>2, KeyLoadsKeeps
<1>3. ASSUME NEW w \in Worker, WorkerStep(w) PROVE IInv'
  BY <1>3, ClaimKeeps, FailureKeeps, WaitKeeps, SignsKeeps DEF WorkerStep
<1>4. CASE Finished \/ UNCHANGED vars
  BY <1>4, StutterKeeps DEF Finished
<1> QED
  BY <1>1, <1>2, <1>3, <1>4 DEF Next

\* Of every reachable state.
THEOREM Inductive == Spec => []IInv
  BY InitHolds, NextKeeps, PTL DEF Spec
-----------------------------------------------------------------------------
(* What the run promises.                                                  *)

\* Nothing is signed while there is no key.
THEOREM NothingWithoutKey == Spec => []NoKeySignsNothing
<1>1. IInv => NoKeySignsNothing
  BY DEF IInv, TypeInv, KeyFirst, NoKeySignsNothing
<1> QED
  BY <1>1, Inductive, PTL

\* Once the threads of a run with a key are gone every input has one verdict.
LEMMA EveryInputJudged ==
    ASSUME IInv, mpc = "done", key = "ok"
    PROVE /\ Len(results) \in Nat
          /\ \A k \in 1 .. Len(results) : results[k] \in Input \X Verdict
          /\ \A j, k \in 1 .. Len(results) : j # k => results[j][1] # results[k][1]
          /\ \A i \in Input : \E k \in 1 .. Len(results) : results[k][1] = i
<1>1. next > N /\ N \in Nat /\ Input = 1 .. N /\ next \in Nat
  <2>1. wpc[JobCount] = "done" /\ JobCount \in Worker /\ N \in Nat /\ Input = 1 .. N
    BY Counts DEF IInv, Threads, Started
  <2> QED
    BY <2>1 DEF IInv, Threads, TypeInv
<1>2. \A w \in Worker : wpc[w] \notin Active
  BY DEF IInv, Threads, Active
<1>3. \A i \in Input : \E k \in 1 .. Len(results) : results[k][1] = i
  BY <1>1, <1>2 DEF IInv, Shared
<1> QED
  BY <1>3 DEF IInv, TypeInv, Shared

\* The exit code is 0 exactly if the work on every input was completed: no
\* failure is lost between the threads, not even one that comes after the
\* destination was replaced, and none is invented.
THEOREM ExitCode == Spec => []ExitCodeIsTrue
<1>1. ASSUME IInv, mpc = "done" PROVE exit = 0 <=> \A i \in Input : Complete(i)
  <2>1. CASE key # "ok"
    <3>1. 1 \in Input /\ ~Complete(1)
      BY <1>1, <2>1, Counts DEF IInv, KeyFirst, Complete
    <3> QED
      BY <1>1, <2>1, <3>1 DEF IInv, Ended
  <2>2. CASE key = "ok"
    <3>1. /\ Len(results) \in Nat
          /\ \A k \in 1 .. Len(results) : results[k][1] \in Input /\ results[k][2] \in Verdict
          /\ \A j, k \in 1 .. Len(results) : j # k => results[j][1] # results[k][1]
          /\ \A i \in Input : \E k \in 1 .. Len(results) : results[k][1] = i
      BY <1>1, <2>2, EveryInputJudged
    <3>2. exit = 0 <=> Failed = {}
      BY <1>1, <2>2 DEF IInv, Ended
    <3>3. ASSUME Failed = {}, NEW i \in Input PROVE Complete(i)
      BY <1>1, <3>1, <3>3 DEF IInv, Verdicts, HasOk, Failed, Verdict
    <3>4. ASSUME NEW k \in Failed PROVE results[k][1] \in Input /\ ~Complete(results[k][1])
      <4>1. k \in 1 .. Len(results) /\ results[k][2] = "err"
        BY DEF Failed
      <4>2. \A j \in 1 .. Len(results) : ~(results[j][1] = results[k][1] /\ results[j][2] = "ok")
        BY <3>1, <4>1
      <4> QED
        BY <1>1, <3>1, <4>1, <4>2 DEF IInv, Verdicts, HasOk
    <3> QED
      BY <3>2, <3>3, <3>4
  <2> QED
    BY <2>1, <2>2
<1>2. IInv => ExitCodeIsTrue
  BY <1>1 DEF ExitCodeIsTrue
<1> QED
  BY <1>2, Inductive, PTL

\* No two job threads work on one file at the same time.
THEOREM FilesAreNotShared == Spec => []NoSharedFiles
<1>1. ASSUME IInv,
             args.mode = "inPlace" => \A i, j \in Input : i # j => args.inputs[i] # args.inputs[j],
             NEW i \in Input, NEW j \in Input, i # j, Busy(i), Busy(j)
      PROVE Dest(i) \notin {Dest(j), args.inputs[j]}
  <2>1. ~Clash /\ outputs = Outputs
    BY <1>1 DEF IInv, Planned, Busy
  <2>2. CASE args.mode = "inPlace"
    BY <1>1, <2>1, <2>2 DEF Outputs, Dest
  <2>3. CASE args.mode = "out"
    BY <1>1, <2>3 DEF IInv, Planned, Input
  <2>4. CASE args.mode = "outDir"
    <3>1. \A k \in Input : InDir(args.inputs[k]).name = args.inputs[k].name
      BY DEF InDir
    <3>2. \A k \in Input : Dest(k).name = args.inputs[k].name
      BY <2>1, <2>4, <3>1 DEF Outputs, Dest, Into
    <3>3. args.inputs[i].name # args.inputs[j].name
      BY <1>1, <2>1, <2>4 DEF Clash
    <3> QED
      BY <3>2, <3>3
  <2> QED
    BY <1>1, <2>2, <2>3, <2>4 DEF IInv, TypeInv
<1>2. IInv => NoSharedFiles
  BY <1>1 DEF NoSharedFiles
<1> QED
  BY <1>2, Inductive, PTL
-----------------------------------------------------------------------------
(* The report.                                                             *)

\* The numbers up to n.
LEMMA UpTo == ASSUME NEW n \in Nat PROVE IsFiniteSet(1 .. n) /\ Cardinality(1 .. n) = n
<1>1. 1 \in Int /\ n \in Int
  OBVIOUS
<1>2. IsFiniteSet(1 .. n) /\ Cardinality(1 .. n) = IF 1 > n THEN 0 ELSE n - 1 + 1
  BY <1>1, FS_Interval
<1> QED
  BY <1>2

\* A bijection onto 1 .. n is below i at i - 1 places.
LEMMA CountBelow ==
    ASSUME NEW m \in Nat, NEW n \in Nat, NEW f \in [1 .. m -> 1 .. n],
           \A j, k \in 1 .. m : j # k => f[j] # f[k],
           \A i \in 1 .. n : \E k \in 1 .. m : f[k] = i
    PROVE /\ m = n
          /\ \A i \in 1 .. n : Cardinality({k \in 1 .. m : f[k] < i}) = i - 1
<1>1. m = n
  <2>1. f \in Bijection(1 .. m, 1 .. n)
    BY DEF Bijection, Injection, Surjection, IsInjective
  <2>2. ExistsBijection(1 .. m, 1 .. n)
    BY <2>1 DEF ExistsBijection
  <2> QED
    BY <2>2, UpTo, FS_Bijection
<1>2. ASSUME NEW i \in 1 .. n PROVE Cardinality({k \in 1 .. m : f[k] < i}) = i - 1
  <2> DEFINE Below == {k \in 1 .. m : f[k] < i}
             g == [k \in Below |-> f[k]]
  <2>1. \A k \in Below : k \in 1 .. m /\ f[k] \in 1 .. i - 1
    OBVIOUS
  <2>2. \A t \in 1 .. i - 1 : t \in 1 .. n /\ t < i
    OBVIOUS
  <2>3. \A t \in 1 .. i - 1 : \E k \in Below : f[k] = t
    BY <2>2
  <2>4. IsFiniteSet(Below)
    <3>1. IsFiniteSet(1 .. m) /\ Below \in SUBSET (1 .. m)
      BY UpTo
    <3> QED
      BY <3>1, FS_Subset
  <2> HIDE DEF Below
  <2>5. g \in Bijection(Below, 1 .. i - 1)
    BY <2>1, <2>3 DEF Bijection, Injection, Surjection, IsInjective
  <2>6. i - 1 \in Nat /\ Cardinality(1 .. i - 1) = i - 1
    BY UpTo
  <2>7. Cardinality(Below) = i - 1
    BY <2>4, <2>5, <2>6, FS_Bijection DEF ExistsBijection
  <2> QED
    BY <2>7 DEF Below
<1> QED
  BY <1>1, <1>2

\* The pairs of s have the first components 1 .. n, each once.
Enumerates(s, n) ==
    /\ Len(s) \in Nat
    /\ \A k \in 1 .. Len(s) : s[k][1] \in 1 .. n
    /\ \A j, k \in 1 .. Len(s) : j # k => s[j][1] # s[k][1]
    /\ \A i \in 1 .. n : \E k \in 1 .. Len(s) : s[k][1] = i

\* What sorting makes of them: the i-th pair is the one of i.
LEMMA SortedByInput ==
    ASSUME NEW n \in Nat, NEW s, Enumerates(s, n)
    PROVE /\ Len(s) = n
          /\ \A i \in 1 .. n, k \in 1 .. Len(s) : s[k][1] = i => Sorted(s)[i] = s[k]
<1> DEFINE f == [k \in 1 .. Len(s) |-> s[k][1]]
<1>1. f \in [1 .. Len(s) -> 1 .. n] /\ Len(s) \in Nat
  BY DEF Enumerates
<1>2. \A k \in 1 .. Len(s) : s[k][1] = f[k]
  OBVIOUS
<1> HIDE DEF f
<1>3. /\ \A j, k \in 1 .. Len(s) : j # k => f[j] # f[k]
      /\ \A i \in 1 .. n : \E k \in 1 .. Len(s) : f[k] = i
  <2>1. ASSUME NEW j \in 1 .. Len(s), NEW k \in 1 .. Len(s), j # k PROVE f[j] # f[k]
    <3>1. s[j][1] # s[k][1] /\ s[j][1] = f[j] /\ s[k][1] = f[k]
      BY <1>2, <2>1 DEF Enumerates
    <3> QED
      BY <3>1, Zenon
  <2>2. ASSUME NEW i \in 1 .. n PROVE \E k \in 1 .. Len(s) : f[k] = i
    <3>1. PICK k \in 1 .. Len(s) : s[k][1] = i
      BY DEF Enumerates
    <3>2. s[k][1] = f[k]
      BY <1>2
    <3> QED
      BY <3>1, <3>2, Zenon
  <2> QED
    BY <2>1, <2>2
<1> USE <1>1, <1>2, <1>3
<1>4. /\ Len(s) = n
      /\ \A i \in 1 .. n : Cardinality({k \in 1 .. Len(s) : f[k] < i}) = i - 1
  <2> DEFINE m == Len(s)
  <2>1. /\ m \in Nat /\ f \in [1 .. m -> 1 .. n]
        /\ \A j, k \in 1 .. m : j # k => f[j] # f[k]
        /\ \A i \in 1 .. n : \E k \in 1 .. m : f[k] = i
    BY <1>1, <1>3
  <2> HIDE DEF m
  <2>2. m = n /\ \A i \in 1 .. n : Cardinality({k \in 1 .. m : f[k] < i}) = i - 1
    BY ONLY n \in Nat, <2>1, CountBelow, ZenonT(60)
  <2> QED
    BY <2>2 DEF m
<1>5. ASSUME NEW i \in 1 .. n PROVE Cardinality({k \in 1 .. Len(s) : s[k][1] < i}) = i - 1
  <2>1. {k \in 1 .. Len(s) : s[k][1] < i} = {k \in 1 .. Len(s) : f[k] < i}
    OBVIOUS
  <2> QED
    BY <1>4, <2>1
<1>6. ASSUME NEW i \in 1 .. n, NEW k \in 1 .. Len(s), f[k] = i PROVE Sorted(s)[i] = s[k]
  <2> DEFINE R == {s[j] : j \in 1 .. Len(s)}
             Is(r) == Cardinality({j \in 1 .. Len(s) : s[j][1] < r[1]}) = i - 1
  <2>1. ASSUME NEW j \in 1 .. Len(s) PROVE Is(s[j]) <=> f[j] - 1 = i - 1
    <3>1. f[j] \in 1 .. n /\ s[j][1] = f[j]
      OBVIOUS
    <3>2. Cardinality({x \in 1 .. Len(s) : s[x][1] < f[j]}) = f[j] - 1
      BY <1>5, <3>1
    <3> QED
      BY <3>1, <3>2
  <2> HIDE DEF Is
  <2>2. ASSUME NEW j \in 1 .. Len(s) PROVE Is(s[j]) <=> j = k
    <3>1. f[j] - 1 = i - 1 <=> f[j] = i
      OBVIOUS
    <3>2. f[j] = i <=> j = k
      BY <1>6
    <3> QED
      BY <2>1, <3>1, <3>2
  <2>3. \A r \in R : Is(r) => r = s[k]
    BY <2>2
  <2>4. s[k] \in R /\ Is(s[k])
    BY <2>2
  <2>5. (CHOOSE r \in R : Is(r)) = s[k]
    BY <2>3, <2>4
  <2>6. i \in 1 .. Len(s)
    BY <1>4
  <2> QED
    BY <2>5, <2>6 DEF Sorted, Is
<1> QED
  BY <1>2, <1>4, <1>6

\* A run whose key loads ends with one verdict per input, in the order of the
\* command line, each of them true; an input reported as failed is not signed,
\* unless the last call failed late.
THEOREM ReportComplete == Spec => []ReportIsComplete
<1>1. ASSUME IInv, mpc = "done", key = "ok"
      PROVE /\ Len(report) = N
            /\ \A i \in Input :
                  /\ report[i] = <<i, IF Complete(i) THEN "ok" ELSE "err">>
                  /\ signed[i] = IF report[i][2] = "ok" \/ i \in late THEN 1 ELSE 0
  <2>1. N \in Nat /\ Input = 1 .. N /\ report = Sorted(results)
    BY <1>1, Counts DEF IInv, Ended
  <2>2. /\ \A k \in 1 .. Len(results) : results[k] \in Input \X Verdict
        /\ \A j, k \in 1 .. Len(results) : j # k => results[j][1] # results[k][1]
        /\ \A i \in Input : \E k \in 1 .. Len(results) : results[k][1] = i
    BY <1>1, <2>1, EveryInputJudged DEF IInv, TypeInv
  <2>3. /\ Len(results) = N
        /\ \A i \in Input, k \in 1 .. Len(results) : results[k][1] = i => report[i] = results[k]
    <3>1. Enumerates(results, N)
      BY <1>1, <2>1, EveryInputJudged DEF Enumerates
    <3> QED
      BY <2>1, <3>1, SortedByInput
  <2>4. Len(report) = N
    BY <2>1, <2>3 DEF Sorted
  <2>5. ASSUME NEW i \in Input
        PROVE /\ report[i] = <<i, IF Complete(i) THEN "ok" ELSE "err">>
              /\ signed[i] = IF report[i][2] = "ok" \/ i \in late THEN 1 ELSE 0
    <3>1. PICK k \in 1 .. Len(results) : results[k][1] = i
      BY <2>2
    <3>2. results[k] = <<i, results[k][2]>> /\ results[k][2] \in {"ok", "err"}
      BY <2>2, <3>1 DEF Verdict
    <3>3. Complete(i) <=> results[k][2] = "ok"
      BY <1>1, <2>2, <3>1 DEF IInv, Verdicts, HasOk
    <3>4. report[i] = results[k] /\ report[i] = <<i, IF Complete(i) THEN "ok" ELSE "err">>
      BY <2>3, <3>1, <3>2, <3>3
    <3>5. /\ signed[i] \in {0, 1} /\ (i \in late => signed[i] = 1)
          /\ report[i][2] = "ok" <=> Complete(i)
      BY <1>1, <3>3, <3>4 DEF IInv, TypeInv, Verdicts
    <3> QED
      BY <3>4, <3>5 DEF Complete
  <2> QED
    BY <2>4, <2>5
<1>2. IInv => ReportIsComplete
  BY <1>1 DEF ReportIsComplete
<1> QED
  BY <1>2, Inductive, PTL
=============================================================================
