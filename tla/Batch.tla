------------------------------- MODULE Batch -------------------------------
(***************************************************************************)
(* A whole run of the program: run of src/src/main.rs with plan_outputs    *)
(* and PendingSigner.  The outputs are planned, the key is loaded inline   *)
(* or, from a PKCS#12 store, on its own thread, job threads claim inputs   *)
(* from a shared counter, and when all threads are gone the results are    *)
(* put in input order and the exit code is decided.                        *)
(*                                                                         *)
(* sign_one (module SignOne) is seen from outside: what it does before it  *)
(* needs the key, which may fail, the wait for the key, and the rest,      *)
(* which signs, or fails before or after the destination was replaced.     *)
(***************************************************************************)
EXTENDS Integers, Sequences, FiniteSets

CONSTANTS
    MaxInputs,  \* no list is longer
    ArgLists,   \* the lists of inputs to be tried: sequences of paths
    JobsArg,    \* the values of --jobs to be tried (the default is one of them)
    OutDir,     \* the directory of --out-dir
    OutFile,    \* the path of --out
    InPlace     \* no output path (None)

\* A path is a directory and a file name.
ASSUME ArgListsAssumption ==
    /\ MaxInputs \in Nat
    /\ \A a \in ArgLists :
          /\ Len(a) \in 1 .. MaxInputs
          /\ \A i \in 1 .. Len(a) : DOMAIN a[i] = {"dir", "name"}
ASSUME JobsAssumption == JobsArg \subseteq Nat

VARIABLES
    args,      \* the parsed command line, fixed
    outputs,   \* plan_outputs: a path, or InPlace, per input
    key,       \* PendingSigner: "pending", then "ok" or "failed"
    mpc,       \* where the main thread is
    next,      \* the shared input counter
    wpc,       \* where each job thread is
    idx,       \* the input each job thread works on
    results,   \* results: pairs of input and verdict, in the order pushed
    signed,    \* how often each input's destination has become a signed APK
    late,      \* the inputs for which sign_one failed after that
    report,    \* what is printed
    exit       \* the exit code

threadVars == <<next, wpc, idx, results, signed, late>>
vars == <<args, outputs, key, mpc, threadVars, report, exit>>

N == Len(args.inputs)
Input == 1 .. N

\* .min(n).max(1)
JobCount ==
    IF N = 1 THEN 1
    ELSE IF args.jobs = 0 THEN 1
    ELSE IF args.jobs < N THEN args.jobs ELSE N

\* No more threads than inputs are ever started.
Worker == 1 .. MaxInputs
Started == 1 .. JobCount

\* parse_args has accepted the command line: --out has one input.
Init ==
    /\ args \in [inputs : ArgLists, mode : {"inPlace", "out", "outDir"}, jobs : JobsArg,
                 schemes : {"v1", "none", "some"}, slowKey : BOOLEAN]
    /\ args.mode = "out" => Len(args.inputs) = 1
    /\ outputs = <<>>
    /\ key = "pending"
    /\ mpc = "start"
    /\ next = 1
    /\ wpc = [w \in Worker |-> "unborn"]
    /\ idx = [w \in Worker |-> 0]
    /\ results = <<>>
    /\ signed = [i \in Input |-> 0] /\ late = {}
    /\ report = <<>>
    /\ exit = -1

Exit(code) == mpc' = "done" /\ exit' = code

-----------------------------------------------------------------------------
(* The main thread before any signing.                                     *)

\* v1 is refused, and so is signing nothing.
Refuse ==
    /\ mpc = "start" /\ args.schemes # "some"
    /\ Exit(1)
    /\ UNCHANGED <<args, outputs, key, threadVars, report>>

\* In place if the output is the input itself (same_file).
Into(out, input) == IF out = input THEN InPlace ELSE out

InDir(input) == [dir |-> OutDir, name |-> input.name]

\* No input is compared with the others.
ClashUnseen == FALSE

\* Two inputs of one name would be written to one file.
Clash ==
    /\ args.mode = "outDir"
    /\ \E i, j \in Input : i # j /\ args.inputs[i].name = args.inputs[j].name

Plan ==
    /\ mpc = "start" /\ args.schemes = "some" /\ ~Clash
    /\ outputs' = [i \in Input |->
                     CASE args.mode = "inPlace" -> InPlace
                       [] args.mode = "out" -> Into(OutFile, args.inputs[i])
                       [] args.mode = "outDir" -> Into(InDir(args.inputs[i]), args.inputs[i])]
    /\ mpc' = "key"
    /\ UNCHANGED <<args, key, threadVars, report, exit>>

\* A clash, or the output directory cannot be made.
PlanFails ==
    /\ mpc = "start" /\ args.schemes = "some" /\ args.mode = "outDir"
    /\ Exit(1)
    /\ UNCHANGED <<args, outputs, key, threadVars, report>>

\* A slow key is left to a thread of its own; any other is loaded here, and
\* if that fails nothing is signed.
StartKey ==
    /\ mpc = "key" /\ args.slowKey
    /\ mpc' = "spawn"
    /\ UNCHANGED <<args, outputs, key, threadVars, report, exit>>

LoadKey ==
    /\ mpc = "key" /\ ~args.slowKey
    /\ key' \in {"ok", "failed"}
    /\ mpc' = IF key' = "ok" THEN "spawn" ELSE "report"
    /\ UNCHANGED <<args, outputs, threadVars, report, exit>>

\* With one job the main thread does the work of the only worker itself.
Spawn ==
    /\ mpc = "spawn"
    /\ \E w \in Started :
          /\ wpc[w] = "unborn" /\ \A v \in 1 .. w - 1 : wpc[v] # "unborn"
          /\ wpc' = [wpc EXCEPT ![w] = "claim"]
          /\ mpc' = IF w = JobCount THEN "scope" ELSE "spawn"
    /\ UNCHANGED <<args, outputs, key, next, idx, results, signed, late, report, exit>>
-----------------------------------------------------------------------------
(* The thread that loads a slow key.                                       *)

KeyLoads ==
    /\ args.slowKey /\ mpc \in {"spawn", "scope"} /\ key = "pending"
    /\ key' \in {"ok", "failed"}
    /\ UNCHANGED <<args, outputs, mpc, threadVars, report, exit>>
-----------------------------------------------------------------------------
(* Job threads.                                                            *)

Claim(w) ==
    /\ wpc[w] = "claim"
    /\ IF next <= N
         THEN /\ idx' = [idx EXCEPT ![w] = next]
              /\ wpc' = [wpc EXCEPT ![w] = "sign"]
         ELSE /\ wpc' = [wpc EXCEPT ![w] = "done"]
              /\ UNCHANGED idx
    /\ next' = next + 1
    /\ UNCHANGED <<args, outputs, key, mpc, results, signed, late, report, exit>>

\* A thread leaves with its first error.
PushErrorStops(w, verdict) ==
    /\ results' = Append(results, <<idx[w], verdict>>)
    /\ wpc' = [wpc EXCEPT ![w] = IF verdict = "ok" THEN "claim" ELSE "done"]

\* results.lock().unwrap().push((idx, r)), and on to the next input.
Push(w, verdict) ==
    /\ results' = Append(results, <<idx[w], verdict>>)
    /\ wpc' = [wpc EXCEPT ![w] = "claim"]

\* sign_one fails before it needs the key.
SignFails(w) ==
    /\ wpc[w] = "sign"
    /\ Push(w, "err")
    /\ UNCHANGED <<args, outputs, key, mpc, next, idx, signed, late, report, exit>>

\* sign_one has parsed and digested and now waits for the key.
NeedsKey(w) ==
    /\ wpc[w] = "sign"
    /\ wpc' = [wpc EXCEPT ![w] = "wait"]
    /\ UNCHANGED <<args, outputs, key, mpc, next, idx, results, signed, late, report, exit>>

\* Any end of loading is taken for a key.
HasKeyOrNot(w) ==
    /\ wpc[w] = "wait" /\ key # "pending"
    /\ wpc' = [wpc EXCEPT ![w] = "write"]
    /\ UNCHANGED <<args, outputs, key, mpc, next, idx, results, signed, late, report, exit>>

\* The wait ends as soon as loading has ended, whatever came of it.
HasKey(w) ==
    /\ wpc[w] = "wait" /\ key = "ok"
    /\ wpc' = [wpc EXCEPT ![w] = "write"]
    /\ UNCHANGED <<args, outputs, key, mpc, next, idx, results, signed, late, report, exit>>

\* The failure of the key never reaches those who wait for it.
NoKeyUnseen(w) == FALSE

NoKey(w) ==
    /\ wpc[w] = "wait" /\ key = "failed"
    /\ Push(w, "err")
    /\ UNCHANGED <<args, outputs, key, mpc, next, idx, signed, late, report, exit>>

Signs(w) ==
    /\ wpc[w] = "write"
    /\ signed' = [signed EXCEPT ![idx[w]] = @ + 1]
    /\ Push(w, "ok")
    /\ UNCHANGED <<args, outputs, key, mpc, next, idx, late, report, exit>>

\* sign_one fails with the destination as it was, or torn by the splice.
WriteFails(w) ==
    /\ wpc[w] = "write"
    /\ Push(w, "err")
    /\ UNCHANGED <<args, outputs, key, mpc, next, idx, signed, late, report, exit>>

\* The failure of the last call is not reported.
LateFailureUnseen(w) ==
    /\ wpc[w] = "write"
    /\ signed' = [signed EXCEPT ![idx[w]] = @ + 1]
    /\ late' = late \cup {idx[w]}
    /\ Push(w, "ok")
    /\ UNCHANGED <<args, outputs, key, mpc, next, idx, report, exit>>

\* The last call of sign_one fails, and with it sign_one, though the
\* destination is a signed APK by then: the unlink after the exchange
\* (replace_file), or in place the set_len of a file that the tail made longer.
FailsLate(w) ==
    /\ wpc[w] = "write"
    /\ signed' = [signed EXCEPT ![idx[w]] = @ + 1]
    /\ late' = late \cup {idx[w]}
    /\ Push(w, "err")
    /\ UNCHANGED <<args, outputs, key, mpc, next, idx, report, exit>>

WorkerStep(w) ==
    \/ Claim(w) \/ SignFails(w) \/ NeedsKey(w) \/ HasKey(w) \/ NoKey(w)
    \/ Signs(w) \/ WriteFails(w) \/ FailsLate(w)
-----------------------------------------------------------------------------
(* The main thread afterwards.                                             *)

\* The scope ends when every thread has: the job threads and the key's.
ScopeEnds ==
    /\ mpc = "scope"
    /\ \A w \in Started : wpc[w] = "done"
    /\ key # "pending"
    /\ mpc' = "report"
    /\ UNCHANGED <<args, outputs, key, threadVars, report, exit>>

\* results.sort_by_key: the k-th line is of the input with k - 1 smaller ones.
Sorted(s) ==
    [k \in 1 .. Len(s) |->
        CHOOSE r \in {s[i] : i \in 1 .. Len(s)} :
            Cardinality({i \in 1 .. Len(s) : s[i][1] < r[1]}) = k - 1]

\* A failed input makes the run fail.
Failed == {i \in 1 .. Len(results) : results[i][2] = "err"}

\* A key that failed is reported once and instead of everything else.
Report ==
    /\ mpc = "report"
    /\ IF key = "failed"
         THEN Exit(1) /\ UNCHANGED report
         ELSE /\ report' = Sorted(results)
              /\ Exit(IF Failed = {} THEN 0 ELSE 1)
    /\ UNCHANGED <<args, outputs, key, threadVars>>

MainStep ==
    \/ Refuse \/ Plan \/ PlanFails \/ StartKey \/ LoadKey \/ Spawn \/ ScopeEnds \/ Report

Finished == mpc = "done" /\ UNCHANGED vars

Next == MainStep \/ KeyLoads \/ (\E w \in Worker : WorkerStep(w)) \/ Finished

\* The operating system runs every thread that can go on.
Fairness ==
    /\ WF_vars(MainStep)
    /\ WF_vars(KeyLoads)
    /\ \A w \in Worker : WF_vars(WorkerStep(w))

Spec == Init /\ [][Next]_vars
FairSpec == Spec /\ Fairness
-----------------------------------------------------------------------------
(* Properties.                                                             *)

\* sign_one has done all there is to do for input i, once.
Complete(i) == signed[i] = 1 /\ i \notin late

\* A run whose key loads ends with one verdict per input, in the order of the
\* command line, and a verdict is Ok exactly if the work on that input was
\* completed: a failing input does not stop the others, and no input is lost
\* between the job threads or signed by two of them.  An input that is
\* reported as failed is not signed, unless the last call failed late.
ReportIsComplete ==
    mpc = "done" /\ key = "ok" =>
        /\ Len(report) = N
        /\ \A i \in Input :
              /\ report[i] = <<i, IF Complete(i) THEN "ok" ELSE "err">>
              /\ signed[i] = IF report[i][2] = "ok" \/ i \in late THEN 1 ELSE 0

\* The exit code is 0 exactly if the work on every input was completed; it is
\* 1 with every input signed only if one of them failed late.
ExitCodeIsTrue ==
    mpc = "done" => (exit = 0 <=> \A i \in Input : Complete(i))

\* Without a key nothing is signed, not even while the key is still loading
\* on its own thread and the inputs are already being read.
NoKeySignsNothing == key # "ok" => \A i \in Input : signed[i] = 0

Dest(i) == IF outputs[i] = InPlace THEN args.inputs[i] ELSE outputs[i]
Busy(i) == \E w \in Worker : wpc[w] \in {"sign", "wait", "write"} /\ idx[w] = i

\* Two jobs never work on one file at the same time: no job writes the
\* output, or the temp file beside it, or the input of another.  In place
\* this rests on the user: nothing keeps one file from being named twice.
NoSharedFiles ==
    (args.mode = "inPlace" => \A i, j \in Input : i # j => args.inputs[i] # args.inputs[j])
    =>
    \A i, j \in Input :
        i # j /\ Busy(i) /\ Busy(j) => Dest(i) \notin {Dest(j), args.inputs[j]}

\* The run ends, whether or not the key loads.
Termination == <>(mpc = "done")
=============================================================================
