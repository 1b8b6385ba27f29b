------------------------------ MODULE SignOne ------------------------------
(***************************************************************************)
(* Signing one APK: sign_one of src/src/main.rs with the temp file it may  *)
(* write (temp_next_to, TempFile, replace_file), the thread that copies    *)
(* the head of the APK while the digest runs, and the key that another     *)
(* thread may still be loading (PendingSigner).                            *)
(*                                                                         *)
(* The file system is a directory from names to inodes and a content per   *)
(* inode: a thread that has a file open goes on writing to its inode       *)
(* whatever happens to the name.  Any system call may fail and the process *)
(* may die between any two steps and be run again.                         *)
(***************************************************************************)
EXTENDS Integers

CONSTANTS
    MaxCrashes,  \* how often the process may die and be run again
    None         \* no file under a name

ASSUME MaxCrashesAssumption == MaxCrashes \in Nat
ASSUME NoneAssumption == None \notin Nat

Name == {"input", "output", "temp"}
Alg == {"sha256", "sha512"}

\* Two files to begin with and at most two temp files in every run.
Inode == 1 .. 2 + 2 * (MaxCrashes + 1)

\* What a file holds.  head is the entries section: that of the input, or
\* the aligned rewrite of it, or part of either; tail is everything behind
\* it, and for a tail of this program, alg and over say which digest was
\* signed and over which entries section; junk: bytes of an earlier, longer
\* file follow the tail.
Content ==
    [head : {"none", "part", "orig", "aligned", "other"},
     tail : {"none", "part", "orig", "signed"},
     alg : Alg \cup {"none"},
     over : {"none", "orig", "aligned"},
     junk : BOOLEAN]

Plain(h, t) ==
    [head |-> h, tail |-> t, alg |-> "none", over |-> "none", junk |-> FALSE]
Empty == Plain("none", "none")

\* The command line, the key it names, whether there is an output of an
\* earlier time, and what is to be found out about the input: with
\* misaligned = "early" the header sample already shows it, with "late" only
\* the full check does.
Options ==
    [inPlace : BOOLEAN,
     hasOutput : BOOLEAN,
     zipalign : {"off", "check", "always"},
     misaligned : {"no", "early", "late"},
     slowKey : BOOLEAN,
     keyAlg : Alg]

VARIABLES
    opt,        \* the options, fixed
    dir,        \* the directory
    ino,        \* the content of every inode
    fresh,      \* the next unused inode
    key,        \* PendingSigner: "pending", then "ok" or "failed"
    pc,         \* where sign_one is
    ifd,        \* file: the inode of the open input
    tfd,        \* dest: the inode of the open temp file
    guard,      \* a TempFile that removes the temp file when dropped
    rewritten,  \* rewritten is Some: the temp file holds a rewrite
    guessed,    \* guessed_alg, "none" for None
    digest,     \* content_digest: its algorithm and what it covers
    head,       \* the head-copy thread: "none", "copying", "ok", "err"
    unlinkFailed, \* a remove_file failed in this run
    outcome,    \* "running", "ok", "err"; "crashed" if the process died
    crashes

fsVars == <<dir, ino, fresh>>
fdVars == <<ifd, tfd, guard, head>>
digestVars == <<rewritten, guessed, digest>>
runVars == <<unlinkFailed, outcome, crashes>>
vars == <<opt, fsVars, key, pc, fdVars, digestVars, runVars>>

\* dest_path
Dest == IF opt.inPlace THEN "input" ELSE "output"

NoDigest == [alg |-> "none", over |-> "none"]

\* The file that is at the destination at first, and what it holds.
OldDest == IF opt.inPlace THEN 1 ELSE IF opt.hasOutput THEN 2 ELSE None
OldContent == IF opt.inPlace THEN Plain("orig", "orig") ELSE Plain("other", "orig")

\* A key that loads fast is loaded before sign_one is called.
Init ==
    /\ opt \in Options /\ (opt.inPlace => ~opt.hasOutput)
    /\ dir = [n \in Name |-> CASE n = "input" -> 1
                               [] n = "output" /\ opt.hasOutput -> 2
                               [] OTHER -> None]
    /\ ino = [i \in Inode |-> CASE i = 1 -> Plain("orig", "orig")
                                [] i = 2 -> Plain("other", "orig")
                                [] OTHER -> Empty]
    /\ fresh = 3
    /\ key = IF opt.slowKey THEN "pending" ELSE "ok"
    /\ pc = "open"
    /\ ifd = 0 /\ tfd = 0 /\ guard = FALSE /\ head = "none"
    /\ rewritten = FALSE /\ guessed = "none" /\ digest = NoDigest
    /\ unlinkFailed = FALSE
    /\ outcome = "running"
    /\ crashes = 0

-----------------------------------------------------------------------------
(* The key, loaded by another thread.                                      *)

KeyLoads ==
    /\ outcome = "running" /\ key = "pending"
    /\ key' \in {"ok", "failed"}
    /\ UNCHANGED <<opt, fsVars, pc, fdVars, digestVars, runVars>>

\* digest_guess
DigestGuess == IF key = "ok" THEN opt.keyAlg ELSE "sha256"

-----------------------------------------------------------------------------
(* Steps of sign_one.                                                      *)

At(label) == outcome = "running" /\ pc = label

\* From one label to another, nothing else changed.
Go(from, to) ==
    /\ At(from)
    /\ pc' = to
    /\ UNCHANGED <<opt, fsVars, key, fdVars, digestVars, runVars>>

\* An error leaves through the end of the thread scope.
FailsAt(label) == Go(label, "drop")

\* The entries section of the open input.
Source == ino[ifd].head
Misaligned == opt.misaligned # "no" /\ Source = "orig"

\* A file that is an APK from its first to its last byte.
Whole(c) ==
    c.head \in {"orig", "aligned", "other"} /\ c.tail \in {"orig", "signed"} /\ ~c.junk

\* Open, map, parse and filter.  A half-written APK is not accepted.
Open ==
    /\ At("open")
    /\ Whole(ino[dir["input"]])
    /\ ifd' = dir["input"]
    /\ pc' = "decide"
    /\ UNCHANGED <<opt, fsVars, key, tfd, guard, head, digestVars, runVars>>

\* --zipalign always rewrites, and so does a header sample that proves the
\* APK misaligned; else an output gets the head of the APK copied.
Decide ==
    Go("decide",
       IF \/ opt.zipalign = "always"
          \/ opt.zipalign = "check" /\ Misaligned /\ opt.misaligned = "early"
         THEN "tempRewrite"
         ELSE IF opt.inPlace THEN "digest" ELSE "tempHead")

\* open_rw_truncate of the temp name: a file left there by a process that
\* died is truncated and used.
OpenTemp ==
    IF dir["temp"] # None
      THEN /\ tfd' = dir["temp"]
           /\ ino' = [ino EXCEPT ![dir["temp"]] = Empty]
           /\ UNCHANGED <<dir, fresh>>
      ELSE /\ tfd' = fresh
           /\ dir' = [dir EXCEPT !["temp"] = fresh]
           /\ ino' = [ino EXCEPT ![fresh] = Empty]
           /\ fresh' = fresh + 1

TempForRewrite ==
    /\ At("tempRewrite")
    /\ OpenTemp
    /\ guard' = TRUE
    /\ pc' = "rewrite"
    /\ UNCHANGED <<opt, key, ifd, head, digestVars, runVars>>

\* The temp file and the thread that copies the head into it.
TempForHead ==
    /\ At("tempHead")
    /\ OpenTemp
    /\ guard' = TRUE
    /\ head' = "copying"
    /\ pc' = "digest"
    /\ UNCHANGED <<opt, key, ifd, digestVars, runVars>>

\* The guess for the old layout is not forgotten.
RewriteKeepsGuess ==
    /\ At("rewrite") /\ key = "ok"
    /\ ino' = [ino EXCEPT ![tfd] = Plain("aligned", "none")]
    /\ digest' = [alg |-> opt.keyAlg, over |-> "aligned"]
    /\ rewritten' = TRUE
    /\ UNCHANGED guessed
    /\ pc' = "key"
    /\ UNCHANGED <<opt, dir, fresh, key, fdVars, runVars>>

\* rewrite: the key first, for its digest algorithm, then align::rewrite into
\* the temp file, whose length it sets, digested as it is written.  The whole
\* of RewritePipeline is this one step.
Rewrite ==
    /\ At("rewrite") /\ key = "ok"
    /\ ino' = [ino EXCEPT ![tfd] = Plain("aligned", "none")]
    /\ digest' = [alg |-> opt.keyAlg, over |-> "aligned"]
    /\ rewritten' = TRUE
    /\ guessed' = "none"
    /\ pc' = "key"
    /\ UNCHANGED <<opt, dir, fresh, key, fdVars, runVars>>

RewriteFails ==
    /\ At("rewrite") /\ key # "pending"
    /\ ino' = IF key = "ok" THEN [ino EXCEPT ![tfd].head = "part"] ELSE ino
    /\ pc' = "drop"
    /\ UNCHANGED <<opt, dir, fresh, key, fdVars, digestVars, runVars>>

\* digest_layout of the input as it is, with the guessed algorithm.
Digest ==
    /\ At("digest")
    /\ guessed' = DigestGuess
    /\ digest' = [alg |-> DigestGuess, over |-> Source]
    /\ pc' = IF opt.zipalign = "check" THEN "check" ELSE "key"
    /\ UNCHANGED <<opt, fsVars, key, fdVars, rewritten, runVars>>

\* The full alignment check.  On a misaligned APK the copy of the old head is
\* waited for and dropped before a temp file is made anew.
CheckAligned == Go("check", "key") /\ ~Misaligned

CheckMisaligned ==
    /\ At("check") /\ Misaligned /\ head # "copying"
    /\ head' = "none"
    /\ IF guard
         THEN \/ dir' = [dir EXCEPT !["temp"] = None] /\ UNCHANGED unlinkFailed
              \/ unlinkFailed' = TRUE /\ UNCHANGED dir
         ELSE UNCHANGED <<dir, unlinkFailed>>
    /\ guard' = FALSE
    /\ pc' = "tempRewrite"
    /\ UNCHANGED <<opt, ino, fresh, key, ifd, tfd, digestVars, outcome, crashes>>

\* pending.wait(), and the digest again if the guess was wrong.
WaitKey ==
    /\ At("key") /\ key = "ok"
    /\ digest' = IF guessed \notin {"none", opt.keyAlg}
                   THEN [alg |-> opt.keyAlg, over |-> Source]
                   ELSE digest
    /\ pc' = "sign"
    /\ UNCHANGED <<opt, fsVars, key, fdVars, rewritten, guessed, runVars>>

\* A key that failed to load is waited for like one that is still loading.
WaitKeyForever == key = "failed" /\ Go("key", "key")

WaitKeyFails == key = "failed" /\ FailsAt("key")

\* The copy of the head is not waited for.
SignSkipsJoin == Go("sign", "tail")

\* v2 and v3 signatures, the block and the 4 GiB limit.
Sign == Go("sign", IF rewritten \/ opt.inPlace THEN "tail" ELSE "joinHead")

JoinHead == head = "ok" /\ Go("joinHead", "tail")
JoinHeadFails == head = "err" /\ FailsAt("joinHead")

\* An output is forgotten.
TargetIsInput == IF rewritten THEN tfd ELSE ifd

\* The file that write_tail writes to.
Target == IF rewritten \/ ~opt.inPlace THEN tfd ELSE ifd

\* write_tail: from its first byte to its last the old tail is lost and the
\* new one is not there.
TailBegin ==
    /\ At("tail")
    /\ ino' = [ino EXCEPT ![Target].tail = "part"]
    /\ pc' = "tailEnd"
    /\ UNCHANGED <<opt, dir, fresh, key, fdVars, digestVars, runVars>>

\* In place the old file may have been longer.
TailEnd ==
    /\ At("tailEnd")
    /\ \E longer \in IF Target = ifd THEN BOOLEAN ELSE {ino[Target].junk} :
          ino' = [ino EXCEPT ![Target] =
                     [@ EXCEPT !.tail = "signed", !.alg = digest.alg, !.over = digest.over,
                               !.junk = longer]]
    /\ pc' = IF rewritten \/ opt.inPlace THEN "truncate" ELSE "exchange"
    /\ UNCHANGED <<opt, dir, fresh, key, fdVars, digestVars, runVars>>

\* set_len(new_len).  The in-place splice is then done.
Truncate ==
    /\ At("truncate")
    /\ ino' = [ino EXCEPT ![Target].junk = FALSE]
    /\ pc' = IF rewritten THEN "exchange" ELSE "end"
    /\ UNCHANGED <<opt, dir, fresh, key, fdVars, digestVars, runVars>>
-----------------------------------------------------------------------------
(* TempFile::commit and replace_file.                                      *)

\* renameat2(RENAME_EXCHANGE), which needs both names to exist; the guard has
\* given its path away.
Exchange ==
    /\ At("exchange") /\ dir[Dest] # None
    /\ dir' = [dir EXCEPT !["temp"] = dir[Dest], ![Dest] = dir["temp"]]
    /\ guard' = FALSE
    /\ pc' = "unlinkOld"
    /\ UNCHANGED <<opt, ino, fresh, key, ifd, tfd, head, digestVars, runVars>>

\* The old output is removed to make way for the rename.
ExchangeFailsUnlinks ==
    /\ At("exchange")
    /\ dir' = [dir EXCEPT ![Dest] = None]
    /\ guard' = FALSE
    /\ pc' = "rename"
    /\ UNCHANGED <<opt, ino, fresh, key, ifd, tfd, head, digestVars, runVars>>

ExchangeFails ==
    /\ At("exchange")
    /\ guard' = FALSE
    /\ pc' = "rename"
    /\ UNCHANGED <<opt, fsVars, key, ifd, tfd, head, digestVars, runVars>>

\* remove_file of the old content, now under the temp name.
UnlinkOld ==
    /\ At("unlinkOld")
    /\ dir' = [dir EXCEPT !["temp"] = None]
    /\ pc' = "end"
    /\ UNCHANGED <<opt, ino, fresh, key, fdVars, digestVars, runVars>>

\* Its error is the error of commit, which tries to remove the temp name once
\* more.
UnlinkOldFails ==
    /\ At("unlinkOld")
    /\ unlinkFailed' = TRUE
    /\ dir' \in {dir, [dir EXCEPT !["temp"] = None]}
    /\ pc' = "drop"
    /\ UNCHANGED <<opt, ino, fresh, key, fdVars, digestVars, outcome, crashes>>

Rename ==
    /\ At("rename")
    /\ dir' = [dir EXCEPT ![Dest] = dir["temp"], !["temp"] = None]
    /\ pc' = "end"
    /\ UNCHANGED <<opt, ino, fresh, key, fdVars, digestVars, runVars>>

\* The temp file of a failed commit stays.
RenameFailsLeaves ==
    /\ At("rename")
    /\ pc' = "drop"
    /\ UNCHANGED <<opt, fsVars, key, fdVars, digestVars, runVars>>

\* The fallback failed too: the temp file is removed.
RenameFails ==
    /\ At("rename")
    /\ \/ dir' = [dir EXCEPT !["temp"] = None] /\ UNCHANGED unlinkFailed
       \/ unlinkFailed' = TRUE /\ UNCHANGED dir
    /\ pc' = "drop"
    /\ UNCHANGED <<opt, ino, fresh, key, fdVars, digestVars, outcome, crashes>>

-----------------------------------------------------------------------------
(* Leaving.                                                                *)

\* Drop of the TempFile on the way out of an error.
DropTemp ==
    /\ At("drop")
    /\ IF guard
         THEN \/ dir' = [dir EXCEPT !["temp"] = None] /\ UNCHANGED unlinkFailed
              \/ unlinkFailed' = TRUE /\ UNCHANGED dir
         ELSE UNCHANGED <<dir, unlinkFailed>>
    /\ guard' = FALSE
    /\ pc' = "fail"
    /\ UNCHANGED <<opt, ino, fresh, key, ifd, tfd, head, digestVars, outcome, crashes>>

\* The scope joins the head-copy thread before sign_one returns.
Return ==
    /\ At("end") \/ At("fail")
    /\ head # "copying"
    /\ outcome' = IF pc = "end" THEN "ok" ELSE "err"
    /\ UNCHANGED <<opt, fsVars, key, pc, fdVars, digestVars, unlinkFailed, crashes>>

\* Everything that may return an error having changed nothing: opening and
\* parsing, the header sample, the temp file, the check, a signature or the
\* 4 GiB limit, a write or a truncation.
StepFails ==
    \/ FailsAt("open")
    \/ opt.zipalign = "check" /\ FailsAt("decide")
    \/ FailsAt("tempRewrite") \/ FailsAt("tempHead")
    \/ FailsAt("check")
    \/ FailsAt("sign")
    \/ FailsAt("tail") \/ FailsAt("tailEnd") \/ FailsAt("truncate")

MainStep ==
    \/ Open \/ Decide \/ TempForRewrite \/ TempForHead \/ Rewrite \/ RewriteFails
    \/ Digest \/ CheckAligned \/ CheckMisaligned
    \/ WaitKey \/ WaitKeyFails \/ Sign \/ JoinHead \/ JoinHeadFails
    \/ TailBegin \/ TailEnd \/ Truncate
    \/ Exchange \/ ExchangeFails \/ UnlinkOld \/ UnlinkOldFails
    \/ Rename \/ RenameFails \/ DropTemp \/ Return \/ StepFails

\* The head-copy thread.
HeadCopied ==
    /\ outcome = "running" /\ head = "copying"
    /\ head' = "ok"
    /\ ino' = [ino EXCEPT ![tfd].head = Source]
    /\ UNCHANGED <<opt, dir, fresh, key, pc, ifd, tfd, guard, digestVars, runVars>>

HeadFails ==
    /\ outcome = "running" /\ head = "copying"
    /\ head' = "err"
    /\ ino' = [ino EXCEPT ![tfd].head = "part"]
    /\ UNCHANGED <<opt, dir, fresh, key, pc, ifd, tfd, guard, digestVars, runVars>>

HeadStep == HeadCopied \/ HeadFails
-----------------------------------------------------------------------------
(* The process dies, and is run again with the same arguments.             *)

Crash ==
    /\ outcome = "running" /\ crashes < MaxCrashes
    /\ outcome' = "crashed"
    /\ crashes' = crashes + 1
    /\ UNCHANGED <<opt, fsVars, key, pc, fdVars, digestVars, unlinkFailed>>

Restart ==
    /\ outcome = "crashed"
    /\ pc' = "open"
    /\ ifd' = 0 /\ tfd' = 0 /\ guard' = FALSE /\ head' = "none"
    /\ rewritten' = FALSE /\ guessed' = "none" /\ digest' = NoDigest
    /\ key' = IF opt.slowKey THEN "pending" ELSE "ok"
    /\ outcome' = "running"
    /\ unlinkFailed' = FALSE
    /\ UNCHANGED <<opt, fsVars, crashes>>

Finished == outcome \in {"ok", "err"} /\ UNCHANGED vars

Next == MainStep \/ HeadStep \/ KeyLoads \/ Crash \/ Restart \/ Finished

\* The threads of a living process run; nothing obliges a process to die or
\* anyone to run it again.
Fairness == WF_vars(MainStep) /\ WF_vars(HeadStep) /\ WF_vars(KeyLoads)

Spec == Init /\ [][Next]_vars
FairSpec == Spec /\ Fairness
-----------------------------------------------------------------------------
(* Properties.                                                             *)

\* A whole APK whose signature verifies: the signed digest is of the key's
\* own algorithm and covers the entries section that the file really has.
Signed(c) ==
    /\ Whole(c) /\ c.tail = "signed"
    /\ c.alg = opt.keyAlg
    /\ c.over = c.head

\* sign_one returns Ok only with a signed APK at the destination, aligned
\* if that was asked for: whatever the digest was guessed to be, whenever the
\* key arrived, whether or not the head had been copied from the old layout.
SuccessMeansSigned ==
    outcome = "ok" =>
        /\ dir[Dest] # None
        /\ Signed(ino[dir[Dest]])
        /\ \/ opt.zipalign = "always"
           \/ opt.zipalign = "check" /\ opt.misaligned # "no"
           => ino[dir[Dest]].head = "aligned"

\* The in-place splice of the tail has begun, in this run, which then has its
\* key, or in one that died; the entries section is untouched by it.
SpliceBegun ==
    /\ opt.inPlace /\ ~rewritten /\ (key = "ok" \/ crashes > 0)
    /\ pc \in {"tailEnd", "truncate", "drop", "fail"} \/ (pc = "open" /\ crashes > 0)
    /\ ino[dir["input"]].head \in {"orig", "aligned"}

\* The destination is the very file it was, or still missing.
DestIsOld == dir[Dest] = OldDest /\ (OldDest # None => ino[OldDest] = OldContent)

\* Whoever opens the destination, at any moment and after any crash, finds
\* what was there before, nothing only if nothing was, or the signed APK: an
\* existing output never vanishes on the way, and no unsigned copy is ever
\* seen there.  The in-place splice of the tail is the only exception.
DestIsNeverTorn ==
    \/ DestIsOld
    \/ dir[Dest] # None /\ Signed(ino[dir[Dest]])
    \/ SpliceBegun

\* With an output, the input file is never changed, renamed or replaced.
InputUntouched ==
    [][~opt.inPlace => ino'[1] = ino[1] /\ dir'["input"] = 1]_vars

\* A run that fails leaves an existing output as it was, the same file with
\* the same content, and makes none where there was none, unless removing a
\* file failed (see the finding on replace_file).
FailureKeepsOutput ==
    outcome = "err" /\ ~unlinkFailed /\ ~opt.inPlace /\ crashes = 0 => DestIsOld

\* What the README says without the exception: a failed run leaves an
\* existing output untouched.
FailedRunLeavesOutput ==
    outcome = "err" /\ ~opt.inPlace /\ crashes = 0 => DestIsOld

\* No run leaves its temp file behind, and a run that gets as far as using
\* one also clears that of a process that died.
NoTempLeft ==
    /\ outcome \in {"ok", "err"} /\ ~unlinkFailed
    /\ crashes = 0 \/ tfd # 0
    => dir["temp"] = None

\* sign_one returns if the process lives, also if the key never loads.
Termination == []<>(outcome # "running")
=============================================================================
