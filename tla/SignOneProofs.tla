--------------------------- MODULE SignOneProofs ---------------------------
(***************************************************************************)
(* Proofs about SignOne: what sign_one promises of the destination, of the *)
(* input and of its temp file holds however often the process dies and is  *)
(* run again.                                                              *)
(***************************************************************************)
EXTENDS SignOne, TLAPS

Label ==
    {"open", "decide", "tempRewrite", "tempHead", "rewrite", "digest", "check", "key", "sign",
     "joinHead", "tail", "tailEnd", "truncate", "exchange", "unlinkOld", "rename", "end",
     "drop", "fail"}

\* The type invariant.
TypeInv ==
    /\ opt \in Options
    /\ dir \in [Name -> Inode \cup {None}]
    /\ ino \in [Inode -> Content]
    /\ fresh \in Nat /\ fresh >= 3
    /\ key \in {"pending", "ok", "failed"}
    /\ pc \in Label
    /\ ifd \in Inode \cup {0}
    /\ tfd \in Inode \cup {0}
    /\ guard \in BOOLEAN /\ rewritten \in BOOLEAN
    /\ guessed \in Alg \cup {"none"}
    /\ digest \in [alg : Alg \cup {"none"}, over : {"none", "orig", "aligned"}]
    /\ head \in {"none", "copying", "ok", "err"}
    /\ unlinkFailed \in BOOLEAN
    /\ outcome \in {"running", "ok", "err", "crashed"}
    /\ crashes \in 0 .. MaxCrashes

\* The temp files that the run may still make.
Left ==
    CASE pc \in {"open", "decide", "tempHead"} -> 2
      [] pc \in {"tempRewrite", "digest", "check"} -> 1
      [] OTHER -> 0

\* There are enough inodes: a run makes at most two files.
Enough ==
    /\ outcome # "crashed" => fresh + Left <= 5 + 2 * crashes
    /\ outcome = "crashed" => fresh <= 3 + 2 * crashes /\ crashes > 0
    /\ outcome = "ok" => pc = "end"
    /\ outcome = "err" => pc = "fail"

\* The directory: no two names for one file, and files that are to be made
\* have none.
Tree ==
    /\ dir["input"] # None
    /\ \A n, m \in Name : n # m /\ dir[n] # None => dir[n] # dir[m]
    /\ \A n \in Name : dir[n] # None => dir[n] < fresh
    /\ opt.inPlace => dir["output"] = None
    /\ ~opt.inPlace => dir["input"] = 1

\* The labels up to the commit, from which on the destination may be new.
Before == Label \ {"unlinkOld", "end", "drop", "fail"}

\* What sign_one holds at each label.
Held ==
    /\ pc = "open" => ifd = 0 /\ tfd = 0
    /\ pc \notin {"open", "drop", "fail"} => ifd # 0
    /\ ifd # 0 /\ pc \in Before => ifd = dir["input"]
    /\ pc \in {"decide", "tempHead"} => tfd = 0
    /\ guard => tfd # 0 /\ dir["temp"] = tfd
    /\ pc \in {"open", "decide", "tempHead", "tempRewrite", "unlinkOld", "rename", "end", "fail"}
          => ~guard
    /\ pc = "rewrite" => guard
    /\ guard /\ opt.inPlace => rewritten \/ pc \in {"rewrite", "drop"}
    /\ pc \in {"digest", "check"} /\ ~opt.inPlace => guard
    /\ /\ pc \in {"key", "sign", "joinHead", "tail", "tailEnd", "truncate", "exchange"}
       /\ rewritten \/ ~opt.inPlace
       => guard
    /\ pc \in {"joinHead", "tempHead"} => ~rewritten /\ ~opt.inPlace
    /\ pc = "truncate" => rewritten \/ opt.inPlace
    /\ pc \in {"exchange", "unlinkOld", "rename"} => rewritten \/ ~opt.inPlace
    /\ pc = "rename" => tfd # 0 /\ dir["temp"] = tfd
    /\ pc = "unlinkOld" => dir["temp"] # None
    /\ pc \in {"sign", "joinHead", "tail", "tailEnd", "truncate"} => key = "ok"
    /\ rewritten => pc \in {"key", "sign", "tail", "tailEnd", "truncate", "exchange", "unlinkOld",
                            "rename", "end", "drop", "fail"}

\* The thread that copies the head writes to a file of no other name.
Copying ==
    /\ head = "copying" =>
          /\ pc \in {"digest", "check", "key", "sign", "joinHead", "drop", "fail"}
          /\ ifd # 0 /\ tfd # 0 /\ tfd # dir["input"] /\ tfd # dir["output"]
    /\ head # "none" => ~rewritten /\ ~opt.inPlace
    /\ head # "none" => pc \notin {"open", "decide", "tempHead", "tempRewrite", "rewrite"}
    /\ head = "ok" /\ guard => ino[tfd].head = ino[ifd].head
    /\ pc \in {"tail", "tailEnd", "exchange", "rename"} => rewritten \/ opt.inPlace \/ head = "ok"

\* The digest: guessed until the key is there, of the entries section that
\* the destination will have.
Digested ==
    /\ rewritten => guessed = "none" /\ digest = [alg |-> opt.keyAlg, over |-> "aligned"]
    /\ ~rewritten /\ pc \in {"check", "key"} =>
          guessed \in Alg /\ digest = [alg |-> guessed, over |-> Source]
    /\ /\ ~rewritten
       /\ pc \in {"sign", "joinHead", "tail", "tailEnd", "truncate", "exchange", "rename"}
       => digest = [alg |-> opt.keyAlg, over |-> Source]

\* The temp file.
Temp ==
    /\ guard => ~ino[tfd].junk
    /\ rewritten /\ guard => ino[tfd].head = "aligned"
    /\ pc = "truncate" =>
          /\ ino[Target].tail = "signed"
          /\ ino[Target].alg = digest.alg /\ ino[Target].over = digest.over
    /\ pc \in {"exchange", "rename"} => Signed(ino[tfd]) /\ ino[tfd].head = digest.over

\* The aligned layout was asked for, and is what the digest is of.
Asked == opt.zipalign = "always" \/ (opt.zipalign = "check" /\ opt.misaligned # "no")
Aligned ==
    /\ opt.zipalign = "always" => pc \notin {"tempHead", "digest", "check"}
    /\ /\ Asked
       /\ pc \in {"key", "sign", "joinHead", "tail", "tailEnd", "truncate", "exchange", "rename"}
       => digest.over = "aligned"

\* The files under the names of the input and the destination.
Files ==
    /\ ~opt.inPlace =>
          /\ ino[1] = Plain("orig", "orig")
          /\ DestIsOld \/ (dir["output"] # None /\ Signed(ino[dir["output"]]))
    /\ opt.inPlace =>
          /\ ino[dir["input"]].head \in {"orig", "aligned"}
          /\ Whole(ino[dir["input"]]) => DestIsOld \/ Signed(ino[dir["input"]])
          /\ \/ Whole(ino[dir["input"]])
             \/ /\ ~rewritten /\ (key = "ok" \/ crashes > 0)
                /\ pc \in {"tailEnd", "truncate", "drop", "fail"}
             \/ pc = "open" /\ crashes > 0
    /\ pc \in {"unlinkOld", "end"} =>
          /\ dir[Dest] # None /\ Signed(ino[dir[Dest]])
          /\ Asked => ino[dir[Dest]].head = "aligned"

\* The old output, until a commit, in a run that no other run came before.
OldOutput ==
    ~opt.inPlace /\ crashes = 0 =>
        /\ ino[2] = Plain("other", "orig")
        /\ tfd # 2
        /\ dir["temp"] = 2 => pc \in {"unlinkOld", "drop", "fail"} /\ ~guard
        /\ pc \in {"unlinkOld", "end"} \/ unlinkFailed \/ dir["output"] = OldDest

\* The name of the temp file is taken only while there is a guard.
Cleared ==
    ~unlinkFailed /\ ~guard /\ (crashes = 0 \/ tfd # 0) /\ pc \notin {"unlinkOld", "rename"}
        => dir["temp"] = None

IInv ==
    /\ TypeInv /\ Enough /\ Tree /\ Held /\ Copying /\ Digested /\ Temp /\ Aligned /\ Files
    /\ OldOutput /\ Cleared
-----------------------------------------------------------------------------
(* Proofs.                                                                 *)

\* A file that is written to: it holds what was written, the others what
\* they held.
LEMMA Written ==
    ASSUME TypeInv, NEW t \in Inode, NEW c \in Content, ino' = [ino EXCEPT ![t] = c]
    PROVE /\ ino' \in [Inode -> Content]
          /\ ino'[t] = c
          /\ \A i \in Inode : i # t => ino'[i] = ino[i]
  BY DEF TypeInv

\* The contents that the program writes are contents.
LEMMA ContentTyped ==
    /\ Empty \in Content
    /\ Plain("aligned", "none") \in Content
    /\ \A c \in Content, h \in {"none", "part", "orig", "aligned", "other"} :
          [c EXCEPT !.head = h] \in Content
    /\ \A c \in Content, t \in {"none", "part", "orig", "signed"} :
          [c EXCEPT !.tail = t] \in Content
    /\ \A c \in Content, b \in BOOLEAN : [c EXCEPT !.junk = b] \in Content
  BY DEF Content, Empty, Plain, Alg

\* A name that is removed, or stays because it could not be.
LEMMA Unlinked ==
    ASSUME TypeInv, dir' = [dir EXCEPT !["temp"] = None]
    PROVE /\ dir' \in [Name -> Inode \cup {None}]
          /\ dir'["temp"] = None
          /\ dir'["input"] = dir["input"] /\ dir'["output"] = dir["output"]
  BY DEF TypeInv, Name

\* The numbers of files.
LEMMA InodeFacts ==
    /\ None \notin Inode /\ 0 \notin Inode /\ 1 \in Inode /\ 2 \in Inode
    /\ Inode \subseteq Nat
  BY MaxCrashesAssumption, NoneAssumption DEF Inode

\* The temp file is neither the input nor the output.
LEMMA TempApart ==
    ASSUME TypeInv, Tree, Held, guard
    PROVE /\ tfd \in Inode /\ tfd = dir["temp"]
          /\ tfd # dir["input"] /\ tfd # dir["output"]
  BY InodeFacts DEF TypeInv, Tree, Held, Name

\* The open input, up to the commit: its entries section is the original one
\* or the aligned one.
LEMMA SourceIs ==
    ASSUME IInv, pc \in Before, pc # "open"
    PROVE /\ ifd \in Inode /\ ifd = dir["input"]
          /\ Source \in {"orig", "aligned"}
          /\ ~opt.inPlace => Source = "orig"
  BY InodeFacts DEF IInv, TypeInv, Tree, Held, Before, Label, Files, DestIsOld, OldDest,
     OldContent, Dest, Source, Plain

\* The file under the names of the input and the output keep what they hold
\* when another is written to.
LEMMA Apart ==
    ASSUME TypeInv, Tree, NEW t \in Inode, t # dir["input"], t # dir["output"],
           \A i \in Inode : i # t => ino'[i] = ino[i]
    PROVE /\ ino'[dir["input"]] = ino[dir["input"]]
          /\ dir["output"] # None => ino'[dir["output"]] = ino[dir["output"]]
          /\ ~opt.inPlace => ino'[1] = ino[1]
  BY InodeFacts DEF TypeInv, Tree, Name

\* Opening the input: nothing is written yet.
LEMMA OpenKeeps == IInv /\ Open => IInv'
<1> SUFFICES ASSUME IInv, Open PROVE IInv'
  OBVIOUS
<1> USE DEF IInv, TypeInv, Tree, Held, Open, At, fsVars, fdVars, digestVars, runVars
<1>1. TypeInv' /\ Enough' /\ Tree' /\ Copying' /\ Digested' /\ Temp' /\ Aligned' /\ Files' /\
       OldOutput' /\ Cleared'
  BY InodeFacts, MaxCrashesAssumption DEF Name, Inode, Alg, Content, Options, Label, Empty,
     Plain, Enough, Left, Dest, Copying, Digested, Source, Misaligned, Temp, Target, Signed,
     Whole, Aligned, Asked, Files, DestIsOld, OldDest, OldContent, OldOutput, Cleared
<1>2. Held'
  BY InodeFacts DEF Label, Before, Dest, Name
<1> QED
  BY <1>1, <1>2 DEF IInv

\* The choice of the way: no file is made yet.
LEMMA DecideKeeps == IInv /\ Decide => IInv'
<1> SUFFICES ASSUME IInv, Decide PROVE IInv'
  OBVIOUS
<1> USE DEF IInv, TypeInv, Tree, Held, Decide, Go, At, fsVars, fdVars, digestVars, runVars
<1>1. TypeInv' /\ Enough' /\ Tree' /\ Held' /\ Copying' /\ Digested' /\ Temp' /\ Aligned' /\
       Files' /\ OldOutput' /\ Cleared'
  BY InodeFacts, MaxCrashesAssumption DEF Name, Inode, Alg, Content, Options, Label, Empty,
     Plain, Enough, Left, Dest, Before, Copying, Digested, Source, Misaligned, Temp, Target,
     Signed, Whole, Aligned, Asked, Files, DestIsOld, OldDest, OldContent, OldOutput, Cleared
<1> QED
  BY <1>1 DEF IInv

\* The temp file for a rewrite, new or taken over from a run that died.
LEMMA TempForRewriteKeeps == IInv /\ TempForRewrite => IInv'
<1> SUFFICES ASSUME IInv, TempForRewrite PROVE IInv'
  OBVIOUS
<1> USE DEF IInv, TypeInv, Tree, Held, TempForRewrite, OpenTemp, At, fsVars, fdVars,
         digestVars, runVars
<1>1. fresh \in Inode /\ fresh' \in Nat /\ fresh' >= fresh /\ fresh >= 3
  BY MaxCrashesAssumption DEF Enough, Left, Inode
<1>2. /\ tfd' \in Inode /\ tfd' = dir'["temp"] /\ tfd' # 0
      /\ tfd' \in {dir["temp"], fresh}
      /\ dir' \in [Name -> Inode \cup {None}]
      /\ dir'["input"] = dir["input"] /\ dir'["output"] = dir["output"]
  BY <1>1, InodeFacts DEF Name
<1>3. tfd' # dir["input"] /\ tfd' # dir["output"]
  BY <1>1, <1>2, InodeFacts DEF Name
<1>4. /\ ino' \in [Inode -> Content] /\ ino'[tfd'] = Empty
      /\ \A i \in Inode : i # tfd' => ino'[i] = ino[i]
  <2>1. ino' = [ino EXCEPT ![tfd'] = Empty]
    BY <1>2
  <2> QED
    BY <1>2, <2>1, Written, ContentTyped
<1>5. /\ ino'[dir["input"]] = ino[dir["input"]]
      /\ dir["output"] # None => ino'[dir["output"]] = ino[dir["output"]]
      /\ ~opt.inPlace => ino'[1] = ino[1]
  BY <1>2, <1>3, <1>4, Apart
<1> USE <1>1, <1>2, <1>3
<1>6. TypeInv'
  BY <1>4 DEF Label
<1>7. Enough' /\ Tree' /\ Digested' /\ Aligned' /\ Cleared'
  <2>1. Enough'
    BY MaxCrashesAssumption DEF Enough, Left
  <2>2. Tree'
    <3>1. \A n \in Name : dir'[n] = None \/ dir'[n] = tfd' \/ dir'[n] = dir[n]
      BY DEF Name
    <3>2. dir'["temp"] < fresh' /\ dir'["temp"] # None
      BY InodeFacts DEF Name
    <3>3. \A n, m \in Name : n # m /\ dir'[n] # None => dir'[n] # dir'[m]
      BY <3>1 DEF Name
    <3>4. \A n \in Name : dir'[n] # None => dir'[n] < fresh'
      <4>1. \A n \in Name : n # "temp" => dir'[n] = dir[n]
        BY DEF Name
      <4>2. \A n \in Name : dir[n] # None => dir[n] \in Nat /\ dir[n] < fresh
        BY InodeFacts
      <4>3. \A x \in Nat : x < fresh => x < fresh'
        OBVIOUS
      <4> QED
        BY ONLY <3>2, <4>1, <4>2, <4>3
    <3> QED
      BY <3>3, <3>4
  <2>3. Digested' /\ Aligned' /\ Cleared'
    BY DEF Digested, Source, Alg, Misaligned, Aligned, Asked, Cleared
  <2> QED
    BY <2>1, <2>2, <2>3
<1>8. Held'
  BY InodeFacts DEF Before, Label
<1>9. Copying'
  BY <1>4 DEF Copying
<1>10. Temp'
  BY <1>4 DEF Temp, Target, Empty, Plain
<1>11. Files'
  BY <1>5 DEF Files, DestIsOld, OldDest, OldContent, Asked, Whole, Signed, Dest
<1>12. OldOutput'
  BY <1>4, InodeFacts DEF OldOutput, DestIsOld, OldDest, OldContent, Dest
<1> QED
  BY <1>6, <1>7, <1>8, <1>9, <1>10, <1>11, <1>12 DEF IInv

\* The temp file for a copy, which the other thread begins to write.
LEMMA TempForHeadKeeps == IInv /\ TempForHead => IInv'
<1> SUFFICES ASSUME IInv, TempForHead PROVE IInv'
  OBVIOUS
<1> USE DEF IInv, TypeInv, Tree, Held, TempForHead, OpenTemp, At, fsVars, fdVars, digestVars,
         runVars
<1>1. fresh \in Inode /\ fresh' \in Nat /\ fresh' >= fresh /\ fresh >= 3
  BY MaxCrashesAssumption DEF Enough, Left, Inode
<1>2. /\ tfd' \in Inode /\ tfd' = dir'["temp"] /\ tfd' # 0
      /\ tfd' \in {dir["temp"], fresh}
      /\ dir' \in [Name -> Inode \cup {None}]
      /\ dir'["input"] = dir["input"] /\ dir'["output"] = dir["output"]
  BY <1>1, InodeFacts DEF Name
<1>3. tfd' # dir["input"] /\ tfd' # dir["output"]
  BY <1>1, <1>2, InodeFacts DEF Name
<1>4. /\ ino' \in [Inode -> Content] /\ ino'[tfd'] = Empty
      /\ \A i \in Inode : i # tfd' => ino'[i] = ino[i]
  <2>1. ino' = [ino EXCEPT ![tfd'] = Empty]
    BY <1>2
  <2> QED
    BY <1>2, <2>1, Written, ContentTyped
<1>5. /\ ino'[dir["input"]] = ino[dir["input"]]
      /\ dir["output"] # None => ino'[dir["output"]] = ino[dir["output"]]
      /\ ~opt.inPlace => ino'[1] = ino[1]
  BY <1>2, <1>3, <1>4, Apart
<1> USE <1>1, <1>2, <1>3
<1>6. TypeInv'
  BY <1>4 DEF Label
<1>7. Enough'
  BY InodeFacts, MaxCrashesAssumption DEF Enough, Left
<1>8. Tree'
  BY InodeFacts, MaxCrashesAssumption DEF Name, Dest, Inode
<1>9. Held'
  BY InodeFacts DEF Before, Label
<1>10. Copying'
  BY <1>4 DEF Copying
<1>11. Digested' /\ Aligned' /\ Cleared'
  BY InodeFacts, MaxCrashesAssumption DEF Digested, Source, Alg, Misaligned, Aligned, Asked,
     Cleared
<1>12. Temp'
  BY <1>4 DEF Temp, Target, Empty, Plain
<1>13. Files'
  BY <1>5 DEF Files, DestIsOld, OldDest, OldContent, Asked, Whole, Signed, Dest
<1>14. OldOutput'
  BY <1>4, InodeFacts DEF OldOutput, DestIsOld, OldDest, OldContent, Dest
<1> QED
  BY <1>6, <1>7, <1>8, <1>9, <1>10, <1>11, <1>12, <1>13, <1>14 DEF IInv

\* The rewrite goes to the temp file and to no file under another name.
LEMMA RewriteKeeps == IInv /\ Rewrite => IInv'
<1> SUFFICES ASSUME IInv, Rewrite PROVE IInv'
  OBVIOUS
<1> USE DEF IInv, TypeInv, Tree, Held, Rewrite, At, Plain, fsVars, fdVars, digestVars, runVars
<1>1. /\ tfd \in Inode /\ tfd = dir["temp"]
      /\ tfd # dir["input"] /\ tfd # dir["output"]
  BY TempApart
<1>2. /\ ino' \in [Inode -> Content] /\ ino'[tfd] = Plain("aligned", "none")
      /\ \A i \in Inode : i # tfd => ino'[i] = ino[i]
  BY <1>1, Written, ContentTyped DEF Plain
<1>3. /\ ino'[dir["input"]] = ino[dir["input"]]
      /\ dir["output"] # None => ino'[dir["output"]] = ino[dir["output"]]
      /\ ~opt.inPlace => ino'[1] = ino[1]
  BY <1>1, <1>2, Apart
<1>4. TypeInv' /\ Enough' /\ Tree' /\ Held' /\ Copying'
  BY InodeFacts, MaxCrashesAssumption DEF Name, Inode, Alg, Content, Options, Label, Empty,
     Plain, Enough, Left, Dest, Before, Copying
<1>5. Digested' /\ Temp' /\ Aligned' /\ OldOutput' /\ Cleared'
  BY InodeFacts, MaxCrashesAssumption DEF Digested, Source, Alg, Misaligned, Temp, Target,
     Signed, Whole, Plain, Empty, Aligned, Asked, OldOutput, DestIsOld, OldDest, OldContent, Dest, Name, Cleared
<1>6. Files'
  BY <1>3 DEF Files, DestIsOld, OldDest, OldContent, Asked, Whole, Signed, Dest
<1> QED
  BY <1>4, <1>5, <1>6 DEF IInv

\* A rewrite that fails leaves part of it in the temp file alone.
LEMMA RewriteFailsKeeps == IInv /\ RewriteFails => IInv'
<1> SUFFICES ASSUME IInv, RewriteFails PROVE IInv'
  OBVIOUS
<1> USE DEF IInv, TypeInv, Tree, Held, RewriteFails, At, fsVars, fdVars, digestVars, runVars
<1>1. /\ tfd \in Inode /\ tfd = dir["temp"]
      /\ tfd # dir["input"] /\ tfd # dir["output"]
  BY TempApart
<1>2. /\ ino' \in [Inode -> Content]
      /\ ino'[tfd] = ino[tfd] \/ ino'[tfd] = [ino[tfd] EXCEPT !.head = "part"]
      /\ \A i \in Inode : i # tfd => ino'[i] = ino[i]
  <2>1. CASE key = "ok"
    BY <1>1, <2>1, Written, ContentTyped
  <2>2. CASE key # "ok"
    BY <2>2
  <2> QED
    BY <2>1, <2>2
<1>3. TypeInv'
  BY <1>2 DEF Label
<1>4. Enough' /\ Tree' /\ Held' /\ Copying'
  BY InodeFacts, MaxCrashesAssumption DEF Enough, Left, Name, Dest, Inode, Label, Before,
     Copying
<1>5. Digested' /\ Temp'
  BY InodeFacts, MaxCrashesAssumption DEF Digested, Source, Alg, Misaligned, Temp, Target,
     Signed, Whole, Plain, Empty
<1>6. Aligned' /\ OldOutput' /\ Cleared'
  BY InodeFacts, MaxCrashesAssumption DEF Aligned, Asked, Misaligned, Source, OldOutput,
     DestIsOld, OldDest, OldContent,
     Plain, Dest, Target, Name, Cleared
<1>7. Files'
  BY <1>1, <1>2, InodeFacts DEF Files, DestIsOld, OldDest, OldContent, Asked, Whole, Signed, Dest
<1> QED
  BY <1>3, <1>4, <1>5, <1>6, <1>7 DEF IInv

\* The digest of the input as it is, with the guessed algorithm.
LEMMA DigestKeeps == IInv /\ Digest => IInv'
<1> SUFFICES ASSUME IInv, Digest PROVE IInv'
  OBVIOUS
<1> USE DEF IInv, TypeInv, Tree, Held, Digest, At, DigestGuess, Source, fsVars, fdVars,
         digestVars, runVars
<1>1. /\ ifd \in Inode /\ ifd = dir["input"]
      /\ Source \in {"orig", "aligned"} /\ (~opt.inPlace => Source = "orig")
  BY SourceIs DEF Before, Label
<1>2. TypeInv'
  BY <1>1 DEF Label, Alg, Options, DigestGuess
<1>3. Enough' /\ Tree' /\ Held' /\ Copying' /\ Temp' /\ Aligned' /\ Files' /\ OldOutput' /\
       Cleared'
  BY InodeFacts, MaxCrashesAssumption DEF Enough, Left, Name, Dest, Inode, Label, Before,
     Copying, Temp, Target, Signed, Whole, Plain, Empty, Source, Aligned, Asked, Misaligned,
     Files, DestIsOld, OldDest, OldContent, OldOutput, Cleared
<1>4. Digested'
  BY <1>1 DEF Digested, Source, Alg, Misaligned, Options
<1> QED
  BY <1>2, <1>3, <1>4 DEF IInv

\* An aligned input keeps its digest.
LEMMA CheckAlignedKeeps == IInv /\ CheckAligned => IInv'
<1> SUFFICES ASSUME IInv, CheckAligned PROVE IInv'
  OBVIOUS
<1> USE DEF IInv, TypeInv, Tree, Held, CheckAligned, Go, At, fsVars, fdVars, digestVars, runVars
<1>1. /\ ifd \in Inode /\ ifd = dir["input"]
      /\ Source \in {"orig", "aligned"} /\ (~opt.inPlace => Source = "orig")
  BY SourceIs DEF Before, Label
<1>2. TypeInv' /\ Enough' /\ Tree' /\ Held' /\ Copying' /\ Digested' /\ Temp' /\ Files' /\
       OldOutput' /\ Cleared'
  BY InodeFacts, MaxCrashesAssumption DEF Name, Inode, Alg, Content, Options, Label, Empty,
     Plain, Enough, Left, Dest, Before, Copying, Digested, Source, Misaligned, Temp, Target,
     Signed, Whole, Files, DestIsOld, OldDest, OldContent, Asked, OldOutput, Cleared
<1>3. Aligned'
  BY <1>1 DEF Aligned, Asked, Misaligned, Digested, Source, Options
<1> QED
  BY <1>2, <1>3 DEF IInv

\* On a misaligned input the copy is over and its temp file is dropped.
LEMMA CheckMisalignedKeeps == IInv /\ CheckMisaligned => IInv'
<1> SUFFICES ASSUME IInv, CheckMisaligned PROVE IInv'
  OBVIOUS
<1> USE DEF IInv, TypeInv, Tree, Held, CheckMisaligned, At, fsVars, fdVars, digestVars, runVars
<1>1. dir' = [dir EXCEPT !["temp"] = None] \/ dir' = dir
  OBVIOUS
<1>2. /\ dir' \in [Name -> Inode \cup {None}]
      /\ dir'["input"] = dir["input"] /\ dir'["output"] = dir["output"]
      /\ dir'["temp"] \in {dir["temp"], None}
  BY <1>1, Unlinked
<1>3. TypeInv'
  BY <1>2 DEF Label
<1>4. Enough' /\ Tree'
  <2>1. Enough'
    BY MaxCrashesAssumption DEF Enough, Left
  <2>2. Tree'
    BY <1>2, InodeFacts DEF Name
  <2> QED
    BY <2>1, <2>2
<1>5. Held' /\ Copying'
  BY InodeFacts, MaxCrashesAssumption DEF Label, Before, Dest, Name, Copying
<1>6. Digested' /\ Temp' /\ Aligned' /\ OldOutput'
  BY InodeFacts, MaxCrashesAssumption DEF Digested, Source, Alg, Misaligned, Temp, Target,
     Signed, Whole, Plain, Empty, Aligned, Asked, OldOutput, DestIsOld, OldDest, OldContent, Dest, Name
<1>7. Files'
  BY <1>2, InodeFacts DEF Files, DestIsOld, OldDest, OldContent, Asked, Whole, Signed, Dest
<1>8. Cleared'
  BY Unlinked DEF Cleared
<1> QED
  BY <1>3, <1>4, <1>5, <1>6, <1>7, <1>8 DEF IInv

\* Once the key is there the digest is of the key's algorithm.
LEMMA WaitKeyKeeps == IInv /\ WaitKey => IInv'
<1> SUFFICES ASSUME IInv, WaitKey PROVE IInv'
  OBVIOUS
<1> USE DEF IInv, TypeInv, Tree, Held, WaitKey, At, Source, fsVars, fdVars, digestVars, runVars
<1>1. /\ ifd \in Inode /\ ifd = dir["input"]
      /\ Source \in {"orig", "aligned"} /\ (~opt.inPlace => Source = "orig")
  BY SourceIs DEF Before, Label
<1>2. TypeInv'
  BY <1>1 DEF Label, Alg, Options
<1>3. Enough' /\ Tree' /\ Held' /\ Copying' /\ Digested' /\ Temp' /\ Files' /\ OldOutput' /\
       Cleared'
  BY InodeFacts, MaxCrashesAssumption DEF Enough, Left, Name, Dest, Inode, Label, Before,
     Copying, Digested, Source, Alg, Misaligned, Temp, Target, Signed, Whole, Plain, Empty,
     Files, DestIsOld, OldDest, OldContent, Asked, OldOutput, Cleared
<1>4. Aligned'
  BY <1>1 DEF Aligned, Asked, Misaligned, Digested, Source, Options
<1> QED
  BY <1>2, <1>3, <1>4 DEF IInv

\* A key that cannot be loaded ends the run.
LEMMA WaitKeyFailsKeeps == IInv /\ WaitKeyFails => IInv'
<1> SUFFICES ASSUME IInv, WaitKeyFails PROVE IInv'
  OBVIOUS
<1> USE DEF IInv, TypeInv, Tree, Held, WaitKeyFails, FailsAt, Go, At, fsVars, fdVars,
         digestVars, runVars
<1>1. TypeInv' /\ Enough' /\ Tree' /\ Held' /\ Copying' /\ Digested' /\ Temp' /\ Aligned' /\
       Files' /\ OldOutput' /\ Cleared'
  BY InodeFacts, MaxCrashesAssumption DEF Name, Inode, Alg, Content, Options, Label, Empty,
     Plain, Enough, Left, Dest, Before, Copying, Digested, Source, Misaligned, Temp, Target,
     Signed, Whole, Aligned, Asked, Files, DestIsOld, OldDest, OldContent, OldOutput, Cleared
<1> QED
  BY <1>1 DEF IInv

\* The signatures: nothing is written yet.
LEMMA SignKeeps == IInv /\ Sign => IInv'
<1> SUFFICES ASSUME IInv, Sign PROVE IInv'
  OBVIOUS
<1> USE DEF IInv, TypeInv, Tree, Held, Sign, Go, At, fsVars, fdVars, digestVars, runVars
<1>1. TypeInv' /\ Enough' /\ Tree' /\ Held' /\ Copying' /\ Digested' /\ Temp' /\ Aligned' /\
       Files' /\ OldOutput' /\ Cleared'
  BY InodeFacts, MaxCrashesAssumption DEF Name, Inode, Alg, Content, Options, Label, Empty,
     Plain, Enough, Left, Dest, Before, Copying, Digested, Source, Misaligned, Temp, Target,
     Signed, Whole, Aligned, Asked, Files, DestIsOld, OldDest, OldContent, OldOutput, Cleared
<1> QED
  BY <1>1 DEF IInv

\* The copy of the head is complete.
LEMMA JoinHeadKeeps == IInv /\ JoinHead => IInv'
<1> SUFFICES ASSUME IInv, JoinHead PROVE IInv'
  OBVIOUS
<1> USE DEF IInv, TypeInv, Tree, Held, JoinHead, Go, At, fsVars, fdVars, digestVars, runVars
<1>1. TypeInv' /\ Enough' /\ Tree' /\ Held' /\ Copying' /\ Digested' /\ Temp' /\ Aligned' /\
       Files' /\ OldOutput' /\ Cleared'
  BY InodeFacts, MaxCrashesAssumption DEF Name, Inode, Alg, Content, Options, Label, Empty,
     Plain, Enough, Left, Dest, Before, Copying, Digested, Source, Misaligned, Temp, Target,
     Signed, Whole, Aligned, Asked, Files, DestIsOld, OldDest, OldContent, OldOutput, Cleared
<1> QED
  BY <1>1 DEF IInv

\* The copy of the head failed.
LEMMA JoinHeadFailsKeeps == IInv /\ JoinHeadFails => IInv'
<1> SUFFICES ASSUME IInv, JoinHeadFails PROVE IInv'
  OBVIOUS
<1> USE DEF IInv, TypeInv, Tree, Held, JoinHeadFails, FailsAt, Go, At, fsVars, fdVars,
         digestVars, runVars
<1>1. TypeInv' /\ Enough' /\ Tree' /\ Held' /\ Copying' /\ Digested' /\ Temp' /\ Aligned' /\
       Files' /\ OldOutput' /\ Cleared'
  BY InodeFacts, MaxCrashesAssumption DEF Name, Inode, Alg, Content, Options, Label, Empty,
     Plain, Enough, Left, Dest, Before, Copying, Digested, Source, Misaligned, Temp, Target,
     Signed, Whole, Aligned, Asked, Files, DestIsOld, OldDest, OldContent, OldOutput, Cleared
<1> QED
  BY <1>1 DEF IInv

\* The first byte of the tail: the temp file, or the input in place.
LEMMA TailBeginKeeps == IInv /\ TailBegin => IInv'
<1> SUFFICES ASSUME IInv, TailBegin PROVE IInv'
  OBVIOUS
<1> USE DEF IInv, TypeInv, Tree, Held, TailBegin, At, fsVars, fdVars, digestVars, runVars
<1>1. /\ Target \in Inode
      /\ rewritten \/ ~opt.inPlace => /\ Target = tfd /\ guard /\ tfd = dir["temp"]
                                      /\ tfd # dir["input"] /\ tfd # dir["output"]
      /\ ~rewritten /\ opt.inPlace => Target = ifd
  BY TempApart, InodeFacts DEF Target, Before, Label
<1>2. ifd \in Inode /\ ifd = dir["input"] /\ ifd # 0
  BY InodeFacts DEF Before, Label
<1>3. /\ ino' \in [Inode -> Content] /\ ino'[Target] = [ino[Target] EXCEPT !.tail = "part"]
      /\ \A i \in Inode : i # Target => ino'[i] = ino[i]
  BY <1>1, Written, ContentTyped
<1> USE <1>1, <1>2, <1>3
<1>4. TypeInv'
  BY DEF Label
<1>5. Enough' /\ Tree' /\ Copying' /\ Aligned' /\ Cleared'
  BY InodeFacts, MaxCrashesAssumption DEF Enough, Left, Name, Dest, Inode, Copying, Aligned,
     Asked, Misaligned, Source, Cleared
<1>6. Held'
  BY DEF Before, Label, Target
<1>7. Digested'
  BY DEF Digested, Source
<1>8. Temp'
  BY DEF Temp, Target, Signed, Whole, Digested, Source, Copying, Content
<1>9. Files'
  BY InodeFacts DEF Files, DestIsOld, OldDest, OldContent, Asked, Whole, Signed, Dest,
     Digested, Source, Temp, Aligned,
     Content, Before, Label
<1>10. OldOutput'
  BY InodeFacts DEF OldOutput, DestIsOld, OldDest, OldContent, Dest
<1> QED
  BY <1>4, <1>5, <1>6, <1>7, <1>8, <1>9, <1>10 DEF IInv

\* The last byte of the tail: a temp file is now signed and whole.
LEMMA TailEndKeeps == IInv /\ TailEnd => IInv'
<1> SUFFICES ASSUME IInv, TailEnd PROVE IInv'
  OBVIOUS
<1> USE DEF IInv, TypeInv, Tree, Held, TailEnd, At, fsVars, fdVars, digestVars, runVars
<1>1. /\ Target \in Inode
      /\ rewritten \/ ~opt.inPlace => /\ Target = tfd /\ guard /\ tfd = dir["temp"]
                                      /\ tfd # dir["input"] /\ tfd # dir["output"]
      /\ ~rewritten /\ opt.inPlace => Target = ifd
  BY TempApart, InodeFacts DEF Target, Before, Label
<1>2. ifd \in Inode /\ ifd = dir["input"] /\ ifd # 0
  BY InodeFacts DEF Before, Label
<1> DEFINE New(longer) == [ino[Target] EXCEPT !.tail = "signed", !.alg = digest.alg,
                                              !.over = digest.over, !.junk = longer]
<1>3. ino[Target] \in Content
  BY <1>1
<1>4. PICK longer \in BOOLEAN :
        /\ longer = ino[Target].junk \/ Target = ifd
        /\ ino' = [ino EXCEPT ![Target] = New(longer)]
  <2>1. ino[Target].junk \in BOOLEAN
    BY <1>3 DEF Content
  <2>2. CASE Target = ifd
    BY <2>2
  <2>3. CASE Target # ifd
    BY <2>1, <2>3
  <2> QED
    BY <2>2, <2>3
<1>5. /\ New(longer).head = ino[Target].head /\ New(longer).tail = "signed"
      /\ New(longer).alg = digest.alg /\ New(longer).over = digest.over
      /\ New(longer).junk = longer /\ New(longer) \in Content
  BY <1>3 DEF Content
<1>6. /\ ino' \in [Inode -> Content] /\ ino'[Target] = New(longer)
      /\ \A i \in Inode : i # Target => ino'[i] = ino[i]
  BY <1>1, <1>4, <1>5, Written
<1>7. longer = ino[Target].junk \/ Target = ifd
  BY <1>4
<1> HIDE DEF New
<1> USE <1>1, <1>2, <1>6, <1>5, <1>7
<1>8. TypeInv'
  BY DEF Label
<1>9. Enough' /\ Tree' /\ Copying' /\ Aligned' /\ Cleared'
  BY InodeFacts, MaxCrashesAssumption DEF Enough, Left, Name, Dest, Inode, Copying, Aligned,
     Asked, Misaligned, Source, Cleared
<1>10. Held'
  BY DEF Before, Label, Target
<1>11. Digested'
  BY DEF Digested, Source
<1>12. Temp'
  <2>1. ~ino'[tfd].junk \/ ~guard
    BY DEF Temp, Target
  <2>2. rewritten /\ guard => ino'[tfd].head = "aligned"
    BY DEF Temp, Target
  <2>3. CASE rewritten \/ opt.inPlace
    BY <2>1, <2>2, <2>3 DEF Temp, Target
  <2>4. CASE ~(rewritten \/ opt.inPlace)
    <3>1. Target = tfd /\ pc' = "exchange" /\ guard
      BY <2>4
    <3>2. head = "ok" /\ ino[tfd].head = ino[ifd].head
      BY <2>4, <3>1 DEF Copying
    <3>3. digest.alg = opt.keyAlg /\ digest.over = ino[ifd].head
      BY <2>4 DEF Digested, Source
    <3>4. ino'[tfd].head \in {"orig", "aligned"}
      BY <1>2, <3>1, <3>2, SourceIs DEF Source, Before, Label
    <3>5. Signed(ino[tfd])' /\ ino'[tfd].head = digest.over
      BY <2>1, <3>1, <3>2, <3>3, <3>4 DEF Signed, Whole
    <3> QED
      BY <2>1, <2>2, <2>4, <3>1, <3>5 DEF Temp
  <2> QED
    BY <2>3, <2>4
<1>13. Files'
  BY InodeFacts DEF Files, DestIsOld, OldDest, OldContent, Asked, Whole, Signed, Dest,
     Digested, Source, Temp, Aligned,
     Content, Before, Label
<1>14. OldOutput'
  BY InodeFacts DEF OldOutput, DestIsOld, OldDest, OldContent, Dest
<1> QED
  BY <1>8, <1>9, <1>10, <1>11, <1>12, <1>13, <1>14 DEF IInv

\* The truncation leaves a whole signed file.
LEMMA TruncateKeeps == IInv /\ Truncate => IInv'
<1> SUFFICES ASSUME IInv, Truncate PROVE IInv'
  OBVIOUS
<1> USE DEF IInv, TypeInv, Tree, Held, Truncate, At, fsVars, fdVars, digestVars, runVars
<1>1. /\ Target \in Inode
      /\ rewritten \/ ~opt.inPlace => /\ Target = tfd /\ guard /\ tfd = dir["temp"]
                                      /\ tfd # dir["input"] /\ tfd # dir["output"]
      /\ ~rewritten /\ opt.inPlace => Target = ifd
  BY TempApart, InodeFacts DEF Target, Before, Label
<1>2. ifd \in Inode /\ ifd = dir["input"] /\ ifd # 0
  BY InodeFacts DEF Before, Label
<1>3. /\ ino' \in [Inode -> Content] /\ ino'[Target] = [ino[Target] EXCEPT !.junk = FALSE]
      /\ \A i \in Inode : i # Target => ino'[i] = ino[i]
  BY <1>1, Written, ContentTyped
<1> USE <1>1, <1>2, <1>3
<1>4. TypeInv'
  BY DEF Label
<1>5. Enough' /\ Tree' /\ Copying' /\ Aligned' /\ Cleared'
  BY InodeFacts, MaxCrashesAssumption DEF Enough, Left, Name, Dest, Inode, Copying, Aligned,
     Asked, Misaligned, Source, Cleared
<1>6. Held'
  BY DEF Before, Label, Target
<1>7. Digested'
  BY DEF Digested, Source
<1>8. Temp'
  BY DEF Temp, Target, Signed, Whole, Digested, Source, Copying, Content
<1>9. Files'
  BY InodeFacts DEF Files, DestIsOld, OldDest, OldContent, Asked, Whole, Signed, Dest,
     Digested, Source, Temp, Aligned,
     Content, Before, Label
<1>10. OldOutput'
  BY InodeFacts DEF OldOutput, DestIsOld, OldDest, OldContent, Dest
<1> QED
  BY <1>4, <1>5, <1>6, <1>7, <1>8, <1>9, <1>10 DEF IInv

\* The exchange of the names: the destination is the signed file.
LEMMA ExchangeKeeps == IInv /\ Exchange => IInv'
<1> SUFFICES ASSUME IInv, Exchange PROVE IInv'
  OBVIOUS
<1> USE DEF IInv, TypeInv, Tree, Held, Exchange, At, fsVars, fdVars, digestVars, runVars
<1>1. TypeInv'
  BY DEF Label, Name, Dest
<1>2. Enough' /\ Tree' /\ Held' /\ Copying' /\ Digested' /\ Temp' /\ Aligned' /\ OldOutput' /\
       Cleared'
  <2>1. Enough' /\ Tree'
    BY InodeFacts, MaxCrashesAssumption DEF Enough, Left, Name, Dest, Inode
  <2>2. Held' /\ Copying'
    BY InodeFacts, MaxCrashesAssumption DEF Label, Before, Dest, Name, Copying
  <2>3. Digested' /\ Temp' /\ Aligned'
    BY InodeFacts, MaxCrashesAssumption DEF Digested, Source, Alg, Misaligned, Temp,
       Target, Signed, Whole, Plain, Empty, Aligned, Asked
  <2>4. OldOutput' /\ Cleared'
    BY InodeFacts, MaxCrashesAssumption DEF OldOutput, DestIsOld, OldDest, OldContent, Dest,
       Name, Plain, Cleared
  <2> QED
    BY <2>1, <2>2, <2>3, <2>4
<1>3. Files'
  BY InodeFacts DEF Files, DestIsOld, OldDest, OldContent, Asked, Whole, Signed, Dest, Temp,
     Digested, Aligned, Name, Copying
<1> QED
  BY <1>1, <1>2, <1>3 DEF IInv

\* Without the exchange nothing has changed.
LEMMA ExchangeFailsKeeps == IInv /\ ExchangeFails => IInv'
<1> SUFFICES ASSUME IInv, ExchangeFails PROVE IInv'
  OBVIOUS
<1> USE DEF IInv, TypeInv, Tree, Held, ExchangeFails, At, fsVars, fdVars, digestVars, runVars
<1>1. TypeInv'
  BY DEF Label
<1>2. Enough' /\ Tree' /\ Held' /\ Copying' /\ Digested' /\ Temp' /\ Aligned' /\ Files' /\
       OldOutput' /\ Cleared'
  BY InodeFacts, MaxCrashesAssumption DEF Enough, Left, Name, Dest, Inode, Label, Before,
     Copying, Digested, Source, Alg, Misaligned, Temp, Target, Signed, Whole, Plain, Empty,
     Aligned, Asked, Files, DestIsOld, OldDest, OldContent, OldOutput, Cleared
<1> QED
  BY <1>1, <1>2 DEF IInv

\* The old content, under the temp name, is removed.
LEMMA UnlinkOldKeeps == IInv /\ UnlinkOld => IInv'
<1> SUFFICES ASSUME IInv, UnlinkOld PROVE IInv'
  OBVIOUS
<1> USE DEF IInv, TypeInv, Tree, Held, UnlinkOld, At, fsVars, fdVars, digestVars, runVars
<1>1. dir' = [dir EXCEPT !["temp"] = None] \/ dir' = dir
  OBVIOUS
<1>2. /\ dir' \in [Name -> Inode \cup {None}]
      /\ dir'["input"] = dir["input"] /\ dir'["output"] = dir["output"]
      /\ dir'["temp"] \in {dir["temp"], None}
  BY <1>1, Unlinked
<1>3. TypeInv'
  BY <1>2 DEF Label
<1>4. Enough' /\ Tree' /\ Held' /\ Copying' /\ Digested' /\ Temp' /\ Aligned' /\ OldOutput'
  BY InodeFacts, MaxCrashesAssumption DEF Enough, Left, Name, Dest, Inode, Label, Before,
     Copying, Digested, Source, Alg, Misaligned, Temp, Target, Signed, Whole, Plain, Empty,
     Aligned, Asked, OldOutput, DestIsOld, OldDest, OldContent
<1>5. Files'
  BY <1>2, InodeFacts DEF Files, DestIsOld, OldDest, OldContent, Asked, Whole, Signed, Dest
<1>6. Cleared'
  BY Unlinked DEF Cleared
<1> QED
  BY <1>3, <1>4, <1>5, <1>6 DEF IInv

\* The old content could not be removed, or only at the second try.
LEMMA UnlinkOldFailsKeeps == IInv /\ UnlinkOldFails => IInv'
<1> SUFFICES ASSUME IInv, UnlinkOldFails PROVE IInv'
  OBVIOUS
<1> USE DEF IInv, TypeInv, Tree, Held, UnlinkOldFails, At, fsVars, fdVars, digestVars, runVars
<1>1. dir' = [dir EXCEPT !["temp"] = None] \/ dir' = dir
  OBVIOUS
<1>2. /\ dir' \in [Name -> Inode \cup {None}]
      /\ dir'["input"] = dir["input"] /\ dir'["output"] = dir["output"]
      /\ dir'["temp"] \in {dir["temp"], None}
  BY <1>1, Unlinked
<1>3. TypeInv'
  BY <1>2 DEF Label
<1>4. Enough' /\ Tree' /\ Held' /\ Copying' /\ Digested' /\ Temp' /\ Aligned' /\ OldOutput'
  <2>1. Enough' /\ Tree'
    BY InodeFacts, MaxCrashesAssumption DEF Enough, Left, Name, Dest, Inode
  <2>2. Held' /\ Copying'
    BY InodeFacts, MaxCrashesAssumption DEF Label, Before, Dest, Name, Copying
  <2>3. Digested' /\ Temp' /\ Aligned'
    BY InodeFacts, MaxCrashesAssumption DEF Digested, Source, Alg, Misaligned, Temp,
       Target, Signed, Whole, Plain, Empty, Aligned, Asked
  <2>4. OldOutput'
    BY InodeFacts, MaxCrashesAssumption DEF OldOutput, DestIsOld, OldDest, OldContent, Dest,
       Name, Plain
  <2> QED
    BY <2>1, <2>2, <2>3, <2>4
<1>5. Files'
  BY <1>2, InodeFacts DEF Files, DestIsOld, OldDest, OldContent, Asked, Whole, Signed, Dest
<1>6. Cleared'
  BY Unlinked DEF Cleared
<1> QED
  BY <1>3, <1>4, <1>5, <1>6 DEF IInv

\* The rename over the destination.
LEMMA RenameKeeps == IInv /\ Rename => IInv'
<1> SUFFICES ASSUME IInv, Rename PROVE IInv'
  OBVIOUS
<1> USE DEF IInv, TypeInv, Tree, Held, Rename, At, fsVars, fdVars, digestVars, runVars
<1>1. TypeInv'
  BY InodeFacts, MaxCrashesAssumption DEF Name, Inode, Alg, Content, Options, Label, Empty,
     Plain
<1>2. Enough'
  BY InodeFacts, MaxCrashesAssumption DEF Enough, Left
<1>3. Tree' /\ Held'
  BY InodeFacts, MaxCrashesAssumption DEF Name, Dest, Inode, Label, Before
<1>4. Copying' /\ Digested' /\ Temp' /\ Aligned' /\ OldOutput'
  BY InodeFacts, MaxCrashesAssumption DEF Copying, Dest, Name, Digested, Source, Alg,
     Misaligned, Temp, Target, Signed, Whole, Plain, Empty, Aligned, Asked, OldOutput, DestIsOld, OldDest, OldContent
<1>5. Files'
  BY InodeFacts DEF Files, DestIsOld, OldDest, OldContent, Asked, Whole, Signed, Dest, Temp,
     Digested, Aligned, Name, Copying
<1>6. Cleared'
  BY DEF Cleared, Name
<1> QED
  BY <1>1, <1>2, <1>3, <1>4, <1>5, <1>6 DEF IInv

\* A rename that failed leaves the destination and removes the temp file.
LEMMA RenameFailsKeeps == IInv /\ RenameFails => IInv'
<1> SUFFICES ASSUME IInv, RenameFails PROVE IInv'
  OBVIOUS
<1> USE DEF IInv, TypeInv, Tree, Held, RenameFails, At, fsVars, fdVars, digestVars, runVars
<1>1. dir' = [dir EXCEPT !["temp"] = None] \/ dir' = dir
  OBVIOUS
<1>2. /\ dir' \in [Name -> Inode \cup {None}]
      /\ dir'["input"] = dir["input"] /\ dir'["output"] = dir["output"]
      /\ dir'["temp"] \in {dir["temp"], None}
  BY <1>1, Unlinked
<1>3. TypeInv'
  <2>1. unlinkFailed' \in BOOLEAN /\ pc' \in Label
    BY DEF Label
  <2>2. UNCHANGED <<opt, ino, fresh, key, ifd, tfd, guard, head, rewritten, guessed, digest,
                    outcome, crashes>>
    OBVIOUS
  <2> QED
    BY <1>2, <2>1, <2>2
<1>4. Enough' /\ Tree' /\ Held' /\ Copying' /\ Digested' /\ Temp' /\ Aligned' /\ OldOutput'
  BY InodeFacts, MaxCrashesAssumption DEF Enough, Left, Name, Dest, Inode, Label, Before,
     Copying, Digested, Source, Alg, Misaligned, Temp, Target, Signed, Whole, Plain, Empty,
     Aligned, Asked, OldOutput, DestIsOld, OldDest, OldContent
<1>5. Files'
  BY <1>2, InodeFacts DEF Files, DestIsOld, OldDest, OldContent, Asked, Whole, Signed, Dest
<1>6. Cleared'
  BY Unlinked DEF Cleared
<1> QED
  BY <1>3, <1>4, <1>5, <1>6 DEF IInv

\* The guard removes the temp file.
LEMMA DropTempKeeps == IInv /\ DropTemp => IInv'
<1> SUFFICES ASSUME IInv, DropTemp PROVE IInv'
  OBVIOUS
<1> USE DEF IInv, TypeInv, Tree, Held, DropTemp, At, fsVars, fdVars, digestVars, runVars
<1>1. dir' = [dir EXCEPT !["temp"] = None] \/ dir' = dir
  OBVIOUS
<1>2. /\ dir' \in [Name -> Inode \cup {None}]
      /\ dir'["input"] = dir["input"] /\ dir'["output"] = dir["output"]
      /\ dir'["temp"] \in {dir["temp"], None}
  BY <1>1, Unlinked
<1>3. TypeInv'
  <2>1. unlinkFailed' \in BOOLEAN
    OBVIOUS
  <2>2. guard' \in BOOLEAN /\ pc' \in Label
    BY DEF Label
  <2> QED
    BY <1>2, <2>1, <2>2
<1>4. Enough' /\ Tree' /\ Held' /\ Copying'
  BY InodeFacts, MaxCrashesAssumption DEF Enough, Left, Name, Dest, Inode, Label, Before,
     Copying
<1>5. Digested' /\ Temp' /\ Aligned' /\ OldOutput'
  BY InodeFacts, MaxCrashesAssumption DEF Digested, Source, Alg, Misaligned, Temp, Target,
     Signed, Whole, Plain, Empty, Aligned, Asked, OldOutput, DestIsOld, OldDest, OldContent, Dest, Name
<1>6. Files'
  BY <1>2, InodeFacts DEF Files, DestIsOld, OldDest, OldContent, Asked, Whole, Signed, Dest
<1>7. Cleared'
  BY Unlinked DEF Cleared
<1> QED
  BY <1>3, <1>4, <1>5, <1>6, <1>7 DEF IInv

\* sign_one returns.
LEMMA ReturnKeeps == IInv /\ Return => IInv'
<1> SUFFICES ASSUME IInv, Return PROVE IInv'
  OBVIOUS
<1> USE DEF IInv, TypeInv, Tree, Held, Return, At, fsVars, fdVars, digestVars, runVars
<1>1. TypeInv' /\ Enough' /\ Tree' /\ Held' /\ Copying' /\ Digested' /\ Temp' /\ Aligned' /\
       Files' /\ OldOutput' /\ Cleared'
  BY InodeFacts, MaxCrashesAssumption DEF Name, Inode, Alg, Content, Options, Label, Empty,
     Plain, Enough, Left, Dest, Before, Copying, Digested, Source, Misaligned, Temp, Target,
     Signed, Whole, Aligned, Asked, Files, DestIsOld, OldDest, OldContent, OldOutput, Cleared
<1> QED
  BY <1>1 DEF IInv

\* A step that fails having changed nothing.
LEMMA StepFailsKeeps == IInv /\ StepFails => IInv'
<1> SUFFICES ASSUME IInv, StepFails PROVE IInv'
  OBVIOUS
<1> USE DEF IInv, TypeInv, Tree, Held, StepFails, FailsAt, Go, At, fsVars, fdVars, digestVars,
         runVars
<1>1. /\ At(pc) /\ pc' = "drop"
      /\ pc \in {"open", "decide", "tempRewrite", "tempHead", "check", "sign", "tail", "tailEnd",
                 "truncate"}
      /\ UNCHANGED <<opt, dir, ino, fresh, key, ifd, tfd, guard, head, rewritten, guessed, digest,
                     unlinkFailed, outcome, crashes>>
  OBVIOUS
<1> HIDE DEF StepFails, FailsAt, Go
<1> USE <1>1
<1>2. TypeInv' /\ Enough' /\ Tree' /\ Held' /\ Copying'
  BY InodeFacts, MaxCrashesAssumption DEF Name, Inode, Alg, Content, Options, Label, Empty,
     Plain, Enough, Left, Dest, Before, Copying
<1>3. Digested' /\ Temp' /\ Aligned'
  BY InodeFacts, MaxCrashesAssumption DEF Digested, Source, Alg, Misaligned, Temp, Target,
     Signed, Whole, Plain, Empty, Aligned, Asked
<1>4. Files' /\ OldOutput' /\ Cleared'
  BY InodeFacts, MaxCrashesAssumption DEF Files, DestIsOld, OldDest, OldContent, Asked, Whole,
     Signed, Plain, Dest, Target,
     Source, OldOutput, Name, Cleared
<1> QED
  BY <1>2, <1>3, <1>4 DEF IInv

\* The thread that copies the head writes to the temp file, whatever its name.
LEMMA HeadCopiedKeeps == IInv /\ HeadCopied => IInv'
<1> SUFFICES ASSUME IInv, HeadCopied PROVE IInv'
  OBVIOUS
<1> USE DEF IInv, TypeInv, Tree, Held, HeadCopied, Source, fsVars, fdVars, digestVars, runVars
<1>1. /\ tfd \in Inode /\ tfd # dir["input"] /\ tfd # dir["output"]
      /\ ~opt.inPlace /\ ~rewritten
  BY DEF Copying
<1>2. ifd \in Inode /\ Source \in {"none", "part", "orig", "aligned", "other"}
  <2>1. ifd # 0
    BY DEF Copying
  <2> QED
    BY <2>1 DEF Source, Content
<1>3. /\ ino' \in [Inode -> Content] /\ ino'[tfd] = [ino[tfd] EXCEPT !.head = Source]
      /\ \A i \in Inode : i # tfd => ino'[i] = ino[i]
  BY <1>1, <1>2, Written, ContentTyped
<1>4. TypeInv'
  BY <1>3
<1>5. Enough' /\ Tree' /\ Held' /\ Copying' /\ Cleared'
  BY InodeFacts, MaxCrashesAssumption DEF Enough, Left, Name, Dest, Inode, Label, Before,
     Copying, Cleared
<1>6. Digested'
  BY <1>1, <1>3 DEF Copying, Digested, Source, Before, Label
<1>7. Temp'
  BY <1>1, <1>3 DEF Copying, Temp, Target, Signed, Whole, Content
<1>8. Aligned'
  BY <1>1, <1>3 DEF Aligned, Asked
<1>9. Files'
  BY <1>1, <1>3, InodeFacts DEF Copying, Files, DestIsOld, OldDest, OldContent, Asked, Whole,
     Signed, Dest
<1>10. OldOutput'
  BY <1>1, <1>3, InodeFacts DEF OldOutput, DestIsOld, OldDest, OldContent, Dest
<1> QED
  BY <1>4, <1>5, <1>6, <1>7, <1>8, <1>9, <1>10 DEF IInv

\* So does a copy that fails.
LEMMA HeadFailsKeeps == IInv /\ HeadFails => IInv'
<1> SUFFICES ASSUME IInv, HeadFails PROVE IInv'
  OBVIOUS
<1> USE DEF IInv, TypeInv, Tree, Held, HeadFails, fsVars, fdVars, digestVars, runVars
<1>1. /\ tfd \in Inode /\ tfd # dir["input"] /\ tfd # dir["output"]
      /\ ~opt.inPlace /\ ~rewritten
  BY DEF Copying
<1>2. /\ ino' \in [Inode -> Content] /\ ino'[tfd] = [ino[tfd] EXCEPT !.head = "part"]
      /\ \A i \in Inode : i # tfd => ino'[i] = ino[i]
  BY <1>1, Written, ContentTyped
<1>3. TypeInv'
  BY <1>2
<1>4. Enough' /\ Tree' /\ Held' /\ Copying' /\ Cleared'
  BY InodeFacts, MaxCrashesAssumption DEF Enough, Left, Name, Dest, Inode, Label, Before,
     Copying, Cleared
<1>5. Digested'
  BY <1>1, <1>2 DEF Copying, Digested, Source, Before, Label
<1>6. Temp'
  BY <1>1, <1>2 DEF Copying, Temp, Target, Signed, Whole, Content
<1>7. Aligned'
  BY <1>1, <1>2 DEF Aligned, Asked
<1>8. Files'
  BY <1>1, <1>2, InodeFacts DEF Copying, Files, DestIsOld, OldDest, OldContent, Asked, Whole,
     Signed, Dest
<1>9. OldOutput'
  BY <1>1, <1>2, InodeFacts DEF OldOutput, DestIsOld, OldDest, OldContent, Dest
<1> QED
  BY <1>3, <1>4, <1>5, <1>6, <1>7, <1>8, <1>9 DEF IInv

\* The key arrives.
LEMMA KeyLoadsKeeps == IInv /\ KeyLoads => IInv'
<1> SUFFICES ASSUME IInv, KeyLoads PROVE IInv'
  OBVIOUS
<1> USE DEF IInv, TypeInv, Tree, Held, KeyLoads, fsVars, fdVars, digestVars, runVars
<1>1. TypeInv' /\ Enough' /\ Tree' /\ Held' /\ Copying' /\ Digested' /\ Temp' /\ Aligned' /\
       Files' /\ OldOutput' /\ Cleared'
  BY InodeFacts, MaxCrashesAssumption DEF Name, Inode, Alg, Content, Options, Label, Empty,
     Plain, Enough, Left, Dest, Before, Copying, Digested, Source, Misaligned, Temp, Target,
     Signed, Whole, Aligned, Asked, Files, DestIsOld, OldDest, OldContent, OldOutput, Cleared
<1> QED
  BY <1>1 DEF IInv

\* The process dies: the files are as they are.
LEMMA CrashKeeps == IInv /\ Crash => IInv'
<1> SUFFICES ASSUME IInv, Crash PROVE IInv'
  OBVIOUS
<1> USE DEF IInv, TypeInv, Tree, Held, Crash, fsVars, fdVars, digestVars, runVars
<1>1. TypeInv' /\ Enough' /\ Tree' /\ Held' /\ Copying' /\ Digested' /\ Temp' /\ Aligned' /\
       Files' /\ OldOutput' /\ Cleared'
  <2>1. TypeInv' /\ Tree'
    BY MaxCrashesAssumption
  <2>2. Held' /\ Enough' /\ Copying'
    BY InodeFacts, MaxCrashesAssumption DEF Label, Before, Dest, Name, Enough, Left, Copying
  <2>3. Digested' /\ Temp' /\ Aligned'
    BY InodeFacts, MaxCrashesAssumption DEF Digested, Source, Alg, Misaligned, Temp,
       Target, Signed, Whole, Plain, Empty, Aligned, Asked
  <2>4. Files' /\ OldOutput' /\ Cleared'
    BY InodeFacts, MaxCrashesAssumption DEF Files, DestIsOld, OldDest, OldContent, Asked,
       Whole, Signed, Plain, Dest, Name,
       OldOutput, Cleared
  <2> QED
    BY <2>1, <2>2, <2>3, <2>4
<1> QED
  BY <1>1 DEF IInv

\* The process is run again on the files that it finds.
LEMMA RestartKeeps == IInv /\ Restart => IInv'
<1> SUFFICES ASSUME IInv, Restart PROVE IInv'
  OBVIOUS
<1> USE DEF IInv, TypeInv, Tree, Held, Restart, NoDigest, fsVars, fdVars, digestVars, runVars
<1>1. TypeInv'
  BY InodeFacts, MaxCrashesAssumption DEF Name, Inode, Alg, Content, Options, Label, Empty,
     Plain
<1>2. Enough'
  BY InodeFacts, MaxCrashesAssumption DEF Enough, Left
<1>3. Tree' /\ Held'
  BY InodeFacts, MaxCrashesAssumption DEF Name, Dest, Inode, Label, Before
<1>4. Copying' /\ Digested' /\ Temp' /\ Aligned'
  BY InodeFacts, MaxCrashesAssumption DEF Copying, Dest, Name, Digested, Source, Alg,
     Misaligned, Temp, Target, Signed, Whole, Plain, Empty, Aligned, Asked
<1>5. Files'
  BY InodeFacts DEF Enough, Files, DestIsOld, OldDest, OldContent, Asked, Whole, Signed, Dest
<1>6. OldOutput'
  BY DEF OldOutput, DestIsOld, OldDest, OldContent, Dest, Enough, Plain
<1>7. Cleared'
  BY DEF Cleared, Enough
<1> QED
  BY <1>1, <1>2, <1>3, <1>4, <1>5, <1>6, <1>7 DEF IInv

\* A step that changes nothing.
LEMMA StutterKeeps == IInv /\ UNCHANGED vars => IInv'
<1> SUFFICES ASSUME IInv, UNCHANGED vars PROVE IInv'
  OBVIOUS
<1> USE DEF IInv, TypeInv, Tree, Held, vars, fsVars, fdVars, digestVars, runVars
<1>1. TypeInv' /\ Enough' /\ Tree' /\ Held' /\ Copying' /\ Digested' /\ Temp' /\ Aligned' /\
       Files' /\ OldOutput' /\ Cleared'
  BY InodeFacts, MaxCrashesAssumption DEF Name, Inode, Alg, Content, Options, Label, Empty,
     Plain, Enough, Left, Dest, Before, Copying, Digested, Source, Misaligned, Temp, Target,
     Signed, Whole, Aligned, Asked, Files, DestIsOld, OldDest, OldContent, OldOutput, Cleared
<1> QED
  BY <1>1 DEF IInv

\* The initial states.
LEMMA InitHolds == Init => IInv
<1> SUFFICES ASSUME Init PROVE IInv
  OBVIOUS
<1>1. TypeInv
  <2>1. dir \in [Name -> Inode \cup {None}]
    BY InodeFacts DEF Init, Name
  <2>2. ino \in [Inode -> Content]
    <3>1. \A h \in {"none", "orig", "other"}, t \in {"none", "orig"} : Plain(h, t) \in Content
      BY DEF Plain, Content
    <3> QED
      BY <3>1 DEF Init, Empty
  <2>3. /\ fresh \in Nat /\ fresh >= 3 /\ crashes \in 0 .. MaxCrashes
        /\ digest \in [alg : Alg \cup {"none"}, over : {"none", "orig", "aligned"}]
    BY MaxCrashesAssumption DEF Init, NoDigest
  <2> QED
    BY <2>1, <2>2, <2>3 DEF Init, TypeInv, Label
<1>2. ino[1] = Plain("orig", "orig") /\ ino[2] = Plain("other", "orig")
  BY InodeFacts DEF Init
<1>3. Enough /\ Tree /\ Held /\ Copying
  BY InodeFacts DEF Init, Enough, Left, Tree, Held, Copying, Name, Before, Label
<1>4. Digested /\ Temp /\ Aligned /\ Cleared
  BY DEF Init, Digested, Temp, Aligned, Cleared, Name
<1>5. Files /\ OldOutput
  BY <1>2, InodeFacts DEF Init, Files, DestIsOld, OldDest, OldContent, Dest, OldOutput, Name,
     Plain, Whole
<1> QED
  BY <1>1, <1>3, <1>4, <1>5 DEF IInv

\* Every step, of every thread, of a crash or of a new run, keeps the
\* invariant.
LEMMA NextKeeps == IInv /\ [Next]_vars => IInv'
<1> SUFFICES ASSUME IInv, [Next]_vars PROVE IInv'
  OBVIOUS
<1>1. CASE MainStep
  BY <1>1, OpenKeeps, DecideKeeps, TempForRewriteKeeps, TempForHeadKeeps, RewriteKeeps,
     RewriteFailsKeeps, DigestKeeps, CheckAlignedKeeps, CheckMisalignedKeeps, WaitKeyKeeps,
     WaitKeyFailsKeeps, SignKeeps, JoinHeadKeeps, JoinHeadFailsKeeps, TailBeginKeeps,
     TailEndKeeps, TruncateKeeps, ExchangeKeeps, ExchangeFailsKeeps, UnlinkOldKeeps,
     UnlinkOldFailsKeeps, RenameKeeps, RenameFailsKeeps, DropTempKeeps, ReturnKeeps,
     StepFailsKeeps
     DEF MainStep
<1>2. CASE HeadStep
  BY <1>2, HeadCopiedKeeps, HeadFailsKeeps DEF HeadStep
<1>3. CASE KeyLoads \/ Crash \/ Restart
  BY <1>3, KeyLoadsKeeps, CrashKeeps, RestartKeeps
<1>4. CASE Finished \/ UNCHANGED vars
  BY <1>4, StutterKeeps DEF Finished
<1> QED
  BY <1>1, <1>2, <1>3, <1>4 DEF Next

\* Of every reachable state, however often the process died.
THEOREM Inductive == Spec => []IInv
  BY InitHolds, NextKeeps, PTL DEF Spec

\* sign_one returns Ok only with a whole signed APK at the destination, whose
\* digest is of the key's algorithm and over the entries section that the
\* file has, aligned if that was asked for.
THEOREM SuccessIsSigned == Spec => []SuccessMeansSigned
<1>1. IInv => SuccessMeansSigned
  BY DEF IInv, Enough, Files, DestIsOld, OldDest, OldContent, Dest, Asked, SuccessMeansSigned
<1> QED
  BY <1>1, Inductive, PTL

\* The destination is at every moment, and after every crash, what it was or
\* the signed APK, except while its own tail is spliced in place.
THEOREM DestinationIsNeverTorn == Spec => []DestIsNeverTorn
<1>1. IInv => DestIsNeverTorn
  BY DEF IInv, Tree, Held, Files, DestIsOld, OldDest, OldContent, DestIsNeverTorn,
     SpliceBegun, Dest
<1> QED
  BY <1>1, Inductive, PTL

\* A failed run that could remove its files leaves an existing output as it
\* was, wherever it failed.
THEOREM FailureLeavesOutput == Spec => []FailureKeepsOutput
<1>1. IInv => FailureKeepsOutput
  BY DEF IInv, Enough, OldOutput, DestIsOld, OldDest, OldContent, Dest, FailureKeepsOutput
<1> QED
  BY <1>1, Inductive, PTL

\* A run that could remove its files leaves no temp file, not even that of a
\* run that died before it.
THEOREM TempIsRemoved == Spec => []NoTempLeft
<1>1. IInv => NoTempLeft
  BY DEF IInv, Enough, Held, Cleared, NoTempLeft
<1> QED
  BY <1>1, Inductive, PTL

\* The options stay what they are.
LEMMA OptionsFixed == [Next]_vars => opt' = opt
  BY DEF vars, Next, MainStep, HeadStep, StepFails, FailsAt, Go, Open, Decide,
     TempForRewrite, TempForHead, Rewrite, RewriteFails, Digest, CheckAligned,
     CheckMisaligned, WaitKey, WaitKeyFails, Sign, JoinHead, JoinHeadFails, TailBegin,
     TailEnd, Truncate, Exchange, ExchangeFails, UnlinkOld, UnlinkOldFails, Rename,
     RenameFails, DropTemp, Return, HeadCopied, HeadFails, KeyLoads, Crash, Restart,
     Finished

\* With an output, no step of any thread writes to the input or takes its
\* name away.
THEOREM InputIsUntouched == Spec => InputUntouched
<1>1. IInv /\ IInv' /\ [Next]_vars => [~opt.inPlace => ino'[1] = ino[1] /\ dir'["input"] = 1]_vars
  BY OptionsFixed DEF IInv, Tree, Files, DestIsOld, OldDest, OldContent, Dest, Plain
<1> QED
  BY <1>1, Inductive, PTL DEF Spec, InputUntouched
=============================================================================
