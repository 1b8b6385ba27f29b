----------------------------- MODULE RewritePlan -----------------------------
(***************************************************************************)
(* The planning half of align::rewrite (src/src/align.rs), with the rules  *)
(* of src/src/zip.rs it applies, the extra fields it builds, and the two   *)
(* checks that decide whether an APK is rewritten at all.  The entries are *)
(* taken in file order; each one is dropped, left to travel with the next  *)
(* gap, or given a new header and a place in the output, and the bytes     *)
(* between records become gap copies.  The rewritten APK may be rewritten  *)
(* again.                                                                  *)
(*                                                                         *)
(* Bytes are abstracted to lengths and offsets.  An extra field block is a *)
(* sequence of fields; one that cannot be parsed to its end has a last     *)
(* field of kind "overrun".                                                *)
(***************************************************************************)
EXTENDS Picking

CONSTANTS
    Apks,      \* the inputs to be tried
    Pages,     \* the values of lib_page_size to be tried
    LfhLen,    \* LFH_LEN
    U16,       \* 2^16: the number of values of a 16-bit field
    Sample,    \* how many headers quick_misaligned reads
    BlockPage, \* PAGE_ALIGNMENT: the signing block begins on such a page
    MaxRounds  \* how often the APK is rewritten

\* A field of an extra field block, and a Central Directory entry with what
\* its local header says.
Field == [id : {"align", "zero", "foreign", "overrun"}, size : Nat, value : 0 .. U16 - 1]
CdEntry ==
    [off : Nat, name : Nat, extra : Seq(Field), comp : Nat, real : Nat,
     descriptor : {"none", "plain", "signed"}, kind : {"stored", "so", "deflated", "dir"},
     policy : {"output", "skip", "gap"}, header : BOOLEAN]

ASSUME ConstantsAssumption ==
    /\ {LfhLen, U16, Sample, BlockPage, MaxRounds} \subseteq Nat \ {0}
    /\ Pages \subseteq Nat
    /\ Apks \subseteq [entries : Seq(CdEntry), end : Nat]

VARIABLES
    apk,       \* the Central Directory entries, in its order, and entries_end
    page,      \* policy.lib_page_size
    round,     \* which rewrite this is
    pc,
    left,      \* the entries that are ahead, as places in the directory
    cursor,    \* the end of the output so far
    consumed,  \* the end of the input processed so far
    dropped,   \* the number of entries dropped
    plans      \* plans

vars == <<apk, page, round, pc, left, cursor, consumed, dropped, plans>>

-----------------------------------------------------------------------------
(* Entries.                                                                *)

Larger(a, b) == IF a >= b THEN a ELSE b

\* The bytes of an extra field block.
FieldLen(f) == IF f.id = "overrun" THEN f.size ELSE 4 + f.size
ExtraLen(extra) ==
    LET upto[n \in 0 .. Len(extra)] ==
            IF n = 0 THEN 0 ELSE upto[n - 1] + FieldLen(extra[n])
    IN  upto[Len(extra)]

\* The local header: 30 bytes, the name and the extra fields.
PrefixLen(e) == LfhLen + e.name + ExtraLen(e.extra)
DataOff(e) == e.off + PrefixLen(e)

\* required_alignment
Required(e) ==
    CASE e.kind \in {"deflated", "dir"} -> 1
      [] e.kind = "so" /\ page > 4 -> page
      [] OTHER -> 4

\* The data and its descriptor, which is told by its signature if the
\* directory has the size of the data right, and is 12 bytes without one.
DataLen(e) ==
    e.comp + CASE e.descriptor = "none" -> 0
               [] e.descriptor = "signed" /\ e.comp = e.real -> 16
               [] OTHER -> 12

\* file_order: the errors, and which of the entries ahead comes next.
Unordered(entries, end) ==
    \/ \E i \in DOMAIN entries : entries[i].off + LfhLen > end
    \/ \E i, j \in DOMAIN entries : i # j /\ entries[i].off = entries[j].off
First(entries, ahead) ==
    CHOOSE i \in ahead : \A j \in ahead : entries[i].off <= entries[j].off

Output == Picked(apk.entries, {i \in DOMAIN apk.entries : apk.entries[i].policy = "output"})
ToAlign == Picked(Output, {i \in DOMAIN Output : Required(Output[i]) > 1})

\* What one header says to quick_misaligned, the extra fields forgotten.
HeaderVerdictNoExtra(e) ==
    IF e.off + LfhLen > apk.end \/ ~e.header THEN "error"
    ELSE IF (e.off + LfhLen + e.name) % Required(e) # 0 THEN "misaligned" ELSE "unproven"

\* What one header says to quick_misaligned: it lies outside the entries
\* section or is none, or puts its data in the wrong place, or shows nothing.
HeaderVerdict(e) ==
    IF e.off + LfhLen > apk.end \/ ~e.header THEN "error"
    ELSE IF DataOff(e) % Required(e) # 0 THEN "misaligned" ELSE "unproven"

\* quick_misaligned: the first header of the sample that shows something
\* decides, in the order of the filtered Central Directory.
QuickMisaligned ==
    LET stops == {k \in 1 .. Len(ToAlign) :
                    k <= Sample /\ HeaderVerdict(ToAlign[k]) # "unproven"}
    IN  IF stops = {} THEN "unproven"
        ELSE HeaderVerdict(ToAlign[CHOOSE k \in stops : \A j \in stops : k <= j])

\* check: a header that overruns the next one is an error, else the entries
\* that are not where they should be.
CheckFails ==
    \/ Unordered(Output, apk.end)
    \/ \E i \in DOMAIN Output :
          \/ DataOff(Output[i]) > apk.end
          \/ \E j \in DOMAIN Output :
                Output[i].off < Output[j].off /\ Output[j].off < DataOff(Output[i])
Bad ==
    {i \in DOMAIN Output :
        Required(Output[i]) > 1 /\ DataOff(Output[i]) % Required(Output[i]) # 0}

\* What --zipalign check comes to: the inspector orders the entries, the
\* sample may settle the matter, else the digest pass sees every header and
\* the full check decides.
Refused ==
    \/ Unordered(Output, apk.end) \/ QuickMisaligned = "error"
    \/ /\ QuickMisaligned = "unproven"
       /\ CheckFails \/ \E i \in DOMAIN Output : ~Output[i].header
ZipalignCheck ==
    IF Refused THEN "refuse"
    ELSE IF QuickMisaligned = "misaligned" \/ Bad # {} THEN "rewrite" ELSE "keep"
-----------------------------------------------------------------------------
(* Extra fields.                                                           *)

\* declared_alignment, 0 for None: the first alignment field that has room
\* for a value, unless the block breaks off before it.
Declared(extra) ==
    LET fields == {k \in DOMAIN extra : extra[k].id = "align" /\ extra[k].size >= 2}
    IN  IF fields = {} THEN 0
        ELSE extra[CHOOSE k \in fields : \A j \in fields : k <= j].value

\* Old alignment fields are kept too.
KeptAll(extra) == Picked(extra, {k \in DOMAIN extra : extra[k].id # "overrun"})

\* aligning_extra: well-formed fields are kept, but for alignment fields and
\* raw zero padding, and a field that puts the data on align is appended.  Its
\* value is cut to 16 bits; its size would be too, but a block that long is
\* refused.
Stays(f) == f.id \notin {"align", "overrun"} /\ ~(f.id = "zero" /\ f.size = 0)
Kept(extra) == Picked(extra, {k \in DOMAIN extra : Stays(extra[k])})

PadTo(align, start) == (align - (start % align)) % align
AlignField(align, pad) == [id |-> "align", size |-> 2 + pad, value |-> align % U16]

\* The six bytes of the field itself are not counted.
AligningExtraOffBySix(extra, start, align) ==
    Append(Kept(extra), AlignField(align, PadTo(align, start + ExtraLen(Kept(extra)))))

AligningExtra(extra, start, align) ==
    Append(Kept(extra), AlignField(align, PadTo(align, start + ExtraLen(Kept(extra)) + 6)))

\* The rule, or what the entry declares if that is more.
Align(e) == Larger(Required(e), Declared(e.extra))

NewExtra(e, start) ==
    IF Required(e) > 1 THEN AligningExtra(e.extra, start, Align(e)) ELSE e.extra
-----------------------------------------------------------------------------
(* The plan.                                                               *)

Init ==
    /\ apk \in Apks /\ page \in Pages
    /\ round = 1
    /\ pc = "order"
    /\ left = DOMAIN apk.entries /\ cursor = 0 /\ consumed = 0 /\ dropped = 0
    /\ plans = <<>>

Fail ==
    /\ pc' = "failed"
    /\ UNCHANGED <<apk, page, round, left, cursor, consumed, dropped, plans>>

Ordered ==
    /\ pc = "order" /\ ~Unordered(apk.entries, apk.end)
    /\ pc' = "entry"
    /\ UNCHANGED <<apk, page, round, left, cursor, consumed, dropped, plans>>

OrderFails == pc = "order" /\ Unordered(apk.entries, apk.end) /\ Fail

\* The entry the loop is at.
More == pc = "entry" /\ left # {}
Idx == First(apk.entries, left)
Entry == apk.entries[Idx]

\* Dropped from the directory; its record travels with the next gap.
Gap ==
    /\ More /\ Entry.policy = "gap"
    /\ left' = left \ {Idx}
    /\ dropped' = dropped + 1
    /\ UNCHANGED <<apk, page, round, pc, cursor, consumed, plans>>

Overlaps == Entry.off < consumed
NoHeader == ~Entry.header \/ DataOff(Entry) > apk.end

Overruns == DataOff(Entry) + DataLen(Entry) > apk.end

\* Where the new header goes: after the bytes before the old one.
NewOff == cursor + Entry.off - consumed
Extra == NewExtra(Entry, NewOff + LfhLen + Entry.name)
ExtraTooLong == ExtraLen(Extra) >= U16

EntryFails ==
    /\ More /\ Entry.policy # "gap"
    /\ \/ Overlaps \/ NoHeader \/ Overruns
       \/ Entry.policy = "output" /\ ExtraTooLong
    /\ Fail

Accepted ==
    /\ More /\ Entry.policy # "gap"
    /\ ~Overlaps /\ ~NoHeader /\ ~Overruns
    /\ Entry.policy = "output" => ~ExtraTooLong

GapPlan(from, to) ==
    [idx |-> 0, src |-> from, len |-> to - from, off |-> cursor, hdr |-> 0, extra |-> <<>>]
GapBefore == IF Entry.off > consumed THEN <<GapPlan(consumed, Entry.off)>> ELSE <<>>

\* The bytes before a skipped record are copied, the record is not.
Skip ==
    /\ Accepted /\ Entry.policy = "skip"
    /\ plans' = plans \o GapBefore
    /\ cursor' = NewOff
    /\ consumed' = DataOff(Entry) + DataLen(Entry)
    /\ dropped' = dropped + 1
    /\ left' = left \ {Idx}
    /\ UNCHANGED <<apk, page, round, pc>>

NewPlan ==
    [idx |-> Idx, src |-> DataOff(Entry), len |-> DataLen(Entry), off |-> NewOff,
     hdr |-> LfhLen + Entry.name + ExtraLen(Extra), extra |-> Extra]

\* The output grows by the data only.
CopyNoHeader ==
    /\ Accepted /\ Entry.policy = "output"
    /\ plans' = plans \o GapBefore \o <<NewPlan>>
    /\ cursor' = NewOff + NewPlan.len
    /\ consumed' = DataOff(Entry) + DataLen(Entry)
    /\ left' = left \ {Idx}
    /\ UNCHANGED <<apk, page, round, pc, dropped>>

\* The input is taken to end with the data, without its descriptor.
CopyNoDescriptor ==
    /\ Accepted /\ Entry.policy = "output"
    /\ plans' = plans \o GapBefore \o <<NewPlan>>
    /\ cursor' = NewOff + NewPlan.hdr + NewPlan.len
    /\ consumed' = DataOff(Entry) + Entry.comp
    /\ left' = left \ {Idx}
    /\ UNCHANGED <<apk, page, round, pc, dropped>>

\* A new header, and the data copied behind it.
Copy ==
    /\ Accepted /\ Entry.policy = "output"
    /\ plans' = plans \o GapBefore \o <<NewPlan>>
    /\ cursor' = NewOff + NewPlan.hdr + NewPlan.len
    /\ consumed' = DataOff(Entry) + DataLen(Entry)
    /\ left' = left \ {Idx}
    /\ UNCHANGED <<apk, page, round, pc, dropped>>

\* What is left behind the last record is copied; new_end is cursor.
Finish ==
    /\ pc = "entry" /\ left = {}
    /\ plans' = plans \o IF consumed < apk.end THEN <<GapPlan(consumed, apk.end)>> ELSE <<>>
    /\ cursor' = cursor + apk.end - consumed
    /\ pc' = "done"
    /\ UNCHANGED <<apk, page, round, left, consumed, dropped>>

\* The new Central Directory: the entries with a plan, in the old order, with
\* their new offsets.
Planned == {i \in DOMAIN apk.entries : \E k \in DOMAIN plans : plans[k].idx = i}
PlanOf(i) == plans[CHOOSE k \in DOMAIN plans : plans[k].idx = i]
Moved(e, p) ==
    [off |-> p.off, name |-> e.name, extra |-> p.extra, comp |-> e.comp, real |-> e.real,
     descriptor |-> e.descriptor, kind |-> e.kind, policy |-> e.policy, header |-> e.header]
NewEntries ==
    Picked([i \in DOMAIN apk.entries |->
               IF i \in Planned THEN Moved(apk.entries[i], PlanOf(i)) ELSE apk.entries[i]],
           Planned)

\* The rewritten APK, as it is checked or rewritten next: signed by then, so
\* that its entries section ends with the padding before the signing block.
Rewritten == [entries |-> NewEntries, end |-> cursor + PadTo(BlockPage, cursor)]

Again ==
    /\ pc = "done" /\ round < MaxRounds
    /\ apk' = Rewritten
    /\ round' = round + 1
    /\ pc' = "order"
    /\ left' = DOMAIN apk'.entries /\ cursor' = 0 /\ consumed' = 0 /\ dropped' = 0
    /\ plans' = <<>>
    /\ UNCHANGED page

Finished ==
    /\ pc = "failed" \/ (pc = "done" /\ round = MaxRounds)
    /\ UNCHANGED vars

Next ==
    \/ Ordered \/ OrderFails \/ Gap \/ EntryFails \/ Skip \/ Copy \/ Finish
    \/ Again \/ Finished

Spec == Init /\ [][Next]_vars
-----------------------------------------------------------------------------
(* Properties.                                                             *)

\* The plans cover the output without a hole or an overlap, in order, and
\* none is empty: what the binary searches of assemble_and_hash rely on.
PlansTile ==
    /\ \A k \in DOMAIN plans :
          /\ plans[k].hdr + plans[k].len > 0
          /\ plans[k].off = IF k = 1 THEN 0
                            ELSE plans[k - 1].off + plans[k - 1].hdr + plans[k - 1].len
    /\ cursor = IF plans = <<>> THEN 0
                ELSE plans[Len(plans)].off + plans[Len(plans)].hdr + plans[Len(plans)].len

\* The bytes of the input that do not reach the output: the old headers of
\* the entries kept, and the skipped records.
ByteRange(from, len) == from .. from + len - 1
LeftOut ==
    (UNION {ByteRange(apk.entries[i].off, PrefixLen(apk.entries[i])) :
               i \in {j \in DOMAIN apk.entries : apk.entries[j].policy = "output"}})
    \cup
    (UNION {ByteRange(apk.entries[i].off, PrefixLen(apk.entries[i]) + DataLen(apk.entries[i])) :
               i \in {j \in DOMAIN apk.entries : apk.entries[j].policy = "skip"}})

\* Every other byte of the entries section is copied, and copied once, and
\* the bytes keep their order: orphans, padding and gap entries included.
EveryByteOnce ==
    pc = "done" =>
        /\ \A j, k \in DOMAIN plans :
              j < k => plans[j].src + plans[j].len <= plans[k].src
        /\ UNION {ByteRange(plans[k].src, plans[k].len) : k \in DOMAIN plans}
             = ByteRange(0, apk.end) \ LeftOut

\* The data of every entry of the new directory is on the alignment the rule
\* asks for, if what entries declare is a multiple of the rule or less: a
\* second check finds nothing to do.
Fits(e) == Declared(e.extra) <= Required(e) \/ Declared(e.extra) % Required(e) = 0
RewrittenIsAligned ==
    pc = "done" /\ (\A i \in DOMAIN apk.entries : Fits(apk.entries[i])) =>
        \A i \in DOMAIN NewEntries :
            DataOff(NewEntries[i]) % Required(NewEntries[i]) = 0

\* The same without the condition: what the test of the rewrite asserts of
\* every surviving entry.
AlwaysAligned ==
    pc = "done" =>
        \A i \in DOMAIN NewEntries :
            DataOff(NewEntries[i]) % Required(NewEntries[i]) = 0

\* The alignment field of every rewritten entry declares at least the
\* alignment the rule asks for: the test of the rewrite asserts that it
\* declares the very alignment.
FieldTellsTheTruth ==
    pc = "done" =>
        \A i \in DOMAIN NewEntries :
            Required(NewEntries[i]) > 1 =>
                Declared(NewEntries[i].extra) >= Required(NewEntries[i])

\* Rewriting what was rewritten changes nothing, down to the last offset.
RewriteIsStable ==
    round > 1 =>
        /\ pc # "failed"
        /\ pc = "done" => Rewritten = apk /\ dropped = 0

\* The two ways to the rewrite agree about an APK: --zipalign check refuses
\* none that --zipalign always rewrites, whatever is in its gaps and however
\* its directory is ordered; and what was rewritten it finds in place, sample
\* and full check alike, so that an APK is not rewritten at every signing.
CheckAgreesWithRewrite ==
    pc = "done" =>
        /\ ZipalignCheck # "refuse"
        /\ round > 1 /\ (\A i \in DOMAIN apk.entries : Fits(apk.entries[i]))
             => ZipalignCheck = "keep"
=============================================================================
