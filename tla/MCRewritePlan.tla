--------------------------- MODULE MCRewritePlan ---------------------------
(***************************************************************************)
(* APKs for RewritePlan: one to three records with gaps before, between    *)
(* and behind them, in either order in the Central Directory; extra fields *)
(* of every kind; and records that are not what the directory says.        *)
(***************************************************************************)
EXTENDS RewritePlan, SequencesExt

F(id, size, value) == [id |-> id, size |-> size, value |-> value]

\* No field, an old alignment field and a foreign one, raw zero padding, a
\* large foreign field, a block that breaks off.
Extras ==
    {<<>>,
     <<F("align", 3, 8), F("foreign", 1, 0)>>,
     <<F("foreign", 2, 0), F("zero", 0, 0), F("align", 2, 4)>>,
     <<F("foreign", 5, 0), F("overrun", 3, 0)>>}

\* An alignment that is no multiple of four, and one whose field is too short.
OddExtras == {<<F("align", 3, 6)>>, <<F("align", 1, 0), F("zero", 1, 0)>>}

\* A record: gap is what lies before it.
R(gap, kind, policy, extra, comp, real, descriptor) ==
    [gap |-> gap, kind |-> kind, policy |-> policy, extra |-> extra, comp |-> comp,
     real |-> real, descriptor |-> descriptor, header |-> TRUE]

Kept3 ==
    {R(g, k, "output", x, 3, 3, d) :
        g \in {0, 5}, k \in {"stored", "so", "deflated"}, x \in Extras,
        d \in {"none", "signed"}}
Others ==
    {R(g, "stored", p, <<>>, 2, 2, "plain") : g \in {0, 3}, p \in {"skip", "gap"}}
    \cup {R(0, "dir", "skip", <<>>, 0, 0, "none")}
Broken ==
    {R(0, "stored", "output", <<>>, c, 3, d) : c \in {1, 40}, d \in {"none", "signed"}}
    \cup {[R(0, "so", "output", <<>>, 3, 3, "none") EXCEPT !.header = FALSE]}

\* Records for APKs with more of them than the sample has headers.
Few ==
    {R(g, "stored", "output", <<F("foreign", 1, 0)>>, 3, 3, "none") : g \in {0, 2}}
    \cup {R(0, "so", "output", <<>>, 3, 3, "signed"),
          [R(0, "stored", "output", <<>>, 3, 3, "none") EXCEPT !.header = FALSE]}

Real(r) ==
    LfhLen + 1 + ExtraLen(r.extra) + r.real
      + CASE r.descriptor = "none" -> 0 [] r.descriptor = "plain" -> 12
          [] r.descriptor = "signed" -> 16

\* Where record k of recs begins.
Begin(recs, k) ==
    FoldLeft(LAMBDA n, r : n + r.gap + Real(r), 0, SubSeq(recs, 1, k - 1)) + recs[k].gap

AnEntry(r, off) ==
    [off |-> off, name |-> 1, extra |-> r.extra, comp |-> r.comp, real |-> r.real,
     descriptor |-> r.descriptor, kind |-> r.kind, policy |-> r.policy, header |-> r.header]

\* The records as a file with rest bytes behind them, listed backwards in the
\* Central Directory if back.
Apk(recs, rest, back) ==
    LET n == Len(recs)
        es == [k \in 1 .. n |-> AnEntry(recs[k], Begin(recs, k))]
    IN  [entries |-> IF back THEN Reverse(es) ELSE es,
         end |-> Begin(recs, n) + Real(recs[n]) + rest]

\* Two entries share a header, or one begins where no header fits.
Misplaced ==
    LET r == R(0, "stored", "output", <<>>, 3, 3, "none")
    IN  {[entries |-> <<AnEntry(r, 0), AnEntry(r, o)>>, end |-> 50] : o \in {0, 25}}

MCOddApks ==
    {Apk(<<R(g, "stored", "output", x, 3, 3, "none")>>, 0, FALSE) :
        g \in {0, 5}, x \in OddExtras}

\* A library alone.
MCLibApks == {Apk(<<R(0, "so", "output", <<>>, 3, 3, "none")>>, 0, FALSE)}

MCApks ==
    MCOddApks
    \cup {Apk(<<a>>, n, FALSE) : a \in Kept3 \cup Broken, n \in {0, 7}}
    \cup {Apk(<<a, b>>, 0, TRUE) : a \in Kept3, b \in Kept3}
    \cup {Apk(<<a, o, b>>, 2, FALSE) :
             a \in {x \in Kept3 : x.gap = 5}, o \in Others,
             b \in {x \in Kept3 : x.gap = 0 /\ x.descriptor = "none"} \cup Broken}
    \cup {Apk(<<b, a>>, 0, FALSE) : a \in {x \in Kept3 : x.gap = 0}, b \in Broken}
    \cup {Apk(<<a, b, c>>, 0, back) : a, b, c \in Few, back \in BOOLEAN}
    \cup Misplaced
=============================================================================
