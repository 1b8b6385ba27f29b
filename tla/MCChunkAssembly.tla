--------------------------- MODULE MCChunkAssembly ---------------------------
(***************************************************************************)
(* Lists of up to three plans for ChunkAssembly: with and without header,  *)
(* with and without data, next to each other in the input or far apart.    *)
(***************************************************************************)
EXTENDS ChunkAssembly, SequencesExt

\* hole is what lies before the data in the input and is not copied.
Shapes ==
    {s \in [hdr : {0, 1, 5}, len : {0, 2, 5}, hole : {0, 7}] : s.hdr + s.len > 0}
\* A list ends with a record or a gap of one of these shapes.
LastShapes == {s \in Shapes : s.hole = 0}

\* The shapes as plans, one behind the other.
Laid(shapes) ==
    FoldLeft(LAMBDA ps, s :
                 LET p == IF ps = <<>> THEN [off |-> 0, hdr |-> 0, src |-> 0, len |-> 0]
                          ELSE Last(ps)
                 IN  Append(ps, [off |-> OutEnd(p), hdr |-> s.hdr,
                                 src |-> p.src + p.len + s.hole, len |-> s.len]),
             <<>>, shapes)

MCPlans ==
    {Laid(<<>>)}
    \cup {Laid(<<a>>) : a \in Shapes}
    \cup {Laid(<<a, b>>) : a \in Shapes, b \in Shapes}
    \cup {Laid(<<a, b, c>>) : a \in LastShapes, b \in Shapes, c \in LastShapes}
=============================================================================
