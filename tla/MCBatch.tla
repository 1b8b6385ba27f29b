------------------------------ MODULE MCBatch ------------------------------
(***************************************************************************)
(* Command lines for Batch: a single input, distinct inputs, one name in   *)
(* two directories, an input that is its own output, one input twice.      *)
(***************************************************************************)
EXTENDS Batch

P(d, n) == [dir |-> d, name |-> n]

MCOutFile == P("out", "x")
MCArgLists ==
    {<<P("a", "x")>>, <<P("out", "x")>>,
     <<P("a", "x"), P("a", "x")>>,
     <<P("a", "x"), P("b", "x")>>,
     <<P("a", "x"), P("out", "y"), P("a", "z")>>,
     <<P("a", "x"), P("out", "y"), P("out", "x")>>}
=============================================================================
