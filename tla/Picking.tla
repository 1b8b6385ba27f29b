------------------------------ MODULE Picking ------------------------------
(***************************************************************************)
(* The filters and the flattening of Rust's iterators, as operators on     *)
(* sequences.                                                              *)
(***************************************************************************)
EXTENDS Integers, Sequences

\* The elements of s at the places in places, in their order.
Picked(s, places) ==
    LET upto[n \in 0 .. Len(s)] ==
            IF n = 0 THEN <<>>
            ELSE IF n \in places THEN Append(upto[n - 1], s[n]) ELSE upto[n - 1]
    IN  upto[Len(s)]

\* The sequences in ss, one after the other.
Flattened(ss) ==
    LET upto[n \in 0 .. Len(ss)] == IF n = 0 THEN <<>> ELSE upto[n - 1] \o ss[n]
    IN  upto[Len(ss)]
=============================================================================
