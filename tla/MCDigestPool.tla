---------------------------- MODULE MCDigestPool ----------------------------
(***************************************************************************)
(* Headers at the start, at the end, across the boundary of two chunks,    *)
(* right at it, and next to each other.                                    *)
(***************************************************************************)
EXTENDS DigestPool

MCLfhOffsets == {{0, 22}, {0, 10, 23, 34}, {11, 24, 50}}
=============================================================================
