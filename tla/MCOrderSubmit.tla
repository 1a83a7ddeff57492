---------------------------- MODULE MCOrderSubmit -----------------------------
(* Orders on their way to a venue: two requests that are alike.              *)
EXTENDS OrderSubmit, TLC

CONSTANTS r1, r2
Symmetry == Permutations({r1, r2})
=============================================================================
