----------------------------- MODULE MCIdentity -----------------------------
(***************************************************************************)
(* A few requests for TLC; they are interchangeable.                       *)
(***************************************************************************)
EXTENDS Identity, TLC

CONSTANTS r1, r2, r3

Symmetry == Permutations(Requests)
=============================================================================
