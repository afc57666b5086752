---------------------------- MODULE MCPurchases ----------------------------
(***************************************************************************)
(* Small sets of purchases for TLC: one user whose wallet pays for some of *)
(* them at a time.                                                         *)
(***************************************************************************)
EXTENDS Purchases, TLC

CONSTANTS u1, v1, g1, f1, o1, p1, p2, settler

MCOwner == [t \in Purchases |-> u1]
MCAmount == [t \in Purchases |-> 1]
=============================================================================
