---------------------------- MODULE MCNgnWallet ----------------------------
(***************************************************************************)
(* Small wallets for TLC.  One user, whose deposit and the other apps'     *)
(* credit together pay for both withdrawals, and neither alone does.       *)
(***************************************************************************)
EXTENDS NgnWallet, TLC

CONSTANTS u1, w1, w2, d1, p1, p2, settler

MCTransactions == Withdrawals \cup Deposits
MCOwner == [t \in MCTransactions |-> u1]
MCAmount == [t \in MCTransactions |-> IF t = w1 THEN 1 ELSE 2]
WorkerSymmetry == Permutations(WebWorkers)
=============================================================================
