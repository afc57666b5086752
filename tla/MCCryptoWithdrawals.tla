------------------------ MODULE MCCryptoWithdrawals ------------------------
(***************************************************************************)
(* Small withdrawals for TLC: one wallet, a request that is sent twice     *)
(* under one idempotency key, and two requests of their own.               *)
(***************************************************************************)
EXTENDS CryptoWithdrawals, TLC

CONSTANTS w1, again, w2, w3, btc, p1, p2

MCWalletOf == [w \in Withdrawals |-> btc]
MCKey == [w \in Withdrawals |-> IF w = again THEN w1 ELSE w]
MCAmount == [w \in Withdrawals |-> 1]
WorthOne == [w \in Withdrawals |-> 1]
(* Processes, the two copies of one request (keys are only compared), and  *)
(* the two requests with keys of their own can be exchanged.               *)
Symmetry ==
    Permutations(WebWorkers) \cup Permutations({w1, again}) \cup Permutations({w2, w3})
=============================================================================
