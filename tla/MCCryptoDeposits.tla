-------------------------- MODULE MCCryptoDeposits --------------------------
(***************************************************************************)
(* Two people for TLC, the first of whom may register again as user 3, and *)
(* a worker whose batch is one sub-account.                                *)
(***************************************************************************)
EXTENDS CryptoDeposits, TLC

CONSTANTS a, b, d1, usdt

MCEmail == 1 :> a @@ 2 :> b @@ 3 :> a
MCPaidTo == d1 :> a
MCCoinOf == d1 :> usdt
=============================================================================
