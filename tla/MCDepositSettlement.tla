------------------------ MODULE MCDepositSettlement ------------------------
(***************************************************************************)
(* Small settlements for TLC: one wallet, deposits of two coins.           *)
(***************************************************************************)
EXTENDS DepositSettlement

CONSTANTS s1, btc, worker, other, web

MCWalletOf == [s \in Settlements |-> btc]
MCAmount == [s \in Settlements |-> 2]
=============================================================================
