--------------------------- MODULE MCCryptoOrders ---------------------------
(***************************************************************************)
(* One order of every kind for TLC.                                        *)
(***************************************************************************)
EXTENDS CryptoOrders, TLC

CONSTANTS o1, p1, p2
=============================================================================
