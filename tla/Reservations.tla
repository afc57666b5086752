---------------------------- MODULE Reservations ----------------------------
(***************************************************************************)
(* What reserving promises.  Every claim on a wallet is counted in its     *)
(* reserved balance exactly while it is held; it is given back or spent    *)
(* once per hold, and what is spent never comes back.                      *)
(***************************************************************************)
EXTENDS Integers

CONSTANTS Wallets, Claims, WalletOf, Amount

VARIABLES
    available,
    reserved,
    elsewhere,  \* the part of reserved that other claims hold
    claim       \* "none" before the coins arrive, then "free", "held" or "spent"

reservationVars == <<available, reserved, elsewhere, claim>>

ReservationsInit ==
    /\ available = [w \in Wallets |-> 0]
    /\ reserved = [w \in Wallets |-> 0]
    /\ elsewhere = [w \in Wallets |-> 0]
    /\ claim = [c \in Claims |-> "none"]

Moves(c, from, to) == claim[c] = from /\ claim' = [claim EXCEPT ![c] = to]

(* The coins of a claim arrive and are held at once, or can be spent. *)
ArriveHeld(c) ==
    /\ Moves(c, "none", "held")
    /\ reserved' = [reserved EXCEPT ![WalletOf[c]] = @ + Amount[c]]
    /\ UNCHANGED <<available, elsewhere>>

ArriveFree(c) ==
    /\ Moves(c, "none", "free")
    /\ \/ available' = [available EXCEPT ![WalletOf[c]] = @ + Amount[c]]
       \/ UNCHANGED available  \* coins that were credited long ago
    /\ UNCHANGED <<reserved, elsewhere>>

Hold(c) ==
    /\ Moves(c, "free", "held")
    /\ available[WalletOf[c]] >= Amount[c]
    /\ available' = [available EXCEPT ![WalletOf[c]] = @ - Amount[c]]
    /\ reserved' = [reserved EXCEPT ![WalletOf[c]] = @ + Amount[c]]
    /\ UNCHANGED elsewhere

GiveBack(c) ==
    /\ Moves(c, "held", "free")
    /\ available' = [available EXCEPT ![WalletOf[c]] = @ + Amount[c]]
    /\ reserved' = [reserved EXCEPT ![WalletOf[c]] = @ - Amount[c]]
    /\ UNCHANGED elsewhere

Spend(c) ==
    /\ Moves(c, "held", "spent")
    /\ reserved' = [reserved EXCEPT ![WalletOf[c]] = @ - Amount[c]]
    /\ UNCHANGED <<available, elsewhere>>

(* Other claims: they hold and let go of their own part only. *)
Others(w) ==
    /\ available' = [available EXCEPT ![w] = available'[w]]
    /\ elsewhere' = [elsewhere EXCEPT ![w] = elsewhere'[w]]
    /\ reserved' = [reserved EXCEPT ![w] = @ + (elsewhere'[w] - elsewhere[w])]
    /\ available'[w] >= 0 /\ elsewhere'[w] >= 0
    /\ UNCHANGED claim

ReservationsNext ==
    \/ \E c \in Claims :
         ArriveHeld(c) \/ ArriveFree(c) \/ Hold(c) \/ GiveBack(c) \/ Spend(c)
    \/ \E w \in Wallets : Others(w)

ReservationsSpec == ReservationsInit /\ [][ReservationsNext]_reservationVars
=============================================================================
