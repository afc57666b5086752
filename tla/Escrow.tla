------------------------------- MODULE Escrow -------------------------------
(***************************************************************************)
(* What a paid operation promises its user.  Its price is held once, out   *)
(* of funds that are there, and then either captured or given back, never  *)
(* both and never twice.  Nothing else done for an operation moves money.  *)
(***************************************************************************)
EXTENDS Integers

CONSTANTS Users, Operations, Owner, Amount

VARIABLES
    balance,  \* spendable money of each user
    outside,  \* net money from elsewhere
    hold      \* where the price of each operation is

escrowVars == <<balance, outside, hold>>

EscrowInit ==
    /\ balance = [u \in Users |-> 0]
    /\ outside = [u \in Users |-> 0]
    /\ hold = [o \in Operations |-> "open"]

Place(o) ==
    /\ hold[o] = "open"
    /\ balance[Owner[o]] >= Amount[o]
    /\ hold' = [hold EXCEPT ![o] = "held"]
    /\ balance' = [balance EXCEPT ![Owner[o]] = @ - Amount[o]]
    /\ UNCHANGED outside

Capture(o) ==
    /\ hold[o] = "held"
    /\ hold' = [hold EXCEPT ![o] = "captured"]
    /\ UNCHANGED <<balance, outside>>

Release(o) ==
    /\ hold[o] = "held"
    /\ hold' = [hold EXCEPT ![o] = "released"]
    /\ balance' = [balance EXCEPT ![Owner[o]] = @ + Amount[o]]
    /\ UNCHANGED outside

(* Money enters or leaves by another way, as much in the wallet as on the  *)
(* books, and never more than is there.                                    *)
Elsewhere(u) ==
    /\ outside' = [outside EXCEPT ![u] = outside'[u]]
    /\ balance' = [balance EXCEPT ![u] = @ + (outside'[u] - outside[u])]
    /\ balance'[u] >= 0
    /\ UNCHANGED hold

EscrowNext ==
    \/ \E o \in Operations : Place(o) \/ Capture(o) \/ Release(o)
    \/ \E u \in Users : Elsewhere(u)

EscrowSpec == EscrowInit /\ [][EscrowNext]_escrowVars
=============================================================================
