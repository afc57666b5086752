---------------------------- MODULE CryptoLedger ----------------------------
(***************************************************************************)
(* CryptoWallet rows (crypto/services.py): what a user can spend of a coin *)
(* and what is reserved for operations under way.  Each balance update     *)
(* locks the row, so it is one step.                                       *)
(***************************************************************************)
EXTENDS Integers

CONSTANTS
    Wallets,       \* CryptoWallet rows, one per user and coin
    MaxElsewhere   \* bound: what other operations reserve of one wallet

ASSUME CryptoLedgerAssumption == MaxElsewhere \in Nat

VARIABLES
    available,  \* CryptoWallet.available
    reserved,   \* CryptoWallet.reserved
    elsewhere   \* history: the part of reserved held by other operations

cryptoVars == <<available, reserved, elsewhere>>

CryptoLedgerInit ==
    /\ available = [c \in Wallets |-> 0]
    /\ reserved = [c \in Wallets |-> 0]
    /\ elsewhere = [c \in Wallets |-> 0]

(* max(x - y, 0) *)
Minus(x, y) == IF x >= y THEN x - y ELSE 0

credit_crypto_available(c, a) ==
    /\ available' = [available EXCEPT ![c] = @ + a]
    /\ UNCHANGED reserved

reserve_crypto(c, a) ==
    /\ available[c] >= a
    /\ available' = [available EXCEPT ![c] = @ - a]
    /\ reserved' = [reserved EXCEPT ![c] = @ + a]

release_reserved_crypto(c, a) ==
    /\ available' = [available EXCEPT ![c] = @ + a]
    /\ reserved' = [reserved EXCEPT ![c] = Minus(@, a)]

debit_reserved_crypto(c, a) ==
    /\ reserved' = [reserved EXCEPT ![c] = Minus(@, a)]
    /\ UNCHANGED available

(* Other operations on the same wallet reserve one unit of it and later    *)
(* give it back or spend it.                                               *)
ElsewhereReserves(c) ==
    /\ elsewhere[c] < MaxElsewhere
    /\ reserve_crypto(c, 1)
    /\ elsewhere' = [elsewhere EXCEPT ![c] = @ + 1]

ElsewhereEnds(c) ==
    /\ elsewhere[c] > 0
    /\ release_reserved_crypto(c, 1) \/ debit_reserved_crypto(c, 1)
    /\ elsewhere' = [elsewhere EXCEPT ![c] = @ - 1]

ElsewhereStep == \E c \in Wallets : ElsewhereReserves(c) \/ ElsewhereEnds(c)

CryptoLedgerTypeOK ==
    /\ available \in [Wallets -> Nat]
    /\ reserved \in [Wallets -> Nat]
    /\ elsewhere \in [Wallets -> 0..MaxElsewhere]
=============================================================================
