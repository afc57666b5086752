----------------------------- MODULE GiftCards -----------------------------
(***************************************************************************)
(* Gift cards bought from Reloadly (giftcards/services.py).  The debit and *)
(* the PENDING row commit together; Reloadly's answer, its webhook, the    *)
(* buyer's history and the worker's reconciliation settle the purchase.    *)
(* An answer's status and the codes fetched after it are one reading of    *)
(* Reloadly: "done" is a reading with a code, "processing" one without.    *)
(***************************************************************************)
EXTENDS PurchaseBook

CONSTANTS
    GiftCards,  \* references of GiftCardPurchase rows
    BatchLimit  \* how many rows reconcile_pending_purchases looks at

ASSUME GiftCardAssumption ==
    /\ GiftCards \subseteq Purchases
    /\ BatchLimit \in Nat

VARIABLES
    hasId,  \* is reloadly_tx_id stored?
    elders  \* other PENDING purchases with an id that are older than these: 0..BatchLimit

giftVars == <<hasId, elders>>

GiftInit ==
    /\ hasId = [g \in GiftCards |-> FALSE]
    /\ elders = 0

buy_gift_card(p, g) ==
    /\ Charges(p, g, "send")
    /\ Records(g)
    /\ UNCHANGED <<outside, crashes, refunds, guessed, killed, giftVars>>

(* A status Reloadly gives no card for is a refund; otherwise the id is    *)
(* stored if there was one, and a card completes the purchase.             *)
_apply_order_result(p, g) ==
    LET says == job[p].says IN
    /\ IsAt(p, "apply") /\ job[p].tx = g
    /\ \/ says \in Undone /\ _refund_and_fail(g, says) /\ UNCHANGED hasId
       \/ /\ says \notin Undone
          /\ IF st[g] = "PENDING"
             THEN /\ \E id \in BOOLEAN : hasId' = [hasId EXCEPT ![g] = @ \/ id]
                  /\ st' = [st EXCEPT ![g] = IF says = "done" THEN "COMPLETED" ELSE @]
             ELSE UNCHANGED <<hasId, st>>
          /\ UNCHANGED <<balance, refunds, guessed>>
    /\ SetJob(p, Idle)
    /\ UNCHANGED <<outside, crashes, order, paid, killed, elders>>

(* Reloadly's webhook: a failure is believed, the rest is asked for again. *)
handle_gift_webhook(p, g) ==
    /\ Hears(p, g, IF hasId[g] THEN Ended ELSE ProviderAnswers)
    /\ UNCHANGED giftVars

(* The rows a requery leaves out, taken for those it looks at. *)
MutRequeried == {g \in GiftCards : st[g] = "PENDING" /\ ~hasId[g]}

(* The rows a requery looks at. *)
Requeried == {g \in GiftCards : st[g] = "PENDING" /\ hasId[g]}

_requery(p, g) == g \in Requeried /\ Hears(p, g, Ended) /\ UNCHANGED giftVars

(* The buyer opens the history, whose newest few are asked about. *)
refresh_pending_purchases(p, g) == _requery(p, g)

(* The worker, once a minute: the oldest BatchLimit of everybody's. *)
reconcile_pending_purchases(g) == elders < BatchLimit /\ _requery(Settler, g)

(* Older purchases settle; one that gets its id late comes to stand before *)
(* younger ones.                                                           *)
EldersChange ==
    /\ Requeried # {}
    /\ elders' \in 0..BatchLimit
    /\ UNCHANGED <<ledgerVars, bookVars, hasId>>

GiftRequest(p, g) ==
    \/ buy_gift_card(p, g)
    \/ handle_gift_webhook(p, g)
    \/ refresh_pending_purchases(p, g)

GiftStepOf(p, g) ==
    \/ (Answered(p, g) \/ Unanswered(p, g)) /\ UNCHANGED giftVars
    \/ _apply_order_result(p, g)

GiftTypeOK ==
    /\ hasId \in [GiftCards -> BOOLEAN]
    /\ elders \in 0..BatchLimit
=============================================================================
