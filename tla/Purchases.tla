----------------------------- MODULE Purchases -----------------------------
(***************************************************************************)
(* Everything bought with the NGN wallet, on the same wallet rows and by   *)
(* the same processes: VTU purchases, gift cards and card fundings.        *)
(***************************************************************************)
EXTENDS VtuPurchases, GiftCards, CardFundings

Cards == Fundings \cup Unloads
Priced == VtuPurchases \cup GiftCards \cup Fundings

ASSUME PurchasesAssumption ==
    /\ VtuPurchases \cap GiftCards = {}
    /\ (VtuPurchases \cup GiftCards) \cap Cards = {}
    /\ Purchases = VtuPurchases \cup GiftCards \cup Cards

vars == <<ledgerVars, bookVars, giftVars>>

Init == LedgerInit /\ BookInit /\ GiftInit

(* debit_wallet and credit_wallet of the rest of the system. *)
Elsewhere ==
    \E u \in Users, a \in AppAmounts : debit_wallet(u, a) \/ credit_wallet(u, a)

StepOf(p) ==
    \/ RequestRefund(p) /\ UNCHANGED giftVars
    \/ \E v \in VtuPurchases : VtuStepOf(p, v) /\ UNCHANGED giftVars
    \/ \E g \in GiftCards : GiftStepOf(p, g)
    \/ \E x \in Cards : CardStepOf(p, x) /\ UNCHANGED giftVars

Next ==
    \/ Elsewhere /\ UNCHANGED <<bookVars, giftVars>>
    \/ \E p \in WebWorkers :
         \/ \E v \in VtuPurchases : VtuRequest(p, v) /\ UNCHANGED giftVars
         \/ \E g \in GiftCards : GiftRequest(p, g)
         \/ \E x \in Cards : CardRequest(p, x) /\ UNCHANGED giftVars
    \/ \E g \in GiftCards : reconcile_pending_purchases(g)
    \/ EldersChange
    \/ \E p \in Procs : StepOf(p) \/ (PurchaseCrash(p) /\ UNCHANGED giftVars)
    \/ \E x \in Purchases, s \in {"processing"} \cup Ended :
         Provides(x, s) /\ UNCHANGED giftVars

Spec == Init /\ [][Next]_vars

(* A process goes on with its request until it is killed.  The worker      *)
(* comes to every row of its batch again and again, and Reloadly, asked    *)
(* often enough about an order it has ended, says so.                      *)
Settles(g) == reconcile_pending_purchases(g) /\ job'[Settler].says \in Ended

Fairness ==
    /\ \A p \in Procs : WF_vars(StepOf(p))
    /\ \A g \in GiftCards : SF_vars(Settles(g))

FairSpec == Spec /\ Fairness

-----------------------------------------------------------------------------
(* Every variable keeps its type; a balance is never negative. *)
TypeOK == LedgerTypeOK /\ BookTypeOK /\ GiftTypeOK

(* A purchase is only COMPLETED when its provider did it, and a purchase   *)
(* the provider did is only credited back when the request's own error     *)
(* path did so without having been told.                                   *)
ResultOK(x) ==
    /\ st[x] = "COMPLETED" => order[x] \in {"done", "reversed"}
    /\ refunds[x] > 0 => x \in guessed \/ order[x] \in Undone

RefundedOnlyIfUndoneOrGuessed == \A x \in Purchases : ResultOK(x)

(* No price disappears: what was taken and not given back is a purchase    *)
(* with a row, in a process's hands, or one of the two kinds the code      *)
(* loses: its process was killed where nothing takes the purchase up       *)
(* again, or Bitnob answered a funding with "failed".                      *)
InHands(x) == \E p \in Procs : job[p].tx = x /\ job[p].at \in {"record", "giveback"}
AnsweredFailed(x) == x \in Fundings /\ st[x] = "FAILED" /\ order[x] = "failed"

AccountedFor(x) ==
    \/ refunds[x] > 0
    \/ st[x] \in {"PENDING", "COMPLETED"}
    \/ InHands(x)
    \/ x \in killed
    \/ AnsweredFailed(x)

DebitsAreAccountedFor == \A x \in paid : AccountedFor(x)

-----------------------------------------------------------------------------
(* What a process in the middle of a request can rely on. *)
JobOK(p) ==
    LET x == job[p].tx IN
    \/ job[p] = Idle
    \/ /\ job[p].at \in PurchaseSteps \cup {"refund"}
       /\ x \in Purchases
       /\ x \in Priced => x \in paid
       /\ IsAt(p, "record") <=> st[x] = "none"
       /\ IsAt(p, "record") => x \in VtuPurchases \cup Cards
       /\ IsAt(p, "send") /\ x \in Cards => st[x] = "PENDING"
       /\ IsAt(p, "apply") => job[p].says \in Told(x)
       /\ IsAt(p, "apply") /\ x \in Cards => st[x] = "PENDING"
       /\ IsAt(p, "refund") => x \in VtuPurchases \cup GiftCards
       /\ IsAt(p, "giveback") => x \in Fundings /\ st[x] = "FAILED" /\ refunds[x] = 0

(* One process per purchase until its row exists, and for good for a card. *)
OneRequest ==
    \A p, q \in Procs :
        p # q /\ job[p].tx = job[q].tx /\ job[p].tx \in Purchases =>
            job[p].tx \notin Cards /\ st[job[p].tx] # "none"

(* What a row's status says of the order, the debit and the refund.        *)
RowOK(x) ==
    /\ st[x] = "none" <=> order[x] = "unsent"
    /\ st[x] # "none" /\ x \in Priced => x \in paid
    /\ x \in Unloads => x \notin paid
    /\ x \in guessed => refunds[x] > 0
    /\ refunds[x] <= 1
    /\ refunds[x] = 1 => st[x] = "FAILED" /\ x \in paid
    /\ st[x] = "FAILED" /\ x \in VtuPurchases \cup GiftCards => refunds[x] = 1

IInv ==
    /\ TypeOK
    /\ \A p \in Procs : JobOK(p)
    /\ OneRequest
    /\ \A x \in Purchases : RowOK(x)
    /\ RefundedOnlyIfUndoneOrGuessed
    /\ DebitsAreAccountedFor

-----------------------------------------------------------------------------
(* Purchases implement the escrow: the debit places, COMPLETED captures,   *)
(* the credit releases.                                                    *)
HoldOf(x) ==
    IF x \notin paid THEN "open"
    ELSE IF refunds[x] > 0 THEN "released"
    ELSE IF st[x] = "COMPLETED" THEN "captured"
    ELSE "held"

PurchaseEscrow == INSTANCE Escrow WITH
    Operations <- Priced,
    hold <- [x \in Priced |-> HoldOf(x)]

(* Every behaviour of the purchases is one of the escrow's. *)
PurchasesAreEscrowed == PurchaseEscrow!EscrowSpec

(* An order Reloadly ended, whose id is stored, settles without its buyer  *)
(* and without a webhook, if the worker's batch is not for ever filled     *)
(* with older purchases.                                                   *)
StoredOrderSettles ==
    []<>(elders < BatchLimit) =>
        \A g \in GiftCards : (g \in Requeried /\ order[g] \in Ended) ~> st[g] # "PENDING"
=============================================================================
