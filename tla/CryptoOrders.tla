---------------------------- MODULE CryptoOrders ----------------------------
(***************************************************************************)
(* Crypto orders: market orders and instant swaps over one order book, and *)
(* the admin who resolves what nobody knows the outcome of.                *)
(***************************************************************************)
EXTENDS MarketOrders, InstantSwaps

-----------------------------------------------------------------------------
(* What an admin finds in the master account: the last market order, or    *)
(* the swap of the stored quotation, which must have ended.                *)
Known(o) == row[o].quotation > 0 => conversion[o][row[o].quotation] # "processing"
Executed(o) ==
    IF row[o].quotation = 0 THEN fills[o].last
                            ELSE conversion[o][row[o].quotation] = "completed"

Resolution(o) ==
    LET k == row[o].kind IN
    IF k = "buy" THEN IF Executed(o) THEN "bought" ELSE "refuse"
    ELSE IF k = "sell" THEN IF Executed(o) THEN "sold" ELSE "release"
    ELSE IF k \in {"instantbuy", "instantswap"} THEN
        IF Executed(o) THEN "converted" ELSE Unconverted(k)
    ELSE IF ~row[o].sold THEN IF Executed(o) THEN "soldleg" ELSE "release"
    ELSE IF Executed(o) THEN "finishleg" ELSE "refundngn"

(* Under the lock an order held for review stops being one; then it goes   *)
(* on as if Quidax had answered.                                           *)
admin_resolve_unknown_order(p, o) ==
    /\ row[o].status = "PROCESSING" /\ row[o].needs_review /\ Known(o)
    /\ Starts(p, Job(Resolution(o), o, 0, _wallet_payment_outstanding(o), "later"))
    /\ row' = [row EXCEPT ![o].needs_review = FALSE]
    /\ Overlaps(o)
    /\ UNCHANGED <<acct, quidaxVars, external, crashes>>

-----------------------------------------------------------------------------
Works(p) == BookStep(p) \/ BuyStep(p) \/ SellStep(p) \/ SwapStep(p) \/ InstantStep(p)

Requests(p, o) ==
    \/ _create_order_from_quote(p, o)
    \/ verify_buy_payment(p, o) \/ admin_approve_buy(p, o) \/ admin_retry_buy(p, o)
    \/ _retry_sell_order(p, o)
    \/ admin_check_instant_swap(p, o) \/ admin_resolve_failed_swap(p, o)
    \/ admin_resolve_unknown_order(p, o)

Next ==
    \/ \E p \in Procs : Works(p) \/ Crash(p)
    \/ \E p \in WebWorkers, o \in Orders :
         \/ Requests(p, o)
         \/ \E n \in Quotations : handle_swap_webhook(p, o, n)
    \/ \E o \in Orders :
         \/ reconcile_due_instant_swaps(o)
         \/ admin_reject_order(o) \/ PayOutside(o)
         \/ \E n \in Quotations : QuidaxConverts(o, n)

Spec == BookInit /\ [][Next]_orderVars

(* A process goes on until it is killed, and the Procfile worker comes     *)
(* back to every PROCESSING order.                                         *)
Fairness ==
    /\ \A p \in Procs : WF_orderVars(Works(p))
    /\ \A o \in Orders : SF_orderVars(reconcile_due_instant_swaps(o))

FairSpec == Spec /\ Fairness

-----------------------------------------------------------------------------
(* How often Quidax filled, or converted, what the order pays for.         *)
Deals(o) ==
    LET k == row[o].kind IN
    IF k = "buy" THEN fills[o].bought
    ELSE IF k \in {"instantbuy", "instantswap"} THEN
        Cardinality({n \in Quotations : conversion[o][n] = "completed"})
    ELSE fills[o].sold

(* Quidax filled, or converted, at least as often as proceeds were         *)
(* credited; and a swap that is COMPLETED had its second leg done as well. *)
CreditsAreBacked ==
    \A o \in Orders : ~past[o].overlap =>
        /\ acct[o].got <= Deals(o)
        /\ row[o].kind \in TwoLegs /\ row[o].status = "COMPLETED" =>
              fills[o].bought > 0 \/ \E n \in Quotations : conversion[o][n] = "completed"

(* Proceeds are credited once, whatever webhooks, reconciliation and       *)
(* crashes do, unless two requests on the same order overlap               *)
(* (admin_retry_buy and _retry_sell_order read the status without a lock). *)
ProceedsOnce == \A o \in Orders : ~past[o].overlap => acct[o].got <= 1

(* An instant order that is FAILED, and so given back or refunded, is not  *)
(* converted by Quidax after all, even if a process was killed.            *)
FailedIsNotConverted ==
    \A o \in Orders :
        row[o].kind \in InstantKinds /\ row[o].status = "FAILED" /\ ~past[o].overlap =>
            \A n \in Quotations : conversion[o][n] \notin {"processing", "completed"}

(* No request on the order was killed, nor started while another ran. *)
Smooth(o) == ~past[o].died /\ ~past[o].overlap

(* Coins that were not reserved are not given back or spent, unless a      *)
(* request was killed before it reserved them, or an admin checks while it *)
(* runs (reconcile_instant_swap takes a swap without a quotation for one   *)
(* that has reserved and is over).                                         *)
NothingReleasedUnreserved ==
    \A o \in Orders : Smooth(o) => acct[o].hold >= 0

Resting(o) == \A p \in Procs : job[p].o # o

(* Where no request was killed or overlapped, a closed order is square:    *)
(* nothing is still reserved, the proceeds are there if it is COMPLETED or *)
(* the first leg was sold, a failed buy took nothing from the wallet, and  *)
(* a completed one was paid for once, unless an admin had rejected it.     *)
ClosedIsSquare ==
    \A o \in Orders : Closed(o) /\ Resting(o) /\ Smooth(o) =>
        /\ acct[o].hold = 0
        /\ row[o].kind # "legacy" =>
              acct[o].got = IF row[o].status = "COMPLETED" \/ row[o].sold THEN 1 ELSE 0
        /\ row[o].kind \in Buys =>
              acct[o].taken = IF row[o].status = "FAILED" \/ external[o] \/ past[o].rejected
                              THEN 0 ELSE 1
        /\ row[o].kind # "legacy" => Deals(o) = acct[o].got

(* A completed order stays so, unless requests overlap. *)
CompletedStays ==
    [][\A o \in Orders : row[o].status = "COMPLETED" /\ ~past'[o].overlap =>
          row'[o].status = "COMPLETED"]_orderVars

(* An instant order does not stay PROCESSING once Quidax has ended the     *)
(* conversion that is stored with it, or when none is: whatever webhook    *)
(* is lost and whichever process is killed, it is closed or with an admin  *)
(* in the end.                                                             *)
EndedConversionSettles ==
    \A o \in Orders :
        LET waits == /\ row[o].status = "PROCESSING" /\ ~row[o].needs_review
                     /\ _is_instant(o)
                     /\ Stored(o) > 0 => conversion[o][Stored(o)] \in Ended
        IN waits ~> ~waits
=============================================================================
