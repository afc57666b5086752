---------------------------- MODULE MarketOrders ----------------------------
(***************************************************************************)
(* Buys, sells and two-leg swaps through Quidax market orders.             *)
(* A market order carries no client reference: a request that comes back   *)
(* with an error may have been filled, and only an admin can find out.     *)
(***************************************************************************)
EXTENDS OrderBook

(* create_instant_order, never retried: filled or not, and the answer says *)
(* so, or does not come.  A refusal for precision is tried again with a    *)
(* smaller volume, and what is cut off is refunded with the completion.    *)
Places(p, leg, ok, refused, unknown) ==
    LET o == job[p].o
        filled == [fills EXCEPT ![o][leg] = @ + 1, ![o].last = TRUE]
        unfilled == [fills EXCEPT ![o].last = FALSE]
    IN
    /\ \/ fills' = filled /\ (Goes(p, ok) \/ Goes(p, unknown))
       \/ fills' = unfilled /\ (Goes(p, refused) \/ Goes(p, unknown))
    /\ UNCHANGED <<row, acct, conversion, outsideVars>>

-----------------------------------------------------------------------------
(* Buy: paying.                                                            *)

(* From the wallet, if its balance suffices; otherwise wait for the user. *)
PayFromWallet(p) ==
    /\ IsAt(p, "pay")
    /\ \/ acct' = [acct EXCEPT ![job[p].o].taken = @ + 1] /\ Goes(p, "paid")
       \/ Ends(p) /\ UNCHANGED acct
    /\ UNCHANGED <<row, quidaxVars, outsideVars>>

MarkPaid(p) ==
    LET o == job[p].o IN
    /\ IsAt(p, "paid")
    /\ row' = [row EXCEPT ![o].status = "PAYMENT_RECEIVED", ![o].paid = @ + 1]
    /\ Goes(p, "buy")
    /\ UNCHANGED <<acct, quidaxVars, outsideVars>>

(* By card or bank transfer, once the request has answered that it waits. *)
PayOutside(o) ==
    /\ row[o].status = "PENDING_PAYMENT"
    /\ ~external[o] /\ ~Placing(o)
    /\ external' = [external EXCEPT ![o] = TRUE]
    /\ UNCHANGED <<row, acct, quidaxVars, past, crashes, job>>

(* Flutterwave or an admin says that it was paid: under the lock, a        *)
(* pending order is carried on, without a refund if it fails.              *)
PaymentConfirmed(p, o) ==
    /\ row[o].kind \in Buys
    /\ external[o] /\ row[o].status = "PENDING_PAYMENT"
    /\ Starts(p, Job("buy", o, 0, FALSE, "later"))
    /\ row' = [row EXCEPT ![o].status = "PAYMENT_RECEIVED"]
    /\ Overlaps(o)
    /\ UNCHANGED <<acct, quidaxVars, external, crashes>>

verify_buy_payment(p, o) == PaymentConfirmed(p, o)
admin_approve_buy(p, o) == PaymentConfirmed(p, o)

admin_reject_order(o) ==
    /\ row[o].status \in {"PENDING_PAYMENT", "WAITING_DEPOSIT"}
    /\ row' = [row EXCEPT ![o].status = "FAILED"]
    /\ past' = [past EXCEPT ![o].rejected = TRUE, ![o].overlap = @ \/ InHands(o)]
    /\ UNCHANGED <<acct, quidaxVars, external, crashes, job>>

(* A retry that does not look whether the naira were given back. *)
MutRetryBuy(p, o) ==
    /\ row[o].kind \in Buys /\ row[o].status = "FAILED"
    /\ past[o].retries < MaxRetries
    /\ Starts(p, Job("restart", o, 0, row[o].refunded > 0, "later"))
    /\ past' = [past EXCEPT ![o].retries = @ + 1, ![o].overlap = @ \/ InHands(o)]
    /\ UNCHANGED <<row, acct, quidaxVars, external, crashes>>

(* The status and the log are read without a lock; a buy that was refunded *)
(* is paid again.                                                          *)
admin_retry_buy(p, o) ==
    /\ row[o].kind \in Buys /\ row[o].status = "FAILED"
    /\ past[o].retries < MaxRetries
    /\ LET was_refunded == row[o].refunded > 0 IN
       Starts(p, Job(IF was_refunded THEN "redebit" ELSE "restart", o, 0, was_refunded, "later"))
    /\ past' = [past EXCEPT ![o].retries = @ + 1, ![o].overlap = @ \/ InHands(o)]
    /\ UNCHANGED <<row, acct, quidaxVars, external, crashes>>

Redebit(p) ==
    /\ IsAt(p, "redebit")
    /\ \/ acct' = [acct EXCEPT ![job[p].o].taken = @ + 1] /\ Goes(p, "restart")
       \/ Ends(p) /\ UNCHANGED acct
    /\ UNCHANGED <<row, quidaxVars, outsideVars>>

(* The row goes back whatever its status is by now. *)
Restart(p) ==
    LET o == job[p].o IN
    /\ IsAt(p, "restart")
    /\ row' = [row EXCEPT ![o].status = "PAYMENT_RECEIVED",
                          ![o].paid = IF job[p].refund THEN @ + 1 ELSE @]
    /\ Goes(p, "buy")
    /\ UNCHANGED <<acct, quidaxVars, outsideVars>>

(* Buy: the market order. *)
_execute_quidax_buy(p) ==
    /\ IsAt(p, "buy") /\ row[job[p].o].kind = "buy"
    /\ Places(p, "bought", "bought", "refuse", "flag")

_complete_buy(p) ==
    LET o == job[p].o IN
    /\ IsAt(p, "bought")
    /\ \/ row[o].status = "COMPLETED" /\ UNCHANGED <<row, acct>>
       \/ /\ row[o].status # "COMPLETED"
          /\ row' = [row EXCEPT ![o].status = "COMPLETED"]
          /\ acct' = [acct EXCEPT ![o].got = @ + 1]
    /\ Ends(p)
    /\ UNCHANGED <<quidaxVars, outsideVars>>

BuyStep(p) ==
    \/ PayFromWallet(p) \/ MarkPaid(p) \/ Redebit(p) \/ Restart(p)
    \/ _execute_quidax_buy(p) \/ _complete_buy(p)

-----------------------------------------------------------------------------
(* Sell, and the first leg of a swap.                                      *)

AfterReserve(k) == IF k = "instantswap" THEN "quote" ELSE "sell"

(* reserve_crypto; a sell without the coins waits for them, a swap fails. *)
ReserveSource(p) ==
    LET o == job[p].o IN
    /\ IsAt(p, "reserve")
    /\ \/ acct' = [acct EXCEPT ![o].hold = @ + 1] /\ Goes(p, AfterReserve(row[o].kind))
       \/ Goes(p, IF row[o].kind = "sell" THEN "wait" ELSE "refuse") /\ UNCHANGED acct
    /\ UNCHANGED <<row, quidaxVars, outsideVars>>

WaitForDeposit(p) ==
    /\ IsAt(p, "wait")
    /\ row' = [row EXCEPT ![job[p].o].status = "WAITING_DEPOSIT"]
    /\ Ends(p)
    /\ UNCHANGED <<acct, quidaxVars, outsideVars>>

(* By the user, or by admin_confirm_sell_deposit; the status is read       *)
(* without a lock.                                                         *)
_retry_sell_order(p, o) ==
    /\ row[o].kind = "sell" /\ row[o].status = "WAITING_DEPOSIT"
    /\ past[o].retries < MaxRetries
    /\ Starts(p, Job("rereserve", o, 0, FALSE, "later"))
    /\ past' = [past EXCEPT ![o].retries = @ + 1, ![o].overlap = @ \/ InHands(o)]
    /\ UNCHANGED <<row, acct, quidaxVars, external, crashes>>

ReserveAgain(p) ==
    /\ IsAt(p, "rereserve")
    /\ \/ acct' = [acct EXCEPT ![job[p].o].hold = @ + 1] /\ Goes(p, "start")
       \/ Ends(p) /\ UNCHANGED acct
    /\ UNCHANGED <<row, quidaxVars, outsideVars>>

_start_processing(p) ==
    /\ IsAt(p, "start")
    /\ row' = [row EXCEPT ![job[p].o].status = "PROCESSING"]
    /\ Goes(p, "sell")
    /\ UNCHANGED <<acct, quidaxVars, outsideVars>>

_execute_quidax_sell(p) ==
    /\ IsAt(p, "sell")
    /\ Places(p, "sold", IF row[job[p].o].kind = "sell" THEN "sold" ELSE "soldleg",
              "release", "flag")

ReleaseSource(p) ==
    /\ IsAt(p, "release")
    /\ acct' = [acct EXCEPT ![job[p].o].hold = @ - 1]
    /\ Goes(p, "refuse")
    /\ UNCHANGED <<row, quidaxVars, outsideVars>>

complete_sell(p) ==
    LET o == job[p].o IN
    /\ IsAt(p, "sold")
    /\ \/ row[o].status = "COMPLETED" /\ UNCHANGED <<row, acct>>
       \/ /\ row[o].status # "COMPLETED"
          /\ row' = [row EXCEPT ![o].status = "COMPLETED"]
          /\ acct' = [acct EXCEPT ![o].hold = @ - 1, ![o].got = @ + 1]
    /\ Ends(p)
    /\ UNCHANGED <<quidaxVars, outsideVars>>

SellStep(p) ==
    \/ ReserveSource(p) \/ WaitForDeposit(p) \/ ReserveAgain(p) \/ _start_processing(p)
    \/ _execute_quidax_sell(p) \/ ReleaseSource(p) \/ complete_sell(p)

-----------------------------------------------------------------------------
(* The second leg of a swap: from here on the source coins are gone.       *)

(* The sell order's id is stored: leg 1 is done. *)
_execute_quidax_swap(p) ==
    LET o == job[p].o IN
    /\ IsAt(p, "soldleg")
    /\ row' = [row EXCEPT ![o].sold = TRUE]
    /\ Goes(p, IF row[o].kind = "swap" THEN "buyleg" ELSE "spend-quote")
    /\ UNCHANGED <<acct, quidaxVars, outsideVars>>

_execute_swap_buy_leg(p) ==
    /\ IsAt(p, "buyleg")
    /\ Places(p, "bought", "bookleg", "spend-refund", "spend-flag")

(* debit_reserved_crypto: before an instant quote, or when the market buy  *)
(* raised.                                                                 *)
SpendSource(p) ==
    /\ \/ IsAt(p, "spend-quote") /\ Goes(p, "quote")
       \/ IsAt(p, "spend-flag") /\ Goes(p, "flag")
       \/ IsAt(p, "spend-refund") /\ Goes(p, "refundngn")
    /\ acct' = [acct EXCEPT ![job[p].o].hold = @ - 1]
    /\ UNCHANGED <<row, quidaxVars, outsideVars>>

(* With debit_source in the request, without it after an admin's word. *)
_complete_swap(p) ==
    LET o == job[p].o
        debit == IF IsAt(p, "bookleg") THEN 1 ELSE 0
    IN
    /\ IsAt(p, "bookleg") \/ IsAt(p, "finishleg") \/ IsAt(p, "compensate")
    /\ \/ row[o].status = "COMPLETED" /\ UNCHANGED <<row, acct>>
       \/ /\ row[o].status # "COMPLETED"
          /\ row' = [row EXCEPT ![o].status = "COMPLETED"]
          /\ acct' = [acct EXCEPT ![o].hold = @ - debit, ![o].got = @ + 1]
    /\ IF IsAt(p, "compensate") THEN Goes(p, "log") ELSE Ends(p)
    /\ UNCHANGED <<quidaxVars, outsideVars>>

(* The naira of leg 1 go to the user, once. *)
_refund_failed_swap_as_ngn(p) ==
    LET o == job[p].o IN
    /\ IsAt(p, "refundngn")
    /\ \/ Closed(o) /\ UNCHANGED <<row, acct>>
       \/ /\ ~Closed(o)
          /\ row' = [row EXCEPT ![o].status = "FAILED"]
          /\ acct' = [acct EXCEPT ![o].got = @ + 1]
    /\ IF row[o].kind = "legswap" THEN Goes(p, "clear") ELSE Ends(p)
    /\ UNCHANGED <<quidaxVars, outsideVars>>

-----------------------------------------------------------------------------
(* admin_resolve_failed_swap: only for swaps with the log entry that older *)
(* versions wrote.                                                         *)

(* Under the lock: naira at once, or the claim of a buy.  Bound: one more  *)
(* than MaxRetries, so that there is a second that meets the first.        *)
admin_resolve_failed_swap(p, o) ==
    /\ row[o].kind = "legacy" /\ row[o].status = "FAILED"
    /\ ~row[o].compensated /\ ~row[o].claimed
    /\ past[o].retries <= MaxRetries
    /\ past' = [past EXCEPT ![o].retries = @ + 1]
    /\ \/ /\ row' = [row EXCEPT ![o].compensated = TRUE]
          /\ acct' = [acct EXCEPT ![o].got = @ + 1]
          /\ UNCHANGED job
       \/ /\ row' = [row EXCEPT ![o].claimed = TRUE]
          /\ Starts(p, Job("buyback", o, 0, FALSE, "later"))
          /\ UNCHANGED acct
    /\ UNCHANGED <<quidaxVars, external, crashes>>

BuyBack(p) ==
    /\ IsAt(p, "buyback")
    /\ Places(p, "bought", "compensate", "unclaim", "unanswered")

(* Refused: the claim is given up.  Not answered: it stays. *)
BuyBackRaised(p) ==
    /\ \/ IsAt(p, "unclaim") /\ row' = [row EXCEPT ![job[p].o].claimed = FALSE]
       \/ IsAt(p, "unanswered") /\ UNCHANGED row
    /\ Ends(p)
    /\ UNCHANGED <<acct, quidaxVars, outsideVars>>

LogCompensated(p) ==
    /\ IsAt(p, "log")
    /\ row' = [row EXCEPT ![job[p].o].compensated = TRUE]
    /\ Ends(p)
    /\ UNCHANGED <<acct, quidaxVars, outsideVars>>

SwapStep(p) ==
    \/ _execute_quidax_swap(p) \/ _execute_swap_buy_leg(p) \/ SpendSource(p)
    \/ _complete_swap(p) \/ _refund_failed_swap_as_ngn(p)
    \/ BuyBack(p) \/ BuyBackRaised(p) \/ LogCompensated(p)
=============================================================================
