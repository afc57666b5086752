---------------------------- MODULE InstantSwaps ----------------------------
(***************************************************************************)
(* Instant Swap: a quotation, which moves nothing, is stored and confirmed *)
(* once; the result comes with the confirmation, by polling, by webhook or *)
(* by reconciliation.  Swaps, buys and the second leg of a swap take this  *)
(* road and differ in how they end.                                        *)
(***************************************************************************)
EXTENDS OrderBook

InstantKinds == {"instantbuy", "legswap", "instantswap"}
_is_instant(o) == row[o].kind = "instantswap" \/ row[o].quotation > 0

(* Where a request goes on when Quidax certainly did not convert. *)
Unconverted(k) ==
    IF k = "instantbuy" THEN "refuse" ELSE IF k = "legswap" THEN "refundngn" ELSE "giveback"

Ended == {"completed", "failed"}
(* Any end is taken for a conversion. *)
MutOutcome(o, n) == "converted"

(* What a report, or a poll, of a swap that has ended leads to. *)
Outcome(o, n) ==
    IF conversion[o][n] = "completed" THEN "converted" ELSE Unconverted(row[o].kind)

(* No price, or one too far from what the user was promised: a quotation   *)
(* moves nothing.                                                          *)
QuoteFails(p) ==
    /\ Goes(p, Unconverted(row[job[p].o].kind))
    /\ UNCHANGED row

(* The quotation's id is stored before it is confirmed. *)
Quotes(p, becomes) ==
    LET o == job[p].o
        n == row[o].quotation + 1
    IN
    /\ \/ QuoteFails(p)
       \/ /\ n \in Quotations
          /\ row' = [row EXCEPT ![o] = [becomes EXCEPT !.quotation = n]]
          /\ job' = [job EXCEPT ![p].at = "confirm", ![p].n = n]
    /\ UNCHANGED <<acct, quidaxVars, outsideVars>>

_execute_instant_swap(p) ==
    LET o == job[p].o IN
    IsAt(p, "quote") /\ row[o].kind = "instantswap" /\ Quotes(p, row[o])

_execute_swap_buy_leg_instant(p) ==
    LET o == job[p].o IN
    IsAt(p, "quote") /\ row[o].kind = "legswap" /\ Quotes(p, row[o])

(* A buy forgets the swap of an earlier attempt. *)
_execute_instant_buy(p) ==
    LET o == job[p].o IN
    /\ IsAt(p, "buy") /\ row[o].kind = "instantbuy"
    /\ Quotes(p, [row[o] EXCEPT !.swap = 0, !.status = "PROCESSING"])

(* An answer that does not come is taken for a refusal. *)
MutConfirm(p) ==
    LET o == job[p].o
        becomes(c) == conversion' = [conversion EXCEPT ![o][job[p].n] = c]
    IN
    /\ IsAt(p, "confirm")
    /\ \/ becomes("processing") /\ (Goes(p, "confirmed") \/ Goes(p, Unconverted(row[o].kind)))
       \/ (becomes("refused") \/ becomes("lost")) /\ Goes(p, Unconverted(row[o].kind))
    /\ UNCHANGED <<row, acct, fills, outsideVars>>

(* confirm_swap_quotation, sent once: taken, refused, or no usable answer. *)
confirm_swap_quotation(p) ==
    LET o == job[p].o
        becomes(c) == conversion' = [conversion EXCEPT ![o][job[p].n] = c]
    IN
    /\ IsAt(p, "confirm")
    /\ \/ becomes("processing") /\ (Goes(p, "confirmed") \/ Goes(p, "flag"))
       \/ becomes("refused") /\ Goes(p, Unconverted(row[o].kind))
       \/ becomes("lost") /\ Goes(p, "flag")
    /\ UNCHANGED <<row, acct, fills, outsideVars>>

StoreSwapId(p) ==
    /\ IsAt(p, "confirmed")
    /\ row' = [row EXCEPT ![job[p].o].swap = job[p].n]
    /\ Goes(p, "await")
    /\ UNCHANGED <<acct, quidaxVars, outsideVars>>

(* Polled for a while; a result that is not there, or that cannot be       *)
(* stored, is left to the webhook and to reconciliation.                   *)
_await_swap(p) ==
    LET o == job[p].o IN
    /\ IsAt(p, "await")
    /\ \/ conversion[o][job[p].n] \in Ended /\ Goes(p, Outcome(o, job[p].n))
       \/ Ends(p)
    /\ UNCHANGED <<row, acct, quidaxVars, outsideVars>>

-----------------------------------------------------------------------------
(* Results.                                                                *)

(* _release_instant_swap without its look at the status. *)
MutReleaseInstantSwap(p) ==
    LET o == job[p].o IN
    /\ IsAt(p, "giveback")
    /\ row' = [row EXCEPT ![o].status = "FAILED", ![o].needs_review = FALSE]
    /\ acct' = [acct EXCEPT ![o].hold = @ - 1]
    /\ Ends(p)
    /\ UNCHANGED <<quidaxVars, outsideVars>>

_release_instant_swap(p) ==
    LET o == job[p].o IN
    /\ IsAt(p, "giveback")
    /\ \/ Closed(o) /\ UNCHANGED <<row, acct>>
       \/ /\ ~Closed(o)
          /\ row' = [row EXCEPT ![o].status = "FAILED", ![o].needs_review = FALSE]
          /\ acct' = [acct EXCEPT ![o].hold = @ - 1]
    /\ Ends(p)
    /\ UNCHANGED <<quidaxVars, outsideVars>>

(* Whatever the status. *)
MutCredits(p, debit) ==
    LET o == job[p].o IN
    /\ row' = [row EXCEPT ![o].status = "COMPLETED", ![o].needs_review = FALSE,
                          ![o].swap = IF job[p].n > 0 THEN job[p].n ELSE @]
    /\ acct' = [acct EXCEPT ![o].hold = @ - debit, ![o].got = @ + 1]
    /\ Ends(p)
    /\ UNCHANGED <<quidaxVars, outsideVars>>

(* What was delivered is credited, once; debit: of the source coins. *)
Credits(p, debit) ==
    LET o == job[p].o IN
    /\ \/ Closed(o) /\ UNCHANGED <<row, acct>>
       \/ /\ ~Closed(o)
          /\ row' = [row EXCEPT ![o].status = "COMPLETED", ![o].needs_review = FALSE,
                                ![o].swap = IF job[p].n > 0 THEN job[p].n ELSE @]
          /\ acct' = [acct EXCEPT ![o].hold = @ - debit, ![o].got = @ + 1]
    /\ Ends(p)
    /\ UNCHANGED <<quidaxVars, outsideVars>>

_finalize_instant_swap(p) ==
    IsAt(p, "converted") /\ row[job[p].o].kind = "instantswap" /\ Credits(p, 1)

_finalize_instant_buy(p) ==
    IsAt(p, "converted") /\ row[job[p].o].kind = "instantbuy" /\ Credits(p, 0)

_finalize_swap_buy_leg(p) ==
    IsAt(p, "converted") /\ row[job[p].o].kind = "legswap" /\ Credits(p, 0)

(* A report without a usable amount; an admin's word has one. *)
Unusable(p) ==
    /\ IsAt(p, "converted") /\ job[p].n > 0
    /\ Goes(p, "flag")
    /\ UNCHANGED <<row, acct, quidaxVars, outsideVars>>

-----------------------------------------------------------------------------
(* Reports.                                                                *)

Reported(p, o, n) ==
    /\ Starts(p, Job(Outcome(o, n), o, n, FALSE, "report"))
    /\ row' = IF row[o].swap = 0 THEN [row EXCEPT ![o].swap = n] ELSE row
    /\ UNCHANGED <<acct, quidaxVars>>

(* The order is found by the swap's id or the quotation's; the status is   *)
(* read without a lock.                                                    *)
handle_swap_webhook(p, o, n) ==
    /\ conversion[o][n] \in Ended
    /\ n \in {row[o].swap, row[o].quotation}
    /\ row[o].status = "PROCESSING"
    /\ Reported(p, o, n)
    /\ UNCHANGED outsideVars

(* The swap that reconciliation asks for, or 0. *)
Stored(o) == IF row[o].swap > 0 THEN row[o].swap ELSE row[o].quotation

(* Only swaps whose id is stored are asked for. *)
MutReconcile(p, o) ==
    LET n == row[o].swap IN
    /\ row[o].status = "PROCESSING" /\ _is_instant(o)
    /\ n > 0 /\ conversion[o][n] \in Ended /\ Reported(p, o, n)

(* With no id to ask for, it gives the source back. *)
reconcile_instant_swap(p, o) ==
    LET n == Stored(o) IN
    /\ row[o].status = "PROCESSING" /\ _is_instant(o)
    /\ IF n > 0 THEN conversion[o][n] \in Ended /\ Reported(p, o, n)
       ELSE /\ Starts(p, Job("giveback", o, 0, FALSE, "report"))
            /\ UNCHANGED <<row, acct, quidaxVars>>

(* The Procfile worker, once the order is a minute old: gunicorn has ended *)
(* the request that made it by then.                                       *)
reconcile_due_instant_swaps(o) ==
    /\ ~Placing(o)
    /\ reconcile_instant_swap(Settler, o)
    /\ UNCHANGED outsideVars

(* An admin, at any time. *)
admin_check_instant_swap(p, o) ==
    /\ reconcile_instant_swap(p, o)
    /\ past' = [past EXCEPT ![o].overlap = @ \/ Requested(o)]
    /\ UNCHANGED <<external, crashes>>

InstantStep(p) ==
    \/ _execute_instant_swap(p) \/ _execute_instant_buy(p)
    \/ _execute_swap_buy_leg_instant(p)
    \/ _finalize_instant_swap(p) \/ _finalize_instant_buy(p) \/ _finalize_swap_buy_leg(p)
    \/ confirm_swap_quotation(p) \/ StoreSwapId(p) \/ _await_swap(p)
    \/ _release_instant_swap(p) \/ Unusable(p)

(* Quidax converts, or not. *)
QuidaxConverts(o, n) ==
    /\ conversion[o][n] = "processing"
    /\ \E c \in Ended : conversion' = [conversion EXCEPT ![o][n] = c]
    /\ UNCHANGED <<row, acct, fills, outsideVars, job>>
=============================================================================
