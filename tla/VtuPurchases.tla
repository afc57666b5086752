---------------------------- MODULE VtuPurchases ----------------------------
(***************************************************************************)
(* Airtime, data, cable and electricity bought from PluginNG               *)
(* (vtu/services.py).  The wallet is debited in one transaction, the row   *)
(* created in the next, and PluginNG asked after that.  Nothing polls: the *)
(* answer, the webhook or the buyer's own requery settles a purchase.      *)
(***************************************************************************)
EXTENDS PurchaseBook

CONSTANTS
    VtuPurchases,  \* references of VTUTransaction rows
    MIN_AIRTIME, MAX_AIRTIME,
    MIN_ELECTRICITY, MAX_ELECTRICITY

ASSUME VtuAssumption == VtuPurchases \subseteq Purchases

(* debit_wallet of a purchase that passed its checks. *)
VtuDebit(p, v) ==
    /\ Charges(p, v, "record")
    /\ UNCHANGED <<outside, crashes, st, order, refunds, guessed, killed>>

buy_airtime(p, v) == Amount[v] \in MIN_AIRTIME..MAX_AIRTIME /\ VtuDebit(p, v)
buy_electricity(p, v) == Amount[v] \in MIN_ELECTRICITY..MAX_ELECTRICITY /\ VtuDebit(p, v)

(* Their price is the catalogue's, not the buyer's. *)
buy_data(p, v) == VtuDebit(p, v)
buy_cable(p, v) == VtuDebit(p, v)

_create_pending_tx(p, v) ==
    /\ IsAt(p, "record") /\ job[p].tx = v
    /\ Records(v)
    /\ SetJob(p, Job("send", v, ""))
    /\ UNCHANGED <<balance, outside, crashes, historyVars>>

(* PLUGINNG_STATUS_MAP with an unknown status taken for a failure. *)
MutStatusElseFailed(says) == IF says = "done" THEN "COMPLETED" ELSE "FAILED"

(* PLUGINNG_STATUS_MAP: "1" is success, "4" failed, "2" reversed; "0" and  *)
(* anything else leaves the purchase PENDING.                              *)
PLUGINNG_STATUS_MAP(says) ==
    CASE says = "done" -> "COMPLETED" [] says \in Undone -> "FAILED" [] OTHER -> "PENDING"

(* The provider's status saved as it is, without the refund of a failure. *)
MutSaveStatus(p, v) ==
    /\ IsAt(p, "apply") /\ job[p].tx = v
    /\ st' = IF st[v] = "PENDING" THEN [st EXCEPT ![v] = PLUGINNG_STATUS_MAP(job[p].says)] ELSE st
    /\ SetJob(p, Idle)
    /\ UNCHANGED <<balance, outside, crashes, order, historyVars>>

(* Under the row's lock, and only if it is PENDING. *)
_apply_provider_result(p, v) ==
    LET status == PLUGINNG_STATUS_MAP(job[p].says) IN
    /\ IsAt(p, "apply") /\ job[p].tx = v
    /\ \/ status = "FAILED" /\ _refund_and_fail(v, job[p].says)
       \/ /\ status # "FAILED"
          /\ st' = IF st[v] = "PENDING" THEN [st EXCEPT ![v] = status] ELSE st
          /\ UNCHANGED <<balance, refunds, guessed>>
    /\ SetJob(p, Idle)
    /\ UNCHANGED <<outside, crashes, order, paid, killed>>

(* The buyer asks PluginNG; an error changes nothing. *)
requery_transaction(p, v) == Hears(p, v, Ended)

(* PluginNG's webhook, whose payload is applied as it came. *)
handle_vtu_webhook(p, v) == Hears(p, v, Ended)

VtuRequest(p, v) ==
    \/ buy_airtime(p, v) \/ buy_data(p, v) \/ buy_cable(p, v) \/ buy_electricity(p, v)
    \/ requery_transaction(p, v) \/ handle_vtu_webhook(p, v)

VtuStepOf(p, v) ==
    \/ _create_pending_tx(p, v)
    \/ Answered(p, v) \/ Unanswered(p, v)
    \/ _apply_provider_result(p, v)
=============================================================================
