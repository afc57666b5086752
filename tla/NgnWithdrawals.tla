--------------------------- MODULE NgnWithdrawals ---------------------------
(***************************************************************************)
(* Bank withdrawals from the NGN wallet: request_withdrawal, the           *)
(* transfer.completed webhook and reconcile_pending_withdrawals, with      *)
(* Flutterwave as their environment.                                       *)
(***************************************************************************)
EXTENDS NgnLedger

CONSTANTS
    Withdrawals,    \* references of withdrawals
    MinWithdrawal,  \* MIN_WITHDRAWAL
    Buried          \* withdrawals whose transfer is past the tenth page of GET /transfers

ASSUME WithdrawalAssumption ==
    /\ Withdrawals \subseteq Transactions
    /\ Buried \subseteq Withdrawals
    /\ MinWithdrawal \in Nat

VARIABLES
    wst,         \* Transaction.status of each withdrawal, "none" before its row exists
    hasId,       \* is Transaction.flw_transfer_id stored?
    transfer,    \* Flutterwave's side of POST /transfers
    refunds,     \* history: how often the amount was credited back
    refundedBy   \* history: which path credited it back

withdrawalVars == <<wst, hasId, transfer, refunds, refundedBy>>

Final == {"SUCCESSFUL", "FAILED"}
Recorded == {"NEW"} \cup Final
HasRecord(w) == transfer[w] \in Recorded

-----------------------------------------------------------------------------
WithdrawalInit ==
    /\ wst = [w \in Withdrawals |-> "none"]
    /\ hasId = [w \in Withdrawals |-> FALSE]
    /\ transfer = [w \in Withdrawals |-> "unsent"]
    /\ refunds = [w \in Withdrawals |-> 0]
    /\ refundedBy = [w \in Withdrawals |-> "nobody"]

(* Validation, then _debit_and_create_withdrawal: the debit and the        *)
(* PENDING row commit together.  The transfer request goes out next.       *)
request_withdrawal(p, w) ==
    /\ job[p] = Idle
    /\ wst[w] = "none"
    /\ Amount[w] >= MinWithdrawal
    /\ Debit(Owner[w], Amount[w])
    /\ wst' = [wst EXCEPT ![w] = "PENDING"]
    /\ transfer' = [transfer EXCEPT ![w] = "sent"]
    /\ SetJob(p, Job("transfer", w, ""))
    /\ UNCHANGED <<outside, crashes, hasId, refunds, refundedBy>>

(* initiate_transfer answered "success"; the id is stored if there is one. *)
TransferAccepted(p) ==
    LET w == job[p].tx IN
    /\ IsAt(p, "transfer")
    /\ HasRecord(w)
    /\ \E id \in BOOLEAN : hasId' = [hasId EXCEPT ![w] = @ \/ id]
    /\ SetJob(p, Idle)
    /\ UNCHANGED <<balance, outside, crashes, wst, transfer, refunds, refundedBy>>

(* A definite refusal, or a FlutterwaveError: the request timed out, the   *)
(* connection broke or the answer was a 5xx or not JSON, whatever          *)
(* Flutterwave made of the request.  Both lead to _refund_and_fail.        *)
TransferNotConfirmed(p) ==
    /\ IsAt(p, "transfer")
    /\ SetJob(p, Job("refund", job[p].tx, ""))
    /\ UNCHANGED <<balance, outside, crashes, withdrawalVars>>

(* The refund without the status check under the lock. *)
MutRefundUnchecked(w, by) ==
    /\ Credit(Owner[w], Amount[w])
    /\ wst' = [wst EXCEPT ![w] = "FAILED"]
    /\ refunds' = [refunds EXCEPT ![w] = @ + 1]
    /\ refundedBy' = [refundedBy EXCEPT ![w] = by]

(* _refund_and_fail: the row is locked and re-read; nothing happens unless *)
(* it is still PENDING.                                                    *)
_refund_and_fail(w, by) ==
    \/ /\ wst[w] = "PENDING"
       /\ Credit(Owner[w], Amount[w])
       /\ wst' = [wst EXCEPT ![w] = "FAILED"]
       /\ refunds' = [refunds EXCEPT ![w] = @ + 1]
       /\ refundedBy' = [refundedBy EXCEPT ![w] = by]
    \/ /\ wst[w] # "PENDING"
       /\ UNCHANGED <<balance, wst, refunds, refundedBy>>

RequestRefund(p) ==
    /\ IsAt(p, "refund")
    /\ _refund_and_fail(job[p].tx, "request")
    /\ SetJob(p, Idle)
    /\ UNCHANGED <<outside, crashes, hasId, transfer>>

-----------------------------------------------------------------------------
(* Anything that is not SUCCESSFUL taken for a failure. *)
MutTransferJobElseFailed(w, status) ==
    IF wst[w] = "PENDING"
    THEN Job("settle", w, IF status = "SUCCESSFUL" THEN status ELSE "FAILED")
    ELSE Idle

(* handle_transfer_webhook up to its unlocked status check: only a PENDING *)
(* row and a final status get past it.                                     *)
TransferJob(w, status) ==
    IF wst[w] = "PENDING" /\ status \in Final THEN Job("settle", w, status) ELSE Idle

(* Flutterwave delivers transfer.completed once the transfer is final, any *)
(* number of times and as late as it likes.                                *)
TransferWebhook(p, w) ==
    /\ job[p] = Idle
    /\ transfer[w] \in Final
    /\ wst[w] = "PENDING"
    /\ SetJob(p, TransferJob(w, transfer[w]))
    /\ UNCHANGED <<balance, outside, crashes, withdrawalVars>>

(* Settling on the status seen before the lock was taken. *)
MutSettleUnlocked(p) ==
    LET w == job[p].tx IN
    /\ IsAt(p, "settle")
    /\ \/ /\ job[p].says = "SUCCESSFUL"
          /\ wst' = [wst EXCEPT ![w] = "COMPLETED"]
          /\ UNCHANGED <<balance, refunds, refundedBy>>
       \/ /\ job[p].says = "FAILED"
          /\ _refund_and_fail(w, "report")
    /\ SetJob(p, Idle)
    /\ UNCHANGED <<outside, crashes, hasId, transfer>>

(* The rest of handle_transfer_webhook: lock, check again, settle. *)
SettleTransfer(p) ==
    LET w == job[p].tx IN
    /\ IsAt(p, "settle")
    /\ \/ /\ job[p].says = "SUCCESSFUL"
          /\ wst' = [wst EXCEPT ![w] = IF @ = "PENDING" THEN "COMPLETED" ELSE @]
          /\ UNCHANGED <<balance, refunds, refundedBy>>
       \/ /\ job[p].says = "FAILED"
          /\ _refund_and_fail(w, "report")
    /\ SetJob(p, Idle)
    /\ UNCHANGED <<outside, crashes, hasId, transfer>>

(* A reconciliation that asks only for the stored id. *)
MutReconcileById(p, w) ==
    /\ job[p] = Idle
    /\ wst[w] = "PENDING"
    /\ HasRecord(w)
    /\ hasId[w]
    /\ SetJob(p, Job("fetched", w, transfer[w]))
    /\ UNCHANGED <<balance, outside, crashes, withdrawalVars>>

(* One row of reconcile_pending_withdrawals: a PENDING row is looked up at *)
(* Flutterwave, by its id or else by its reference in the first ten pages, *)
(* and a newly learnt id is stored.  No record: the row is left alone.     *)
(* The row may settle before the loop reaches it; ApplyFetched re-reads.   *)
Reconcile(p, w) ==
    /\ job[p] = Idle
    /\ wst[w] = "PENDING"
    /\ HasRecord(w)
    /\ hasId[w] \/ w \notin Buried
    /\ hasId' = [hasId EXCEPT ![w] = TRUE]
    /\ SetJob(p, Job("fetched", w, transfer[w]))
    /\ UNCHANGED <<balance, outside, crashes, wst, transfer, refunds, refundedBy>>

(* The reconciler hands the answer to handle_transfer_webhook. *)
ApplyFetched(p) ==
    /\ IsAt(p, "fetched")
    /\ SetJob(p, TransferJob(job[p].tx, job[p].says))
    /\ UNCHANGED <<balance, outside, crashes, withdrawalVars>>

-----------------------------------------------------------------------------
(* Flutterwave: a request on the wire is accepted or refused, even after   *)
(* the caller gave up on it, or is lost; an accepted transfer ends once.   *)
FlwAnswers(w, t) ==
    /\ \/ transfer[w] = "sent" /\ t \in {"NEW", "refused"}
       \/ transfer[w] = "NEW" /\ t \in Final
    /\ transfer' = [transfer EXCEPT ![w] = t]
    /\ UNCHANGED <<ledgerVars, wst, hasId, refunds, refundedBy>>

WithdrawalStepOf(p) ==
    \/ TransferAccepted(p) \/ TransferNotConfirmed(p) \/ RequestRefund(p)
    \/ SettleTransfer(p) \/ ApplyFetched(p)

WithdrawalNext ==
    \/ \E p \in WebWorkers, w \in Withdrawals : request_withdrawal(p, w) \/ TransferWebhook(p, w)
    \/ \E p \in Procs, w \in Withdrawals : Reconcile(p, w)
    \/ \E p \in Procs : WithdrawalStepOf(p)
    \/ \E w \in Withdrawals, t \in Recorded \cup {"refused"} : FlwAnswers(w, t)

WithdrawalTypeOK ==
    /\ wst \in [Withdrawals -> {"none", "PENDING", "COMPLETED", "FAILED"}]
    /\ hasId \in [Withdrawals -> BOOLEAN]
    /\ transfer \in [Withdrawals -> {"unsent", "sent", "refused"} \cup Recorded]
    /\ refunds \in [Withdrawals -> Nat]
    /\ refundedBy \in [Withdrawals -> {"nobody", "request", "report"}]
=============================================================================
