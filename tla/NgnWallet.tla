----------------------------- MODULE NgnWallet -----------------------------
(***************************************************************************)
(* The whole NGN wallet: deposits, withdrawals and the debits and credits  *)
(* of the other apps, on the same wallet rows and by the same processes.   *)
(***************************************************************************)
EXTENDS NgnDeposits, NgnWithdrawals, FiniteSetsExt

ASSUME WalletAssumption == Deposits \cap Withdrawals = {}

vars == <<ledgerVars, depositVars, withdrawalVars>>

Init == LedgerInit /\ DepositInit /\ WithdrawalInit

Next ==
    \/ LedgerStep /\ UNCHANGED <<depositVars, withdrawalVars>>
    \/ DepositNext /\ UNCHANGED withdrawalVars
    \/ WithdrawalNext /\ UNCHANGED depositVars

Spec == Init /\ [][Next]_vars

(* A process goes on with its request until it is killed; the Settler's    *)
(* loop visits every row of its list again and again; Flutterwave repeats  *)
(* charge.completed until a worker has handled it.  Users, the transfer    *)
(* webhook and Flutterwave's decisions are not fair.                       *)
Fairness ==
    /\ \A p \in Procs :
         WF_vars((DepositStepOf(p) /\ UNCHANGED withdrawalVars)
                 \/ (WithdrawalStepOf(p) /\ UNCHANGED depositVars))
    /\ \A w \in Withdrawals : SF_vars(Reconcile(Settler, w) /\ UNCHANGED depositVars)
    /\ \A d \in Deposits :
         SF_vars(\E p \in WebWorkers : DepositWebhook(p, d) /\ UNCHANGED withdrawalVars)

FairSpec == Spec /\ Fairness

-----------------------------------------------------------------------------
(* Every variable keeps its type; a balance is never negative. *)
TypeOK == LedgerTypeOK /\ DepositTypeOK /\ WithdrawalTypeOK

(* A withdrawal is credited back exactly when it is FAILED, and then once, *)
(* however the request's error path, webhooks and reconciliations race.    *)
RefundedOnceIffFailed ==
    \A w \in Withdrawals : refunds[w] = IF wst[w] = "FAILED" THEN 1 ELSE 0

(* COMPLETED means Flutterwave paid out; a refund on a webhook's or a      *)
(* reconciliation's word means the transfer failed there.                  *)
ReportsAreTrue ==
    \A w \in Withdrawals :
        /\ wst[w] = "COMPLETED" => transfer[w] = "SUCCESSFUL"
        /\ refundedBy[w] = "report" => transfer[w] = "FAILED"

(* A deposit is credited once, and once more only after a verify_payment   *)
(* that lost a race overwrote COMPLETED with FAILED.                       *)
CreditsMatchReopenings ==
    \A d \in Deposits :
        credits[d] = reopened[d] + IF dst[d] = "COMPLETED" THEN 1 ELSE 0

(* No deposit is credited before Flutterwave has a successful charge. *)
CreditNeedsCharge ==
    \A d \in Deposits : credits[d] > 0 => charge[d] # "unpaid"

(* No money is made or lost: what a wallet holds, and what its pending and *)
(* paid withdrawals took, is what came in by deposits and the other apps.  *)
MoneyConserved ==
    \A u \in Users :
        LET taken == {w \in Withdrawals :
                        Owner[w] = u /\ wst[w] \in {"PENDING", "COMPLETED"}}
        IN  balance[u] + MapThenSumSet(LAMBDA w : Amount[w], taken) = outside[u]

-----------------------------------------------------------------------------
(* Withdrawals implement the escrow: the debit places, COMPLETED captures, *)
(* FAILED releases.  Deposits and the other apps are the elsewhere.        *)
HoldOf(w) ==
    CASE wst[w] = "none" -> "open"
      [] wst[w] = "PENDING" -> "held"
      [] wst[w] = "COMPLETED" -> "captured"
      [] wst[w] = "FAILED" -> "released"

WithdrawalEscrow == INSTANCE Escrow WITH
    Operations <- Withdrawals,
    hold <- [w \in Withdrawals |-> HoldOf(w)]

(* Every behaviour of the wallet is one of the escrow's. *)
WithdrawalsAreEscrowed == WithdrawalEscrow!EscrowSpec

(* A transfer that Flutterwave ended, and that can be looked up, settles   *)
(* its withdrawal even when no webhook ever comes.                         *)
EndedTransferSettles ==
    \A w \in Withdrawals :
        (transfer[w] \in Final /\ (hasId[w] \/ w \notin Buried)) ~> wst[w] # "PENDING"

(* A charge the customer paid is credited in the end, whatever             *)
(* verify_payment made of it before.                                       *)
PaidChargeIsCredited ==
    \A d \in Deposits : (charge[d] # "unpaid") ~> (credits[d] > 0)

-----------------------------------------------------------------------------
(* The inductive invariant: besides the invariants above, every process is *)
(* at a step of a row of the right kind, what Flutterwave told it is still *)
(* so, and a row that does not exist yet has no past.                      *)
JobFits(j) ==
    /\ j.at = "idle" => j = Idle
    /\ j.at \in {"transfer", "refund", "fetched", "settle"} => j.tx \in Withdrawals
    /\ j.at \in {"verify", "credit", "deny"} => j.tx \in Deposits

AnswerHolds(j) ==
    /\ j.at = "settle" => j.says \in Final
    /\ j.at \in {"fetched", "settle"} /\ j.says \in Final => transfer[j.tx] = j.says
    /\ j.at = "credit" => charge[j.tx] # "unpaid"

JobsOK == \A p \in Procs : JobFits(job[p]) /\ AnswerHolds(job[p])

FreshWithdrawal ==
    \A w \in Withdrawals :
        wst[w] = "none" => transfer[w] = "unsent" /\ refundedBy[w] = "nobody"

IInv ==
    /\ TypeOK
    /\ JobsOK
    /\ FreshWithdrawal
    /\ RefundedOnceIffFailed
    /\ ReportsAreTrue
    /\ CreditsMatchReopenings
    /\ CreditNeedsCharge

-----------------------------------------------------------------------------
(* What the module docstring says of deposits (lines 3-6 and 161): the     *)
(* credit happens once.  The code breaks it.                               *)
CreditedAtMostOnce == \A d \in Deposits : credits[d] <= 1

(* What lines 326-328 say of refunds: a transfer that may still pay out is *)
(* not refunded automatically.  The code breaks it.                        *)
NeverPaidOutAndRefunded ==
    \A w \in Withdrawals : ~(transfer[w] = "SUCCESSFUL" /\ refunds[w] > 0)
=============================================================================
