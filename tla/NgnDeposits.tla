---------------------------- MODULE NgnDeposits ----------------------------
(***************************************************************************)
(* Deposits into the NGN wallet: initiate_deposit, verify_payment and the  *)
(* charge.completed webhook, with Flutterwave's checkout as environment.   *)
(***************************************************************************)
EXTENDS NgnLedger

CONSTANTS
    Deposits,    \* tx_refs of deposits
    MinDeposit,  \* MIN_DEPOSIT
    MaxCredits   \* bound: a deposit credited this often is not verified again

ASSUME DepositAssumption ==
    /\ Deposits \subseteq Transactions
    /\ MinDeposit \in Nat
    /\ MaxCredits \in Nat

VARIABLES
    dst,      \* Transaction.status of each deposit, "none" before its row exists
    charge,   \* Flutterwave's charge: unpaid, paid, or paid short of the amount
    credits,  \* history: how often the amount was credited
    reopened  \* history: how often a COMPLETED row was overwritten with FAILED

depositVars == <<dst, charge, credits, reopened>>

DepositInit ==
    /\ dst = [d \in Deposits |-> "none"]
    /\ charge = [d \in Deposits |-> "unpaid"]
    /\ credits = [d \in Deposits |-> 0]
    /\ reopened = [d \in Deposits |-> 0]

-----------------------------------------------------------------------------
(* initiate_deposit: one transaction; a used tx_ref is refused. *)
initiate_deposit(d) ==
    /\ dst[d] = "none"
    /\ Amount[d] >= MinDeposit
    /\ dst' = [dst EXCEPT ![d] = "PENDING"]
    /\ UNCHANGED <<ledgerVars, charge, credits, reopened>>

(* verify_payment reads the row without a lock, returns if it is COMPLETED *)
(* and otherwise asks Flutterwave.                                         *)
verify_payment(p, d) ==
    /\ job[p] = Idle
    /\ dst[d] \in {"PENDING", "FAILED"}
    /\ credits[d] < MaxCredits
    /\ SetJob(p, Job("verify", d, ""))
    /\ UNCHANGED <<balance, outside, crashes, depositVars>>

(* Flutterwave's answer decides: credit, mark FAILED, or, if it could not  *)
(* be reached, neither.                                                    *)
VerifyAnswer(p) ==
    LET d == job[p].tx IN
    /\ IsAt(p, "verify")
    /\ \/ charge[d] = "paid" /\ SetJob(p, Job("credit", d, ""))
       \/ charge[d] # "paid" /\ SetJob(p, Job("deny", d, ""))
       \/ SetJob(p, Idle)
    /\ UNCHANGED <<balance, outside, crashes, depositVars>>

(* tx.save(status=FAILED) on the row read before the call: no lock, no     *)
(* second look at the status.                                              *)
MarkFailed(p) ==
    LET d == job[p].tx IN
    /\ IsAt(p, "deny")
    /\ dst' = [dst EXCEPT ![d] = "FAILED"]
    /\ reopened' = [reopened EXCEPT ![d] = IF dst[d] = "COMPLETED" THEN @ + 1 ELSE @]
    /\ SetJob(p, Idle)
    /\ UNCHANGED <<balance, outside, crashes, charge, credits>>

(* handle_deposit_webhook up to its unlocked check.  The view lets only    *)
(* successful charges through; their amount is not compared.               *)
DepositWebhook(p, d) ==
    /\ job[p] = Idle
    /\ charge[d] \in {"paid", "short"}
    /\ dst[d] \in {"PENDING", "FAILED"}
    /\ SetJob(p, Job("credit", d, ""))
    /\ UNCHANGED <<balance, outside, crashes, depositVars>>

CreditDeposit(d) ==
    /\ Credit(Owner[d], Amount[d])
    /\ Outside(Owner[d], Amount[d])
    /\ dst' = [dst EXCEPT ![d] = "COMPLETED"]
    /\ credits' = [credits EXCEPT ![d] = @ + 1]

(* The credit trusting the unlocked check. *)
MutCreditUnchecked(p) ==
    /\ IsAt(p, "credit")
    /\ CreditDeposit(job[p].tx)
    /\ SetJob(p, Idle)
    /\ UNCHANGED <<crashes, charge, reopened>>

(* A credit that takes only PENDING rows, as the refund does. *)
MutCreditOnlyPending(p) ==
    LET d == job[p].tx IN
    /\ IsAt(p, "credit")
    /\ \/ dst[d] = "PENDING" /\ CreditDeposit(d)
       \/ dst[d] # "PENDING" /\ UNCHANGED <<balance, outside, dst, credits>>
    /\ SetJob(p, Idle)
    /\ UNCHANGED <<crashes, charge, reopened>>

(* _credit_wallet_for_deposit: lock the row, look again, credit and set    *)
(* COMPLETED in one transaction.  A FAILED row is credited too.            *)
_credit_wallet_for_deposit(p) ==
    LET d == job[p].tx IN
    /\ IsAt(p, "credit")
    /\ \/ dst[d] # "COMPLETED" /\ CreditDeposit(d)
       \/ dst[d] = "COMPLETED" /\ UNCHANGED <<balance, outside, dst, credits>>
    /\ SetJob(p, Idle)
    /\ UNCHANGED <<crashes, charge, reopened>>

(* Flutterwave: the customer pays at the checkout, in full or short. *)
FlwCharge(d, c) ==
    /\ dst[d] # "none"
    /\ charge[d] = "unpaid"
    /\ charge' = [charge EXCEPT ![d] = c]
    /\ UNCHANGED <<ledgerVars, dst, credits, reopened>>

DepositStepOf(p) == VerifyAnswer(p) \/ MarkFailed(p) \/ _credit_wallet_for_deposit(p)

DepositNext ==
    \/ \E d \in Deposits : initiate_deposit(d)
    \/ \E p \in WebWorkers, d \in Deposits : verify_payment(p, d) \/ DepositWebhook(p, d)
    \/ \E p \in WebWorkers : DepositStepOf(p)
    \/ \E d \in Deposits, c \in {"paid", "short"} : FlwCharge(d, c)

DepositTypeOK ==
    /\ dst \in [Deposits -> {"none", "PENDING", "COMPLETED", "FAILED"}]
    /\ charge \in [Deposits -> {"unpaid", "paid", "short"}]
    /\ credits \in [Deposits -> Nat]
    /\ reopened \in [Deposits -> Nat]
=============================================================================
