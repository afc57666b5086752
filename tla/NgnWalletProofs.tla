-------------------------- MODULE NgnWalletProofs --------------------------
(***************************************************************************)
(* The wallet's invariants and its refinement of the escrow, for any       *)
(* users, references, amounts, processes and bounds.  One lemma per kind   *)
(* of step: of the other apps and crashes, of deposits, of withdrawals.    *)
(***************************************************************************)
EXTENDS NgnWallet, Sums

USE DEF ledgerVars, depositVars, withdrawalVars

(* The idle job is at no row's step. *)
LEMMA IdleFacts == Idle \in Jobs /\ Idle.at = "idle"
BY DEF Idle, Job, Jobs, Steps, WalletSteps, Answers, FlutterwaveAnswers

(* Any other step, row and answer make a job, which has them back. *)
LEMMA JobFacts ==
    ASSUME NEW at \in {"transfer", "refund", "fetched", "settle", "verify", "credit", "deny"},
           NEW tx \in Transactions, NEW says \in Answers
    PROVE  /\ Job(at, tx, says) \in Jobs
           /\ Job(at, tx, says).at = at
           /\ Job(at, tx, says).tx = tx
           /\ Job(at, tx, says).says = says
BY DEF Job, Jobs, Steps, WalletSteps, Answers, FlutterwaveAnswers

(* A process that takes up a job that fits keeps JobsOK, as long as what   *)
(* Flutterwave has answered does not change.                               *)
LEMMA SetJobOK ==
    ASSUME LedgerTypeOK, JobsOK, NEW p \in Procs, NEW j \in Jobs,
           SetJob(p, j), JobFits(j), AnswerHolds(j),
           UNCHANGED <<transfer, charge>>
    PROVE  JobsOK' /\ job' \in [Procs -> Jobs]
<1>1. job' \in [Procs -> Jobs]
    BY DEF LedgerTypeOK, SetJob
<1>2. ASSUME NEW q \in Procs PROVE JobFits(job'[q]) /\ AnswerHolds(job'[q])
    BY DEF LedgerTypeOK, SetJob, JobsOK
<1>3. QED
    BY <1>1, <1>2 DEF JobsOK, JobFits, AnswerHolds

(* The same for a request that ends. *)
LEMMA SetIdleOK ==
    ASSUME LedgerTypeOK, JobsOK, NEW p \in Procs, SetJob(p, Idle),
           UNCHANGED <<transfer, charge>>
    PROVE  JobsOK' /\ job' \in [Procs -> Jobs]
<1>1. JobFits(Idle) /\ AnswerHolds(Idle)
    BY IdleFacts DEF JobFits, AnswerHolds
<1>2. QED
    BY <1>1, IdleFacts, SetJobOK

(* The initial state satisfies the inductive invariant. *)
LEMMA InitInv == Init => IInv
<1> SUFFICES ASSUME Init PROVE IInv
    OBVIOUS
<1> USE LedgerAssumption DEF Init, LedgerInit, DepositInit, WithdrawalInit
<1>1. \A p \in Procs : job[p] = Idle
    OBVIOUS
<1>2. LedgerTypeOK
    BY <1>1, IdleFacts DEF LedgerTypeOK
<1>3. DepositTypeOK /\ WithdrawalTypeOK
    BY DEF DepositTypeOK, WithdrawalTypeOK
<1>4. JobsOK
    BY <1>1, IdleFacts DEF JobsOK, JobFits, AnswerHolds
<1>5. QED
    BY <1>2, <1>3, <1>4 DEF IInv, TypeOK, FreshWithdrawal, RefundedOnceIffFailed,
       ReportsAreTrue, CreditsMatchReopenings, CreditNeedsCharge

(* A debit or credit of another app, or a crash, keeps the invariant. *)
LEMMA LedgerStepInv ==
    ASSUME IInv, LedgerStep, UNCHANGED <<depositVars, withdrawalVars>>
    PROVE  IInv'
<1> USE LedgerAssumption DEF IInv, TypeOK
<1>1. ASSUME NEW u \in Users, NEW a \in AppAmounts,
             debit_wallet(u, a) \/ credit_wallet(u, a)
      PROVE  LedgerTypeOK' /\ JobsOK'
    <2>1. LedgerTypeOK' /\ UNCHANGED job
        BY <1>1 DEF debit_wallet, credit_wallet, Debit, HasFunds, Credit, Outside, LedgerTypeOK
    <2>2. QED
        BY <2>1 DEF JobsOK, JobFits, AnswerHolds
<1>2. ASSUME NEW p \in Procs, Crash(p)
      PROVE  LedgerTypeOK' /\ JobsOK'
    <2>1. SetJob(p, Idle) /\ UNCHANGED <<balance, outside>>
        BY <1>2 DEF Crash
    <2>2. JobsOK' /\ job' \in [Procs -> Jobs]
        BY <2>1, SetIdleOK
    <2>3. crashes' \in 0..MaxCrashes
        BY <1>2 DEF Crash, LedgerTypeOK
    <2>4. QED
        BY <2>1, <2>2, <2>3 DEF LedgerTypeOK
<1>3. LedgerTypeOK' /\ JobsOK'
    BY <1>1, <1>2 DEF LedgerStep
<1>4. QED
    BY <1>3 DEF DepositTypeOK, WithdrawalTypeOK, FreshWithdrawal, RefundedOnceIffFailed,
           ReportsAreTrue, CreditsMatchReopenings, CreditNeedsCharge

(* What the deposit actions leave alone of the invariant. *)
LEMMA DepositFrame ==
    ASSUME IInv, UNCHANGED withdrawalVars,
           LedgerTypeOK', DepositTypeOK', JobsOK', CreditsMatchReopenings', CreditNeedsCharge'
    PROVE  IInv'
BY DEF IInv, TypeOK, WithdrawalTypeOK, FreshWithdrawal, RefundedOnceIffFailed, ReportsAreTrue

(* What a request does between its own steps and commits alone keeps the   *)
(* deposits' part of the invariant.                                        *)
LEMMA DepositJobInv ==
    ASSUME IInv, UNCHANGED <<balance, outside, crashes, depositVars, withdrawalVars>>,
           job' \in [Procs -> Jobs], JobsOK'
    PROVE  IInv'
<1>1. LedgerTypeOK' /\ DepositTypeOK' /\ CreditsMatchReopenings' /\ CreditNeedsCharge'
    BY DEF IInv, TypeOK, LedgerTypeOK, DepositTypeOK, CreditsMatchReopenings, CreditNeedsCharge
<1>2. QED
    BY <1>1, DepositFrame

(* The jobs of a deposit fit; one that will credit needs a charge. *)
LEMMA DepositJobFits ==
    ASSUME NEW d \in Deposits, NEW at \in {"verify", "credit", "deny"},
           at = "credit" => charge[d] # "unpaid"
    PROVE  Job(at, d, "") \in Jobs /\ JobFits(Job(at, d, "")) /\ AnswerHolds(Job(at, d, ""))
<1>1. d \in Transactions /\ "" \in Answers
    BY DepositAssumption DEF Answers
<1>2. Job(at, d, "") \in Jobs /\ Job(at, d, "").at = at /\ Job(at, d, "").tx = d
    BY <1>1 DEF Job, Jobs, Steps, WalletSteps, Answers, FlutterwaveAnswers
<1>3. QED
    BY <1>2 DEF JobFits, AnswerHolds

(* Every deposit step keeps the invariant. *)
LEMMA DepositNextInv ==
    ASSUME IInv, DepositNext, UNCHANGED withdrawalVars
    PROVE  IInv'
<1> USE LedgerAssumption, DepositAssumption DEF IInv, TypeOK
<1>1. ASSUME NEW d \in Deposits, initiate_deposit(d) PROVE IInv'
    <2>1. LedgerTypeOK' /\ DepositTypeOK' /\ CreditsMatchReopenings' /\ CreditNeedsCharge'
        BY <1>1 DEF initiate_deposit, LedgerTypeOK, DepositTypeOK, CreditsMatchReopenings,
                    CreditNeedsCharge
    <2>2. JobsOK'
        BY <1>1 DEF initiate_deposit, JobsOK, JobFits, AnswerHolds
    <2>3. QED
        BY <2>1, <2>2, DepositFrame
<1>2. ASSUME NEW p \in WebWorkers, NEW d \in Deposits, verify_payment(p, d) PROVE IInv'
    <2>1. SetJob(p, Job("verify", d, ""))
        BY <1>2 DEF verify_payment
    <2>2. Job("verify", d, "") \in Jobs
          /\ JobFits(Job("verify", d, "")) /\ AnswerHolds(Job("verify", d, ""))
        BY DepositJobFits
    <2>3. JobsOK' /\ job' \in [Procs -> Jobs]
        BY <2>1, <2>2, <1>2, SetJobOK DEF Procs, verify_payment
    <2>4. QED
        BY <1>2, <2>3, DepositJobInv DEF verify_payment
<1>3. ASSUME NEW p \in WebWorkers, NEW d \in Deposits, DepositWebhook(p, d) PROVE IInv'
    <2>1. SetJob(p, Job("credit", d, "")) /\ charge[d] # "unpaid"
        BY <1>3 DEF DepositWebhook
    <2>2. Job("credit", d, "") \in Jobs
          /\ JobFits(Job("credit", d, "")) /\ AnswerHolds(Job("credit", d, ""))
        BY <2>1, DepositJobFits
    <2>3. JobsOK' /\ job' \in [Procs -> Jobs]
        BY <2>1, <2>2, <1>3, SetJobOK DEF Procs, DepositWebhook
    <2>4. QED
        BY <1>3, <2>3, DepositJobInv DEF DepositWebhook
<1>4. ASSUME NEW p \in WebWorkers, VerifyAnswer(p) PROVE IInv'
    <2>1. job[p].tx \in Deposits /\ p \in Procs
        BY <1>4 DEF VerifyAnswer, IsAt, JobsOK, JobFits, Procs
    <2>2. UNCHANGED <<transfer, charge>>
        BY <1>4 DEF VerifyAnswer
    <2>3. ASSUME NEW at \in {"credit", "deny"}, SetJob(p, Job(at, job[p].tx, "")),
                 at = "credit" => charge[job[p].tx] # "unpaid"
          PROVE  JobsOK' /\ job' \in [Procs -> Jobs]
        BY <2>1, <2>2, <2>3, DepositJobFits, SetJobOK
    <2>4. JobsOK' /\ job' \in [Procs -> Jobs]
        <3>1. CASE SetJob(p, Idle)
            BY <3>1, <2>1, <2>2, SetIdleOK
        <3>2. CASE charge[job[p].tx] = "paid" /\ SetJob(p, Job("credit", job[p].tx, ""))
            BY <3>2, <2>3
        <3>3. CASE SetJob(p, Job("deny", job[p].tx, ""))
            BY <3>3, <2>3
        <3>4. QED
            BY <1>4, <3>1, <3>2, <3>3 DEF VerifyAnswer
    <2>5. QED
        BY <1>4, <2>4, DepositJobInv DEF VerifyAnswer
<1>5. ASSUME NEW p \in WebWorkers, MarkFailed(p) PROVE IInv'
    <2>1. job[p].tx \in Deposits /\ p \in Procs
        BY <1>5 DEF MarkFailed, IsAt, JobsOK, JobFits, Procs
    <2>2. JobsOK' /\ job' \in [Procs -> Jobs]
        BY <2>1, <1>5, SetIdleOK DEF MarkFailed
    <2>3. DepositTypeOK' /\ CreditsMatchReopenings' /\ CreditNeedsCharge'
        BY <1>5, <2>1 DEF MarkFailed, DepositTypeOK, CreditsMatchReopenings, CreditNeedsCharge
    <2>4. QED
        BY <1>5, <2>2, <2>3, DepositFrame DEF MarkFailed, LedgerTypeOK
<1>6. ASSUME NEW p \in WebWorkers, _credit_wallet_for_deposit(p) PROVE IInv'
    <2>1. job[p].tx \in Deposits /\ p \in Procs /\ charge[job[p].tx] # "unpaid"
        BY <1>6 DEF _credit_wallet_for_deposit, IsAt, JobsOK, JobFits, AnswerHolds, Procs
    <2>2. JobsOK' /\ job' \in [Procs -> Jobs]
        BY <2>1, <1>6, SetIdleOK DEF _credit_wallet_for_deposit
    <2>3. CASE dst[job[p].tx] = "COMPLETED"
        <3>1. UNCHANGED <<balance, outside, crashes, depositVars>>
            BY <1>6, <2>3 DEF _credit_wallet_for_deposit
        <3>2. QED
            BY <3>1, <2>2, DepositJobInv
    <2>4. CASE dst[job[p].tx] # "COMPLETED"
        <3>1. CreditDeposit(job[p].tx) /\ UNCHANGED <<crashes, charge, reopened>>
            BY <1>6, <2>4 DEF _credit_wallet_for_deposit
        <3>2. LedgerTypeOK'
            BY <2>1, <2>2, <3>1 DEF CreditDeposit, Credit, Outside, LedgerTypeOK
        <3>3. DepositTypeOK' /\ CreditsMatchReopenings' /\ CreditNeedsCharge'
            BY <2>1, <2>4, <3>1 DEF CreditDeposit, DepositTypeOK, CreditsMatchReopenings,
                                    CreditNeedsCharge
        <3>4. QED
            BY <2>2, <3>2, <3>3, DepositFrame
    <2>5. QED
        BY <2>3, <2>4
<1>7. ASSUME NEW d \in Deposits, NEW c \in {"paid", "short"}, FlwCharge(d, c) PROVE IInv'
    <2>1. LedgerTypeOK' /\ DepositTypeOK' /\ CreditsMatchReopenings' /\ CreditNeedsCharge'
        BY <1>7 DEF FlwCharge, LedgerTypeOK, DepositTypeOK, CreditsMatchReopenings,
                    CreditNeedsCharge
    <2>2. JobsOK'
        BY <1>7 DEF FlwCharge, JobsOK, JobFits, AnswerHolds, DepositTypeOK
    <2>3. QED
        BY <2>1, <2>2, DepositFrame
<1>8. QED
    BY <1>1, <1>2, <1>3, <1>4, <1>5, <1>6, <1>7 DEF DepositNext, DepositStepOf

(* What the withdrawal actions leave alone of the invariant. *)
LEMMA WithdrawalFrame ==
    ASSUME IInv, UNCHANGED depositVars,
           LedgerTypeOK', WithdrawalTypeOK', JobsOK', FreshWithdrawal',
           RefundedOnceIffFailed', ReportsAreTrue'
    PROVE  IInv'
BY DEF IInv, TypeOK, DepositTypeOK, CreditsMatchReopenings, CreditNeedsCharge

(* A request that moves between its own steps keeps the withdrawals' part; *)
(* a transfer id it learns changes nothing either.                         *)
LEMMA WithdrawalJobInv ==
    ASSUME IInv, UNCHANGED <<balance, outside, crashes, depositVars>>,
           UNCHANGED <<wst, transfer, refunds, refundedBy>>,
           hasId' \in [Withdrawals -> BOOLEAN],
           job' \in [Procs -> Jobs], JobsOK'
    PROVE  IInv'
<1>1. LedgerTypeOK' /\ WithdrawalTypeOK' /\ FreshWithdrawal' /\ RefundedOnceIffFailed'
      /\ ReportsAreTrue'
    BY DEF IInv, TypeOK, LedgerTypeOK, WithdrawalTypeOK, FreshWithdrawal,
           RefundedOnceIffFailed, ReportsAreTrue
<1>2. QED
    BY <1>1, WithdrawalFrame

(* The jobs of a withdrawal fit if their answer is Flutterwave's. *)
LEMMA WithdrawalJobFits ==
    ASSUME NEW w \in Withdrawals, NEW at \in {"transfer", "refund", "fetched", "settle"},
           NEW says \in Answers,
           at = "settle" => says \in Final,
           says \in Final => transfer[w] = says
    PROVE  Job(at, w, says) \in Jobs /\ JobFits(Job(at, w, says)) /\ AnswerHolds(Job(at, w, says))
<1>1. w \in Transactions
    BY WithdrawalAssumption
<1>2. /\ Job(at, w, says) \in Jobs
      /\ Job(at, w, says).at = at
      /\ Job(at, w, says).tx = w
      /\ Job(at, w, says).says = says
    BY <1>1 DEF Job, Jobs, Steps, WalletSteps, Answers, FlutterwaveAnswers
<1>3. QED
    BY <1>2 DEF JobFits, AnswerHolds

(* _refund_and_fail keeps the withdrawals' part of the invariant, if a     *)
(* refund on a report is one of a failed transfer.                         *)
LEMMA RefundInv ==
    ASSUME LedgerTypeOK, WithdrawalTypeOK, FreshWithdrawal, RefundedOnceIffFailed,
           ReportsAreTrue,
           NEW w \in Withdrawals, NEW by \in {"request", "report"},
           by = "report" => transfer[w] = "FAILED",
           _refund_and_fail(w, by), UNCHANGED <<hasId, transfer>>
    PROVE  /\ balance' \in [Users -> Nat]
           /\ WithdrawalTypeOK' /\ FreshWithdrawal' /\ RefundedOnceIffFailed' /\ ReportsAreTrue'
<1> USE LedgerAssumption, WithdrawalAssumption
<1>1. CASE wst[w] # "PENDING"
    <2>1. UNCHANGED <<balance, wst, refunds, refundedBy>>
        BY <1>1 DEF _refund_and_fail
    <2>2. QED
        BY <2>1 DEF LedgerTypeOK, WithdrawalTypeOK, FreshWithdrawal, RefundedOnceIffFailed,
                    ReportsAreTrue
<1>2. CASE wst[w] = "PENDING"
    <2>1. /\ Credit(Owner[w], Amount[w])
          /\ wst' = [wst EXCEPT ![w] = "FAILED"]
          /\ refunds' = [refunds EXCEPT ![w] = @ + 1]
          /\ refundedBy' = [refundedBy EXCEPT ![w] = by]
        BY <1>2 DEF _refund_and_fail
    <2>2. balance' \in [Users -> Nat]
        BY <2>1 DEF Credit, LedgerTypeOK
    <2>3. WithdrawalTypeOK' /\ FreshWithdrawal' /\ RefundedOnceIffFailed'
        BY <1>2, <2>1 DEF WithdrawalTypeOK, FreshWithdrawal, RefundedOnceIffFailed
    <2>4. ReportsAreTrue'
        BY <1>2, <2>1 DEF WithdrawalTypeOK, ReportsAreTrue
    <2>5. QED
        BY <2>2, <2>3, <2>4
<1>3. QED
    BY <1>1, <1>2

(* Every withdrawal step keeps the invariant. *)
LEMMA WithdrawalNextInv ==
    ASSUME IInv, WithdrawalNext, UNCHANGED depositVars
    PROVE  IInv'
<1> USE LedgerAssumption, WithdrawalAssumption DEF IInv, TypeOK
<1>1. ASSUME NEW p \in WebWorkers, NEW w \in Withdrawals, request_withdrawal(p, w) PROVE IInv'
    <2>1. /\ wst[w] = "none" /\ transfer[w] = "unsent"
          /\ balance[Owner[w]] >= Amount[w]
          /\ balance' = [balance EXCEPT ![Owner[w]] = @ - Amount[w]]
          /\ wst' = [wst EXCEPT ![w] = "PENDING"]
          /\ transfer' = [transfer EXCEPT ![w] = "sent"]
          /\ job' = [job EXCEPT ![p] = Job("transfer", w, "")]
          /\ UNCHANGED <<outside, crashes, hasId, refunds, refundedBy>>
        BY <1>1 DEF request_withdrawal, Debit, HasFunds, SetJob, FreshWithdrawal
    <2>2. p \in Procs
        BY DEF Procs
    <2>3. /\ Job("transfer", w, "") \in Jobs
          /\ Job("transfer", w, "").at = "transfer"
          /\ Job("transfer", w, "").tx = w
        BY DEF Job, Jobs, Steps, WalletSteps, Answers, FlutterwaveAnswers
    <2>4. LedgerTypeOK'
        <3>1. Owner[w] \in Users /\ Amount[w] \in Nat
            OBVIOUS
        <3>2. balance[Owner[w]] - Amount[w] \in Nat
            <4>1. balance[Owner[w]] \in Nat
                BY <3>1 DEF LedgerTypeOK
            <4>2. \A x, y \in Nat : x >= y => x - y \in Nat
                OBVIOUS
            <4>3. QED
                BY <2>1, <3>1, <4>1, <4>2
        <3>5. balance' \in [Users -> Nat]
            BY <2>1, <3>1, <3>2 DEF LedgerTypeOK
        <3>3. job' \in [Procs -> Jobs]
            BY <2>1, <2>2, <2>3 DEF LedgerTypeOK
        <3>4. QED
            BY <2>1, <3>5, <3>3 DEF LedgerTypeOK
    <2>5. WithdrawalTypeOK' /\ FreshWithdrawal' /\ RefundedOnceIffFailed'
        BY <2>1 DEF WithdrawalTypeOK, FreshWithdrawal, RefundedOnceIffFailed
    <2>6. ReportsAreTrue'
        BY <2>1 DEF WithdrawalTypeOK, ReportsAreTrue, FreshWithdrawal
    <2>7. JobsOK'
        <3>1. ASSUME NEW q \in Procs PROVE (JobFits(job[q]) /\ AnswerHolds(job[q]))'
            <4>1. CASE q = p
                BY <4>1, <2>1, <2>2, <2>3 DEF LedgerTypeOK, JobFits, AnswerHolds
            <4>2. CASE q # p
                BY <4>2, <2>1, <2>2 DEF LedgerTypeOK, WithdrawalTypeOK, JobsOK, JobFits,
                                        AnswerHolds, Final
            <4>3. QED
                BY <4>1, <4>2
        <3>2. QED
            BY <3>1 DEF JobsOK
    <2>8. QED
        BY <2>4, <2>5, <2>6, <2>7, WithdrawalFrame
<1>2. ASSUME NEW p \in WebWorkers, NEW w \in Withdrawals, TransferWebhook(p, w) PROVE IInv'
    <2>1. /\ SetJob(p, Job("settle", w, transfer[w]))
          /\ transfer[w] \in Final
          /\ UNCHANGED <<balance, outside, crashes, withdrawalVars>>
        BY <1>2 DEF TransferWebhook, TransferJob
    <2>2. p \in Procs /\ transfer[w] \in Answers
        BY <2>1 DEF Procs, Answers, FlutterwaveAnswers, Final
    <2>3. JobsOK' /\ job' \in [Procs -> Jobs]
        BY <2>1, <2>2, WithdrawalJobFits, SetJobOK
    <2>4. QED
        BY <2>1, <2>3, WithdrawalJobInv DEF WithdrawalTypeOK
<1>3. ASSUME NEW p \in Procs, NEW w \in Withdrawals, Reconcile(p, w) PROVE IInv'
    <2>1. /\ SetJob(p, Job("fetched", w, transfer[w]))
          /\ transfer[w] \in Answers
          /\ UNCHANGED <<balance, outside, crashes, wst, transfer, refunds, refundedBy>>
        BY <1>3 DEF Reconcile, HasRecord, Recorded, Final, Answers, FlutterwaveAnswers
    <2>2. hasId' \in [Withdrawals -> BOOLEAN]
        BY <1>3 DEF Reconcile, WithdrawalTypeOK
    <2>3. JobsOK' /\ job' \in [Procs -> Jobs]
        BY <2>1, WithdrawalJobFits, SetJobOK
    <2>4. QED
        BY <2>1, <2>2, <2>3, WithdrawalJobInv
<1>4. ASSUME NEW p \in Procs, TransferAccepted(p) PROVE IInv'
    <2>1. /\ SetJob(p, Idle) /\ job[p].tx \in Withdrawals
          /\ UNCHANGED <<balance, outside, crashes, wst, transfer, refunds, refundedBy>>
        BY <1>4 DEF TransferAccepted, IsAt, JobsOK, JobFits
    <2>2. hasId' \in [Withdrawals -> BOOLEAN]
        BY <1>4 DEF TransferAccepted, WithdrawalTypeOK
    <2>3. JobsOK' /\ job' \in [Procs -> Jobs]
        BY <2>1, SetIdleOK
    <2>4. QED
        BY <2>1, <2>2, <2>3, WithdrawalJobInv
<1>5. ASSUME NEW p \in Procs, TransferNotConfirmed(p) PROVE IInv'
    <2>1. /\ SetJob(p, Job("refund", job[p].tx, "")) /\ job[p].tx \in Withdrawals
          /\ UNCHANGED <<balance, outside, crashes, withdrawalVars>>
        BY <1>5 DEF TransferNotConfirmed, IsAt, JobsOK, JobFits
    <2>2. "" \in Answers /\ "" \notin Final
        BY DEF Answers, FlutterwaveAnswers, ProviderAnswers, Final
    <2>3. JobsOK' /\ job' \in [Procs -> Jobs]
        BY <2>1, <2>2, WithdrawalJobFits, SetJobOK
    <2>4. QED
        BY <2>1, <2>3, WithdrawalJobInv DEF WithdrawalTypeOK
<1>6. ASSUME NEW p \in Procs, RequestRefund(p) PROVE IInv'
    <2>1. /\ SetJob(p, Idle) /\ job[p].tx \in Withdrawals
          /\ _refund_and_fail(job[p].tx, "request")
          /\ UNCHANGED <<outside, crashes, hasId, transfer>>
        BY <1>6 DEF RequestRefund, IsAt, JobsOK, JobFits
    <2>2. JobsOK' /\ job' \in [Procs -> Jobs]
        BY <2>1, SetIdleOK
    <2>3. /\ balance' \in [Users -> Nat]
          /\ WithdrawalTypeOK' /\ FreshWithdrawal' /\ RefundedOnceIffFailed' /\ ReportsAreTrue'
        BY <2>1, RefundInv
    <2>4. QED
        BY <2>1, <2>2, <2>3, WithdrawalFrame DEF LedgerTypeOK
<1>7. ASSUME NEW p \in Procs, SettleTransfer(p) PROVE IInv'
    <2>1. /\ SetJob(p, Idle) /\ job[p].tx \in Withdrawals
          /\ transfer[job[p].tx] = job[p].says
          /\ UNCHANGED <<outside, crashes, hasId, transfer>>
        BY <1>7 DEF SettleTransfer, IsAt, JobsOK, JobFits, AnswerHolds
    <2>2. JobsOK' /\ job' \in [Procs -> Jobs]
        BY <2>1, SetIdleOK
    <2>3. CASE job[p].says = "FAILED" /\ _refund_and_fail(job[p].tx, "report")
        <3>1. /\ balance' \in [Users -> Nat]
              /\ WithdrawalTypeOK' /\ FreshWithdrawal' /\ RefundedOnceIffFailed'
              /\ ReportsAreTrue'
            BY <2>1, <2>3, RefundInv
        <3>2. QED
            BY <2>1, <2>2, <3>1, WithdrawalFrame DEF LedgerTypeOK
    <2>4. CASE /\ job[p].says = "SUCCESSFUL"
               /\ wst' = [wst EXCEPT ![job[p].tx] = IF @ = "PENDING" THEN "COMPLETED" ELSE @]
               /\ UNCHANGED <<balance, refunds, refundedBy>>
        <3>1. WithdrawalTypeOK' /\ FreshWithdrawal' /\ RefundedOnceIffFailed'
            BY <2>1, <2>4 DEF WithdrawalTypeOK, FreshWithdrawal, RefundedOnceIffFailed
        <3>2. ReportsAreTrue'
            BY <2>1, <2>4 DEF WithdrawalTypeOK, ReportsAreTrue
        <3>3. QED
            BY <2>1, <2>2, <2>4, <3>1, <3>2, WithdrawalFrame DEF LedgerTypeOK
    <2>5. QED
        BY <1>7, <2>3, <2>4 DEF SettleTransfer
<1>8. ASSUME NEW p \in Procs, ApplyFetched(p) PROVE IInv'
    <2>1. /\ job[p].tx \in Withdrawals /\ job[p].says \in Answers
          /\ job[p].says \in Final => transfer[job[p].tx] = job[p].says
          /\ UNCHANGED <<balance, outside, crashes, withdrawalVars>>
        BY <1>8 DEF ApplyFetched, IsAt, JobsOK, JobFits, AnswerHolds, LedgerTypeOK, Jobs
    <2>2. JobsOK' /\ job' \in [Procs -> Jobs]
        <3>1. CASE job[p].says \in Final /\ SetJob(p, Job("settle", job[p].tx, job[p].says))
            BY <2>1, <3>1, WithdrawalJobFits, SetJobOK
        <3>2. CASE SetJob(p, Idle)
            BY <2>1, <3>2, SetIdleOK
        <3>3. QED
            BY <1>8, <3>1, <3>2 DEF ApplyFetched, TransferJob
    <2>3. QED
        BY <2>1, <2>2, WithdrawalJobInv DEF WithdrawalTypeOK
<1>9. ASSUME NEW w \in Withdrawals, NEW t \in Recorded \cup {"refused"}, FlwAnswers(w, t)
      PROVE  IInv'
    <2>1. /\ transfer[w] \in {"sent", "NEW"}
          /\ transfer' = [transfer EXCEPT ![w] = t]
          /\ UNCHANGED <<ledgerVars, wst, hasId, refunds, refundedBy>>
        BY <1>9 DEF FlwAnswers
    <2>2. LedgerTypeOK' /\ WithdrawalTypeOK' /\ FreshWithdrawal' /\ RefundedOnceIffFailed'
        BY <2>1 DEF LedgerTypeOK, WithdrawalTypeOK, FreshWithdrawal, RefundedOnceIffFailed
    <2>3. ReportsAreTrue'
        BY <2>1 DEF ReportsAreTrue, WithdrawalTypeOK
    <2>4. JobsOK'
        BY <2>1 DEF JobsOK, JobFits, AnswerHolds, Final, WithdrawalTypeOK
    <2>5. QED
        BY <2>2, <2>3, <2>4, WithdrawalFrame
<1>10. QED
    BY <1>1, <1>2, <1>3, <1>4, <1>5, <1>6, <1>7, <1>8, <1>9 DEF WithdrawalNext, WithdrawalStepOf

-----------------------------------------------------------------------------
(* The inductive invariant holds in every reachable state. *)
THEOREM InductiveInvariant == Spec => []IInv
<1>1. ASSUME IInv, [Next]_vars PROVE IInv'
    <2>1. CASE UNCHANGED vars
        BY <1>1, <2>1 DEF vars, IInv, TypeOK, LedgerTypeOK, DepositTypeOK, WithdrawalTypeOK,
            JobsOK, JobFits, AnswerHolds, FreshWithdrawal, RefundedOnceIffFailed,
            ReportsAreTrue, CreditsMatchReopenings, CreditNeedsCharge
    <2>2. CASE Next
        BY <1>1, <2>2, LedgerStepInv, DepositNextInv, WithdrawalNextInv DEF Next
    <2>3. QED
        BY <1>1, <2>1, <2>2
<1>2. QED
    BY InitInv, <1>1, PTL DEF Spec

(* Every variable keeps its type, so no wallet balance is ever negative. *)
THEOREM TypeCorrect == Spec => []TypeOK
BY InductiveInvariant, PTL DEF IInv

(* A withdrawal's amount is credited back exactly when the withdrawal is   *)
(* FAILED, and once: request_withdrawal, webhooks and reconciliations can  *)
(* race as they like.                                                      *)
THEOREM RefundOnce == Spec => []RefundedOnceIffFailed
BY InductiveInvariant, PTL DEF IInv

(* COMPLETED withdrawals were paid out, and a refund on a report from      *)
(* Flutterwave is one of a transfer that failed.                           *)
THEOREM TrueReports == Spec => []ReportsAreTrue
BY InductiveInvariant, PTL DEF IInv

(* A deposit is credited once for being COMPLETED and once more for each   *)
(* time verify_payment overwrote that.                                     *)
THEOREM CreditsOnceUnlessReopened == Spec => []CreditsMatchReopenings
BY InductiveInvariant, PTL DEF IInv

-----------------------------------------------------------------------------
(* The refinement: what each step is to the escrow.                        *)
hold == [w \in Withdrawals |-> HoldOf(w)]

(* A step that moves one row's status moves one hold, and no other. *)
LEMMA HoldMoves ==
    ASSUME WithdrawalTypeOK, NEW w \in Withdrawals,
           NEW s \in {"none", "PENDING", "COMPLETED", "FAILED"},
           wst' = [wst EXCEPT ![w] = s]
    PROVE  /\ s = "PENDING" => hold' = [hold EXCEPT ![w] = "held"]
           /\ s = "COMPLETED" => hold' = [hold EXCEPT ![w] = "captured"]
           /\ s = "FAILED" => hold' = [hold EXCEPT ![w] = "released"]
BY DEF WithdrawalTypeOK, hold, HoldOf

(* Without a status change no hold moves. *)
LEMMA HoldStays == ASSUME UNCHANGED wst PROVE UNCHANGED hold
BY DEF hold, HoldOf

(* The initial wallet is an initial escrow. *)
LEMMA InitEscrow == Init => WithdrawalEscrow!EscrowInit
BY DEF Init, LedgerInit, WithdrawalInit, WithdrawalEscrow!EscrowInit, HoldOf

(* _refund_and_fail releases the hold, or does nothing. *)
LEMMA RefundEscrow ==
    ASSUME WithdrawalTypeOK, NEW w \in Withdrawals, NEW by,
           _refund_and_fail(w, by), UNCHANGED outside
    PROVE  WithdrawalEscrow!EscrowNext \/ UNCHANGED WithdrawalEscrow!escrowVars
<1>1. CASE wst[w] # "PENDING"
    <2>1. UNCHANGED <<balance, wst>>
        BY <1>1 DEF _refund_and_fail
    <2>2. QED
        BY <2>1, HoldStays DEF WithdrawalEscrow!escrowVars, hold
<1>2. CASE wst[w] = "PENDING"
    <2>1. wst' = [wst EXCEPT ![w] = "FAILED"] /\ Credit(Owner[w], Amount[w])
        BY <1>2 DEF _refund_and_fail
    <2>2. hold' = [hold EXCEPT ![w] = "released"] /\ hold[w] = "held"
        BY <1>2, <2>1, HoldMoves DEF hold, HoldOf
    <2>3. WithdrawalEscrow!Release(w)
        BY <2>1, <2>2 DEF WithdrawalEscrow!Release, Credit, hold
    <2>4. QED
        BY <2>3 DEF WithdrawalEscrow!EscrowNext
<1>3. QED
    BY <1>1, <1>2

(* Money that other apps or a deposit move is the escrow's elsewhere. *)
LEMMA ElsewhereEscrow ==
    ASSUME LedgerTypeOK, LedgerTypeOK', NEW u \in Users, NEW a \in Int, UNCHANGED wst,
           balance' = [balance EXCEPT ![u] = @ + a], outside' = [outside EXCEPT ![u] = @ + a]
    PROVE  WithdrawalEscrow!EscrowNext
<1>1. UNCHANGED hold
    BY HoldStays
<1>2. outside'[u] = outside[u] + a /\ outside'[u] - outside[u] = a
    BY DEF LedgerTypeOK
<1>3. balance'[u] >= 0
    BY DEF LedgerTypeOK
<1>4. WithdrawalEscrow!Elsewhere(u)
    BY <1>1, <1>2, <1>3 DEF WithdrawalEscrow!Elsewhere, hold
<1>5. QED
    BY <1>4 DEF WithdrawalEscrow!EscrowNext

(* Every step of the wallet is a step of the escrow or leaves it alone. *)
LEMMA NextEscrow ==
    ASSUME IInv, IInv', Next
    PROVE  WithdrawalEscrow!EscrowNext \/ UNCHANGED WithdrawalEscrow!escrowVars
<1> USE LedgerAssumption, DepositAssumption, WithdrawalAssumption DEF IInv, TypeOK
<1>1. ASSUME UNCHANGED <<balance, outside, wst>>
      PROVE  UNCHANGED WithdrawalEscrow!escrowVars
    BY <1>1, HoldStays DEF WithdrawalEscrow!escrowVars, hold
<1>2. CASE LedgerStep /\ UNCHANGED <<depositVars, withdrawalVars>>
    <2>1. ASSUME NEW u \in Users, NEW a \in AppAmounts, debit_wallet(u, a)
          PROVE  WithdrawalEscrow!EscrowNext
        <3>1. a \in Int /\ 0 - a \in Int
            OBVIOUS
        <3>2. balance' = [balance EXCEPT ![u] = @ + (0 - a)]
            <4>1. balance[u] \in Int /\ balance[u] - a = balance[u] + (0 - a)
                BY <3>1 DEF LedgerTypeOK
            <4>2. QED
                BY <2>1, <4>1 DEF debit_wallet, Debit
        <3>3. outside' = [outside EXCEPT ![u] = @ + (0 - a)]
            BY <2>1 DEF debit_wallet, Outside
        <3>4. QED
            BY <1>2, <3>1, <3>2, <3>3, ElsewhereEscrow
    <2>2. ASSUME NEW u \in Users, NEW a \in AppAmounts, credit_wallet(u, a)
          PROVE  WithdrawalEscrow!EscrowNext
        <3>1. a \in Int /\ UNCHANGED wst
            BY <1>2
        <3>2. /\ balance' = [balance EXCEPT ![u] = @ + a]
              /\ outside' = [outside EXCEPT ![u] = @ + a]
            BY <2>2 DEF credit_wallet, Credit, Outside
        <3>3. QED
            BY <3>1, <3>2, ElsewhereEscrow
    <2>3. ASSUME NEW p \in Procs, Crash(p)
          PROVE  UNCHANGED <<balance, outside, wst>>
        BY <1>2, <2>3 DEF Crash
    <2>4. QED
        BY <1>1, <1>2, <2>1, <2>2, <2>3 DEF LedgerStep
<1>3. CASE DepositNext /\ UNCHANGED withdrawalVars
    <2>1. ASSUME NEW p \in WebWorkers, _credit_wallet_for_deposit(p)
          PROVE  WithdrawalEscrow!EscrowNext \/ UNCHANGED WithdrawalEscrow!escrowVars
        <3>1. CASE dst[job[p].tx] = "COMPLETED"
            BY <1>1, <1>3, <2>1, <3>1 DEF _credit_wallet_for_deposit
        <3>2. CASE dst[job[p].tx] # "COMPLETED"
            <4>1. CreditDeposit(job[p].tx)
                BY <2>1, <3>2 DEF _credit_wallet_for_deposit
            <4>2. job[p].tx \in Deposits
                BY <2>1 DEF _credit_wallet_for_deposit, IsAt, JobsOK, JobFits, Procs
            <4>3. Owner[job[p].tx] \in Users /\ Amount[job[p].tx] \in Int /\ UNCHANGED wst
                BY <1>3, <4>2
            <4>4. QED
                BY <4>1, <4>3, ElsewhereEscrow DEF CreditDeposit, Credit, Outside
        <3>3. QED
            BY <3>1, <3>2
    <2>2. CASE \E d \in Deposits :
                 \/ initiate_deposit(d)
                 \/ \E c \in {"paid", "short"} : FlwCharge(d, c)
        BY <1>1, <1>3, <2>2 DEF initiate_deposit, FlwCharge
    <2>3. CASE \E p \in WebWorkers :
                 \/ \E d \in Deposits : verify_payment(p, d) \/ DepositWebhook(p, d)
                 \/ VerifyAnswer(p) \/ MarkFailed(p)
        BY <1>1, <1>3, <2>3 DEF verify_payment, DepositWebhook, VerifyAnswer, MarkFailed
    <2>4. QED
        BY <1>3, <2>1, <2>2, <2>3 DEF DepositNext, DepositStepOf
<1>4. CASE WithdrawalNext /\ UNCHANGED depositVars
    <2>1. ASSUME NEW p \in WebWorkers, NEW w \in Withdrawals, request_withdrawal(p, w)
          PROVE  WithdrawalEscrow!EscrowNext
        <3>1. /\ wst[w] = "none" /\ balance[Owner[w]] >= Amount[w]
              /\ balance' = [balance EXCEPT ![Owner[w]] = @ - Amount[w]]
              /\ wst' = [wst EXCEPT ![w] = "PENDING"] /\ UNCHANGED outside
            BY <2>1 DEF request_withdrawal, Debit, HasFunds
        <3>2. hold' = [hold EXCEPT ![w] = "held"] /\ hold[w] = "open"
            BY <3>1, HoldMoves DEF hold, HoldOf
        <3>3. WithdrawalEscrow!Place(w)
            BY <3>1, <3>2 DEF WithdrawalEscrow!Place, hold
        <3>4. QED
            BY <3>3 DEF WithdrawalEscrow!EscrowNext
    <2>2. ASSUME NEW p \in Procs, RequestRefund(p)
          PROVE  WithdrawalEscrow!EscrowNext \/ UNCHANGED WithdrawalEscrow!escrowVars
        BY <2>2, RefundEscrow DEF RequestRefund, IsAt, JobsOK, JobFits
    <2>3. ASSUME NEW p \in Procs, SettleTransfer(p)
          PROVE  WithdrawalEscrow!EscrowNext \/ UNCHANGED WithdrawalEscrow!escrowVars
        <3>1. job[p].tx \in Withdrawals /\ UNCHANGED outside
            BY <2>3 DEF SettleTransfer, IsAt, JobsOK, JobFits
        <3>2. CASE _refund_and_fail(job[p].tx, "report")
            BY <3>1, <3>2, RefundEscrow
        <3>3. CASE wst[job[p].tx] = "PENDING" /\ job[p].says = "SUCCESSFUL"
            <4>1. wst' = [wst EXCEPT ![job[p].tx] = "COMPLETED"] /\ UNCHANGED <<balance, outside>>
                BY <2>3, <3>3 DEF SettleTransfer
            <4>2. hold' = [hold EXCEPT ![job[p].tx] = "captured"] /\ hold[job[p].tx] = "held"
                BY <3>1, <3>3, <4>1, HoldMoves DEF hold, HoldOf
            <4>3. WithdrawalEscrow!Capture(job[p].tx)
                BY <4>1, <4>2 DEF WithdrawalEscrow!Capture, hold
            <4>4. QED
                BY <3>1, <4>3 DEF WithdrawalEscrow!EscrowNext
        <3>4. CASE wst[job[p].tx] # "PENDING" /\ job[p].says = "SUCCESSFUL"
            <4>1. UNCHANGED <<balance, outside, wst>>
                BY <2>3, <3>1, <3>4 DEF SettleTransfer, WithdrawalTypeOK
            <4>2. QED
                BY <1>1, <4>1
        <3>5. QED
            BY <2>3, <3>2, <3>3, <3>4 DEF SettleTransfer
    <2>4. CASE \E p \in Procs :
                 \/ \E w \in Withdrawals : Reconcile(p, w)
                 \/ TransferAccepted(p) \/ TransferNotConfirmed(p) \/ ApplyFetched(p)
        BY <1>1, <2>4 DEF Reconcile, TransferAccepted, TransferNotConfirmed, ApplyFetched
    <2>5. CASE \E w \in Withdrawals :
                 \/ \E p \in WebWorkers : TransferWebhook(p, w)
                 \/ \E t \in Recorded \cup {"refused"} : FlwAnswers(w, t)
        BY <1>1, <2>5 DEF TransferWebhook, FlwAnswers
    <2>6. QED
        BY <1>4, <2>1, <2>2, <2>3, <2>4, <2>5 DEF WithdrawalNext, WithdrawalStepOf
<1>5. QED
    BY <1>2, <1>3, <1>4 DEF Next

(* Withdrawals implement the escrow: a withdrawal's amount leaves the      *)
(* wallet once, out of funds that are there, and comes back at most once   *)
(* and never after it was paid out to the user's knowledge (COMPLETED).    *)
THEOREM WithdrawalsImplementEscrow == Spec => WithdrawalsAreEscrowed
<1>1. ASSUME IInv, IInv', [Next]_vars
      PROVE  [WithdrawalEscrow!EscrowNext]_(WithdrawalEscrow!escrowVars)
    <2>1. CASE UNCHANGED vars
        BY <2>1, HoldStays DEF vars, WithdrawalEscrow!escrowVars, hold
    <2>2. CASE Next
        BY <1>1, <2>2, NextEscrow
    <2>3. QED
        BY <1>1, <2>1, <2>2
<1>2. QED
    BY InitEscrow, InductiveInvariant, <1>1, PTL
       DEF Spec, WithdrawalsAreEscrowed, WithdrawalEscrow!EscrowSpec

-----------------------------------------------------------------------------
(* Conservation: it is the escrow that keeps the money, so one argument    *)
(* over its steps does for all of the wallet's.  The sum needs the rows    *)
(* that were ever created to be finitely many; nothing bounds Withdrawals. *)
Taken(u) == {w \in Withdrawals : Owner[w] = u /\ wst[w] \in {"PENDING", "COMPLETED"}}

RowsAreFinite == IsFiniteSet({w \in Withdrawals : wst[w] # "none"})

InTaken == \A u \in Users : balance[u] + Total(Amount, Taken(u)) = outside[u]

(* What a user's withdrawals took is an integer, and changes by the amount *)
(* of a row that is added or dropped.                                      *)
LEMMA TakenFacts ==
    ASSUME IInv, RowsAreFinite, NEW u \in Users
    PROVE  /\ IsFiniteSet(Taken(u))
           /\ \A w \in Taken(u) : Amount[w] \in Int
           /\ Total(Amount, Taken(u)) \in Int
<1>1. Taken(u) \subseteq {w \in Withdrawals : wst[w] # "none"}
    BY DEF Taken
<1>2. IsFiniteSet(Taken(u))
    BY <1>1, FS_Subset DEF RowsAreFinite
<1>3. \A w \in Taken(u) : Amount[w] \in Int
    BY LedgerAssumption, WithdrawalAssumption DEF Taken
<1>4. QED
    BY <1>2, <1>3, TotalInt

(* The invariant in terms of Taken, before and after a step. *)
LEMMA MoneyInTaken ==
    /\ MoneyConserved <=> InTaken
    /\ MoneyConserved' <=> InTaken'
<1>1. MoneyConserved <=> InTaken
    BY DEF MoneyConserved, InTaken, Total, Taken
<1>2. (MoneyConserved <=> InTaken)'
    BY <1>1, PTL
<1>3. QED
    BY <1>1, <1>2

(* No row exists and no money is anywhere at first. *)
LEMMA InitMoney == Init => RowsAreFinite /\ MoneyConserved
<1> SUFFICES ASSUME Init PROVE RowsAreFinite /\ MoneyConserved
    OBVIOUS
<1> USE DEF Init, LedgerInit, WithdrawalInit
<1>1. {w \in Withdrawals : wst[w] # "none"} = {}
    OBVIOUS
<1>2. RowsAreFinite
    BY <1>1, FS_EmptySet DEF RowsAreFinite
<1>3. ASSUME NEW u \in Users
      PROVE  balance[u] + Total(Amount, Taken(u)) = outside[u]
    <2>1. Taken(u) = {}
        BY DEF Taken
    <2>2. QED
        BY <2>1, TotalEmpty
<1>4. QED
    BY <1>2, <1>3, MoneyInTaken DEF InTaken

(* Every step of the escrow keeps the money. *)
LEMMA EscrowMoney ==
    ASSUME IInv, IInv', RowsAreFinite, MoneyConserved, WithdrawalEscrow!EscrowNext
    PROVE  RowsAreFinite' /\ MoneyConserved'
<1> DEFINE Sum(u) == Total(Amount, Taken(u))
<1> USE LedgerAssumption, WithdrawalAssumption DEF IInv, TypeOK, LedgerTypeOK, WithdrawalTypeOK
<1>1. \A u \in Users :
        /\ balance[u] \in Int /\ balance'[u] \in Int
        /\ outside[u] \in Int /\ outside'[u] \in Int
        /\ Sum(u) \in Int /\ balance[u] + Sum(u) = outside[u]
    BY TakenFacts, MoneyInTaken DEF InTaken
<1> HIDE DEF Sum
<1>2. \A w \in Withdrawals : Owner[w] \in Users /\ Amount[w] \in Int
    OBVIOUS
<1>3. ASSUME RowsAreFinite',
             \A u \in Users : balance'[u] + Sum(u)' = outside'[u]
      PROVE  RowsAreFinite' /\ MoneyConserved'
    BY <1>3, MoneyInTaken DEF InTaken, Sum
<1>4. ASSUME UNCHANGED hold
      PROVE  RowsAreFinite' /\ \A u \in Users : Sum(u)' = Sum(u)
    <2>1. \A w \in Withdrawals : wst'[w] = wst[w]
        BY <1>4 DEF hold, HoldOf
    <2>2. QED
        BY <2>1 DEF RowsAreFinite, Sum, Taken
<1>5. ASSUME NEW o \in Withdrawals, WithdrawalEscrow!Place(o)
      PROVE  RowsAreFinite' /\ MoneyConserved'
    <2>1. /\ wst[o] = "none" /\ wst'[o] = "PENDING"
          /\ \A w \in Withdrawals \ {o} : wst'[w] = wst[w]
        BY <1>5 DEF WithdrawalEscrow!Place, HoldOf
    <2>2. /\ balance' = [balance EXCEPT ![Owner[o]] = @ - Amount[o]]
          /\ UNCHANGED outside
        BY <1>5 DEF WithdrawalEscrow!Place
    <2>3. RowsAreFinite'
        <3> DEFINE rows == {w \in Withdrawals : wst[w] # "none"}
        <3>1. rows' = rows \cup {o}
            BY <2>1
        <3>2. IsFiniteSet(rows)
            BY DEF RowsAreFinite
        <3> HIDE DEF rows
        <3>3. IsFiniteSet(rows')
            BY <3>1, <3>2, FS_AddElement
        <3>4. QED
            BY <3>3 DEF RowsAreFinite, rows
    <2>4. ASSUME NEW u \in Users PROVE balance'[u] + Sum(u)' = outside'[u]
        <3>1. CASE u = Owner[o]
            <4>1. o \notin Taken(u) /\ Taken(u)' = Taken(u) \cup {o}
                BY <2>1, <3>1 DEF Taken
            <4>2. Sum(u)' = Sum(u) + Amount[o]
                BY <1>2, <4>1, TakenFacts, TotalAdd DEF Sum
            <4>3. QED
                BY <1>1, <1>2, <2>2, <3>1, <4>2
        <3>2. CASE u # Owner[o]
            <4>1. Taken(u)' = Taken(u)
                BY <2>1, <3>2 DEF Taken
            <4>2. QED
                BY <1>1, <1>2, <2>2, <3>2, <4>1 DEF Sum
        <3>3. QED
            BY <3>1, <3>2
    <2>5. QED
        BY <1>3, <2>3, <2>4
<1>6. ASSUME NEW o \in Withdrawals, WithdrawalEscrow!Release(o)
      PROVE  RowsAreFinite' /\ MoneyConserved'
    <2>1. /\ wst[o] = "PENDING" /\ wst'[o] = "FAILED"
          /\ \A w \in Withdrawals \ {o} : wst'[w] = wst[w]
        BY <1>6 DEF WithdrawalEscrow!Release, HoldOf
    <2>2. /\ balance' = [balance EXCEPT ![Owner[o]] = @ + Amount[o]]
          /\ UNCHANGED outside
        BY <1>6 DEF WithdrawalEscrow!Release
    <2>3. RowsAreFinite'
        <3>1. {w \in Withdrawals : wst[w] # "none"}' = {w \in Withdrawals : wst[w] # "none"}
            BY <2>1
        <3>2. QED
            BY <3>1 DEF RowsAreFinite
    <2>4. ASSUME NEW u \in Users PROVE balance'[u] + Sum(u)' = outside'[u]
        <3>1. CASE u = Owner[o]
            <4>1. o \in Taken(u) /\ Taken(u)' = Taken(u) \ {o}
                BY <2>1, <3>1 DEF Taken
            <4>2. Sum(u)' = Sum(u) - Amount[o]
                BY <4>1, TakenFacts, TotalDrop DEF Sum
            <4>3. QED
                BY <1>1, <1>2, <2>2, <3>1, <4>2
        <3>2. CASE u # Owner[o]
            <4>1. Taken(u)' = Taken(u)
                BY <2>1, <3>2 DEF Taken
            <4>2. QED
                BY <1>1, <1>2, <2>2, <3>2, <4>1 DEF Sum
        <3>3. QED
            BY <3>1, <3>2
    <2>5. QED
        BY <1>3, <2>3, <2>4
<1>7. ASSUME NEW o \in Withdrawals, WithdrawalEscrow!Capture(o)
      PROVE  RowsAreFinite' /\ MoneyConserved'
    <2>1. /\ wst[o] = "PENDING" /\ wst'[o] = "COMPLETED"
          /\ \A w \in Withdrawals \ {o} : wst'[w] = wst[w]
          /\ UNCHANGED <<balance, outside>>
        BY <1>7 DEF WithdrawalEscrow!Capture, HoldOf
    <2>2. {w \in Withdrawals : wst[w] # "none"}' = {w \in Withdrawals : wst[w] # "none"}
        BY <2>1
    <2>3. \A u \in Users : Taken(u)' = Taken(u)
        BY <2>1 DEF Taken
    <2>4. QED
        BY <1>1, <1>3, <2>1, <2>2, <2>3 DEF RowsAreFinite, Sum
<1>8. ASSUME NEW u \in Users, WithdrawalEscrow!Elsewhere(u)
      PROVE  RowsAreFinite' /\ MoneyConserved'
    <2>1. /\ balance' = [balance EXCEPT ![u] = @ + (outside'[u] - outside[u])]
          /\ outside' = [outside EXCEPT ![u] = outside'[u]]
          /\ UNCHANGED hold
        BY <1>8 DEF WithdrawalEscrow!Elsewhere, hold
    <2>2. ASSUME NEW v \in Users PROVE balance'[v] + Sum(v) = outside'[v]
        <3>1. CASE v = u
            <4>1. balance'[u] = balance[u] + (outside'[u] - outside[u])
                BY <2>1
            <4>2. QED
                BY <1>1, <3>1, <4>1
        <3>2. CASE v # u
            BY <1>1, <2>1, <3>2
        <3>3. QED
            BY <3>1, <3>2
    <2>3. QED
        BY <1>3, <1>4, <2>1, <2>2
<1>9. QED
    BY <1>5, <1>6, <1>7, <1>8 DEF WithdrawalEscrow!EscrowNext

(* No money is made or lost, however many withdrawals are under way: what  *)
(* a wallet holds, with what its pending and paid withdrawals took, is     *)
(* what came in by deposits and the other apps.                            *)
THEOREM MoneyIsConserved == Spec => []MoneyConserved
<1> DEFINE Kept == RowsAreFinite /\ MoneyConserved
<1>1. ASSUME IInv, IInv', Kept, [Next]_vars PROVE Kept'
    <2>1. ASSUME UNCHANGED <<balance, outside, wst>> PROVE Kept'
        <3>1. RowsAreFinite'
            BY <1>1, <2>1 DEF RowsAreFinite
        <3>2. \A u \in Users : Taken(u)' = Taken(u)
            BY <2>1 DEF Taken
        <3>3. QED
            BY <1>1, <2>1, <3>1, <3>2, MoneyInTaken DEF InTaken
    <2>2. CASE UNCHANGED vars
        BY <2>1, <2>2 DEF vars
    <2>3. CASE Next
        <3>1. CASE UNCHANGED WithdrawalEscrow!escrowVars
            <4>1. UNCHANGED <<balance, outside>> /\ UNCHANGED hold
                BY <3>1 DEF WithdrawalEscrow!escrowVars, hold
            <4>2. \A w \in Withdrawals : wst'[w] = wst[w]
                BY <1>1, <4>1 DEF hold, HoldOf, IInv, TypeOK, WithdrawalTypeOK
            <4>3. UNCHANGED wst
                BY <1>1, <4>2 DEF IInv, TypeOK, WithdrawalTypeOK
            <4>4. QED
                BY <2>1, <4>1, <4>3
        <3>2. QED
            BY <1>1, <2>3, <3>1, NextEscrow, EscrowMoney
    <2>4. QED
        BY <1>1, <2>2, <2>3
<1>2. QED
    BY InitMoney, InductiveInvariant, <1>1, PTL DEF Spec
=============================================================================
