------------------------- MODULE CryptoWithdrawals -------------------------
(***************************************************************************)
(* On-chain withdrawals (crypto/withdrawals.py).  The request reserves the *)
(* coins, creates the row and asks Quidax; on a refusal, or no answer, it  *)
(* releases the coins, otherwise it debits them.  The withdraw webhook and *)
(* an admin settle the row, at any time after the request reached Quidax.  *)
(***************************************************************************)
EXTENDS CryptoLedger, FiniteSetsExt

CONSTANTS
    Withdrawals,      \* requests of one user on one day
    Key,              \* the idempotency key of each
    WalletOf, Amount, \* the wallet and the gross amount of each
    Notional,         \* its value in NGN, at its own rate snapshot
    NoRequest,        \* what an idle process works on
    WebWorkers,       \* gunicorn workers
    DailyLimit,       \* CRYPTO_WITHDRAW_DAILY_LIMIT_NGN
    MaxFunds,         \* bound: coins in one wallet
    MaxCrashes        \* bound: process crashes in one behaviour

ASSUME WithdrawalAssumption ==
    /\ WalletOf \in [Withdrawals -> Wallets]
    /\ Amount \in [Withdrawals -> Nat \ {0}]
    /\ Notional \in [Withdrawals -> Nat]
    /\ NoRequest \notin Withdrawals
    /\ DailyLimit \in Nat /\ MaxFunds \in Nat /\ MaxCrashes \in Nat

(* gunicorn starts a number of workers, and a day has a number of requests; *)
(* only what is said of the daily limit needs it.                          *)
ASSUME DayAssumption ==
    /\ IsFiniteSet(Withdrawals) /\ Withdrawals # {}
    /\ IsFiniteSet(WebWorkers) /\ WebWorkers # {}

VARIABLES
    status,   \* CryptoWithdrawal.status, "none" before there is a row
    payout,   \* Quidax's side of the withdrawal
    hold,     \* history: what became of the reserved coins
    credits,  \* history: how often a rejection credited the coins
    guessed,  \* history: the request gave up on an answer that may still be yes
    died,     \* history: the request's process was killed
    job,      \* what each process is in the middle of
    crashes   \* processes killed so far

historyVars == <<hold, credits, guessed, died>>
withdrawalVars == <<status, payout, historyVars, job, crashes>>
vars == <<cryptoVars, withdrawalVars>>

Statuses == {"none", "PROCESSING", "COMPLETED", "FAILED", "REJECTED"}
Settled == {"COMPLETED", "FAILED", "REJECTED"}
Steps == {"idle", "reserve", "create", "send", "sent", "release", "fail", "paid", "rejected"}
Jobs == [at : Steps, w : Withdrawals \cup {NoRequest}]

Idle == [at |-> "idle", w |-> NoRequest]
Goes(p, step) == job' = [job EXCEPT ![p].at = step]
Starts(p, w, step) == job[p] = Idle /\ job' = [job EXCEPT ![p] = [at |-> step, w |-> w]]
Ends(p) == job' = [job EXCEPT ![p] = Idle]
IsAt(p, step) == job[p].at = step
InHands(w) == \E p \in WebWorkers : job[p].w = w
RequestSteps == {"reserve", "create", "send", "sent", "release", "fail"}

Init ==
    /\ CryptoLedgerInit
    /\ status = [w \in Withdrawals |-> "none"]
    /\ payout = [w \in Withdrawals |-> "unsent"]
    /\ hold = [w \in Withdrawals |-> "none"]
    /\ credits = [w \in Withdrawals |-> 0]
    /\ guessed = [w \in Withdrawals |-> FALSE]
    /\ died = [w \in Withdrawals |-> FALSE]
    /\ job = [p \in WebWorkers |-> Idle]
    /\ crashes = 0

(* A deposit, or a buy, brings coins. *)
CoinsArrive(c) ==
    /\ available[c] + reserved[c] < MaxFunds
    /\ credit_crypto_available(c, 1)
    /\ UNCHANGED <<elsewhere, withdrawalVars>>

-----------------------------------------------------------------------------
(* The request.                                                            *)

HasRow(w) == status[w] # "none"
KeyTaken(w) == \E v \in Withdrawals : Key[v] = Key[w] /\ HasRow(v)

_daily_withdrawn_ngn ==
    MapThenSumSet(LAMBDA w : Notional[w],
                  {w \in Withdrawals : status[w] \in {"PROCESSING", "COMPLETED"}})

(* The limit is not looked at. *)
MutRequestWithdrawal(p, w) ==
    /\ hold[w] = "none" /\ ~HasRow(w) /\ ~InHands(w)
    /\ ~KeyTaken(w)
    /\ Starts(p, w, "reserve")
    /\ UNCHANGED <<cryptoVars, status, payout, historyVars, crashes>>

(* A request whose key has no row yet and that fits today's limit. *)
request_withdrawal(p, w) ==
    /\ hold[w] = "none" /\ ~HasRow(w) /\ ~InHands(w)
    /\ ~KeyTaken(w)
    /\ _daily_withdrawn_ngn + Notional[w] <= DailyLimit
    /\ Starts(p, w, "reserve")
    /\ UNCHANGED <<cryptoVars, status, payout, historyVars, crashes>>

(* reserve_crypto, or it raises insufficient_balance. *)
Reserve(p) ==
    LET w == job[p].w IN
    /\ IsAt(p, "reserve")
    /\ \/ /\ reserve_crypto(WalletOf[w], Amount[w])
          /\ hold' = [hold EXCEPT ![w] = "held"]
          /\ Goes(p, "create")
       \/ /\ available[WalletOf[w]] < Amount[w]
          /\ Ends(p)
          /\ UNCHANGED <<available, reserved, hold>>
    /\ UNCHANGED <<elsewhere, status, payout, credits, guessed, died, crashes>>

(* A row whatever its key. *)
MutCreate(p) ==
    /\ IsAt(p, "create")
    /\ status' = [status EXCEPT ![job[p].w] = "PROCESSING"]
    /\ Goes(p, "send")
    /\ UNCHANGED <<cryptoVars, payout, historyVars, crashes>>

(* The row, whose idempotency key is unique: with the key taken meanwhile, *)
(* every new reference fails too, and the request ends in an error.        *)
_create_withdrawal_row(p) ==
    LET w == job[p].w IN
    /\ IsAt(p, "create")
    /\ \/ ~KeyTaken(w) /\ status' = [status EXCEPT ![w] = "PROCESSING"] /\ Goes(p, "send")
       \/ KeyTaken(w) /\ Ends(p) /\ UNCHANGED status
    /\ UNCHANGED <<cryptoVars, payout, historyVars, crashes>>

_execute_quidax_withdrawal(p) ==
    /\ IsAt(p, "send")
    /\ payout' = [payout EXCEPT ![job[p].w] = "sent"]
    /\ Goes(p, "sent")
    /\ UNCHANGED <<cryptoVars, status, historyVars, crashes>>

Landed == {"processing", "done", "rejected"}

(* A refusal that leaves the coins reserved. *)
MutRaised(p) ==
    /\ IsAt(p, "sent")
    /\ Goes(p, "fail")
    /\ UNCHANGED <<cryptoVars, status, payout, historyVars, crashes>>

(* Quidax took the request: the reservation is spent. *)
Accepted(p) ==
    LET w == job[p].w IN
    /\ IsAt(p, "sent")
    /\ payout[w] \in Landed
    /\ debit_reserved_crypto(WalletOf[w], Amount[w])
    /\ hold' = [hold EXCEPT ![w] = "spent"]
    /\ Ends(p)
    /\ UNCHANGED <<elsewhere, status, payout, credits, guessed, died, crashes>>

(* A QuidaxError is a refusal, or an answer that did not come (retried by  *)
(* the client, so that the last answer may also refuse a second copy).     *)
Raised(p) ==
    LET w == job[p].w IN
    /\ IsAt(p, "sent")
    /\ guessed' = [guessed EXCEPT ![w] = payout[w] \notin {"refused", "lost"}]
    /\ Goes(p, "release")
    /\ UNCHANGED <<cryptoVars, status, payout, hold, credits, died, crashes>>

Release(p) ==
    LET w == job[p].w IN
    /\ IsAt(p, "release")
    /\ release_reserved_crypto(WalletOf[w], Amount[w])
    /\ hold' = [hold EXCEPT ![w] = "released"]
    /\ Goes(p, "fail")
    /\ UNCHANGED <<elsewhere, status, payout, credits, guessed, died, crashes>>

(* FAILED without a look at the status. *)
MutFail(p) ==
    /\ IsAt(p, "fail")
    /\ status' = [status EXCEPT ![job[p].w] = "FAILED"]
    /\ Ends(p)
    /\ UNCHANGED <<cryptoVars, payout, historyVars, crashes>>

(* The row is left as it was. *)
MutLeaveRow(p) ==
    /\ IsAt(p, "fail")
    /\ Ends(p)
    /\ UNCHANGED <<cryptoVars, status, payout, historyVars, crashes>>

(* After the release, FAILED unless the row was settled meanwhile. *)
Fail(p) ==
    LET w == job[p].w IN
    /\ IsAt(p, "fail")
    /\ status' = [status EXCEPT ![w] = IF @ = "PROCESSING" THEN "FAILED" ELSE @]
    /\ Ends(p)
    /\ UNCHANGED <<cryptoVars, payout, historyVars, crashes>>

-----------------------------------------------------------------------------
(* Reports.                                                                *)

(* handle_withdraw_webhook up to the lock. *)
handle_withdraw_webhook(p, w) ==
    /\ status[w] = "PROCESSING"
    /\ \/ payout[w] = "done" /\ Starts(p, w, "paid")
       \/ payout[w] = "rejected" /\ Starts(p, w, "rejected")
    /\ UNCHANGED <<cryptoVars, status, payout, historyVars, crashes>>

(* The rejection gives the coins back out of the reserved balance. *)
MutReject(w) ==
    /\ status' = [status EXCEPT ![w] = "REJECTED"]
    /\ release_reserved_crypto(WalletOf[w], Amount[w])
    /\ credits' = [credits EXCEPT ![w] = @ + 1]

Complete(w) ==
    /\ status' = [status EXCEPT ![w] = "COMPLETED"]
    /\ UNCHANGED <<available, reserved, credits>>

Reject(w) ==
    /\ status' = [status EXCEPT ![w] = "REJECTED"]
    /\ credit_crypto_available(WalletOf[w], Amount[w])
    /\ credits' = [credits EXCEPT ![w] = @ + 1]

(* The report is applied without a second look at the status. *)
MutSettle(p) ==
    /\ \/ IsAt(p, "paid") /\ Complete(job[p].w)
       \/ IsAt(p, "rejected") /\ Reject(job[p].w)
    /\ Ends(p)
    /\ UNCHANGED <<elsewhere, payout, hold, guessed, died, crashes>>

(* Under the lock, only a row that still is PROCESSING. *)
Settle(p) ==
    LET w == job[p].w IN
    /\ \/ IsAt(p, "paid") /\ status[w] = "PROCESSING" /\ Complete(w)
       \/ IsAt(p, "rejected") /\ status[w] = "PROCESSING" /\ Reject(w)
       \/ /\ IsAt(p, "paid") \/ IsAt(p, "rejected")
          /\ status[w] # "PROCESSING"
          /\ UNCHANGED <<available, reserved, status, credits>>
    /\ Ends(p)
    /\ UNCHANGED <<elsewhere, payout, hold, guessed, died, crashes>>

(* The admin has looked at Quidax, long after the request and its webhook. *)
AdminMay(w) == status[w] = "PROCESSING" /\ ~InHands(w)

admin_complete_withdrawal(w) ==
    /\ AdminMay(w) /\ payout[w] = "done"
    /\ Complete(w)
    /\ UNCHANGED <<elsewhere, payout, hold, guessed, died, job, crashes>>

admin_reject_withdrawal(w) ==
    /\ AdminMay(w) /\ payout[w] \notin {"sent", "processing", "done"}
    /\ Reject(w)
    /\ UNCHANGED <<elsewhere, payout, hold, guessed, died, job, crashes>>

-----------------------------------------------------------------------------
(* Quidax and the machines.                                                *)

QuidaxWithdraws(w, t) ==
    /\ \/ payout[w] = "sent" /\ t \in {"processing", "refused", "lost"}
       \/ payout[w] = "processing" /\ t \in {"done", "rejected"}
    /\ payout' = [payout EXCEPT ![w] = t]
    /\ UNCHANGED <<cryptoVars, status, historyVars, job, crashes>>

Crash(p) ==
    /\ ~IsAt(p, "idle")
    /\ crashes < MaxCrashes
    /\ crashes' = crashes + 1
    /\ died' = IF job[p].at \in RequestSteps THEN [died EXCEPT ![job[p].w] = TRUE] ELSE died
    /\ Ends(p)
    /\ UNCHANGED <<cryptoVars, status, payout, hold, credits, guessed>>

Next ==
    \/ \E c \in Wallets : CoinsArrive(c)
    \/ \E p \in WebWorkers, w \in Withdrawals :
         request_withdrawal(p, w) \/ handle_withdraw_webhook(p, w)
    \/ \E p \in WebWorkers :
         \/ Reserve(p) \/ _create_withdrawal_row(p) \/ _execute_quidax_withdrawal(p)
         \/ Accepted(p) \/ Raised(p) \/ Release(p) \/ Fail(p)
         \/ Settle(p) \/ Crash(p)
    \/ \E w \in Withdrawals : admin_complete_withdrawal(w) \/ admin_reject_withdrawal(w)
    \/ \E w \in Withdrawals, t \in {"refused", "lost"} \cup Landed : QuidaxWithdraws(w, t)
    \/ ElsewhereStep /\ UNCHANGED withdrawalVars

Spec == Init /\ [][Next]_vars

-----------------------------------------------------------------------------
(* Every variable keeps its type; no balance is negative. *)
TypeOK ==
    /\ CryptoLedgerTypeOK
    /\ status \in [Withdrawals -> Statuses]
    /\ payout \in [Withdrawals -> {"unsent", "sent", "refused", "lost"} \cup Landed]
    /\ hold \in [Withdrawals -> {"none", "held", "released", "spent"}]
    /\ credits \in [Withdrawals -> Nat]
    /\ guessed \in [Withdrawals -> BOOLEAN]
    /\ died \in [Withdrawals -> BOOLEAN]
    /\ job \in [WebWorkers -> Jobs]
    /\ crashes \in 0..MaxCrashes

(* The coins are credited back once, and exactly when the withdrawal is    *)
(* REJECTED, however webhooks, admins and the request race.                *)
CreditedIffRejected ==
    \A w \in Withdrawals : credits[w] = IF status[w] = "REJECTED" THEN 1 ELSE 0

(* Coins are given back only if nothing was paid out, unless the request   *)
(* gave up on an unknown outcome (withdrawals.py:232); and only once,      *)
(* unless its process was also killed between its release and FAILED.      *)
ReturnedOnceUnlessGuessed ==
    \A w \in Withdrawals : ~guessed[w] =>
        /\ payout[w] = "done" => hold[w] # "released" /\ credits[w] = 0
        /\ ~died[w] => ~(hold[w] = "released" /\ credits[w] > 0)

(* Coins stay reserved only while their request is under way, or where it  *)
(* was cut short: its process killed, its idempotency key taken meanwhile. *)
HeldWhileRequested ==
    \A w \in Withdrawals : hold[w] = "held" /\ ~died[w] =>
        \/ \E p \in WebWorkers : job[p].w = w /\ job[p].at \in RequestSteps
        \/ KeyTaken(w) /\ ~HasRow(w)

(* The reserved balance is what is held, by withdrawals and by others: no  *)
(* clamp at zero ever hides a difference.                                  *)
ReservedIsHeld ==
    \A c \in Wallets :
        reserved[c] = elsewhere[c]
          + MapThenSumSet(LAMBDA w : Amount[w],
                          {w \in Withdrawals : WalletOf[w] = c /\ hold[w] = "held"})

(* One key pays out once. *)
OnePayoutPerKey ==
    \A v, w \in Withdrawals :
        v # w /\ Key[v] = Key[w] => payout[v] = "unsent" \/ payout[w] = "unsent"

(* The daily limit can be passed by requests that looked at the total at   *)
(* the same time, but by no more than one for each other worker.           *)
DailyLimitHeld ==
    _daily_withdrawn_ngn <= DailyLimit
        + (Cardinality(WebWorkers) - 1) * Max({Notional[w] : w \in Withdrawals})

(* A settled withdrawal is never settled again. *)
SettledStays ==
    [][\A w \in Withdrawals : status[w] \in Settled => status'[w] = status[w]]_vars

-----------------------------------------------------------------------------
(* The inductive invariant of the proofs, in parts. *)

(* What is known of a withdrawal while a process works on it. *)
JobOK(j) ==
    /\ j.at # "idle" => j.w \in Withdrawals
    /\ j.at = "reserve" => hold[j.w] = "none" /\ status[j.w] = "none"
    /\ j.at = "create" => hold[j.w] = "held" /\ status[j.w] = "none"
    /\ j.at = "send" => payout[j.w] = "unsent"
    /\ j.at \in {"send", "sent", "release"} => hold[j.w] = "held"
    /\ j.at \in {"send", "sent", "release", "fail"} =>
          \/ status[j.w] = "PROCESSING"
          \/ status[j.w] # "none" /\ payout[j.w] \in {"done", "rejected"}
    /\ j.at \in {"release", "fail"} => guessed[j.w] \/ payout[j.w] \in {"refused", "lost"}
    /\ j.at = "fail" => hold[j.w] = "released"
    /\ j.at = "paid" => payout[j.w] = "done"
    /\ j.at = "rejected" => payout[j.w] = "rejected"

JobsOK == \A p \in WebWorkers : JobOK(job[p])

OneRequest ==
    \A p, q \in WebWorkers :
        /\ p # q
        /\ job[p].at \in RequestSteps /\ job[q].at \in RequestSteps
        => job[p].w # job[q].w

RowsOK ==
    \A w \in Withdrawals :
        /\ status[w] = "none" => payout[w] = "unsent"
        /\ hold[w] = "none" => status[w] = "none"
        /\ hold[w] = "released" => guessed[w] \/ payout[w] \in {"refused", "lost"}
        /\ status[w] = "REJECTED" => payout[w] \in {"unsent", "refused", "lost", "rejected"}

(* A row whose coins are released becomes FAILED, unless its process dies. *)
FailFollows ==
    \A w \in Withdrawals : hold[w] = "released" /\ status[w] = "PROCESSING" /\ ~died[w] =>
        \E p \in WebWorkers : job[p].w = w /\ job[p].at = "fail"

(* All of it, as one formula that every step keeps. *)
IInv ==
    /\ TypeOK
    /\ JobsOK
    /\ OneRequest
    /\ RowsOK
    /\ FailFollows
    /\ CreditedIffRejected
    /\ ReturnedOnceUnlessGuessed
    /\ HeldWhileRequested

-----------------------------------------------------------------------------
(* Coins are given back because nothing was paid out, and only then: an    *)
(* error of the request is not a refusal.                                  *)
NeverPaidAndReturned ==
    \A w \in Withdrawals :
        payout[w] = "done" => hold[w] # "released" /\ credits[w] = 0
=============================================================================
