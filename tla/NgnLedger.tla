----------------------------- MODULE NgnLedger -----------------------------
(***************************************************************************)
(* The NGN wallet rows (wallet/services.py) and the processes that work on *)
(* them: the gunicorn web workers, each serving one request at a time, and *)
(* the Procfile worker (process_deposit_settlements --loop), which also    *)
(* reconciles withdrawals.  A process runs a request as several database   *)
(* transactions and provider calls; job[p] says between which two of them  *)
(* it is.  Every transaction takes a row lock (select_for_update), so one  *)
(* transaction is one step; an unlocked read is a step of its own, and     *)
(* what it read is kept in job[p].                                         *)
(***************************************************************************)
EXTENDS Integers, FiniteSets

CONSTANTS
    Users,          \* owners of wallets
    Transactions,   \* references of wallet_transaction rows
    Owner, Amount,  \* the user and the amount each reference is requested with
    NoTx,           \* what an idle process works on
    WebWorkers,     \* gunicorn workers
    Settler,        \* the Procfile worker process
    AppAmounts,     \* amounts the other apps debit and credit
    MaxOutside,     \* bound: the other apps credit a wallet only up to here
    MaxCrashes      \* bound: process crashes in one behaviour

ASSUME LedgerAssumption ==
    /\ Owner \in [Transactions -> Users]
    /\ Amount \in [Transactions -> Nat \ {0}]
    /\ NoTx \notin Transactions
    /\ Settler \notin WebWorkers
    /\ AppAmounts \subseteq Nat \ {0}
    /\ MaxOutside \in Nat
    /\ MaxCrashes \in Nat

VARIABLES
    balance,   \* Wallet.ngn_balance of each user
    outside,   \* history: net amount that came into the wallet by other ways than withdrawals
    job,       \* what each process is in the middle of
    crashes    \* processes killed so far

ledgerVars == <<balance, outside, job, crashes>>

Procs == WebWorkers \cup {Settler}

(* at: the next step of the request; tx: its row; says: what the provider  *)
(* answered, or "" before it has.                                          *)
Job(at, tx, says) == [at |-> at, tx |-> tx, says |-> says]
Idle == Job("idle", NoTx, "")

WalletSteps == {"transfer", "refund", "fetched", "settle", "verify", "credit", "deny"}
PurchaseSteps == {"record", "send", "apply", "giveback"}
Steps == {"idle"} \cup WalletSteps \cup PurchaseSteps
FlutterwaveAnswers == {"NEW", "SUCCESSFUL", "FAILED"}
ProviderAnswers == {"processing", "done", "failed", "reversed"}
Answers == {""} \cup FlutterwaveAnswers \cup ProviderAnswers
Jobs == [at : Steps, tx : Transactions \cup {NoTx}, says : Answers]

IsAt(p, step) == job[p].at = step
SetJob(p, j) == job' = [job EXCEPT ![p] = j]

-----------------------------------------------------------------------------
(* The two balance updates: the row is locked, so read and write are one.  *)

HasFunds(u, a) == balance[u] >= a
Debit(u, a) == HasFunds(u, a) /\ balance' = [balance EXCEPT ![u] = @ - a]
Credit(u, a) == balance' = [balance EXCEPT ![u] = @ + a]
Outside(u, a) == outside' = [outside EXCEPT ![u] = @ + a]

-----------------------------------------------------------------------------
LedgerInit ==
    /\ balance = [u \in Users |-> 0]
    /\ outside = [u \in Users |-> 0]
    /\ job = [p \in Procs |-> Idle]
    /\ crashes = 0

(* debit_wallet and credit_wallet as vtu, giftcards, cards and crypto call *)
(* them for purchases, refunds and sale proceeds.                          *)
debit_wallet(u, a) ==
    /\ Debit(u, a)
    /\ Outside(u, 0 - a)
    /\ UNCHANGED <<job, crashes>>

credit_wallet(u, a) ==
    /\ outside[u] + a <= MaxOutside
    /\ Credit(u, a)
    /\ Outside(u, a)
    /\ UNCHANGED <<job, crashes>>

(* A deploy, an OOM kill or gunicorn's --timeout ends a process between    *)
(* two of its steps; its request is gone, what it committed stays.         *)
Crash(p) ==
    /\ crashes < MaxCrashes
    /\ job[p] # Idle
    /\ crashes' = crashes + 1
    /\ SetJob(p, Idle)
    /\ UNCHANGED <<balance, outside>>

LedgerStep ==
    \/ \E u \in Users, a \in AppAmounts : debit_wallet(u, a) \/ credit_wallet(u, a)
    \/ \E p \in Procs : Crash(p)

LedgerTypeOK ==
    /\ balance \in [Users -> Nat]
    /\ outside \in [Users -> Int]
    /\ job \in [Procs -> Jobs]
    /\ crashes \in 0..MaxCrashes
=============================================================================
