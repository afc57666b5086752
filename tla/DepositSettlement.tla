------------------------- MODULE DepositSettlement -------------------------
(***************************************************************************)
(* Settlement of credited crypto deposits (crypto/settlements.py): sweep   *)
(* the coins to the master account, then sell them if the user converts.   *)
(* The Procfile worker drives the rows, web workers record the sweep       *)
(* webhooks, an admin retries what failed, and Quidax is the environment.  *)
(* Every write of a row is a compare-and-set on its status; what a process *)
(* read before it (and asked Quidax meanwhile) is kept in job[p].          *)
(***************************************************************************)
EXTENDS CryptoLedger, FiniteSets

CONSTANTS
    Settlements,      \* CryptoDepositSettlement rows
    WalletOf, Amount, \* the wallet and the coins of each
    NoRow,            \* what an idle process works on
    Workers,          \* processes running process_due
    WebWorkers,       \* gunicorn workers
    MaxAttempts,      \* MAX_ATTEMPTS
    MaxRefs,          \* bound: sweeps and sells of one settlement
    MaxRetries,       \* bound: admin retries of one settlement
    MaxCrashes        \* bound: process crashes in one behaviour

ASSUME SettlementAssumption ==
    /\ WalletOf \in [Settlements -> Wallets]
    /\ Amount \in [Settlements -> Nat \ {0}]
    /\ NoRow \notin Settlements
    /\ MaxAttempts \in Nat \ {0}
    /\ MaxRefs \in Nat /\ MaxRetries \in Nat /\ MaxCrashes \in Nat

VARIABLES
    row,       \* the settlement rows
    order,     \* CryptoOrder.status of each sell
    transfer,  \* Quidax's side of each sweep
    market,    \* Quidax's side of each sell order
    credited,  \* history: how often the proceeds were credited
    retries,   \* history: admin retries
    job,       \* what each process is in the middle of
    crashes    \* processes killed so far

quidaxVars == <<transfer, market>>
historyVars == <<credited, retries>>
settlementVars == <<row, order, quidaxVars, historyVars, job, crashes>>
vars == <<cryptoVars, settlementVars>>

Procs == Workers \cup WebWorkers
Refs == 1..MaxRefs
Statuses == {"none", "PENDING", "SWEEPING", "SWEPT", "SELLING", "COMPLETED", "SKIPPED", "FAILED"}
ACTIVE_STATUSES == {"PENDING", "SWEEPING", "SWEPT", "SELLING"}
Steps == {"idle", "start", "sent", "apply", "release", "hold", "quote", "sell", "resell", "unsold"}
Answers == {"", "done", "short", "rejected", "expired"}

Rows == [status : Statuses, auto_convert : BOOLEAN, reserved : BOOLEAN, swept : BOOLEAN,
         attempts : 0..MaxAttempts, sweep_attempt : 0..MaxRefs, sells : 0..MaxRefs]

Jobs == [at : Steps, s : Settlements \cup {NoRow}, n : 0..MaxRefs,
         attempts : 0..MaxAttempts, says : Answers]

(* The next step of a process, its row, the sweep or sell it is about, the *)
(* attempts it has read and what Quidax said.                              *)
Job(at, s, n, says) ==
    [at |-> at, s |-> s, n |-> n, attempts |-> row[s].attempts, says |-> says]
Idle == [at |-> "idle", s |-> NoRow, n |-> 0, attempts |-> 0, says |-> ""]
SetJob(p, j) == job' = [job EXCEPT ![p] = j]
IsAt(p, step) == job[p].at = step

-----------------------------------------------------------------------------
Init ==
    /\ CryptoLedgerInit
    /\ row = [s \in Settlements |->
                [status |-> "none", auto_convert |-> FALSE, reserved |-> FALSE, swept |-> FALSE,
                 attempts |-> 0, sweep_attempt |-> 0, sells |-> 0]]
    /\ order = [s \in Settlements |-> [k \in Refs |-> "none"]]
    /\ transfer = [s \in Settlements |-> [n \in Refs |-> "unsent"]]
    /\ market = [s \in Settlements |-> [k \in Refs |-> "unsent"]]
    /\ credited = [s \in Settlements |-> 0]
    /\ retries = [s \in Settlements |-> 0]
    /\ job = [p \in Procs |-> Idle]
    /\ crashes = 0

(* create_for_deposit, in the transaction that credits the deposit: with   *)
(* auto-convert on the coins are reserved at once, and are always enough.  *)
create_for_deposit(s, auto) ==
    /\ row[s].status = "none"
    /\ row' = [row EXCEPT ![s].status = "PENDING", ![s].auto_convert = auto, ![s].reserved = auto]
    /\ IF auto THEN /\ reserved' = [reserved EXCEPT ![WalletOf[s]] = @ + Amount[s]]
                    /\ UNCHANGED available
               ELSE credit_crypto_available(WalletOf[s], Amount[s])
    /\ UNCHANGED <<elsewhere, order, quidaxVars, historyVars, job, crashes>>

(* create_backfill_sweep, for a deposit credited before settlements        *)
(* existed: sweep only, and no balance changes.                            *)
create_backfill_sweep(s) ==
    /\ row[s].status = "none"
    /\ row' = [row EXCEPT ![s].status = "PENDING"]
    /\ UNCHANGED <<cryptoVars, order, quidaxVars, historyVars, job, crashes>>

-----------------------------------------------------------------------------
(* A plain save of the row. *)
MutTransition(s, from, r) == row' = [row EXCEPT ![s] = r]

Wins(s, from) == row[s].status = from

(* The compare-and-set: r is stored only if the row is still in `from`. *)
_transition(s, from, r) == row' = IF Wins(s, from) THEN [row EXCEPT ![s] = r] ELSE row

(* The loser of the compare-and-set releases too. *)
MutFail(p, s, from, release) ==
    /\ _transition(s, from, [row[s] EXCEPT !.status = "FAILED"])
    /\ SetJob(p, IF release THEN Job("release", s, 0, "") ELSE Idle)

(* _fail: FAILED, and then, in a transaction of its own and only by the    *)
(* winner, the release.                                                    *)
_fail(p, s, from, release) ==
    /\ _transition(s, from, [row[s] EXCEPT !.status = "FAILED"])
    /\ SetJob(p, IF release /\ Wins(s, from) THEN Job("release", s, 0, "") ELSE Idle)

(* _retry_sweep_later and _retry_sell_later count the attempts they read. *)
RetryLater(p, s, from, back) ==
    LET attempts == job[p].attempts + 1 IN
    IF attempts >= MaxAttempts
    THEN _fail(p, s, from, TRUE)
    ELSE /\ _transition(s, from, [row[s] EXCEPT !.status = back, !.attempts = attempts])
         /\ SetJob(p, Idle)

_retry_sweep_later(p, s, from) == RetryLater(p, s, from, "PENDING")
_retry_sell_later(p, s) == RetryLater(p, s, "SELLING", "SWEPT")

(* A release that does not look at the flag. *)
MutRelease(p) ==
    LET s == job[p].s IN
    /\ IsAt(p, "release")
    /\ release_reserved_crypto(WalletOf[s], Amount[s])
    /\ row' = [row EXCEPT ![s].reserved = FALSE]
    /\ SetJob(p, Idle)
    /\ UNCHANGED <<elsewhere, order, quidaxVars, historyVars, crashes>>

(* _release_reservation: the row is locked; the flag says if there is      *)
(* anything to give back.                                                  *)
_release_reservation(p) ==
    LET s == job[p].s IN
    /\ IsAt(p, "release")
    /\ \/ /\ row[s].reserved
          /\ release_reserved_crypto(WalletOf[s], Amount[s])
          /\ row' = [row EXCEPT ![s].reserved = FALSE]
       \/ ~row[s].reserved /\ UNCHANGED <<available, reserved, row>>
    /\ SetJob(p, Idle)
    /\ UNCHANGED <<elsewhere, order, quidaxVars, historyVars, crashes>>

-----------------------------------------------------------------------------
(* Sweep.                                                                  *)

(* The worker takes up a due row.  After a failed attempt the row is due a *)
(* minute later (_backoff), when the web requests that may have read it    *)
(* before are over (gunicorn --timeout 60).                                *)
LoadPending(p, s) ==
    /\ job[p] = Idle
    /\ row[s].status = "PENDING"
    /\ row[s].sweep_attempt < MaxRefs
    /\ \A q \in WebWorkers : job[q].s # s
    /\ SetJob(p, Job("start", s, row[s].sweep_attempt + 1, ""))
    /\ UNCHANGED <<cryptoVars, row, order, quidaxVars, historyVars, crashes>>

(* _start_sweep up to the transfer: no usable account fails for good; if   *)
(* Quidax does not answer or the coins are not there yet, try again.       *)
SweepNotStarted(p) ==
    LET s == job[p].s IN
    /\ IsAt(p, "start")
    /\ _fail(p, s, "PENDING", TRUE) \/ _retry_sweep_later(p, s, "PENDING")
    /\ UNCHANGED <<cryptoVars, order, quidaxVars, historyVars, crashes>>

(* The claim of the row under a new reference, and the transfer request. *)
_start_sweep(p) ==
    LET s == job[p].s
        n == job[p].n
    IN
    /\ IsAt(p, "start")
    /\ _transition(s, "PENDING", [row[s] EXCEPT !.status = "SWEEPING", !.sweep_attempt = n])
    /\ IF Wins(s, "PENDING")
       THEN /\ SetJob(p, Job("sent", s, n, ""))
            /\ transfer' = [transfer EXCEPT ![s][n] = IF @ = "unsent" THEN "sent" ELSE @]
       ELSE SetJob(p, Idle) /\ UNCHANGED transfer
    /\ UNCHANGED <<cryptoVars, order, market, historyVars, crashes>>

Ended == {"done", "short", "rejected"}

(* The request comes back: with Quidax's record of it, directly or by      *)
(* _resolve_failed_sweep_request's lookup; refused, and nothing on record; *)
(* or unresolved, which is left to the poll.                               *)
SweepAnswered(p) ==
    LET t == transfer[job[p].s][job[p].n] IN
    /\ IsAt(p, "sent")
    /\ \/ t \in Ended /\ SetJob(p, [job[p] EXCEPT !.at = "apply", !.says = t])
       \/ t = "refused" /\ SetJob(p, [job[p] EXCEPT !.at = "apply", !.says = "rejected"])
       \/ SetJob(p, Idle)
    /\ UNCHANGED <<cryptoVars, row, order, quidaxVars, historyVars, crashes>>

(* A poll without its two deadlines. *)
MutPollForever(p, s) ==
    LET n == row[s].sweep_attempt
        t == transfer[s][n]
    IN
    /\ job[p] = Idle
    /\ row[s].status = "SWEEPING"
    /\ t \in Ended
    /\ SetJob(p, Job("apply", s, n, t))
    /\ UNCHANGED <<cryptoVars, row, order, quidaxVars, historyVars, crashes>>

(* _poll_sweep reads the row and looks its reference up.  It gives up on a *)
(* sweep that is not on record after ten minutes, or still not final or    *)
(* still not known after a day; by then no request is on the wire.         *)
_poll_sweep(p, s) ==
    LET n == row[s].sweep_attempt
        t == transfer[s][n]
    IN
    /\ job[p] = Idle
    /\ row[s].status = "SWEEPING"
    /\ \/ t \in Ended /\ SetJob(p, Job("apply", s, n, t))
       \/ t # "sent" /\ SetJob(p, Job("apply", s, n, "expired"))
    /\ UNCHANGED <<cryptoVars, row, order, quidaxVars, historyVars, crashes>>

(* handle_sweep_webhook up to the compare-and-set: only the current        *)
(* reference of a row that is SWEEPING.                                    *)
handle_sweep_webhook(p, s) ==
    LET n == row[s].sweep_attempt IN
    /\ job[p] = Idle
    /\ row[s].status = "SWEEPING"
    /\ transfer[s][n] \in Ended
    /\ SetJob(p, Job("apply", s, n, transfer[s][n]))
    /\ UNCHANGED <<cryptoVars, row, order, quidaxVars, historyVars, crashes>>

(* Any "done" is taken, and a sweep given up on is sent again. *)
MutApplySweepResult(p) ==
    LET s == job[p].s IN
    /\ IsAt(p, "apply")
    /\ \/ /\ job[p].says \in {"done", "short"}
          /\ _transition(s, "SWEEPING",
                [row[s] EXCEPT !.status = "SWEPT", !.swept = TRUE, !.attempts = 0])
          /\ SetJob(p, Idle)
       \/ job[p].says = "rejected" /\ _retry_sweep_later(p, s, "SWEEPING")
       \/ job[p].says = "expired" /\ _retry_sweep_later(p, s, "SWEEPING")
    /\ UNCHANGED <<cryptoVars, order, quidaxVars, historyVars, crashes>>

(* _apply_sweep_result: done moves on, done with another amount is for an  *)
(* admin, rejected tries again; and the poll's giving up.                  *)
_apply_sweep_result(p) ==
    LET s == job[p].s IN
    /\ IsAt(p, "apply")
    /\ \/ /\ job[p].says = "done"
          /\ _transition(s, "SWEEPING",
                [row[s] EXCEPT !.status = "SWEPT", !.swept = TRUE, !.attempts = 0])
          /\ SetJob(p, Idle)
       \/ job[p].says = "short" /\ _fail(p, s, "SWEEPING", FALSE)
       \/ job[p].says = "rejected" /\ _retry_sweep_later(p, s, "SWEEPING")
       \/ job[p].says = "expired" /\ _fail(p, s, "SWEEPING", TRUE)
    /\ UNCHANGED <<cryptoVars, order, quidaxVars, historyVars, crashes>>

-----------------------------------------------------------------------------
(* Sell.                                                                   *)

(* The worker takes up a SWEPT row: hold, or ask for a quote. *)
LoadSwept(p, s) ==
    /\ job[p] = Idle
    /\ row[s].status = "SWEPT"
    /\ SetJob(p, Job(IF row[s].auto_convert THEN "quote" ELSE "hold", s, 0, ""))
    /\ UNCHANGED <<cryptoVars, row, order, quidaxVars, historyVars, crashes>>

CompleteHold(p) ==
    LET s == job[p].s IN
    /\ IsAt(p, "hold")
    /\ _transition(s, "SWEPT", [row[s] EXCEPT !.status = "COMPLETED"])
    /\ SetJob(p, Idle)
    /\ UNCHANGED <<cryptoVars, order, quidaxVars, historyVars, crashes>>

(* SKIPPED, and the reservation forgotten. *)
MutSkipConversion(p) ==
    LET s == job[p].s IN
    /\ IsAt(p, "quote")
    /\ _transition(s, "SWEPT", [row[s] EXCEPT !.status = "SKIPPED"])
    /\ SetJob(p, Idle)
    /\ UNCHANGED <<cryptoVars, order, quidaxVars, historyVars, crashes>>

(* No NGN market, below the minimum, or nothing left after the fee. *)
_skip_conversion(p) ==
    LET s == job[p].s IN
    /\ IsAt(p, "quote")
    /\ _transition(s, "SWEPT", [row[s] EXCEPT !.status = "SKIPPED"])
    /\ SetJob(p, IF Wins(s, "SWEPT") THEN Job("release", s, 0, "") ELSE Idle)
    /\ UNCHANGED <<cryptoVars, order, quidaxVars, historyVars, crashes>>

(* No rate to quote: wait, without a limit.  (More attempts than           *)
(* MAX_ATTEMPTS make no difference to anything and are not counted.)       *)
QuoteFailed(p) ==
    LET s == job[p].s
        attempts == IF job[p].attempts < MaxAttempts THEN job[p].attempts + 1 ELSE MaxAttempts
    IN
    /\ IsAt(p, "quote")
    /\ _transition(s, "SWEPT", [row[s] EXCEPT !.attempts = attempts])
    /\ SetJob(p, Idle)
    /\ UNCHANGED <<cryptoVars, order, quidaxVars, historyVars, crashes>>

(* The quote, a new order and SELLING in one transaction, rolled back by   *)
(* _LostRace; then the market order goes out.                              *)
StartSell(p) ==
    LET s == job[p].s
        k == row[s].sells + 1
    IN
    /\ IsAt(p, "quote")
    /\ k \in Refs
    /\ _transition(s, "SWEPT", [row[s] EXCEPT !.status = "SELLING", !.sells = k])
    /\ IF Wins(s, "SWEPT")
       THEN /\ SetJob(p, Job("sell", s, k, ""))
            /\ order' = [order EXCEPT ![s][k] = "open"]
            /\ market' = [market EXCEPT ![s][k] = "sent"]
       ELSE SetJob(p, Idle) /\ UNCHANGED <<order, market>>
    /\ UNCHANGED <<cryptoVars, transfer, historyVars, crashes>>

(* complete_sell and COMPLETED in one transaction, unless the row has left *)
(* SELLING: then everything is rolled back.                                *)
SellDone(p) ==
    LET s == job[p].s
        k == job[p].n
    IN
    /\ IsAt(p, "sell")
    /\ market[s][k] = "executed"
    /\ IF Wins(s, "SELLING")
       THEN /\ order' = [order EXCEPT ![s][k] = "completed"]
            /\ debit_reserved_crypto(WalletOf[s], Amount[s])
            /\ credited' = [credited EXCEPT ![s] = @ + 1]
            /\ row' = [row EXCEPT ![s].status = "COMPLETED", ![s].reserved = FALSE]
       ELSE UNCHANGED <<order, available, reserved, credited, row>>
    /\ SetJob(p, Idle)
    /\ UNCHANGED <<elsewhere, quidaxVars, retries, crashes>>

(* A sell whose outcome is unknown is sent again. *)
MutSellFailed(p) ==
    LET s == job[p].s
        k == job[p].n
    IN
    /\ IsAt(p, "sell")
    /\ order' = [order EXCEPT ![s][k] = "failed"]
    /\ SetJob(p, [job[p] EXCEPT !.at = "resell"])
    /\ UNCHANGED <<cryptoVars, row, quidaxVars, historyVars, crashes>>

(* _fail_order, when Quidax refused the sell (4xx) or its answer is not    *)
(* known (a timeout or a 5xx, whatever became of the order).               *)
SellFailed(p) ==
    LET s == job[p].s
        k == job[p].n
    IN
    /\ IsAt(p, "sell")
    /\ order' = [order EXCEPT ![s][k] = "failed"]
    /\ \/ market[s][k] = "refused" /\ SetJob(p, [job[p] EXCEPT !.at = "resell"])
       \/ SetJob(p, [job[p] EXCEPT !.at = "unsold"])
    /\ UNCHANGED <<cryptoVars, row, quidaxVars, historyVars, crashes>>

AfterFailedSell(p) ==
    /\ \/ IsAt(p, "resell") /\ _retry_sell_later(p, job[p].s)
       \/ IsAt(p, "unsold") /\ _fail(p, job[p].s, "SELLING", FALSE)
    /\ UNCHANGED <<cryptoVars, order, quidaxVars, historyVars, crashes>>

(* _check_stale_sell: ten minutes after it started, when the request is    *)
(* long over, a sell nobody finished goes to an admin.                     *)
_check_stale_sell(p, s) ==
    /\ job[p] = Idle
    /\ row[s].status = "SELLING"
    /\ \A q \in Procs : job[q].s = s => job[q].at \notin {"sell", "resell", "unsold"}
    /\ _fail(p, s, "SELLING", FALSE)
    /\ UNCHANGED <<cryptoVars, order, quidaxVars, historyVars, crashes>>

(* admin_retry, once the admin has looked: no process is still working on  *)
(* the row.  FAILED resumes after the last confirmed step; the coins are   *)
(* reserved again if they are still there, else the row only sweeps.       *)
admin_retry(s) ==
    LET again == row[s].auto_convert /\ ~row[s].reserved
        resumed == [row[s] EXCEPT
                      !.status = IF row[s].swept THEN "SWEPT" ELSE "PENDING", !.attempts = 0]
    IN
    /\ row[s].status = "FAILED"
    /\ retries[s] < MaxRetries
    /\ \A p \in Procs : job[p].s # s
    /\ \/ /\ again
          /\ reserve_crypto(WalletOf[s], Amount[s])
          /\ row' = [row EXCEPT ![s] = [resumed EXCEPT !.reserved = TRUE]]
       \/ /\ again /\ available[WalletOf[s]] < Amount[s]
          /\ row' = [row EXCEPT ![s] = [resumed EXCEPT !.auto_convert = FALSE]]
          /\ UNCHANGED <<available, reserved>>
       \/ /\ ~again
          /\ row' = [row EXCEPT ![s] = resumed]
          /\ UNCHANGED <<available, reserved>>
    /\ retries' = [retries EXCEPT ![s] = @ + 1]
    /\ UNCHANGED <<elsewhere, order, quidaxVars, credited, job, crashes>>

-----------------------------------------------------------------------------
(* Quidax and the machines.                                                *)

(* A transfer request lands, is refused, or is lost; one that landed ends. *)
QuidaxTransfers(s, n, t) ==
    /\ \/ transfer[s][n] = "sent" /\ t \in {"processing", "refused", "lost"}
       \/ transfer[s][n] = "processing" /\ t \in Ended
    /\ transfer' = [transfer EXCEPT ![s][n] = t]
    /\ UNCHANGED <<cryptoVars, row, order, market, historyVars, job, crashes>>

QuidaxSells(s, k, t) ==
    /\ market[s][k] = "sent"
    /\ t \in {"executed", "refused", "lost"}
    /\ market' = [market EXCEPT ![s][k] = t]
    /\ UNCHANGED <<cryptoVars, row, order, transfer, historyVars, job, crashes>>

Crash(p) ==
    /\ job[p] # Idle
    /\ crashes < MaxCrashes
    /\ crashes' = crashes + 1
    /\ SetJob(p, Idle)
    /\ UNCHANGED <<cryptoVars, row, order, quidaxVars, historyVars>>

(* What process_settlement takes up, and how a request goes on. *)
TakeUp(p, s) ==
    LoadPending(p, s) \/ _poll_sweep(p, s) \/ LoadSwept(p, s) \/ _check_stale_sell(p, s)

GoOn(p) ==
    \/ SweepNotStarted(p) \/ _start_sweep(p) \/ SweepAnswered(p) \/ _apply_sweep_result(p)
    \/ _release_reservation(p)
    \/ CompleteHold(p) \/ _skip_conversion(p) \/ QuoteFailed(p) \/ StartSell(p)
    \/ SellDone(p) \/ SellFailed(p) \/ AfterFailedSell(p)

Next ==
    \/ \E s \in Settlements, auto \in BOOLEAN : create_for_deposit(s, auto)
    \/ \E s \in Settlements : create_backfill_sweep(s) \/ admin_retry(s)
    \/ \E p \in Workers, s \in Settlements : TakeUp(p, s)
    \/ \E p \in WebWorkers, s \in Settlements : handle_sweep_webhook(p, s)
    \/ \E p \in Procs : GoOn(p) \/ Crash(p)
    \/ \E s \in Settlements, n \in Refs, t \in {"processing", "refused", "lost"} \cup Ended :
         QuidaxTransfers(s, n, t)
    \/ \E s \in Settlements, k \in Refs, t \in {"executed", "refused", "lost"} :
         QuidaxSells(s, k, t)
    \/ ElsewhereStep /\ UNCHANGED settlementVars

Spec == Init /\ [][Next]_vars

(* The worker loop visits every due row again and again and goes on with   *)
(* what it took up; a price is quoted in the end; a request on the wire    *)
(* lands or is lost.  Webhooks, admins and what Quidax makes of a transfer *)
(* are not fair.                                                           *)
Fairness ==
    /\ \A p \in Procs : WF_vars(GoOn(p))
    /\ \A p \in Workers : SF_vars(_skip_conversion(p) \/ StartSell(p))
    /\ \A p \in Workers, s \in Settlements :
         /\ SF_vars(LoadPending(p, s))
         /\ SF_vars(_poll_sweep(p, s))
         /\ SF_vars(LoadSwept(p, s))
         /\ SF_vars(_check_stale_sell(p, s))
    /\ \A s \in Settlements, n \in Refs :
         WF_vars(\E t \in {"processing", "refused", "lost"} :
                   transfer[s][n] = "sent" /\ QuidaxTransfers(s, n, t))

FairSpec == Spec /\ Fairness

-----------------------------------------------------------------------------
(* Every variable keeps its type; no balance is negative. *)
TypeOK ==
    /\ CryptoLedgerTypeOK
    /\ row \in [Settlements -> Rows]
    /\ order \in [Settlements -> [Refs -> {"none", "open", "completed", "failed"}]]
    /\ transfer \in [Settlements ->
                       [Refs -> {"unsent", "sent", "processing", "refused", "lost"} \cup Ended]]
    /\ market \in [Settlements -> [Refs -> {"unsent", "sent", "executed", "refused", "lost"}]]
    /\ credited \in [Settlements -> Nat]
    /\ retries \in [Settlements -> 0..MaxRetries]
    /\ job \in [Procs -> Jobs]
    /\ crashes \in 0..MaxCrashes

(* Nothing sells until Quidax reports the sweep done, through every retry  *)
(* and restart.                                                            *)
NothingSellsUnswept ==
    \A s \in Settlements, k \in Refs :
        market[s][k] # "unsent" => \E n \in Refs : transfer[s][n] = "done"

(* The user is paid once, exactly when the settlement completed a sell     *)
(* that Quidax executed, and then nothing stays reserved for it.           *)
PaidOnceIffSold ==
    \A s \in Settlements :
        LET completed == {k \in Refs : order[s][k] = "completed"} IN
        /\ credited[s] = IF completed # {} THEN 1 ELSE 0
        /\ \A k \in completed :
             market[s][k] = "executed" /\ row[s].status = "COMPLETED" /\ ~row[s].reserved

(* A sweep is sent again only after Quidax rejected or never received the  *)
(* last one, or an admin decided it.                                       *)
SweepsDoNotOverlap ==
    \A s \in Settlements :
        Cardinality({n \in Refs : transfer[s][n] \in {"sent", "processing", "done"}})
            <= 1 + retries[s]

(* Neither is a sell whose outcome is unknown: only one refused by Quidax, *)
(* or on an admin's word.                                                  *)
SellsDoNotOverlap ==
    \A s \in Settlements :
        Cardinality({k \in Refs : market[s][k] \in {"sent", "executed"}}) <= 1 + retries[s]

(* Coins on their way to a sale are reserved. *)
ConvertingIsReserved ==
    \A s \in Settlements :
        row[s].auto_convert /\ row[s].status \in ACTIVE_STATUSES => row[s].reserved

(* A settlement that kept the user's crypto gives it back in a transaction *)
(* after the one that says so: until then a process has it in hand, unless *)
(* one was killed, which leaves the coins reserved for good.               *)
SkippedIsGivenBack ==
    \A s \in Settlements :
        row[s].status = "SKIPPED" /\ row[s].reserved =>
            \/ \E p \in Procs : IsAt(p, "release") /\ job[p].s = s
            \/ crashes > 0

(* What is settled stays settled, whatever late answers, webhooks and      *)
(* retries still come in.                                                  *)
SettledStays ==
    [][\A s \in Settlements : row[s].status \in {"COMPLETED", "SKIPPED"} =>
          row'[s].status = row[s].status /\ credited'[s] = credited[s]]_vars

-----------------------------------------------------------------------------
(* The inductive invariant of the proofs: rows that are past the sweep     *)
(* have one that is done, a process in the middle of a sell has an open    *)
(* order of its own, and "done" on its way to a row is so at Quidax.       *)
SweptRows ==
    \A s \in Settlements :
        /\ row[s].status \in {"SWEPT", "SELLING"} => row[s].swept
        /\ row[s].swept => \E n \in Refs : transfer[s][n] = "done"
        /\ row[s].status = "SWEEPING" => row[s].sweep_attempt \in Refs

JobsOK ==
    \A p \in Procs :
        LET j == job[p] IN
        /\ j.at # "idle" => j.s \in Settlements
        /\ j.at \in {"start", "sent"} => j.n \in Refs
        /\ j.at = "apply" /\ j.says = "done" => j.n \in Refs /\ transfer[j.s][j.n] = "done"
        /\ j.at = "sell" =>
             /\ j.n \in Refs /\ j.n <= row[j.s].sells
             /\ order[j.s][j.n] = "open"

SellsApart ==
    \A p, q \in Procs :
        /\ p # q
        /\ job[p].at = "sell" /\ job[q].at = "sell"
        /\ job[p].s = job[q].s
        => job[p].n # job[q].n

(* All of it, with what it implies, as one formula every step keeps. *)
IInv ==
    /\ TypeOK
    /\ SweptRows
    /\ JobsOK
    /\ SellsApart
    /\ NothingSellsUnswept
    /\ PaidOnceIffSold

-----------------------------------------------------------------------------
(* Three more, row by row, for what the processes that hold the row may    *)
(* still do with it.                                                       *)
WorksOn(p, s) == job[p].s = s

(* Coins on their way to a sale are reserved; a release is on its way only *)
(* after the row ended, and only an admin moves it after that.             *)
RowClaims(s) ==
    /\ row[s].status = "none" =>
          ~row[s].reserved /\ ~row[s].auto_convert /\ \A p \in Procs : ~WorksOn(p, s)
    /\ row[s].status = "SELLING" => row[s].auto_convert
    /\ row[s].auto_convert /\ row[s].status \in ACTIVE_STATUSES => row[s].reserved
    /\ row[s].status = "SKIPPED" /\ row[s].reserved =>
          (\E p \in Procs : IsAt(p, "release") /\ WorksOn(p, s)) \/ crashes > 0
    /\ \A p \in Procs : WorksOn(p, s) =>
          /\ IsAt(p, "release") => row[s].status \in {"FAILED", "SKIPPED"}
          /\ IsAt(p, "quote") => row[s].auto_convert

(* One process at most is in the middle of a sell, the row's newest; those *)
(* before it are refused or lost, but for one that an admin gave up on     *)
(* each time.                                                              *)
SellSteps == {"sell", "resell", "unsold"}
LiveSells(s) == {k \in Refs : market[s][k] \in {"sent", "executed"}}

RowSells(s) ==
    /\ \A k \in Refs : k > row[s].sells => market[s][k] = "unsent"
    /\ \A p \in Procs : WorksOn(p, s) /\ job[p].at \in SellSteps =>
          /\ row[s].status = "SELLING"
          /\ job[p].n = row[s].sells
          /\ IsAt(p, "resell") => job[p].n \in Refs /\ market[s][job[p].n] = "refused"
    /\ \A p, q \in Procs :
          /\ WorksOn(p, s) /\ job[p].at \in SellSteps
          /\ WorksOn(q, s) /\ job[q].at \in SellSteps
          => p = q
    /\ Cardinality(LiveSells(s) \ {row[s].sells}) <= retries[s]
    /\ row[s].status \in {"none", "PENDING", "SWEEPING", "SWEPT"} =>
          Cardinality(LiveSells(s)) <= retries[s]

(* With one worker, the same of sweeps: nobody else has the row while the  *)
(* worker starts one, so an answer is about the row's newest.              *)
LiveSweeps(s) == {n \in Refs : transfer[s][n] \in {"sent", "processing", "done"}}

RowSweeps(s) ==
    /\ \A n \in Refs : n > row[s].sweep_attempt => transfer[s][n] = "unsent"
    /\ \A p \in Procs : WorksOn(p, s) /\ IsAt(p, "start") =>
          /\ p \in Workers
          /\ row[s].status = "PENDING" /\ job[p].n = row[s].sweep_attempt + 1
          /\ \A q \in Procs : WorksOn(q, s) => q = p
    /\ \A p \in Procs : WorksOn(p, s) /\ job[p].at \in {"sent", "apply"} =>
          /\ row[s].status = "SWEEPING" => job[p].n = row[s].sweep_attempt
          /\ IsAt(p, "apply") /\ job[p].says = "rejected" =>
                job[p].n \in Refs /\ transfer[s][job[p].n] \in {"rejected", "refused"}
    /\ Cardinality(LiveSweeps(s) \ {row[s].sweep_attempt}) <= retries[s]
    /\ row[s].status \in {"none", "PENDING"} => Cardinality(LiveSweeps(s)) <= retries[s]

RowsInHand == \A s \in Settlements : RowClaims(s) /\ RowSells(s)
SweepsInHand == \A s \in Settlements : RowSweeps(s)

-----------------------------------------------------------------------------
ClaimOf(s) ==
    IF row[s].status = "none" THEN "none"
    ELSE IF row[s].reserved THEN "held"
    ELSE IF credited[s] > 0 THEN "spent" ELSE "free"

Claimed == INSTANCE Reservations WITH
    Claims <- Settlements,
    claim <- [s \in Settlements |-> ClaimOf(s)]

(* The reserved flags and the wallets move together: settlements hold,     *)
(* give back and spend their coins as claims do.                           *)
SettlementsAreClaims == Claimed!ReservationsSpec

(* Every settlement comes to an end, or to an admin. *)
SettlementEnds ==
    \A s \in Settlements :
        row[s].status \in ACTIVE_STATUSES ~> row[s].status \notin ACTIVE_STATUSES
=============================================================================
