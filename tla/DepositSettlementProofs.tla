---------------------- MODULE DepositSettlementProofs ----------------------
(***************************************************************************)
(* Nothing sells unswept, the user is paid once, what is settled stays     *)
(* settled, sells and sweeps do not overlap and the coins are reserved     *)
(* while they should be, for any number of settlements, attempts, retries  *)
(* and crashes.                                                            *)
(***************************************************************************)
EXTENDS DepositSettlement, Sums, TLAPS

USE DEF quidaxVars, historyVars

(* What a compare-and-set may make of a row that sells nothing: it sweeps  *)
(* under a reference, is past the sweep only if a sweep is done, and does  *)
(* not leave COMPLETED.                                                    *)
Legal(s, r) ==
    /\ r \in Rows
    /\ r.sells = row[s].sells
    /\ row[s].status # "COMPLETED"
    /\ r.status \in {"SWEPT", "SELLING"} => r.swept
    /\ r.swept => \E n \in Refs : transfer[s][n] = "done"
    /\ r.status = "SWEEPING" => r.sweep_attempt \in Refs

SellsKept == \A t \in Settlements : row'[t].sells = row[t].sells

RowsOK ==
    /\ row \in [Settlements -> Rows]
    /\ SweptRows
    /\ NothingSellsUnswept
    /\ PaidOnceIffSold

-----------------------------------------------------------------------------
(* A legal change of one row keeps what is said of rows. *)
LEMMA LegalRow ==
    ASSUME IInv, NEW s \in Settlements, NEW r, Legal(s, r), row' = [row EXCEPT ![s] = r],
           UNCHANGED <<order, transfer, market, credited>>
    PROVE  RowsOK' /\ SellsKept
<1> USE DEF IInv, TypeOK
<1>1. row' \in [Settlements -> Rows] /\ SellsKept
    BY DEF Legal, SellsKept
<1>2. SweptRows'
    BY DEF Legal, SweptRows
<1>3. NothingSellsUnswept'
    BY DEF NothingSellsUnswept
<1>4. PaidOnceIffSold'
    <2>1. \A k \in Refs : order[s][k] # "completed"
        BY DEF Legal, PaidOnceIffSold
    <2>2. \A t \in Settlements \ {s} : row'[t] = row[t]
        OBVIOUS
    <2>3. QED
        BY <2>1, <2>2 DEF PaidOnceIffSold
<1>5. QED
    BY <1>1, <1>2, <1>3, <1>4 DEF RowsOK

(* A step that leaves the rows alone. *)
LEMMA SameRows ==
    ASSUME IInv, UNCHANGED <<row, order, transfer, market, credited>>
    PROVE  RowsOK' /\ SellsKept
BY DEF IInv, TypeOK, RowsOK, SellsKept, SweptRows, NothingSellsUnswept, PaidOnceIffSold

(* A compare-and-set that is legal if it wins. *)
LEMMA TransitionOK ==
    ASSUME IInv, NEW s \in Settlements, NEW from, NEW r, _transition(s, from, r),
           Wins(s, from) => Legal(s, r),
           UNCHANGED <<order, transfer, market, credited>>
    PROVE  RowsOK' /\ SellsKept
<1>1. CASE Wins(s, from)
    BY <1>1, LegalRow DEF _transition
<1>2. CASE ~Wins(s, from)
    BY <1>2, SameRows DEF _transition
<1>3. QED
    BY <1>1, <1>2

-----------------------------------------------------------------------------
(* A job that fits the rows. *)
Fits(j) ==
    /\ j \in Jobs
    /\ j.at # "sell"
    /\ j.at # "idle" => j.s \in Settlements
    /\ j.at \in {"start", "sent"} => j.n \in Refs
    /\ j.at = "apply" /\ j.says = "done" => j.n \in Refs /\ transfer'[j.s][j.n] = "done"

DoneStays ==
    \A s \in Settlements, n \in Refs : transfer[s][n] = "done" => transfer'[s][n] = "done"

JobsTyped == job \in [Procs -> Jobs] /\ JobsOK /\ SellsApart

(* A process that takes up a job other than a sell. *)
LEMMA JobStep ==
    ASSUME IInv, NEW p \in Procs, NEW j, SetJob(p, j), Fits(j), SellsKept, DoneStays,
           UNCHANGED order
    PROVE  JobsTyped'
<1> USE DEF IInv, TypeOK
<1>1. job' \in [Procs -> Jobs] /\ job'[p] = j /\ \A q \in Procs \ {p} : job'[q] = job[q]
    BY DEF SetJob, Fits
<1>2. JobsOK'
    <2>1. SUFFICES ASSUME NEW q \in Procs
                   PROVE  LET i == job'[q] IN
                          /\ i.at # "idle" => i.s \in Settlements
                          /\ i.at \in {"start", "sent"} => i.n \in Refs
                          /\ i.at = "apply" /\ i.says = "done" =>
                                i.n \in Refs /\ transfer'[i.s][i.n] = "done"
                          /\ i.at = "sell" =>
                               /\ i.n \in Refs /\ i.n <= row'[i.s].sells
                               /\ order'[i.s][i.n] = "open"
        BY DEF JobsOK
    <2>2. CASE q = p
        BY <1>1, <2>2 DEF Fits
    <2>3. CASE q # p
        <3>1. job'[q] = job[q]
            BY <1>1, <2>3
        <3>2. job[q].at \in {"start", "sent", "apply", "sell"} => job[q].s \in Settlements
            BY DEF JobsOK
        <3>3. QED
            BY <3>1, <3>2 DEF JobsOK, SellsKept, DoneStays
    <2>4. QED
        BY <2>2, <2>3
<1>3. SellsApart'
    BY <1>1 DEF SellsApart, Fits
<1>4. QED
    BY <1>1, <1>2, <1>3 DEF JobsTyped

(* No process does anything. *)
LEMMA SameJobs ==
    ASSUME IInv, UNCHANGED <<job, order>>, SellsKept, DoneStays
    PROVE  JobsTyped'
<1> USE DEF IInv, TypeOK
<1>1. JobsOK'
    <2>1. ASSUME NEW q \in Procs, job[q].at \in {"start", "sent", "apply", "sell"}
          PROVE  job[q].s \in Settlements
        BY <2>1 DEF JobsOK
    <2>2. QED
        BY <2>1 DEF JobsOK, SellsKept, DoneStays
<1>2. QED
    BY <1>1 DEF JobsTyped, SellsApart

(* The idle job fits. *)
LEMMA IdleFits == Fits(Idle)
BY SettlementAssumption DEF Fits, Idle, Jobs, Steps, Answers

(* The jobs the actions set, as long as the attempts are typed. *)
LEMMA JobFits ==
    ASSUME IInv, NEW s \in Settlements, NEW at \in Steps \ {"sell"}, NEW n \in 0..MaxRefs,
           NEW says \in Answers,
           at \in {"start", "sent"} => n \in Refs,
           at = "apply" /\ says = "done" => n \in Refs /\ transfer'[s][n] = "done"
    PROVE  Fits(Job(at, s, n, says))
<1>1. row[s].attempts \in 0..MaxAttempts
    BY DEF IInv, TypeOK, Rows
<1>2. QED
    BY <1>1 DEF Fits, Job, Jobs

(* A job that is about no sweep in particular. *)
LEMMA PlainJobFits ==
    ASSUME IInv, NEW s \in Settlements, NEW at \in {"release", "hold", "quote", "resell", "unsold"},
           NEW n \in 0..MaxRefs
    PROVE  Fits(Job(at, s, n, ""))
<1>1. row[s].attempts \in 0..MaxAttempts
    BY DEF IInv, TypeOK, Rows
<1>2. QED
    BY <1>1 DEF Fits, Job, Jobs, Steps, Answers

(* A process that goes on with the row it has, and knows an answer. *)
LEMMA GoingOnFits ==
    ASSUME IInv, NEW p \in Procs, job[p].s \in Settlements, job[p].n \in Refs,
           NEW at \in {"apply", "resell", "unsold"}, NEW says \in Answers,
           at = "apply" /\ says = "done" => transfer'[job[p].s][job[p].n] = "done"
    PROVE  Fits([job[p] EXCEPT !.at = at, !.says = says])
<1>1. job[p] \in Jobs
    BY DEF IInv, TypeOK
<1>2. QED
    BY <1>1 DEF Fits, Jobs, Steps

(* The parts make the invariant. *)
LEMMA Together ==
    ASSUME CryptoLedgerTypeOK', RowsOK', JobsTyped',
           order' \in [Settlements -> [Refs -> {"none", "open", "completed", "failed"}]],
           transfer' \in [Settlements ->
                   [Refs -> {"unsent", "sent", "processing", "refused", "lost"} \cup Ended]],
           market' \in [Settlements -> [Refs -> {"unsent", "sent", "executed", "refused", "lost"}]],
           credited' \in [Settlements -> Nat],
           retries' \in [Settlements -> 0..MaxRetries],
           crashes' \in 0..MaxCrashes
    PROVE  IInv'
BY DEF IInv, TypeOK, RowsOK, JobsTyped

(* A step of a process that changes at most its job and, legally, its row. *)
LEMMA RowStep ==
    ASSUME IInv, NEW p \in Procs, NEW j, SetJob(p, j), Fits(j), RowsOK', SellsKept,
           UNCHANGED <<cryptoVars, order, quidaxVars, historyVars, crashes>>
    PROVE  IInv'
<1>1. DoneStays
    BY DEF DoneStays
<1>2. JobsTyped'
    BY <1>1, JobStep
<1>3. CryptoLedgerTypeOK'
    BY DEF IInv, TypeOK, CryptoLedgerTypeOK, cryptoVars
<1>4. QED
    BY <1>2, <1>3, Together DEF IInv, TypeOK

(* A process that only learns or gives up something. *)
LEMMA JobOnly ==
    ASSUME IInv, NEW p \in Procs, NEW j, SetJob(p, j), Fits(j),
           UNCHANGED <<cryptoVars, row, order, quidaxVars, historyVars, crashes>>
    PROVE  IInv'
<1>1. RowsOK' /\ SellsKept
    BY SameRows
<1>2. QED
    BY <1>1, RowStep

-----------------------------------------------------------------------------
(* _fail, from any active status. *)
LEMMA FailOK ==
    ASSUME IInv, NEW p \in Procs, NEW s \in Settlements, NEW from \in ACTIVE_STATUSES,
           NEW release \in BOOLEAN, _fail(p, s, from, release),
           UNCHANGED <<order, transfer, market, credited>>
    PROVE  RowsOK' /\ SellsKept /\ \E j : SetJob(p, j) /\ Fits(j)
<1>1. ASSUME Wins(s, from) PROVE Legal(s, [row[s] EXCEPT !.status = "FAILED"])
    <2>1. row[s] \in Rows
        BY DEF IInv, TypeOK
    <2>2. row[s].swept => \E n \in Refs : transfer[s][n] = "done"
        BY DEF IInv, SweptRows
    <2>3. QED
        BY <1>1, <2>1, <2>2 DEF Legal, Wins, Rows, Statuses, ACTIVE_STATUSES
<1>2. RowsOK' /\ SellsKept
    BY <1>1, TransitionOK DEF _fail
<1>3. Fits(Job("release", s, 0, ""))
    <2>1. 0 \in 0..MaxRefs
        BY SettlementAssumption
    <2>2. QED
        BY <2>1, PlainJobFits
<1>4. QED
    BY <1>2, <1>3, IdleFits DEF _fail

(* Trying again later: a sweep back in PENDING, a sell back in SWEPT. *)
LEMMA RetryOK ==
    ASSUME IInv, NEW p \in Procs, NEW s \in Settlements,
           NEW from \in ACTIVE_STATUSES, NEW back \in {"PENDING", "SWEPT"},
           back = "SWEPT" => from = "SELLING",
           RetryLater(p, s, from, back),
           UNCHANGED <<order, transfer, market, credited>>
    PROVE  RowsOK' /\ SellsKept /\ \E j : SetJob(p, j) /\ Fits(j)
<1> DEFINE attempts == job[p].attempts + 1
<1>1. CASE attempts >= MaxAttempts
    BY <1>1, FailOK DEF RetryLater
<1>2. CASE ~(attempts >= MaxAttempts)
    <2> DEFINE r == [row[s] EXCEPT !.status = back, !.attempts = attempts]
    <2>1. row[s] \in Rows /\ job[p] \in Jobs
        BY DEF IInv, TypeOK
    <2>2. attempts \in 0..MaxAttempts
        BY <1>2, <2>1, SettlementAssumption DEF Jobs
    <2>3. r \in Rows /\ r.status = back /\ r.sells = row[s].sells /\ r.swept = row[s].swept
        BY <2>1, <2>2 DEF Rows, Statuses
    <2>4. Wins(s, from) => Legal(s, r)
        BY <2>3 DEF Legal, Wins, IInv, SweptRows, ACTIVE_STATUSES
    <2>5. _transition(s, from, r) /\ SetJob(p, Idle)
        BY <1>2 DEF RetryLater
    <2> HIDE DEF r
    <2>6. QED
        BY <2>4, <2>5, TransitionOK, IdleFits
<1>3. QED
    BY <1>1, <1>2

-----------------------------------------------------------------------------
(* The steps of a sweep keep the invariant. *)
LEMMA SweepNotStartedInv ==
    ASSUME IInv, NEW p \in Procs, SweepNotStarted(p)
    PROVE  IInv'
<1> DEFINE s == job[p].s
<1>1. s \in Settlements
    BY DEF SweepNotStarted, IsAt, IInv, JobsOK
<1>2. RowsOK' /\ SellsKept /\ \E j : SetJob(p, j) /\ Fits(j)
    <2>1. CASE _fail(p, s, "PENDING", TRUE)
        BY <1>1, <2>1, FailOK DEF SweepNotStarted, ACTIVE_STATUSES
    <2>2. CASE _retry_sweep_later(p, s, "PENDING")
        BY <1>1, <2>2, RetryOK DEF SweepNotStarted, _retry_sweep_later, ACTIVE_STATUSES
    <2>3. QED
        BY <2>1, <2>2 DEF SweepNotStarted
<1>3. QED
    BY <1>2, RowStep DEF SweepNotStarted

(* Applying the result of a sweep keeps the invariant.                     *)
LEMMA ApplySweepResultInv ==
    ASSUME IInv, NEW p \in Procs, _apply_sweep_result(p)
    PROVE  IInv'
<1> DEFINE s == job[p].s
<1>1. s \in Settlements
    BY DEF _apply_sweep_result, IsAt, IInv, JobsOK
<1>2. RowsOK' /\ SellsKept /\ \E j : SetJob(p, j) /\ Fits(j)
    <2>1. CASE job[p].says = "done" /\ SetJob(p, Idle)
                 /\ _transition(s, "SWEEPING",
                       [row[s] EXCEPT !.status = "SWEPT", !.swept = TRUE, !.attempts = 0])
        <3> DEFINE r == [row[s] EXCEPT !.status = "SWEPT", !.swept = TRUE, !.attempts = 0]
        <3>1. row[s] \in Rows
            BY <1>1 DEF IInv, TypeOK
        <3>2. r \in Rows /\ r.sells = row[s].sells /\ r.swept /\ r.status = "SWEPT"
            <4>1. 0 \in 0..MaxAttempts /\ "SWEPT" \in Statuses
                BY SettlementAssumption DEF Statuses
            <4>2. QED
                BY <3>1, <4>1 DEF Rows
        <3>3. job[p].n \in Refs /\ transfer[s][job[p].n] = "done"
            BY <2>1 DEF _apply_sweep_result, IsAt, IInv, JobsOK
        <3>4. Wins(s, "SWEEPING") => Legal(s, r)
            BY <3>2, <3>3 DEF Legal, Wins
        <3> HIDE DEF r
        <3>5. _transition(s, "SWEEPING", r)
            BY <2>1 DEF r
        <3>6. QED
            BY <1>1, <2>1, <3>4, <3>5, TransitionOK, IdleFits DEF _apply_sweep_result
    <2>2. CASE _fail(p, s, "SWEEPING", FALSE) \/ _fail(p, s, "SWEEPING", TRUE)
        BY <1>1, <2>2, FailOK DEF _apply_sweep_result, ACTIVE_STATUSES
    <2>3. CASE _retry_sweep_later(p, s, "SWEEPING")
        BY <1>1, <2>3, RetryOK DEF _apply_sweep_result, _retry_sweep_later, ACTIVE_STATUSES
    <2>4. QED
        BY <2>1, <2>2, <2>3 DEF _apply_sweep_result
<1>3. QED
    BY <1>2, RowStep DEF _apply_sweep_result

(* A new reference, and its request on the wire unless it was used before. *)
LEMMA StartSweepInv ==
    ASSUME IInv, NEW p \in Procs, _start_sweep(p)
    PROVE  IInv'
<1> DEFINE s == job[p].s
           n == job[p].n
           r == [row[s] EXCEPT !.status = "SWEEPING", !.sweep_attempt = n]
<1>1. s \in Settlements /\ n \in Refs /\ n \in 0..MaxRefs
    <2>1. s \in Settlements /\ n \in Refs
        BY DEF _start_sweep, IsAt, IInv, JobsOK
    <2>2. QED
        BY <2>1, SettlementAssumption DEF Refs
<1>2. CASE Wins(s, "PENDING")
    <2>1. row[s] \in Rows
        BY <1>1 DEF IInv, TypeOK
    <2>2. r \in Rows /\ r.sells = row[s].sells /\ r.swept = row[s].swept
              /\ r.status = "SWEEPING" /\ r.sweep_attempt = n
        BY <1>1, <2>1 DEF Rows, Statuses
    <2> HIDE DEF r
    <2>3. row' = [row EXCEPT ![s] = r] /\ SetJob(p, Job("sent", s, n, ""))
          /\ transfer' = [transfer EXCEPT ![s][n] = IF @ = "unsent" THEN "sent" ELSE @]
          /\ UNCHANGED <<cryptoVars, order, market, historyVars, crashes>>
        BY <1>2 DEF _start_sweep, _transition, r
    <2>4. transfer' \in [Settlements ->
              [Refs -> {"unsent", "sent", "processing", "refused", "lost"} \cup Ended]]
        BY <1>1, <2>3 DEF IInv, TypeOK
    <2>5. DoneStays
        BY <1>1, <2>3 DEF DoneStays, IInv, TypeOK
    <2>6. SellsKept /\ row' \in [Settlements -> Rows]
        BY <2>2, <2>3 DEF SellsKept, IInv, TypeOK
    <2>7. SweptRows'
        BY <1>1, <2>2, <2>3, <2>5 DEF SweptRows, DoneStays, IInv, TypeOK
    <2>8. NothingSellsUnswept'
        BY <2>3, <2>5 DEF NothingSellsUnswept, DoneStays, IInv
    <2>9. PaidOnceIffSold'
        <3>1. \A k \in Refs : order[s][k] # "completed"
            BY <1>1, <1>2 DEF Wins, IInv, PaidOnceIffSold
        <3>2. \A t \in Settlements \ {s} : row'[t] = row[t]
            BY <2>3 DEF IInv, TypeOK
        <3>3. QED
            BY <2>3, <3>1, <3>2 DEF IInv, PaidOnceIffSold
    <2>10. Fits(Job("sent", s, n, ""))
        <3>1. row[s].attempts \in 0..MaxAttempts
            BY <2>1 DEF Rows
        <3>2. QED
            BY <1>1, <3>1 DEF Fits, Job, Jobs, Steps, Answers
    <2>11. JobsTyped'
        BY <2>3, <2>5, <2>6, <2>10, JobStep
    <2>12. CryptoLedgerTypeOK'
        BY <2>3 DEF IInv, TypeOK, CryptoLedgerTypeOK, cryptoVars
    <2>13. RowsOK'
        BY <2>6, <2>7, <2>8, <2>9 DEF RowsOK
    <2>14. QED
        BY <2>3, <2>4, <2>11, <2>12, <2>13, Together DEF IInv, TypeOK
<1>3. CASE ~Wins(s, "PENDING")
    BY <1>3, JobOnly, IdleFits DEF _start_sweep, _transition
<1>4. QED
    BY <1>2, <1>3

(* Reading a row, and hearing of its sweep. *)
LEMMA ListenInv ==
    ASSUME IInv, NEW p \in Procs, NEW s \in Settlements,
           LoadPending(p, s) \/ SweepAnswered(p) \/ _poll_sweep(p, s)
             \/ handle_sweep_webhook(p, s) \/ LoadSwept(p, s)
    PROVE  IInv'
<1>1. /\ UNCHANGED <<cryptoVars, row, order, quidaxVars, historyVars, crashes>>
      /\ \A t \in Settlements : row[t] \in Rows
    BY DEF LoadPending, SweepAnswered, _poll_sweep, handle_sweep_webhook, LoadSwept, IInv, TypeOK
<1>2. ASSUME NEW t \in Settlements, NEW n \in 0..MaxRefs, NEW says \in Answers,
             says = "done" => n \in Refs /\ transfer[t][n] = "done"
      PROVE  Fits(Job("apply", t, n, says))
    BY <1>1, <1>2, JobFits DEF Steps
<1>3. CASE LoadPending(p, s)
    <2>1. row[s].sweep_attempt + 1 \in Refs /\ row[s].sweep_attempt + 1 \in 0..MaxRefs
        <3>1. row[s].sweep_attempt \in 0..MaxRefs /\ row[s].sweep_attempt < MaxRefs
            BY <1>1, <1>3 DEF LoadPending, Rows
        <3>2. QED
            BY <3>1, SettlementAssumption DEF Refs
    <2>2. Fits(Job("start", s, row[s].sweep_attempt + 1, ""))
        BY <2>1, JobFits DEF Steps, Answers
    <2>3. QED
        BY <1>1, <1>3, <2>2, JobOnly DEF LoadPending
<1>4. CASE SweepAnswered(p)
    <2> DEFINE u == job[p].s
               n == job[p].n
    <2>1. u \in Settlements /\ n \in Refs /\ n \in 0..MaxRefs
        <3>1. u \in Settlements /\ n \in Refs
            BY <1>4 DEF SweepAnswered, IsAt, IInv, JobsOK
        <3>2. QED
            BY <3>1, SettlementAssumption DEF Refs
    <2>2. CASE /\ transfer[u][n] \in Ended
               /\ SetJob(p, [job[p] EXCEPT !.at = "apply", !.says = transfer[u][n]])
        <3>1. transfer[u][n] \in Answers
            BY <2>2 DEF Ended, Answers
        <3>2. Fits([job[p] EXCEPT !.at = "apply", !.says = transfer[u][n]])
            BY <1>1, <2>1, <3>1, GoingOnFits DEF Steps
        <3>3. QED
            BY <1>1, <2>2, <3>2, JobOnly
    <2>3. CASE SetJob(p, [job[p] EXCEPT !.at = "apply", !.says = "rejected"])
        <3>1. Fits([job[p] EXCEPT !.at = "apply", !.says = "rejected"])
            BY <2>1, GoingOnFits DEF Steps, Answers
        <3>2. QED
            BY <1>1, <2>3, <3>1, JobOnly
    <2>4. CASE SetJob(p, Idle)
        BY <1>1, <2>4, IdleFits, JobOnly
    <2>5. QED
        BY <1>4, <2>2, <2>3, <2>4 DEF SweepAnswered
<1>5. CASE _poll_sweep(p, s) \/ handle_sweep_webhook(p, s)
    <2> DEFINE n == row[s].sweep_attempt
    <2>1. n \in Refs /\ n \in 0..MaxRefs
        BY <1>1, <1>5 DEF _poll_sweep, handle_sweep_webhook, IInv, SweptRows, Rows
    <2>2. CASE transfer[s][n] \in Ended /\ SetJob(p, Job("apply", s, n, transfer[s][n]))
        <3>1. transfer[s][n] \in Answers
            BY <2>2 DEF Ended, Answers
        <3>2. Fits(Job("apply", s, n, transfer[s][n]))
            BY <1>2, <2>1, <3>1
        <3>3. QED
            BY <1>1, <2>2, <3>2, JobOnly
    <2>3. CASE SetJob(p, Job("apply", s, n, "expired"))
        <3>1. Fits(Job("apply", s, n, "expired"))
            BY <1>2, <2>1 DEF Answers
        <3>2. QED
            BY <1>1, <2>3, <3>1, JobOnly
    <2>4. QED
        BY <1>5, <2>2, <2>3 DEF _poll_sweep, handle_sweep_webhook
<1>6. CASE LoadSwept(p, s)
    <2>1. 0 \in 0..MaxRefs
        BY SettlementAssumption
    <2>2. Fits(Job("quote", s, 0, "")) /\ Fits(Job("hold", s, 0, ""))
        BY <2>1, PlainJobFits
    <2>3. CASE row[s].auto_convert
        BY <1>1, <1>6, <2>2, <2>3, JobOnly DEF LoadSwept
    <2>4. CASE ~row[s].auto_convert
        BY <1>1, <1>6, <2>2, <2>4, JobOnly DEF LoadSwept
    <2>5. QED
        BY <2>3, <2>4
<1>7. QED
    BY <1>3, <1>4, <1>5, <1>6

-----------------------------------------------------------------------------
(* The balance updates keep the balances natural numbers. *)
LEMMA LedgerTyped ==
    ASSUME CryptoLedgerTypeOK, NEW c \in Wallets, NEW a \in Nat,
           \/ credit_crypto_available(c, a)
           \/ reserve_crypto(c, a)
           \/ release_reserved_crypto(c, a)
           \/ debit_reserved_crypto(c, a)
    PROVE  available' \in [Wallets -> Nat] /\ reserved' \in [Wallets -> Nat]
<1>1. \A x, y \in Nat : x >= y => x - y \in Nat
    OBVIOUS
<1>2. \A x, y \in Nat : Minus(x, y) \in Nat
    BY <1>1 DEF Minus
<1>3. CASE credit_crypto_available(c, a)
    BY <1>3 DEF credit_crypto_available, CryptoLedgerTypeOK
<1>4. CASE reserve_crypto(c, a)
    BY <1>1, <1>4 DEF reserve_crypto, CryptoLedgerTypeOK
<1>5. CASE release_reserved_crypto(c, a)
    <2>1. available' \in [Wallets -> Nat]
        BY <1>5 DEF release_reserved_crypto, CryptoLedgerTypeOK
    <2>2. reserved' \in [Wallets -> Nat]
        BY <1>2, <1>5 DEF release_reserved_crypto, CryptoLedgerTypeOK
    <2>3. QED
        BY <2>1, <2>2
<1>6. CASE debit_reserved_crypto(c, a)
    BY <1>2, <1>6 DEF debit_reserved_crypto, CryptoLedgerTypeOK
<1>7. QED
    BY <1>3, <1>4, <1>5, <1>6

(* What others reserve, give back and spend. *)
LEMMA ElsewhereInv ==
    ASSUME IInv, ElsewhereStep, UNCHANGED settlementVars
    PROVE  IInv'
<1> USE DEF settlementVars
<1>1. CryptoLedgerTypeOK'
    <2>1. PICK c \in Wallets : ElsewhereReserves(c) \/ ElsewhereEnds(c)
        BY DEF ElsewhereStep
    <2>2. CryptoLedgerTypeOK
        BY DEF IInv, TypeOK
    <2>3. available' \in [Wallets -> Nat] /\ reserved' \in [Wallets -> Nat]
        BY <2>1, <2>2, LedgerTyped DEF ElsewhereReserves, ElsewhereEnds
    <2>4. elsewhere' \in [Wallets -> 0..MaxElsewhere]
        BY <2>1, <2>2, CryptoLedgerAssumption
           DEF ElsewhereReserves, ElsewhereEnds, CryptoLedgerTypeOK
    <2>5. QED
        BY <2>3, <2>4 DEF CryptoLedgerTypeOK
<1>2. RowsOK' /\ SellsKept
    BY SameRows
<1>3. JobsTyped'
    BY <1>2, SameJobs DEF DoneStays
<1>4. QED
    BY <1>1, <1>2, <1>3, Together DEF IInv, TypeOK

(* A new settlement, with its deposit's credit or for an old one. *)
LEMMA CreateInv ==
    ASSUME IInv, NEW s \in Settlements, NEW auto \in BOOLEAN,
           create_for_deposit(s, auto) \/ create_backfill_sweep(s)
    PROVE  IInv'
<1> DEFINE r == [row[s] EXCEPT !.status = "PENDING", !.auto_convert = auto, !.reserved = auto]
           b == [row[s] EXCEPT !.status = "PENDING"]
<1>1. row[s] \in Rows /\ row[s].status = "none" /\ UNCHANGED <<order, quidaxVars, historyVars, job, crashes>>
    BY DEF create_for_deposit, create_backfill_sweep, IInv, TypeOK
<1>2. row' = [row EXCEPT ![s] = r] \/ row' = [row EXCEPT ![s] = b]
    BY DEF create_for_deposit, create_backfill_sweep
<1>3. Legal(s, r) /\ Legal(s, b)
    <2>1. r \in Rows /\ r.status = "PENDING" /\ r.sells = row[s].sells /\ r.swept = row[s].swept
        BY <1>1 DEF Rows, Statuses
    <2>2. b \in Rows /\ b.status = "PENDING" /\ b.sells = row[s].sells /\ b.swept = row[s].swept
        BY <1>1 DEF Rows, Statuses
    <2> HIDE DEF r, b
    <2>3. QED
        BY <1>1, <2>1, <2>2 DEF Legal, IInv, SweptRows
<1> HIDE DEF r, b
<1>4. RowsOK' /\ SellsKept
    BY <1>1, <1>2, <1>3, LegalRow
<1>5. JobsTyped'
    BY <1>1, <1>4, SameJobs DEF DoneStays
<1>6. CryptoLedgerTypeOK'
    <2>1. CryptoLedgerTypeOK /\ WalletOf[s] \in Wallets /\ Amount[s] \in Nat
        BY SettlementAssumption DEF IInv, TypeOK
    <2>2. CASE UNCHANGED cryptoVars
        BY <2>1, <2>2 DEF CryptoLedgerTypeOK, cryptoVars
    <2>3. CASE credit_crypto_available(WalletOf[s], Amount[s]) /\ UNCHANGED elsewhere
        BY <2>1, <2>3, LedgerTyped DEF CryptoLedgerTypeOK
    <2>4. CASE /\ reserved' = [reserved EXCEPT ![WalletOf[s]] = @ + Amount[s]]
               /\ UNCHANGED <<available, elsewhere>>
        BY <2>1, <2>4 DEF CryptoLedgerTypeOK
    <2>5. QED
        BY <2>2, <2>3, <2>4 DEF create_for_deposit, create_backfill_sweep
<1>7. QED
    BY <1>1, <1>4, <1>5, <1>6, Together DEF IInv, TypeOK

(* The release of a reservation. *)
LEMMA ReleaseInv ==
    ASSUME IInv, NEW p \in Procs, _release_reservation(p)
    PROVE  IInv'
<1> DEFINE s == job[p].s
<1>1. s \in Settlements /\ SetJob(p, Idle)
      /\ UNCHANGED <<elsewhere, order, quidaxVars, historyVars, crashes>>
    BY DEF _release_reservation, IsAt, IInv, JobsOK
<1>2. CASE ~row[s].reserved /\ UNCHANGED <<available, reserved, row>>
    BY <1>1, <1>2, IdleFits, JobOnly DEF cryptoVars
<1>3. CASE /\ row[s].reserved
           /\ release_reserved_crypto(WalletOf[s], Amount[s])
           /\ row' = [row EXCEPT ![s].reserved = FALSE]
    <2>1. row' \in [Settlements -> Rows] /\ SellsKept
          /\ \A t \in Settlements :
                /\ row'[t].status = row[t].status /\ row'[t].swept = row[t].swept
                /\ row'[t].sweep_attempt = row[t].sweep_attempt
                /\ row'[t].reserved => row[t].reserved
        BY <1>1, <1>3 DEF IInv, TypeOK, Rows, SellsKept
    <2>2. SweptRows' /\ NothingSellsUnswept'
        BY <1>1, <2>1 DEF IInv, SweptRows, NothingSellsUnswept
    <2>3. PaidOnceIffSold'
        BY <1>1, <2>1 DEF IInv, PaidOnceIffSold
    <2>4. JobsTyped'
        BY <1>1, <2>1, IdleFits, JobStep DEF DoneStays
    <2>5. CryptoLedgerTypeOK'
        <3>1. CryptoLedgerTypeOK /\ WalletOf[s] \in Wallets /\ Amount[s] \in Nat
            BY <1>1, SettlementAssumption DEF IInv, TypeOK
        <3>2. QED
            BY <1>1, <1>3, <3>1, LedgerTyped DEF CryptoLedgerTypeOK
    <2>6. RowsOK'
        BY <2>1, <2>2, <2>3 DEF RowsOK
    <2>7. QED
        BY <1>1, <2>4, <2>5, <2>6, Together DEF IInv, TypeOK
<1>4. QED
    BY <1>2, <1>3 DEF _release_reservation

-----------------------------------------------------------------------------
(* The ways a swept row goes on without selling. *)
LEMMA NoSellInv ==
    ASSUME IInv, NEW p \in Procs, CompleteHold(p) \/ _skip_conversion(p) \/ QuoteFailed(p)
    PROVE  IInv'
<1> DEFINE s == job[p].s
           a == IF job[p].attempts < MaxAttempts THEN job[p].attempts + 1 ELSE MaxAttempts
           c == [row[s] EXCEPT !.status = "COMPLETED"]
           k == [row[s] EXCEPT !.status = "SKIPPED"]
           q == [row[s] EXCEPT !.attempts = a]
<1>1. s \in Settlements /\ job[p] \in Jobs
      /\ UNCHANGED <<cryptoVars, order, quidaxVars, historyVars, crashes>>
    BY DEF CompleteHold, _skip_conversion, QuoteFailed, IsAt, IInv, TypeOK, JobsOK
<1>2. row[s] \in Rows
    BY <1>1 DEF IInv, TypeOK
<1>3. a \in 0..MaxAttempts
    BY <1>1, SettlementAssumption DEF Jobs
<1>4. ASSUME Wins(s, "SWEPT") PROVE Legal(s, c) /\ Legal(s, k) /\ Legal(s, q)
    <2>1. row[s].status = "SWEPT" /\ row[s].swept => \E n \in Refs : transfer[s][n] = "done"
        BY <1>1, <1>4 DEF Wins, IInv, SweptRows
    <2>2. c \in Rows /\ c.status = "COMPLETED" /\ c.sells = row[s].sells /\ c.swept = row[s].swept
        BY <1>2 DEF Rows, Statuses
    <2>3. k \in Rows /\ k.status = "SKIPPED" /\ k.sells = row[s].sells /\ k.swept = row[s].swept
        BY <1>2 DEF Rows, Statuses
    <2>4. q \in Rows /\ q.status = row[s].status /\ q.sells = row[s].sells /\ q.swept = row[s].swept
        BY <1>2, <1>3 DEF Rows
    <2>5. row[s].status = "SWEPT" /\ row[s].swept
        BY <1>1, <1>4 DEF Wins, IInv, SweptRows
    <2> HIDE DEF c, k, q
    <2>6. Legal(s, c) /\ Legal(s, k)
        BY <2>1, <2>2, <2>3, <2>5 DEF Legal
    <2>7. Legal(s, q)
        BY <2>1, <2>4, <2>5 DEF Legal
    <2>8. QED
        BY <2>6, <2>7
<1>5. Fits(Job("release", s, 0, ""))
    <2>1. 0 \in 0..MaxRefs
        BY SettlementAssumption
    <2>2. QED
        BY <1>1, <2>1, PlainJobFits
<1> HIDE DEF a
<1>6. /\ _transition(s, "SWEPT", c) \/ _transition(s, "SWEPT", k) \/ _transition(s, "SWEPT", q)
      /\ SetJob(p, Idle) \/ SetJob(p, Job("release", s, 0, ""))
    BY DEF CompleteHold, _skip_conversion, QuoteFailed, a
<1> HIDE DEF c, k, q
<1>7. RowsOK' /\ SellsKept
    BY <1>1, <1>4, <1>6, TransitionOK
<1>8. QED
    BY <1>1, <1>5, <1>6, <1>7, IdleFits, RowStep

(* A sell starts: an order that no process has is open. *)
LEMMA StartSellInv ==
    ASSUME IInv, NEW p \in Procs, StartSell(p)
    PROVE  IInv'
<1> DEFINE s == job[p].s
           k == row[s].sells + 1
           r == [row[s] EXCEPT !.status = "SELLING", !.sells = k]
           j == Job("sell", s, k, "")
<1>1. s \in Settlements /\ k \in Refs
      /\ UNCHANGED <<cryptoVars, transfer, historyVars, crashes>>
    BY DEF StartSell, IsAt, IInv, JobsOK
<1>2. CASE Wins(s, "SWEPT")
    <2>1. /\ row' = [row EXCEPT ![s] = r]
          /\ SetJob(p, j)
          /\ order' = [order EXCEPT ![s][k] = "open"]
          /\ market' = [market EXCEPT ![s][k] = "sent"]
        BY <1>2 DEF StartSell, _transition
    <2>2. row[s] \in Rows /\ k \in 0..MaxRefs /\ row[s].sells \in 0..MaxRefs
        BY <1>1, SettlementAssumption DEF IInv, TypeOK, Rows, Refs
    <2>3. r \in Rows /\ r.status = "SELLING" /\ r.sells = k /\ r.swept = row[s].swept
        BY <2>2 DEF Rows, Statuses
    <2>4. row[s].status = "SWEPT" /\ row[s].swept
          /\ \E n \in Refs : transfer[s][n] = "done"
        BY <1>1, <1>2 DEF Wins, IInv, SweptRows
    <2>5. j \in Jobs /\ j.at = "sell" /\ j.s = s /\ j.n = k
        <3>1. row[s].attempts \in 0..MaxAttempts
            BY <2>2 DEF Rows
        <3>2. QED
            BY <1>1, <2>2, <3>1 DEF Job, Jobs, Steps, Answers
    <2> HIDE DEF r, j
    <2>6. row' \in [Settlements -> Rows] /\ row'[s] = r
          /\ \A t \in Settlements \ {s} : row'[t] = row[t]
        BY <1>1, <2>1, <2>3 DEF IInv, TypeOK
    <2>7. job' \in [Procs -> Jobs] /\ job'[p] = j /\ \A q \in Procs \ {p} : job'[q] = job[q]
        BY <2>1, <2>5 DEF SetJob, IInv, TypeOK
    <2>8. /\ order' \in [Settlements -> [Refs -> {"none", "open", "completed", "failed"}]]
          /\ order'[s][k] = "open"
          /\ \A t \in Settlements, i \in Refs : order'[t][i] # order[t][i] => t = s /\ i = k
        BY <1>1, <2>1 DEF IInv, TypeOK
    <2>9. /\ market' \in [Settlements -> [Refs -> {"unsent", "sent", "executed", "refused", "lost"}]]
          /\ \A t \in Settlements, i \in Refs : market'[t][i] # market[t][i] => t = s /\ i = k
        BY <1>1, <2>1 DEF IInv, TypeOK
    <2>10. SweptRows'
        BY <1>1, <2>3, <2>4, <2>6 DEF SweptRows, IInv
    <2>11. NothingSellsUnswept'
        BY <1>1, <2>4, <2>9 DEF NothingSellsUnswept, IInv
    <2>12. PaidOnceIffSold'
        <3>1. \A i \in Refs : order[s][i] # "completed"
            BY <1>1, <2>4 DEF IInv, PaidOnceIffSold
        <3>2. \A t \in Settlements, i \in Refs :
                order'[t][i] = "completed" <=> order[t][i] = "completed"
            BY <2>8, <3>1, <1>1
        <3>3. \A i \in Refs : order'[s][i] # "completed"
            BY <1>1, <3>1, <3>2
        <3>4. ASSUME NEW t \in Settlements \ {s}
              PROVE  row'[t] = row[t] /\ \A i \in Refs : market'[t][i] = market[t][i]
            BY <2>6, <2>9
        <3>5. credited' = credited
            BY <1>1
        <3>6. QED
            BY <3>1, <3>2, <3>3, <3>4, <3>5 DEF IInv, PaidOnceIffSold
    <2>13. ASSUME NEW q \in Procs \ {p}, job[q].at = "sell"
           PROVE  /\ job[q].s \in Settlements /\ job[q].n \in Refs
                  /\ job[q].n <= row[job[q].s].sells
                  /\ order[job[q].s][job[q].n] = "open"
        BY <2>13 DEF IInv, JobsOK
    <2>14. \A q \in Procs \ {p} : job[q].at = "sell" /\ job[q].s = s => job[q].n # k
        BY <2>13, <2>2 DEF Refs
    <2>15. JobsOK'
        <3>1. ASSUME NEW q \in Procs \ {p}, job[q].at = "sell"
              PROVE  /\ job[q].n <= row'[job[q].s].sells
                     /\ order'[job[q].s][job[q].n] = "open"
            <4>1. order'[job[q].s][job[q].n] = "open"
                BY <2>8, <2>13, <3>1
            <4>2. job[q].n \in Nat /\ job[q].n <= row[job[q].s].sells /\ row[s].sells \in Nat
                <5>1. job[q].n \in Refs /\ job[q].n <= row[job[q].s].sells
                    BY <2>13, <3>1
                <5>2. QED
                    BY <2>2, <5>1, SettlementAssumption DEF Refs
            <4>3. CASE job[q].s = s
                <5>1. row'[job[q].s].sells = row[s].sells + 1
                    BY <2>3, <2>6, <4>3
                <5>2. job[q].n <= row[s].sells
                    BY <4>2, <4>3
                <5>3. job[q].n <= row[s].sells + 1
                    BY <4>2, <5>2
                <5>4. QED
                    BY <4>1, <5>1, <5>3
            <4>4. CASE job[q].s # s
                <5>1. job[q].s \in Settlements
                    BY <2>13, <3>1
                <5>2. row'[job[q].s] = row[job[q].s]
                    BY <2>6, <4>4, <5>1
                <5>3. QED
                    BY <4>1, <4>2, <5>2
            <4>5. QED
                BY <4>3, <4>4
        <3>2. ASSUME NEW q \in Procs \ {p}
              PROVE  LET i == job'[q] IN
                     /\ i.at # "idle" => i.s \in Settlements
                     /\ i.at \in {"start", "sent"} => i.n \in Refs
                     /\ i.at = "apply" /\ i.says = "done" =>
                           i.n \in Refs /\ transfer'[i.s][i.n] = "done"
                     /\ i.at = "sell" =>
                          /\ i.n \in Refs /\ i.n <= row'[i.s].sells
                          /\ order'[i.s][i.n] = "open"
            BY <1>1, <2>7, <3>1 DEF IInv, JobsOK
        <3>3. /\ j.s \in Settlements /\ j.n \in Refs /\ j.n <= row'[j.s].sells
              /\ order'[j.s][j.n] = "open"
            BY <1>1, <2>2, <2>3, <2>5, <2>6, <2>8 DEF Refs
        <3>4. QED
            BY <2>5, <2>7, <3>2, <3>3 DEF JobsOK
    <2>16. SellsApart'
        BY <2>5, <2>7, <2>14 DEF SellsApart, IInv
    <2>17. CryptoLedgerTypeOK'
        BY <1>1 DEF IInv, TypeOK, CryptoLedgerTypeOK, cryptoVars
    <2>18. RowsOK' /\ JobsTyped'
        BY <2>6, <2>7, <2>10, <2>11, <2>12, <2>15, <2>16 DEF RowsOK, JobsTyped
    <2>19. QED
        BY <1>1, <2>8, <2>9, <2>17, <2>18, Together DEF IInv, TypeOK
<1>3. CASE ~Wins(s, "SWEPT")
    BY <1>1, <1>3, JobOnly, IdleFits DEF StartSell, _transition
<1>4. QED
    BY <1>2, <1>3

(* A sell comes to its end: the orders of the other processes are others. *)
LEMMA SellEnds ==
    ASSUME IInv, NEW p \in Procs, IsAt(p, "sell"), NEW j, SetJob(p, j), Fits(j), SellsKept,
           UNCHANGED transfer,
           NEW x, order' = [order EXCEPT ![job[p].s][job[p].n] = x]
    PROVE  JobsTyped'
<1> USE DEF IInv, TypeOK
<1>1. job' \in [Procs -> Jobs] /\ job'[p] = j /\ \A q \in Procs \ {p} : job'[q] = job[q]
    BY DEF SetJob, Fits
<1>2. ASSUME NEW q \in Procs \ {p}, job[q].at = "sell"
      PROVE  /\ job[q].s \in Settlements /\ job[q].n \in Refs
             /\ job[q].n <= row'[job[q].s].sells
             /\ order'[job[q].s][job[q].n] = "open"
    <2>1. /\ job[q].s \in Settlements /\ job[q].n \in Refs
          /\ job[q].n <= row[job[q].s].sells
          /\ order[job[q].s][job[q].n] = "open"
        BY <1>2 DEF JobsOK
    <2>2. job[q].s = job[p].s => job[q].n # job[p].n
        BY <1>2 DEF SellsApart, IsAt
    <2>3. order'[job[q].s][job[q].n] = order[job[q].s][job[q].n]
        BY <2>1, <2>2
    <2>4. QED
        BY <2>1, <2>3 DEF SellsKept
<1>3. ASSUME NEW q \in Procs
      PROVE  LET i == job'[q] IN
             /\ i.at # "idle" => i.s \in Settlements
             /\ i.at \in {"start", "sent"} => i.n \in Refs
             /\ i.at = "apply" /\ i.says = "done" =>
                   i.n \in Refs /\ transfer'[i.s][i.n] = "done"
             /\ i.at = "sell" =>
                  /\ i.n \in Refs /\ i.n <= row'[i.s].sells
                  /\ order'[i.s][i.n] = "open"
    <2>1. CASE q = p
        BY <1>1, <2>1 DEF Fits
    <2>2. CASE q # p
        <3>1. job'[q] = job[q]
            BY <1>1, <2>2
        <3>2. job[q].at = "sell" =>
                /\ job[q].n \in Refs /\ job[q].n <= row'[job[q].s].sells
                /\ order'[job[q].s][job[q].n] = "open"
            BY <1>2, <2>2
        <3>3. QED
            BY <3>1, <3>2 DEF JobsOK
    <2>3. QED
        BY <2>1, <2>2
<1>4. JobsOK'
    BY <1>3 DEF JobsOK
<1>5. SellsApart'
    <2>1. \A q \in Procs : job'[q].at = "sell" => q # p /\ job'[q] = job[q]
        BY <1>1 DEF Fits
    <2>2. QED
        BY <2>1 DEF SellsApart
<1>6. QED
    BY <1>1, <1>4, <1>5 DEF JobsTyped

(* The sell completes, for a row that still is SELLING. *)
LEMMA SellDoneInv ==
    ASSUME IInv, NEW p \in Procs, SellDone(p)
    PROVE  IInv'
<1> DEFINE s == job[p].s
           k == job[p].n
           r == [row[s] EXCEPT !.status = "COMPLETED", !.reserved = FALSE]
<1>1. s \in Settlements /\ k \in Refs /\ order[s][k] = "open" /\ market[s][k] = "executed"
      /\ SetJob(p, Idle) /\ UNCHANGED <<elsewhere, quidaxVars, retries, crashes>>
    BY DEF SellDone, IsAt, IInv, JobsOK
<1>2. CASE ~Wins(s, "SELLING")
    BY <1>1, <1>2, JobOnly, IdleFits DEF SellDone, cryptoVars
<1>3. CASE Wins(s, "SELLING")
    <2>1. /\ order' = [order EXCEPT ![s][k] = "completed"]
          /\ debit_reserved_crypto(WalletOf[s], Amount[s])
          /\ credited' = [credited EXCEPT ![s] = @ + 1]
          /\ row' = [row EXCEPT ![s].status = "COMPLETED", ![s].reserved = FALSE]
        BY <1>3 DEF SellDone
    <2>2. row[s] \in Rows
        BY <1>1 DEF IInv, TypeOK
    <2>3. r \in Rows /\ r.status = "COMPLETED" /\ ~r.reserved
          /\ r.swept = row[s].swept /\ r.sells = row[s].sells
        BY <2>2 DEF Rows, Statuses
    <2>4. row' = [row EXCEPT ![s] = r]
        BY <2>1
    <2> HIDE DEF r
    <2>5. row' \in [Settlements -> Rows] /\ row'[s] = r
          /\ \A t \in Settlements \ {s} : row'[t] = row[t]
        BY <1>1, <2>3, <2>4 DEF IInv, TypeOK
    <2>6. /\ order' \in [Settlements -> [Refs -> {"none", "open", "completed", "failed"}]]
          /\ order'[s][k] = "completed"
          /\ \A t \in Settlements, i \in Refs : order'[t][i] # order[t][i] => t = s /\ i = k
        BY <1>1, <2>1 DEF IInv, TypeOK
    <2>7. SweptRows'
        BY <1>1, <2>3, <2>5 DEF SweptRows, IInv
    <2>8. NothingSellsUnswept'
        BY <1>1 DEF NothingSellsUnswept, IInv
    <2>9. (\A i \in Refs : order[s][i] # "completed") /\ credited[s] = 0
        <3>1. \A i \in Refs : order[s][i] # "completed"
            BY <1>1, <1>3 DEF Wins, IInv, PaidOnceIffSold
        <3>2. QED
            BY <1>1, <3>1 DEF IInv, PaidOnceIffSold
    <2>10. credited' \in [Settlements -> Nat] /\ credited'[s] = 1
           /\ \A t \in Settlements \ {s} : credited'[t] = credited[t]
        BY <1>1, <2>1, <2>9 DEF IInv, TypeOK
    <2>11. PaidOnceIffSold'
        <3>1. ASSUME NEW t \in Settlements \ {s}
              PROVE  LET completed == {i \in Refs : order'[t][i] = "completed"} IN
                     /\ credited'[t] = IF completed # {} THEN 1 ELSE 0
                     /\ \A i \in completed :
                          market'[t][i] = "executed" /\ row'[t].status = "COMPLETED"
                            /\ ~row'[t].reserved
            <4>1. \A i \in Refs : order'[t][i] = order[t][i]
                BY <2>6
            <4>2. row'[t] = row[t] /\ credited'[t] = credited[t] /\ market' = market
                BY <1>1, <2>5, <2>10
            <4>3. QED
                BY <4>1, <4>2 DEF IInv, PaidOnceIffSold
        <3>2. {i \in Refs : order'[s][i] = "completed"} = {k}
            BY <1>1, <2>6, <2>9
        <3>3. market'[s][k] = "executed" /\ row'[s].status = "COMPLETED" /\ ~row'[s].reserved
            BY <1>1, <2>3, <2>5
        <3>4. LET completed == {i \in Refs : order'[s][i] = "completed"} IN
              /\ credited'[s] = IF completed # {} THEN 1 ELSE 0
              /\ \A i \in completed :
                   market'[s][i] = "executed" /\ row'[s].status = "COMPLETED"
                     /\ ~row'[s].reserved
            BY <2>10, <3>2, <3>3
        <3>5. QED
            BY <3>1, <3>4 DEF PaidOnceIffSold
    <2>12. SellsKept
        BY <2>3, <2>5 DEF SellsKept
    <2>13. JobsTyped'
        BY <1>1, <2>1, <2>12, IdleFits, SellEnds DEF SellDone
    <2>14. CryptoLedgerTypeOK'
        <3>1. CryptoLedgerTypeOK /\ WalletOf[s] \in Wallets /\ Amount[s] \in Nat
            BY <1>1, SettlementAssumption DEF IInv, TypeOK
        <3>2. QED
            BY <1>1, <2>1, <3>1, LedgerTyped DEF CryptoLedgerTypeOK
    <2>15. RowsOK'
        BY <2>5, <2>7, <2>8, <2>11 DEF RowsOK
    <2>16. QED
        BY <1>1, <2>6, <2>10, <2>13, <2>14, <2>15, Together DEF IInv, TypeOK
<1>4. QED
    BY <1>2, <1>3

(* A failed sell was an open order, so nothing that completed. *)
LEMMA SellFailedInv ==
    ASSUME IInv, NEW p \in Procs, SellFailed(p)
    PROVE  IInv'
<1> DEFINE s == job[p].s
           k == job[p].n
<1>1. /\ s \in Settlements /\ k \in Refs /\ order[s][k] = "open"
      /\ order' = [order EXCEPT ![s][k] = "failed"]
      /\ UNCHANGED <<cryptoVars, row, quidaxVars, historyVars, crashes>>
    BY DEF SellFailed, IsAt, IInv, JobsOK
<1>2. \E j : SetJob(p, j) /\ Fits(j)
    <2>1. job[p] \in Jobs
        BY DEF IInv, TypeOK
    <2>2. Fits([job[p] EXCEPT !.at = "resell"]) /\ Fits([job[p] EXCEPT !.at = "unsold"])
        BY <1>1, <2>1 DEF Fits, Jobs, Steps
    <2>3. QED
        BY <2>2 DEF SellFailed
<1>3. order' \in [Settlements -> [Refs -> {"none", "open", "completed", "failed"}]]
      /\ \A t \in Settlements, i \in Refs :
            order'[t][i] = "completed" <=> order[t][i] = "completed"
    BY <1>1 DEF IInv, TypeOK
<1>4. RowsOK' /\ SellsKept
    <2>1. PaidOnceIffSold'
        BY <1>1, <1>3 DEF IInv, PaidOnceIffSold
    <2>2. SweptRows' /\ NothingSellsUnswept' /\ row' \in [Settlements -> Rows]
        BY <1>1 DEF IInv, TypeOK, SweptRows, NothingSellsUnswept
    <2>3. QED
        BY <1>1, <2>1, <2>2 DEF RowsOK, SellsKept
<1>5. JobsTyped'
    BY <1>1, <1>2, <1>4, SellEnds DEF SellFailed
<1>6. CryptoLedgerTypeOK'
    BY <1>1 DEF IInv, TypeOK, CryptoLedgerTypeOK, cryptoVars
<1>7. QED
    BY <1>1, <1>3, <1>4, <1>5, <1>6, Together DEF IInv, TypeOK

(* What follows a failed sell, and a sell nobody finished. *)
LEMMA UnsoldInv ==
    ASSUME IInv, NEW p \in Procs, NEW s \in Settlements,
           AfterFailedSell(p) \/ _check_stale_sell(p, s)
    PROVE  IInv'
<1>1. UNCHANGED <<cryptoVars, order, quidaxVars, historyVars, crashes>>
    BY DEF AfterFailedSell, _check_stale_sell
<1>2. RowsOK' /\ SellsKept /\ \E j : SetJob(p, j) /\ Fits(j)
    <2>1. CASE IsAt(p, "resell") /\ _retry_sell_later(p, job[p].s)
        <3>1. job[p].s \in Settlements
            BY <2>1 DEF IsAt, IInv, JobsOK
        <3>2. QED
            BY <1>1, <2>1, <3>1, RetryOK DEF _retry_sell_later, ACTIVE_STATUSES
    <2>2. CASE IsAt(p, "unsold") /\ _fail(p, job[p].s, "SELLING", FALSE)
        <3>1. job[p].s \in Settlements
            BY <2>2 DEF IsAt, IInv, JobsOK
        <3>2. QED
            BY <1>1, <2>2, <3>1, FailOK DEF ACTIVE_STATUSES
    <2>3. CASE _check_stale_sell(p, s)
        BY <1>1, <2>3, FailOK DEF _check_stale_sell, ACTIVE_STATUSES
    <2>4. QED
        BY <2>1, <2>2, <2>3 DEF AfterFailedSell
<1>3. QED
    BY <1>1, <1>2, RowStep

(* An admin resumes a failed row where it stood. *)
LEMMA AdminRetryInv ==
    ASSUME IInv, NEW s \in Settlements, admin_retry(s)
    PROVE  IInv'
<1> DEFINE again == row[s].auto_convert /\ ~row[s].reserved
           r == [row[s] EXCEPT !.status = IF row[s].swept THEN "SWEPT" ELSE "PENDING",
                               !.attempts = 0]
           held == [r EXCEPT !.reserved = TRUE]
           kept == [r EXCEPT !.auto_convert = FALSE]
<1>1. /\ row[s] \in Rows /\ row[s].status = "FAILED" /\ retries[s] < MaxRetries
      /\ retries' = [retries EXCEPT ![s] = @ + 1]
      /\ UNCHANGED <<elsewhere, order, quidaxVars, credited, job, crashes>>
    BY DEF admin_retry, IInv, TypeOK
<1>2. \/ row' = [row EXCEPT ![s] = r]
      \/ row' = [row EXCEPT ![s] = held]
      \/ row' = [row EXCEPT ![s] = kept]
    BY DEF admin_retry
<1>3. Legal(s, r) /\ Legal(s, held) /\ Legal(s, kept)
    <2>1. 0 \in 0..MaxAttempts /\ "SWEPT" \in Statuses /\ "PENDING" \in Statuses
        BY SettlementAssumption DEF Statuses
    <2>2. /\ r \in Rows /\ r.sells = row[s].sells /\ r.swept = row[s].swept
          /\ r.status = IF row[s].swept THEN "SWEPT" ELSE "PENDING"
        BY <1>1, <2>1 DEF Rows
    <2>3. row[s].swept => \E n \in Refs : transfer[s][n] = "done"
        BY DEF IInv, SweptRows
    <2>4. Legal(s, r)
        BY <1>1, <2>2, <2>3 DEF Legal
    <2> HIDE DEF r
    <2>5. Legal(s, held)
        <3>1. held \in Rows /\ held.sells = r.sells /\ held.swept = r.swept
              /\ held.status = r.status /\ held.sweep_attempt = r.sweep_attempt
            BY <2>2 DEF Rows
        <3> HIDE DEF held
        <3>2. QED
            BY <2>4, <3>1 DEF Legal
    <2>6. Legal(s, kept)
        <3>1. kept \in Rows /\ kept.sells = r.sells /\ kept.swept = r.swept
              /\ kept.status = r.status /\ kept.sweep_attempt = r.sweep_attempt
            BY <2>2 DEF Rows
        <3> HIDE DEF kept
        <3>2. QED
            BY <2>4, <3>1 DEF Legal
    <2>7. QED
        BY <2>4, <2>5, <2>6
<1> HIDE DEF r, held, kept
<1>4. RowsOK' /\ SellsKept
    BY <1>1, <1>2, <1>3, LegalRow
<1>5. JobsTyped'
    BY <1>1, <1>4, SameJobs DEF DoneStays
<1>6. CryptoLedgerTypeOK'
    <2>1. CryptoLedgerTypeOK /\ WalletOf[s] \in Wallets /\ Amount[s] \in Nat
        BY SettlementAssumption DEF IInv, TypeOK
    <2>2. CASE reserve_crypto(WalletOf[s], Amount[s])
        BY <1>1, <2>1, <2>2, LedgerTyped DEF CryptoLedgerTypeOK
    <2>3. CASE UNCHANGED <<available, reserved>>
        BY <1>1, <2>1, <2>3 DEF CryptoLedgerTypeOK
    <2>4. QED
        BY <2>2, <2>3 DEF admin_retry
<1>7. retries' \in [Settlements -> 0..MaxRetries]
    <2>1. retries[s] \in 0..MaxRetries /\ retries \in [Settlements -> 0..MaxRetries]
        BY DEF IInv, TypeOK
    <2>2. retries[s] + 1 \in 0..MaxRetries
        BY <1>1, <2>1, SettlementAssumption
    <2>3. QED
        BY <1>1, <2>1, <2>2
<1>8. QED
    BY <1>1, <1>4, <1>5, <1>6, <1>7, Together DEF IInv, TypeOK

-----------------------------------------------------------------------------
(* Quidax goes on with what is on its way: what is done or executed stays. *)
LEMMA QuidaxInv ==
    ASSUME IInv, NEW s \in Settlements, NEW n \in Refs, NEW t,
           \/ /\ t \in {"processing", "refused", "lost"} \cup Ended
              /\ QuidaxTransfers(s, n, t)
           \/ t \in {"executed", "refused", "lost"} /\ QuidaxSells(s, n, t)
    PROVE  IInv'
<1>1. UNCHANGED <<cryptoVars, row, order, historyVars, job, crashes>>
    BY DEF QuidaxTransfers, QuidaxSells
<1>2. /\ DoneStays
      /\ transfer' \in [Settlements ->
              [Refs -> {"unsent", "sent", "processing", "refused", "lost"} \cup Ended]]
    <2>1. CASE UNCHANGED transfer
        BY <2>1 DEF DoneStays, IInv, TypeOK
    <2>2. CASE /\ transfer[s][n] \in {"sent", "processing"}
               /\ t \in {"processing", "refused", "lost"} \cup Ended
               /\ transfer' = [transfer EXCEPT ![s][n] = t]
        <3>1. transfer' \in [Settlements ->
                [Refs -> {"unsent", "sent", "processing", "refused", "lost"} \cup Ended]]
            BY <2>2 DEF IInv, TypeOK
        <3>2. ASSUME NEW u \in Settlements, NEW i \in Refs, transfer[u][i] = "done"
              PROVE  transfer'[u][i] = "done"
            BY <2>2, <3>2 DEF IInv, TypeOK
        <3>3. QED
            BY <3>1, <3>2 DEF DoneStays
    <2>3. QED
        BY <2>1, <2>2 DEF QuidaxTransfers, QuidaxSells
<1>3. /\ market' \in [Settlements -> [Refs -> {"unsent", "sent", "executed", "refused", "lost"}]]
      /\ \A u \in Settlements, k \in Refs :
            /\ market'[u][k] # "unsent" => market[u][k] # "unsent"
            /\ market[u][k] = "executed" => market'[u][k] = "executed"
    <2>1. CASE UNCHANGED market
        BY <2>1 DEF IInv, TypeOK
    <2>2. CASE /\ market[s][n] = "sent" /\ t \in {"executed", "refused", "lost"}
               /\ market' = [market EXCEPT ![s][n] = t]
        <3>1. market' \in [Settlements ->
                              [Refs -> {"unsent", "sent", "executed", "refused", "lost"}]]
            BY <2>2 DEF IInv, TypeOK
        <3>2. ASSUME NEW u \in Settlements, NEW k \in Refs
              PROVE  /\ market'[u][k] # "unsent" => market[u][k] # "unsent"
                     /\ market[u][k] = "executed" => market'[u][k] = "executed"
            BY <2>2 DEF IInv, TypeOK
        <3>3. QED
            BY <3>1, <3>2
    <2>3. QED
        BY <2>1, <2>2 DEF QuidaxTransfers, QuidaxSells
<1>4. RowsOK' /\ SellsKept
    <2>1. SweptRows'
        BY <1>1, <1>2 DEF SweptRows, DoneStays, IInv
    <2>2. NothingSellsUnswept'
        BY <1>2, <1>3 DEF NothingSellsUnswept, DoneStays, IInv
    <2>3. PaidOnceIffSold'
        BY <1>1, <1>3 DEF PaidOnceIffSold, IInv
    <2>4. QED
        BY <1>1, <2>1, <2>2, <2>3 DEF RowsOK, SellsKept, IInv, TypeOK
<1>5. JobsTyped'
    BY <1>1, <1>2, <1>4, SameJobs
<1>6. CryptoLedgerTypeOK'
    BY <1>1 DEF IInv, TypeOK, CryptoLedgerTypeOK, cryptoVars
<1>7. QED
    BY <1>1, <1>2, <1>3, <1>4, <1>5, <1>6, Together DEF IInv, TypeOK

(* A crash forgets what the process was doing. *)
LEMMA CrashInv ==
    ASSUME IInv, NEW p \in Procs, Crash(p)
    PROVE  IInv'
<1>1. /\ SetJob(p, Idle) /\ crashes < MaxCrashes /\ crashes' = crashes + 1
      /\ UNCHANGED <<cryptoVars, row, order, quidaxVars, historyVars>>
    BY DEF Crash
<1>2. RowsOK' /\ SellsKept
    BY <1>1, SameRows
<1>3. JobsTyped'
    BY <1>1, <1>2, IdleFits, JobStep DEF DoneStays
<1>4. crashes' \in 0..MaxCrashes
    <2>1. crashes \in 0..MaxCrashes
        BY DEF IInv, TypeOK
    <2>2. QED
        BY <1>1, <2>1, SettlementAssumption
<1>5. CryptoLedgerTypeOK'
    BY <1>1 DEF IInv, TypeOK, CryptoLedgerTypeOK, cryptoVars
<1>6. QED
    BY <1>1, <1>2, <1>3, <1>4, <1>5, Together DEF IInv, TypeOK

-----------------------------------------------------------------------------
(* Nothing has happened yet. *)
LEMMA InitInv == Init => IInv
<1> SUFFICES ASSUME Init PROVE IInv
    OBVIOUS
<1>1. 0 \in 0..MaxAttempts /\ 0 \in 0..MaxRefs /\ 0 \in 0..MaxRetries /\ 0 \in 0..MaxCrashes
      /\ 0 \in 0..MaxElsewhere
    BY SettlementAssumption, CryptoLedgerAssumption
<1>2. CryptoLedgerTypeOK
    BY <1>1 DEF Init, CryptoLedgerInit, CryptoLedgerTypeOK
<1>3. Idle \in Jobs
    BY <1>1 DEF Idle, Jobs, Steps, Answers
<1>4. row \in [Settlements -> Rows]
    BY <1>1 DEF Init, Rows, Statuses
<1>5. TypeOK
    BY <1>1, <1>2, <1>3, <1>4 DEF Init, TypeOK
<1>6. SweptRows /\ NothingSellsUnswept
    BY DEF Init, SweptRows, NothingSellsUnswept
<1>7. PaidOnceIffSold
    <2>1. \A s \in Settlements : {k \in Refs : order[s][k] = "completed"} = {}
        BY DEF Init
    <2>2. QED
        BY <2>1 DEF Init, PaidOnceIffSold
<1>8. JobsOK /\ SellsApart
    <2>1. \A p \in Procs : job[p].at = "idle"
        BY DEF Init, Idle
    <2>2. QED
        BY <2>1 DEF JobsOK, SellsApart
<1>9. QED
    BY <1>5, <1>6, <1>7, <1>8 DEF IInv

(* Every step keeps the invariant: the worker's and the web requests', the *)
(* admin's, Quidax's, a crash, and what others do with the wallets.        *)
LEMMA NextInv == IInv /\ [Next]_vars => IInv'
<1> SUFFICES ASSUME IInv, [Next]_vars PROVE IInv'
    OBVIOUS
<1>1. ASSUME NEW s \in Settlements, NEW auto \in BOOLEAN, create_for_deposit(s, auto)
      PROVE  IInv'
    BY <1>1, CreateInv
<1>2. ASSUME NEW s \in Settlements, create_backfill_sweep(s) \/ admin_retry(s)
      PROVE  IInv'
    <2>1. TRUE \in BOOLEAN
        OBVIOUS
    <2>2. QED
        BY <1>2, <2>1, CreateInv, AdminRetryInv
<1>3. ASSUME NEW p \in Workers, NEW s \in Settlements, TakeUp(p, s)
      PROVE  IInv'
    BY <1>3, ListenInv, UnsoldInv DEF TakeUp, Procs
<1>4. ASSUME NEW p \in WebWorkers, NEW s \in Settlements, handle_sweep_webhook(p, s)
      PROVE  IInv'
    BY <1>4, ListenInv DEF Procs
<1>5. ASSUME NEW p \in Procs, GoOn(p)
      PROVE  IInv'
    <2>1. CASE SweepAnswered(p) \/ AfterFailedSell(p)
        <3>1. job[p].s \in Settlements
            BY <2>1 DEF SweepAnswered, AfterFailedSell, IsAt, IInv, JobsOK
        <3>2. QED
            BY <2>1, <3>1, ListenInv, UnsoldInv
    <2>2. CASE SweepNotStarted(p) \/ _start_sweep(p) \/ _apply_sweep_result(p)
                 \/ _release_reservation(p)
        BY <2>2, SweepNotStartedInv, StartSweepInv, ApplySweepResultInv, ReleaseInv
    <2>3. CASE CompleteHold(p) \/ _skip_conversion(p) \/ QuoteFailed(p) \/ StartSell(p)
        BY <2>3, NoSellInv, StartSellInv
    <2>4. CASE SellDone(p) \/ SellFailed(p)
        BY <2>4, SellDoneInv, SellFailedInv
    <2>5. QED
        BY <1>5, <2>1, <2>2, <2>3, <2>4 DEF GoOn
<1>6. ASSUME NEW p \in Procs, Crash(p)
      PROVE  IInv'
    BY <1>6, CrashInv
<1>7. ASSUME NEW s \in Settlements, NEW n \in Refs,
             NEW t \in {"processing", "refused", "lost"} \cup Ended, QuidaxTransfers(s, n, t)
      PROVE  IInv'
    BY <1>7, QuidaxInv
<1>8. ASSUME NEW s \in Settlements, NEW k \in Refs,
             NEW t \in {"executed", "refused", "lost"}, QuidaxSells(s, k, t)
      PROVE  IInv'
    BY <1>8, QuidaxInv
<1>9. CASE ElsewhereStep /\ UNCHANGED settlementVars
    BY <1>9, ElsewhereInv
<1>10. CASE UNCHANGED vars
    <2>1. UNCHANGED <<available, reserved, elsewhere, row, order, transfer, market, credited,
                      retries, job, crashes>>
        BY <1>10 DEF vars, cryptoVars, settlementVars
    <2>2. RowsOK' /\ SellsKept
        BY <2>1, SameRows
    <2>3. JobsTyped'
        BY <2>1, <2>2, SameJobs DEF DoneStays
    <2>4. CryptoLedgerTypeOK'
        BY <2>1 DEF IInv, TypeOK, CryptoLedgerTypeOK
    <2>5. QED
        BY <2>1, <2>2, <2>3, <2>4, Together DEF IInv, TypeOK
<1>11. QED
    BY <1>1, <1>2, <1>3, <1>4, <1>5, <1>6, <1>7, <1>8, <1>9, <1>10 DEF Next

(* The inductive invariant holds in every reachable state. *)
THEOREM InductiveInvariant == Spec => []IInv
BY InitInv, NextInv, PTL DEF Spec

(* The state of every settlement, transfer, sell and process is typed. *)
THEOREM TypeCorrect == Spec => []TypeOK
<1>1. IInv => TypeOK
    BY DEF IInv
<1>2. QED
    BY <1>1, InductiveInvariant, PTL

(* No market order leaves for a settlement none of whose sweeps Quidax has *)
(* reported done.                                                          *)
THEOREM SellsAreSwept == Spec => []NothingSellsUnswept
<1>1. IInv => NothingSellsUnswept
    BY DEF IInv
<1>2. QED
    BY <1>1, InductiveInvariant, PTL

(* A settlement's proceeds are credited once, and exactly when one of its  *)
(* orders completed, that Quidax executed.                                 *)
THEOREM PaidOnce == Spec => []PaidOnceIffSold
<1>1. IInv => PaidOnceIffSold
    BY DEF IInv
<1>2. QED
    BY <1>1, InductiveInvariant, PTL

-----------------------------------------------------------------------------
(* Nobody moves a settled row, nor pays for it again. *)
SettledKept ==
    \A s \in Settlements : row[s].status \in {"COMPLETED", "SKIPPED"} =>
        row'[s].status = row[s].status /\ credited'[s] = credited[s]

(* A compare-and-set from an active status leaves settled rows alone. *)
LEMMA TransitionSettles ==
    ASSUME IInv, NEW s \in Settlements, NEW from \in ACTIVE_STATUSES, NEW r,
           _transition(s, from, r), UNCHANGED credited
    PROVE  SettledKept
BY DEF _transition, Wins, ACTIVE_STATUSES, SettledKept, IInv, TypeOK

(* No step unsettles a settlement.                                         *)
LEMMA SettledStep == IInv /\ [Next]_vars => SettledKept
<1> SUFFICES ASSUME IInv, [Next]_vars PROVE SettledKept
    OBVIOUS
<1>1. CASE UNCHANGED <<row, credited>>
    BY <1>1 DEF SettledKept
<1>2. ASSUME NEW s \in Settlements, NEW auto \in BOOLEAN,
             create_for_deposit(s, auto) \/ create_backfill_sweep(s) \/ admin_retry(s)
      PROVE  SettledKept
    <2>1. /\ row[s].status \notin {"COMPLETED", "SKIPPED"}
          /\ UNCHANGED credited
          /\ \A t \in Settlements \ {s} : row'[t] = row[t]
        BY <1>2 DEF create_for_deposit, create_backfill_sweep, admin_retry, IInv, TypeOK
    <2>2. QED
        BY <2>1 DEF SettledKept
<1>3. ASSUME NEW p \in Procs, _release_reservation(p)
      PROVE  SettledKept
    <2>1. /\ UNCHANGED credited
          /\ row' = row \/ row' = [row EXCEPT ![job[p].s].reserved = FALSE]
        BY <1>3 DEF _release_reservation
    <2>2. row \in [Settlements -> Rows]
        BY DEF IInv, TypeOK
    <2>3. \A t \in Settlements : row'[t].status = row[t].status
        BY <2>1, <2>2 DEF Rows
    <2>4. QED
        BY <2>1, <2>3 DEF SettledKept
<1>4. ASSUME NEW p \in Procs, SellDone(p)
      PROVE  SettledKept
    <2>1. CASE UNCHANGED <<row, credited>>
        BY <1>1, <2>1
    <2>2. CASE /\ Wins(job[p].s, "SELLING")
               /\ credited' = [credited EXCEPT ![job[p].s] = @ + 1]
               /\ row' = [row EXCEPT ![job[p].s].status = "COMPLETED",
                                     ![job[p].s].reserved = FALSE]
        BY <2>2 DEF Wins, SettledKept, IInv, TypeOK
    <2>3. QED
        BY <1>4, <2>1, <2>2 DEF SellDone
<1>5. ASSUME NEW p \in Procs, NEW s \in Settlements, NEW from \in ACTIVE_STATUSES,
             NEW release \in BOOLEAN, _fail(p, s, from, release), UNCHANGED credited
      PROVE  SettledKept
    BY <1>5, TransitionSettles DEF _fail
<1>6. ASSUME NEW p \in Procs, NEW s \in Settlements, NEW from \in ACTIVE_STATUSES, NEW back,
             RetryLater(p, s, from, back), UNCHANGED credited
      PROVE  SettledKept
    BY <1>5, <1>6, TransitionSettles DEF RetryLater
<1>7. ASSUME NEW p \in Procs, GoOn(p)
      PROVE  SettledKept
    <2> DEFINE s == job[p].s
    <2>1. job[p].at # "idle" => s \in Settlements
        BY DEF IInv, JobsOK
    <2>2. CASE SweepNotStarted(p) \/ AfterFailedSell(p)
        BY <1>5, <1>6, <2>1, <2>2
           DEF SweepNotStarted, AfterFailedSell, IsAt, _retry_sweep_later, _retry_sell_later,
               ACTIVE_STATUSES
    <2>3. CASE _apply_sweep_result(p)
        <3>1. s \in Settlements /\ UNCHANGED credited
            BY <2>1, <2>3 DEF _apply_sweep_result, IsAt
        <3>2. \/ \E r : _transition(s, "SWEEPING", r)
              \/ _fail(p, s, "SWEEPING", FALSE) \/ _fail(p, s, "SWEEPING", TRUE)
              \/ RetryLater(p, s, "SWEEPING", "PENDING")
            BY <2>3 DEF _apply_sweep_result, _retry_sweep_later
        <3>3. QED
            BY <1>5, <1>6, <3>1, <3>2, TransitionSettles DEF ACTIVE_STATUSES
    <2>4. CASE _start_sweep(p) \/ CompleteHold(p) \/ _skip_conversion(p) \/ QuoteFailed(p)
                 \/ StartSell(p)
        <3>1. s \in Settlements /\ UNCHANGED credited
            BY <2>1, <2>4
               DEF _start_sweep, CompleteHold, _skip_conversion, QuoteFailed, StartSell, IsAt
        <3>2. (\E r : _transition(s, "PENDING", r)) \/ (\E r : _transition(s, "SWEPT", r))
            BY <2>4
               DEF _start_sweep, CompleteHold, _skip_conversion, QuoteFailed, StartSell
        <3>3. QED
            BY <3>1, <3>2, TransitionSettles DEF ACTIVE_STATUSES
    <2>5. CASE SweepAnswered(p) \/ SellFailed(p)
        BY <1>1, <2>5 DEF SweepAnswered, SellFailed
    <2>6. QED
        BY <1>3, <1>4, <1>7, <2>2, <2>3, <2>4, <2>5 DEF GoOn
<1>8. ASSUME NEW p \in Workers, NEW s \in Settlements, TakeUp(p, s)
      PROVE  SettledKept
    BY <1>1, <1>5, <1>8
       DEF TakeUp, LoadPending, _poll_sweep, LoadSwept, _check_stale_sell, Procs, ACTIVE_STATUSES
<1>9. ASSUME NEW p \in WebWorkers, NEW s \in Settlements, handle_sweep_webhook(p, s)
      PROVE  SettledKept
    BY <1>1, <1>9 DEF handle_sweep_webhook
<1>10. ASSUME NEW p \in Procs, Crash(p)
       PROVE  SettledKept
    BY <1>1, <1>10 DEF Crash
<1>11. ASSUME NEW s \in Settlements, NEW n \in Refs, NEW t,
              QuidaxTransfers(s, n, t) \/ QuidaxSells(s, n, t)
       PROVE  SettledKept
    BY <1>1, <1>11 DEF QuidaxTransfers, QuidaxSells
<1>12. CASE (ElsewhereStep /\ UNCHANGED settlementVars) \/ UNCHANGED vars
    BY <1>1, <1>12 DEF settlementVars, vars
<1>13. ASSUME NEW s \in Settlements, create_backfill_sweep(s) \/ admin_retry(s)
       PROVE  SettledKept
    <2>1. TRUE \in BOOLEAN
        OBVIOUS
    <2>2. QED
        BY <1>2, <1>13, <2>1
<1>14. QED
    BY <1>2, <1>7, <1>8, <1>9, <1>10, <1>11, <1>12, <1>13 DEF Next

(* A settlement that is completed or skipped stays so, and is paid no more *)
(* than it was, whatever webhooks, polls, crashes and admins do later.     *)
THEOREM SettledForGood == Spec => SettledStays
<1>1. IInv /\ [Next]_vars => [SettledKept]_vars
    BY SettledStep
<1>2. QED
    BY <1>1, InductiveInvariant, PTL DEF Spec, SettledStays, SettledKept
-----------------------------------------------------------------------------
(* What the processes that hold a row may still do with it: first, every   *)
(* step of a process by what it does to one row and to the process.        *)

(* The step of p is about s alone. *)
About(p, s) ==
    /\ \A q \in Procs \ {p} : job'[q] = job[q]
    /\ \A t \in Settlements \ {s} :
         row'[t] = row[t] /\ market'[t] = market[t] /\ transfer'[t] = transfer[t]
    /\ job[p].s \in {s, NoRow} /\ job'[p].s \in {s, NoRow}
    /\ UNCHANGED retries
    /\ crashes' \in Nat /\ crashes' >= crashes

Alone(s) == row'[s] = row[s] /\ market'[s] = market[s] /\ transfer'[s] = transfer[s]

(* It gives up what it had: nothing to give back, or it was killed. *)
Quits(p, s) ==
    /\ Alone(s)
    /\ job'[p] = Idle
    /\ IsAt(p, "release") => ~row[s].reserved \/ crashes' > 0

(* It takes the row up, and knows its status. *)
Reads(p, s) ==
    /\ Alone(s)
    /\ job[p] = Idle /\ job'[p].s = s
    /\ \/ /\ job'[p].at = "start" /\ p \in Workers
          /\ row[s].status = "PENDING" /\ job'[p].n = row[s].sweep_attempt + 1
          /\ \A q \in WebWorkers : ~WorksOn(q, s)
       \/ /\ job'[p].at = "apply"
          /\ row[s].status = "SWEEPING" /\ job'[p].n = row[s].sweep_attempt
          /\ job'[p].says = "rejected" =>
               job'[p].n \in Refs /\ transfer[s][job'[p].n] = "rejected"
       \/ /\ row[s].status = "SWEPT"
          /\ (job'[p].at = "quote" /\ row[s].auto_convert) \/ job'[p].at = "hold"

(* It learns what became of its sweep or its sell. *)
Hears(p, s) ==
    /\ Alone(s)
    /\ job[p].s = s /\ job'[p].s = s /\ job'[p].n = job[p].n /\ job[p].n \in Refs
    /\ \/ /\ job[p].at = "sent" /\ job'[p].at = "apply"
          /\ job'[p].says = "rejected" => transfer[s][job[p].n] \in {"rejected", "refused"}
       \/ /\ job[p].at = "sell" /\ job'[p].at \in {"resell", "unsold"}
          /\ job'[p].at = "resell" => market[s][job[p].n] = "refused"

(* It moves the row from a status it has read to the next. *)
Arrows == {<<"start", "PENDING", "PENDING">>, <<"start", "PENDING", "FAILED">>,
           <<"apply", "SWEEPING", "SWEPT">>, <<"apply", "SWEEPING", "FAILED">>,
           <<"apply", "SWEEPING", "PENDING">>,
           <<"hold", "SWEPT", "COMPLETED">>,
           <<"quote", "SWEPT", "SKIPPED">>, <<"quote", "SWEPT", "SWEPT">>,
           <<"resell", "SELLING", "SWEPT">>, <<"resell", "SELLING", "FAILED">>,
           <<"unsold", "SELLING", "FAILED">>, <<"idle", "SELLING", "FAILED">>}

SameCoins(s) ==
    /\ row'[s].auto_convert = row[s].auto_convert
    /\ row'[s].sweep_attempt = row[s].sweep_attempt /\ row'[s].sells = row[s].sells

Shifts(p, s) ==
    /\ <<job[p].at, row[s].status, row'[s].status>> \in Arrows
    /\ SameCoins(s) /\ row'[s].reserved = row[s].reserved
    /\ market'[s] = market[s] /\ transfer'[s] = transfer[s]
    /\ job[p].at # "idle" => job[p].s = s
    /\ job[p].at = "idle" => \A q \in Procs : WorksOn(q, s) => job[q].at \notin SellSteps
    /\ job[p].at = "apply" /\ row'[s].status = "PENDING" => job[p].says = "rejected"
    /\ \/ job'[p] = Idle /\ row'[s].status # "SKIPPED"
       \/ job'[p].at = "release" /\ job'[p].s = s /\ row'[s].status \in {"FAILED", "SKIPPED"}

(* It sends a sweep, or a sell. *)
Sweeps(p, s) ==
    /\ job[p].at = "start" /\ job[p].s = s /\ job[p].n \in Refs
    /\ row[s].status = "PENDING" /\ row'[s].status = "SWEEPING"
    /\ row'[s].sweep_attempt = job[p].n /\ row'[s].auto_convert = row[s].auto_convert
    /\ row'[s].sells = row[s].sells /\ row'[s].reserved = row[s].reserved
    /\ job'[p].at = "sent" /\ job'[p].s = s /\ job'[p].n = job[p].n
    /\ market'[s] = market[s]
    /\ \A n \in Refs \ {job[p].n} : transfer'[s][n] = transfer[s][n]

Sells(p, s) ==
    /\ job[p].at = "quote" /\ job[p].s = s
    /\ row[s].status = "SWEPT" /\ row'[s].status = "SELLING"
    /\ row'[s].sells = row[s].sells + 1 /\ row'[s].sells \in Refs
    /\ row'[s].auto_convert = row[s].auto_convert
    /\ row'[s].sweep_attempt = row[s].sweep_attempt /\ row'[s].reserved = row[s].reserved
    /\ job'[p].at = "sell" /\ job'[p].s = s /\ job'[p].n = row'[s].sells
    /\ transfer'[s] = transfer[s]
    /\ market'[s][row'[s].sells] = "sent"
    /\ \A k \in Refs \ {row'[s].sells} : market'[s][k] = market[s][k]

(* The coins leave the row: sold, or given back. *)
LetsGo(p, s) ==
    /\ job[p].s = s /\ job'[p] = Idle
    /\ SameCoins(s) /\ ~row'[s].reserved
    /\ market'[s] = market[s] /\ transfer'[s] = transfer[s]
    /\ \/ /\ job[p].at = "sell"
          /\ row[s].status = "SELLING" /\ row'[s].status = "COMPLETED"
       \/ job[p].at = "release" /\ row'[s].status = row[s].status

Does(p, s) ==
    Quits(p, s) \/ Reads(p, s) \/ Hears(p, s) \/ Shifts(p, s) \/ Sweeps(p, s) \/ Sells(p, s)
      \/ LetsGo(p, s)

(* One process takes a step about one settlement. *)
Single(p, s) == About(p, s) /\ Does(p, s)

-----------------------------------------------------------------------------
(* What setting a process's job sets. *)
LEMMA SetJobIs ==
    ASSUME IInv, NEW p \in Procs, NEW j, SetJob(p, j)
    PROVE  job'[p] = j /\ \A q \in Procs \ {p} : job'[q] = job[q]
BY DEF SetJob, IInv, TypeOK

(* A step that changes only one row's record and one process is about them. *)
LEMMA AboutOne ==
    ASSUME IInv, NEW p \in Procs, NEW s \in Settlements, NEW j, SetJob(p, j),
           j.s \in {s, NoRow}, job[p].s \in {s, NoRow}, 
           \A t \in Settlements \ {s} : row'[t] = row[t],
           market' = market \/ \E k, m : market' = [market EXCEPT ![s][k] = m],
           transfer' = transfer \/ \E k, m : transfer' = [transfer EXCEPT ![s][k] = m],
           UNCHANGED <<retries, crashes>>
    PROVE  About(p, s)
<1>1. job'[p] = j /\ \A q \in Procs \ {p} : job'[q] = job[q]
    BY SetJobIs
<1>3. \A t \in Settlements \ {s} : market'[t] = market[t]
    BY DEF IInv, TypeOK
<1>4. \A t \in Settlements \ {s} : transfer'[t] = transfer[t]
    BY DEF IInv, TypeOK
<1>5. crashes' \in Nat /\ crashes' >= crashes
    BY SettlementAssumption DEF IInv, TypeOK
<1>6. QED
    BY <1>1, <1>3, <1>4, <1>5 DEF About

(* A compare-and-set that moves the row along an arrow, or loses. *)
LEMMA ShiftOrQuit ==
    ASSUME IInv, NEW p \in Procs, NEW s \in Settlements, NEW from, NEW to, NEW r \in Rows, NEW j,
           _transition(s, from, r), SetJob(p, j),
           <<job[p].at, from, to>> \in Arrows,
           r.status = to, r.auto_convert = row[s].auto_convert, r.reserved = row[s].reserved,
           r.sweep_attempt = row[s].sweep_attempt, r.sells = row[s].sells,
           IF job[p].at = "idle"
             THEN job[p] = Idle /\ \A q \in Procs : WorksOn(q, s) => job[q].at \notin SellSteps
             ELSE job[p].s = s,
           job[p].at = "apply" /\ to = "PENDING" => job[p].says = "rejected",
           j = Idle \/ (j = Job("release", s, 0, "") /\ Wins(s, from)),
           Wins(s, from) => \/ j = Idle /\ to # "SKIPPED"
                            \/ j = Job("release", s, 0, "") /\ to \in {"FAILED", "SKIPPED"},
           UNCHANGED <<transfer, market, retries, crashes>>
    PROVE  Single(p, s)
<1>1. job'[p] = j
    BY SetJobIs
<1>2. About(p, s)
    <2>1. j.s \in {s, NoRow} /\ job[p].s \in {s, NoRow}
        <3>1. Job("release", s, 0, "").s = s /\ Idle.s = NoRow
            BY DEF Idle, Job
        <3>2. QED
            BY <3>1
    <2>2. \A t \in Settlements \ {s} : row'[t] = row[t]
        BY DEF _transition, IInv, TypeOK
    <2>3. QED
        BY <2>1, <2>2, AboutOne
<1>3. CASE Wins(s, from)
    <2>1. row'[s] = r /\ row[s].status = from
        BY <1>3 DEF _transition, Wins, IInv, TypeOK
    <2>2. Job("release", s, 0, "").s = s /\ Job("release", s, 0, "").at = "release"
        BY DEF Job
    <2>3. \/ job'[p] = Idle /\ row'[s].status # "SKIPPED"
          \/ job'[p].at = "release" /\ job'[p].s = s /\ row'[s].status \in {"FAILED", "SKIPPED"}
        BY <1>1, <1>3, <2>1, <2>2
    <2>4. SameCoins(s) /\ row'[s].reserved = row[s].reserved
        BY <2>1 DEF SameCoins
    <2>5. <<job[p].at, row[s].status, row'[s].status>> \in Arrows
        BY <2>1
    <2>6. /\ job[p].at # "idle" => job[p].s = s
          /\ job[p].at = "idle" => \A q \in Procs : WorksOn(q, s) => job[q].at \notin SellSteps
          /\ job[p].at = "apply" /\ row'[s].status = "PENDING" => job[p].says = "rejected"
        BY <2>1
    <2>7. Shifts(p, s)
        BY <2>3, <2>4, <2>5, <2>6 DEF Shifts
    <2>8. QED
        BY <1>2, <2>7 DEF Single, Does
<1>4. CASE ~Wins(s, from)
    <2>1. row' = row /\ j = Idle
        BY <1>4 DEF _transition
    <2>2. job[p].at # "release"
        BY DEF Arrows
    <2>3. Quits(p, s)
        BY <1>1, <2>1, <2>2 DEF Quits, Alone, IsAt
    <2>4. QED
        BY <1>2, <2>3 DEF Single, Does
<1>5. QED
    BY <1>3, <1>4
(* _fail and RetryLater, where the process has the row. *)
LEMMA FailShifts ==
    ASSUME IInv, NEW p \in Procs, NEW s \in Settlements, NEW from, NEW release \in BOOLEAN,
           _fail(p, s, from, release),
           <<job[p].at, from, "FAILED">> \in Arrows,
           IF job[p].at = "idle"
             THEN job[p] = Idle /\ \A q \in Procs : WorksOn(q, s) => job[q].at \notin SellSteps
             ELSE job[p].s = s,
           UNCHANGED <<transfer, market, retries, crashes>>
    PROVE  Single(p, s)
<1> DEFINE r == [row[s] EXCEPT !.status = "FAILED"]
           j == IF release /\ Wins(s, from) THEN Job("release", s, 0, "") ELSE Idle
<1>1. row[s] \in Rows
    BY DEF IInv, TypeOK
<1>2. r \in Rows /\ r.status = "FAILED" /\ r.auto_convert = row[s].auto_convert
      /\ r.reserved = row[s].reserved /\ r.sweep_attempt = row[s].sweep_attempt
      /\ r.sells = row[s].sells
    BY <1>1 DEF Rows, Statuses
<1>3. j = Idle \/ (j = Job("release", s, 0, "") /\ Wins(s, from))
    OBVIOUS
<1>4. _transition(s, from, r) /\ SetJob(p, j)
    BY DEF _fail
<1> HIDE DEF r, j
<1>5. QED
    BY <1>2, <1>3, <1>4, ShiftOrQuit

(* A retry that counts up, or gives up, moves one row along its arrows.    *)
LEMMA RetryShifts ==
    ASSUME IInv, NEW p \in Procs, NEW s \in Settlements, NEW from, NEW back \in {"PENDING", "SWEPT"},
           RetryLater(p, s, from, back),
           <<job[p].at, from, "FAILED">> \in Arrows, <<job[p].at, from, back>> \in Arrows,
           job[p].at # "idle", job[p].s = s,
           job[p].at = "apply" => job[p].says = "rejected",
           UNCHANGED <<transfer, market, retries, crashes>>
    PROVE  Single(p, s)
<1> DEFINE attempts == job[p].attempts + 1
           r == [row[s] EXCEPT !.status = back, !.attempts = attempts]
<1>1. CASE attempts >= MaxAttempts
    BY <1>1, FailShifts DEF RetryLater
<1>2. CASE ~(attempts >= MaxAttempts)
    <2>1. row[s] \in Rows /\ job[p] \in Jobs
        BY DEF IInv, TypeOK
    <2>2. attempts \in 0..MaxAttempts
        BY <1>2, <2>1, SettlementAssumption DEF Jobs
    <2>3. r \in Rows /\ r.status = back /\ r.auto_convert = row[s].auto_convert
          /\ r.reserved = row[s].reserved /\ r.sweep_attempt = row[s].sweep_attempt
          /\ r.sells = row[s].sells
        BY <2>1, <2>2 DEF Rows, Statuses
    <2>4. _transition(s, from, r) /\ SetJob(p, Idle)
        BY <1>2 DEF RetryLater
    <2> HIDE DEF r
    <2>5. QED
        BY <2>3, <2>4, ShiftOrQuit
<1>3. QED
    BY <1>1, <1>2

(* The steps of a sweep. *)
LEMMA SweepSingle ==
    ASSUME IInv, NEW p \in Procs,
           SweepNotStarted(p) \/ _start_sweep(p) \/ SweepAnswered(p) \/ _apply_sweep_result(p)
    PROVE  job[p].s \in Settlements /\ Single(p, job[p].s)
<1> DEFINE s == job[p].s
           n == job[p].n
<1>1. s \in Settlements /\ job[p].at # "idle" /\ row[s] \in Rows /\ job[p] \in Jobs
    <2>1. job[p].at # "idle"
        BY DEF SweepNotStarted, _start_sweep, SweepAnswered, _apply_sweep_result, IsAt
    <2>2. s \in Settlements
        BY <2>1 DEF IInv, JobsOK
    <2>3. QED
        BY <2>1, <2>2 DEF IInv, TypeOK
<1>2. CASE SweepNotStarted(p)
    <2>1. <<job[p].at, "PENDING", "FAILED">> \in Arrows /\ <<job[p].at, "PENDING", "PENDING">> \in Arrows
          /\ job[p].at = "start"
        BY <1>2 DEF SweepNotStarted, IsAt, Arrows
    <2>2. UNCHANGED <<transfer, market, retries, crashes>>
        BY <1>2 DEF SweepNotStarted
    <2>3. CASE _fail(p, s, "PENDING", TRUE)
        BY <1>1, <2>1, <2>2, <2>3, FailShifts
    <2>4. CASE _retry_sweep_later(p, s, "PENDING")
        BY <1>1, <2>1, <2>2, <2>4, RetryShifts DEF _retry_sweep_later
    <2>5. QED
        BY <1>1, <1>2, <2>3, <2>4 DEF SweepNotStarted
<1>3. CASE _start_sweep(p)
    <2> DEFINE r == [row[s] EXCEPT !.status = "SWEEPING", !.sweep_attempt = n]
               j == Job("sent", s, n, "")
    <2>1. n \in Refs /\ n \in 0..MaxRefs /\ job[p].at = "start"
        <3>1. n \in Refs /\ job[p].at = "start"
            BY <1>3 DEF _start_sweep, IsAt, IInv, JobsOK
        <3>2. QED
            BY <3>1, SettlementAssumption DEF Refs
    <2>2. CASE Wins(s, "PENDING")
        <3>1. r.status = "SWEEPING" /\ r.sweep_attempt = n /\ r.auto_convert = row[s].auto_convert
              /\ r.reserved = row[s].reserved /\ r.sells = row[s].sells
            BY <1>1, <2>1 DEF Rows
        <3>2. j.at = "sent" /\ j.s = s /\ j.n = n
            BY DEF Job
        <3>3. /\ row' = [row EXCEPT ![s] = r] /\ SetJob(p, j)
              /\ transfer' = [transfer EXCEPT ![s][n] = IF @ = "unsent" THEN "sent" ELSE @]
              /\ UNCHANGED <<market, retries, crashes>>
            BY <1>3, <2>2 DEF _start_sweep, _transition
        <3> HIDE DEF r, j
        <3>4. About(p, s)
            BY <1>1, <3>2, <3>3, AboutOne DEF IInv, TypeOK
        <3>5. row'[s] = r /\ job'[p] = j /\ row[s].status = "PENDING"
            BY <1>1, <2>2, <3>3, SetJobIs DEF Wins, IInv, TypeOK
        <3>6. \A m \in Refs \ {n} : transfer'[s][m] = transfer[s][m]
            BY <1>1, <3>3 DEF IInv, TypeOK
        <3>7. Sweeps(p, s)
            BY <1>1, <2>1, <3>1, <3>2, <3>3, <3>5, <3>6 DEF Sweeps
        <3>8. QED
            BY <1>1, <3>4, <3>7 DEF Single, Does
    <2>3. CASE ~Wins(s, "PENDING")
        <3>1. row' = row /\ SetJob(p, Idle) /\ UNCHANGED <<transfer, market, retries, crashes>>
            BY <1>3, <2>3 DEF _start_sweep, _transition
        <3>2. About(p, s)
            BY <1>1, <3>1, AboutOne DEF Idle
        <3>3. Quits(p, s)
            BY <2>1, <3>1, SetJobIs DEF Quits, Alone, IsAt
        <3>4. QED
            BY <1>1, <3>2, <3>3 DEF Single, Does
    <2>4. QED
        BY <2>2, <2>3
<1>4. CASE SweepAnswered(p)
    <2>1. n \in Refs /\ job[p].at = "sent"
          /\ UNCHANGED <<row, transfer, market, retries, crashes>>
        BY <1>4 DEF SweepAnswered, IsAt, IInv, JobsOK
    <2>2. ASSUME NEW says, says = "rejected" => transfer[s][n] \in {"rejected", "refused"},
                 SetJob(p, [job[p] EXCEPT !.at = "apply", !.says = says])
          PROVE  Single(p, s)
        <3> DEFINE j == [job[p] EXCEPT !.at = "apply", !.says = says]
        <3>1. j.s = s /\ j.at = "apply" /\ j.n = n /\ j.says = says
            BY <1>1 DEF Jobs
        <3> HIDE DEF j
        <3>2. SetJob(p, j)
            BY <2>2 DEF j
        <3>3. About(p, s)
            BY <1>1, <2>1, <3>1, <3>2, AboutOne
        <3>4. Hears(p, s)
            BY <1>1, <2>1, <2>2, <3>1, <3>2, SetJobIs DEF Hears, Alone
        <3>5. QED
            BY <3>3, <3>4 DEF Single, Does
    <2>3. CASE transfer[s][n] \in Ended /\ SetJob(p, [job[p] EXCEPT !.at = "apply", !.says = transfer[s][n]])
        BY <1>1, <2>2, <2>3
    <2>4. CASE transfer[s][n] = "refused" /\ SetJob(p, [job[p] EXCEPT !.at = "apply", !.says = "rejected"])
        BY <1>1, <2>2, <2>4
    <2>5. CASE SetJob(p, Idle)
        <3>1. About(p, s)
            BY <1>1, <2>1, <2>5, AboutOne DEF Idle
        <3>2. Quits(p, s)
            BY <2>1, <2>5, SetJobIs DEF Quits, Alone, IsAt
        <3>3. QED
            BY <1>1, <3>1, <3>2 DEF Single, Does
    <2>6. QED
        BY <1>1, <1>4, <2>3, <2>4, <2>5 DEF SweepAnswered
<1>5. CASE _apply_sweep_result(p)
    <2> DEFINE r == [row[s] EXCEPT !.status = "SWEPT", !.swept = TRUE, !.attempts = 0]
    <2>1. job[p].at = "apply" /\ UNCHANGED <<transfer, market, retries, crashes>>
        BY <1>5 DEF _apply_sweep_result, IsAt
    <2>2. /\ <<job[p].at, "SWEEPING", "FAILED">> \in Arrows /\ <<job[p].at, "SWEEPING", "PENDING">> \in Arrows
          /\ <<job[p].at, "SWEEPING", "SWEPT">> \in Arrows
        BY <2>1 DEF Arrows
    <2>3. CASE _transition(s, "SWEEPING", r) /\ SetJob(p, Idle)
        <3>1. r.status = "SWEPT" /\ r.sweep_attempt = row[s].sweep_attempt
              /\ r.auto_convert = row[s].auto_convert
              /\ r.reserved = row[s].reserved /\ r.sells = row[s].sells /\ r \in Rows
            <4>1. 0 \in 0..MaxAttempts
                BY SettlementAssumption
            <4>2. QED
                BY <1>1, <4>1 DEF Rows, Statuses
        <3> HIDE DEF r
        <3>2. QED
            BY <1>1, <2>1, <2>2, <2>3, <3>1, ShiftOrQuit
    <2>4. CASE _fail(p, s, "SWEEPING", FALSE) \/ _fail(p, s, "SWEEPING", TRUE)
        BY <1>1, <2>1, <2>2, <2>4, FailShifts
    <2>5. CASE job[p].says = "rejected" /\ _retry_sweep_later(p, s, "SWEEPING")
        BY <1>1, <2>1, <2>2, <2>5, RetryShifts DEF _retry_sweep_later
    <2>6. QED
        BY <1>1, <1>5, <2>3, <2>4, <2>5 DEF _apply_sweep_result
<1>6. QED
    BY <1>2, <1>3, <1>4, <1>5
(* Taking up a row. *)
LEMMA TakeUpSingle ==
    ASSUME IInv, NEW p \in Procs, NEW s \in Settlements,
           (p \in Workers /\ TakeUp(p, s)) \/ handle_sweep_webhook(p, s)
    PROVE  Single(p, s)
<1>1. job[p] = Idle /\ row[s] \in Rows /\ job[p].s = NoRow
    <2>1. job[p] = Idle
        BY DEF TakeUp, LoadPending, _poll_sweep, LoadSwept, _check_stale_sell, handle_sweep_webhook
    <2>2. Idle.s = NoRow
        BY DEF Idle
    <2>3. QED
        BY <2>1, <2>2 DEF IInv, TypeOK
<1>2. ASSUME NEW at, NEW n, NEW says, SetJob(p, Job(at, s, n, says)),
             UNCHANGED <<row, transfer, market, retries, crashes>>
      PROVE  /\ About(p, s) /\ Alone(s)
             /\ job'[p].at = at /\ job'[p].s = s /\ job'[p].n = n /\ job'[p].says = says
    <2>1. Job(at, s, n, says).s = s /\ Job(at, s, n, says).at = at
          /\ Job(at, s, n, says).n = n /\ Job(at, s, n, says).says = says
        BY DEF Job
    <2>2. job'[p] = Job(at, s, n, says)
        BY <1>2, SetJobIs
    <2>3. About(p, s)
        BY <1>1, <1>2, <2>1, AboutOne
    <2>4. QED
        BY <1>2, <2>1, <2>2, <2>3 DEF Alone
<1>3. CASE p \in Workers /\ LoadPending(p, s)
    <2>1. SetJob(p, Job("start", s, row[s].sweep_attempt + 1, ""))
          /\ UNCHANGED <<row, transfer, market, retries, crashes>>
          /\ row[s].status = "PENDING" /\ \A q \in WebWorkers : job[q].s # s
        BY <1>3 DEF LoadPending
    <2>2. Reads(p, s)
        BY <1>1, <1>2, <1>3, <2>1 DEF Reads, WorksOn
    <2>3. QED
        BY <1>2, <2>1, <2>2 DEF Single, Does
<1>4. CASE _poll_sweep(p, s) \/ handle_sweep_webhook(p, s)
    <2> DEFINE n == row[s].sweep_attempt
    <2>1. row[s].status = "SWEEPING" /\ UNCHANGED <<row, transfer, market, retries, crashes>>
          /\ n \in Refs
        BY <1>1, <1>4 DEF _poll_sweep, handle_sweep_webhook, IInv, SweptRows
    <2>2. PICK says : /\ SetJob(p, Job("apply", s, n, says))
                      /\ says = "rejected" => transfer[s][n] = "rejected"
        BY <1>4 DEF _poll_sweep, handle_sweep_webhook
    <2>3. Reads(p, s)
        BY <1>1, <1>2, <2>1, <2>2 DEF Reads
    <2>4. QED
        BY <1>2, <2>1, <2>2, <2>3 DEF Single, Does
<1>5. CASE LoadSwept(p, s)
    <2>1. row[s].status = "SWEPT" /\ UNCHANGED <<row, transfer, market, retries, crashes>>
        BY <1>5 DEF LoadSwept
    <2>2. PICK at : /\ SetJob(p, Job(at, s, 0, ""))
                    /\ (at = "quote" /\ row[s].auto_convert) \/ at = "hold"
        BY <1>5 DEF LoadSwept
    <2>3. Reads(p, s)
        BY <1>1, <1>2, <2>1, <2>2 DEF Reads
    <2>4. QED
        BY <1>2, <2>1, <2>2, <2>3 DEF Single, Does
<1>6. CASE _check_stale_sell(p, s)
    <2>1. _fail(p, s, "SELLING", FALSE) /\ UNCHANGED <<transfer, market, retries, crashes>>
          /\ \A q \in Procs : WorksOn(q, s) => job[q].at \notin SellSteps
        BY <1>6 DEF _check_stale_sell, WorksOn, SellSteps
    <2>2. job[p].at = "idle" /\ <<job[p].at, "SELLING", "FAILED">> \in Arrows
        <3>1. Idle.at = "idle" /\ job[p].at = "idle"
            <4>1. Idle.at = "idle"
                BY DEF Idle
            <4>2. QED
                BY <1>1, <4>1
        <3>2. QED
            BY <3>1 DEF Arrows
    <2>3. QED
        BY <1>1, <2>1, <2>2, FailShifts
<1>7. QED
    BY <1>3, <1>4, <1>5, <1>6 DEF TakeUp

(* The ways a swept row goes on without selling. *)
LEMMA NoSellSingle ==
    ASSUME IInv, NEW p \in Procs, CompleteHold(p) \/ _skip_conversion(p) \/ QuoteFailed(p)
    PROVE  job[p].s \in Settlements /\ Single(p, job[p].s)
<1> DEFINE s == job[p].s
           a == IF job[p].attempts < MaxAttempts THEN job[p].attempts + 1 ELSE MaxAttempts
           c == [row[s] EXCEPT !.status = "COMPLETED"]
           k == [row[s] EXCEPT !.status = "SKIPPED"]
           q == [row[s] EXCEPT !.attempts = a]
<1>1. s \in Settlements /\ job[p] \in Jobs /\ job[p].at \in {"hold", "quote"}
      /\ UNCHANGED <<transfer, market, retries, crashes>>
    BY DEF CompleteHold, _skip_conversion, QuoteFailed, IsAt, IInv, TypeOK, JobsOK
<1>2. row[s] \in Rows
    BY <1>1 DEF IInv, TypeOK
<1>3. a \in 0..MaxAttempts
    BY <1>1, SettlementAssumption DEF Jobs
<1> HIDE DEF a
<1>4. /\ c \in Rows /\ k \in Rows /\ q \in Rows
      /\ c.status = "COMPLETED" /\ k.status = "SKIPPED" /\ q.status = row[s].status
      /\ \A r \in {c, k, q} :
           /\ r.auto_convert = row[s].auto_convert /\ r.reserved = row[s].reserved
           /\ r.sweep_attempt = row[s].sweep_attempt /\ r.sells = row[s].sells
    BY <1>2, <1>3 DEF Rows, Statuses
<1>5. CASE CompleteHold(p)
    <2>1. _transition(s, "SWEPT", c) /\ SetJob(p, Idle) /\ <<job[p].at, "SWEPT", "COMPLETED">> \in Arrows
        BY <1>5 DEF CompleteHold, IsAt, Arrows
    <2> HIDE DEF c, k, q
    <2>2. QED
        BY <1>1, <1>4, <2>1, ShiftOrQuit
<1>6. CASE _skip_conversion(p)
    <2> DEFINE j == IF Wins(s, "SWEPT") THEN Job("release", s, 0, "") ELSE Idle
    <2>1. _transition(s, "SWEPT", k) /\ SetJob(p, j) /\ <<job[p].at, "SWEPT", "SKIPPED">> \in Arrows
        BY <1>6 DEF _skip_conversion, IsAt, Arrows
    <2>2. /\ j = Idle \/ (j = Job("release", s, 0, "") /\ Wins(s, "SWEPT"))
          /\ Wins(s, "SWEPT") => j = Job("release", s, 0, "")
        OBVIOUS
    <2> HIDE DEF c, k, q, j
    <2>3. QED
        BY <1>1, <1>4, <2>1, <2>2, ShiftOrQuit
<1>7. CASE QuoteFailed(p)
    <2>1. _transition(s, "SWEPT", q) /\ SetJob(p, Idle) /\ <<job[p].at, "SWEPT", "SWEPT">> \in Arrows
        BY <1>7 DEF QuoteFailed, IsAt, Arrows, a
    <2> HIDE DEF c, k, q
    <2>2. CASE Wins(s, "SWEPT")
        <3>1. q.status = "SWEPT"
            BY <1>4, <2>2 DEF Wins
        <3>2. QED
            BY <1>1, <1>4, <2>1, <3>1, ShiftOrQuit
    <2>3. CASE ~Wins(s, "SWEPT")
        <3>1. row' = row
            BY <2>1, <2>3 DEF _transition
        <3>2. About(p, s)
            BY <1>1, <2>1, <3>1, AboutOne DEF Idle
        <3>3. Quits(p, s)
            BY <1>1, <2>1, <3>1, SetJobIs DEF Quits, Alone, IsAt
        <3>4. QED
            BY <1>1, <3>2, <3>3 DEF Single, Does
    <2>4. QED
        BY <2>2, <2>3
<1>8. QED
    BY <1>5, <1>6, <1>7
(* The steps of a sell. *)
LEMMA SellSingle ==
    ASSUME IInv, NEW p \in Procs,
           StartSell(p) \/ SellDone(p) \/ SellFailed(p) \/ AfterFailedSell(p)
    PROVE  job[p].s \in Settlements /\ Single(p, job[p].s)
<1> DEFINE s == job[p].s
           n == job[p].n
<1>1. s \in Settlements /\ job[p].at # "idle" /\ row[s] \in Rows /\ job[p] \in Jobs
    <2>1. job[p].at # "idle"
        BY DEF StartSell, SellDone, SellFailed, AfterFailedSell, IsAt
    <2>2. s \in Settlements
        BY <2>1 DEF IInv, JobsOK
    <2>3. QED
        BY <2>1, <2>2 DEF IInv, TypeOK
<1>2. ASSUME SetJob(p, Idle), UNCHANGED <<row, market, transfer, retries, crashes>>,
             job[p].at # "release"
      PROVE  Single(p, s)
    <2>1. About(p, s)
        BY <1>1, <1>2, AboutOne DEF Idle
    <2>2. Quits(p, s)
        BY <1>2, SetJobIs DEF Quits, Alone, IsAt
    <2>3. QED
        BY <2>1, <2>2 DEF Single, Does
<1>3. CASE StartSell(p)
    <2> DEFINE k == row[s].sells + 1
               r == [row[s] EXCEPT !.status = "SELLING", !.sells = k]
               j == Job("sell", s, k, "")
    <2>1. k \in Refs /\ job[p].at = "quote" /\ UNCHANGED <<transfer, retries, crashes>>
        BY <1>3 DEF StartSell, IsAt
    <2>2. CASE Wins(s, "SWEPT")
        <3>1. r.status = "SELLING" /\ r.sells = k /\ r.auto_convert = row[s].auto_convert
              /\ r.reserved = row[s].reserved /\ r.sweep_attempt = row[s].sweep_attempt
            BY <1>1 DEF Rows
        <3>2. j.at = "sell" /\ j.s = s /\ j.n = k
            BY DEF Job
        <3>3. /\ row' = [row EXCEPT ![s] = r] /\ SetJob(p, j)
              /\ market' = [market EXCEPT ![s][k] = "sent"]
            BY <1>3, <2>2 DEF StartSell, _transition
        <3> HIDE DEF r, j
        <3>4. About(p, s)
            BY <1>1, <2>1, <3>2, <3>3, AboutOne DEF IInv, TypeOK
        <3>5. row'[s] = r /\ job'[p] = j /\ row[s].status = "SWEPT"
            BY <1>1, <2>2, <3>3, SetJobIs DEF Wins, IInv, TypeOK
        <3>6. market'[s][k] = "sent" /\ \A m \in Refs \ {k} : market'[s][m] = market[s][m]
            BY <1>1, <2>1, <3>3 DEF IInv, TypeOK
        <3>7. Sells(p, s)
            BY <1>1, <2>1, <3>1, <3>2, <3>5, <3>6 DEF Sells
        <3>8. QED
            BY <1>1, <3>4, <3>7 DEF Single, Does
    <2>3. CASE ~Wins(s, "SWEPT")
        <3>1. SetJob(p, Idle) /\ UNCHANGED <<row, market>>
            BY <1>3, <2>3 DEF StartSell, _transition
        <3>2. QED
            BY <1>1, <1>2, <2>1, <3>1
    <2>4. QED
        BY <2>2, <2>3
<1>4. CASE SellDone(p)
    <2>1. job[p].at = "sell" /\ SetJob(p, Idle) /\ UNCHANGED <<market, transfer, retries, crashes>>
        BY <1>4 DEF SellDone, IsAt
    <2>2. CASE Wins(s, "SELLING")
        <3>1. row' = [row EXCEPT ![s].status = "COMPLETED", ![s].reserved = FALSE]
            BY <1>4, <2>2 DEF SellDone
        <3>2. /\ row'[s].status = "COMPLETED" /\ ~row'[s].reserved /\ row[s].status = "SELLING"
              /\ SameCoins(s) /\ \A t \in Settlements \ {s} : row'[t] = row[t]
            BY <1>1, <2>2, <3>1 DEF Wins, SameCoins, Rows, IInv, TypeOK
        <3>3. About(p, s)
            BY <1>1, <2>1, <3>2, AboutOne DEF Idle
        <3>4. LetsGo(p, s)
            BY <2>1, <3>2, SetJobIs DEF LetsGo
        <3>5. QED
            BY <1>1, <3>3, <3>4 DEF Single, Does
    <2>3. CASE ~Wins(s, "SELLING")
        <3>1. row' = row
            BY <1>4, <2>3 DEF SellDone
        <3>2. QED
            BY <1>1, <1>2, <2>1, <3>1
    <2>4. QED
        BY <2>2, <2>3
<1>5. CASE SellFailed(p)
    <2>1. job[p].at = "sell" /\ n \in Refs /\ UNCHANGED <<row, market, transfer, retries, crashes>>
        BY <1>5 DEF SellFailed, IsAt, IInv, JobsOK
    <2>2. PICK at : /\ SetJob(p, [job[p] EXCEPT !.at = at]) /\ at \in {"resell", "unsold"}
                    /\ at = "resell" => market[s][n] = "refused"
        BY <1>5 DEF SellFailed
    <2> DEFINE j == [job[p] EXCEPT !.at = at]
    <2>3. j.s = s /\ j.at = at /\ j.n = n
        BY <1>1 DEF Jobs
    <2> HIDE DEF j
    <2>4. SetJob(p, j)
        BY <2>2 DEF j
    <2>5. About(p, s)
        BY <1>1, <2>1, <2>3, <2>4, AboutOne
    <2>6. Hears(p, s)
        BY <1>1, <2>1, <2>2, <2>3, <2>4, SetJobIs DEF Hears, Alone
    <2>7. QED
        BY <1>1, <2>5, <2>6 DEF Single, Does
<1>6. CASE AfterFailedSell(p)
    <2>2. UNCHANGED <<market, transfer, retries, crashes>>
        BY <1>6 DEF AfterFailedSell
    <2>3. CASE IsAt(p, "resell") /\ _retry_sell_later(p, s)
        <3>1. job[p].at = "resell" /\ <<job[p].at, "SELLING", "FAILED">> \in Arrows
              /\ <<job[p].at, "SELLING", "SWEPT">> \in Arrows
            BY <2>3 DEF IsAt, Arrows
        <3>2. QED
            BY <1>1, <2>2, <2>3, <3>1, RetryShifts DEF _retry_sell_later
    <2>4. CASE IsAt(p, "unsold") /\ _fail(p, s, "SELLING", FALSE)
        <3>1. job[p].at = "unsold" /\ <<job[p].at, "SELLING", "FAILED">> \in Arrows
            BY <2>4 DEF IsAt, Arrows
        <3>2. QED
            BY <1>1, <2>2, <2>4, <3>1, FailShifts
    <2>5. QED
        BY <1>1, <1>6, <2>3, <2>4 DEF AfterFailedSell
<1>7. QED
    BY <1>3, <1>4, <1>5, <1>6

(* Giving the coins back. *)
LEMMA ReleaseSingle ==
    ASSUME IInv, NEW p \in Procs, _release_reservation(p)
    PROVE  job[p].s \in Settlements /\ Single(p, job[p].s)
<1> DEFINE s == job[p].s
<1>1. s \in Settlements /\ job[p].at = "release" /\ row[s] \in Rows
      /\ SetJob(p, Idle) /\ UNCHANGED <<market, transfer, retries, crashes>>
    <2>1. job[p].at = "release"
        BY DEF _release_reservation, IsAt
    <2>2. s \in Settlements
        BY <2>1 DEF IInv, JobsOK
    <2>3. QED
        BY <2>1, <2>2 DEF _release_reservation, IInv, TypeOK
<1>2. CASE ~row[s].reserved /\ row' = row
    <2>1. About(p, s)
        BY <1>1, <1>2, AboutOne DEF Idle
    <2>2. Quits(p, s)
        BY <1>1, <1>2, SetJobIs DEF Quits, Alone, IsAt
    <2>3. QED
        BY <1>1, <2>1, <2>2 DEF Single, Does
<1>3. CASE row' = [row EXCEPT ![s].reserved = FALSE]
    <2>1. /\ ~row'[s].reserved /\ row'[s].status = row[s].status
          /\ SameCoins(s) /\ \A t \in Settlements \ {s} : row'[t] = row[t]
        BY <1>1, <1>3 DEF SameCoins, Rows, IInv, TypeOK
    <2>2. About(p, s)
        BY <1>1, <2>1, AboutOne DEF Idle
    <2>3. LetsGo(p, s)
        BY <1>1, <2>1, SetJobIs DEF LetsGo
    <2>4. QED
        BY <1>1, <2>2, <2>3 DEF Single, Does
<1>4. QED
    BY <1>2, <1>3 DEF _release_reservation

(* Every step of a process but its crash is one of these. *)
LEMMA GoOnSingle ==
    ASSUME IInv, NEW p \in Procs, GoOn(p)
    PROVE  job[p].s \in Settlements /\ Single(p, job[p].s)
BY SweepSingle, NoSellSingle, SellSingle, ReleaseSingle DEF GoOn

(* And so is a crash, if it had a row. *)
LEMMA CrashSingle ==
    ASSUME IInv, NEW p \in Procs, Crash(p), job[p].s \in Settlements
    PROVE  Single(p, job[p].s)
<1> DEFINE s == job[p].s
<1>1. /\ SetJob(p, Idle) /\ UNCHANGED <<row, market, transfer, retries>>
      /\ crashes' = crashes + 1 /\ crashes \in Nat
    BY SettlementAssumption DEF Crash, IInv, TypeOK
<1>2. job'[p] = Idle /\ Idle.s = NoRow /\ \A q \in Procs \ {p} : job'[q] = job[q]
    BY <1>1, SetJobIs DEF Idle
<1>3. About(p, s)
    BY <1>1, <1>2 DEF About
<1>4. Quits(p, s)
    BY <1>1, <1>2 DEF Quits, Alone
<1>5. QED
    BY <1>3, <1>4 DEF Single, Does
-----------------------------------------------------------------------------
(* Whoever does not touch a row, its sells and sweeps, and whoever works   *)
(* on it leaves what is said of it as it was.                              *)
Spared(t) ==
    /\ row'[t] = row[t] /\ market'[t] = market[t] /\ transfer'[t] = transfer[t]
    /\ retries'[t] = retries[t]
    /\ \A q \in Procs : job'[q] = job[q] \/ (~WorksOn(q, t) /\ ~WorksOn(q, t)')
    /\ crashes' \in Nat /\ crashes' >= crashes

(* A row that a step spares keeps its claim on the coins.                  *)
LEMMA SparedClaims ==
    ASSUME IInv, NEW t \in Settlements, Spared(t), RowClaims(t)
    PROVE  RowClaims(t)'
<1>1. \A q \in Procs : WorksOn(q, t)' => WorksOn(q, t) /\ job'[q] = job[q]
    BY DEF Spared, WorksOn
<1>2. \A q \in Procs : WorksOn(q, t) => WorksOn(q, t)' /\ job'[q] = job[q]
    BY DEF Spared, WorksOn
<1>3. crashes > 0 => crashes' > 0
    BY SettlementAssumption DEF Spared, IInv, TypeOK
<1>4. QED
    BY <1>1, <1>2, <1>3 DEF Spared, RowClaims, IsAt

(* A row that a step spares keeps its sells.                               *)
LEMMA SparedSells ==
    ASSUME NEW t \in Settlements, Spared(t), RowSells(t)
    PROVE  RowSells(t)'
<1>1. \A q \in Procs : WorksOn(q, t)' => WorksOn(q, t) /\ job'[q] = job[q]
    BY DEF Spared, WorksOn
<1>2. LiveSells(t)' = LiveSells(t)
    BY DEF Spared, LiveSells
<1>3. QED
    BY <1>1, <1>2 DEF Spared, RowSells, IsAt

(* A row that a step spares keeps its sweeps.                              *)
LEMMA SparedSweeps ==
    ASSUME NEW t \in Settlements, Spared(t), RowSweeps(t)
    PROVE  RowSweeps(t)'
<1>1. \A q \in Procs : WorksOn(q, t)' => WorksOn(q, t) /\ job'[q] = job[q]
    BY DEF Spared, WorksOn
<1>2. LiveSweeps(t)' = LiveSweeps(t)
    BY DEF Spared, LiveSweeps
<1>3. QED
    BY <1>1, <1>2 DEF Spared, RowSweeps, IsAt

(* A step about one row spares the others.                                 *)
LEMMA AboutSpares ==
    ASSUME NEW p \in Procs, NEW s \in Settlements, About(p, s), NEW t \in Settlements \ {s}
    PROVE  Spared(t)
BY SettlementAssumption DEF About, Spared, WorksOn

(* A step about a row keeps its claims. *)
LEMMA SingleClaims ==
    ASSUME IInv, NEW p \in Procs, NEW s \in Settlements, Single(p, s), RowClaims(s)
    PROVE  RowClaims(s)'
<1> USE DEF RowClaims, WorksOn, IsAt
<1>1. /\ \A q \in Procs \ {p} : job'[q] = job[q]
      /\ crashes \in Nat /\ crashes' \in Nat /\ crashes' >= crashes
      /\ job[p].s \in {s, NoRow} /\ NoRow # s /\ Idle.s = NoRow /\ Idle.at = "idle"
    BY SettlementAssumption DEF Single, About, IInv, TypeOK, Idle
<1>2. row[s].status \in Statuses /\ row[s].auto_convert \in BOOLEAN /\ row[s].reserved \in BOOLEAN
    BY DEF IInv, TypeOK, Rows
<1>3. CASE Quits(p, s)
    BY <1>1, <1>2, <1>3 DEF Quits, Alone
<1>4. CASE Reads(p, s)
    BY <1>1, <1>2, <1>4 DEF Reads, Alone
<1>5. CASE Hears(p, s)
    BY <1>1, <1>2, <1>5 DEF Hears, Alone
<1>6. CASE Shifts(p, s)
    BY <1>1, <1>2, <1>6 DEF Shifts, SameCoins, Arrows, ACTIVE_STATUSES
<1>7. CASE Sweeps(p, s)
    BY <1>1, <1>2, <1>7 DEF Sweeps, ACTIVE_STATUSES
<1>8. CASE Sells(p, s)
    BY <1>1, <1>2, <1>8 DEF Sells, ACTIVE_STATUSES
<1>9. CASE LetsGo(p, s)
    BY <1>1, <1>2, <1>9 DEF LetsGo, SameCoins, ACTIVE_STATUSES
<1>10. QED
    BY <1>3, <1>4, <1>5, <1>6, <1>7, <1>8, <1>9 DEF Single, Does
-----------------------------------------------------------------------------
(* Sets of references are finite, and what their cardinalities are.        *)
LEMMA RefSets ==
    /\ \A S \in SUBSET Refs : IsFiniteSet(S) /\ Cardinality(S) \in Nat
    /\ \A S, T \in SUBSET Refs : S \subseteq T => Cardinality(S) <= Cardinality(T)
    /\ \A S \in SUBSET Refs, k \in Refs : Cardinality(S) <= Cardinality(S \ {k}) + 1
<1>1. IsFiniteSet(Refs)
    BY FS_Interval, SettlementAssumption DEF Refs
<1>2. \A S \in SUBSET Refs : IsFiniteSet(S) /\ Cardinality(S) \in Nat
    BY <1>1, FS_Subset, FS_CardinalityType
<1>3. \A S, T \in SUBSET Refs : S \subseteq T => Cardinality(S) <= Cardinality(T)
    BY <1>2, FS_Subset
<1>4. ASSUME NEW S \in SUBSET Refs, NEW k \in Refs
      PROVE  Cardinality(S) <= Cardinality(S \ {k}) + 1
    <2>1. CASE k \in S
        <3>1. Cardinality(S \ {k}) = Cardinality(S) - 1
            BY <1>2, <2>1, FS_RemoveElement
        <3>2. QED
            BY <1>2, <3>1
    <2>2. CASE k \notin S
        <3>1. S \ {k} = S
            BY <2>2
        <3>2. QED
            BY <1>2, <3>1
    <2>3. QED
        BY <2>1, <2>2
<1>5. QED
    BY <1>2, <1>3, <1>4

(* A step about a row keeps what is said of its sells. *)
LEMMA SingleSells ==
    ASSUME IInv, NEW p \in Procs, NEW s \in Settlements, Single(p, s), RowSells(s)
    PROVE  RowSells(s)'
<1> USE DEF RowSells, WorksOn, IsAt, SellSteps
<1>1. /\ \A q \in Procs \ {p} : job'[q] = job[q]
      /\ retries' = retries /\ retries[s] \in Nat
      /\ job[p].s \in {s, NoRow} /\ NoRow # s /\ Idle.s = NoRow /\ Idle.at = "idle"
    BY SettlementAssumption DEF Single, About, IInv, TypeOK, Idle
<1>2. row[s].status \in Statuses /\ row[s].sells \in 0..MaxRefs
    BY DEF IInv, TypeOK, Rows
<1>3. ASSUME market'[s] = market[s] PROVE LiveSells(s)' = LiveSells(s)
    BY <1>3 DEF LiveSells
<1>4. /\ LiveSells(s) \in SUBSET Refs /\ LiveSells(s)' \in SUBSET Refs
      /\ LiveSells(s) \ {row[s].sells} \in SUBSET Refs
    BY DEF LiveSells
<1>5. CASE Quits(p, s)
    BY <1>1, <1>2, <1>3, <1>5 DEF Quits, Alone
<1>6. CASE Reads(p, s)
    BY <1>1, <1>2, <1>3, <1>6 DEF Reads, Alone
<1>7. CASE Hears(p, s)
    BY <1>1, <1>2, <1>3, <1>7 DEF Hears, Alone
<1>8. CASE Shifts(p, s)
    <2>1. /\ row'[s].sells = row[s].sells /\ market'[s] = market[s]
          /\ LiveSells(s)' = LiveSells(s)
          /\ \A q \in Procs : job'[q].s = s /\ job'[q].at \in SellSteps => q # p
        BY <1>1, <1>3, <1>8 DEF Shifts, SameCoins
    <2>2. \A q \in Procs : job'[q].s = s /\ job'[q].at \in SellSteps =>
              job'[q] = job[q] /\ row'[s].status = row[s].status
        BY <1>1, <1>8, <2>1 DEF Shifts, Arrows
    <2>3. row'[s].status \in {"none", "PENDING", "SWEEPING", "SWEPT"} =>
              Cardinality(LiveSells(s)) <= retries[s]
        <3>1. CASE job[p].at = "resell" /\ row'[s].status = "SWEPT"
            <4>1. market[s][job[p].n] = "refused" /\ job[p].n = row[s].sells
                BY <1>8, <3>1 DEF Shifts
            <4>2. LiveSells(s) \ {row[s].sells} = LiveSells(s)
                BY <4>1 DEF LiveSells
            <4>3. QED
                BY <4>2
        <3>2. CASE ~(job[p].at = "resell" /\ row'[s].status = "SWEPT")
            BY <1>8, <3>2 DEF Shifts, Arrows
        <3>3. QED
            BY <3>1, <3>2
    <2>4. QED
        BY <1>1, <1>2, <2>1, <2>2, <2>3
<1>9. CASE Sweeps(p, s)
    BY <1>1, <1>2, <1>3, <1>9 DEF Sweeps
<1>10. CASE Sells(p, s)
    <2> DEFINE k == row[s].sells + 1
    <2>1. /\ row[s].status = "SWEPT" /\ row'[s].status = "SELLING"
          /\ row'[s].sells = k /\ k \in Refs
          /\ job[p].at = "quote" /\ job'[p].at = "sell" /\ job'[p].s = s /\ job'[p].n = k
          /\ market'[s][k] = "sent" /\ \A i \in Refs \ {k} : market'[s][i] = market[s][i]
        BY <1>10 DEF Sells
    <2>2. k > row[s].sells /\ market[s][k] = "unsent"
        BY <1>2, <2>1
    <2>3. LiveSells(s)' \ {k} = LiveSells(s)
        BY <2>1, <2>2 DEF LiveSells
    <2>4. \A q \in Procs : job[q].s = s /\ job[q].at \in SellSteps => FALSE
        BY <2>1
    <2>5. \A q \in Procs : job'[q].s = s /\ job'[q].at \in SellSteps => q = p
        BY <1>1, <2>4
    <2>6. \A i \in Refs : i > k => market'[s][i] = "unsent"
        <3>1. \A i \in Refs : i > k => i # k /\ i > row[s].sells
            BY <1>2, SettlementAssumption DEF Refs
        <3>2. QED
            BY <2>1, <3>1
    <2>7. Cardinality(LiveSells(s)') \in Nat /\ Cardinality(LiveSells(s)' \ {k}) <= retries'[s]
        BY <1>1, <1>4, <2>1, <2>3, RefSets
    <2> HIDE DEF k
    <2>8. QED
        BY <2>1, <2>5, <2>6, <2>7
<1>11. CASE LetsGo(p, s)
    BY <1>1, <1>2, <1>3, <1>11 DEF LetsGo, SameCoins
<1>12. QED
    BY <1>5, <1>6, <1>7, <1>8, <1>9, <1>10, <1>11 DEF Single, Does
(* With one worker, a step about a row keeps what is said of its sweeps. *)
OneWorker == \A p, q \in Workers : p = q

(* With one worker, a step about a row keeps its sweeps apart.             *)
LEMMA SingleSweeps ==
    ASSUME IInv, OneWorker, NEW p \in Procs, NEW s \in Settlements, Single(p, s),
           RowClaims(s), RowSweeps(s)
    PROVE  RowSweeps(s)'
<1> USE DEF RowSweeps, WorksOn, IsAt
<1>1. /\ \A q \in Procs \ {p} : job'[q] = job[q]
      /\ retries' = retries /\ retries[s] \in Nat
      /\ job[p].s \in {s, NoRow} /\ NoRow # s /\ Idle.s = NoRow /\ Idle.at = "idle"
    BY SettlementAssumption DEF Single, About, IInv, TypeOK, Idle
<1>2. row[s].status \in Statuses /\ row[s].sweep_attempt \in 0..MaxRefs
    BY DEF IInv, TypeOK, Rows
<1>3. ASSUME transfer'[s] = transfer[s] PROVE LiveSweeps(s)' = LiveSweeps(s)
    BY <1>3 DEF LiveSweeps
<1>4. /\ LiveSweeps(s) \in SUBSET Refs /\ LiveSweeps(s)' \in SUBSET Refs
      /\ LiveSweeps(s) \ {row[s].sweep_attempt} \in SUBSET Refs
    BY DEF LiveSweeps
<1>5. CASE Quits(p, s)
    BY <1>1, <1>2, <1>3, <1>5 DEF Quits, Alone
<1>6. CASE Reads(p, s)
    BY <1>1, <1>2, <1>3, <1>6 DEF Reads, Alone, OneWorker, Procs
<1>7. CASE Hears(p, s)
    BY <1>1, <1>2, <1>3, <1>7 DEF Hears, Alone
<1>8. CASE Shifts(p, s)
    <2>1. /\ row'[s].sweep_attempt = row[s].sweep_attempt /\ transfer'[s] = transfer[s]
          /\ LiveSweeps(s)' = LiveSweeps(s)
          /\ row'[s].status # "SWEEPING"
          /\ job'[p].at \notin {"start", "sent", "apply"}
        BY <1>1, <1>3, <1>8 DEF Shifts, SameCoins, Arrows
    <2>2. \A q \in Procs : job'[q].s = s /\ job'[q].at \in {"start", "sent", "apply"} =>
              q # p /\ job'[q] = job[q]
        BY <1>1, <2>1
    <2>3. \A q \in Procs \ {p} : job[q].s = s => job[q].at # "start"
        BY <1>8 DEF Shifts, Arrows
    <2>4. row'[s].status \in {"none", "PENDING"} => Cardinality(LiveSweeps(s)) <= retries[s]
        <3>1. CASE job[p].at = "apply" /\ row'[s].status = "PENDING"
            <4>1. /\ job[p].n = row[s].sweep_attempt
                  /\ transfer[s][job[p].n] \in {"rejected", "refused"}
                BY <1>8, <3>1 DEF Shifts, Arrows
            <4>2. LiveSweeps(s) \ {row[s].sweep_attempt} = LiveSweeps(s)
                BY <4>1 DEF LiveSweeps
            <4>3. QED
                BY <4>2
        <3>2. CASE ~(job[p].at = "apply" /\ row'[s].status = "PENDING")
            BY <1>8, <3>2 DEF Shifts, Arrows
        <3>3. QED
            BY <3>1, <3>2
    <2>5. QED
        BY <1>1, <2>1, <2>2, <2>3, <2>4
<1>9. CASE Sweeps(p, s)
    <2> DEFINE n == job[p].n
    <2>1. /\ row[s].status = "PENDING" /\ row'[s].status = "SWEEPING"
          /\ n \in Refs /\ row'[s].sweep_attempt = n
          /\ job[p].at = "start" /\ job[p].s = s
          /\ job'[p].at = "sent" /\ job'[p].s = s /\ job'[p].n = n
          /\ \A m \in Refs \ {n} : transfer'[s][m] = transfer[s][m]
        BY <1>9 DEF Sweeps
    <2>2. n = row[s].sweep_attempt + 1 /\ transfer[s][n] = "unsent"
        BY <1>2, <2>1
    <2>3. LiveSweeps(s)' \ {n} = LiveSweeps(s)
        BY <2>1, <2>2 DEF LiveSweeps
    <2>4. \A q \in Procs : job'[q].s = s => q = p
        BY <1>1, <2>1
    <2>5. \A m \in Refs : m > n => transfer'[s][m] = "unsent"
        <3>1. \A m \in Refs : m > n => m # n /\ m > row[s].sweep_attempt
            BY <1>2, <2>1, <2>2, SettlementAssumption DEF Refs
        <3>2. QED
            BY <2>1, <3>1
    <2>6. Cardinality(LiveSweeps(s)' \ {n}) <= retries'[s]
        BY <1>1, <2>1, <2>3
    <2> HIDE DEF n
    <2>7. QED
        BY <2>1, <2>4, <2>5, <2>6
<1>10. CASE Sells(p, s)
    BY <1>1, <1>2, <1>3, <1>10 DEF Sells
<1>11. CASE LetsGo(p, s)
    BY <1>1, <1>2, <1>3, <1>11 DEF LetsGo, SameCoins
<1>12. QED
    BY <1>5, <1>6, <1>7, <1>8, <1>9, <1>10, <1>11 DEF Single, Does
-----------------------------------------------------------------------------
(* The steps that are not a process's. *)

(* What moves a row that nobody works on to PENDING or SWEPT. *)
LEMMA RestartKeeps ==
    ASSUME IInv, NEW s \in Settlements, \A q \in Procs : ~WorksOn(q, s),
           row'[s].status \in {"PENDING", "SWEPT"},
           row'[s].auto_convert => row'[s].reserved,
           row'[s].sells = row[s].sells, row'[s].sweep_attempt = row[s].sweep_attempt,
           \A t \in Settlements \ {s} : row'[t] = row[t] /\ retries'[t] = retries[t],
           \/ row[s].status = "none" /\ retries'[s] = retries[s]
           \/ retries'[s] = retries[s] + 1,
           UNCHANGED <<transfer, market, job, crashes>>
    PROVE  /\ RowClaims(s)'
           /\ RowSells(s) => RowSells(s)'
           /\ RowSweeps(s) => RowSweeps(s)'
           /\ \A t \in Settlements \ {s} : Spared(t)
<1>1. \A q \in Procs : ~WorksOn(q, s)'
    BY DEF WorksOn
<1>2. RowClaims(s)'
    BY <1>1 DEF RowClaims
<1>3. ASSUME NEW S \in SUBSET Refs, NEW k \in 0..MaxRefs, Cardinality(S \ {k}) <= retries[s],
             row[s].status = "none" => Cardinality(S) <= retries[s]
      PROVE  Cardinality(S) <= retries'[s] /\ Cardinality(S \ {k}) <= retries'[s]
    <2>1. /\ Cardinality(S) \in Nat /\ Cardinality(S \ {k}) \in Nat
          /\ Cardinality(S) <= Cardinality(S \ {k}) + 1
        <3>1. S \ {k} \in SUBSET Refs
            OBVIOUS
        <3>2. CASE k \in Refs
            BY <3>1, <3>2, RefSets
        <3>3. CASE k \notin Refs
            <4>1. S \ {k} = S
                BY <3>3
            <4>2. QED
                BY <4>1, RefSets
        <3>4. QED
            BY <3>2, <3>3
    <2>2. retries[s] \in Nat
        BY SettlementAssumption DEF IInv, TypeOK
    <2>3. QED
        BY <1>3, <2>1, <2>2
<1>4. row[s].sells \in 0..MaxRefs /\ row[s].sweep_attempt \in 0..MaxRefs
    BY DEF IInv, TypeOK, Rows
<1>5. ASSUME RowSells(s) PROVE RowSells(s)'
    <2>1. LiveSells(s) \in SUBSET Refs /\ LiveSells(s)' = LiveSells(s)
        BY DEF LiveSells
    <2>2. /\ Cardinality(LiveSells(s) \ {row[s].sells}) <= retries[s]
          /\ row[s].status = "none" => Cardinality(LiveSells(s)) <= retries[s]
        BY <1>5 DEF RowSells
    <2>3. /\ Cardinality(LiveSells(s)) <= retries'[s]
          /\ Cardinality(LiveSells(s) \ {row[s].sells}) <= retries'[s]
        BY <1>3, <1>4, <2>1, <2>2
    <2>4. QED
        BY <1>1, <1>5, <2>1, <2>3 DEF RowSells
<1>6. ASSUME RowSweeps(s) PROVE RowSweeps(s)'
    <2>1. LiveSweeps(s) \in SUBSET Refs /\ LiveSweeps(s)' = LiveSweeps(s)
        BY DEF LiveSweeps
    <2>2. /\ Cardinality(LiveSweeps(s) \ {row[s].sweep_attempt}) <= retries[s]
          /\ row[s].status = "none" => Cardinality(LiveSweeps(s)) <= retries[s]
        BY <1>6 DEF RowSweeps
    <2>3. /\ Cardinality(LiveSweeps(s)) <= retries'[s]
          /\ Cardinality(LiveSweeps(s) \ {row[s].sweep_attempt}) <= retries'[s]
        BY <1>3, <1>4, <2>1, <2>2
    <2>4. QED
        BY <1>1, <1>6, <2>1, <2>3 DEF RowSweeps
<1>7. \A t \in Settlements \ {s} : Spared(t)
    BY SettlementAssumption DEF Spared, IInv, TypeOK
<1>8. QED
    BY <1>2, <1>5, <1>6, <1>7

(* A new row, or one an admin takes up again. *)
LEMMA NewRowKeeps ==
    ASSUME IInv, NEW s \in Settlements, NEW auto \in BOOLEAN, RowClaims(s),
           create_for_deposit(s, auto) \/ create_backfill_sweep(s) \/ admin_retry(s)
    PROVE  /\ RowClaims(s)'
           /\ RowSells(s) => RowSells(s)'
           /\ RowSweeps(s) => RowSweeps(s)'
           /\ \A t \in Settlements \ {s} : Spared(t)
<1>1. UNCHANGED <<transfer, market, job, crashes>> /\ row[s] \in Rows /\ retries[s] \in Nat
    BY SettlementAssumption DEF create_for_deposit, create_backfill_sweep, admin_retry, IInv, TypeOK
<1>2. CASE create_for_deposit(s, auto) \/ create_backfill_sweep(s)
    <2>1. row[s].status = "none" /\ UNCHANGED retries
        BY <1>2 DEF create_for_deposit, create_backfill_sweep
    <2>2. ~row[s].auto_convert /\ \A q \in Procs : ~WorksOn(q, s)
        BY <2>1 DEF RowClaims
    <2>3. /\ row'[s].status = "PENDING"
          /\ row'[s].auto_convert => row'[s].reserved
          /\ row'[s].sells = row[s].sells /\ row'[s].sweep_attempt = row[s].sweep_attempt
          /\ \A t \in Settlements \ {s} : row'[t] = row[t]
        BY <1>1, <1>2, <2>2 DEF create_for_deposit, create_backfill_sweep, Rows, IInv, TypeOK
    <2>4. QED
        BY <1>1, <2>1, <2>2, <2>3, RestartKeeps
<1>3. CASE admin_retry(s)
    <2> DEFINE r == [row[s] EXCEPT !.status = IF row[s].swept THEN "SWEPT" ELSE "PENDING", !.attempts = 0]
    <2>1. /\ r \in Rows /\ r.status \in {"PENDING", "SWEPT"} /\ r.auto_convert = row[s].auto_convert
          /\ r.reserved = row[s].reserved /\ r.sells = row[s].sells
          /\ r.sweep_attempt = row[s].sweep_attempt
        <3>1. 0 \in 0..MaxAttempts
            BY SettlementAssumption
        <3>2. QED
            BY <1>1, <3>1 DEF Rows, Statuses
    <2>2. \/ row[s].auto_convert /\ ~row[s].reserved /\ row' = [row EXCEPT ![s] = [r EXCEPT !.reserved = TRUE]]
          \/ row' = [row EXCEPT ![s] = [r EXCEPT !.auto_convert = FALSE]]
          \/ ~(row[s].auto_convert /\ ~row[s].reserved) /\ row' = [row EXCEPT ![s] = r]
        BY <1>3 DEF admin_retry
    <2> HIDE DEF r
    <2>3. /\ row'[s].status \in {"PENDING", "SWEPT"}
          /\ row'[s].auto_convert => row'[s].reserved
          /\ row'[s].sells = row[s].sells /\ row'[s].sweep_attempt = row[s].sweep_attempt
          /\ \A t \in Settlements \ {s} : row'[t] = row[t]
        BY <2>1, <2>2 DEF Rows, IInv, TypeOK
    <2>4. /\ retries'[s] = retries[s] + 1 /\ \A t \in Settlements \ {s} : retries'[t] = retries[t]
          /\ \A q \in Procs : ~WorksOn(q, s)
        BY <1>3 DEF admin_retry, WorksOn, IInv, TypeOK
    <2>5. QED
        BY <1>1, <2>3, <2>4, RestartKeeps
<1>4. QED
    BY <1>2, <1>3
(* What the row is said of still holds. *)
Keeps(u) ==
    /\ RowClaims(u)'
    /\ RowSells(u) => RowSells(u)'
    /\ OneWorker /\ RowSweeps(u) => RowSweeps(u)'

(* A row that a step spares keeps what it may claim.                       *)
LEMMA SparedKeeps ==
    ASSUME IInv, NEW u \in Settlements, Spared(u), RowClaims(u)
    PROVE  Keeps(u)
BY SparedClaims, SparedSells, SparedSweeps DEF Keeps

(* A step about one row keeps what any row may claim.                      *)
LEMMA SingleKeeps ==
    ASSUME IInv, NEW p \in Procs, NEW s \in Settlements, Single(p, s),
           NEW u \in Settlements, RowClaims(u)
    PROVE  Keeps(u)
<1>1. CASE u = s
    BY <1>1, SingleClaims, SingleSells, SingleSweeps DEF Keeps
<1>2. CASE u # s
    BY <1>2, AboutSpares, SparedKeeps DEF Single
<1>3. QED
    BY <1>1, <1>2

(* Quidax makes something of a sweep or a sell that is on the wire: no     *)
(* more of them are alive than before.                                     *)
LEMMA TransferKeeps ==
    ASSUME IInv, NEW s \in Settlements, NEW n \in Refs,
           NEW t \in {"processing", "refused", "lost"} \cup Ended, QuidaxTransfers(s, n, t),
           NEW u \in Settlements, RowClaims(u)
    PROVE  Keeps(u)
<1>1. UNCHANGED <<row, market, retries, job, crashes>> /\ transfer[s][n] \in {"sent", "processing"}
      /\ transfer' = [transfer EXCEPT ![s][n] = t]
    BY DEF QuidaxTransfers
<1>2. \A m \in Refs : transfer'[u][m] = transfer[u][m]
                        \/ transfer[u][m] \in {"sent", "processing"}
    BY <1>1 DEF IInv, TypeOK
<1>3. RowClaims(u)'
    BY <1>1 DEF RowClaims, WorksOn, IsAt
<1>4. RowSells(u) => RowSells(u)'
    BY <1>1 DEF RowSells, LiveSells, WorksOn, IsAt
<1>5. ASSUME RowSweeps(u) PROVE RowSweeps(u)'
    <2>1. /\ LiveSweeps(u)' \in SUBSET Refs /\ LiveSweeps(u) \in SUBSET Refs
          /\ LiveSweeps(u)' \subseteq LiveSweeps(u)
        BY <1>2 DEF LiveSweeps
    <2>2. /\ Cardinality(LiveSweeps(u)') <= Cardinality(LiveSweeps(u))
          /\ Cardinality(LiveSweeps(u)' \ {row[u].sweep_attempt})
                <= Cardinality(LiveSweeps(u) \ {row[u].sweep_attempt})
          /\ Cardinality(LiveSweeps(u)') \in Nat /\ Cardinality(LiveSweeps(u)) \in Nat
          /\ Cardinality(LiveSweeps(u)' \ {row[u].sweep_attempt}) \in Nat
          /\ Cardinality(LiveSweeps(u) \ {row[u].sweep_attempt}) \in Nat
        <3>1. /\ LiveSweeps(u)' \ {row[u].sweep_attempt} \in SUBSET Refs
              /\ LiveSweeps(u) \ {row[u].sweep_attempt} \in SUBSET Refs
              /\ LiveSweeps(u)' \ {row[u].sweep_attempt} \subseteq LiveSweeps(u) \ {row[u].sweep_attempt}
            BY <2>1
        <3>2. QED
            BY <2>1, <3>1, RefSets
    <2>3. /\ Cardinality(LiveSweeps(u)' \ {row'[u].sweep_attempt}) <= retries'[u]
          /\ row'[u].status \in {"none", "PENDING"} => Cardinality(LiveSweeps(u)') <= retries'[u]
        <3>1. retries[u] \in Nat
            BY SettlementAssumption DEF IInv, TypeOK
        <3>2. QED
            BY <1>1, <1>5, <2>2, <3>1 DEF RowSweeps
    <2>4. \A m \in Refs : m > row[u].sweep_attempt => transfer'[u][m] = "unsent"
        BY <1>2, <1>5 DEF RowSweeps
    <2>5. \A m \in Refs : transfer[u][m] \in {"rejected", "refused"} =>
                transfer'[u][m] \in {"rejected", "refused"}
        BY <1>2
    <2>6. QED
        BY <1>1, <1>5, <2>3, <2>4, <2>5 DEF RowSweeps, WorksOn, IsAt
<1>6. QED
    BY <1>3, <1>4, <1>5 DEF Keeps

(* A sell that Quidax carries out keeps what any row may claim.            *)
LEMMA MarketKeeps ==
    ASSUME IInv, NEW s \in Settlements, NEW k \in Refs,
           NEW t \in {"executed", "refused", "lost"}, QuidaxSells(s, k, t),
           NEW u \in Settlements, RowClaims(u)
    PROVE  Keeps(u)
<1>1. UNCHANGED <<row, transfer, retries, job, crashes>> /\ market[s][k] = "sent"
      /\ market' = [market EXCEPT ![s][k] = t]
    BY DEF QuidaxSells
<1>2. \A m \in Refs : market'[u][m] = market[u][m] \/ market[u][m] = "sent"
    BY <1>1 DEF IInv, TypeOK
<1>3. RowClaims(u)'
    BY <1>1 DEF RowClaims, WorksOn, IsAt
<1>4. RowSweeps(u) => RowSweeps(u)'
    BY <1>1 DEF RowSweeps, LiveSweeps, WorksOn, IsAt
<1>5. ASSUME RowSells(u) PROVE RowSells(u)'
    <2>1. /\ LiveSells(u)' \in SUBSET Refs /\ LiveSells(u) \in SUBSET Refs
          /\ LiveSells(u)' \subseteq LiveSells(u)
        BY <1>2 DEF LiveSells
    <2>2. /\ Cardinality(LiveSells(u)') <= Cardinality(LiveSells(u))
          /\ Cardinality(LiveSells(u)' \ {row[u].sells}) <= Cardinality(LiveSells(u) \ {row[u].sells})
          /\ Cardinality(LiveSells(u)') \in Nat /\ Cardinality(LiveSells(u)) \in Nat
          /\ Cardinality(LiveSells(u)' \ {row[u].sells}) \in Nat
          /\ Cardinality(LiveSells(u) \ {row[u].sells}) \in Nat
        <3>1. /\ LiveSells(u)' \ {row[u].sells} \in SUBSET Refs
              /\ LiveSells(u) \ {row[u].sells} \in SUBSET Refs
              /\ LiveSells(u)' \ {row[u].sells} \subseteq LiveSells(u) \ {row[u].sells}
            BY <2>1
        <3>2. QED
            BY <2>1, <3>1, RefSets
    <2>3. /\ Cardinality(LiveSells(u)' \ {row'[u].sells}) <= retries'[u]
          /\ row'[u].status \in {"none", "PENDING", "SWEEPING", "SWEPT"} =>
                 Cardinality(LiveSells(u)') <= retries'[u]
        <3>1. retries[u] \in Nat
            BY SettlementAssumption DEF IInv, TypeOK
        <3>2. QED
            BY <1>1, <1>5, <2>2, <3>1 DEF RowSells
    <2>4. \A m \in Refs : m > row[u].sells => market'[u][m] = "unsent"
        BY <1>2, <1>5 DEF RowSells
    <2>5. \A m \in Refs : market[u][m] = "refused" => market'[u][m] = "refused"
        BY <1>2
    <2>6. \A q \in Procs : IsAt(q, "resell") /\ WorksOn(q, u) => job[q].n \in Refs
        BY <1>5 DEF RowSells, IsAt, SellSteps
    <2>7. QED
        BY <1>1, <1>5, <2>3, <2>4, <2>5, <2>6 DEF RowSells, WorksOn, IsAt
<1>6. QED
    BY <1>3, <1>4, <1>5 DEF Keeps
(* Every step keeps what is said of every row. *)
LEMMA NextKeeps ==
    ASSUME IInv, [Next]_vars, \A t \in Settlements : RowClaims(t), NEW u \in Settlements
    PROVE  Keeps(u)
<1>1. ASSUME NEW s \in Settlements, NEW auto \in BOOLEAN,
             create_for_deposit(s, auto) \/ create_backfill_sweep(s) \/ admin_retry(s)
      PROVE  Keeps(u)
    BY <1>1, NewRowKeeps, SparedKeeps DEF Keeps
<1>2. ASSUME NEW s \in Settlements, create_backfill_sweep(s) \/ admin_retry(s)
      PROVE  Keeps(u)
    <2>1. TRUE \in BOOLEAN
        OBVIOUS
    <2>2. QED
        BY <1>1, <1>2, <2>1
<1>3. ASSUME NEW p \in Procs, NEW s \in Settlements,
             (p \in Workers /\ TakeUp(p, s)) \/ handle_sweep_webhook(p, s)
      PROVE  Keeps(u)
    BY <1>3, TakeUpSingle, SingleKeeps
<1>4. ASSUME NEW p \in Procs, GoOn(p)
      PROVE  Keeps(u)
    BY <1>4, GoOnSingle, SingleKeeps
<1>5. ASSUME NEW p \in Procs, Crash(p)
      PROVE  Keeps(u)
    <2>1. CASE job[p].s \in Settlements
        BY <1>5, <2>1, CrashSingle, SingleKeeps
    <2>2. CASE job[p].s \notin Settlements
        <3>1. job'[p] = Idle /\ Idle.s = NoRow /\ \A q \in Procs \ {p} : job'[q] = job[q]
            BY <1>5, SetJobIs DEF Crash, Idle
        <3>2. \A q \in Procs : job'[q] = job[q] \/ (~WorksOn(q, u) /\ ~WorksOn(q, u)')
            BY <2>2, <3>1, SettlementAssumption DEF WorksOn
        <3>3. Spared(u)
            BY <1>5, <3>2, SettlementAssumption DEF Crash, Spared, IInv, TypeOK
        <3>4. QED
            BY <3>3, SparedKeeps
    <2>3. QED
        BY <2>1, <2>2
<1>6. ASSUME UNCHANGED <<row, transfer, market, retries, job, crashes>>
      PROVE  Keeps(u)
    <2>1. Spared(u)
        BY <1>6, SettlementAssumption DEF Spared, IInv, TypeOK
    <2>2. QED
        BY <2>1, SparedKeeps
<1>7. CASE (ElsewhereStep /\ UNCHANGED settlementVars) \/ UNCHANGED vars
    BY <1>6, <1>7 DEF settlementVars, vars
<1>8. ASSUME NEW s \in Settlements, NEW n \in Refs,
             NEW t \in {"processing", "refused", "lost"} \cup Ended, QuidaxTransfers(s, n, t)
      PROVE  Keeps(u)
    BY <1>8, TransferKeeps
<1>9. ASSUME NEW s \in Settlements, NEW k \in Refs,
             NEW t \in {"executed", "refused", "lost"}, QuidaxSells(s, k, t)
      PROVE  Keeps(u)
    BY <1>9, MarketKeeps
<1>10. Workers \subseteq Procs /\ WebWorkers \subseteq Procs
    BY DEF Procs
<1>11. QED
    BY <1>1, <1>2, <1>3, <1>4, <1>5, <1>7, <1>8, <1>9, <1>10 DEF Next

(* What is said of the rows in hand holds at the start.                    *)
LEMMA InHandInit == Init => RowsInHand /\ SweepsInHand
<1> SUFFICES ASSUME Init PROVE RowsInHand /\ SweepsInHand
    OBVIOUS
<1>1. ASSUME NEW s \in Settlements
      PROVE  /\ row[s].status = "none" /\ ~row[s].reserved /\ ~row[s].auto_convert
             /\ \A p \in Procs : ~WorksOn(p, s)
             /\ \A n \in Refs : market[s][n] = "unsent" /\ transfer[s][n] = "unsent"
             /\ retries[s] = 0
    BY SettlementAssumption DEF Init, WorksOn, Idle
<1>2. ASSUME NEW s \in Settlements PROVE LiveSells(s) = {} /\ LiveSweeps(s) = {}
    BY <1>1 DEF LiveSells, LiveSweeps
<1>3. Cardinality({}) = 0 /\ \A x : {} \ {x} = {}
    BY FS_EmptySet
<1>4. ASSUME NEW s \in Settlements PROVE RowClaims(s) /\ RowSells(s) /\ RowSweeps(s)
    <2>1. /\ Cardinality(LiveSells(s)) <= retries[s]
          /\ Cardinality(LiveSells(s) \ {row[s].sells}) <= retries[s]
          /\ Cardinality(LiveSweeps(s)) <= retries[s]
          /\ Cardinality(LiveSweeps(s) \ {row[s].sweep_attempt}) <= retries[s]
        BY <1>1, <1>2, <1>3
    <2>2. RowClaims(s)
        BY <1>1 DEF RowClaims, ACTIVE_STATUSES
    <2>3. RowSells(s)
        BY <1>1, <2>1 DEF RowSells
    <2>4. RowSweeps(s)
        BY <1>1, <2>1 DEF RowSweeps
    <2>5. QED
        BY <2>2, <2>3, <2>4
<1>5. QED
    BY <1>4 DEF RowsInHand, SweepsInHand

(* What is said of the rows in hand always holds.                          *)
LEMMA RowsInvariant == Spec => []RowsInHand
<1>1. IInv /\ RowsInHand /\ [Next]_vars => RowsInHand'
    BY NextKeeps DEF Keeps, RowsInHand
<1>2. QED
    BY <1>1, InHandInit, InductiveInvariant, PTL DEF Spec

(* Every row that is on its way to a sale has its coins reserved: nobody   *)
(* spends them meanwhile, and no late answer, retry or restart of the      *)
(* worker loses the reservation.                                           *)
THEOREM ConvertingHasCoins == Spec => []ConvertingIsReserved
<1>1. RowsInHand => ConvertingIsReserved
    BY DEF RowsInHand, RowClaims, ConvertingIsReserved
<1>2. QED
    BY <1>1, RowsInvariant, PTL

(* A skipped settlement whose coins are still reserved has a process that  *)
(* is about to give them back, unless one was killed.                      *)
THEOREM SkippedGivesBack == Spec => []SkippedIsGivenBack
<1>1. RowsInHand => SkippedIsGivenBack
    BY DEF RowsInHand, RowClaims, WorksOn, SkippedIsGivenBack
<1>2. QED
    BY <1>1, RowsInvariant, PTL

(* However many processes work on a settlement, at most one sell of it     *)
(* that may have been executed is out, and one more for each admin retry.  *)
THEOREM OneSellAtATime == Spec => []SellsDoNotOverlap
<1>1. ASSUME IInv, RowsInHand PROVE SellsDoNotOverlap
    <2>1. SUFFICES ASSUME NEW s \in Settlements PROVE Cardinality(LiveSells(s)) <= 1 + retries[s]
        BY DEF SellsDoNotOverlap, LiveSells
    <2>2. /\ LiveSells(s) \in SUBSET Refs /\ LiveSells(s) \ {row[s].sells} \in SUBSET Refs
          /\ retries[s] \in Nat
        BY <1>1, SettlementAssumption DEF LiveSells, IInv, TypeOK
    <2>3. Cardinality(LiveSells(s) \ {row[s].sells}) <= retries[s]
        BY <1>1 DEF RowsInHand, RowSells
    <2>4. Cardinality(LiveSells(s)) <= Cardinality(LiveSells(s) \ {row[s].sells}) + 1
        <3>1. CASE row[s].sells \in Refs
            BY <2>2, <3>1, RefSets
        <3>2. CASE row[s].sells \notin Refs
            <4>1. LiveSells(s) \ {row[s].sells} = LiveSells(s)
                BY <2>2, <3>2
            <4>2. QED
                BY <2>2, <4>1, RefSets
        <3>3. QED
            BY <3>1, <3>2
    <2>5. QED
        BY <2>2, <2>3, <2>4, RefSets
<1>2. QED
    BY <1>1, InductiveInvariant, RowsInvariant, PTL

(* With one worker process, as the Procfile has it, at most one sweep that *)
(* may have moved the coins is out, and one more for each admin retry.     *)
THEOREM OneSweepAtATime == ASSUME OneWorker PROVE Spec => []SweepsDoNotOverlap
<1>1. IInv /\ RowsInHand /\ SweepsInHand /\ [Next]_vars => SweepsInHand'
    BY NextKeeps DEF Keeps, RowsInHand, SweepsInHand
<1>2. Spec => []SweepsInHand
    BY <1>1, InHandInit, InductiveInvariant, RowsInvariant, PTL DEF Spec
<1>3. ASSUME IInv, SweepsInHand PROVE SweepsDoNotOverlap
    <2>1. SUFFICES ASSUME NEW s \in Settlements PROVE Cardinality(LiveSweeps(s)) <= 1 + retries[s]
        BY DEF SweepsDoNotOverlap, LiveSweeps
    <2>2. /\ LiveSweeps(s) \in SUBSET Refs /\ LiveSweeps(s) \ {row[s].sweep_attempt} \in SUBSET Refs
          /\ retries[s] \in Nat
        BY <1>3, SettlementAssumption DEF LiveSweeps, IInv, TypeOK
    <2>3. Cardinality(LiveSweeps(s) \ {row[s].sweep_attempt}) <= retries[s]
        BY <1>3 DEF SweepsInHand, RowSweeps
    <2>4. Cardinality(LiveSweeps(s)) <= Cardinality(LiveSweeps(s) \ {row[s].sweep_attempt}) + 1
        <3>1. CASE row[s].sweep_attempt \in Refs
            BY <2>2, <3>1, RefSets
        <3>2. CASE row[s].sweep_attempt \notin Refs
            <4>1. LiveSweeps(s) \ {row[s].sweep_attempt} = LiveSweeps(s)
                BY <2>2, <3>2
            <4>2. QED
                BY <2>2, <4>1, RefSets
        <3>3. QED
            BY <3>1, <3>2
    <2>5. QED
        BY <2>2, <2>3, <2>4, RefSets
<1>4. QED
    BY <1>2, <1>3, InductiveInvariant, PTL
-----------------------------------------------------------------------------
(* The settlements implement Reservations.  First, every step by what it   *)
(* does to the claims and the wallets.                                     *)
MovesClaim(s, from, to) ==
    /\ ClaimOf(s) = from /\ ClaimOf(s)' = to
    /\ row[s].reserved <=> from = "held"
    /\ row'[s].reserved <=> to = "held"
    /\ \A t \in Settlements \ {s} :
         ClaimOf(t)' = ClaimOf(t) /\ row'[t].reserved = row[t].reserved

MovesCoins(s) ==
    \/ /\ MovesClaim(s, "none", "held")
       /\ reserved' = [reserved EXCEPT ![WalletOf[s]] = @ + Amount[s]]
       /\ UNCHANGED <<available, elsewhere>>
    \/ /\ MovesClaim(s, "none", "free")
       /\ available' = [available EXCEPT ![WalletOf[s]] = @ + Amount[s]] \/ UNCHANGED available
       /\ UNCHANGED <<reserved, elsewhere>>
    \/ MovesClaim(s, "free", "held") /\ reserve_crypto(WalletOf[s], Amount[s]) /\ UNCHANGED elsewhere
    \/ /\ MovesClaim(s, "held", "free")
       /\ release_reserved_crypto(WalletOf[s], Amount[s]) /\ UNCHANGED elsewhere
    \/ /\ MovesClaim(s, "held", "spent")
       /\ debit_reserved_crypto(WalletOf[s], Amount[s]) /\ UNCHANGED elsewhere

ClaimsStay ==
    \A t \in Settlements : ClaimOf(t)' = ClaimOf(t) /\ row'[t].reserved = row[t].reserved

(* Only a row that is completed was ever paid. *)
LEMMA UnpaidUnlessCompleted ==
    ASSUME IInv, NEW s \in Settlements, row[s].status # "COMPLETED"
    PROVE  credited[s] = 0
BY DEF IInv, PaidOnceIffSold

(* Rows that keep their flag, and are not new, keep their claim. *)
LEMMA RowsKeepClaims ==
    ASSUME UNCHANGED credited,
           \A t \in Settlements : /\ row'[t].reserved = row[t].reserved
                                  /\ row'[t].status = "none" <=> row[t].status = "none"
    PROVE  ClaimsStay
BY DEF ClaimsStay, ClaimOf

(* A step that neither sells nor releases leaves the claims alone.         *)
LEMMA SingleKeepsClaims ==
    ASSUME IInv, NEW p \in Procs, NEW s \in Settlements, Single(p, s), RowClaims(s),
           job[p].at \notin {"sell", "release"}, UNCHANGED credited
    PROVE  ClaimsStay
<1>1. ~LetsGo(p, s)
    BY DEF LetsGo
<1>2. \A q \in Procs : row[s].status = "none" => job[q].s # s
    BY DEF RowClaims, WorksOn
<1>3. row'[s].reserved = row[s].reserved /\ (row'[s].status = "none" <=> row[s].status = "none")
    BY <1>1 DEF Single, Does, Quits, Reads, Hears, Shifts, Sweeps, Sells, Alone, Arrows
<1>4. \A t \in Settlements \ {s} : row'[t] = row[t]
    BY DEF Single, About
<1>5. QED
    BY <1>3, <1>4, RowsKeepClaims

(* A process's steps. *)
LEMMA GoOnCoins ==
    ASSUME IInv, RowsInHand, NEW p \in Procs, GoOn(p)
    PROVE  (ClaimsStay /\ UNCHANGED cryptoVars) \/ \E s \in Settlements : MovesCoins(s)
<1>1. PICK s \in Settlements : s = job[p].s /\ Single(p, s) /\ RowClaims(s) /\ row[s] \in Rows
    <2>1. job[p].s \in Settlements /\ Single(p, job[p].s)
        BY GoOnSingle
    <2>2. QED
        BY <2>1 DEF RowsInHand, IInv, TypeOK
<1>2. CASE SweepNotStarted(p) \/ _start_sweep(p) \/ SweepAnswered(p) \/ _apply_sweep_result(p)
             \/ CompleteHold(p) \/ _skip_conversion(p) \/ QuoteFailed(p) \/ StartSell(p)
             \/ AfterFailedSell(p)
    <2>1. job[p].at \notin {"sell", "release"}
        BY <1>2 DEF SweepNotStarted, _start_sweep, SweepAnswered, _apply_sweep_result, CompleteHold,
                    _skip_conversion, QuoteFailed, StartSell, AfterFailedSell, IsAt
    <2>2. UNCHANGED <<credited, cryptoVars>>
        BY <1>2 DEF SweepNotStarted, _start_sweep, SweepAnswered, _apply_sweep_result, CompleteHold,
                    _skip_conversion, QuoteFailed, StartSell, AfterFailedSell
    <2>3. QED
        BY <1>1, <2>1, <2>2, SingleKeepsClaims
<1>3. CASE SellFailed(p)
    BY <1>3, RowsKeepClaims DEF SellFailed
<1>4. CASE SellDone(p)
    <2>1. CASE Wins(s, "SELLING")
        <3>1. /\ row' = [row EXCEPT ![s].status = "COMPLETED", ![s].reserved = FALSE]
              /\ credited' = [credited EXCEPT ![s] = @ + 1]
              /\ debit_reserved_crypto(WalletOf[s], Amount[s]) /\ UNCHANGED elsewhere
            BY <1>1, <1>4, <2>1 DEF SellDone
        <3>2. row[s].status = "SELLING" /\ row[s].reserved /\ credited[s] = 0
            BY <1>1, <2>1, UnpaidUnlessCompleted DEF RowClaims, ACTIVE_STATUSES, Wins
        <3>3. /\ row'[s].status = "COMPLETED" /\ ~row'[s].reserved /\ credited'[s] = 1
              /\ \A t \in Settlements \ {s} : row'[t] = row[t] /\ credited'[t] = credited[t]
            BY <1>1, <3>1, <3>2 DEF IInv, TypeOK, Rows
        <3>4. MovesClaim(s, "held", "spent")
            <4>1. ClaimOf(s) = "held" /\ ClaimOf(s)' = "spent"
                BY <3>2, <3>3 DEF ClaimOf
            <4>2. \A t \in Settlements \ {s} : ClaimOf(t)' = ClaimOf(t)
                BY <3>3 DEF ClaimOf
            <4>3. QED
                BY <3>2, <3>3, <4>1, <4>2 DEF MovesClaim
        <3>5. QED
            BY <1>1, <3>1, <3>4 DEF MovesCoins
    <2>2. CASE ~Wins(s, "SELLING")
        BY <1>1, <1>4, <2>2, RowsKeepClaims DEF SellDone, cryptoVars
    <2>3. QED
        BY <2>1, <2>2
<1>5. CASE _release_reservation(p)
    <2>1. CASE row[s].reserved
        <3>1. /\ row' = [row EXCEPT ![s].reserved = FALSE] /\ UNCHANGED <<credited, elsewhere>>
              /\ release_reserved_crypto(WalletOf[s], Amount[s])
            BY <1>1, <1>5, <2>1 DEF _release_reservation
        <3>2. row[s].status \in {"FAILED", "SKIPPED"} /\ credited[s] = 0
            BY <1>1, <1>5, UnpaidUnlessCompleted DEF RowClaims, WorksOn, _release_reservation
        <3>3. /\ row'[s].status = row[s].status /\ ~row'[s].reserved
              /\ \A t \in Settlements \ {s} : row'[t] = row[t]
            BY <1>1, <3>1 DEF IInv, TypeOK, Rows
        <3>4. MovesClaim(s, "held", "free")
            <4>1. ClaimOf(s) = "held" /\ ClaimOf(s)' = "free"
                BY <2>1, <3>1, <3>2, <3>3 DEF ClaimOf
            <4>2. \A t \in Settlements \ {s} : ClaimOf(t)' = ClaimOf(t)
                BY <3>1, <3>3 DEF ClaimOf
            <4>3. QED
                BY <2>1, <3>3, <4>1, <4>2 DEF MovesClaim
        <3>5. QED
            BY <1>1, <3>1, <3>4 DEF MovesCoins
    <2>2. CASE ~row[s].reserved
        BY <1>1, <1>5, <2>2, RowsKeepClaims DEF _release_reservation, cryptoVars
    <2>3. QED
        BY <2>1, <2>2
<1>6. QED
    BY <1>2, <1>3, <1>4, <1>5 DEF GoOn

(* New rows, and those an admin takes up again. *)
LEMMA NewRowCoins ==
    ASSUME IInv, RowsInHand, NEW s \in Settlements, NEW auto \in BOOLEAN,
           create_for_deposit(s, auto) \/ create_backfill_sweep(s) \/ admin_retry(s)
    PROVE  (ClaimsStay /\ UNCHANGED cryptoVars) \/ MovesCoins(s)
<1>1. row[s] \in Rows /\ RowClaims(s) /\ UNCHANGED <<credited, elsewhere>>
    BY DEF RowsInHand, create_for_deposit, create_backfill_sweep, admin_retry, cryptoVars, IInv, TypeOK
<1>2. row[s].status \in {"none", "FAILED"} /\ credited[s] = 0
    BY UnpaidUnlessCompleted DEF create_for_deposit, create_backfill_sweep, admin_retry
<1>3. CASE create_for_deposit(s, auto)
    <2>1. /\ row[s].status = "none" /\ ~row[s].reserved
          /\ row'[s].status = "PENDING" /\ row'[s].reserved \in BOOLEAN
          /\ row'[s].reserved <=> auto
          /\ \A t \in Settlements \ {s} : row'[t] = row[t]
        BY <1>1, <1>3 DEF create_for_deposit, RowClaims, IInv, TypeOK, Rows
    <2>2. CASE auto
        <3>1. MovesClaim(s, "none", "held")
            <4>1. ClaimOf(s) = "none" /\ ClaimOf(s)' = "held"
                BY <2>1, <2>2 DEF ClaimOf
            <4>2. \A t \in Settlements \ {s} : ClaimOf(t)' = ClaimOf(t)
                BY <1>1, <2>1 DEF ClaimOf
            <4>3. QED
                BY <2>1, <2>2, <4>1, <4>2 DEF MovesClaim
        <3>2. QED
            BY <1>1, <1>3, <2>2, <3>1 DEF create_for_deposit, MovesCoins
    <2>3. CASE ~auto
        <3>1. MovesClaim(s, "none", "free")
            BY <1>1, <1>2, <2>1, <2>3 DEF MovesClaim, ClaimOf
        <3>2. QED
            BY <1>1, <1>3, <2>3, <3>1 DEF create_for_deposit, credit_crypto_available, MovesCoins
    <2>4. QED
        BY <2>2, <2>3
<1>4. CASE create_backfill_sweep(s)
    <2>1. /\ row[s].status = "none" /\ ~row[s].reserved
          /\ row'[s].status = "PENDING" /\ ~row'[s].reserved
          /\ \A t \in Settlements \ {s} : row'[t] = row[t]
        BY <1>1, <1>4 DEF create_backfill_sweep, RowClaims, IInv, TypeOK, Rows
    <2>2. MovesClaim(s, "none", "free")
        BY <1>1, <1>2, <2>1 DEF MovesClaim, ClaimOf
    <2>3. QED
        BY <1>4, <2>2 DEF create_backfill_sweep, cryptoVars, MovesCoins
<1>5. CASE admin_retry(s)
    <2> DEFINE r == [row[s] EXCEPT !.status = IF row[s].swept THEN "SWEPT" ELSE "PENDING", !.attempts = 0]
    <2>1. r \in Rows /\ r.status \in {"PENDING", "SWEPT"} /\ r.reserved = row[s].reserved
        <3>1. 0 \in 0..MaxAttempts
            BY SettlementAssumption
        <3>2. QED
            BY <1>1, <3>1 DEF Rows, Statuses
    <2>2. \/ /\ ~row[s].reserved /\ reserve_crypto(WalletOf[s], Amount[s])
             /\ row' = [row EXCEPT ![s] = [r EXCEPT !.reserved = TRUE]]
          \/ /\ UNCHANGED <<available, reserved>>
             /\ \/ row' = [row EXCEPT ![s] = [r EXCEPT !.auto_convert = FALSE]]
                \/ row' = [row EXCEPT ![s] = r]
        BY <1>5 DEF admin_retry
    <2>3. row[s].status = "FAILED" /\ \A t \in Settlements \ {s} : row'[t] = row[t]
        BY <1>5, <2>2 DEF admin_retry, IInv, TypeOK
    <2> HIDE DEF r
    <2>4. CASE /\ ~row[s].reserved /\ reserve_crypto(WalletOf[s], Amount[s])
               /\ row' = [row EXCEPT ![s] = [r EXCEPT !.reserved = TRUE]]
        <3>1. row'[s].status # "none" /\ row'[s].reserved
            BY <2>1, <2>4 DEF IInv, TypeOK, Rows
        <3>2. MovesClaim(s, "free", "held")
            BY <1>1, <1>2, <2>3, <2>4, <3>1 DEF MovesClaim, ClaimOf
        <3>3. QED
            BY <1>1, <2>4, <3>2 DEF MovesCoins
    <2>5. CASE /\ UNCHANGED <<available, reserved>>
               /\ \/ row' = [row EXCEPT ![s] = [r EXCEPT !.auto_convert = FALSE]]
                  \/ row' = [row EXCEPT ![s] = r]
        <3>1. row'[s].status # "none" /\ row'[s].reserved = row[s].reserved
            BY <2>1, <2>5 DEF IInv, TypeOK, Rows
        <3>2. ClaimsStay
            BY <1>1, <2>3, <3>1, RowsKeepClaims
        <3>3. QED
            BY <1>1, <2>5, <3>2 DEF cryptoVars
    <2>6. QED
        BY <2>2, <2>4, <2>5
<1>6. QED
    BY <1>3, <1>4, <1>5

(* A step moves coins of one row, or no coins of the settlements.          *)
LEMMA NextCoins ==
    ASSUME IInv, RowsInHand, [Next]_vars
    PROVE  \/ ClaimsStay /\ (UNCHANGED cryptoVars \/ ElsewhereStep)
           \/ \E s \in Settlements : MovesCoins(s)
<1>1. ASSUME NEW s \in Settlements, NEW auto \in BOOLEAN, create_for_deposit(s, auto)
      PROVE  (ClaimsStay /\ UNCHANGED cryptoVars) \/ MovesCoins(s)
    BY <1>1, NewRowCoins
<1>2. ASSUME NEW s \in Settlements, create_backfill_sweep(s) \/ admin_retry(s)
      PROVE  (ClaimsStay /\ UNCHANGED cryptoVars) \/ MovesCoins(s)
    <2>1. TRUE \in BOOLEAN
        OBVIOUS
    <2>2. QED
        BY <1>2, <2>1, NewRowCoins
<1>3. ASSUME NEW p \in Procs, NEW s \in Settlements,
             (p \in Workers /\ TakeUp(p, s)) \/ handle_sweep_webhook(p, s)
      PROVE  ClaimsStay /\ UNCHANGED cryptoVars
    <2>1. Single(p, s) /\ RowClaims(s)
        BY <1>3, TakeUpSingle DEF RowsInHand
    <2>2. job[p] = Idle /\ Idle.at = "idle" /\ UNCHANGED <<credited, cryptoVars>>
        <3>1. job[p] = Idle /\ UNCHANGED <<credited, cryptoVars>>
            BY <1>3 DEF TakeUp, LoadPending, _poll_sweep, LoadSwept, _check_stale_sell, handle_sweep_webhook
        <3>2. QED
            BY <3>1 DEF Idle
    <2>3. QED
        BY <2>1, <2>2, SingleKeepsClaims
<1>4. ASSUME UNCHANGED <<row, credited>>
      PROVE  ClaimsStay
    BY <1>4, RowsKeepClaims
<1>5. ASSUME NEW p \in Procs, Crash(p) PROVE ClaimsStay /\ UNCHANGED cryptoVars
    BY <1>4, <1>5 DEF Crash
<1>6. ASSUME NEW s \in Settlements, NEW n \in Refs, NEW t, QuidaxTransfers(s, n, t) \/ QuidaxSells(s, n, t)
      PROVE  ClaimsStay /\ UNCHANGED cryptoVars
    BY <1>4, <1>6 DEF QuidaxTransfers, QuidaxSells
<1>7. CASE ElsewhereStep /\ UNCHANGED settlementVars
    BY <1>4, <1>7 DEF settlementVars
<1>8. CASE UNCHANGED vars
    BY <1>4, <1>8 DEF vars, settlementVars
<1>9. Workers \subseteq Procs /\ WebWorkers \subseteq Procs
    BY DEF Procs
<1>10. QED
    BY <1>1, <1>2, <1>3, <1>5, <1>6, <1>7, <1>8, <1>9, GoOnCoins DEF Next
-----------------------------------------------------------------------------
(* What is reserved of a wallet is what others and its settlements hold.   *)
(* The rows that hold are finitely many; nothing bounds Settlements.       *)
Held(c) == {s \in Settlements : WalletOf[s] = c /\ row[s].reserved}

HeldTogether ==
    /\ IsFiniteSet({s \in Settlements : row[s].reserved})
    /\ \A c \in Wallets : reserved[c] = elsewhere[c] + Total(Amount, Held(c))

(* What is reserved, as the sum of what the settlements hold.              *)
LEMMA HeldFacts ==
    ASSUME IInv, HeldTogether, NEW c \in Wallets
    PROVE  /\ IsFiniteSet(Held(c)) /\ \A s \in Held(c) : Amount[s] \in Int
           /\ Total(Amount, Held(c)) \in Nat
           /\ reserved[c] \in Nat /\ elsewhere[c] \in Nat
           /\ reserved[c] = elsewhere[c] + Total(Amount, Held(c))
           /\ \A s \in Held(c) : Amount[s] \in Nat /\ Amount[s] <= Total(Amount, Held(c))
<1>1. Held(c) \subseteq {s \in Settlements : row[s].reserved}
    BY DEF Held
<1>2. IsFiniteSet(Held(c))
    BY <1>1, FS_Subset DEF HeldTogether
<1>3. \A s \in Held(c) : Amount[s] \in Nat /\ Amount[s] \in Int
    BY SettlementAssumption DEF Held
<1>4. Total(Amount, Held(c)) \in Nat
    BY <1>2, <1>3, TotalNat
<1>5. ASSUME NEW s \in Held(c) PROVE Amount[s] <= Total(Amount, Held(c))
    <2>1. Total(Amount, Held(c)) = Amount[s] + Total(Amount, Held(c) \ {s})
        BY <1>2, <1>3, TotalTake
    <2>2. Total(Amount, Held(c) \ {s}) \in Nat
        <3>1. IsFiniteSet(Held(c) \ {s}) /\ \A x \in Held(c) \ {s} : Amount[x] \in Nat
            BY <1>2, <1>3, FS_Subset
        <3>2. QED
            BY <3>1, TotalNat
    <2>3. QED
        BY <1>3, <2>1, <2>2
<1>6. reserved[c] \in Nat /\ elsewhere[c] \in Nat
    BY CryptoLedgerAssumption DEF IInv, TypeOK, CryptoLedgerTypeOK
<1>7. QED
    BY <1>2, <1>3, <1>4, <1>5, <1>6 DEF HeldTogether

(* So nobody is ever given back or spends more than is reserved. *)
LEMMA EnoughReserved ==
    ASSUME IInv, HeldTogether
    PROVE  /\ \A s \in Settlements : row[s].reserved => reserved[WalletOf[s]] >= Amount[s]
           /\ \A c \in Wallets : elsewhere[c] > 0 => reserved[c] >= 1
<1>1. ASSUME NEW s \in Settlements, row[s].reserved PROVE reserved[WalletOf[s]] >= Amount[s]
    <2>1. WalletOf[s] \in Wallets /\ s \in Held(WalletOf[s])
        BY <1>1, SettlementAssumption DEF Held
    <2>2. QED
        BY <2>1, HeldFacts
<1>2. QED
    BY <1>1, HeldFacts

(* The coins of s join what is held, or leave it. *)
LEMMA HeldMoves ==
    ASSUME IInv, HeldTogether, NEW s \in Settlements,
           \A t \in Settlements \ {s} : row'[t].reserved = row[t].reserved,
           UNCHANGED elsewhere,
           \/ /\ ~row[s].reserved /\ row'[s].reserved
              /\ reserved' = [reserved EXCEPT ![WalletOf[s]] = @ + Amount[s]]
           \/ /\ row[s].reserved /\ ~row'[s].reserved
              /\ reserved' = [reserved EXCEPT ![WalletOf[s]] = @ - Amount[s]]
           \/ (row'[s].reserved <=> row[s].reserved) /\ UNCHANGED reserved
    PROVE  HeldTogether'
<1> DEFINE all == {t \in Settlements : row[t].reserved}
<1>1. all' = all \/ all' = all \cup {s} \/ all' = all \ {s}
    OBVIOUS
<1>2. IsFiniteSet(all')
    <2>1. IsFiniteSet(all)
        BY DEF HeldTogether
    <2>2. QED
        BY <1>1, <2>1, FS_AddElement, FS_RemoveElement, FS_Subset
<1>3. ASSUME NEW c \in Wallets
      PROVE  reserved'[c] = elsewhere'[c] + Total(Amount, Held(c)')
    <2>1. Amount[s] \in Nat /\ Amount[s] \in Int /\ reserved \in [Wallets -> Nat]
        BY SettlementAssumption DEF IInv, TypeOK, CryptoLedgerTypeOK
    <2>2. IsFiniteSet(Held(c)) /\ \A t \in Held(c) : Amount[t] \in Int
        BY HeldFacts
    <2>3. CASE WalletOf[s] = c /\ ~row[s].reserved /\ row'[s].reserved
               /\ reserved' = [reserved EXCEPT ![WalletOf[s]] = @ + Amount[s]]
        <3>1. s \notin Held(c) /\ Held(c)' = Held(c) \cup {s}
            BY <2>3 DEF Held
        <3>2. Total(Amount, Held(c)') = Total(Amount, Held(c)) + Amount[s]
            BY <2>1, <2>2, <3>1, TotalAdd
        <3>3. reserved'[c] = reserved[c] + Amount[s]
            BY <2>1, <2>3
        <3>4. QED
            BY <2>1, <3>2, <3>3, HeldFacts
    <2>4. CASE WalletOf[s] = c /\ row[s].reserved /\ ~row'[s].reserved
               /\ reserved' = [reserved EXCEPT ![WalletOf[s]] = @ - Amount[s]]
        <3>1. s \in Held(c) /\ Held(c)' = Held(c) \ {s}
            BY <2>4 DEF Held
        <3>2. Total(Amount, Held(c)') = Total(Amount, Held(c)) - Amount[s]
            BY <2>1, <2>2, <3>1, TotalDrop
        <3>3. reserved'[c] = reserved[c] - Amount[s]
            BY <2>1, <2>4
        <3>4. QED
            BY <2>1, <3>2, <3>3, HeldFacts
    <2>5. CASE WalletOf[s] # c
        <3>1. Held(c)' = Held(c) /\ reserved'[c] = reserved[c]
            BY <2>1, <2>5 DEF Held
        <3>2. QED
            BY <3>1, HeldFacts
    <2>6. CASE (row'[s].reserved <=> row[s].reserved) /\ UNCHANGED reserved
        <3>1. Held(c)' = Held(c) /\ reserved'[c] = reserved[c]
            BY <2>6 DEF Held
        <3>2. QED
            BY <3>1, HeldFacts
    <2>7. QED
        BY <2>3, <2>4, <2>5, <2>6
<1>4. QED
    BY <1>2, <1>3 DEF HeldTogether

(* Others only reserve, give back and spend their own. *)
LEMMA ElsewhereMoves ==
    ASSUME IInv, HeldTogether, NEW c \in Wallets, ElsewhereReserves(c) \/ ElsewhereEnds(c)
    PROVE  /\ available' = [available EXCEPT ![c] = available'[c]]
           /\ elsewhere' = [elsewhere EXCEPT ![c] = elsewhere'[c]]
           /\ reserved' = [reserved EXCEPT ![c] = @ + (elsewhere'[c] - elsewhere[c])]
<1>1. /\ available \in [Wallets -> Nat] /\ reserved \in [Wallets -> Nat]
      /\ elsewhere \in [Wallets -> Int] /\ elsewhere[c] \in Nat
    BY CryptoLedgerAssumption DEF IInv, TypeOK, CryptoLedgerTypeOK
<1>2. CASE ElsewhereReserves(c)
    <2>1. /\ available' = [available EXCEPT ![c] = @ - 1] /\ reserved' = [reserved EXCEPT ![c] = @ + 1]
          /\ elsewhere' = [elsewhere EXCEPT ![c] = @ + 1]
        BY <1>2 DEF ElsewhereReserves, reserve_crypto
    <2>2. elsewhere'[c] - elsewhere[c] = 1
        BY <1>1, <2>1
    <2>3. QED
        BY <1>1, <2>1, <2>2
<1>3. CASE ElsewhereEnds(c)
    <2>1. elsewhere[c] > 0 /\ elsewhere' = [elsewhere EXCEPT ![c] = @ - 1]
        BY <1>3 DEF ElsewhereEnds
    <2>2. Minus(reserved[c], 1) = reserved[c] - 1
        BY <2>1, EnoughReserved DEF Minus
    <2>3. /\ reserved' = [reserved EXCEPT ![c] = Minus(@, 1)]
          /\ available' = [available EXCEPT ![c] = @ + 1] \/ UNCHANGED available
        BY <1>3 DEF ElsewhereEnds, release_reserved_crypto, debit_reserved_crypto
    <2>4. elsewhere'[c] - elsewhere[c] = 0 - 1
        BY <1>1, <2>1
    <2>5. reserved' = [reserved EXCEPT ![c] = @ + (0 - 1)]
        <3>1. reserved[c] - 1 = reserved[c] + (0 - 1)
            BY <1>1
        <3>2. QED
            BY <2>2, <2>3, <3>1
    <2>6. QED
        BY <1>1, <2>1, <2>3, <2>4, <2>5
<1>4. QED
    BY <1>2, <1>3

(* The coins a settlement's claim moves. *)
LEMMA MovesExactly ==
    ASSUME IInv, HeldTogether, NEW s \in Settlements, MovesCoins(s)
    PROVE  \/ /\ MovesClaim(s, "none", "held")
             /\ reserved' = [reserved EXCEPT ![WalletOf[s]] = @ + Amount[s]]
             /\ UNCHANGED <<available, elsewhere>>
          \/ /\ MovesClaim(s, "none", "free")
             /\ available' = [available EXCEPT ![WalletOf[s]] = @ + Amount[s]] \/ UNCHANGED available
             /\ UNCHANGED <<reserved, elsewhere>>
          \/ /\ MovesClaim(s, "free", "held")
             /\ available[WalletOf[s]] >= Amount[s]
             /\ available' = [available EXCEPT ![WalletOf[s]] = @ - Amount[s]]
             /\ reserved' = [reserved EXCEPT ![WalletOf[s]] = @ + Amount[s]]
             /\ UNCHANGED elsewhere
          \/ /\ MovesClaim(s, "held", "free")
             /\ available' = [available EXCEPT ![WalletOf[s]] = @ + Amount[s]]
             /\ reserved' = [reserved EXCEPT ![WalletOf[s]] = @ - Amount[s]]
             /\ UNCHANGED elsewhere
          \/ /\ MovesClaim(s, "held", "spent")
             /\ reserved' = [reserved EXCEPT ![WalletOf[s]] = @ - Amount[s]]
             /\ UNCHANGED <<available, elsewhere>>
<1>1. row[s].reserved => Minus(reserved[WalletOf[s]], Amount[s]) = reserved[WalletOf[s]] - Amount[s]
    BY EnoughReserved DEF Minus
<1>2. MovesClaim(s, "held", "free") \/ MovesClaim(s, "held", "spent") => row[s].reserved
    BY DEF MovesClaim
<1>3. QED
    BY <1>1, <1>2 DEF MovesCoins, reserve_crypto, release_reserved_crypto, debit_reserved_crypto
-----------------------------------------------------------------------------
claims == [s \in Settlements |-> ClaimOf(s)]

(* A row's change of claim is the claim's move. *)
LEMMA ClaimMoves ==
    ASSUME NEW s \in Settlements, NEW from, NEW to, MovesClaim(s, from, to)
    PROVE  claims[s] = from /\ claims' = [claims EXCEPT ![s] = to]
BY DEF MovesClaim, claims

(* A step that moves coins of a row is one of the abstract wallet.         *)
LEMMA CoinsRefine ==
    ASSUME IInv, HeldTogether, NEW s \in Settlements, MovesCoins(s)
    PROVE  Claimed!ReservationsNext
<1>1. \/ Claimed!ArriveHeld(s) \/ Claimed!ArriveFree(s) \/ Claimed!Hold(s)
      \/ Claimed!GiveBack(s) \/ Claimed!Spend(s)
    BY MovesExactly, ClaimMoves
       DEF Claimed!ArriveHeld, Claimed!ArriveFree, Claimed!Hold, Claimed!GiveBack, Claimed!Spend,
           Claimed!Moves, claims
<1>2. QED
    BY <1>1 DEF Claimed!ReservationsNext

(* So is a step of the wallet's other users.                               *)
LEMMA ElsewhereRefine ==
    ASSUME IInv, IInv', HeldTogether, ClaimsStay, ElsewhereStep
    PROVE  Claimed!ReservationsNext
<1>1. PICK c \in Wallets : ElsewhereReserves(c) \/ ElsewhereEnds(c)
    BY DEF ElsewhereStep
<1>2. UNCHANGED claims
    BY DEF ClaimsStay, claims
<1>3. available'[c] >= 0 /\ elsewhere'[c] >= 0
    BY CryptoLedgerAssumption DEF IInv, TypeOK, CryptoLedgerTypeOK
<1>4. Claimed!Others(c)
    BY <1>1, <1>2, <1>3, ElsewhereMoves DEF Claimed!Others, claims
<1>5. QED
    BY <1>4 DEF Claimed!ReservationsNext
(* Every step keeps the sum. *)
LEMMA NextHeld ==
    ASSUME IInv, RowsInHand, HeldTogether, [Next]_vars
    PROVE  HeldTogether'
<1>1. ASSUME NEW s \in Settlements, MovesCoins(s) PROVE HeldTogether'
    <2>1. /\ \A t \in Settlements \ {s} : row'[t].reserved = row[t].reserved
          /\ UNCHANGED elsewhere
        BY <1>1, MovesExactly DEF MovesClaim
    <2>2. \/ /\ ~row[s].reserved /\ row'[s].reserved
             /\ reserved' = [reserved EXCEPT ![WalletOf[s]] = @ + Amount[s]]
          \/ /\ row[s].reserved /\ ~row'[s].reserved
             /\ reserved' = [reserved EXCEPT ![WalletOf[s]] = @ - Amount[s]]
          \/ (row'[s].reserved <=> row[s].reserved) /\ UNCHANGED reserved
        BY <1>1, MovesExactly DEF MovesClaim
    <2>3. QED
        BY <2>1, <2>2, HeldMoves
<1>2. ASSUME ClaimsStay, NEW c \in Wallets, ElsewhereReserves(c) \/ ElsewhereEnds(c)
      PROVE  HeldTogether'
    <2>1. \A d \in Wallets : Held(d)' = Held(d)
        BY <1>2 DEF ClaimsStay, Held
    <2>2. {s \in Settlements : row[s].reserved}' = {s \in Settlements : row[s].reserved}
        BY <1>2 DEF ClaimsStay
    <2>3. /\ reserved \in [Wallets -> Nat] /\ elsewhere \in [Wallets -> Int]
          /\ elsewhere'[c] \in Int
        BY <1>2, CryptoLedgerAssumption
           DEF IInv, TypeOK, CryptoLedgerTypeOK, ElsewhereReserves, ElsewhereEnds
    <2>4. ASSUME NEW d \in Wallets PROVE reserved'[d] = elsewhere'[d] + Total(Amount, Held(d)')
        <3>1. /\ Total(Amount, Held(d)') = Total(Amount, Held(d)) /\ Total(Amount, Held(d)) \in Nat
              /\ reserved[d] = elsewhere[d] + Total(Amount, Held(d))
            BY <2>1, HeldFacts
        <3>2. CASE d = c
            <4>1. reserved'[c] = reserved[c] + (elsewhere'[c] - elsewhere[c])
                BY <1>2, <2>3, ElsewhereMoves
            <4>2. QED
                BY <2>3, <3>1, <3>2, <4>1
        <3>3. CASE d # c
            <4>1. reserved'[d] = reserved[d] /\ elsewhere'[d] = elsewhere[d]
                BY <1>2, <2>3, <3>3 DEF ElsewhereReserves, ElsewhereEnds, reserve_crypto,
                       release_reserved_crypto, debit_reserved_crypto
            <4>2. QED
                BY <3>1, <4>1
        <3>4. QED
            BY <3>2, <3>3
    <2>5. QED
        BY <2>2, <2>4 DEF HeldTogether
<1>3. CASE ClaimsStay /\ UNCHANGED cryptoVars
    <2>1. \A d \in Wallets : Held(d)' = Held(d)
        BY <1>3 DEF ClaimsStay, Held
    <2>2. {s \in Settlements : row[s].reserved}' = {s \in Settlements : row[s].reserved}
        BY <1>3 DEF ClaimsStay
    <2>3. QED
        BY <1>3, <2>1, <2>2 DEF HeldTogether, cryptoVars
<1>4. QED
    BY <1>1, <1>2, <1>3, NextCoins DEF ElsewhereStep

(* Nothing is held at the start.                                           *)
LEMMA HeldInit == Init => HeldTogether /\ Claimed!ReservationsInit
<1> SUFFICES ASSUME Init PROVE HeldTogether /\ Claimed!ReservationsInit
    OBVIOUS
<1>1. \A s \in Settlements : row[s].status = "none" /\ ~row[s].reserved
    BY DEF Init
<1>2. {s \in Settlements : row[s].reserved} = {} /\ \A c \in Wallets : Held(c) = {}
    BY <1>1 DEF Held
<1>3. \A c \in Wallets : Total(Amount, Held(c)) = 0 /\ reserved[c] = 0 /\ elsewhere[c] = 0
    BY <1>2, TotalEmpty DEF Init, CryptoLedgerInit
<1>4. HeldTogether
    BY <1>2, <1>3, FS_EmptySet DEF HeldTogether
<1>5. Claimed!ReservationsInit
    BY <1>1 DEF Init, CryptoLedgerInit, Claimed!ReservationsInit, ClaimOf
<1>6. QED
    BY <1>4, <1>5

(* Settlements hold, give back and spend the coins of their wallets as     *)
(* Reservations says: a deposit's coins are counted in the reserved        *)
(* balance exactly while its row says so, and leave it once for each time  *)
(* they entered, whoever fails, retries or crashes in between; balances    *)
(* are never cut off at zero.                                              *)
THEOREM SettlementsImplementReservations == Spec => SettlementsAreClaims
<1>1. Spec => []HeldTogether
    <2>1. IInv /\ RowsInHand /\ HeldTogether /\ [Next]_vars => HeldTogether'
        BY NextHeld
    <2>2. QED
        BY <2>1, HeldInit, InductiveInvariant, RowsInvariant, PTL DEF Spec
<1>2. ASSUME IInv, IInv', RowsInHand, HeldTogether, [Next]_vars
      PROVE  [Claimed!ReservationsNext]_(Claimed!reservationVars)
    <2>1. CASE ClaimsStay /\ UNCHANGED cryptoVars
        BY <2>1 DEF ClaimsStay, cryptoVars, Claimed!reservationVars
    <2>2. CASE ClaimsStay /\ ElsewhereStep
        BY <1>2, <2>2, ElsewhereRefine
    <2>3. ASSUME NEW s \in Settlements, MovesCoins(s) PROVE Claimed!ReservationsNext
        BY <1>2, <2>3, CoinsRefine
    <2>4. QED
        BY <1>2, <2>1, <2>2, <2>3, NextCoins
<1>3. QED
    BY <1>1, <1>2, HeldInit, InductiveInvariant, RowsInvariant, PTL
       DEF Spec, SettlementsAreClaims, Claimed!ReservationsSpec
=============================================================================
