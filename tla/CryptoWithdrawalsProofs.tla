---------------------- MODULE CryptoWithdrawalsProofs ----------------------
(***************************************************************************)
(* A rejection credits the coins once, a settled withdrawal stays settled, *)
(* nothing is returned of what was paid unless the request gave up on an   *)
(* unknown outcome: for any requests, keys, workers, limits and crashes.   *)
(***************************************************************************)
EXTENDS CryptoWithdrawals, Sums

USE DEF historyVars, cryptoVars

Payouts == {"unsent", "sent", "refused", "lost"} \cup Landed
Holds == {"none", "held", "released", "spent"}

(* A step is about one withdrawal: the others are as they were. *)
Only(w) ==
    /\ \A v \in Withdrawals \ {w} :
          /\ status'[v] = status[v] /\ payout'[v] = payout[v] /\ hold'[v] = hold[v]
          /\ credits'[v] = credits[v] /\ guessed'[v] = guessed[v] /\ died'[v] = died[v]
    /\ status[w] # "none" => status'[w] # "none"

TypedNext ==
    /\ CryptoLedgerTypeOK'
    /\ status' \in [Withdrawals -> Statuses]
    /\ payout' \in [Withdrawals -> Payouts]
    /\ hold' \in [Withdrawals -> Holds]
    /\ credits' \in [Withdrawals -> Nat]
    /\ guessed' \in [Withdrawals -> BOOLEAN]
    /\ died' \in [Withdrawals -> BOOLEAN]
    /\ crashes' \in 0..MaxCrashes

(* After the step: what is known of a withdrawal somebody works on. *)
JobNext(j) ==
    /\ j.at # "idle" => j.w \in Withdrawals
    /\ j.at = "reserve" => hold'[j.w] = "none" /\ status'[j.w] = "none"
    /\ j.at = "create" => hold'[j.w] = "held" /\ status'[j.w] = "none"
    /\ j.at = "send" => payout'[j.w] = "unsent"
    /\ j.at \in {"send", "sent", "release"} => hold'[j.w] = "held"
    /\ j.at \in {"send", "sent", "release", "fail"} =>
          \/ status'[j.w] = "PROCESSING"
          \/ status'[j.w] # "none" /\ payout'[j.w] \in {"done", "rejected"}
    /\ j.at \in {"release", "fail"} => guessed'[j.w] \/ payout'[j.w] \in {"refused", "lost"}
    /\ j.at = "fail" => hold'[j.w] = "released"
    /\ j.at = "paid" => payout'[j.w] = "done"
    /\ j.at = "rejected" => payout'[j.w] = "rejected"

(* After the step: what is known of the withdrawal itself. *)
RowNext(w) ==
    /\ status'[w] = "none" => payout'[w] = "unsent"
    /\ hold'[w] = "none" => status'[w] = "none"
    /\ hold'[w] = "released" => guessed'[w] \/ payout'[w] \in {"refused", "lost"}
    /\ status'[w] = "REJECTED" => payout'[w] \in {"unsent", "refused", "lost", "rejected"}
    /\ credits'[w] = IF status'[w] = "REJECTED" THEN 1 ELSE 0
    /\ ~guessed'[w] /\ ~died'[w] => ~(hold'[w] = "released" /\ credits'[w] > 0)

InRequest(w) == \E p \in WebWorkers : job[p].w = w /\ job[p].at \in RequestSteps
InFail(w) == \E p \in WebWorkers : job[p].w = w /\ job[p].at = "fail"

(* After the step: whose coins may still be held, who still is to fail. *)
HeldNext(w) ==
    /\ hold'[w] = "held" /\ ~died'[w] => InRequest(w)' \/ (KeyTaken(w) /\ ~HasRow(w))'
    /\ hold'[w] = "released" /\ status'[w] = "PROCESSING" /\ ~died'[w] => InFail(w)'

-----------------------------------------------------------------------------
(* A step about one withdrawal that fits it keeps the invariant. *)
LEMMA OneStep ==
    ASSUME IInv, NEW w \in Withdrawals, Only(w), TypedNext, RowNext(w), HeldNext(w),
           \A p \in WebWorkers : job'[p] # job[p] \/ job[p].w = w => JobNext(job'[p]),
           OneRequest', job' \in [WebWorkers -> Jobs],
           \A p \in WebWorkers : job'[p] = job[p] \/ job[p] = Idle \/ job[p].w = w
    PROVE  IInv'
<1>1. TypeOK'
    BY DEF TypedNext, TypeOK, Payouts, Holds
<1>2. JobsOK'
    <2>1. SUFFICES ASSUME NEW p \in WebWorkers PROVE JobNext(job'[p])
        BY DEF JobsOK, JobOK, JobNext
    <2>2. CASE job'[p] = job[p] /\ job[p].w # w
        <3>1. JobOK(job[p])
            BY DEF IInv, JobsOK
        <3>2. QED
            BY <2>2, <3>1 DEF JobOK, JobNext, Only
    <2>3. QED
        BY <2>2
<1>3. RowsOK' /\ CreditedIffRejected' /\ ReturnedOnceUnlessGuessed'
    <2>1. ASSUME NEW v \in Withdrawals PROVE RowNext(v)
        <3>1. CASE v # w
            BY <3>1 DEF IInv, Only, RowNext, RowsOK, CreditedIffRejected, ReturnedOnceUnlessGuessed
        <3>2. QED
            BY <3>1
    <2>2. RowsOK' /\ CreditedIffRejected'
        BY <2>1 DEF RowNext, RowsOK, CreditedIffRejected
    <2>3. ReturnedOnceUnlessGuessed'
        BY <2>1 DEF RowNext, ReturnedOnceUnlessGuessed
    <2>4. QED
        BY <2>2, <2>3
<1>4. HeldWhileRequested' /\ FailFollows'
    <2>1. ASSUME NEW v \in Withdrawals PROVE HeldNext(v)
        <3>1. CASE v # w
            <4>1. \A p \in WebWorkers : job[p].w = v /\ job[p].at # "idle" => job'[p] = job[p]
                BY <3>1 DEF Idle
            <4>2. InRequest(v) => InRequest(v)'
                BY <4>1 DEF InRequest, RequestSteps
            <4>3. InFail(v) => InFail(v)'
                BY <4>1 DEF InFail
            <4>4. KeyTaken(v) => KeyTaken(v)'
                BY DEF KeyTaken, HasRow, Only
            <4>5. HasRow(v)' <=> HasRow(v)
                BY <3>1 DEF HasRow, Only
            <4>6. /\ hold[v] = "held" /\ ~died[v] => InRequest(v) \/ (KeyTaken(v) /\ ~HasRow(v))
                  /\ hold[v] = "released" /\ status[v] = "PROCESSING" /\ ~died[v] => InFail(v)
                BY DEF IInv, HeldWhileRequested, FailFollows, InRequest, InFail
            <4>7. hold'[v] = hold[v] /\ status'[v] = status[v] /\ died'[v] = died[v]
                BY <3>1 DEF Only
            <4>8. QED
                BY <4>2, <4>3, <4>4, <4>5, <4>6, <4>7 DEF HeldNext
        <3>2. QED
            BY <3>1
    <2>2. HeldWhileRequested'
        BY <2>1 DEF HeldNext, HeldWhileRequested, InRequest
    <2>3. FailFollows'
        BY <2>1 DEF HeldNext, FailFollows, InFail
    <2>4. QED
        BY <2>2, <2>3
<1>5. QED
    BY <1>1, <1>2, <1>3, <1>4 DEF IInv

(* A process works on the withdrawal, or starts to. *)
LEMMA ProcessStep ==
    ASSUME IInv, NEW p \in WebWorkers, NEW w \in Withdrawals, NEW j \in Jobs,
           job' = [job EXCEPT ![p] = j], job[p] = Idle \/ job[p].w = w, j = Idle \/ j.w = w,
           JobNext(j), \A q \in WebWorkers \ {p} : job[q].w = w => JobNext(job[q]),
           j.at \in RequestSteps => job[p].at \in RequestSteps \/ ~InRequest(w),
           Only(w), TypedNext, RowNext(w), HeldNext(w)
    PROVE  IInv'
<1>1. /\ job \in [WebWorkers -> Jobs] /\ job' \in [WebWorkers -> Jobs]
      /\ job'[p] = j /\ \A q \in WebWorkers \ {p} : job'[q] = job[q]
    BY DEF IInv, TypeOK
<1>2. \A q \in WebWorkers : job'[q] # job[q] \/ job[q].w = w => JobNext(job'[q])
    BY <1>1
<1>3. OneRequest'
    <2>1. SUFFICES ASSUME NEW q \in WebWorkers, NEW r \in WebWorkers, q # r,
                          job'[q].at \in RequestSteps, job'[r].at \in RequestSteps
                   PROVE  job'[q].w # job'[r].w
        BY DEF OneRequest
    <2>2. CASE q # p /\ r # p
        BY <1>1, <2>1, <2>2 DEF IInv, OneRequest
    <2>3. ASSUME NEW t \in WebWorkers \ {p}, j.at \in RequestSteps, job[t].at \in RequestSteps
          PROVE  j.w = w /\ job[t].w # w
        <3>1. j.w = w
            BY <2>3 DEF Idle, RequestSteps
        <3>2. CASE job[p].at \in RequestSteps
            <4>1. job[p].w = w
                BY <3>2 DEF Idle, RequestSteps
            <4>2. QED
                BY <2>3, <3>1, <3>2, <4>1 DEF IInv, OneRequest
        <3>3. CASE ~InRequest(w)
            BY <2>3, <3>1, <3>3 DEF InRequest
        <3>4. QED
            BY <2>3, <3>2, <3>3
    <2>4. QED
        BY <1>1, <2>1, <2>2, <2>3
<1>4. \A q \in WebWorkers : job'[q] = job[q] \/ job[q] = Idle \/ job[q].w = w
    BY <1>1
<1>5. QED
    BY <1>1, <1>2, <1>3, <1>4, OneStep

(* Quidax or an admin does something with the withdrawal. *)
LEMMA OutsideStep ==
    ASSUME IInv, NEW w \in Withdrawals, UNCHANGED job,
           \A q \in WebWorkers : job[q].w = w => JobNext(job[q]),
           Only(w), TypedNext, RowNext(w), HeldNext(w)
    PROVE  IInv'
<1>1. job' \in [WebWorkers -> Jobs] /\ OneRequest'
    BY DEF IInv, TypeOK, OneRequest
<1>2. QED
    BY <1>1, OneStep

(* What the invariant says of one withdrawal and one process. *)
LEMMA Known ==
    ASSUME IInv
    PROVE  /\ available \in [Wallets -> Nat] /\ reserved \in [Wallets -> Nat]
           /\ elsewhere \in [Wallets -> 0..MaxElsewhere]
           /\ status \in [Withdrawals -> Statuses] /\ payout \in [Withdrawals -> Payouts]
           /\ hold \in [Withdrawals -> Holds] /\ credits \in [Withdrawals -> Nat]
           /\ guessed \in [Withdrawals -> BOOLEAN] /\ died \in [Withdrawals -> BOOLEAN]
           /\ job \in [WebWorkers -> Jobs] /\ crashes \in 0..MaxCrashes
           /\ \A p \in WebWorkers : JobOK(job[p])
BY DEF IInv, TypeOK, CryptoLedgerTypeOK, JobsOK, Payouts, Holds

(* What the invariant says of one withdrawal.                              *)
LEMMA KnownRow ==
    ASSUME IInv, NEW w \in Withdrawals
    PROVE  /\ status[w] = "none" => payout[w] = "unsent"
           /\ hold[w] = "none" => status[w] = "none"
           /\ hold[w] = "released" => guessed[w] \/ payout[w] \in {"refused", "lost"}
           /\ status[w] = "REJECTED" => payout[w] \in {"unsent", "refused", "lost", "rejected"}
           /\ credits[w] = IF status[w] = "REJECTED" THEN 1 ELSE 0
           /\ ~guessed[w] /\ ~died[w] => ~(hold[w] = "released" /\ credits[w] > 0)
           /\ hold[w] = "held" /\ ~died[w] => InRequest(w) \/ (KeyTaken(w) /\ ~HasRow(w))
           /\ hold[w] = "released" /\ status[w] = "PROCESSING" /\ ~died[w] => InFail(w)
BY DEF IInv, RowsOK, CreditedIffRejected, ReturnedOnceUnlessGuessed, HeldWhileRequested,
       FailFollows, InRequest, InFail

(* The amounts stay natural numbers. *)
LEMMA LedgerTyped ==
    ASSUME IInv, NEW w \in Withdrawals, UNCHANGED elsewhere,
           \/ UNCHANGED <<available, reserved>>
           \/ reserve_crypto(WalletOf[w], Amount[w])
           \/ release_reserved_crypto(WalletOf[w], Amount[w])
           \/ debit_reserved_crypto(WalletOf[w], Amount[w])
           \/ credit_crypto_available(WalletOf[w], Amount[w])
    PROVE  CryptoLedgerTypeOK'
<1>1. WalletOf[w] \in Wallets /\ Amount[w] \in Nat
    BY WithdrawalAssumption
<1>2. available \in [Wallets -> Nat] /\ reserved \in [Wallets -> Nat]
      /\ elsewhere \in [Wallets -> 0..MaxElsewhere]
    BY Known
<1>3. \A x \in Nat : Minus(x, Amount[w]) \in Nat
    BY <1>1 DEF Minus
<1>4. QED
    BY <1>1, <1>2, <1>3
       DEF CryptoLedgerTypeOK, reserve_crypto, release_reserved_crypto, debit_reserved_crypto,
           credit_crypto_available
(* No coins move. *)
LEMMA SameLedger == IInv /\ UNCHANGED <<available, reserved, elsewhere>> => CryptoLedgerTypeOK'
BY DEF IInv, TypeOK, CryptoLedgerTypeOK

-----------------------------------------------------------------------------
(* The request. *)
LEMMA RequestInv ==
    ASSUME IInv, NEW p \in WebWorkers, NEW w \in Withdrawals, request_withdrawal(p, w)
    PROVE  IInv'
<1> DEFINE j == [at |-> "reserve", w |-> w]
<1>1. /\ job' = [job EXCEPT ![p] = j] /\ job[p] = Idle
      /\ hold[w] = "none" /\ status[w] = "none" /\ ~InRequest(w)
      /\ \A q \in WebWorkers : job[q].w # w
      /\ UNCHANGED <<cryptoVars, status, payout, historyVars, crashes>>
    BY DEF request_withdrawal, Starts, HasRow, InHands, InRequest
<1>2. j \in Jobs /\ JobNext(j)
    BY <1>1 DEF Jobs, Steps, JobNext
<1>3. TypedNext
    BY <1>1, Known, SameLedger DEF TypedNext
<1>4. Only(w) /\ RowNext(w) /\ HeldNext(w)
    BY <1>1, KnownRow DEF Only, RowNext, HeldNext
<1>5. QED
    BY <1>1, <1>2, <1>3, <1>4, ProcessStep

(* A process with a request under way. *)
LEMMA Working ==
    ASSUME IInv, NEW p \in WebWorkers, job[p].at # "idle"
    PROVE  /\ job[p].w \in Withdrawals /\ JobOK(job[p])
           /\ \A at \in Steps : [job[p] EXCEPT !.at = at] = [at |-> at, w |-> job[p].w]
           /\ job[p].at \in RequestSteps => InRequest(job[p].w) /\
                 \A q \in WebWorkers \ {p} : job[q].at \in RequestSteps => job[q].w # job[p].w
<1>1. JobOK(job[p]) /\ job[p] \in Jobs
    BY Known
<1>2. QED
    BY <1>1 DEF JobOK, Jobs, InRequest, IInv, OneRequest

(* Reserving the coins keeps the invariant.                                *)
LEMMA ReserveInv ==
    ASSUME IInv, NEW p \in WebWorkers, Reserve(p), NEW w \in Withdrawals, w = job[p].w
    PROVE  IInv'
<1>1. /\ job[p].at = "reserve" /\ hold[w] = "none" /\ status[w] = "none"
      /\ \A q \in WebWorkers \ {p} : job[q].at \in RequestSteps => job[q].w # w
    BY Working DEF Reserve, IsAt, RequestSteps, JobOK
<1>2. /\ payout[w] = "unsent" /\ credits[w] = 0
      /\ UNCHANGED <<elsewhere, status, payout, credits, guessed, died, crashes>>
    BY <1>1, KnownRow DEF Reserve
<1>3. \A q \in WebWorkers \ {p} : job[q].w = w => JobNext(job[q])
    BY <1>1, <1>2, Known DEF JobOK, JobNext, RequestSteps, Jobs, Steps
<1>4. CASE /\ reserve_crypto(WalletOf[w], Amount[w])
           /\ hold' = [hold EXCEPT ![w] = "held"]
           /\ Goes(p, "create")
    <2> DEFINE j == [at |-> "create", w |-> w]
    <2>1. job' = [job EXCEPT ![p] = j] /\ j \in Jobs
        <3>1. [job[p] EXCEPT !.at = "create"] = j
            BY <1>1, Working DEF Steps
        <3>2. QED
            BY <1>1, <1>4, <3>1 DEF Goes, Jobs, Steps
    <2>2. TypedNext
        BY <1>1, <1>2, <1>4, Known, LedgerTyped DEF TypedNext, Holds
    <2>3. JobNext(j) /\ Only(w) /\ RowNext(w)
        BY <1>1, <1>2, <1>4, Known DEF JobNext, Only, RowNext
    <2>4. HeldNext(w)
        <3>1. InRequest(w)'
            BY <2>1, Known DEF InRequest, RequestSteps
        <3>2. QED
            BY <1>1, <1>4, <3>1, Known DEF HeldNext
    <2>5. j.w = w /\ job[p].w = w /\ job[p].at \in RequestSteps
        BY <1>1 DEF RequestSteps
    <2> HIDE DEF j
    <2>6. QED
        BY <1>1, <1>3, <2>1, <2>2, <2>3, <2>4, <2>5, ProcessStep
<1>5. CASE Ends(p) /\ UNCHANGED <<available, reserved, hold>>
    <2>1. job' = [job EXCEPT ![p] = Idle] /\ Idle \in Jobs /\ JobNext(Idle)
              /\ Idle.at \notin RequestSteps
        BY <1>5 DEF Ends, Idle, Jobs, Steps, JobNext, RequestSteps
    <2>2. TypedNext /\ Only(w) /\ RowNext(w) /\ HeldNext(w)
        BY <1>1, <1>2, <1>5, Known, SameLedger DEF TypedNext, Only, RowNext, HeldNext
    <2>3. QED
        BY <1>1, <1>3, <2>1, <2>2, ProcessStep
<1>6. QED
    BY <1>4, <1>5 DEF Reserve

(* The other processes, while one has the request. *)
LEMMA OthersReport ==
    ASSUME IInv, NEW p \in WebWorkers, job[p].at \in RequestSteps,
           NEW q \in WebWorkers \ {p}, job[q].w = job[p].w,
           job[q].at \in {"paid", "rejected"} => UNCHANGED payout
    PROVE  JobNext(job[q])
<1>1. job[p].at # "idle"
    BY DEF RequestSteps
<1>2. job[q].at \notin RequestSteps
    BY <1>1, Working
<1>3. JobOK(job[q]) /\ job[q] \in Jobs
    BY Known
<1>4. QED
    BY <1>2, <1>3 DEF JobOK, JobNext, Jobs, Steps, RequestSteps

(* Creating the row keeps the invariant.                                   *)
LEMMA CreateInv ==
    ASSUME IInv, NEW p \in WebWorkers, _create_withdrawal_row(p), NEW w \in Withdrawals, w = job[p].w
    PROVE  IInv'
<1>1. /\ job[p].at = "create" /\ hold[w] = "held" /\ status[w] = "none"
      /\ job[p].at \in RequestSteps
      /\ UNCHANGED <<cryptoVars, payout, historyVars, crashes>>
    BY Working DEF _create_withdrawal_row, IsAt, RequestSteps, JobOK
<1>2. payout[w] = "unsent" /\ credits[w] = 0
    BY <1>1, KnownRow
<1>3. \A q \in WebWorkers \ {p} : job[q].w = w => JobNext(job[q])
    BY <1>1, OthersReport
<1>4. CASE ~KeyTaken(w) /\ status' = [status EXCEPT ![w] = "PROCESSING"] /\ Goes(p, "send")
    <2> DEFINE j == [at |-> "send", w |-> w]
    <2>1. job' = [job EXCEPT ![p] = j] /\ j \in Jobs
        <3>1. [job[p] EXCEPT !.at = "send"] = j
            BY <1>1, Working DEF Steps
        <3>2. QED
            BY <1>1, <1>4, <3>1 DEF Goes, Jobs, Steps
    <2>2. TypedNext
        BY <1>1, <1>4, Known, SameLedger DEF TypedNext, Statuses
    <2>3. JobNext(j) /\ Only(w) /\ RowNext(w)
        BY <1>1, <1>2, <1>4, Known DEF JobNext, Only, RowNext
    <2>4. HeldNext(w)
        <3>1. InRequest(w)'
            BY <2>1, Known DEF InRequest, RequestSteps
        <3>2. QED
            BY <1>1, <3>1 DEF HeldNext
    <2>5. j.w = w /\ job[p].w = w
        OBVIOUS
    <2> HIDE DEF j
    <2>6. QED
        BY <1>1, <1>3, <2>1, <2>2, <2>3, <2>4, <2>5, ProcessStep
<1>5. CASE KeyTaken(w) /\ Ends(p) /\ UNCHANGED status
    <2>1. job' = [job EXCEPT ![p] = Idle] /\ Idle \in Jobs /\ JobNext(Idle)
              /\ Idle.at \notin RequestSteps
        BY <1>5 DEF Ends, Idle, Jobs, Steps, JobNext, RequestSteps
    <2>2. (KeyTaken(w) /\ ~HasRow(w))'
        BY <1>1, <1>5 DEF KeyTaken, HasRow
    <2>3. TypedNext /\ Only(w) /\ RowNext(w) /\ HeldNext(w)
        BY <1>1, <1>2, <1>5, <2>2, Known, SameLedger DEF TypedNext, Only, RowNext, HeldNext
    <2>4. QED
        BY <1>1, <1>3, <2>1, <2>3, ProcessStep
<1>6. QED
    BY <1>4, <1>5 DEF _create_withdrawal_row

(* The request leaves, is accepted or given up, the coins are released and *)
(* the row fails.                                                          *)
LEMMA ExecuteInv ==
    ASSUME IInv, NEW p \in WebWorkers, _execute_quidax_withdrawal(p), NEW w \in Withdrawals, w = job[p].w
    PROVE  IInv'
<1> DEFINE j == [at |-> "sent", w |-> w]
<1>1. /\ job[p].at = "send" /\ hold[w] = "held" /\ payout[w] = "unsent"
      /\ status[w] = "PROCESSING" /\ job[p].at \in RequestSteps
      /\ payout' = [payout EXCEPT ![w] = "sent"]
      /\ UNCHANGED <<cryptoVars, status, historyVars, crashes>>
    BY Working DEF _execute_quidax_withdrawal, IsAt, RequestSteps, JobOK
<1>2. credits[w] = 0
    BY <1>1, KnownRow
<1>3. \A q \in WebWorkers \ {p} : job[q].w = w => JobNext(job[q])
    <2>1. \A q \in WebWorkers : job[q].w = w => job[q].at \notin {"paid", "rejected"}
        BY <1>1, Known DEF JobOK
    <2>2. QED
        BY <1>1, <2>1, OthersReport
<1>4. job' = [job EXCEPT ![p] = j] /\ j \in Jobs
    <2>1. [job[p] EXCEPT !.at = "sent"] = j
        BY <1>1, Working DEF Steps
    <2>2. QED
        BY <1>1, <2>1 DEF _execute_quidax_withdrawal, Goes, Jobs, Steps
<1>5. TypedNext
    BY <1>1, Known, SameLedger DEF TypedNext, Payouts
<1>6. JobNext(j) /\ Only(w) /\ RowNext(w)
    BY <1>1, <1>2, Known DEF JobNext, Only, RowNext
<1>7. HeldNext(w)
    <2>1. InRequest(w)'
        BY <1>4, Known DEF InRequest, RequestSteps
    <2>2. QED
        BY <1>1, <2>1 DEF HeldNext
<1>8. j.w = w /\ job[p].w = w
    OBVIOUS
<1> HIDE DEF j
<1>9. QED
    BY <1>1, <1>3, <1>4, <1>5, <1>6, <1>7, <1>8, ProcessStep

(* A payout that Quidax accepted keeps the invariant.                      *)
LEMMA AcceptedInv ==
    ASSUME IInv, NEW p \in WebWorkers, Accepted(p), NEW w \in Withdrawals, w = job[p].w
    PROVE  IInv'
<1>1. /\ job[p].at = "sent" /\ hold[w] = "held" /\ status[w] # "none"
      /\ job[p].at \in RequestSteps
      /\ debit_reserved_crypto(WalletOf[w], Amount[w])
      /\ hold' = [hold EXCEPT ![w] = "spent"] /\ Ends(p)
      /\ UNCHANGED <<elsewhere, status, payout, credits, guessed, died, crashes>>
    BY Working DEF Accepted, IsAt, RequestSteps, JobOK
<1>2. \A q \in WebWorkers \ {p} : job[q].w = w => JobNext(job[q])
    BY <1>1, OthersReport
<1>3. job' = [job EXCEPT ![p] = Idle] /\ Idle \in Jobs /\ JobNext(Idle)
          /\ Idle.at \notin RequestSteps
    BY <1>1 DEF Ends, Idle, Jobs, Steps, JobNext, RequestSteps
<1>4. TypedNext
    BY <1>1, Known, LedgerTyped DEF TypedNext, Holds
<1>5. hold'[w] = "spent" /\ Only(w)
    BY <1>1, Known DEF Only
<1>6. RowNext(w) /\ HeldNext(w)
    BY <1>1, <1>5, KnownRow DEF RowNext, HeldNext
<1>7. QED
    BY <1>1, <1>2, <1>3, <1>4, <1>5, <1>6, ProcessStep

(* A payout call that raised keeps the invariant.                          *)
LEMMA RaisedInv ==
    ASSUME IInv, NEW p \in WebWorkers, Raised(p), NEW w \in Withdrawals, w = job[p].w
    PROVE  IInv'
<1> DEFINE j == [at |-> "release", w |-> w]
<1>1. /\ job[p].at = "sent" /\ hold[w] = "held" /\ status[w] # "none"
      /\ job[p].at \in RequestSteps
      /\ status[w] = "PROCESSING" \/ payout[w] \in {"done", "rejected"}
      /\ guessed' = [guessed EXCEPT ![w] = payout[w] \notin {"refused", "lost"}]
      /\ UNCHANGED <<cryptoVars, status, payout, hold, credits, died, crashes>>
    BY Working DEF Raised, IsAt, RequestSteps, JobOK
<1>2. \A q \in WebWorkers \ {p} : job[q].w = w => JobNext(job[q])
    BY <1>1, OthersReport
<1>3. job' = [job EXCEPT ![p] = j] /\ j \in Jobs
    <2>1. [job[p] EXCEPT !.at = "release"] = j
        BY <1>1, Working DEF Steps
    <2>2. QED
        BY <1>1, <2>1 DEF Raised, Goes, Jobs, Steps
<1>4. TypedNext
    BY <1>1, Known, SameLedger DEF TypedNext
<1>5. guessed'[w] \/ payout[w] \in {"refused", "lost"}
    BY <1>1, Known
<1>6. JobNext(j) /\ Only(w) /\ RowNext(w)
    BY <1>1, <1>5, Known, KnownRow DEF JobNext, Only, RowNext
<1>7. HeldNext(w)
    <2>1. InRequest(w)'
        BY <1>3, Known DEF InRequest, RequestSteps
    <2>2. QED
        BY <1>1, <2>1 DEF HeldNext
<1>8. j.w = w /\ job[p].w = w
    OBVIOUS
<1> HIDE DEF j
<1>9. QED
    BY <1>1, <1>2, <1>3, <1>4, <1>6, <1>7, <1>8, ProcessStep

(* Releasing the coins of a failed payout keeps the invariant.             *)
LEMMA ReleaseInv ==
    ASSUME IInv, NEW p \in WebWorkers, Release(p), NEW w \in Withdrawals, w = job[p].w
    PROVE  IInv'
<1> DEFINE j == [at |-> "fail", w |-> w]
<1>1. /\ job[p].at = "release" /\ hold[w] = "held" /\ status[w] # "none"
      /\ job[p].at \in RequestSteps
      /\ status[w] = "PROCESSING" \/ payout[w] \in {"done", "rejected"}
      /\ guessed[w] \/ payout[w] \in {"refused", "lost"}
      /\ release_reserved_crypto(WalletOf[w], Amount[w])
      /\ hold' = [hold EXCEPT ![w] = "released"]
      /\ UNCHANGED <<elsewhere, status, payout, credits, guessed, died, crashes>>
    BY Working DEF Release, IsAt, RequestSteps, JobOK
<1>2. \A q \in WebWorkers \ {p} : job[q].w = w => JobNext(job[q])
    BY <1>1, OthersReport
<1>3. job' = [job EXCEPT ![p] = j] /\ j \in Jobs
    <2>1. [job[p] EXCEPT !.at = "fail"] = j
        BY <1>1, Working DEF Steps
    <2>2. QED
        BY <1>1, <2>1 DEF Release, Goes, Jobs, Steps
<1>4. TypedNext
    BY <1>1, Known, LedgerTyped DEF TypedNext, Holds
<1>5. hold'[w] = "released"
    BY <1>1, Known
<1>6. ~guessed[w] => credits[w] = 0
    BY <1>1, KnownRow
<1>7. JobNext(j) /\ Only(w) /\ RowNext(w)
    BY <1>1, <1>5, <1>6, Known, KnownRow DEF JobNext, Only, RowNext
<1>8. HeldNext(w)
    <2>1. InFail(w)'
        BY <1>3, Known DEF InFail
    <2>2. QED
        BY <1>5, <2>1 DEF HeldNext
<1>9. j.w = w
    OBVIOUS
<1> HIDE DEF j
<1>10. QED
    BY <1>1, <1>2, <1>3, <1>4, <1>7, <1>8, <1>9, ProcessStep

(* Marking the row FAILED keeps the invariant.                             *)
LEMMA FailInv ==
    ASSUME IInv, NEW p \in WebWorkers, Fail(p), NEW w \in Withdrawals, w = job[p].w
    PROVE  IInv'
<1>1. /\ job[p].at = "fail" /\ hold[w] = "released" /\ status[w] # "none"
      /\ job[p].at \in RequestSteps
      /\ status' = [status EXCEPT ![w] = IF @ = "PROCESSING" THEN "FAILED" ELSE @]
      /\ Ends(p)
      /\ UNCHANGED <<cryptoVars, payout, historyVars, crashes>>
    BY Working DEF Fail, IsAt, RequestSteps, JobOK
<1>2. \A q \in WebWorkers \ {p} : job[q].w = w => JobNext(job[q])
    BY <1>1, OthersReport
<1>3. job' = [job EXCEPT ![p] = Idle] /\ Idle \in Jobs /\ JobNext(Idle)
          /\ Idle.at \notin RequestSteps
    BY <1>1 DEF Ends, Idle, Jobs, Steps, JobNext, RequestSteps
<1>4. TypedNext
    BY <1>1, Known, SameLedger DEF TypedNext, Statuses
<1>5. status'[w] = (IF status[w] = "PROCESSING" THEN "FAILED" ELSE status[w]) /\ Only(w)
    BY <1>1, Known DEF Only
<1>6. RowNext(w) /\ HeldNext(w)
    BY <1>1, <1>5, KnownRow DEF RowNext, HeldNext
<1>7. QED
    BY <1>1, <1>2, <1>3, <1>4, <1>5, <1>6, ProcessStep

-----------------------------------------------------------------------------
(* Reports. *)
LEMMA WebhookInv ==
    ASSUME IInv, NEW p \in WebWorkers, NEW w \in Withdrawals, handle_withdraw_webhook(p, w)
    PROVE  IInv'
<1>1. PICK at \in {"paid", "rejected"} :
          /\ job' = [job EXCEPT ![p] = [at |-> at, w |-> w]]
          /\ at = "paid" => payout[w] = "done"
          /\ at = "rejected" => payout[w] = "rejected"
    BY DEF handle_withdraw_webhook, Starts
<1> DEFINE j == [at |-> at, w |-> w]
<1>2. /\ job[p] = Idle /\ status[w] = "PROCESSING"
      /\ UNCHANGED <<cryptoVars, status, payout, historyVars, crashes>>
    BY DEF handle_withdraw_webhook, Starts
<1>3. \A q \in WebWorkers : job[q].w = w => JobNext(job[q])
    BY <1>2, Known DEF JobOK, JobNext
<1>4. j \in Jobs /\ JobNext(j) /\ j.at \notin RequestSteps /\ j.w = w
    BY <1>1, <1>2 DEF Jobs, Steps, JobNext, RequestSteps
<1>5. TypedNext /\ Only(w) /\ RowNext(w)
    BY <1>2, Known, KnownRow, SameLedger DEF TypedNext, Only, RowNext
<1>6. HeldNext(w)
    <2>1. \A q \in WebWorkers : job[q].at # "idle" => job'[q] = job[q]
        BY <1>1, <1>2, Known DEF Idle
    <2>2. (InRequest(w) => InRequest(w)') /\ (InFail(w) => InFail(w)')
        BY <2>1 DEF InRequest, InFail, RequestSteps
    <2>3. QED
        BY <1>2, <2>2, KnownRow DEF HeldNext, HasRow
<1> HIDE DEF j
<1>7. QED
    BY <1>1, <1>2, <1>3, <1>4, <1>5, <1>6, ProcessStep DEF j

(* A settled row has nobody left to fail it. *)
LEMMA SettleRow ==
    ASSUME IInv, NEW w \in Withdrawals, status[w] = "PROCESSING",
           \/ Complete(w)
           \/ /\ Reject(w)
              /\ payout[w] \in {"unsent", "refused", "lost", "rejected"}
              /\ ~guessed[w] /\ ~died[w] => hold[w] # "released",
           UNCHANGED <<elsewhere, payout, hold, guessed, died, crashes>>
    PROVE  /\ TypedNext /\ Only(w) /\ RowNext(w)
           /\ status'[w] \in {"COMPLETED", "REJECTED"}
<1>1. credits[w] = 0
    BY KnownRow
<1>2. CASE Complete(w)
    BY <1>1, <1>2, Known, KnownRow, SameLedger DEF Complete, TypedNext, Only, RowNext, Statuses
<1>3. CASE /\ Reject(w)
           /\ payout[w] \in {"unsent", "refused", "lost", "rejected"}
           /\ ~guessed[w] /\ ~died[w] => hold[w] # "released"
    <2>1. status' = [status EXCEPT ![w] = "REJECTED"] /\ credits' = [credits EXCEPT ![w] = @ + 1]
        BY <1>3 DEF Reject
    <2>2. status'[w] = "REJECTED" /\ credits'[w] = 1
        BY <1>1, <2>1, Known
    <2>3. TypedNext
        <3>1. CryptoLedgerTypeOK'
            BY <1>3, LedgerTyped DEF Reject
        <3>2. QED
            BY <2>1, <3>1, Known DEF TypedNext, Statuses
    <2>4. Only(w)
        BY <2>1, <2>2, Known DEF Only
    <2>5. RowNext(w)
        BY <1>3, <2>2, KnownRow DEF RowNext
    <2>6. QED
        BY <2>2, <2>3, <2>4, <2>5
<1>4. QED
    BY <1>2, <1>3

(* Applying what a webhook reported keeps the invariant.                   *)
LEMMA SettleInv ==
    ASSUME IInv, NEW p \in WebWorkers, Settle(p), NEW w \in Withdrawals, w = job[p].w
    PROVE  IInv'
<1>1. /\ Ends(p) /\ UNCHANGED <<elsewhere, payout, hold, guessed, died, crashes>>
      /\ \/ job[p].at = "paid" /\ payout[w] = "done"
         \/ job[p].at = "rejected" /\ payout[w] = "rejected"
    BY Known DEF Settle, IsAt, JobOK
<1>2. job' = [job EXCEPT ![p] = Idle] /\ Idle \in Jobs /\ JobNext(Idle)
          /\ Idle.at \notin RequestSteps
    BY <1>1 DEF Ends, Idle, Jobs, Steps, JobNext, RequestSteps
<1>3. \A q \in WebWorkers : job[q].at \in RequestSteps => job'[q] = job[q]
    BY <1>1, <1>2, Known DEF RequestSteps
<1>4. (InRequest(w) => InRequest(w)') /\ (InFail(w) => InFail(w)')
    BY <1>3 DEF InRequest, InFail, RequestSteps
<1>5. CASE UNCHANGED <<available, reserved, status, credits>>
    <2>1. TypedNext /\ Only(w) /\ RowNext(w)
        BY <1>1, <1>5, Known, KnownRow, SameLedger DEF TypedNext, Only, RowNext
    <2>2. KeyTaken(w) /\ ~HasRow(w) => (KeyTaken(w) /\ ~HasRow(w))'
        BY <1>5 DEF KeyTaken, HasRow
    <2>3. HeldNext(w)
        BY <1>1, <1>4, <1>5, <2>2, KnownRow DEF HeldNext
    <2>4. \A q \in WebWorkers \ {p} : job[q].w = w => JobNext(job[q])
        BY <1>1, <1>5, Known DEF JobOK, JobNext
    <2>5. QED
        BY <1>2, <2>1, <2>3, <2>4, ProcessStep
<1>6. CASE /\ status[w] = "PROCESSING"
           /\ \/ Complete(w)
              \/ Reject(w) /\ payout[w] = "rejected"
    <2>1. ~guessed[w] => hold[w] # "released"
        BY <1>1, KnownRow
    <2>2. TypedNext /\ Only(w) /\ RowNext(w) /\ status'[w] \in {"COMPLETED", "REJECTED"}
        BY <1>1, <1>6, <2>1, SettleRow
    <2>3. HeldNext(w)
        BY <1>1, <1>4, <1>6, <2>2, KnownRow DEF HeldNext, HasRow
    <2>4. \A q \in WebWorkers \ {p} : job[q].w = w => JobNext(job[q])
        BY <1>1, <1>6, <2>2, Known DEF JobOK, JobNext
    <2>5. QED
        BY <1>2, <2>2, <2>3, <2>4, ProcessStep
<1>7. QED
    BY <1>1, <1>5, <1>6 DEF Settle, IsAt

(* An admin's decision keeps the invariant.                                *)
LEMMA AdminInv ==
    ASSUME IInv, NEW w \in Withdrawals, admin_complete_withdrawal(w) \/ admin_reject_withdrawal(w)
    PROVE  IInv'
<1>1. /\ status[w] = "PROCESSING" /\ UNCHANGED job
      /\ \A q \in WebWorkers : job[q].w # w
      /\ \/ Complete(w)
         \/ Reject(w) /\ payout[w] \in {"unsent", "refused", "lost", "rejected"}
      /\ UNCHANGED <<elsewhere, payout, hold, guessed, died, crashes>>
    BY Known DEF admin_complete_withdrawal, admin_reject_withdrawal, AdminMay, InHands, Payouts,
                 Landed
<1>2. ~InRequest(w) /\ ~InFail(w)
    BY <1>1 DEF InRequest, InFail
<1>3. ~died[w] => hold[w] \notin {"held", "released"}
    BY <1>1, <1>2, KnownRow DEF HasRow
<1>4. TypedNext /\ Only(w) /\ RowNext(w) /\ status'[w] \in {"COMPLETED", "REJECTED"}
    BY <1>1, <1>3, SettleRow
<1>5. HeldNext(w)
    BY <1>1, <1>3 DEF HeldNext
<1>6. QED
    BY <1>1, <1>4, <1>5, OutsideStep

-----------------------------------------------------------------------------
(* Quidax goes on with a withdrawal it was sent. *)
LEMMA QuidaxInv ==
    ASSUME IInv, NEW w \in Withdrawals, NEW t \in {"refused", "lost"} \cup Landed,
           QuidaxWithdraws(w, t)
    PROVE  IInv'
<1>1. /\ payout[w] \in {"sent", "processing"}
      /\ payout' = [payout EXCEPT ![w] = t]
      /\ UNCHANGED <<cryptoVars, status, historyVars, job, crashes>>
    BY DEF QuidaxWithdraws
<1>2. payout'[w] = t /\ Only(w)
    BY <1>1, Known DEF Only
<1>3. TypedNext
    BY <1>1, Known, SameLedger DEF TypedNext, Payouts
<1>4. RowNext(w)
    BY <1>1, KnownRow DEF RowNext
<1>5. HeldNext(w)
    <2>1. (InRequest(w) => InRequest(w)') /\ (InFail(w) => InFail(w)')
        BY <1>1 DEF InRequest, InFail
    <2>2. KeyTaken(w) /\ ~HasRow(w) => (KeyTaken(w) /\ ~HasRow(w))'
        BY <1>1 DEF KeyTaken, HasRow
    <2>3. QED
        BY <1>1, <2>1, <2>2, KnownRow DEF HeldNext
<1>6. \A q \in WebWorkers : job[q].w = w => JobNext(job[q])
    <2>1. SUFFICES ASSUME NEW q \in WebWorkers, job[q].w = w PROVE JobNext(job[q])
        OBVIOUS
    <2>2. job[q].at \in {"reserve", "create"} => status[w] = "none"
        BY <2>1, Known DEF JobOK
    <2>3. job[q].at \notin {"reserve", "create"}
        BY <1>1, <2>2, KnownRow
    <2>4. QED
        BY <1>1, <2>1, <2>3, Known DEF JobOK, JobNext
<1>7. QED
    BY <1>1, <1>2, <1>3, <1>4, <1>5, <1>6, OutsideStep

(* A process dies: a request with it, a report as if it had not come. *)
LEMMA CrashInv ==
    ASSUME IInv, NEW p \in WebWorkers, Crash(p), NEW w \in Withdrawals, w = job[p].w
    PROVE  IInv'
<1>1. /\ job' = [job EXCEPT ![p] = Idle]
      /\ died' = (IF job[p].at \in RequestSteps THEN [died EXCEPT ![w] = TRUE] ELSE died)
      /\ crashes < MaxCrashes /\ crashes' = crashes + 1
      /\ UNCHANGED <<cryptoVars, status, payout, hold, credits, guessed>>
    BY DEF Crash, Ends
<1>2. Idle \in Jobs /\ JobNext(Idle) /\ Idle.at \notin RequestSteps
    BY DEF Idle, Jobs, Steps, JobNext, RequestSteps
<1>3. \A q \in WebWorkers \ {p} : job[q].w = w => JobNext(job[q])
    BY <1>1, Known DEF JobOK, JobNext
<1>4. crashes' \in 0..MaxCrashes
    BY <1>1, Known, WithdrawalAssumption
<1>5. TypedNext /\ Only(w)
    BY <1>1, <1>4, Known, SameLedger DEF TypedNext, Only
<1>6. died[w] => died'[w]
    BY <1>1, Known
<1>7. RowNext(w)
    BY <1>1, <1>6, KnownRow DEF RowNext
<1>8. HeldNext(w)
    <2>1. CASE job[p].at \in RequestSteps
        BY <1>1, <2>1, Known DEF HeldNext
    <2>2. CASE job[p].at \notin RequestSteps
        <3>1. \A q \in WebWorkers : job[q].at \in RequestSteps => job'[q] = job[q]
            BY <1>1, <2>2, Known
        <3>2. (InRequest(w) => InRequest(w)') /\ (InFail(w) => InFail(w)')
            BY <3>1 DEF InRequest, InFail, RequestSteps
        <3>3. KeyTaken(w) /\ ~HasRow(w) => (KeyTaken(w) /\ ~HasRow(w))'
            BY <1>1 DEF KeyTaken, HasRow
        <3>4. QED
            BY <1>1, <2>2, <3>2, <3>3, KnownRow DEF HeldNext
    <2>3. QED
        BY <2>1, <2>2
<1>9. QED
    BY <1>1, <1>2, <1>3, <1>5, <1>7, <1>8, ProcessStep

(* Only the wallets change, or nothing does. *)
LEMMA LedgerOnly ==
    ASSUME IInv, CryptoLedgerTypeOK', UNCHANGED withdrawalVars
    PROVE  IInv'
<1>1. UNCHANGED <<status, payout, hold, credits, guessed, died, job, crashes>>
    BY DEF withdrawalVars
<1>2. TypeOK'
    BY <1>1 DEF IInv, TypeOK
<1>3. JobsOK' /\ OneRequest' /\ RowsOK'
    BY <1>1 DEF IInv, JobsOK, JobOK, OneRequest, RowsOK
<1>4. FailFollows' /\ CreditedIffRejected' /\ ReturnedOnceUnlessGuessed'
    BY <1>1 DEF IInv, FailFollows, CreditedIffRejected, ReturnedOnceUnlessGuessed
<1>5. HeldWhileRequested'
    BY <1>1 DEF IInv, HeldWhileRequested, KeyTaken, HasRow
<1>6. QED
    BY <1>2, <1>3, <1>4, <1>5 DEF IInv

(* Coins that arrive or move elsewhere keep the invariant.                 *)
LEMMA WalletsInv ==
    ASSUME IInv,
           \/ \E c \in Wallets : CoinsArrive(c)
           \/ ElsewhereStep /\ UNCHANGED withdrawalVars
    PROVE  IInv'
<1>1. UNCHANGED withdrawalVars
    BY DEF CoinsArrive
<1>2. \A x \in Nat : Minus(x, 1) \in Nat
    BY DEF Minus
<1>3. CASE \E c \in Wallets : CoinsArrive(c)
    BY <1>1, <1>3, Known, LedgerOnly DEF CoinsArrive, credit_crypto_available, CryptoLedgerTypeOK
<1>4. ASSUME NEW c \in Wallets, ElsewhereReserves(c)
      PROVE  IInv'
    <2>1. elsewhere' \in [Wallets -> 0..MaxElsewhere]
        BY <1>4, Known, CryptoLedgerAssumption DEF ElsewhereReserves
    <2>2. CryptoLedgerTypeOK'
        BY <1>4, <2>1, Known DEF ElsewhereReserves, reserve_crypto, CryptoLedgerTypeOK
    <2>3. QED
        BY <1>1, <2>2, LedgerOnly
<1>5. ASSUME NEW c \in Wallets, ElsewhereEnds(c)
      PROVE  IInv'
    <2>1. elsewhere' \in [Wallets -> 0..MaxElsewhere]
        BY <1>5, Known, CryptoLedgerAssumption DEF ElsewhereEnds
    <2>2. CryptoLedgerTypeOK'
        BY <1>2, <1>5, <2>1, Known
           DEF ElsewhereEnds, release_reserved_crypto, debit_reserved_crypto, CryptoLedgerTypeOK
    <2>3. QED
        BY <1>1, <2>2, LedgerOnly
<1>6. QED
    BY <1>3, <1>4, <1>5 DEF ElsewhereStep

-----------------------------------------------------------------------------
(* Nothing is requested yet. *)
LEMMA InitInv == Init => IInv
<1> SUFFICES ASSUME Init PROVE IInv
    OBVIOUS
<1>1. CryptoLedgerTypeOK
    BY CryptoLedgerAssumption DEF Init, CryptoLedgerInit, CryptoLedgerTypeOK
<1>2. Idle \in Jobs /\ 0 \in 0..MaxCrashes
    BY WithdrawalAssumption DEF Idle, Jobs, Steps
<1>3. TypeOK
    BY <1>1, <1>2 DEF Init, TypeOK, Statuses
<1>4. JobsOK /\ OneRequest /\ RowsOK
    BY DEF Init, Idle, JobsOK, JobOK, OneRequest, RowsOK, RequestSteps
<1>5. FailFollows /\ CreditedIffRejected /\ ReturnedOnceUnlessGuessed /\ HeldWhileRequested
    BY DEF Init, FailFollows, CreditedIffRejected, ReturnedOnceUnlessGuessed, HeldWhileRequested
<1>6. QED
    BY <1>3, <1>4, <1>5 DEF IInv

(* Every step keeps the invariant.                                         *)
LEMMA NextInv == IInv /\ [Next]_vars => IInv'
<1> SUFFICES ASSUME IInv, [Next]_vars PROVE IInv'
    OBVIOUS
<1>1. ASSUME NEW p \in WebWorkers, NEW w \in Withdrawals,
             request_withdrawal(p, w) \/ handle_withdraw_webhook(p, w)
      PROVE  IInv'
    BY <1>1, RequestInv, WebhookInv
<1>2. ASSUME NEW p \in WebWorkers,
             \/ Reserve(p) \/ _create_withdrawal_row(p) \/ _execute_quidax_withdrawal(p)
             \/ Accepted(p) \/ Raised(p) \/ Release(p) \/ Fail(p)
             \/ Settle(p) \/ Crash(p)
      PROVE  IInv'
    <2>1. job[p].at # "idle"
        BY <1>2
           DEF Reserve, _create_withdrawal_row, _execute_quidax_withdrawal, Accepted, Raised,
               Release, Fail, Settle, Crash, IsAt
    <2>2. PICK w \in Withdrawals : w = job[p].w
        BY <2>1, Working
    <2>3. QED
        BY <1>2, <2>2, ReserveInv, CreateInv, ExecuteInv, AcceptedInv, RaisedInv, ReleaseInv,
           FailInv, SettleInv, CrashInv
<1>3. ASSUME NEW w \in Withdrawals, admin_complete_withdrawal(w) \/ admin_reject_withdrawal(w)
      PROVE  IInv'
    BY <1>3, AdminInv
<1>4. ASSUME NEW w \in Withdrawals, NEW t \in {"refused", "lost"} \cup Landed,
             QuidaxWithdraws(w, t)
      PROVE  IInv'
    BY <1>4, QuidaxInv
<1>5. CASE \/ \E c \in Wallets : CoinsArrive(c)
           \/ ElsewhereStep /\ UNCHANGED withdrawalVars
    BY <1>5, WalletsInv
<1>6. CASE UNCHANGED vars
    BY <1>6, SameLedger, LedgerOnly DEF vars
<1>7. QED
    BY <1>1, <1>2, <1>3, <1>4, <1>5, <1>6 DEF Next

(* The inductive invariant holds in every reachable state. *)
THEOREM InductiveInvariant == Spec => []IInv
BY InitInv, NextInv, PTL DEF Spec

(* The state of every withdrawal, payout, wallet and process is typed. *)
THEOREM TypeCorrect == Spec => []TypeOK
<1>1. IInv => TypeOK
    BY DEF IInv
<1>2. QED
    BY <1>1, InductiveInvariant, PTL

(* A rejection, by webhook or admin, credits the coins once, and nothing   *)
(* else does.                                                              *)
THEOREM RejectionsCreditOnce == Spec => []CreditedIffRejected
<1>1. IInv => CreditedIffRejected
    BY DEF IInv
<1>2. QED
    BY <1>1, InductiveInvariant, PTL

(* Where the request did not give up on an unknown outcome, coins are      *)
(* returned only for what Quidax did not pay, and once.                    *)
THEOREM ReturnsAreRight == Spec => []ReturnedOnceUnlessGuessed
<1>1. IInv => ReturnedOnceUnlessGuessed
    BY DEF IInv
<1>2. QED
    BY <1>1, InductiveInvariant, PTL

(* Coins stay reserved only while their request runs, unless it was killed *)
(* or found its key taken.                                                 *)
THEOREM HeldOnlyWhileRequested == Spec => []HeldWhileRequested
<1>1. IInv => HeldWhileRequested
    BY DEF IInv
<1>2. QED
    BY <1>1, InductiveInvariant, PTL

-----------------------------------------------------------------------------
SettledKept == \A w \in Withdrawals : status[w] \in Settled => status'[w] = status[w]

(* No step unsettles a withdrawal.                                         *)
LEMMA SettledStep == IInv /\ [Next]_vars => SettledKept
<1> SUFFICES ASSUME IInv, [Next]_vars PROVE SettledKept
    OBVIOUS
<1>1. CASE UNCHANGED status
    BY <1>1 DEF SettledKept
<1>2. ASSUME NEW w, status[w] \notin Settled, NEW t, status' = [status EXCEPT ![w] = t]
      PROVE  SettledKept
    BY <1>2, Known DEF SettledKept
<1>3. ASSUME NEW p \in WebWorkers,
             _create_withdrawal_row(p) \/ Fail(p) \/ Settle(p)
      PROVE  SettledKept
    <2>1. CASE _create_withdrawal_row(p)
        <3>1. status[job[p].w] \notin Settled
            BY <2>1, Known DEF _create_withdrawal_row, IsAt, JobOK, Settled
        <3>2. QED
            BY <1>1, <1>2, <2>1, <3>1 DEF _create_withdrawal_row
    <2>2. CASE Fail(p)
        <3>1. status' = [status EXCEPT ![job[p].w] =
                            IF @ = "PROCESSING" THEN "FAILED" ELSE @]
            BY <2>2 DEF Fail
        <3>2. QED
            BY <3>1, Known DEF SettledKept, Settled
    <2>3. CASE Settle(p)
        <3>1. \/ UNCHANGED status
              \/ status[job[p].w] = "PROCESSING" /\
                 \E t : status' = [status EXCEPT ![job[p].w] = t]
            BY <2>3 DEF Settle, Complete, Reject
        <3>2. QED
            BY <1>1, <1>2, <3>1 DEF Settled
    <2>4. QED
        BY <1>3, <2>1, <2>2, <2>3
<1>4. ASSUME NEW w \in Withdrawals, admin_complete_withdrawal(w) \/ admin_reject_withdrawal(w)
      PROVE  SettledKept
    BY <1>2, <1>4
       DEF admin_complete_withdrawal, admin_reject_withdrawal, AdminMay, Complete, Reject, Settled
<1>5. CASE ~UNCHANGED status
    <2>1. \/ \E p \in WebWorkers : _create_withdrawal_row(p) \/ Fail(p) \/ Settle(p)
          \/ \E w \in Withdrawals : admin_complete_withdrawal(w) \/ admin_reject_withdrawal(w)
        BY <1>5
           DEF Next, vars, withdrawalVars, CoinsArrive, request_withdrawal,
               handle_withdraw_webhook, Reserve, _execute_quidax_withdrawal, Accepted, Raised,
               Release, Crash, QuidaxWithdraws
    <2>2. QED
        BY <1>3, <1>4, <2>1
<1>6. QED
    BY <1>1, <1>5

(* A completed, failed or rejected withdrawal stays so, whatever webhooks, *)
(* admins and the request's own process do later.                          *)
THEOREM SettledForGood == Spec => SettledStays
<1>1. IInv /\ [Next]_vars => [SettledKept]_vars
    BY SettledStep
<1>2. QED
    BY <1>1, InductiveInvariant, PTL DEF Spec, SettledStays, SettledKept

-----------------------------------------------------------------------------
UniqueRows ==
    \A v, w \in Withdrawals : v # w /\ Key[v] = Key[w] => ~HasRow(v) \/ ~HasRow(w)

NoNewRow == \A w \in Withdrawals : status[w] = "none" => status'[w] = "none"

(* A row is made only by _create_withdrawal_row, and only with a free key. *)
LEMMA RowsAreMade ==
    ASSUME IInv, [Next]_vars
    PROVE  \/ NoNewRow
           \/ \E w \in Withdrawals :
                 ~KeyTaken(w) /\ status' = [status EXCEPT ![w] = "PROCESSING"]
<1>1. CASE UNCHANGED status
    BY <1>1 DEF NoNewRow
<1>2. ASSUME NEW w, status[w] # "none", NEW t, status' = [status EXCEPT ![w] = t]
      PROVE  NoNewRow
    BY <1>2, Known DEF NoNewRow
<1>3. ASSUME NEW p \in WebWorkers, _create_withdrawal_row(p), ~UNCHANGED status
      PROVE  \E w \in Withdrawals :
                 ~KeyTaken(w) /\ status' = [status EXCEPT ![w] = "PROCESSING"]
    <2>1. job[p].w \in Withdrawals
        BY <1>3, Known DEF _create_withdrawal_row, IsAt, JobOK
    <2>2. QED
        BY <1>3, <2>1 DEF _create_withdrawal_row
<1>4. ASSUME NEW p \in WebWorkers, Fail(p)
      PROVE  NoNewRow
    <2>1. status[job[p].w] # "none"
        BY <1>4, Known DEF Fail, IsAt, JobOK
    <2>2. QED
        BY <1>2, <1>4, <2>1 DEF Fail
<1>5. ASSUME NEW p \in WebWorkers, Settle(p)
      PROVE  NoNewRow
    <2>1. \/ UNCHANGED status
          \/ /\ status[job[p].w] = "PROCESSING"
             /\ \E t : status' = [status EXCEPT ![job[p].w] = t]
        BY <1>5 DEF Settle, Complete, Reject
    <2>2. QED
        BY <1>2, <2>1 DEF NoNewRow
<1>6. ASSUME NEW w \in Withdrawals, admin_complete_withdrawal(w) \/ admin_reject_withdrawal(w)
      PROVE  NoNewRow
    BY <1>2, <1>6
       DEF admin_complete_withdrawal, admin_reject_withdrawal, AdminMay, Complete, Reject
<1>7. CASE ~UNCHANGED status
    <2>1. \/ \E p \in WebWorkers : _create_withdrawal_row(p) \/ Fail(p) \/ Settle(p)
          \/ \E w \in Withdrawals : admin_complete_withdrawal(w) \/ admin_reject_withdrawal(w)
        BY <1>7
           DEF Next, vars, withdrawalVars, CoinsArrive, request_withdrawal,
               handle_withdraw_webhook, Reserve, _execute_quidax_withdrawal, Accepted, Raised,
               Release, Crash, QuidaxWithdraws
    <2>2. QED
        BY <1>3, <1>4, <1>5, <1>6, <1>7, <2>1
<1>8. QED
    BY <1>1, <1>7 DEF NoNewRow

(* Every step keeps the rows unique.                                       *)
LEMMA UniqueStep == IInv /\ UniqueRows /\ [Next]_vars => UniqueRows'
<1> SUFFICES ASSUME IInv, UniqueRows, [Next]_vars PROVE UniqueRows'
    OBVIOUS
<1>1. CASE NoNewRow
    BY <1>1 DEF NoNewRow, UniqueRows, HasRow
<1>2. ASSUME NEW w \in Withdrawals, ~KeyTaken(w), status' = [status EXCEPT ![w] = "PROCESSING"]
      PROVE  UniqueRows'
    <2>1. \A v \in Withdrawals \ {w} : status'[v] = status[v]
        BY <1>2, Known
    <2>2. \A v \in Withdrawals : Key[v] = Key[w] => ~HasRow(v)
        BY <1>2 DEF KeyTaken
    <2>3. QED
        BY <2>1, <2>2 DEF UniqueRows, HasRow
<1>3. QED
    BY <1>1, <1>2, RowsAreMade

(* However many requests come with one key, at most one of them is ever    *)
(* sent to Quidax.                                                         *)
THEOREM KeysPayOnce == Spec => []OnePayoutPerKey
<1>1. Init => UniqueRows
    BY DEF Init, UniqueRows, HasRow
<1>2. IInv /\ UniqueRows => OnePayoutPerKey
    BY KnownRow DEF UniqueRows, OnePayoutPerKey, HasRow
<1>3. QED
    BY <1>1, <1>2, UniqueStep, InductiveInvariant, PTL DEF Spec

-----------------------------------------------------------------------------
(* What is reserved.  The sum needs the requests that ever reserved to be  *)
(* finitely many; nothing bounds Withdrawals.                              *)
Held(c) == {w \in Withdrawals : WalletOf[w] = c /\ hold[w] = "held"}

HoldsAreFinite == IsFiniteSet({w \in Withdrawals : hold[w] # "none"})

InHeld == \A c \in Wallets : reserved[c] = elsewhere[c] + Total(Amount, Held(c))

HeldKept == HoldsAreFinite /\ InHeld

(* The invariant in terms of Held. *)
LEMMA ReservedInHeld == InHeld <=> ReservedIsHeld
BY DEF InHeld, ReservedIsHeld, Total, Held

(* What is held of a wallet is a natural number. *)
LEMMA HeldFacts ==
    ASSUME IInv, HoldsAreFinite, NEW c \in Wallets
    PROVE  /\ IsFiniteSet(Held(c))
           /\ \A w \in Held(c) : Amount[w] \in Int
           /\ Total(Amount, Held(c)) \in Nat
<1>1. Held(c) \subseteq {w \in Withdrawals : hold[w] # "none"}
    BY DEF Held
<1>2. IsFiniteSet(Held(c))
    BY <1>1, FS_Subset DEF HoldsAreFinite
<1>3. \A w \in Held(c) : Amount[w] \in Nat
    BY WithdrawalAssumption DEF Held
<1>4. QED
    BY <1>2, <1>3, TotalNat

(* A step that holds and reserves nothing. *)
LEMMA HeldSame ==
    ASSUME HeldKept, UNCHANGED <<reserved, elsewhere, hold>>
    PROVE  HeldKept'
<1>1. HoldsAreFinite'
    BY DEF HeldKept, HoldsAreFinite
<1>2. \A c \in Wallets : Held(c)' = Held(c)
    BY DEF Held
<1>3. QED
    BY <1>1, <1>2 DEF HeldKept, InHeld

(* A request that reserves. *)
LEMMA HeldMore ==
    ASSUME IInv, HeldKept, NEW w \in Withdrawals, hold[w] = "none",
           hold' = [hold EXCEPT ![w] = "held"],
           reserved' = [reserved EXCEPT ![WalletOf[w]] = @ + Amount[w]],
           UNCHANGED elsewhere
    PROVE  HeldKept'
<1> USE WithdrawalAssumption, Known DEF HeldKept, CryptoLedgerTypeOK
<1>1. HoldsAreFinite'
    <2> DEFINE ever == {v \in Withdrawals : hold[v] # "none"}
    <2>1. ever' = ever \cup {w} /\ IsFiniteSet(ever)
        BY DEF HoldsAreFinite
    <2> HIDE DEF ever
    <2>2. IsFiniteSet(ever')
        BY <2>1, FS_AddElement
    <2>3. QED
        BY <2>2 DEF HoldsAreFinite, ever
<1>2. ASSUME NEW c \in Wallets
      PROVE  reserved'[c] = elsewhere'[c] + Total(Amount, Held(c))'
    <2> DEFINE sum == Total(Amount, Held(c))
    <2>1. sum \in Nat /\ reserved[c] = elsewhere[c] + sum /\ elsewhere[c] \in Int
        BY HeldFacts, CryptoLedgerAssumption DEF InHeld
    <2>2. CASE c = WalletOf[w]
        <3>1. w \notin Held(c) /\ Held(c)' = Held(c) \cup {w} /\ Amount[w] \in Int
            BY <2>2 DEF Held
        <3>2. sum' = sum + Amount[w]
            BY <3>1, HeldFacts, TotalAdd
        <3> HIDE DEF sum
        <3>3. reserved'[c] = reserved[c] + Amount[w] /\ elsewhere'[c] = elsewhere[c]
            BY <2>2
        <3>4. reserved'[c] = elsewhere'[c] + sum'
            BY <2>1, <3>1, <3>2, <3>3
        <3>5. QED
            BY <3>4 DEF sum
    <2>3. CASE c # WalletOf[w]
        <3>1. Held(c)' = Held(c)
            BY <2>3 DEF Held
        <3>2. QED
            BY <2>1, <2>3, <3>1
    <2>4. QED
        BY <2>2, <2>3
<1>3. QED
    BY <1>1, <1>2 DEF InHeld

(* A request that spends or gives back what it holds: as much is reserved, *)
(* so the clamp at zero does nothing.                                      *)
LEMMA HeldLess ==
    ASSUME IInv, HeldKept, NEW w \in Withdrawals, hold[w] = "held",
           NEW s \in {"released", "spent"}, hold' = [hold EXCEPT ![w] = s],
           reserved' = [reserved EXCEPT ![WalletOf[w]] = Minus(@, Amount[w])],
           UNCHANGED elsewhere
    PROVE  HeldKept'
<1> USE WithdrawalAssumption, Known DEF HeldKept, CryptoLedgerTypeOK
<1>1. HoldsAreFinite'
    <2>1. {v \in Withdrawals : hold[v] # "none"}' = {v \in Withdrawals : hold[v] # "none"}
        OBVIOUS
    <2>2. QED
        BY <2>1 DEF HoldsAreFinite
<1>2. ASSUME NEW c \in Wallets
      PROVE  reserved'[c] = elsewhere'[c] + Total(Amount, Held(c))'
    <2> DEFINE sum == Total(Amount, Held(c))
    <2>1. sum \in Nat /\ reserved[c] = elsewhere[c] + sum /\ elsewhere[c] \in Nat
        BY HeldFacts, CryptoLedgerAssumption DEF InHeld
    <2>2. CASE c = WalletOf[w]
        <3> DEFINE rest == Total(Amount, Held(c) \ {w})
        <3>1. w \in Held(c) /\ Held(c)' = Held(c) \ {w} /\ Amount[w] \in Nat
            BY <2>2 DEF Held
        <3>2. sum = Amount[w] + rest
            <4>1. IsFiniteSet(Held(c)) /\ \A v \in Held(c) : Amount[v] \in Int
                BY HeldFacts
            <4>2. QED
                BY <3>1, <4>1, TotalTake
        <3>3. rest \in Nat
            BY HeldFacts, FS_Subset, TotalNat DEF Held
        <3>4. sum' = rest
            BY <3>1
        <3> HIDE DEF sum, rest
        <3>5. reserved'[c] = Minus(reserved[c], Amount[w]) /\ elsewhere'[c] = elsewhere[c]
            BY <2>2
        <3>6. reserved'[c] = elsewhere'[c] + sum'
            BY <2>1, <3>1, <3>2, <3>3, <3>4, <3>5 DEF Minus
        <3>7. QED
            BY <3>6 DEF sum
    <2>3. CASE c # WalletOf[w]
        <3>1. Held(c)' = Held(c)
            BY <2>3 DEF Held
        <3>2. QED
            BY <2>1, <2>3, <3>1
    <2>4. QED
        BY <2>2, <2>3
<1>3. QED
    BY <1>1, <1>2 DEF InHeld

(* Other operations reserve and let go of their own part. *)
LEMMA HeldElsewhere ==
    ASSUME IInv, HeldKept, ElsewhereStep, UNCHANGED hold
    PROVE  HeldKept'
<1> USE Known, CryptoLedgerAssumption DEF HeldKept, CryptoLedgerTypeOK
<1>1. HoldsAreFinite'
    BY DEF HoldsAreFinite
<1>2. PICK d \in Wallets : ElsewhereReserves(d) \/ ElsewhereEnds(d)
    BY DEF ElsewhereStep
<1>3. ASSUME NEW c \in Wallets
      PROVE  reserved'[c] = elsewhere'[c] + Total(Amount, Held(c))'
    <2> DEFINE sum == Total(Amount, Held(c))
    <2>1. sum \in Nat /\ reserved[c] = elsewhere[c] + sum /\ elsewhere[c] \in Nat
        BY HeldFacts DEF InHeld
    <2>2. sum' = sum
        BY DEF Held
    <2> HIDE DEF sum
    <2>3. reserved'[c] = elsewhere'[c] + sum
        BY <1>2, <2>1 DEF ElsewhereReserves, ElsewhereEnds, reserve_crypto,
                          release_reserved_crypto, debit_reserved_crypto, Minus
    <2>4. QED
        BY <2>2, <2>3 DEF sum
<1>4. QED
    BY <1>1, <1>3 DEF InHeld

(* The reserved balance is what withdrawals and other operations hold, in  *)
(* every order of requests, refusals and crashes: the clamp at zero in     *)
(* the ledger never hides a difference.                                    *)
THEOREM ReservedIsWhatIsHeld == Spec => []ReservedIsHeld
<1>1. Init => HeldKept
    <2> SUFFICES ASSUME Init PROVE HeldKept
        OBVIOUS
    <2> USE DEF Init, CryptoLedgerInit
    <2>1. {w \in Withdrawals : hold[w] # "none"} = {} /\ \A c \in Wallets : Held(c) = {}
        BY DEF Held
    <2>2. QED
        <3>1. HoldsAreFinite
            BY <2>1, FS_EmptySet DEF HoldsAreFinite
        <3>2. \A c \in Wallets : Total(Amount, Held(c)) = 0
            BY <2>1, TotalEmpty
        <3>3. QED
            BY <3>1, <3>2 DEF HeldKept, InHeld
<1>2. ASSUME IInv, HeldKept, [Next]_vars PROVE HeldKept'
    <2>1. CASE UNCHANGED <<reserved, elsewhere, hold>>
        BY <1>2, <2>1, HeldSame
    <2>2. ASSUME NEW p \in WebWorkers, Reserve(p) \/ Accepted(p) \/ Release(p)
          PROVE  HeldKept'
        <3>1. job[p].w \in Withdrawals
            BY <1>2, <2>2, Known DEF Reserve, Accepted, Release, IsAt, JobOK
        <3>2. CASE Reserve(p)
            <4>1. hold[job[p].w] = "none" /\ UNCHANGED elsewhere
                BY <1>2, <3>2, Known DEF Reserve, IsAt, JobOK
            <4>2. CASE UNCHANGED <<reserved, hold>>
                BY <2>1, <4>1, <4>2
            <4>3. CASE ~UNCHANGED <<reserved, hold>>
                <5>1. /\ reserved' = [reserved EXCEPT ![WalletOf[job[p].w]] = @ + Amount[job[p].w]]
                      /\ hold' = [hold EXCEPT ![job[p].w] = "held"]
                    BY <3>2, <4>3 DEF Reserve, reserve_crypto
                <5>2. QED
                    BY <1>2, <3>1, <4>1, <5>1, HeldMore
            <4>4. QED
                BY <4>2, <4>3
        <3>3. CASE Accepted(p)
            <4>1. /\ hold[job[p].w] = "held" /\ UNCHANGED elsewhere
                  /\ hold' = [hold EXCEPT ![job[p].w] = "spent"]
                  /\ reserved' = [reserved EXCEPT ![WalletOf[job[p].w]] = Minus(@, Amount[job[p].w])]
                BY <1>2, <3>3, Known DEF Accepted, IsAt, JobOK, debit_reserved_crypto
            <4>2. QED
                BY <1>2, <3>1, <4>1, HeldLess
        <3>4. CASE Release(p)
            <4>1. /\ hold[job[p].w] = "held" /\ UNCHANGED elsewhere
                  /\ hold' = [hold EXCEPT ![job[p].w] = "released"]
                  /\ reserved' = [reserved EXCEPT ![WalletOf[job[p].w]] = Minus(@, Amount[job[p].w])]
                BY <1>2, <3>4, Known DEF Release, IsAt, JobOK, release_reserved_crypto
            <4>2. QED
                BY <1>2, <3>1, <4>1, HeldLess
        <3>5. QED
            BY <2>2, <3>2, <3>3, <3>4
    <2>3. CASE ElsewhereStep /\ UNCHANGED withdrawalVars
        BY <1>2, <2>3, HeldElsewhere DEF withdrawalVars
    <2>4. CASE ~UNCHANGED <<reserved, elsewhere, hold>>
        <3>1. \/ \E p \in WebWorkers : Reserve(p) \/ Accepted(p) \/ Release(p)
              \/ ElsewhereStep /\ UNCHANGED withdrawalVars
            BY <1>2, <2>4
               DEF Next, vars, withdrawalVars, CoinsArrive, credit_crypto_available,
                   request_withdrawal, handle_withdraw_webhook, _create_withdrawal_row,
                   _execute_quidax_withdrawal, Raised, Fail, Settle, Complete, Reject,
                   admin_complete_withdrawal, admin_reject_withdrawal, QuidaxWithdraws, Crash
        <3>2. QED
            BY <2>2, <2>3, <3>1
    <2>5. QED
        BY <2>1, <2>4
<1>3. HeldKept => ReservedIsHeld
    BY ReservedInHeld DEF HeldKept
<1>4. QED
    BY <1>1, <1>2, <1>3, InductiveInvariant, PTL DEF Spec

-----------------------------------------------------------------------------
(* The daily limit.  Requests that passed the check and have no row yet    *)
(* are asked for; with the rows that count, they pass the limit by at most *)
(* one greatest amount for each other worker.                              *)
Counted == {w \in Withdrawals : status[w] \in {"PROCESSING", "COMPLETED"}}

AskedFor == {w \in Withdrawals :
               \E p \in WebWorkers : job[p].w = w /\ job[p].at \in {"reserve", "create"}}

Greatest == Max({Notional[w] : w \in Withdrawals})
Others == Cardinality(WebWorkers) - 1

WithinLimit == Total(Notional, Counted \cup AskedFor) <= DailyLimit + Others * Greatest

(* Every amount is a natural number and at most the greatest one. *)
LEMMA GreatestFacts ==
    /\ Greatest \in Nat
    /\ \A w \in Withdrawals : Notional[w] \in Nat /\ Notional[w] <= Greatest
<1> DEFINE amounts == {Notional[w] : w \in Withdrawals}
<1>1. Notional \in Surjection(Withdrawals, amounts)
    BY WithdrawalAssumption DEF Surjection
<1>2. IsFiniteSet(amounts)
    BY <1>1, FS_Surjection, DayAssumption
<1>3. amounts # {} /\ \A n \in amounts : n \in Nat
    BY WithdrawalAssumption, DayAssumption
<1> HIDE DEF amounts
<1>4. Max(amounts) \in amounts /\ \A n \in amounts : n <= Max(amounts)
    BY <1>2, <1>3, MaxIs
<1> USE DEF amounts
<1>5. QED
    BY <1>3, <1>4, WithdrawalAssumption DEF Greatest

(* How many other workers there are.                                       *)
LEMMA OthersNat == Others \in Nat
<1>1. Cardinality(WebWorkers) \in Nat /\ Cardinality(WebWorkers) # 0
    BY DayAssumption, FS_CardinalityType, FS_EmptySet
<1>2. QED
    BY <1>1 DEF Others

(* Any set of requests is finite and has a sum. *)
LEMMA SumOf ==
    ASSUME NEW S \in SUBSET Withdrawals
    PROVE  /\ IsFiniteSet(S) /\ Total(Notional, S) \in Nat
           /\ \A w \in S : Notional[w] \in Nat /\ Notional[w] <= Greatest
<1>1. IsFiniteSet(S)
    BY DayAssumption, FS_Subset
<1>2. \A w \in S : Notional[w] \in Nat /\ Notional[w] <= Greatest
    BY GreatestFacts
<1>3. QED
    BY <1>1, <1>2, TotalNat

(* A step that asks for nothing new keeps the sum within its bound. *)
LEMMA LimitShrinks ==
    ASSUME WithinLimit, Counted' \cup AskedFor' \subseteq Counted \cup AskedFor
    PROVE  WithinLimit'
<1> DEFINE U == Counted \cup AskedFor
<1>1. U \in SUBSET Withdrawals /\ U' \in SUBSET U
    BY DEF Counted, AskedFor
<1>2. Total(Notional, U') <= Total(Notional, U)
    <2> HIDE DEF U
    <2>1. IsFiniteSet(U) /\ \A w \in U : Notional[w] \in Nat
        BY <1>1, SumOf
    <2>2. QED
        BY <1>1, <2>1, TotalMore
<1>3. Total(Notional, U) \in Nat /\ Total(Notional, U') \in Nat
    <2> HIDE DEF U
    <2>1. U' \in SUBSET Withdrawals
        BY <1>1
    <2>2. QED
        BY <1>1, <2>1, SumOf
<1>4. Others * Greatest \in Nat /\ DailyLimit \in Nat
    BY GreatestFacts, OthersNat, WithdrawalAssumption
<1>5. QED
    BY <1>2, <1>3, <1>4 DEF WithinLimit

(* While one process is idle, each of the others asks for at most one. *)
LEMMA FewAskedFor ==
    ASSUME IInv, NEW p \in WebWorkers, job[p] = Idle
    PROVE  Cardinality(AskedFor) \in Nat /\ Cardinality(AskedFor) <= Others
<1> DEFINE Q == WebWorkers \ {p}
           f == [q \in Q |-> job[q].w]
           R == {job[q].w : q \in Q}
<1>1. IsFiniteSet(Q) /\ Cardinality(Q) = Others
    BY DayAssumption, FS_RemoveElement DEF Others
<1>2. f \in Surjection(Q, R)
    BY DEF Surjection
<1>3. AskedFor \subseteq R
    BY DEF AskedFor, Idle
<1> HIDE DEF Q, f, R
<1>4. IsFiniteSet(R) /\ Cardinality(R) <= Others
    BY <1>1, <1>2, FS_Surjection
<1>5. IsFiniteSet(AskedFor) /\ Cardinality(AskedFor) <= Cardinality(R)
    BY <1>3, <1>4, FS_Subset
<1>6. Cardinality(AskedFor) \in Nat /\ Cardinality(R) \in Nat
    BY <1>4, <1>5, FS_CardinalityType
<1>7. QED
    BY <1>4, <1>5, <1>6, OthersNat

(* A request that passes the check. *)
LEMMA LimitAsked ==
    ASSUME IInv, WithinLimit, NEW p \in WebWorkers, NEW w \in Withdrawals,
           request_withdrawal(p, w)
    PROVE  WithinLimit'
<1> DEFINE D == Total(Notional, Counted)
           D1 == Total(Notional, Counted \cup {w})
           k == Cardinality(AskedFor)
<1>1. /\ job[p] = Idle /\ ~HasRow(w)
      /\ D + Notional[w] <= DailyLimit
      /\ Counted' = Counted
      /\ job' = [job EXCEPT ![p] = [at |-> "reserve", w |-> w]]
    BY DEF request_withdrawal, Starts, _daily_withdrawn_ngn, Total, Counted
<1>2. Counted \in SUBSET Withdrawals /\ AskedFor \in SUBSET Withdrawals /\ w \notin Counted
    BY <1>1 DEF Counted, AskedFor, HasRow
<1>3. AskedFor' = AskedFor \cup {w}
    BY <1>1, Known DEF AskedFor, Idle
<1>4. D1 = D + Notional[w]
    BY <1>2, SumOf, GreatestFacts, TotalAdd
<1> DEFINE S == Counted \cup {w}
<1>5. S \in SUBSET Withdrawals
    BY <1>2
<1>6. Total(Notional, S \cup AskedFor) <= D1 + k * Greatest
    <2> HIDE DEF k
    <2>1. \A x \in S \cup AskedFor : Notional[x] \in Nat
        BY <1>2, <1>5, SumOf
    <2>2. IsFiniteSet(S) /\ IsFiniteSet(AskedFor) /\ \A x \in AskedFor : Notional[x] <= Greatest
        BY <1>2, <1>5, SumOf
    <2> HIDE DEF S
    <2>3. Total(Notional, S \cup AskedFor) <= Total(Notional, S) + Cardinality(AskedFor) * Greatest
        BY <2>1, <2>2, GreatestFacts, TotalUpTo
    <2>4. QED
        BY <2>3 DEF S, k
<1>7. k \in Nat /\ k <= Others
    BY <1>1, FewAskedFor
<1> HIDE DEF k
<1>8. k * Greatest <= Others * Greatest /\ k * Greatest \in Nat /\ Others * Greatest \in Nat
    BY <1>7, GreatestFacts, OthersNat
<1>9. (Counted \cup AskedFor)' = S \cup AskedFor
    BY <1>1, <1>3
<1>10. /\ Total(Notional, S \cup AskedFor) \in Nat /\ D \in Nat /\ D1 \in Nat
       /\ Notional[w] \in Nat /\ DailyLimit \in Nat
    BY <1>2, <1>5, SumOf, GreatestFacts, WithdrawalAssumption
<1> DEFINE N == Total(Notional, S \cup AskedFor)
<1>11. N <= D1 + k * Greatest /\ N \in Nat
    BY <1>6, <1>10
<1> HIDE DEF N, D, D1
<1>12. N <= DailyLimit + Others * Greatest
    BY <1>1, <1>4, <1>8, <1>10, <1>11
<1>13. QED
    BY <1>9, <1>12 DEF WithinLimit, N, Others, Greatest

(* Any other step: a row that counts from now on was asked for, and nobody *)
(* asks for more.                                                          *)
LEMMA LimitOther ==
    ASSUME IInv, [Next]_vars,
           ~\E p \in WebWorkers, w \in Withdrawals : request_withdrawal(p, w)
    PROVE  Counted' \cup AskedFor' \subseteq Counted \cup AskedFor
<1> USE Known
<1>1. ASSUME UNCHANGED job PROVE AskedFor' = AskedFor
    BY <1>1 DEF AskedFor
<1>2. ASSUME UNCHANGED status PROVE Counted' = Counted
    BY <1>2 DEF Counted
<1>3. ASSUME NEW p \in WebWorkers, NEW j, j.at \notin {"reserve", "create"},
             job' = [job EXCEPT ![p] = j]
      PROVE  AskedFor' \subseteq AskedFor
    BY <1>3 DEF AskedFor
<1>4. ASSUME NEW p \in WebWorkers, NEW step, step \notin {"reserve", "create"}, Goes(p, step)
      PROVE  AskedFor' \subseteq AskedFor
    <2>1. \A q \in WebWorkers : job[q] \in Jobs
        OBVIOUS
    <2>2. \A q \in WebWorkers :
             job'[q].w = job[q].w /\ job'[q].at = IF q = p THEN step ELSE job[q].at
        BY <1>4, <2>1 DEF Goes, Jobs
    <2>3. QED
        BY <1>4, <2>2 DEF AskedFor
<1>5. ASSUME NEW p \in WebWorkers, Ends(p)
      PROVE  AskedFor' \subseteq AskedFor
    <2>1. Idle.at \notin {"reserve", "create"}
        BY DEF Idle
    <2>2. QED
        BY <1>3, <1>5, <2>1 DEF Ends
<1>6. ASSUME NEW w \in Withdrawals, status[w] = "PROCESSING", NEW t,
             status' = [status EXCEPT ![w] = t]
      PROVE  Counted' \subseteq Counted
    BY <1>6 DEF Counted
<1>7. CASE UNCHANGED vars
    BY <1>1, <1>2, <1>7 DEF vars, withdrawalVars
<1>8. ASSUME NEW p \in WebWorkers, Reserve(p)
      PROVE  Counted' = Counted /\ AskedFor' \subseteq AskedFor
    <2>1. CASE Ends(p)
        BY <1>2, <1>5, <1>8, <2>1 DEF Reserve
    <2>2. CASE Goes(p, "create")
        <3>1. job[p].at = "reserve" /\ \A q \in WebWorkers : job[q] \in Jobs
            BY <1>8 DEF Reserve, IsAt
        <3>2. \A q \in WebWorkers :
                 /\ job'[q].w = job[q].w
                 /\ job'[q].at \in {"reserve", "create"} => job[q].at \in {"reserve", "create"}
            BY <2>2, <3>1 DEF Goes, Jobs
        <3>3. QED
            BY <1>2, <1>8, <3>2 DEF Reserve, AskedFor
    <2>3. QED
        BY <1>8, <2>1, <2>2 DEF Reserve
<1>9. ASSUME NEW p \in WebWorkers, _create_withdrawal_row(p)
      PROVE  Counted' \subseteq Counted \cup AskedFor /\ AskedFor' \subseteq AskedFor
    <2>1. job[p].w \in AskedFor
        BY <1>9 DEF _create_withdrawal_row, IsAt, AskedFor, JobOK
    <2>2. AskedFor' \subseteq AskedFor
        BY <1>4, <1>5, <1>9 DEF _create_withdrawal_row
    <2>3. Counted' \subseteq Counted \cup {job[p].w}
        BY <1>9 DEF _create_withdrawal_row, Counted
    <2>4. QED
        BY <2>1, <2>2, <2>3
<1>10. ASSUME NEW p \in WebWorkers,
              _execute_quidax_withdrawal(p) \/ Accepted(p) \/ Raised(p) \/ Release(p) \/ Crash(p)
       PROVE  Counted' = Counted /\ AskedFor' \subseteq AskedFor
    BY <1>2, <1>4, <1>5, <1>10 DEF _execute_quidax_withdrawal, Accepted, Raised, Release, Crash
<1>11. ASSUME NEW p \in WebWorkers, Fail(p)
       PROVE  Counted' \subseteq Counted /\ AskedFor' \subseteq AskedFor
    <2>1. Counted' \subseteq Counted
        BY <1>11 DEF Fail, Counted
    <2>2. QED
        BY <1>5, <1>11, <2>1 DEF Fail
<1>12. ASSUME NEW p \in WebWorkers, Settle(p)
       PROVE  Counted' \subseteq Counted /\ AskedFor' \subseteq AskedFor
    <2>1. job[p].w \in Withdrawals
        BY <1>12 DEF Settle, IsAt, JobOK
    <2>2. \/ UNCHANGED status
          \/ status[job[p].w] = "PROCESSING" /\ \E t : status' = [status EXCEPT ![job[p].w] = t]
        BY <1>12 DEF Settle, Complete, Reject
    <2>3. QED
        BY <1>2, <1>5, <1>6, <1>12, <2>1, <2>2 DEF Settle
<1>13. ASSUME NEW p \in WebWorkers, NEW w \in Withdrawals, handle_withdraw_webhook(p, w)
       PROVE  Counted' = Counted /\ AskedFor' \subseteq AskedFor
    <2>1. PICK step \in {"paid", "rejected"} : job' = [job EXCEPT ![p] = [at |-> step, w |-> w]]
        BY <1>13 DEF handle_withdraw_webhook, Starts
    <2>2. QED
        BY <1>2, <1>3, <1>13, <2>1 DEF handle_withdraw_webhook
<1>14. ASSUME NEW w \in Withdrawals, admin_complete_withdrawal(w) \/ admin_reject_withdrawal(w)
       PROVE  Counted' \subseteq Counted /\ AskedFor' = AskedFor
    BY <1>1, <1>6, <1>14
       DEF admin_complete_withdrawal, admin_reject_withdrawal, AdminMay, Complete, Reject
<1>15. CASE \/ \E c \in Wallets : CoinsArrive(c)
            \/ ElsewhereStep /\ UNCHANGED withdrawalVars
            \/ \E w \in Withdrawals, t \in {"refused", "lost"} \cup Landed : QuidaxWithdraws(w, t)
    BY <1>1, <1>2, <1>15 DEF CoinsArrive, withdrawalVars, QuidaxWithdraws
<1>16. QED
    BY <1>7, <1>8, <1>9, <1>10, <1>11, <1>12, <1>13, <1>14, <1>15 DEF Next

(* Requests that look at the day's total at the same time can pass the     *)
(* limit, but only by one amount for each other gunicorn worker.           *)
THEOREM LimitIsNearlyKept == Spec => []DailyLimitHeld
<1>1. Init => WithinLimit
    <2> SUFFICES ASSUME Init PROVE WithinLimit
        OBVIOUS
    <2>1. Counted \cup AskedFor = {}
        BY DEF Init, Counted, AskedFor, Idle
    <2>2. Total(Notional, Counted \cup AskedFor) = 0
        BY <2>1, TotalEmpty
    <2>3. Others * Greatest \in Nat /\ DailyLimit \in Nat
        BY GreatestFacts, OthersNat, WithdrawalAssumption
    <2>4. QED
        BY <2>2, <2>3 DEF WithinLimit
<1>2. ASSUME IInv, WithinLimit, [Next]_vars PROVE WithinLimit'
    BY <1>2, LimitAsked, LimitOther, LimitShrinks
<1>3. WithinLimit => DailyLimitHeld
    <2> SUFFICES ASSUME WithinLimit PROVE DailyLimitHeld
        OBVIOUS
    <2> DEFINE U == Counted \cup AskedFor
    <2>1. U \in SUBSET Withdrawals /\ Counted \in SUBSET U
        BY DEF Counted, AskedFor
    <2>2. Total(Notional, Counted) <= Total(Notional, U)
        <3> HIDE DEF U
        <3>1. IsFiniteSet(U) /\ \A w \in U : Notional[w] \in Nat
            BY <2>1, SumOf
        <3>2. QED
            BY <2>1, <3>1, TotalMore
    <2>3. Total(Notional, Counted) \in Nat /\ Total(Notional, U) \in Nat
        <3> HIDE DEF U
        <3>1. Counted \in SUBSET Withdrawals
            BY <2>1
        <3>2. QED
            BY <2>1, <3>1, SumOf
    <2>4. Others * Greatest \in Nat /\ DailyLimit \in Nat
        BY GreatestFacts, OthersNat, WithdrawalAssumption
    <2>5. Total(Notional, Counted) <= DailyLimit + Others * Greatest
        BY <2>2, <2>3, <2>4 DEF WithinLimit
    <2>6. QED
        BY <2>5 DEF DailyLimitHeld, _daily_withdrawn_ngn, Total, Counted, Others, Greatest
<1>4. QED
    BY <1>1, <1>2, <1>3, InductiveInvariant, PTL DEF Spec
=============================================================================
