------------------------- MODULE CryptoOrdersProofs -------------------------
EXTENDS CryptoOrders, FiniteSetTheorems, TLAPS

(***************************************************************************)
(* The inductive invariant.  It speaks of one order at a time: of its row, *)
(* of what Quidax did for it, and of the jobs that work on it.             *)
(***************************************************************************)
On(p, o) == job[p].o = o
One(b) == IF b THEN 1 ELSE 0

Market == {"buy", "sell", "swap", "legswap"}
Underway == {"PROCESSING", "COMPLETED", "FAILED"}

(* What Quidax may still convert, or has converted. *)
Live == {"processing", "completed"}
Current(o) == conversion[o][row[o].quotation]
Dead(o) == \A n \in Quotations : conversion[o][n] \notin Live

(* The market order that settles an order, or the first leg of a swap. *)
Leg(o) == IF row[o].kind = "buy" THEN fills[o].bought ELSE fills[o].sold

(* The steps at which a report may run, and those at which it may run      *)
(* beside a request.                                                       *)
ReportSteps == {"converted", "flag", "refuse", "refunded", "clear", "refundngn", "giveback"}
Late == ReportSteps \cup {"confirmed", "await", "finishleg"}

JobsAreOnOrders ==
    \A p \in Procs :
        job[p] = Idle \/ (job[p].o \in Orders /\ job[p].at # "idle" /\ job[p].by # "")

(* One request at a time, and reports only beside late steps. *)
Apart(o) ==
    \A p, q \in Procs : On(p, o) /\ On(q, o) /\ p # q =>
        /\ job[p].by = "report" \/ job[q].by = "report"
        /\ job[p].at \in Late
        /\ row[o].kind = "instantswap" /\ row[o].quotation = 0 => job[p].by = "report"

StatusFits(o) ==
    LET r == row[o] IN
    /\ r.kind \in Buys => r.status # "WAITING_DEPOSIT"
    /\ r.kind = "sell" => r.status \in Underway \cup {"none", "WAITING_DEPOSIT"}
    /\ r.kind \in TwoLegs \cup {"instantswap"} => r.status \in Underway \cup {"none"}
    /\ r.status = "none" => Resting(o) /\ ~r.sold
    /\ r.kind \notin Buys => r.paid = 0

QuotationFits(o) ==
    LET r == row[o]
        cur == r.quotation
    IN
    /\ r.kind \notin InstantKinds => cur = 0
    /\ r.swap <= cur
    /\ r.status = "PROCESSING" => r.swap \in {0, cur}
    /\ \A n \in Quotations : n < cur => conversion[o][n] \notin Live
    /\ \A n \in Quotations : n > cur => conversion[o][n] = "unsent"
    /\ r.status \notin {"PROCESSING", "COMPLETED"} => Dead(o)
    /\ r.status = "COMPLETED" /\ r.kind \in InstantKinds => cur > 0 /\ Current(o) = "completed"
    /\ r.status = "PROCESSING" /\ r.kind = "instantbuy" => cur > 0
    /\ r.kind = "legswap" /\ cur > 0 => r.sold
    /\ r.status = "none" => cur = 0

FillsFit(o) ==
    LET r == row[o] IN
    /\ r.sold => r.kind \in TwoLegs /\ Leg(o) = 1
    /\ r.status = "COMPLETED" /\ r.kind \in Market => Leg(o) = 1
    /\ r.status = "COMPLETED" /\ r.kind \in TwoLegs => r.sold
    /\ r.status = "COMPLETED" /\ r.kind = "swap" => fills[o].bought > 0
    /\ r.kind \in Market /\ ~r.sold
         /\ r.status \in {"none", "PENDING_PAYMENT", "WAITING_DEPOSIT", "FAILED"} => Leg(o) = 0

ReviewFits(o) ==
    LET r == row[o] IN
    r.needs_review =>
    /\ r.kind \in {"instantbuy", "instantswap"} => r.quotation > 0
    /\ r.kind = "legswap" /\ r.sold => r.quotation > 0
    /\ r.quotation = 0 => /\ r.status = "PROCESSING"
                          /\ Resting(o)
                          /\ ~r.sold => Leg(o) = One(fills[o].last)
                          /\ r.kind = "swap" /\ r.sold /\ fills[o].last => fills[o].bought > 0

GotFits(o) ==
    acct[o].got = One(row[o].status = "COMPLETED" \/ (row[o].status = "FAILED" /\ row[o].sold))

OrderFits(o) == StatusFits(o) /\ QuotationFits(o) /\ FillsFit(o) /\ ReviewFits(o) /\ GotFits(o)

(* Which orders a job may be at which step of. *)
OnPath(o, j) ==
    LET k == row[o].kind IN
    /\ j.at \in {"pay", "paid", "redebit", "restart", "buy", "refunded"} => k \in Buys
    /\ j.at = "bought" => k = "buy"
    /\ j.at \in {"wait", "rereserve", "start", "sold"} => k = "sell"
    /\ j.at = "reserve" => k \in {"sell", "instantswap"} \cup TwoLegs
    /\ j.at \in {"sell", "release"} => k \in {"sell"} \cup TwoLegs
    /\ j.at \in {"soldleg", "finishleg", "refundngn"} => k \in TwoLegs
    /\ j.at \in {"buyleg", "bookleg", "spend-flag", "spend-refund"} => k = "swap"
    /\ j.at = "spend-quote" => k = "legswap"
    /\ j.at = "quote" => k \in {"legswap", "instantswap"}
    /\ j.at \in {"confirm", "confirmed", "await", "converted"} => k \in InstantKinds
    /\ j.refund => k \in Buys
    /\ j.at = "clear" => k \in {"instantbuy", "legswap"}
    /\ j.at = "giveback" => k = "instantswap"
    /\ j.at \notin {"buyback", "compensate", "unclaim", "unanswered", "log"}
    /\ j.by = "report" => k \in InstantKinds /\ j.at \in ReportSteps
    /\ j.at \in {"pay", "paid"} => j.by = "place"
    /\ j.at \in {"reserve", "quote"} /\ k = "instantswap" => j.by = "place"

JobStatusFits(o, j) ==
    LET k == row[o].kind
        s == row[o].status
    IN
    /\ j.at \in {"pay", "paid"} => s = "PENDING_PAYMENT"
    /\ j.at \in {"redebit", "restart", "refunded"} => s = "FAILED"
    /\ j.at \in {"rereserve", "start"} => s = "WAITING_DEPOSIT"
    /\ j.at = "buy" => s = "PAYMENT_RECEIVED"
    /\ j.at \in {"bought", "flag", "refuse"} /\ k = "buy" =>
         s \in {"PAYMENT_RECEIVED", "PROCESSING"}
    /\ j.at = "refuse" /\ k = "instantbuy" => s \in {"PAYMENT_RECEIVED", "PROCESSING", "FAILED"}
    /\ j.at \in {"reserve", "wait", "sell", "sold", "soldleg", "release", "buyleg", "bookleg",
                 "spend-quote", "spend-flag", "spend-refund", "quote", "confirm"} =>
         s = "PROCESSING"
    /\ j.at \in {"refuse", "flag", "finishleg", "refundngn"} /\ k \in {"sell", "swap"} =>
         s = "PROCESSING"
    /\ j.at = "refuse" /\ k \notin Buys => s = "PROCESSING"
    /\ j.at \in {"confirmed", "await", "converted", "giveback", "flag", "clear", "refundngn",
                 "finishleg"} /\ k \in InstantKinds => s \in Underway

JobIsQuoted(o, j) ==
    LET r == row[o]
        cur == r.quotation
    IN
    /\ j.n \in {0, cur}
    /\ j.at \in {"confirm", "confirmed", "await"} => j.n = cur /\ cur > 0
    /\ j.at = "confirm" => Current(o) = "unsent" /\ r.swap = 0
    /\ j.at \in {"confirmed", "await"} => Current(o) \in {"processing"} \cup Ended
    /\ j.at \in {"converted", "finishleg"} /\ r.kind # "swap" =>
         cur > 0 /\ Current(o) = "completed"
    /\ j.at \in {"giveback", "clear", "refunded", "refuse", "refundngn"} => Dead(o)
    /\ j.at \in {"reserve", "sell", "soldleg", "spend-quote", "quote", "release"} => cur = 0
    /\ j.by = "report" /\ j.at # "giveback" => cur > 0
    /\ j.by = "later" /\ r.kind = "instantswap" => cur > 0
    /\ j.at = "refuse" /\ r.kind # "instantbuy" => cur = 0
    /\ j.at = "flag" /\ r.kind \in InstantKinds => (cur > 0 <=> r.kind # "legswap" \/ r.sold)

JobIsFilled(o, j) ==
    LET r == row[o] IN
    r.kind \in Market =>
    /\ j.at \in {"pay", "paid", "redebit", "restart", "buy", "reserve", "wait", "rereserve",
                 "start", "sell", "release", "refuse"} => Leg(o) = 0 /\ ~r.sold
    /\ j.at \in {"sold", "soldleg", "bought"} => Leg(o) = 1 /\ ~r.sold
    /\ j.at = "flag" /\ ~r.sold => Leg(o) = One(fills[o].last)
    /\ j.at \in {"buyleg", "bookleg", "spend-flag", "spend-refund", "spend-quote", "quote",
                 "confirm", "confirmed", "await", "converted", "finishleg", "refundngn",
                 "clear"} => r.sold
    /\ j.at \in {"bookleg", "finishleg"} /\ r.kind = "swap" => fills[o].bought > 0
    /\ j.at \in {"flag", "spend-flag"} /\ r.kind = "swap" /\ r.sold /\ fills[o].last =>
         fills[o].bought > 0

JobFits(o, j) == OnPath(o, j) /\ JobStatusFits(o, j) /\ JobIsQuoted(o, j) /\ JobIsFilled(o, j)

(* How often the wallet paid, once the order is paid for. *)
FromWallet(o) == One(~external[o] /\ ~past[o].rejected)

WalletFits(o) ==
    LET r == row[o]
        a == acct[o]
    IN
    r.kind \in Buys =>
    /\ r.status = "none" => ~external[o]
    /\ r.status \in {"none", "PENDING_PAYMENT"} =>
         r.paid = 0 /\ r.refunded = 0 /\ ~past[o].rejected
    /\ external[o] \/ past[o].rejected => r.paid = 0 /\ r.refunded = 0
    /\ r.status \in {"PAYMENT_RECEIVED", "PROCESSING", "COMPLETED"} =>
         r.paid = r.refunded + FromWallet(o) /\ a.taken = FromWallet(o)
    /\ r.status = "FAILED" /\ (\A p \in Procs : On(p, o) => job[p].at # "refunded") =>
         /\ r.paid = r.refunded
         /\ FromWallet(o) = 1 => r.refunded > 0
    /\ r.status \in {"none", "PENDING_PAYMENT", "FAILED"}
         /\ (\A p \in Procs : On(p, o) => job[p].at \notin {"paid", "restart"}) => a.taken = 0

JobWalletFits(o, p) ==
    LET r == row[o]
        j == job[p]
    IN
    r.kind \in Buys =>
    /\ j.at \in {"pay", "paid"} => ~external[o] /\ (j.refund <=> r.kind = "buy")
    /\ j.at = "paid" => acct[o].taken = 1
    /\ j.at = "redebit" => j.refund /\ r.refunded > 0
    /\ j.at = "restart" => acct[o].taken = One(j.refund) /\ (j.refund <=> r.refunded > 0)
    /\ j.at \in {"buy", "refuse", "bought"} /\ r.kind = "buy" => (j.refund <=> FromWallet(o) = 1)
    /\ j.at = "refunded" => /\ r.paid = r.refunded + 1 /\ FromWallet(o) = 1
                            /\ \A q \in Procs : On(q, o) /\ job[q].at = "refunded" => p = q

HoldFits(o) ==
    LET r == row[o]
        h == acct[o].hold
    IN
    /\ r.kind \in Buys => h = 0
    /\ r.status \in {"none", "WAITING_DEPOSIT"}
         /\ (\A p \in Procs : On(p, o) => job[p].at # "start") => h = 0
    /\ Closed(o) => h = 0
    /\ r.kind = "instantswap" /\ r.status = "PROCESSING" =>
         IF r.quotation > 0 THEN h = 1 ELSE Placing(o)
    /\ r.kind \in {"sell", "swap", "legswap"} /\ r.status = "PROCESSING"
         /\ r.quotation = 0 /\ r.needs_review => h = One(~r.sold)
    /\ r.kind = "legswap" /\ r.quotation > 0 => h = 0

JobHoldFits(o, j) ==
    LET r == row[o]
        h == acct[o].hold
    IN
    r.kind \notin Buys =>
    /\ j.at \in {"reserve", "wait", "rereserve", "refuse", "finishleg", "refundngn"} => h = 0
    /\ j.at = "quote" => h = One(r.kind = "instantswap")
    /\ j.at \in {"start", "sell", "sold", "release", "soldleg", "buyleg", "bookleg",
                 "spend-quote", "spend-flag", "spend-refund"} => h = 1
    /\ j.at = "giveback" => h = One(~Closed(o))
    /\ j.at = "flag" /\ r.quotation = 0 => h = One(~r.sold)

Steady(o) ==
    /\ Apart(o) /\ OrderFits(o)
    /\ \A p \in Procs : On(p, o) => JobFits(o, job[p])
Square(o) ==
    /\ WalletFits(o) /\ HoldFits(o)
    /\ \A p \in Procs : On(p, o) => JobWalletFits(o, p) /\ JobHoldFits(o, job[p])

(* A swap that an older version left half done: the admin's claim.         *)
Legacy(o) ==
    LET r == row[o] IN
    /\ Closed(o) /\ ~r.needs_review
    /\ fills[o].sold > 0 /\ r.quotation = 0 /\ r.swap = 0
    /\ acct[o].got = One(r.compensated \/ r.status = "COMPLETED")
    /\ acct[o].hold = 0
    /\ r.status = "COMPLETED" => r.claimed
    /\ \A p \in Procs : On(p, o) =>
         /\ job[p].at \in {"buyback", "compensate", "unclaim", "unanswered", "log"}
         /\ r.claimed /\ ~r.compensated
         /\ \A q \in Procs : On(q, o) => p = q
         /\ job[p].at = "log" <=> r.status = "COMPLETED"
         /\ job[p].at = "compensate" => fills[o].bought > 0

Fits(o) ==
    IF row[o].kind = "legacy" THEN Legacy(o)
    ELSE ~past[o].overlap => Steady(o) /\ (~past[o].died => Square(o))
TypeInv == BookTypeOK /\ JobsAreOnOrders
OrdersInv == TypeInv /\ \A o \in Orders : Fits(o)

-----------------------------------------------------------------------------
(* What a step writes, field by field.                                     *)

Others(p) == \A q \in Procs : q # p => job'[q] = job[q]
Moves(p, a, n) ==
    /\ job'[p].at = a /\ job'[p].n = n /\ job'[p].o = job[p].o
    /\ job'[p].refund = job[p].refund /\ job'[p].by = job[p].by
Begins(p, a, o, n, f, b) ==
    /\ job[p] = Idle
    /\ job'[p].at = a /\ job'[p].o = o /\ job'[p].n = n /\ job'[p].refund = f /\ job'[p].by = b

RowIs(o, s, v, d, q, w, pd, rf) ==
    /\ row'[o].kind = row[o].kind
    /\ row'[o].status = s /\ row'[o].needs_review = v
    /\ row'[o].sold = d /\ row'[o].quotation = q /\ row'[o].swap = w
    /\ row'[o].paid = pd /\ row'[o].refunded = rf
AcctIs(o, t, h, g) == acct'[o].taken = t /\ acct'[o].hold = h /\ acct'[o].got = g

(* Writes to one order only, of the right types.                           *)
OnlyRow(o) == row' \in [Orders -> Rows] /\ \A x \in Orders : x # o => row'[x] = row[x]
OnlyAcct(o) == acct' \in [Orders -> Accounts] /\ \A x \in Orders : x # o => acct'[x] = acct[x]
FillsTypes == [sold : Nat, bought : Nat, last : BOOLEAN]
OnlyFills(o) == fills' \in [Orders -> FillsTypes] /\ \A x \in Orders : x # o =>
    fills'[x] = fills[x]
ConversionTypes == [Quotations -> {"unsent", "processing", "completed", "failed", "refused",
    "lost"}]
OnlyConversion(o) ==
    conversion' \in [Orders -> ConversionTypes] /\ \A x \in Orders : x # o =>
        conversion'[x] = conversion[x]
OnlyJob(p) == job' \in [Procs -> Jobs] /\ Others(p) /\ JobsAreOnOrders'
ClaimIs(o, c, m) == row'[o].claimed = c /\ row'[o].compensated = m

(* No other order is written. *)
Elsewhere(o) ==
    \A x \in Orders : x # o =>
        /\ row'[x] = row[x] /\ acct'[x] = acct[x] /\ fills'[x] = fills[x]
        /\ conversion'[x] = conversion[x] /\ external'[x] = external[x] /\ past'[x] = past[x]

(* Idle and started jobs. *)
LEMMA IdleIs == Idle \in Jobs /\ Idle.at = "idle" /\ Idle.o = NoOrder /\ Idle.by = ""
<1>1. Idle \in Jobs
  BY OrderAssumption DEF Idle, Job, Jobs, Steps, MaxQuotations
<1>2. Idle.at = "idle" /\ Idle.o = NoOrder /\ Idle.by = ""
  BY DEF Idle, Job
<1> QED BY <1>1, <1>2

(* The fields of a job. *)
LEMMA JobIs ==
  ASSUME NEW a, NEW o, NEW n, NEW f, NEW b
  PROVE  /\ Job(a, o, n, f, b).at = a /\ Job(a, o, n, f, b).o = o /\ Job(a, o, n, f, b).n = n
         /\ Job(a, o, n, f, b).refund = f /\ Job(a, o, n, f, b).by = b
BY DEF Job

(* A job that is not idle is at a step of a request or report on an order. *)
LEMMA JobTypes ==
  ASSUME TypeInv, NEW p \in Procs, job[p] # Idle
  PROVE  /\ job[p].o \in Orders /\ job[p].at \in Steps /\ job[p].at # "idle"
         /\ job[p].n \in 0..MaxQuotations
         /\ job[p].refund \in BOOLEAN /\ job[p].by \in {"place", "later", "report"}
BY DEF TypeInv, BookTypeOK, JobsAreOnOrders, Jobs

(* A process that is at a step, or on an order, is not idle. *)
LEMMA AtWork ==
  ASSUME TypeInv, NEW p \in Procs, job[p].at # "idle" \/ job[p].o \in Orders
  PROVE  job[p] # Idle
BY IdleIs, OrderAssumption

(* A process that goes to its next step stays on its order. *)
LEMMA MovesOn ==
  ASSUME TypeInv, NEW p \in Procs, NEW a \in Steps, a # "idle", Goes(p, a), job[p] # Idle
  PROVE  OnlyJob(p) /\ Moves(p, a, job[p].n)
<1>1. job' \in [Procs -> Jobs] /\ Moves(p, a, job[p].n) /\ Others(p)
  BY DEF TypeInv, BookTypeOK, Goes, Jobs, Moves, Others
<1> QED
  BY <1>1, JobTypes DEF OnlyJob, JobsAreOnOrders, TypeInv, Moves, Others

(* A process that ends is idle. *)
LEMMA StopsAt ==
  ASSUME TypeInv, NEW p \in Procs, Ends(p)
  PROVE  OnlyJob(p) /\ job'[p] = Idle
BY IdleIs DEF OnlyJob, TypeInv, BookTypeOK, Ends, Others, JobsAreOnOrders

(* A process that starts was idle, and works on the order now. *)
LEMMA StartsOn ==
  ASSUME TypeInv, NEW p \in Procs, NEW a \in Steps, a # "idle", NEW o \in Orders,
         NEW n \in 0..MaxQuotations, NEW f \in BOOLEAN, NEW b \in {"place", "later", "report"},
         Starts(p, Job(a, o, n, f, b))
  PROVE  OnlyJob(p) /\ Begins(p, a, o, n, f, b)
<1>1. Job(a, o, n, f, b) \in Jobs
  BY DEF Job, Jobs
<1>2. job[p] = Idle /\ job'[p] = Job(a, o, n, f, b) /\ Others(p) /\ job' \in [Procs -> Jobs]
  BY <1>1 DEF TypeInv, BookTypeOK, Starts, Others
<1>3. Begins(p, a, o, n, f, b)
  BY <1>2, JobIs DEF Begins
<1> QED BY <1>2, <1>3 DEF OnlyJob, JobsAreOnOrders, TypeInv, Begins, Others

(* The fields of a row have their types. *)
LEMMA RowTypes ==
  ASSUME TypeInv, NEW o \in Orders
  PROVE  /\ row[o] \in Rows /\ row[o].kind \in Kinds /\ row[o].status \in Statuses
         /\ row[o].quotation \in 0..MaxQuotations /\ row[o].swap \in 0..MaxQuotations
         /\ row[o].paid \in Nat /\ row[o].refunded \in Nat
         /\ row[o].needs_review \in BOOLEAN /\ row[o].sold \in BOOLEAN
         /\ row[o].claimed \in BOOLEAN /\ row[o].compensated \in BOOLEAN
BY DEF TypeInv, BookTypeOK, Rows

(* So have those of the accounts, of the fills and of the past. *)
LEMMA BookTypes ==
  ASSUME TypeInv, NEW o \in Orders
  PROVE  /\ acct[o].taken \in Int /\ acct[o].hold \in Int /\ acct[o].got \in Nat
         /\ fills[o].sold \in Nat /\ fills[o].bought \in Nat /\ fills[o].last \in BOOLEAN
         /\ external[o] \in BOOLEAN
         /\ past[o].rejected \in BOOLEAN /\ past[o].overlap \in BOOLEAN
         /\ past[o].died \in BOOLEAN
BY DEF TypeInv, BookTypeOK, Accounts

(* One row is replaced. *)
LEMMA Written ==
  ASSUME TypeInv, NEW o \in Orders, NEW r \in Rows, row' = [row EXCEPT ![o] = r]
  PROVE  OnlyRow(o) /\ row'[o] = r
BY DEF OnlyRow, TypeInv, BookTypeOK

(* The status. *)
LEMMA StatusIs ==
  ASSUME TypeInv, NEW o \in Orders, NEW s \in Statuses,
         row' = [row EXCEPT ![o].status = s]
  PROVE  /\ OnlyRow(o)
         /\ RowIs(o, s, row[o].needs_review, row[o].sold, row[o].quotation,
                  row[o].swap, row[o].paid, row[o].refunded)
         /\ ClaimIs(o, row[o].claimed, row[o].compensated)
BY RowTypes DEF TypeInv, BookTypeOK, Rows, Statuses, RowIs, ClaimIs, OnlyRow

(* The status and the log of payments. *)
LEMMA PaidIs ==
  ASSUME TypeInv, NEW o \in Orders,
         row' = [row EXCEPT ![o].status = "PAYMENT_RECEIVED", ![o].paid = row[o].paid + 1]
  PROVE  /\ OnlyRow(o)
         /\ RowIs(o, "PAYMENT_RECEIVED", row[o].needs_review, row[o].sold, row[o].quotation,
                  row[o].swap, row[o].paid + 1, row[o].refunded)
         /\ ClaimIs(o, row[o].claimed, row[o].compensated)
BY RowTypes DEF TypeInv, BookTypeOK, Rows, Statuses, RowIs, ClaimIs, OnlyRow

(* The log of refunds. *)
LEMMA RefundedIs ==
  ASSUME TypeInv, NEW o \in Orders,
         row' = [row EXCEPT ![o].refunded = row[o].refunded + 1]
  PROVE  /\ OnlyRow(o)
         /\ RowIs(o, row[o].status, row[o].needs_review, row[o].sold, row[o].quotation,
                  row[o].swap, row[o].paid, row[o].refunded + 1)
         /\ ClaimIs(o, row[o].claimed, row[o].compensated)
<1>1. row[o].refunded + 1 \in Nat
  BY RowTypes
<1> QED BY <1>1, RowTypes DEF TypeInv, BookTypeOK, Rows, Statuses, RowIs, ClaimIs, OnlyRow

(* The flag of the review. *)
LEMMA ReviewIs ==
  ASSUME TypeInv, NEW o \in Orders, NEW v \in BOOLEAN,
         row' = [row EXCEPT ![o].needs_review = v]
  PROVE  /\ OnlyRow(o)
         /\ RowIs(o, row[o].status, v, row[o].sold, row[o].quotation,
                  row[o].swap, row[o].paid, row[o].refunded)
         /\ ClaimIs(o, row[o].claimed, row[o].compensated)
BY RowTypes DEF TypeInv, BookTypeOK, Rows, Statuses, RowIs, ClaimIs, OnlyRow

(* The status with the flag of the review. *)
LEMMA StatusAndReviewAre ==
  ASSUME TypeInv, NEW o \in Orders, NEW s \in Statuses, NEW v \in BOOLEAN,
         row' = [row EXCEPT ![o].status = s, ![o].needs_review = v]
  PROVE  /\ OnlyRow(o)
         /\ RowIs(o, s, v, row[o].sold, row[o].quotation,
                  row[o].swap, row[o].paid, row[o].refunded)
         /\ ClaimIs(o, row[o].claimed, row[o].compensated)
BY RowTypes DEF TypeInv, BookTypeOK, Rows, Statuses, RowIs, ClaimIs, OnlyRow

(* The first leg. *)
LEMMA SoldIs ==
  ASSUME TypeInv, NEW o \in Orders,
         row' = [row EXCEPT ![o].sold = TRUE]
  PROVE  /\ OnlyRow(o)
         /\ RowIs(o, row[o].status, row[o].needs_review, TRUE, row[o].quotation,
                  row[o].swap, row[o].paid, row[o].refunded)
         /\ ClaimIs(o, row[o].claimed, row[o].compensated)
BY RowTypes DEF TypeInv, BookTypeOK, Rows, Statuses, RowIs, ClaimIs, OnlyRow

(* The id of the swap. *)
LEMMA SwapIs ==
  ASSUME TypeInv, NEW o \in Orders, NEW n \in 0..MaxQuotations,
         row' = [row EXCEPT ![o].swap = n]
  PROVE  /\ OnlyRow(o)
         /\ RowIs(o, row[o].status, row[o].needs_review, row[o].sold, row[o].quotation,
                  n, row[o].paid, row[o].refunded)
         /\ ClaimIs(o, row[o].claimed, row[o].compensated)
BY RowTypes DEF TypeInv, BookTypeOK, Rows, Statuses, RowIs, ClaimIs, OnlyRow

(* What a conversion that is booked leaves. *)
LEMMA CreditIs ==
  ASSUME TypeInv, NEW o \in Orders, NEW n \in 0..MaxQuotations,
         row' = [row EXCEPT ![o].status = "COMPLETED", ![o].needs_review = FALSE, ![o].swap = n]
  PROVE  /\ OnlyRow(o)
         /\ RowIs(o, "COMPLETED", FALSE, row[o].sold, row[o].quotation,
                  n, row[o].paid, row[o].refunded)
         /\ ClaimIs(o, row[o].claimed, row[o].compensated)
BY RowTypes DEF TypeInv, BookTypeOK, Rows, Statuses, RowIs, ClaimIs, OnlyRow

(* The id of the quotation. *)
LEMMA QuotationIs ==
  ASSUME TypeInv, NEW o \in Orders, NEW n \in 0..MaxQuotations,
         row' = [row EXCEPT ![o] = [row[o] EXCEPT !.quotation = n]]
  PROVE  /\ OnlyRow(o)
         /\ RowIs(o, row[o].status, row[o].needs_review, row[o].sold, n,
                  row[o].swap, row[o].paid, row[o].refunded)
         /\ ClaimIs(o, row[o].claimed, row[o].compensated)
BY RowTypes DEF TypeInv, BookTypeOK, Rows, Statuses, RowIs, ClaimIs, OnlyRow

(* A buy that is quoted forgets an earlier swap. *)
LEMMA BuyIsQuoted ==
  ASSUME TypeInv, NEW o \in Orders, NEW n \in 0..MaxQuotations,
         row' = [row EXCEPT ![o] =
                    [[row[o] EXCEPT !.swap = 0, !.status = "PROCESSING"] EXCEPT !.quotation = n]]
  PROVE  /\ OnlyRow(o)
         /\ RowIs(o, "PROCESSING", row[o].needs_review, row[o].sold, n,
                  0, row[o].paid, row[o].refunded)
         /\ ClaimIs(o, row[o].claimed, row[o].compensated)
<1> DEFINE b == [row[o] EXCEPT !.swap = 0, !.status = "PROCESSING"]
           r == [b EXCEPT !.quotation = n]
<1>1. b \in Rows
  <2>1. 0 \in 0..MaxQuotations /\ "PROCESSING" \in Statuses
    BY OrderAssumption DEF Statuses, MaxQuotations
  <2> QED BY <2>1, RowTypes DEF Rows
<1>2. /\ b.kind = row[o].kind /\ b.status = "PROCESSING" /\ b.needs_review = row[o].needs_review
      /\ b.sold = row[o].sold /\ b.swap = 0
      /\ b.paid = row[o].paid /\ b.refunded = row[o].refunded /\ b.claimed = row[o].claimed
      /\ b.compensated = row[o].compensated
  BY RowTypes DEF Rows
<1>3. row' = [row EXCEPT ![o] = r]
  OBVIOUS
<1> HIDE DEF b
<1>4. /\ r \in Rows /\ r.kind = b.kind /\ r.status = b.status /\ r.needs_review = b.needs_review
      /\ r.sold = b.sold /\ r.quotation = n /\ r.swap = b.swap
      /\ r.paid = b.paid /\ r.refunded = b.refunded /\ r.claimed = b.claimed
      /\ r.compensated = b.compensated
  BY <1>1 DEF Rows
<1> HIDE DEF r
<1> QED BY <1>2, <1>3, <1>4, Written DEF RowIs, ClaimIs

(* The claim of an admin. *)
LEMMA ClaimedIs ==
  ASSUME TypeInv, NEW o \in Orders, NEW v \in BOOLEAN,
         row' = [row EXCEPT ![o].claimed = v]
  PROVE  /\ OnlyRow(o)
         /\ RowIs(o, row[o].status, row[o].needs_review, row[o].sold, row[o].quotation,
                  row[o].swap, row[o].paid, row[o].refunded)
         /\ ClaimIs(o, v, row[o].compensated)
BY RowTypes DEF TypeInv, BookTypeOK, Rows, Statuses, RowIs, ClaimIs, OnlyRow

(* The compensation. *)
LEMMA CompensatedIs ==
  ASSUME TypeInv, NEW o \in Orders,
         row' = [row EXCEPT ![o].compensated = TRUE]
  PROVE  /\ OnlyRow(o)
         /\ RowIs(o, row[o].status, row[o].needs_review, row[o].sold, row[o].quotation,
                  row[o].swap, row[o].paid, row[o].refunded)
         /\ ClaimIs(o, row[o].claimed, TRUE)
BY RowTypes DEF TypeInv, BookTypeOK, Rows, Statuses, RowIs, ClaimIs, OnlyRow

(* Naira taken, and given back. *)
LEMMA TakenMore ==
  ASSUME TypeInv, NEW o \in Orders, acct' = [acct EXCEPT ![o].taken = acct[o].taken + 1]
  PROVE  /\ OnlyAcct(o)
         /\ AcctIs(o, acct[o].taken + 1, acct[o].hold, acct[o].got)
<1>1. acct[o] \in Accounts /\ [acct[o] EXCEPT !.taken = acct[o].taken + 1] \in Accounts
  BY BookTypes DEF TypeInv, BookTypeOK, Accounts
<1> QED BY <1>1 DEF TypeInv, BookTypeOK, Accounts, AcctIs, OnlyAcct

(* Naira given back. *)
LEMMA TakenLess ==
  ASSUME TypeInv, NEW o \in Orders, acct' = [acct EXCEPT ![o].taken = acct[o].taken - 1]
  PROVE  /\ OnlyAcct(o)
         /\ AcctIs(o, acct[o].taken - 1, acct[o].hold, acct[o].got)
<1>1. acct[o] \in Accounts /\ [acct[o] EXCEPT !.taken = acct[o].taken - 1] \in Accounts
  BY BookTypes DEF TypeInv, BookTypeOK, Accounts
<1> QED BY <1>1 DEF TypeInv, BookTypeOK, Accounts, AcctIs, OnlyAcct

(* Coins reserved, and released or spent. *)
LEMMA HoldMore ==
  ASSUME TypeInv, NEW o \in Orders, acct' = [acct EXCEPT ![o].hold = acct[o].hold + 1]
  PROVE  /\ OnlyAcct(o)
         /\ AcctIs(o, acct[o].taken, acct[o].hold + 1, acct[o].got)
<1>1. acct[o] \in Accounts /\ [acct[o] EXCEPT !.hold = acct[o].hold + 1] \in Accounts
  BY BookTypes DEF TypeInv, BookTypeOK, Accounts
<1> QED BY <1>1 DEF TypeInv, BookTypeOK, Accounts, AcctIs, OnlyAcct

(* Coins released or spent. *)
LEMMA HoldLess ==
  ASSUME TypeInv, NEW o \in Orders, acct' = [acct EXCEPT ![o].hold = acct[o].hold - 1]
  PROVE  /\ OnlyAcct(o)
         /\ AcctIs(o, acct[o].taken, acct[o].hold - 1, acct[o].got)
<1>1. acct[o] \in Accounts /\ [acct[o] EXCEPT !.hold = acct[o].hold - 1] \in Accounts
  BY BookTypes DEF TypeInv, BookTypeOK, Accounts
<1> QED BY <1>1 DEF TypeInv, BookTypeOK, Accounts, AcctIs, OnlyAcct

(* Proceeds credited, without and with the coins that paid for them. *)
LEMMA GotMore ==
  ASSUME TypeInv, NEW o \in Orders, acct' = [acct EXCEPT ![o].got = acct[o].got + 1]
  PROVE  /\ OnlyAcct(o)
         /\ AcctIs(o, acct[o].taken, acct[o].hold, acct[o].got + 1)
<1>1. acct[o] \in Accounts /\ [acct[o] EXCEPT !.got = acct[o].got + 1] \in Accounts
  BY BookTypes DEF TypeInv, BookTypeOK, Accounts
<1> QED BY <1>1 DEF TypeInv, BookTypeOK, Accounts, AcctIs, OnlyAcct

(* Proceeds credited against the coins that paid for them. *)
LEMMA HoldAndGotAre ==
  ASSUME TypeInv, NEW o \in Orders,
         acct' = [acct EXCEPT ![o].hold = acct[o].hold - 1, ![o].got = acct[o].got + 1]
  PROVE  /\ OnlyAcct(o)
         /\ AcctIs(o, acct[o].taken, acct[o].hold - 1, acct[o].got + 1)
<1>1. acct[o] \in Accounts
          /\ [acct[o] EXCEPT !.hold = acct[o].hold - 1, !.got = acct[o].got + 1] \in Accounts
  BY BookTypes DEF TypeInv, BookTypeOK, Accounts
<1> QED BY <1>1 DEF TypeInv, BookTypeOK, Accounts, AcctIs, OnlyAcct

-----------------------------------------------------------------------------
(* What is common to the steps of a process.                               *)
Tidy(p, o) == BookTypeOK' /\ JobsAreOnOrders' /\ Others(p) /\ Elsewhere(o)
Alone(p, o) == \A q \in Procs : q # p => ~On(q, o)

(* Beside a step that is not late, and on an order that is not instant,    *)
(* there is no other process.                                              *)
LEMMA AloneIf ==
  ASSUME NEW o \in Orders, Steady(o), NEW p \in Procs, On(p, o),
         job[p].at \notin Late \/ row[o].kind \notin InstantKinds
  PROVE  Alone(p, o)
<1> SUFFICES ASSUME NEW q \in Procs, q # p, On(q, o) PROVE FALSE
  BY DEF Alone
<1>1. /\ job[p].by = "report" \/ job[q].by = "report"
      /\ job[p].at \in Late
  BY DEF Steady, Apart
<1>2. /\ job[p].by = "report" => row[o].kind \in InstantKinds
      /\ job[q].by = "report" => row[o].kind \in InstantKinds
  BY DEF Steady, JobFits, OnPath
<1> QED BY <1>1, <1>2

(* The order stays steady if its one process leaves it so. *)
LEMMA AloneSteady ==
  ASSUME NEW o \in Orders, NEW p \in Procs, Others(p), Alone(p, o), OrderFits(o)',
         job'[p].o = o => JobFits(o, job[p])'
  PROVE  Steady(o)'
BY DEF Steady, Others, Alone, On, Apart

(* And square. *)
LEMMA AloneSquare ==
  ASSUME NEW o \in Orders, NEW p \in Procs, Others(p), Alone(p, o), WalletFits(o)', HoldFits(o)',
         job'[p].o = o => JobWalletFits(o, p)' /\ JobHoldFits(o, job[p])'
  PROVE  Square(o)'
BY DEF Square, Others, Alone, On

(* The steps of all but a legacy swap are on orders that are none. *)
LEMMA NotLegacy ==
  ASSUME NEW o \in Orders, Fits(o), NEW p \in Procs, On(p, o),
         job[p].at \notin {"buyback", "compensate", "unclaim", "unanswered", "log"}
  PROVE  row[o].kind # "legacy"
BY DEF Fits, Legacy

(* Orders whose requests overlapped stay so. *)
LEMMA FitsIf ==
  ASSUME NEW o \in Orders, Fits(o), row[o].kind # "legacy", row'[o].kind = row[o].kind,
         past[o].overlap => past'[o].overlap,
         past[o].died => past'[o].died,
         Steady(o) /\ ~past[o].overlap /\ ~past'[o].overlap => Steady(o)',
         Steady(o) /\ Square(o) /\ ~past'[o].overlap /\ ~past'[o].died => Square(o)'
  PROVE  Fits(o)'
BY DEF Fits

(* A step that writes one order, and leaves the past alone, is tidy. *)
LEMMA TidyIf ==
  ASSUME TypeInv, NEW p \in Procs, NEW o \in Orders, OnlyRow(o), OnlyAcct(o), OnlyFills(o),
         OnlyConversion(o), OnlyJob(p), external' = external, past' = past, crashes' = crashes
  PROVE  Tidy(p, o)
BY DEF Tidy, Elsewhere, TypeInv, BookTypeOK, OnlyJob, OnlyRow, OnlyAcct, OnlyFills,
   OnlyConversion, FillsTypes, ConversionTypes

(* The types, for a step that leaves a variable alone. *)
LEMMA Kept ==
  ASSUME TypeInv, NEW o \in Orders
  PROVE  /\ row' = row => OnlyRow(o)
         /\ acct' = acct => OnlyAcct(o)
         /\ fills' = fills => OnlyFills(o)
         /\ conversion' = conversion => OnlyConversion(o)
BY DEF TypeInv, BookTypeOK, FillsTypes, ConversionTypes, OnlyRow, OnlyAcct, OnlyFills,
   OnlyConversion

-----------------------------------------------------------------------------
(* What each step writes: which order, which fields of its row, of its     *)
(* accounts and of its fills, and where the process goes.                  *)

FillsAre(o, s, b, l) == fills'[o].sold = s /\ fills'[o].bought = b /\ fills'[o].last = l

(* What PayFromWallet writes. *)
PayFromWalletWrites(p, o) ==
    /\ Tidy(p, o) /\ external' = external /\ past' = past /\ job[p].at = "pay"
    /\ \/ /\ row' = row /\ AcctIs(o, acct[o].taken + 1, acct[o].hold, acct[o].got)
          /\ fills' = fills /\ conversion' = conversion /\ Moves(p, "paid", job[p].n)
       \/ /\ row' = row /\ acct' = acct /\ fills' = fills /\ conversion' = conversion
          /\ job'[p] = Idle

(* PayFromWallet writes no more than that. *)
LEMMA PayFromWalletDoes ==
  ASSUME TypeInv, NEW p \in Procs, PayFromWallet(p), NEW o \in Orders, o = job[p].o
  PROVE  PayFromWalletWrites(p, o)
BY AtWork, TakenMore, MovesOn, StopsAt, Kept, TidyIf
DEF PayFromWallet, IsAt, quidaxVars, outsideVars, Steps, PayFromWalletWrites

(* What MarkPaid writes. *)
MarkPaidWrites(p, o) ==
    /\ Tidy(p, o) /\ external' = external /\ past' = past /\ job[p].at = "paid"
    /\ RowIs(o, "PAYMENT_RECEIVED", row[o].needs_review, row[o].sold, row[o].quotation,
           row[o].swap, row[o].paid + 1, row[o].refunded)
    /\ acct' = acct /\ fills' = fills /\ conversion' = conversion /\ Moves(p, "buy", job[p].n)

(* MarkPaid writes no more than that. *)
LEMMA MarkPaidDoes ==
  ASSUME TypeInv, NEW p \in Procs, MarkPaid(p), NEW o \in Orders, o = job[p].o
  PROVE  MarkPaidWrites(p, o)
BY AtWork, PaidIs, RowTypes, JobTypes, MovesOn, Kept, TidyIf
DEF MarkPaid, IsAt, quidaxVars, outsideVars, Steps, MarkPaidWrites

(* What Redebit writes. *)
RedebitWrites(p, o) ==
    /\ Tidy(p, o) /\ external' = external /\ past' = past /\ job[p].at = "redebit"
    /\ \/ /\ row' = row /\ AcctIs(o, acct[o].taken + 1, acct[o].hold, acct[o].got)
          /\ fills' = fills /\ conversion' = conversion /\ Moves(p, "restart", job[p].n)
       \/ /\ row' = row /\ acct' = acct /\ fills' = fills /\ conversion' = conversion
          /\ job'[p] = Idle

(* Redebit writes no more than that. *)
LEMMA RedebitDoes ==
  ASSUME TypeInv, NEW p \in Procs, Redebit(p), NEW o \in Orders, o = job[p].o
  PROVE  RedebitWrites(p, o)
BY AtWork, TakenMore, MovesOn, StopsAt, Kept, TidyIf
DEF Redebit, IsAt, quidaxVars, outsideVars, Steps, RedebitWrites

(* What Restart writes. *)
RestartWrites(p, o) ==
    /\ Tidy(p, o) /\ external' = external /\ past' = past /\ job[p].at = "restart"
    /\ \/ /\ job[p].refund
          /\ RowIs(o, "PAYMENT_RECEIVED", row[o].needs_review, row[o].sold, row[o].quotation,
                 row[o].swap, row[o].paid + 1, row[o].refunded)
          /\ acct' = acct /\ fills' = fills /\ conversion' = conversion
          /\ Moves(p, "buy", job[p].n)
       \/ /\ ~job[p].refund
          /\ RowIs(o, "PAYMENT_RECEIVED", row[o].needs_review, row[o].sold, row[o].quotation,
                 row[o].swap, row[o].paid, row[o].refunded)
          /\ acct' = acct /\ fills' = fills /\ conversion' = conversion
          /\ Moves(p, "buy", job[p].n)

(* Restart writes no more than that. *)
LEMMA RestartDoes ==
  ASSUME TypeInv, NEW p \in Procs, Restart(p), NEW o \in Orders, o = job[p].o
  PROVE  RestartWrites(p, o)
BY AtWork, PaidIs, RowTypes, JobTypes, MovesOn, StatusIs, Kept, TidyIf
DEF Restart, IsAt, quidaxVars, outsideVars, Steps, Statuses, RestartWrites

(* What complete_buy writes. *)
complete_buyWrites(p, o) ==
    /\ Tidy(p, o) /\ external' = external /\ past' = past /\ job[p].at = "bought"
    /\ \/ /\ row[o].status = "COMPLETED" /\ row' = row /\ acct' = acct /\ fills' = fills
          /\ conversion' = conversion /\ job'[p] = Idle
       \/ /\ row[o].status # "COMPLETED"
          /\ RowIs(o, "COMPLETED", row[o].needs_review, row[o].sold, row[o].quotation,
                 row[o].swap, row[o].paid, row[o].refunded)
          /\ AcctIs(o, acct[o].taken, acct[o].hold, acct[o].got + 1) /\ fills' = fills
          /\ conversion' = conversion /\ job'[p] = Idle

(* complete_buy writes no more than that. *)
LEMMA complete_buyDoes ==
  ASSUME TypeInv, NEW p \in Procs, _complete_buy(p), NEW o \in Orders, o = job[p].o
  PROVE  complete_buyWrites(p, o)
BY AtWork, StopsAt, StatusIs, RowTypes, JobTypes, GotMore, Kept, TidyIf
DEF _complete_buy, IsAt, quidaxVars, outsideVars, Statuses, complete_buyWrites

(* What ReserveSource writes. *)
ReserveSourceWrites(p, o) ==
    /\ Tidy(p, o) /\ external' = external /\ past' = past /\ job[p].at = "reserve"
    /\ \/ /\ row[o].kind = "instantswap" /\ row' = row
          /\ AcctIs(o, acct[o].taken, acct[o].hold + 1, acct[o].got) /\ fills' = fills
          /\ conversion' = conversion /\ Moves(p, "quote", job[p].n)
       \/ /\ row[o].kind # "instantswap" /\ row' = row
          /\ AcctIs(o, acct[o].taken, acct[o].hold + 1, acct[o].got) /\ fills' = fills
          /\ conversion' = conversion /\ Moves(p, "sell", job[p].n)
       \/ /\ row[o].kind = "sell" /\ row' = row /\ acct' = acct /\ fills' = fills
          /\ conversion' = conversion /\ Moves(p, "wait", job[p].n)
       \/ /\ row[o].kind # "sell" /\ row' = row /\ acct' = acct /\ fills' = fills
          /\ conversion' = conversion /\ Moves(p, "refuse", job[p].n)

(* ReserveSource writes no more than that. *)
LEMMA ReserveSourceDoes ==
  ASSUME TypeInv, NEW p \in Procs, ReserveSource(p), NEW o \in Orders, o = job[p].o
  PROVE  ReserveSourceWrites(p, o)
BY AtWork, HoldMore, MovesOn, Kept, TidyIf
DEF ReserveSource, IsAt, quidaxVars, outsideVars, AfterReserve, Steps, ReserveSourceWrites

(* What WaitForDeposit writes. *)
WaitForDepositWrites(p, o) ==
    /\ Tidy(p, o) /\ external' = external /\ past' = past /\ job[p].at = "wait"
    /\ RowIs(o, "WAITING_DEPOSIT", row[o].needs_review, row[o].sold, row[o].quotation,
           row[o].swap, row[o].paid, row[o].refunded)
    /\ acct' = acct /\ fills' = fills /\ conversion' = conversion /\ job'[p] = Idle

(* WaitForDeposit writes no more than that. *)
LEMMA WaitForDepositDoes ==
  ASSUME TypeInv, NEW p \in Procs, WaitForDeposit(p), NEW o \in Orders, o = job[p].o
  PROVE  WaitForDepositWrites(p, o)
BY AtWork, StatusIs, RowTypes, JobTypes, StopsAt, Kept, TidyIf
DEF WaitForDeposit, IsAt, quidaxVars, outsideVars, Statuses, WaitForDepositWrites

(* What ReserveAgain writes. *)
ReserveAgainWrites(p, o) ==
    /\ Tidy(p, o) /\ external' = external /\ past' = past /\ job[p].at = "rereserve"
    /\ \/ /\ row' = row /\ AcctIs(o, acct[o].taken, acct[o].hold + 1, acct[o].got)
          /\ fills' = fills /\ conversion' = conversion /\ Moves(p, "start", job[p].n)
       \/ /\ row' = row /\ acct' = acct /\ fills' = fills /\ conversion' = conversion
          /\ job'[p] = Idle

(* ReserveAgain writes no more than that. *)
LEMMA ReserveAgainDoes ==
  ASSUME TypeInv, NEW p \in Procs, ReserveAgain(p), NEW o \in Orders, o = job[p].o
  PROVE  ReserveAgainWrites(p, o)
BY AtWork, HoldMore, MovesOn, StopsAt, Kept, TidyIf
DEF ReserveAgain, IsAt, quidaxVars, outsideVars, Steps, ReserveAgainWrites

(* What start_processing writes. *)
start_processingWrites(p, o) ==
    /\ Tidy(p, o) /\ external' = external /\ past' = past /\ job[p].at = "start"
    /\ RowIs(o, "PROCESSING", row[o].needs_review, row[o].sold, row[o].quotation, row[o].swap,
           row[o].paid, row[o].refunded)
    /\ acct' = acct /\ fills' = fills /\ conversion' = conversion /\ Moves(p, "sell", job[p].n)

(* start_processing writes no more than that. *)
LEMMA start_processingDoes ==
  ASSUME TypeInv, NEW p \in Procs, _start_processing(p), NEW o \in Orders, o = job[p].o
  PROVE  start_processingWrites(p, o)
BY AtWork, StatusIs, RowTypes, JobTypes, MovesOn, Kept, TidyIf
DEF _start_processing, IsAt, quidaxVars, outsideVars, Statuses, Steps, start_processingWrites

(* What ReleaseSource writes. *)
ReleaseSourceWrites(p, o) ==
    /\ Tidy(p, o) /\ external' = external /\ past' = past /\ job[p].at = "release"
    /\ row' = row /\ AcctIs(o, acct[o].taken, acct[o].hold - 1, acct[o].got) /\ fills' = fills
    /\ conversion' = conversion /\ Moves(p, "refuse", job[p].n)

(* ReleaseSource writes no more than that. *)
LEMMA ReleaseSourceDoes ==
  ASSUME TypeInv, NEW p \in Procs, ReleaseSource(p), NEW o \in Orders, o = job[p].o
  PROVE  ReleaseSourceWrites(p, o)
BY AtWork, HoldLess, MovesOn, Kept, TidyIf
DEF ReleaseSource, IsAt, quidaxVars, outsideVars, Steps, ReleaseSourceWrites

(* What complete_sell writes. *)
complete_sellWrites(p, o) ==
    /\ Tidy(p, o) /\ external' = external /\ past' = past /\ job[p].at = "sold"
    /\ \/ /\ row[o].status = "COMPLETED" /\ row' = row /\ acct' = acct /\ fills' = fills
          /\ conversion' = conversion /\ job'[p] = Idle
       \/ /\ row[o].status # "COMPLETED"
          /\ RowIs(o, "COMPLETED", row[o].needs_review, row[o].sold, row[o].quotation,
                 row[o].swap, row[o].paid, row[o].refunded)
          /\ AcctIs(o, acct[o].taken, acct[o].hold - 1, acct[o].got + 1) /\ fills' = fills
          /\ conversion' = conversion /\ job'[p] = Idle

(* complete_sell writes no more than that. *)
LEMMA complete_sellDoes ==
  ASSUME TypeInv, NEW p \in Procs, complete_sell(p), NEW o \in Orders, o = job[p].o
  PROVE  complete_sellWrites(p, o)
BY AtWork, StopsAt, StatusIs, RowTypes, JobTypes, HoldAndGotAre, Kept, TidyIf
DEF complete_sell, IsAt, quidaxVars, outsideVars, Statuses, complete_sellWrites

(* What execute_quidax_swap writes. *)
execute_quidax_swapWrites(p, o) ==
    /\ Tidy(p, o) /\ external' = external /\ past' = past /\ job[p].at = "soldleg"
    /\ \/ /\ row[o].kind = "swap"
          /\ RowIs(o, row[o].status, row[o].needs_review, TRUE, row[o].quotation, row[o].swap,
                 row[o].paid, row[o].refunded)
          /\ acct' = acct /\ fills' = fills /\ conversion' = conversion
          /\ Moves(p, "buyleg", job[p].n)
       \/ /\ row[o].kind # "swap"
          /\ RowIs(o, row[o].status, row[o].needs_review, TRUE, row[o].quotation, row[o].swap,
                 row[o].paid, row[o].refunded)
          /\ acct' = acct /\ fills' = fills /\ conversion' = conversion
          /\ Moves(p, "spend-quote", job[p].n)

(* execute_quidax_swap writes no more than that. *)
LEMMA execute_quidax_swapDoes ==
  ASSUME TypeInv, NEW p \in Procs, _execute_quidax_swap(p), NEW o \in Orders, o = job[p].o
  PROVE  execute_quidax_swapWrites(p, o)
BY AtWork, SoldIs, MovesOn, Kept, TidyIf
DEF _execute_quidax_swap, IsAt, quidaxVars, outsideVars, Steps, execute_quidax_swapWrites

(* What SpendSource writes. *)
SpendSourceWrites(p, o) ==
    /\ Tidy(p, o) /\ external' = external /\ past' = past
    /\ \/ /\ job[p].at = "spend-quote" /\ row' = row
          /\ AcctIs(o, acct[o].taken, acct[o].hold - 1, acct[o].got) /\ fills' = fills
          /\ conversion' = conversion /\ Moves(p, "quote", job[p].n)
       \/ /\ job[p].at = "spend-flag" /\ row' = row
          /\ AcctIs(o, acct[o].taken, acct[o].hold - 1, acct[o].got) /\ fills' = fills
          /\ conversion' = conversion /\ Moves(p, "flag", job[p].n)
       \/ /\ job[p].at = "spend-refund" /\ row' = row
          /\ AcctIs(o, acct[o].taken, acct[o].hold - 1, acct[o].got) /\ fills' = fills
          /\ conversion' = conversion /\ Moves(p, "refundngn", job[p].n)

(* SpendSource writes no more than that. *)
LEMMA SpendSourceDoes ==
  ASSUME TypeInv, NEW p \in Procs, SpendSource(p), NEW o \in Orders, o = job[p].o
  PROVE  SpendSourceWrites(p, o)
BY AtWork, HoldLess, MovesOn, Kept, TidyIf
DEF SpendSource, IsAt, quidaxVars, outsideVars, Steps, SpendSourceWrites

(* What refund_failed_swap_as_ngn writes. *)
refund_failed_swap_as_ngnWrites(p, o) ==
    /\ Tidy(p, o) /\ external' = external /\ past' = past /\ job[p].at = "refundngn"
    /\ \/ /\ Closed(o) /\ row[o].kind = "legswap" /\ row' = row /\ acct' = acct
          /\ fills' = fills /\ conversion' = conversion /\ Moves(p, "clear", job[p].n)
       \/ /\ Closed(o) /\ row[o].kind # "legswap" /\ row' = row /\ acct' = acct
          /\ fills' = fills /\ conversion' = conversion /\ job'[p] = Idle
       \/ /\ ~Closed(o) /\ row[o].kind = "legswap"
          /\ RowIs(o, "FAILED", row[o].needs_review, row[o].sold, row[o].quotation, row[o].swap,
                 row[o].paid, row[o].refunded)
          /\ AcctIs(o, acct[o].taken, acct[o].hold, acct[o].got + 1) /\ fills' = fills
          /\ conversion' = conversion /\ Moves(p, "clear", job[p].n)
       \/ /\ ~Closed(o) /\ row[o].kind # "legswap"
          /\ RowIs(o, "FAILED", row[o].needs_review, row[o].sold, row[o].quotation, row[o].swap,
                 row[o].paid, row[o].refunded)
          /\ AcctIs(o, acct[o].taken, acct[o].hold, acct[o].got + 1) /\ fills' = fills
          /\ conversion' = conversion /\ job'[p] = Idle

(* refund_failed_swap_as_ngn writes no more than that. *)
LEMMA refund_failed_swap_as_ngnDoes ==
  ASSUME TypeInv, NEW p \in Procs, _refund_failed_swap_as_ngn(p), NEW o \in Orders, o = job[p].o
  PROVE  refund_failed_swap_as_ngnWrites(p, o)
BY AtWork, MovesOn, StopsAt, StatusIs, RowTypes, JobTypes, GotMore, Kept, TidyIf
DEF _refund_failed_swap_as_ngn, IsAt, quidaxVars, outsideVars, Steps, Statuses,
   refund_failed_swap_as_ngnWrites

(* What LogCompensated writes. *)
LogCompensatedWrites(p, o) ==
    /\ Tidy(p, o) /\ external' = external /\ past' = past /\ job[p].at = "log"
    /\ RowIs(o, row[o].status, row[o].needs_review, row[o].sold, row[o].quotation, row[o].swap,
           row[o].paid, row[o].refunded) /\ row'[o].claimed = row[o].claimed
               /\ row'[o].compensated = TRUE
    /\ acct' = acct /\ fills' = fills /\ conversion' = conversion /\ job'[p] = Idle

(* LogCompensated writes no more than that. *)
LEMMA LogCompensatedDoes ==
  ASSUME TypeInv, NEW p \in Procs, LogCompensated(p), NEW o \in Orders, o = job[p].o
  PROVE  LogCompensatedWrites(p, o)
BY AtWork, CompensatedIs, StopsAt, Kept, TidyIf
DEF LogCompensated, IsAt, quidaxVars, outsideVars, ClaimIs, LogCompensatedWrites

(* What BuyBackRaised writes. *)
BuyBackRaisedWrites(p, o) ==
    /\ Tidy(p, o) /\ external' = external /\ past' = past
    /\ \/ /\ job[p].at = "unclaim"
          /\ RowIs(o, row[o].status, row[o].needs_review, row[o].sold, row[o].quotation,
                 row[o].swap, row[o].paid, row[o].refunded) /\ row'[o].claimed = FALSE
                     /\ row'[o].compensated = row[o].compensated
          /\ acct' = acct /\ fills' = fills /\ conversion' = conversion /\ job'[p] = Idle
       \/ /\ job[p].at = "unanswered" /\ row' = row /\ acct' = acct /\ fills' = fills
          /\ conversion' = conversion /\ job'[p] = Idle

(* BuyBackRaised writes no more than that. *)
LEMMA BuyBackRaisedDoes ==
  ASSUME TypeInv, NEW p \in Procs, BuyBackRaised(p), NEW o \in Orders, o = job[p].o
  PROVE  BuyBackRaisedWrites(p, o)
BY AtWork, ClaimedIs, StopsAt, Kept, TidyIf
DEF BuyBackRaised, IsAt, quidaxVars, outsideVars, ClaimIs, BuyBackRaisedWrites

(* What LogRefund writes. *)
LogRefundWrites(p, o) ==
    /\ Tidy(p, o) /\ external' = external /\ past' = past /\ job[p].at = "refunded"
    /\ \/ /\ row[o].kind = "instantbuy"
          /\ RowIs(o, row[o].status, row[o].needs_review, row[o].sold, row[o].quotation,
                 row[o].swap, row[o].paid, row[o].refunded + 1)
          /\ acct' = acct /\ fills' = fills /\ conversion' = conversion
          /\ Moves(p, "clear", job[p].n)
       \/ /\ row[o].kind # "instantbuy"
          /\ RowIs(o, row[o].status, row[o].needs_review, row[o].sold, row[o].quotation,
                 row[o].swap, row[o].paid, row[o].refunded + 1)
          /\ acct' = acct /\ fills' = fills /\ conversion' = conversion /\ job'[p] = Idle

(* LogRefund writes no more than that. *)
LEMMA LogRefundDoes ==
  ASSUME TypeInv, NEW p \in Procs, LogRefund(p), NEW o \in Orders, o = job[p].o
  PROVE  LogRefundWrites(p, o)
BY AtWork, RefundedIs, MovesOn, StopsAt, Kept, TidyIf
DEF LogRefund, IsAt, quidaxVars, outsideVars, Afterwards, Steps, LogRefundWrites

(* What ClearReview writes. *)
ClearReviewWrites(p, o) ==
    /\ Tidy(p, o) /\ external' = external /\ past' = past /\ job[p].at = "clear"
    /\ RowIs(o, row[o].status, FALSE, row[o].sold, row[o].quotation, row[o].swap, row[o].paid,
           row[o].refunded)
    /\ acct' = acct /\ fills' = fills /\ conversion' = conversion /\ job'[p] = Idle

(* ClearReview writes no more than that. *)
LEMMA ClearReviewDoes ==
  ASSUME TypeInv, NEW p \in Procs, ClearReview(p), NEW o \in Orders, o = job[p].o
  PROVE  ClearReviewWrites(p, o)
BY AtWork, ReviewIs, StopsAt, Kept, TidyIf
DEF ClearReview, IsAt, quidaxVars, outsideVars, ClearReviewWrites

(* What flag_for_review writes. *)
flag_for_reviewWrites(p, o) ==
    /\ Tidy(p, o) /\ external' = external /\ past' = past /\ job[p].at = "flag"
    /\ \/ /\ Closed(o) /\ row' = row /\ acct' = acct /\ fills' = fills
          /\ conversion' = conversion /\ job'[p] = Idle
       \/ /\ ~Closed(o)
          /\ RowIs(o, "PROCESSING", TRUE, row[o].sold, row[o].quotation, row[o].swap, row[o].paid,
                 row[o].refunded)
          /\ acct' = acct /\ fills' = fills /\ conversion' = conversion /\ job'[p] = Idle

(* flag_for_review writes no more than that. *)
LEMMA flag_for_reviewDoes ==
  ASSUME TypeInv, NEW p \in Procs, _flag_for_review(p), NEW o \in Orders, o = job[p].o
  PROVE  flag_for_reviewWrites(p, o)
BY AtWork, StopsAt, StatusAndReviewAre, RowTypes, JobTypes, Kept, TidyIf
DEF _flag_for_review, IsAt, quidaxVars, outsideVars, Statuses, flag_for_reviewWrites

(* What StoreSwapId writes. *)
StoreSwapIdWrites(p, o) ==
    /\ Tidy(p, o) /\ external' = external /\ past' = past /\ job[p].at = "confirmed"
    /\ RowIs(o, row[o].status, row[o].needs_review, row[o].sold, row[o].quotation, job[p].n,
           row[o].paid, row[o].refunded)
    /\ acct' = acct /\ fills' = fills /\ conversion' = conversion /\ Moves(p, "await", job[p].n)

(* StoreSwapId writes no more than that. *)
LEMMA StoreSwapIdDoes ==
  ASSUME TypeInv, NEW p \in Procs, StoreSwapId(p), NEW o \in Orders, o = job[p].o
  PROVE  StoreSwapIdWrites(p, o)
BY AtWork, SwapIs, RowTypes, JobTypes, MovesOn, Kept, TidyIf
DEF StoreSwapId, IsAt, quidaxVars, outsideVars, Steps, StoreSwapIdWrites

(* What release_instant_swap writes. *)
release_instant_swapWrites(p, o) ==
    /\ Tidy(p, o) /\ external' = external /\ past' = past /\ job[p].at = "giveback"
    /\ \/ /\ Closed(o) /\ row' = row /\ acct' = acct /\ fills' = fills
          /\ conversion' = conversion /\ job'[p] = Idle
       \/ /\ ~Closed(o)
          /\ RowIs(o, "FAILED", FALSE, row[o].sold, row[o].quotation, row[o].swap, row[o].paid,
                 row[o].refunded)
          /\ AcctIs(o, acct[o].taken, acct[o].hold - 1, acct[o].got) /\ fills' = fills
          /\ conversion' = conversion /\ job'[p] = Idle

(* release_instant_swap writes no more than that. *)
LEMMA release_instant_swapDoes ==
  ASSUME TypeInv, NEW p \in Procs, _release_instant_swap(p), NEW o \in Orders, o = job[p].o
  PROVE  release_instant_swapWrites(p, o)
BY AtWork, StopsAt, StatusAndReviewAre, RowTypes, JobTypes, HoldLess, Kept, TidyIf
DEF _release_instant_swap, IsAt, quidaxVars, outsideVars, Statuses, release_instant_swapWrites

(* What Unusable writes. *)
UnusableWrites(p, o) ==
    /\ Tidy(p, o) /\ external' = external /\ past' = past /\ job[p].at = "converted"
    /\ job[p].n > 0 /\ row' = row /\ acct' = acct /\ fills' = fills /\ conversion' = conversion
    /\ Moves(p, "flag", job[p].n)

(* Unusable writes no more than that. *)
LEMMA UnusableDoes ==
  ASSUME TypeInv, NEW p \in Procs, Unusable(p), NEW o \in Orders, o = job[p].o
  PROVE  UnusableWrites(p, o)
BY AtWork, MovesOn, Kept, TidyIf
DEF Unusable, IsAt, quidaxVars, outsideVars, Steps, UnusableWrites

ConversionIs(o, n, c) ==
    /\ conversion'[o][n] = c
    /\ \A m \in Quotations : m # n => conversion'[o][m] = conversion[o][m]
Becomes(o, n, c) == n \in Quotations => ConversionIs(o, n, c)

(* Proceeds credited when the coins had been spent before. *)
LEMMA HoldKeptAndGot ==
  ASSUME TypeInv, NEW o \in Orders,
         acct' = [acct EXCEPT ![o].hold = acct[o].hold - 0, ![o].got = acct[o].got + 1]
  PROVE  /\ OnlyAcct(o)
         /\ AcctIs(o, acct[o].taken, acct[o].hold, acct[o].got + 1)
<1>1. acct[o] \in Accounts /\ acct[o].hold - 0 = acct[o].hold /\ acct[o].got + 1 \in Nat
  BY BookTypes DEF TypeInv, BookTypeOK, Accounts
<1> QED BY <1>1 DEF TypeInv, BookTypeOK, Accounts, AcctIs, OnlyAcct

(* What becomes of a quotation. *)
LEMMA Sent ==
  ASSUME TypeInv, NEW o \in Orders, NEW n \in 0..MaxQuotations,
         NEW c \in {"processing", "completed", "failed", "refused", "lost"},
         conversion' = [conversion EXCEPT ![o][n] = c]
  PROVE  /\ OnlyConversion(o)
         /\ Becomes(o, n, c)
BY DEF OnlyConversion, Becomes, TypeInv, BookTypeOK, ConversionTypes, ConversionIs

(* A process that goes on to confirm a quotation. *)
LEMMA ConfirmsIt ==
  ASSUME TypeInv, NEW p \in Procs, job[p] # Idle, NEW n \in Quotations,
         job' = [job EXCEPT ![p].at = "confirm", ![p].n = n]
  PROVE  OnlyJob(p) /\ Moves(p, "confirm", n)
<1> DEFINE j == [job[p] EXCEPT !.at = "confirm", !.n = n]
<1>1. job[p] \in Jobs
  BY DEF TypeInv, BookTypeOK
<1>2. "confirm" \in Steps /\ n \in 0..MaxQuotations
  BY OrderAssumption DEF Steps, Quotations, MaxQuotations
<1>3. /\ j \in Jobs /\ j.at = "confirm" /\ j.n = n /\ j.o = job[p].o
      /\ j.refund = job[p].refund /\ j.by = job[p].by
  BY <1>1, <1>2 DEF Jobs
<1>4. job' = [job EXCEPT ![p] = j]
  OBVIOUS
<1> HIDE DEF j
<1>5. job' \in [Procs -> Jobs] /\ job'[p] = j /\ Others(p)
  BY <1>3, <1>4 DEF TypeInv, BookTypeOK, Others
<1> QED BY <1>3, <1>5, JobTypes DEF OnlyJob, Moves, Others, JobsAreOnOrders, TypeInv

(* A market sell that Quidax filled. *)
LEMMA SoldIsFilled ==
  ASSUME TypeInv, NEW o \in Orders, fills' = [fills EXCEPT ![o].sold = @ + 1, ![o].last = TRUE]
  PROVE  /\ OnlyFills(o)
         /\ FillsAre(o, fills[o].sold + 1, fills[o].bought, TRUE)
<1>1. fills[o] \in FillsTypes /\ fills[o].sold + 1 \in Nat /\ fills[o].bought + 1 \in Nat
  BY BookTypes DEF TypeInv, BookTypeOK, FillsTypes
<1> QED BY <1>1 DEF TypeInv, BookTypeOK, FillsTypes, FillsAre, OnlyFills

(* A market buy that Quidax filled. *)
LEMMA BoughtIsFilled ==
  ASSUME TypeInv, NEW o \in Orders, fills' = [fills EXCEPT ![o].bought = @ + 1, ![o].last = TRUE]
  PROVE  /\ OnlyFills(o)
         /\ FillsAre(o, fills[o].sold, fills[o].bought + 1, TRUE)
<1>1. fills[o] \in FillsTypes /\ fills[o].sold + 1 \in Nat /\ fills[o].bought + 1 \in Nat
  BY BookTypes DEF TypeInv, BookTypeOK, FillsTypes
<1> QED BY <1>1 DEF TypeInv, BookTypeOK, FillsTypes, FillsAre, OnlyFills

(* A market order that Quidax did not fill. *)
LEMMA NothingIsFilled ==
  ASSUME TypeInv, NEW o \in Orders, fills' = [fills EXCEPT ![o].last = FALSE]
  PROVE  /\ OnlyFills(o)
         /\ FillsAre(o, fills[o].sold, fills[o].bought, FALSE)
<1>1. fills[o] \in FillsTypes /\ fills[o].sold + 1 \in Nat /\ fills[o].bought + 1 \in Nat
  BY BookTypes DEF TypeInv, BookTypeOK, FillsTypes
<1> QED BY <1>1 DEF TypeInv, BookTypeOK, FillsTypes, FillsAre, OnlyFills

(* What fail_order writes. *)
fail_orderWrites(p, o) ==
    /\ Tidy(p, o) /\ external' = external /\ past' = past /\ job[p].at = "refuse"
    /\ \/ /\ Closed(o) /\ row[o].kind = "instantbuy" /\ row' = row /\ acct' = acct
          /\ fills' = fills /\ conversion' = conversion /\ Moves(p, "clear", job[p].n)
       \/ /\ Closed(o) /\ row[o].kind # "instantbuy" /\ row' = row /\ acct' = acct
          /\ fills' = fills /\ conversion' = conversion /\ job'[p] = Idle
       \/ /\ ~Closed(o) /\ Refunds(p)
          /\ RowIs(o, "FAILED", row[o].needs_review, row[o].sold, row[o].quotation, row[o].swap,
                 row[o].paid, row[o].refunded)
          /\ AcctIs(o, acct[o].taken - 1, acct[o].hold, acct[o].got) /\ fills' = fills
          /\ conversion' = conversion /\ Moves(p, "refunded", job[p].n)
       \/ /\ ~Closed(o) /\ ~Refunds(p) /\ row[o].kind = "instantbuy"
          /\ RowIs(o, "FAILED", row[o].needs_review, row[o].sold, row[o].quotation, row[o].swap,
                 row[o].paid, row[o].refunded)
          /\ acct' = acct /\ fills' = fills /\ conversion' = conversion
          /\ Moves(p, "clear", job[p].n)
       \/ /\ ~Closed(o) /\ ~Refunds(p) /\ row[o].kind # "instantbuy"
          /\ RowIs(o, "FAILED", row[o].needs_review, row[o].sold, row[o].quotation, row[o].swap,
                 row[o].paid, row[o].refunded)
          /\ acct' = acct /\ fills' = fills /\ conversion' = conversion /\ job'[p] = Idle

(* fail_order writes no more than that. *)
LEMMA fail_orderDoes ==
  ASSUME TypeInv, NEW p \in Procs, _fail_order(p), NEW o \in Orders, o = job[p].o
  PROVE  fail_orderWrites(p, o)
BY AtWork, MovesOn, StopsAt, StatusIs, RowTypes, JobTypes, TakenLess, Kept, TidyIf
DEF _fail_order, IsAt, quidaxVars, outsideVars, Afterwards, Steps, Statuses, fail_orderWrites

(* What await_swap writes. *)
await_swapWrites(p, o) ==
    /\ Tidy(p, o) /\ external' = external /\ past' = past /\ job[p].at = "await"
    /\ \/ /\ conversion[o][job[p].n] \in Ended /\ row' = row /\ acct' = acct /\ fills' = fills
          /\ conversion' = conversion /\ Moves(p, Outcome(o, job[p].n), job[p].n)
       \/ /\ row' = row /\ acct' = acct /\ fills' = fills /\ conversion' = conversion
          /\ job'[p] = Idle

(* await_swap writes no more than that. *)
LEMMA await_swapDoes ==
  ASSUME TypeInv, NEW p \in Procs, _await_swap(p), NEW o \in Orders, o = job[p].o
  PROVE  await_swapWrites(p, o)
BY AtWork, MovesOn, StopsAt, Kept, TidyIf
DEF _await_swap, IsAt, quidaxVars, outsideVars, Steps, Unconverted, Outcome, await_swapWrites

(* What execute_instant_swap writes. *)
execute_instant_swapWrites(p, o) ==
    /\ Tidy(p, o) /\ external' = external /\ past' = past /\ job[p].at = "quote"
    /\ \/ /\ row[o].kind = "instantswap" /\ row' = row /\ acct' = acct /\ fills' = fills
          /\ conversion' = conversion /\ Moves(p, "giveback", job[p].n)
       \/ /\ row[o].kind = "instantswap" /\ row[o].quotation + 1 \in Quotations
          /\ RowIs(o, row[o].status, row[o].needs_review, row[o].sold, row[o].quotation + 1,
                 row[o].swap, row[o].paid, row[o].refunded)
          /\ acct' = acct /\ fills' = fills /\ conversion' = conversion
          /\ Moves(p, "confirm", row[o].quotation + 1)

(* execute_instant_swap writes no more than that. *)
LEMMA execute_instant_swapDoes ==
  ASSUME TypeInv, NEW p \in Procs, _execute_instant_swap(p), NEW o \in Orders, o = job[p].o
  PROVE  execute_instant_swapWrites(p, o)
<1>1. /\ external' = external /\ past' = past /\ crashes' = crashes /\ job[p].at = "quote"
      /\ \/ /\ row[o].kind = "instantswap" /\ row' = row /\ acct' = acct /\ fills' = fills
            /\ conversion' = conversion /\ Goes(p, "giveback")
         \/ /\ row[o].kind = "instantswap" /\ row[o].quotation + 1 \in Quotations
            /\ row' = [row EXCEPT ![o] = [row[o] EXCEPT !.quotation = row[o].quotation + 1]]
            /\ acct' = acct /\ fills' = fills /\ conversion' = conversion
            /\ job' = [job EXCEPT ![p].at = "confirm", ![p].n = row[o].quotation + 1]
  BY DEF _execute_instant_swap, IsAt, quidaxVars, outsideVars, Quotes, QuoteFails, Unconverted
<1>2. job[p] # Idle
  BY AtWork
<1>3. CASE /\ row[o].kind = "instantswap" /\ row' = row /\ acct' = acct /\ fills' = fills
           /\ conversion' = conversion /\ Goes(p, "giveback")
  BY <1>1, <1>2, <1>3, MovesOn, Kept, TidyIf DEF Steps, execute_instant_swapWrites
<1>4. CASE /\ row[o].kind = "instantswap" /\ row[o].quotation + 1 \in Quotations
           /\ row' = [row EXCEPT ![o] = [row[o] EXCEPT !.quotation = row[o].quotation + 1]]
           /\ acct' = acct /\ fills' = fills /\ conversion' = conversion
           /\ job' = [job EXCEPT ![p].at = "confirm", ![p].n = row[o].quotation + 1]
  <2>1. row[o].quotation + 1 \in 0..MaxQuotations
    BY <1>4 DEF Quotations, MaxQuotations
<2> QED BY <1>1, <1>2, <1>4, <2>1, QuotationIs, ConfirmsIt, Kept, TidyIf DEF
     execute_instant_swapWrites
<1> QED BY <1>1, <1>3, <1>4

(* What execute_swap_buy_leg_instant writes. *)
execute_swap_buy_leg_instantWrites(p, o) ==
    /\ Tidy(p, o) /\ external' = external /\ past' = past /\ job[p].at = "quote"
    /\ \/ /\ row[o].kind = "legswap" /\ row' = row /\ acct' = acct /\ fills' = fills
          /\ conversion' = conversion /\ Moves(p, "refundngn", job[p].n)
       \/ /\ row[o].kind = "legswap" /\ row[o].quotation + 1 \in Quotations
          /\ RowIs(o, row[o].status, row[o].needs_review, row[o].sold, row[o].quotation + 1,
                 row[o].swap, row[o].paid, row[o].refunded)
          /\ acct' = acct /\ fills' = fills /\ conversion' = conversion
          /\ Moves(p, "confirm", row[o].quotation + 1)

(* execute_swap_buy_leg_instant writes no more than that. *)
LEMMA execute_swap_buy_leg_instantDoes ==
  ASSUME TypeInv, NEW p \in Procs, _execute_swap_buy_leg_instant(p), NEW o \in Orders,
         o = job[p].o
  PROVE  execute_swap_buy_leg_instantWrites(p, o)
<1>1. /\ external' = external /\ past' = past /\ crashes' = crashes /\ job[p].at = "quote"
      /\ \/ /\ row[o].kind = "legswap" /\ row' = row /\ acct' = acct /\ fills' = fills
            /\ conversion' = conversion /\ Goes(p, "refundngn")
         \/ /\ row[o].kind = "legswap" /\ row[o].quotation + 1 \in Quotations
            /\ row' = [row EXCEPT ![o] = [row[o] EXCEPT !.quotation = row[o].quotation + 1]]
            /\ acct' = acct /\ fills' = fills /\ conversion' = conversion
            /\ job' = [job EXCEPT ![p].at = "confirm", ![p].n = row[o].quotation + 1]
BY DEF _execute_swap_buy_leg_instant, IsAt, quidaxVars, outsideVars, Quotes, QuoteFails,
   Unconverted
<1>2. job[p] # Idle
  BY AtWork
<1>3. CASE /\ row[o].kind = "legswap" /\ row' = row /\ acct' = acct /\ fills' = fills
           /\ conversion' = conversion /\ Goes(p, "refundngn")
  BY <1>1, <1>2, <1>3, MovesOn, Kept, TidyIf DEF Steps, execute_swap_buy_leg_instantWrites
<1>4. CASE /\ row[o].kind = "legswap" /\ row[o].quotation + 1 \in Quotations
           /\ row' = [row EXCEPT ![o] = [row[o] EXCEPT !.quotation = row[o].quotation + 1]]
           /\ acct' = acct /\ fills' = fills /\ conversion' = conversion
           /\ job' = [job EXCEPT ![p].at = "confirm", ![p].n = row[o].quotation + 1]
  <2>1. row[o].quotation + 1 \in 0..MaxQuotations
    BY <1>4 DEF Quotations, MaxQuotations
<2> QED BY <1>1, <1>2, <1>4, <2>1, QuotationIs, ConfirmsIt, Kept, TidyIf DEF
     execute_swap_buy_leg_instantWrites
<1> QED BY <1>1, <1>3, <1>4

(* What execute_instant_buy writes. *)
execute_instant_buyWrites(p, o) ==
    /\ Tidy(p, o) /\ external' = external /\ past' = past /\ job[p].at = "buy"
    /\ \/ /\ row[o].kind = "instantbuy" /\ row' = row /\ acct' = acct /\ fills' = fills
          /\ conversion' = conversion /\ Moves(p, "refuse", job[p].n)
       \/ /\ row[o].kind = "instantbuy" /\ row[o].quotation + 1 \in Quotations
          /\ RowIs(o, "PROCESSING", row[o].needs_review, row[o].sold, row[o].quotation + 1, 0,
                 row[o].paid, row[o].refunded)
          /\ acct' = acct /\ fills' = fills /\ conversion' = conversion
          /\ Moves(p, "confirm", row[o].quotation + 1)

(* execute_instant_buy writes no more than that. *)
LEMMA execute_instant_buyDoes ==
  ASSUME TypeInv, NEW p \in Procs, _execute_instant_buy(p), NEW o \in Orders, o = job[p].o
  PROVE  execute_instant_buyWrites(p, o)
<1>1. /\ external' = external /\ past' = past /\ crashes' = crashes /\ job[p].at = "buy"
      /\ \/ /\ row[o].kind = "instantbuy" /\ row' = row /\ acct' = acct /\ fills' = fills
            /\ conversion' = conversion /\ Goes(p, "refuse")
         \/ /\ row[o].kind = "instantbuy" /\ row[o].quotation + 1 \in Quotations
            /\ row'
                   = [row EXCEPT ![o]
                       = [[row[o] EXCEPT !.swap = 0, !.status = "PROCESSING"] EXCEPT !.quotation
                           = row[o].quotation + 1]]
            /\ acct' = acct /\ fills' = fills /\ conversion' = conversion
            /\ job' = [job EXCEPT ![p].at = "confirm", ![p].n = row[o].quotation + 1]
  BY DEF _execute_instant_buy, IsAt, quidaxVars, outsideVars, Quotes, QuoteFails, Unconverted
<1>2. job[p] # Idle
  BY AtWork
<1>3. CASE /\ row[o].kind = "instantbuy" /\ row' = row /\ acct' = acct /\ fills' = fills
           /\ conversion' = conversion /\ Goes(p, "refuse")
  BY <1>1, <1>2, <1>3, MovesOn, Kept, TidyIf DEF Steps, execute_instant_buyWrites
<1>4. CASE /\ row[o].kind = "instantbuy" /\ row[o].quotation + 1 \in Quotations
           /\ row'
                  = [row EXCEPT ![o]
                      = [[row[o] EXCEPT !.swap = 0, !.status = "PROCESSING"] EXCEPT !.quotation
                          = row[o].quotation + 1]]
           /\ acct' = acct /\ fills' = fills /\ conversion' = conversion
           /\ job' = [job EXCEPT ![p].at = "confirm", ![p].n = row[o].quotation + 1]
  <2>1. row[o].quotation + 1 \in 0..MaxQuotations
    BY <1>4 DEF Quotations, MaxQuotations
<2> QED BY <1>1, <1>2, <1>4, <2>1, BuyIsQuoted, ConfirmsIt, Kept, TidyIf DEF
     execute_instant_buyWrites
<1> QED BY <1>1, <1>3, <1>4

(* What confirm_swap_quotation writes. *)
confirm_swap_quotationWrites(p, o) ==
    /\ Tidy(p, o) /\ external' = external /\ past' = past /\ job[p].at = "confirm"
    /\ \/ /\ row' = row /\ acct' = acct /\ fills' = fills /\ Becomes(o, job[p].n, "processing")
          /\ Moves(p, "confirmed", job[p].n)
       \/ /\ row' = row /\ acct' = acct /\ fills' = fills /\ Becomes(o, job[p].n, "processing")
          /\ Moves(p, "flag", job[p].n)
       \/ /\ row' = row /\ acct' = acct /\ fills' = fills /\ Becomes(o, job[p].n, "refused")
          /\ Moves(p, Unconverted(row[o].kind), job[p].n)
       \/ /\ row' = row /\ acct' = acct /\ fills' = fills /\ Becomes(o, job[p].n, "lost")
          /\ Moves(p, "flag", job[p].n)

(* confirm_swap_quotation writes no more than that. *)
LEMMA confirm_swap_quotationDoes ==
  ASSUME TypeInv, NEW p \in Procs, confirm_swap_quotation(p), NEW o \in Orders, o = job[p].o
  PROVE  confirm_swap_quotationWrites(p, o)
BY AtWork, JobTypes, Sent, MovesOn, Kept, TidyIf
DEF confirm_swap_quotation, IsAt, quidaxVars, outsideVars, Steps, Unconverted, Outcome,
   confirm_swap_quotationWrites

(* What finalize_instant_swap writes. *)
finalize_instant_swapWrites(p, o) ==
    /\ Tidy(p, o) /\ external' = external /\ past' = past /\ job[p].at = "converted"
    /\ \/ /\ row[o].kind = "instantswap" /\ Closed(o) /\ row' = row /\ acct' = acct
          /\ fills' = fills /\ conversion' = conversion /\ job'[p] = Idle
       \/ /\ row[o].kind = "instantswap" /\ ~Closed(o) /\ job[p].n > 0
          /\ RowIs(o, "COMPLETED", FALSE, row[o].sold, row[o].quotation, job[p].n, row[o].paid,
                 row[o].refunded)
          /\ AcctIs(o, acct[o].taken, acct[o].hold - 1, acct[o].got + 1) /\ fills' = fills
          /\ conversion' = conversion /\ job'[p] = Idle
       \/ /\ row[o].kind = "instantswap" /\ ~Closed(o) /\ ~(job[p].n > 0)
          /\ RowIs(o, "COMPLETED", FALSE, row[o].sold, row[o].quotation, row[o].swap, row[o].paid,
                 row[o].refunded)
          /\ AcctIs(o, acct[o].taken, acct[o].hold - 1, acct[o].got + 1) /\ fills' = fills
          /\ conversion' = conversion /\ job'[p] = Idle

(* finalize_instant_swap writes no more than that. *)
LEMMA finalize_instant_swapDoes ==
  ASSUME TypeInv, NEW p \in Procs, _finalize_instant_swap(p), NEW o \in Orders, o = job[p].o
  PROVE  finalize_instant_swapWrites(p, o)
BY AtWork, StopsAt, CreditIs, RowTypes, JobTypes, HoldAndGotAre, Kept, TidyIf
DEF _finalize_instant_swap, IsAt, quidaxVars, outsideVars, Credits, finalize_instant_swapWrites

(* What finalize_instant_buy writes. *)
finalize_instant_buyWrites(p, o) ==
    /\ Tidy(p, o) /\ external' = external /\ past' = past /\ job[p].at = "converted"
    /\ \/ /\ row[o].kind = "instantbuy" /\ Closed(o) /\ row' = row /\ acct' = acct
          /\ fills' = fills /\ conversion' = conversion /\ job'[p] = Idle
       \/ /\ row[o].kind = "instantbuy" /\ ~Closed(o) /\ job[p].n > 0
          /\ RowIs(o, "COMPLETED", FALSE, row[o].sold, row[o].quotation, job[p].n, row[o].paid,
                 row[o].refunded)
          /\ AcctIs(o, acct[o].taken, acct[o].hold, acct[o].got + 1) /\ fills' = fills
          /\ conversion' = conversion /\ job'[p] = Idle
       \/ /\ row[o].kind = "instantbuy" /\ ~Closed(o) /\ ~(job[p].n > 0)
          /\ RowIs(o, "COMPLETED", FALSE, row[o].sold, row[o].quotation, row[o].swap, row[o].paid,
                 row[o].refunded)
          /\ AcctIs(o, acct[o].taken, acct[o].hold, acct[o].got + 1) /\ fills' = fills
          /\ conversion' = conversion /\ job'[p] = Idle

(* finalize_instant_buy writes no more than that. *)
LEMMA finalize_instant_buyDoes ==
  ASSUME TypeInv, NEW p \in Procs, _finalize_instant_buy(p), NEW o \in Orders, o = job[p].o
  PROVE  finalize_instant_buyWrites(p, o)
BY AtWork, StopsAt, CreditIs, RowTypes, JobTypes, HoldKeptAndGot, Kept, TidyIf
DEF _finalize_instant_buy, IsAt, quidaxVars, outsideVars, Credits, finalize_instant_buyWrites

(* What finalize_swap_buy_leg writes. *)
finalize_swap_buy_legWrites(p, o) ==
    /\ Tidy(p, o) /\ external' = external /\ past' = past /\ job[p].at = "converted"
    /\ \/ /\ row[o].kind = "legswap" /\ Closed(o) /\ row' = row /\ acct' = acct
          /\ fills' = fills /\ conversion' = conversion /\ job'[p] = Idle
       \/ /\ row[o].kind = "legswap" /\ ~Closed(o) /\ job[p].n > 0
          /\ RowIs(o, "COMPLETED", FALSE, row[o].sold, row[o].quotation, job[p].n, row[o].paid,
                 row[o].refunded)
          /\ AcctIs(o, acct[o].taken, acct[o].hold, acct[o].got + 1) /\ fills' = fills
          /\ conversion' = conversion /\ job'[p] = Idle
       \/ /\ row[o].kind = "legswap" /\ ~Closed(o) /\ ~(job[p].n > 0)
          /\ RowIs(o, "COMPLETED", FALSE, row[o].sold, row[o].quotation, row[o].swap, row[o].paid,
                 row[o].refunded)
          /\ AcctIs(o, acct[o].taken, acct[o].hold, acct[o].got + 1) /\ fills' = fills
          /\ conversion' = conversion /\ job'[p] = Idle

(* finalize_swap_buy_leg writes no more than that. *)
LEMMA finalize_swap_buy_legDoes ==
  ASSUME TypeInv, NEW p \in Procs, _finalize_swap_buy_leg(p), NEW o \in Orders, o = job[p].o
  PROVE  finalize_swap_buy_legWrites(p, o)
BY AtWork, StopsAt, CreditIs, RowTypes, JobTypes, HoldKeptAndGot, Kept, TidyIf
DEF _finalize_swap_buy_leg, IsAt, quidaxVars, outsideVars, Credits, finalize_swap_buy_legWrites

(* What complete_swap writes. *)
complete_swapWrites(p, o) ==
    /\ Tidy(p, o) /\ external' = external /\ past' = past
    /\ \/ /\ job[p].at = "bookleg" /\ row[o].status = "COMPLETED" /\ row' = row /\ acct' = acct
          /\ fills' = fills /\ conversion' = conversion /\ job'[p] = Idle
       \/ /\ job[p].at = "bookleg" /\ row[o].status # "COMPLETED"
          /\ RowIs(o, "COMPLETED", row[o].needs_review, row[o].sold, row[o].quotation,
                 row[o].swap, row[o].paid, row[o].refunded)
          /\ AcctIs(o, acct[o].taken, acct[o].hold - 1, acct[o].got + 1) /\ fills' = fills
          /\ conversion' = conversion /\ job'[p] = Idle
       \/ /\ job[p].at = "finishleg" /\ row[o].status = "COMPLETED" /\ row' = row
          /\ acct' = acct /\ fills' = fills /\ conversion' = conversion /\ job'[p] = Idle
       \/ /\ job[p].at = "finishleg" /\ row[o].status # "COMPLETED"
          /\ RowIs(o, "COMPLETED", row[o].needs_review, row[o].sold, row[o].quotation,
                 row[o].swap, row[o].paid, row[o].refunded)
          /\ AcctIs(o, acct[o].taken, acct[o].hold, acct[o].got + 1) /\ fills' = fills
          /\ conversion' = conversion /\ job'[p] = Idle
       \/ /\ job[p].at = "compensate" /\ row[o].status = "COMPLETED" /\ row' = row
          /\ acct' = acct /\ fills' = fills /\ conversion' = conversion
          /\ Moves(p, "log", job[p].n)
       \/ /\ job[p].at = "compensate" /\ row[o].status # "COMPLETED"
          /\ RowIs(o, "COMPLETED", row[o].needs_review, row[o].sold, row[o].quotation,
                 row[o].swap, row[o].paid, row[o].refunded)
          /\ AcctIs(o, acct[o].taken, acct[o].hold, acct[o].got + 1) /\ fills' = fills
          /\ conversion' = conversion /\ Moves(p, "log", job[p].n)

(* complete_swap writes no more than that. *)
LEMMA complete_swapDoes ==
  ASSUME TypeInv, NEW p \in Procs, _complete_swap(p), NEW o \in Orders, o = job[p].o
  PROVE  complete_swapWrites(p, o)
BY AtWork, StopsAt, StatusIs, RowTypes, JobTypes, HoldAndGotAre, HoldKeptAndGot, MovesOn, Kept,
   TidyIf
DEF _complete_swap, IsAt, quidaxVars, outsideVars, Statuses, Steps, complete_swapWrites

(* What execute_quidax_buy writes. *)
execute_quidax_buyWrites(p, o) ==
    /\ Tidy(p, o) /\ external' = external /\ past' = past /\ job[p].at = "buy"
    /\ \/ /\ row[o].kind = "buy" /\ row' = row /\ acct' = acct
          /\ FillsAre(o, fills[o].sold, fills[o].bought + 1, TRUE) /\ conversion' = conversion
          /\ Moves(p, "bought", job[p].n)
       \/ /\ row[o].kind = "buy" /\ row' = row /\ acct' = acct
          /\ FillsAre(o, fills[o].sold, fills[o].bought + 1, TRUE) /\ conversion' = conversion
          /\ Moves(p, "flag", job[p].n)
       \/ /\ row[o].kind = "buy" /\ row' = row /\ acct' = acct
          /\ FillsAre(o, fills[o].sold, fills[o].bought, FALSE) /\ conversion' = conversion
          /\ Moves(p, "refuse", job[p].n)
       \/ /\ row[o].kind = "buy" /\ row' = row /\ acct' = acct
          /\ FillsAre(o, fills[o].sold, fills[o].bought, FALSE) /\ conversion' = conversion
          /\ Moves(p, "flag", job[p].n)

(* execute_quidax_buy writes no more than that. *)
LEMMA execute_quidax_buyDoes ==
  ASSUME TypeInv, NEW p \in Procs, _execute_quidax_buy(p), NEW o \in Orders, o = job[p].o
  PROVE  execute_quidax_buyWrites(p, o)
BY AtWork, BoughtIsFilled, MovesOn, NothingIsFilled, Kept, TidyIf
DEF _execute_quidax_buy, IsAt, quidaxVars, outsideVars, Places, Steps, execute_quidax_buyWrites

(* What execute_quidax_sell writes. *)
execute_quidax_sellWrites(p, o) ==
    /\ Tidy(p, o) /\ external' = external /\ past' = past /\ job[p].at = "sell"
    /\ \/ /\ row[o].kind = "sell" /\ row' = row /\ acct' = acct
          /\ FillsAre(o, fills[o].sold + 1, fills[o].bought, TRUE) /\ conversion' = conversion
          /\ Moves(p, "sold", job[p].n)
       \/ /\ row[o].kind # "sell" /\ row' = row /\ acct' = acct
          /\ FillsAre(o, fills[o].sold + 1, fills[o].bought, TRUE) /\ conversion' = conversion
          /\ Moves(p, "soldleg", job[p].n)
       \/ /\ row' = row /\ acct' = acct /\ FillsAre(o, fills[o].sold + 1, fills[o].bought, TRUE)
          /\ conversion' = conversion /\ Moves(p, "flag", job[p].n)
       \/ /\ row' = row /\ acct' = acct /\ FillsAre(o, fills[o].sold, fills[o].bought, FALSE)
          /\ conversion' = conversion /\ Moves(p, "release", job[p].n)
       \/ /\ row' = row /\ acct' = acct /\ FillsAre(o, fills[o].sold, fills[o].bought, FALSE)
          /\ conversion' = conversion /\ Moves(p, "flag", job[p].n)

(* execute_quidax_sell writes no more than that. *)
LEMMA execute_quidax_sellDoes ==
  ASSUME TypeInv, NEW p \in Procs, _execute_quidax_sell(p), NEW o \in Orders, o = job[p].o
  PROVE  execute_quidax_sellWrites(p, o)
BY AtWork, SoldIsFilled, MovesOn, NothingIsFilled, Kept, TidyIf
DEF _execute_quidax_sell, IsAt, quidaxVars, outsideVars, Places, Steps, execute_quidax_sellWrites

(* What execute_swap_buy_leg writes. *)
execute_swap_buy_legWrites(p, o) ==
    /\ Tidy(p, o) /\ external' = external /\ past' = past /\ job[p].at = "buyleg"
    /\ \/ /\ row' = row /\ acct' = acct /\ FillsAre(o, fills[o].sold, fills[o].bought + 1, TRUE)
          /\ conversion' = conversion /\ Moves(p, "bookleg", job[p].n)
       \/ /\ row' = row /\ acct' = acct /\ FillsAre(o, fills[o].sold, fills[o].bought + 1, TRUE)
          /\ conversion' = conversion /\ Moves(p, "spend-flag", job[p].n)
       \/ /\ row' = row /\ acct' = acct /\ FillsAre(o, fills[o].sold, fills[o].bought, FALSE)
          /\ conversion' = conversion /\ Moves(p, "spend-refund", job[p].n)
       \/ /\ row' = row /\ acct' = acct /\ FillsAre(o, fills[o].sold, fills[o].bought, FALSE)
          /\ conversion' = conversion /\ Moves(p, "spend-flag", job[p].n)

(* execute_swap_buy_leg writes no more than that. *)
LEMMA execute_swap_buy_legDoes ==
  ASSUME TypeInv, NEW p \in Procs, _execute_swap_buy_leg(p), NEW o \in Orders, o = job[p].o
  PROVE  execute_swap_buy_legWrites(p, o)
BY AtWork, BoughtIsFilled, MovesOn, NothingIsFilled, Kept, TidyIf
DEF _execute_swap_buy_leg, IsAt, quidaxVars, outsideVars, Places, Steps,
   execute_swap_buy_legWrites

(* What BuyBack writes. *)
BuyBackWrites(p, o) ==
    /\ Tidy(p, o) /\ external' = external /\ past' = past /\ job[p].at = "buyback"
    /\ \/ /\ row' = row /\ acct' = acct /\ FillsAre(o, fills[o].sold, fills[o].bought + 1, TRUE)
          /\ conversion' = conversion /\ Moves(p, "compensate", job[p].n)
       \/ /\ row' = row /\ acct' = acct /\ FillsAre(o, fills[o].sold, fills[o].bought + 1, TRUE)
          /\ conversion' = conversion /\ Moves(p, "unanswered", job[p].n)
       \/ /\ row' = row /\ acct' = acct /\ FillsAre(o, fills[o].sold, fills[o].bought, FALSE)
          /\ conversion' = conversion /\ Moves(p, "unclaim", job[p].n)
       \/ /\ row' = row /\ acct' = acct /\ FillsAre(o, fills[o].sold, fills[o].bought, FALSE)
          /\ conversion' = conversion /\ Moves(p, "unanswered", job[p].n)

(* BuyBack writes no more than that. *)
LEMMA BuyBackDoes ==
  ASSUME TypeInv, NEW p \in Procs, BuyBack(p), NEW o \in Orders, o = job[p].o
  PROVE  BuyBackWrites(p, o)
BY AtWork, BoughtIsFilled, MovesOn, NothingIsFilled, Kept, TidyIf
DEF BuyBack, IsAt, quidaxVars, outsideVars, Places, Steps, BuyBackWrites

-----------------------------------------------------------------------------
(* Each step keeps its order steady, and square if it was: first the steps *)
(* of a process that is alone on its order.                                *)

(* An idle process works on no order. *)
LEMMA IdleIsElsewhere == Idle.at = "idle" /\ Idle.o \notin Orders
BY IdleIs, OrderAssumption

(* A step that asks Quidax for no quotation and converts none. *)
QuotationStays(o) ==
    /\ row'[o].kind = row[o].kind /\ row'[o].quotation = row[o].quotation
    /\ row'[o].swap = row[o].swap /\ conversion'[o] = conversion[o]
    /\ row[o].sold => row'[o].sold
    /\ \/ row'[o].status = row[o].status
       \/ /\ row'[o].status # "none"
          /\ row'[o].status = "PROCESSING" =>
                row[o].swap \in {0, row[o].quotation}
                    /\ (row[o].kind = "instantbuy" => row[o].quotation > 0)
          /\ row'[o].status \notin {"PROCESSING", "COMPLETED"} => Dead(o)
          /\ row'[o].status = "COMPLETED" /\ row[o].kind \in InstantKinds =>
                row[o].quotation > 0 /\ Current(o) = "completed"

(* Its quotation is as the invariant asks. *)
LEMMA QuotationKept ==
  ASSUME NEW o \in Orders, QuotationFits(o), QuotationStays(o)
  PROVE  QuotationFits(o)'
BY DEF QuotationFits, QuotationStays, Current, Dead

(* Without a quotation, or before and after PROCESSING, nothing is being   *)
(* converted.                                                              *)
LEMMA DeadIf ==
  ASSUME TypeInv, NEW o \in Orders, QuotationFits(o),
         row[o].quotation = 0 \/ row[o].status \notin {"PROCESSING", "COMPLETED"}
  PROVE  Dead(o)
BY RowTypes DEF QuotationFits, Dead, Live, Quotations

(* An order that a process works on is not in review without a quotation. *)
LEMMA NotInReview ==
  ASSUME TypeInv, NEW o \in Orders, ReviewFits(o), NEW p \in Procs, On(p, o)
  PROVE  row[o].needs_review => row[o].quotation > 0
BY RowTypes DEF ReviewFits, Resting, On

(* What holds at a step of a process that works on an order.               *)
Seen(p, o) ==
    /\ job[p] # Idle /\ On(p, o) /\ Others(p)
    /\ StatusFits(o) /\ QuotationFits(o) /\ FillsFit(o) /\ ReviewFits(o) /\ GotFits(o)
    /\ JobFits(o, job[p]) /\ job[p].n \in {0, row[o].quotation} /\ job[p].refund \in BOOLEAN
    /\ row[o].needs_review => row[o].quotation > 0
    /\ row[o].kind \in Kinds /\ row[o].quotation \in 0..MaxQuotations
    /\ row[o].swap \in 0..MaxQuotations
    /\ row[o].sold \in BOOLEAN /\ row[o].needs_review \in BOOLEAN /\ row[o].paid \in Nat
    /\ row[o].refunded \in Nat /\ fills[o].last \in BOOLEAN /\ fills[o].sold \in Nat
    /\ fills[o].bought \in Nat /\ acct[o].taken \in Int /\ acct[o].hold \in Int
    /\ acct[o].got \in Nat
    /\ external[o] \in BOOLEAN /\ past[o].rejected \in BOOLEAN

(* A step sees an order that fits. *)
LEMMA SeenIf ==
  ASSUME TypeInv, NEW p \in Procs, NEW o \in Orders, o = job[p].o, Steady(o), Tidy(p, o)
  PROVE  Seen(p, o)
<1>1. job[p] # Idle /\ On(p, o) /\ Others(p)
  BY AtWork DEF On, Tidy
<1>2. OrderFits(o) /\ JobFits(o, job[p])
  BY <1>1 DEF Steady
<1>3. row[o].needs_review => row[o].quotation > 0
  BY <1>1, <1>2, NotInReview DEF OrderFits
<1>4. job[p].n \in {0, row[o].quotation}
  BY <1>2 DEF JobFits, JobIsQuoted
<1> QED BY <1>1, <1>2, <1>3, <1>4, RowTypes, BookTypes, JobTypes DEF Seen, OrderFits

(* A new quotation, and what becomes of one that is confirmed. *)
LEMMA QuotationAdded ==
  ASSUME TypeInv, NEW o \in Orders, QuotationFits(o), Dead(o), conversion'[o] = conversion[o],
         row[o].quotation + 1 \in Quotations, row[o].kind \in InstantKinds,
         row'[o].kind = row[o].kind, row'[o].quotation = row[o].quotation + 1,
         row'[o].status = "PROCESSING", row'[o].swap = 0, row[o].kind = "legswap" => row'[o].sold
  PROVE  QuotationFits(o)' /\ Current(o)' = "unsent"
<1> DEFINE q == row[o].quotation
<1>1. q \in Nat
  BY RowTypes
<1>2. \A n \in Quotations : n < q + 1 => conversion[o][n] \notin Live
  BY DEF Dead
<1>3. \A n \in Quotations : n >= q + 1 => conversion[o][n] = "unsent"
  BY <1>1 DEF QuotationFits, Quotations
<1>4. Current(o)' = "unsent"
  BY <1>1, <1>3 DEF Current, Quotations
<1>5. \A n \in Quotations : n > q + 1 => conversion[o][n] = "unsent"
  BY <1>1, <1>3 DEF Quotations
<1> QED BY <1>1, <1>2, <1>4, <1>5 DEF QuotationFits, InstantKinds

(* What Quidax says to a confirmation. *)
LEMMA QuotationAnswered ==
  ASSUME TypeInv, NEW o \in Orders, QuotationFits(o), row[o].status = "PROCESSING",
         row[o].quotation > 0, row' = row, NEW c, Becomes(o, row[o].quotation, c)
  PROVE  QuotationFits(o)' /\ Current(o)' = c /\ (c \notin Live => Dead(o)')
<1> DEFINE q == row[o].quotation
<1>1. q \in Quotations
  BY RowTypes DEF Quotations
<1>2. conversion'[o][q] = c /\ \A m \in Quotations : m # q => conversion'[o][m] = conversion[o][m]
  BY <1>1 DEF Becomes, ConversionIs
<1>3. /\ \A n \in Quotations : n < q => conversion'[o][n] \notin Live
      /\ \A n \in Quotations : n > q => conversion'[o][n] = "unsent"
  BY <1>1, <1>2 DEF QuotationFits, Quotations
<1>4. Current(o)' = c
  BY <1>2 DEF Current
<1>5. ASSUME c \notin Live PROVE Dead(o)'
  <2> SUFFICES ASSUME NEW n \in Quotations PROVE conversion'[o][n] \notin Live
    BY DEF Dead
  <2>1. n < q \/ n = q \/ n > q
    BY <1>1 DEF Quotations
  <2>2. "unsent" \notin Live
    BY DEF Live
  <2> QED BY <1>2, <1>3, <1>5, <2>1, <2>2
<1>6. QuotationFits(o)'
  BY <1>3 DEF QuotationFits
<1> QED BY <1>4, <1>5, <1>6

(* PayFromWallet keeps its order steady, and square. *)
LEMMA PayFromWalletKeeps ==
  ASSUME TypeInv, NEW p \in Procs, PayFromWallet(p), NEW o \in Orders, o = job[p].o,
         Steady(o), row[o].kind # "legacy"
  PROVE  Steady(o)' /\ (Square(o) => Square(o)')
<1>1. PayFromWalletWrites(p, o)
  BY PayFromWalletDoes
<1>2. Seen(p, o)
  BY <1>1, SeenIf DEF PayFromWalletWrites
<1>3. Alone(p, o)
  BY <1>1, <1>2, AloneIf DEF PayFromWalletWrites, Seen, Late, ReportSteps
<1>4. /\ row[o].kind \in Buys /\ row[o].status = "PENDING_PAYMENT"
      /\ job[p].n \in {0, row[o].quotation} /\ (job[p].refund => row[o].kind \in Buys)
BY <1>1, <1>2 DEF PayFromWalletWrites, Seen, JobFits, OnPath, JobStatusFits, Kinds, Buys,
   TwoLegs, InstantKinds
<1>5. /\ job[p].by # "report" /\ ~row[o].sold /\ (row[o].kind = "buy" => fills[o].bought = 0)
      /\ job[p].by = "place" /\ acct[o].got = 0
BY <1>1, <1>2, <1>4 DEF PayFromWalletWrites, Seen, JobFits, OnPath, JobIsQuoted, JobIsFilled,
   QuotationFits, FillsFit, GotFits, Leg, One, ReportSteps, Buys, TwoLegs, InstantKinds, Market,
   Underway, Ended
<1>6. Dead(o)
  BY <1>2, <1>4, <1>5, DeadIf DEF Seen
<1>7. QuotationFits(o)'
  <2>1. QuotationStays(o)
BY <1>1, <1>4, <1>5, <1>6, <1>2 DEF PayFromWalletWrites, Seen, RowIs, Buys, TwoLegs,
   InstantKinds, Underway, QuotationStays, QuotationFits
  <2> QED BY <1>2, <2>1, QuotationKept DEF Seen
<1>8. OrderFits(o)'
  <2>1. row'[o].needs_review => row'[o].quotation > 0
    BY <1>1, <1>2 DEF PayFromWalletWrites, Seen, RowIs
  <2>2. ReviewFits(o)'
    BY <2>1 DEF ReviewFits
  <2> USE <1>1, <1>4, <1>5, <1>6, <1>2 DEF PayFromWalletWrites, Seen, RowIs, AcctIs, FillsAre,
     Leg, One, Buys, TwoLegs, InstantKinds, Market, Underway, Ended
  <2>3. StatusFits(o)'
    BY DEF StatusFits
  <2>4. FillsFit(o)'
    BY DEF FillsFit
  <2>5. GotFits(o)'
    BY DEF GotFits
  <2> QED BY <1>7, <2>2, <2>3, <2>4, <2>5 DEF OrderFits
<1>9. ASSUME job'[p].o = o PROVE JobFits(o, job[p])'
  <2> USE <1>1, <1>4, <1>5, <1>6, <1>9, IdleIsElsewhere DEF PayFromWalletWrites, RowIs, Moves,
     Buys, TwoLegs, InstantKinds, Market, Underway, Ended
  <2>1. OnPath(o, job[p])'
    BY DEF OnPath, ReportSteps
  <2>2. JobStatusFits(o, job[p])'
    BY DEF JobStatusFits
  <2>3. JobIsQuoted(o, job[p])'
    BY <1>7 DEF JobIsQuoted, Current, Dead, Live
  <2>4. JobIsFilled(o, job[p])'
    BY <1>2 DEF Seen, FillsAre, JobIsFilled, Leg, One
  <2> QED BY <2>1, <2>2, <2>3, <2>4 DEF JobFits
<1>10. ASSUME Square(o) PROVE Square(o)'
  <2> USE <1>1, <1>2, <1>4 DEF PayFromWalletWrites, Seen, RowIs, AcctIs, Moves, One, Buys
  <2>1. WalletFits(o) /\ JobWalletFits(o, p) /\ HoldFits(o)
    BY <1>10 DEF Square
  <2>2. \A q \in Procs : On(q, o) => job[q].at = "pay"
    BY <1>3 DEF Alone
  <2>3. /\ ~external[o]
        /\ ~past[o].rejected
        /\ job[p].refund <=> row[o].kind = "buy"
        /\ acct[o].taken = 0
        /\ row[o].paid = 0
        /\ row[o].refunded = 0
    BY <2>1, <2>2 DEF WalletFits, JobWalletFits, FromWallet
  <2>4. FromWallet(o)' = FromWallet(o)
    BY DEF FromWallet
  <2>5. WalletFits(o)'
    BY <2>1, <2>3, <2>4 DEF WalletFits, On, FromWallet
  <2>6. job'[p].o = o => JobWalletFits(o, p)'
    BY <2>1, <2>3, <2>4, IdleIsElsewhere DEF JobWalletFits, Others, On, FromWallet
  <2>7. HoldFits(o)' /\ JobHoldFits(o, job[p])'
    BY <2>1 DEF HoldFits, JobHoldFits, TwoLegs
  <2> QED BY <1>3, <2>5, <2>6, <2>7, AloneSquare
<1> QED BY <1>2, <1>3, <1>8, <1>9, <1>10, AloneSteady DEF Seen

(* MarkPaid keeps its order steady, and square. *)
LEMMA MarkPaidKeeps ==
  ASSUME TypeInv, NEW p \in Procs, MarkPaid(p), NEW o \in Orders, o = job[p].o,
         Steady(o), row[o].kind # "legacy"
  PROVE  Steady(o)' /\ (Square(o) => Square(o)')
<1>1. MarkPaidWrites(p, o)
  BY MarkPaidDoes
<1>2. Seen(p, o)
  BY <1>1, SeenIf DEF MarkPaidWrites
<1>3. Alone(p, o)
  BY <1>1, <1>2, AloneIf DEF MarkPaidWrites, Seen, Late, ReportSteps
<1>4. /\ row[o].kind \in Buys /\ row[o].status = "PENDING_PAYMENT"
      /\ job[p].n \in {0, row[o].quotation} /\ (job[p].refund => row[o].kind \in Buys)
BY <1>1, <1>2 DEF MarkPaidWrites, Seen, JobFits, OnPath, JobStatusFits, Kinds, Buys, TwoLegs,
   InstantKinds
<1>5. /\ job[p].by # "report" /\ ~row[o].sold /\ (row[o].kind = "buy" => fills[o].bought = 0)
      /\ acct[o].got = 0
BY <1>1, <1>2, <1>4 DEF MarkPaidWrites, Seen, JobFits, OnPath, JobIsQuoted, JobIsFilled,
   QuotationFits, FillsFit, GotFits, Leg, One, ReportSteps, Buys, TwoLegs, InstantKinds, Market,
   Underway, Ended
<1>6. Dead(o)
  BY <1>2, <1>4, <1>5, DeadIf DEF Seen
<1>7. QuotationFits(o)'
  <2>1. QuotationStays(o)
BY <1>1, <1>4, <1>5, <1>6, <1>2 DEF MarkPaidWrites, Seen, RowIs, Buys, TwoLegs, InstantKinds,
   Underway, QuotationStays, QuotationFits
  <2> QED BY <1>2, <2>1, QuotationKept DEF Seen
<1>8. OrderFits(o)'
  <2>1. row'[o].needs_review => row'[o].quotation > 0
    BY <1>1, <1>2 DEF MarkPaidWrites, Seen, RowIs
  <2>2. ReviewFits(o)'
    BY <2>1 DEF ReviewFits
  <2> USE <1>1, <1>4, <1>5, <1>6, <1>2 DEF MarkPaidWrites, Seen, RowIs, AcctIs, FillsAre, Leg,
     One, Buys, TwoLegs, InstantKinds, Market, Underway, Ended
  <2>3. StatusFits(o)'
    BY DEF StatusFits
  <2>4. FillsFit(o)'
    BY DEF FillsFit
  <2>5. GotFits(o)'
    BY DEF GotFits
  <2> QED BY <1>7, <2>2, <2>3, <2>4, <2>5 DEF OrderFits
<1>9. ASSUME job'[p].o = o PROVE JobFits(o, job[p])'
  <2> USE <1>1, <1>4, <1>5, <1>6, <1>9, IdleIsElsewhere DEF MarkPaidWrites, RowIs, Moves, Buys,
     TwoLegs, InstantKinds, Market, Underway, Ended
  <2>1. OnPath(o, job[p])'
    BY DEF OnPath, ReportSteps
  <2>2. JobStatusFits(o, job[p])'
    BY DEF JobStatusFits
  <2>3. JobIsQuoted(o, job[p])'
    BY <1>7 DEF JobIsQuoted, Current, Dead, Live
  <2>4. JobIsFilled(o, job[p])'
    BY <1>2 DEF Seen, FillsAre, JobIsFilled, Leg, One
  <2> QED BY <2>1, <2>2, <2>3, <2>4 DEF JobFits
<1>10. ASSUME Square(o) PROVE Square(o)'
  <2> USE <1>1, <1>2, <1>4 DEF MarkPaidWrites, Seen, RowIs, AcctIs, Moves, One, Buys
  <2>1. WalletFits(o) /\ JobWalletFits(o, p) /\ HoldFits(o)
    BY <1>10 DEF Square
  <2>2. \A q \in Procs : On(q, o) => job[q].at = "paid"
    BY <1>3 DEF Alone
  <2>3. /\ ~external[o]
        /\ ~past[o].rejected
        /\ job[p].refund <=> row[o].kind = "buy"
        /\ acct[o].taken = 1
        /\ row[o].paid = 0
        /\ row[o].refunded = 0
    BY <2>1, <2>2 DEF WalletFits, JobWalletFits, FromWallet
  <2>4. FromWallet(o)' = FromWallet(o)
    BY DEF FromWallet
  <2>5. WalletFits(o)'
    BY <2>1, <2>3, <2>4 DEF WalletFits, On, FromWallet
  <2>6. job'[p].o = o => JobWalletFits(o, p)'
    BY <2>1, <2>3, <2>4, IdleIsElsewhere DEF JobWalletFits, Others, On, FromWallet
  <2>7. HoldFits(o)' /\ JobHoldFits(o, job[p])'
    BY <2>1 DEF HoldFits, JobHoldFits, TwoLegs
  <2> QED BY <1>3, <2>5, <2>6, <2>7, AloneSquare
<1> QED BY <1>2, <1>3, <1>8, <1>9, <1>10, AloneSteady DEF Seen

(* Redebit keeps its order steady, and square. *)
LEMMA RedebitKeeps ==
  ASSUME TypeInv, NEW p \in Procs, Redebit(p), NEW o \in Orders, o = job[p].o,
         Steady(o), row[o].kind # "legacy"
  PROVE  Steady(o)' /\ (Square(o) => Square(o)')
<1>1. RedebitWrites(p, o)
  BY RedebitDoes
<1>2. Seen(p, o)
  BY <1>1, SeenIf DEF RedebitWrites
<1>3. Alone(p, o)
  BY <1>1, <1>2, AloneIf DEF RedebitWrites, Seen, Late, ReportSteps
<1>4. /\ row[o].kind \in Buys /\ row[o].status = "FAILED"
      /\ job[p].n \in {0, row[o].quotation} /\ (job[p].refund => row[o].kind \in Buys)
BY <1>1, <1>2 DEF RedebitWrites, Seen, JobFits, OnPath, JobStatusFits, Kinds, Buys, TwoLegs,
   InstantKinds
<1>5. /\ job[p].by # "report" /\ ~row[o].sold /\ (row[o].kind = "buy" => fills[o].bought = 0)
      /\ acct[o].got = 0
BY <1>1, <1>2, <1>4 DEF RedebitWrites, Seen, JobFits, OnPath, JobIsQuoted, JobIsFilled,
   QuotationFits, FillsFit, GotFits, Leg, One, ReportSteps, Buys, TwoLegs, InstantKinds, Market,
   Underway, Ended
<1>6. Dead(o)
  BY <1>2, <1>4, <1>5, DeadIf DEF Seen
<1>7. QuotationFits(o)'
  <2>1. QuotationStays(o)
BY <1>1, <1>4, <1>5, <1>6, <1>2 DEF RedebitWrites, Seen, RowIs, Buys, TwoLegs, InstantKinds,
   Underway, QuotationStays, QuotationFits
  <2> QED BY <1>2, <2>1, QuotationKept DEF Seen
<1>8. OrderFits(o)'
  <2>1. row'[o].needs_review => row'[o].quotation > 0
    BY <1>1, <1>2 DEF RedebitWrites, Seen, RowIs
  <2>2. ReviewFits(o)'
    BY <2>1 DEF ReviewFits
  <2> USE <1>1, <1>4, <1>5, <1>6, <1>2 DEF RedebitWrites, Seen, RowIs, AcctIs, FillsAre, Leg,
     One, Buys, TwoLegs, InstantKinds, Market, Underway, Ended
  <2>3. StatusFits(o)'
    BY DEF StatusFits
  <2>4. FillsFit(o)'
    BY DEF FillsFit
  <2>5. GotFits(o)'
    BY DEF GotFits
  <2> QED BY <1>7, <2>2, <2>3, <2>4, <2>5 DEF OrderFits
<1>9. ASSUME job'[p].o = o PROVE JobFits(o, job[p])'
  <2> USE <1>1, <1>4, <1>5, <1>6, <1>9, IdleIsElsewhere DEF RedebitWrites, RowIs, Moves, Buys,
     TwoLegs, InstantKinds, Market, Underway, Ended
  <2>1. OnPath(o, job[p])'
    BY DEF OnPath, ReportSteps
  <2>2. JobStatusFits(o, job[p])'
    BY DEF JobStatusFits
  <2>3. JobIsQuoted(o, job[p])'
    BY <1>7 DEF JobIsQuoted, Current, Dead, Live
  <2>4. JobIsFilled(o, job[p])'
    BY <1>2 DEF Seen, FillsAre, JobIsFilled, Leg, One
  <2> QED BY <2>1, <2>2, <2>3, <2>4 DEF JobFits
<1>10. ASSUME Square(o) PROVE Square(o)'
  <2> USE <1>1, <1>2, <1>4 DEF RedebitWrites, Seen, RowIs, AcctIs, Moves, One, Buys
  <2>1. WalletFits(o) /\ JobWalletFits(o, p) /\ HoldFits(o)
    BY <1>10 DEF Square
  <2>2. \A q \in Procs : On(q, o) => job[q].at = "redebit"
    BY <1>3 DEF Alone
  <2>3. /\ FromWallet(o) = 1
        /\ job[p].refund
        /\ row[o].refunded > 0
        /\ acct[o].taken = 0
        /\ row[o].paid = row[o].refunded
    BY <2>1, <2>2 DEF WalletFits, JobWalletFits, FromWallet
  <2>4. FromWallet(o)' = FromWallet(o)
    BY DEF FromWallet
  <2>5. WalletFits(o)'
    BY <2>1, <2>3, <2>4 DEF WalletFits, On, FromWallet
  <2>6. ASSUME job'[p].o = o PROVE JobWalletFits(o, p)'
    <3> HIDE DEF RowIs, AcctIs, One
    <3>1. job'[p] # Idle
      BY <2>6, IdleIsElsewhere
    <3>2. job'[p].at = "restart" /\ job'[p].refund = job[p].refund /\ row' = row
          /\ AcctIs(o, acct[o].taken + 1, acct[o].hold, acct[o].got)
      BY <3>1
    <3>3. acct'[o].taken = 1
      BY <2>3, <3>2 DEF AcctIs
    <3>4. acct'[o].taken = One(job'[p].refund)
      BY <2>3, <3>2, <3>3 DEF One
    <3> HIDE <1>1 DEF RedebitWrites, Moves
    <3> QED BY <2>3, <3>2, <3>3, <3>4 DEF JobWalletFits
  <2>7. HoldFits(o)' /\ JobHoldFits(o, job[p])'
    BY <2>1 DEF HoldFits, JobHoldFits, TwoLegs
  <2> QED BY <1>3, <2>5, <2>6, <2>7, AloneSquare
<1> QED BY <1>2, <1>3, <1>8, <1>9, <1>10, AloneSteady DEF Seen

(* Restart keeps its order steady, and square. *)
LEMMA RestartKeeps ==
  ASSUME TypeInv, NEW p \in Procs, Restart(p), NEW o \in Orders, o = job[p].o,
         Steady(o), row[o].kind # "legacy"
  PROVE  Steady(o)' /\ (Square(o) => Square(o)')
<1>1. RestartWrites(p, o)
  BY RestartDoes
<1>2. Seen(p, o)
  BY <1>1, SeenIf DEF RestartWrites
<1>3. Alone(p, o)
  BY <1>1, <1>2, AloneIf DEF RestartWrites, Seen, Late, ReportSteps
<1>4. /\ row[o].kind \in Buys /\ row[o].status = "FAILED"
      /\ job[p].n \in {0, row[o].quotation} /\ (job[p].refund => row[o].kind \in Buys)
BY <1>1, <1>2 DEF RestartWrites, Seen, JobFits, OnPath, JobStatusFits, Kinds, Buys, TwoLegs,
   InstantKinds
<1>5. /\ job[p].by # "report" /\ ~row[o].sold /\ (row[o].kind = "buy" => fills[o].bought = 0)
      /\ acct[o].got = 0
BY <1>1, <1>2, <1>4 DEF RestartWrites, Seen, JobFits, OnPath, JobIsQuoted, JobIsFilled,
   QuotationFits, FillsFit, GotFits, Leg, One, ReportSteps, Buys, TwoLegs, InstantKinds, Market,
   Underway, Ended
<1>6. Dead(o)
  BY <1>2, <1>4, <1>5, DeadIf DEF Seen
<1>7. QuotationFits(o)'
  <2>1. QuotationStays(o)
BY <1>1, <1>4, <1>5, <1>6, <1>2 DEF RestartWrites, Seen, RowIs, Buys, TwoLegs, InstantKinds,
   Underway, QuotationStays, QuotationFits
  <2> QED BY <1>2, <2>1, QuotationKept DEF Seen
<1>8. OrderFits(o)'
  <2>1. row'[o].needs_review => row'[o].quotation > 0
    BY <1>1, <1>2 DEF RestartWrites, Seen, RowIs
  <2>2. ReviewFits(o)'
    BY <2>1 DEF ReviewFits
  <2> USE <1>1, <1>4, <1>5, <1>6, <1>2 DEF RestartWrites, Seen, RowIs, AcctIs, FillsAre, Leg,
     One, Buys, TwoLegs, InstantKinds, Market, Underway, Ended
  <2>3. StatusFits(o)'
    BY DEF StatusFits
  <2>4. FillsFit(o)'
    BY DEF FillsFit
  <2>5. GotFits(o)'
    BY DEF GotFits
  <2> QED BY <1>7, <2>2, <2>3, <2>4, <2>5 DEF OrderFits
<1>9. ASSUME job'[p].o = o PROVE JobFits(o, job[p])'
  <2> USE <1>1, <1>4, <1>5, <1>6, <1>9, IdleIsElsewhere DEF RestartWrites, RowIs, Moves, Buys,
     TwoLegs, InstantKinds, Market, Underway, Ended
  <2>1. OnPath(o, job[p])'
    BY DEF OnPath, ReportSteps
  <2>2. JobStatusFits(o, job[p])'
    BY DEF JobStatusFits
  <2>3. JobIsQuoted(o, job[p])'
    BY <1>7 DEF JobIsQuoted, Current, Dead, Live
  <2>4. JobIsFilled(o, job[p])'
    BY <1>2 DEF Seen, FillsAre, JobIsFilled, Leg, One
  <2> QED BY <2>1, <2>2, <2>3, <2>4 DEF JobFits
<1>10. ASSUME Square(o) PROVE Square(o)'
  <2> USE <1>1, <1>2, <1>4 DEF RestartWrites, Seen, RowIs, AcctIs, Moves, One, Buys
  <2>1. WalletFits(o) /\ JobWalletFits(o, p) /\ HoldFits(o)
    BY <1>10 DEF Square
  <2>2. \A q \in Procs : On(q, o) => job[q].at = "restart"
    BY <1>3 DEF Alone
  <2>3. /\ FromWallet(o) = One(job[p].refund)
        /\ job[p].refund <=> FromWallet(o) = 1
        /\ acct[o].taken = One(job[p].refund)
        /\ job[p].refund <=> row[o].refunded > 0
        /\ row[o].paid = row[o].refunded
    BY <2>1, <2>2 DEF WalletFits, JobWalletFits, FromWallet
  <2>4. FromWallet(o)' = FromWallet(o)
    BY DEF FromWallet
  <2>5. WalletFits(o)'
    BY <2>1, <2>3, <2>4 DEF WalletFits, On, FromWallet
  <2>6. job'[p].o = o => JobWalletFits(o, p)'
    BY <2>1, <2>3, <2>4, IdleIsElsewhere DEF JobWalletFits, Others, On, FromWallet
  <2>7. HoldFits(o)' /\ JobHoldFits(o, job[p])'
    BY <2>1 DEF HoldFits, JobHoldFits, TwoLegs
  <2> QED BY <1>3, <2>5, <2>6, <2>7, AloneSquare
<1> QED BY <1>2, <1>3, <1>8, <1>9, <1>10, AloneSteady DEF Seen

(* complete_buy keeps its order steady, and square. *)
LEMMA complete_buyKeeps ==
  ASSUME TypeInv, NEW p \in Procs, _complete_buy(p), NEW o \in Orders, o = job[p].o,
         Steady(o), row[o].kind # "legacy"
  PROVE  Steady(o)' /\ (Square(o) => Square(o)')
<1>1. complete_buyWrites(p, o)
  BY complete_buyDoes
<1>2. Seen(p, o)
  BY <1>1, SeenIf DEF complete_buyWrites
<1>3. Alone(p, o)
  BY <1>1, <1>2, AloneIf DEF complete_buyWrites, Seen, Late, ReportSteps
<1>4. /\ row[o].kind = "buy" /\ row[o].status \in {"PAYMENT_RECEIVED", "PROCESSING"}
      /\ job[p].n \in {0, row[o].quotation} /\ (job[p].refund => row[o].kind \in Buys)
BY <1>1, <1>2 DEF complete_buyWrites, Seen, JobFits, OnPath, JobStatusFits, Kinds, Buys,
   TwoLegs, InstantKinds
<1>5. /\ job[p].by # "report" /\ ~row[o].sold /\ row[o].quotation = 0 /\ fills[o].bought = 1
      /\ acct[o].got = 0
BY <1>1, <1>2, <1>4 DEF complete_buyWrites, Seen, JobFits, OnPath, JobIsQuoted, JobIsFilled,
   QuotationFits, FillsFit, GotFits, Leg, One, ReportSteps, Buys, TwoLegs, InstantKinds, Market,
   Underway, Ended
<1>6. Dead(o)
  BY <1>2, <1>4, <1>5, DeadIf DEF Seen
<1>7. QuotationFits(o)'
  <2>1. QuotationStays(o)
BY <1>1, <1>4, <1>5, <1>6, <1>2 DEF complete_buyWrites, Seen, RowIs, Buys, TwoLegs,
   InstantKinds, Underway, QuotationStays, QuotationFits
  <2> QED BY <1>2, <2>1, QuotationKept DEF Seen
<1>8. OrderFits(o)'
  <2>1. row'[o].needs_review => row'[o].quotation > 0
    BY <1>1, <1>2 DEF complete_buyWrites, Seen, RowIs
  <2>2. ReviewFits(o)'
    BY <2>1 DEF ReviewFits
  <2> USE <1>1, <1>4, <1>5, <1>6, <1>2 DEF complete_buyWrites, Seen, RowIs, AcctIs, FillsAre,
     Leg, One, Buys, TwoLegs, InstantKinds, Market, Underway, Ended
  <2>3. StatusFits(o)'
    BY DEF StatusFits
  <2>4. FillsFit(o)'
    BY DEF FillsFit
  <2>5. GotFits(o)'
    BY DEF GotFits
  <2> QED BY <1>7, <2>2, <2>3, <2>4, <2>5 DEF OrderFits
<1>9. ASSUME job'[p].o = o PROVE JobFits(o, job[p])'
  <2> USE <1>1, <1>4, <1>5, <1>6, <1>9, IdleIsElsewhere DEF complete_buyWrites, RowIs, Moves,
     Buys, TwoLegs, InstantKinds, Market, Underway, Ended
  <2>1. OnPath(o, job[p])'
    BY DEF OnPath, ReportSteps
  <2>2. JobStatusFits(o, job[p])'
    BY DEF JobStatusFits
  <2>3. JobIsQuoted(o, job[p])'
    BY <1>7 DEF JobIsQuoted, Current, Dead, Live
  <2>4. JobIsFilled(o, job[p])'
    BY <1>2 DEF Seen, FillsAre, JobIsFilled, Leg, One
  <2> QED BY <2>1, <2>2, <2>3, <2>4 DEF JobFits
<1>10. ASSUME Square(o) PROVE Square(o)'
  <2> USE <1>1, <1>2, <1>4 DEF complete_buyWrites, Seen, RowIs, AcctIs, Moves, One, Buys
  <2>1. WalletFits(o) /\ JobWalletFits(o, p) /\ HoldFits(o)
    BY <1>10 DEF Square
  <2>2. \A q \in Procs : On(q, o) => job[q].at = "bought"
    BY <1>3 DEF Alone
  <2>3. /\ acct[o].taken = FromWallet(o)
        /\ row[o].paid = row[o].refunded + FromWallet(o)
        /\ job[p].refund <=> FromWallet(o) = 1
    BY <2>1, <2>2 DEF WalletFits, JobWalletFits, FromWallet
  <2>4. FromWallet(o)' = FromWallet(o)
    BY DEF FromWallet
  <2>5. WalletFits(o)'
    BY <2>1, <2>3, <2>4 DEF WalletFits, On, FromWallet
  <2>6. job'[p].o = o => JobWalletFits(o, p)'
    BY <2>1, <2>3, <2>4, IdleIsElsewhere DEF JobWalletFits, Others, On, FromWallet
  <2>7. HoldFits(o)' /\ JobHoldFits(o, job[p])'
    BY <2>1 DEF HoldFits, JobHoldFits, TwoLegs
  <2> QED BY <1>3, <2>5, <2>6, <2>7, AloneSquare
<1> QED BY <1>2, <1>3, <1>8, <1>9, <1>10, AloneSteady DEF Seen

(* ReserveSource keeps its order steady, and square. *)
LEMMA ReserveSourceKeeps ==
  ASSUME TypeInv, NEW p \in Procs, ReserveSource(p), NEW o \in Orders, o = job[p].o,
         Steady(o), row[o].kind # "legacy"
  PROVE  Steady(o)' /\ (Square(o) => Square(o)')
<1>1. ReserveSourceWrites(p, o)
  BY ReserveSourceDoes
<1>2. Seen(p, o)
  BY <1>1, SeenIf DEF ReserveSourceWrites
<1>3. Alone(p, o)
  BY <1>1, <1>2, AloneIf DEF ReserveSourceWrites, Seen, Late, ReportSteps
<1>4. /\ row[o].kind \in {"sell", "instantswap"} \cup TwoLegs /\ row[o].status = "PROCESSING"
      /\ job[p].n \in {0, row[o].quotation} /\ (job[p].refund => row[o].kind \in Buys)
BY <1>1, <1>2 DEF ReserveSourceWrites, Seen, JobFits, OnPath, JobStatusFits, Kinds, Buys,
   TwoLegs, InstantKinds
<1>5. /\ job[p].by # "report" /\ ~row[o].sold /\ row[o].quotation = 0
      /\ (row[o].kind # "instantswap" => fills[o].sold = 0)
      /\ (row[o].kind = "instantswap" => job[p].by = "place") /\ acct[o].got = 0
BY <1>1, <1>2, <1>4 DEF ReserveSourceWrites, Seen, JobFits, OnPath, JobIsQuoted, JobIsFilled,
   QuotationFits, FillsFit, GotFits, Leg, One, ReportSteps, Buys, TwoLegs, InstantKinds, Market,
   Underway, Ended
<1>6. Dead(o)
  BY <1>2, <1>4, <1>5, DeadIf DEF Seen
<1>7. QuotationFits(o)'
  <2>1. QuotationStays(o)
BY <1>1, <1>4, <1>5, <1>6, <1>2 DEF ReserveSourceWrites, Seen, RowIs, Buys, TwoLegs,
   InstantKinds, Underway, QuotationStays, QuotationFits
  <2> QED BY <1>2, <2>1, QuotationKept DEF Seen
<1>8. OrderFits(o)'
  <2>1. row'[o].needs_review => row'[o].quotation > 0
    BY <1>1, <1>2 DEF ReserveSourceWrites, Seen, RowIs
  <2>2. ReviewFits(o)'
    BY <2>1 DEF ReviewFits
  <2> USE <1>1, <1>4, <1>5, <1>6, <1>2 DEF ReserveSourceWrites, Seen, RowIs, AcctIs, FillsAre,
     Leg, One, Buys, TwoLegs, InstantKinds, Market, Underway, Ended
  <2>3. StatusFits(o)'
    BY DEF StatusFits
  <2>4. FillsFit(o)'
    BY DEF FillsFit
  <2>5. GotFits(o)'
    BY DEF GotFits
  <2> QED BY <1>7, <2>2, <2>3, <2>4, <2>5 DEF OrderFits
<1>9. ASSUME job'[p].o = o PROVE JobFits(o, job[p])'
  <2> USE <1>1, <1>4, <1>5, <1>6, <1>9, IdleIsElsewhere DEF ReserveSourceWrites, RowIs, Moves,
     Buys, TwoLegs, InstantKinds, Market, Underway, Ended
  <2>1. OnPath(o, job[p])'
    BY DEF OnPath, ReportSteps
  <2>2. JobStatusFits(o, job[p])'
    BY DEF JobStatusFits
  <2>3. JobIsQuoted(o, job[p])'
    BY <1>7 DEF JobIsQuoted, Current, Dead, Live
  <2>4. JobIsFilled(o, job[p])'
    BY <1>2 DEF Seen, FillsAre, JobIsFilled, Leg, One
  <2> QED BY <2>1, <2>2, <2>3, <2>4 DEF JobFits
<1>10. ASSUME Square(o) PROVE Square(o)'
  <2> USE <1>1, <1>2, <1>4, <1>5 DEF ReserveSourceWrites, Seen, RowIs, AcctIs, Moves, Closed,
     One, Buys, TwoLegs, InstantKinds
  <2>1. HoldFits(o) /\ JobHoldFits(o, job[p])
    BY <1>10 DEF Square
  <2>2. acct[o].hold = 0
    BY <1>10, <2>1 DEF JobHoldFits
  <2>3. HoldFits(o)'
    BY <2>1, <2>2, IdleIsElsewhere DEF HoldFits, On, Placing
  <2>4. ASSUME job'[p].o = o PROVE JobHoldFits(o, job[p])'
    BY <2>2, <2>4, IdleIsElsewhere DEF JobHoldFits
  <2>5. WalletFits(o)' /\ JobWalletFits(o, p)'
    BY DEF WalletFits, JobWalletFits
  <2> QED BY <1>3, <2>3, <2>4, <2>5, AloneSquare
<1> QED BY <1>2, <1>3, <1>8, <1>9, <1>10, AloneSteady DEF Seen

(* WaitForDeposit keeps its order steady, and square. *)
LEMMA WaitForDepositKeeps ==
  ASSUME TypeInv, NEW p \in Procs, WaitForDeposit(p), NEW o \in Orders, o = job[p].o,
         Steady(o), row[o].kind # "legacy"
  PROVE  Steady(o)' /\ (Square(o) => Square(o)')
<1>1. WaitForDepositWrites(p, o)
  BY WaitForDepositDoes
<1>2. Seen(p, o)
  BY <1>1, SeenIf DEF WaitForDepositWrites
<1>3. Alone(p, o)
  BY <1>1, <1>2, AloneIf DEF WaitForDepositWrites, Seen, Late, ReportSteps
<1>4. /\ row[o].kind = "sell" /\ row[o].status = "PROCESSING"
      /\ job[p].n \in {0, row[o].quotation} /\ (job[p].refund => row[o].kind \in Buys)
BY <1>1, <1>2 DEF WaitForDepositWrites, Seen, JobFits, OnPath, JobStatusFits, Kinds, Buys,
   TwoLegs, InstantKinds
<1>5. /\ job[p].by # "report" /\ ~row[o].sold /\ row[o].quotation = 0 /\ fills[o].sold = 0
      /\ acct[o].got = 0
BY <1>1, <1>2, <1>4 DEF WaitForDepositWrites, Seen, JobFits, OnPath, JobIsQuoted, JobIsFilled,
   QuotationFits, FillsFit, GotFits, Leg, One, ReportSteps, Buys, TwoLegs, InstantKinds, Market,
   Underway, Ended
<1>6. Dead(o)
  BY <1>2, <1>4, <1>5, DeadIf DEF Seen
<1>7. QuotationFits(o)'
  <2>1. QuotationStays(o)
BY <1>1, <1>4, <1>5, <1>6, <1>2 DEF WaitForDepositWrites, Seen, RowIs, Buys, TwoLegs,
   InstantKinds, Underway, QuotationStays, QuotationFits
  <2> QED BY <1>2, <2>1, QuotationKept DEF Seen
<1>8. OrderFits(o)'
  <2>1. row'[o].needs_review => row'[o].quotation > 0
    BY <1>1, <1>2 DEF WaitForDepositWrites, Seen, RowIs
  <2>2. ReviewFits(o)'
    BY <2>1 DEF ReviewFits
  <2> USE <1>1, <1>4, <1>5, <1>6, <1>2 DEF WaitForDepositWrites, Seen, RowIs, AcctIs, FillsAre,
     Leg, One, Buys, TwoLegs, InstantKinds, Market, Underway, Ended
  <2>3. StatusFits(o)'
    BY DEF StatusFits
  <2>4. FillsFit(o)'
    BY DEF FillsFit
  <2>5. GotFits(o)'
    BY DEF GotFits
  <2> QED BY <1>7, <2>2, <2>3, <2>4, <2>5 DEF OrderFits
<1>9. ASSUME job'[p].o = o PROVE JobFits(o, job[p])'
  <2> USE <1>1, <1>4, <1>5, <1>6, <1>9, IdleIsElsewhere DEF WaitForDepositWrites, RowIs, Moves,
     Buys, TwoLegs, InstantKinds, Market, Underway, Ended
  <2>1. OnPath(o, job[p])'
    BY DEF OnPath, ReportSteps
  <2>2. JobStatusFits(o, job[p])'
    BY DEF JobStatusFits
  <2>3. JobIsQuoted(o, job[p])'
    BY <1>7 DEF JobIsQuoted, Current, Dead, Live
  <2>4. JobIsFilled(o, job[p])'
    BY <1>2 DEF Seen, FillsAre, JobIsFilled, Leg, One
  <2> QED BY <2>1, <2>2, <2>3, <2>4 DEF JobFits
<1>10. ASSUME Square(o) PROVE Square(o)'
  <2> USE <1>1, <1>2, <1>4, <1>5 DEF WaitForDepositWrites, Seen, RowIs, AcctIs, Moves, Closed,
     One, Buys, TwoLegs, InstantKinds
  <2>1. HoldFits(o) /\ JobHoldFits(o, job[p])
    BY <1>10 DEF Square
  <2>2. acct[o].hold = 0
    BY <1>10, <2>1 DEF JobHoldFits
  <2>3. HoldFits(o)'
    BY <2>1, <2>2, IdleIsElsewhere DEF HoldFits, On, Placing
  <2>4. ASSUME job'[p].o = o PROVE JobHoldFits(o, job[p])'
    BY <2>2, <2>4, IdleIsElsewhere DEF JobHoldFits
  <2>5. WalletFits(o)' /\ JobWalletFits(o, p)'
    BY DEF WalletFits, JobWalletFits
  <2> QED BY <1>3, <2>3, <2>4, <2>5, AloneSquare
<1> QED BY <1>2, <1>3, <1>8, <1>9, <1>10, AloneSteady DEF Seen

(* ReserveAgain keeps its order steady, and square. *)
LEMMA ReserveAgainKeeps ==
  ASSUME TypeInv, NEW p \in Procs, ReserveAgain(p), NEW o \in Orders, o = job[p].o,
         Steady(o), row[o].kind # "legacy"
  PROVE  Steady(o)' /\ (Square(o) => Square(o)')
<1>1. ReserveAgainWrites(p, o)
  BY ReserveAgainDoes
<1>2. Seen(p, o)
  BY <1>1, SeenIf DEF ReserveAgainWrites
<1>3. Alone(p, o)
  BY <1>1, <1>2, AloneIf DEF ReserveAgainWrites, Seen, Late, ReportSteps
<1>4. /\ row[o].kind = "sell" /\ row[o].status = "WAITING_DEPOSIT"
      /\ job[p].n \in {0, row[o].quotation} /\ (job[p].refund => row[o].kind \in Buys)
BY <1>1, <1>2 DEF ReserveAgainWrites, Seen, JobFits, OnPath, JobStatusFits, Kinds, Buys,
   TwoLegs, InstantKinds
<1>5. /\ job[p].by # "report" /\ ~row[o].sold /\ row[o].quotation = 0 /\ fills[o].sold = 0
      /\ acct[o].got = 0
BY <1>1, <1>2, <1>4 DEF ReserveAgainWrites, Seen, JobFits, OnPath, JobIsQuoted, JobIsFilled,
   QuotationFits, FillsFit, GotFits, Leg, One, ReportSteps, Buys, TwoLegs, InstantKinds, Market,
   Underway, Ended
<1>6. Dead(o)
  BY <1>2, <1>4, <1>5, DeadIf DEF Seen
<1>7. QuotationFits(o)'
  <2>1. QuotationStays(o)
BY <1>1, <1>4, <1>5, <1>6, <1>2 DEF ReserveAgainWrites, Seen, RowIs, Buys, TwoLegs,
   InstantKinds, Underway, QuotationStays, QuotationFits
  <2> QED BY <1>2, <2>1, QuotationKept DEF Seen
<1>8. OrderFits(o)'
  <2>1. row'[o].needs_review => row'[o].quotation > 0
    BY <1>1, <1>2 DEF ReserveAgainWrites, Seen, RowIs
  <2>2. ReviewFits(o)'
    BY <2>1 DEF ReviewFits
  <2> USE <1>1, <1>4, <1>5, <1>6, <1>2 DEF ReserveAgainWrites, Seen, RowIs, AcctIs, FillsAre,
     Leg, One, Buys, TwoLegs, InstantKinds, Market, Underway, Ended
  <2>3. StatusFits(o)'
    BY DEF StatusFits
  <2>4. FillsFit(o)'
    BY DEF FillsFit
  <2>5. GotFits(o)'
    BY DEF GotFits
  <2> QED BY <1>7, <2>2, <2>3, <2>4, <2>5 DEF OrderFits
<1>9. ASSUME job'[p].o = o PROVE JobFits(o, job[p])'
  <2> USE <1>1, <1>4, <1>5, <1>6, <1>9, IdleIsElsewhere DEF ReserveAgainWrites, RowIs, Moves,
     Buys, TwoLegs, InstantKinds, Market, Underway, Ended
  <2>1. OnPath(o, job[p])'
    BY DEF OnPath, ReportSteps
  <2>2. JobStatusFits(o, job[p])'
    BY DEF JobStatusFits
  <2>3. JobIsQuoted(o, job[p])'
    BY <1>7 DEF JobIsQuoted, Current, Dead, Live
  <2>4. JobIsFilled(o, job[p])'
    BY <1>2 DEF Seen, FillsAre, JobIsFilled, Leg, One
  <2> QED BY <2>1, <2>2, <2>3, <2>4 DEF JobFits
<1>10. ASSUME Square(o) PROVE Square(o)'
  <2> USE <1>1, <1>2, <1>4, <1>5 DEF ReserveAgainWrites, Seen, RowIs, AcctIs, Moves, Closed,
     One, Buys, TwoLegs, InstantKinds
  <2>1. HoldFits(o) /\ JobHoldFits(o, job[p])
    BY <1>10 DEF Square
  <2>2. acct[o].hold = 0
    BY <1>10, <2>1 DEF JobHoldFits
  <2>3. HoldFits(o)'
    BY <2>1, <2>2, IdleIsElsewhere DEF HoldFits, On, Placing
  <2>4. ASSUME job'[p].o = o PROVE JobHoldFits(o, job[p])'
    BY <2>2, <2>4, IdleIsElsewhere DEF JobHoldFits
  <2>5. WalletFits(o)' /\ JobWalletFits(o, p)'
    BY DEF WalletFits, JobWalletFits
  <2> QED BY <1>3, <2>3, <2>4, <2>5, AloneSquare
<1> QED BY <1>2, <1>3, <1>8, <1>9, <1>10, AloneSteady DEF Seen

(* start_processing keeps its order steady, and square. *)
LEMMA start_processingKeeps ==
  ASSUME TypeInv, NEW p \in Procs, _start_processing(p), NEW o \in Orders, o = job[p].o,
         Steady(o), row[o].kind # "legacy"
  PROVE  Steady(o)' /\ (Square(o) => Square(o)')
<1>1. start_processingWrites(p, o)
  BY start_processingDoes
<1>2. Seen(p, o)
  BY <1>1, SeenIf DEF start_processingWrites
<1>3. Alone(p, o)
  BY <1>1, <1>2, AloneIf DEF start_processingWrites, Seen, Late, ReportSteps
<1>4. /\ row[o].kind = "sell" /\ row[o].status = "WAITING_DEPOSIT"
      /\ job[p].n \in {0, row[o].quotation} /\ (job[p].refund => row[o].kind \in Buys)
BY <1>1, <1>2 DEF start_processingWrites, Seen, JobFits, OnPath, JobStatusFits, Kinds, Buys,
   TwoLegs, InstantKinds
<1>5. /\ job[p].by # "report" /\ ~row[o].sold /\ row[o].quotation = 0 /\ fills[o].sold = 0
      /\ acct[o].got = 0
BY <1>1, <1>2, <1>4 DEF start_processingWrites, Seen, JobFits, OnPath, JobIsQuoted, JobIsFilled,
   QuotationFits, FillsFit, GotFits, Leg, One, ReportSteps, Buys, TwoLegs, InstantKinds, Market,
   Underway, Ended
<1>6. Dead(o)
  BY <1>2, <1>4, <1>5, DeadIf DEF Seen
<1>7. QuotationFits(o)'
  <2>1. QuotationStays(o)
BY <1>1, <1>4, <1>5, <1>6, <1>2 DEF start_processingWrites, Seen, RowIs, Buys, TwoLegs,
   InstantKinds, Underway, QuotationStays, QuotationFits
  <2> QED BY <1>2, <2>1, QuotationKept DEF Seen
<1>8. OrderFits(o)'
  <2>1. row'[o].needs_review => row'[o].quotation > 0
    BY <1>1, <1>2 DEF start_processingWrites, Seen, RowIs
  <2>2. ReviewFits(o)'
    BY <2>1 DEF ReviewFits
  <2> USE <1>1, <1>4, <1>5, <1>6, <1>2 DEF start_processingWrites, Seen, RowIs, AcctIs,
     FillsAre, Leg, One, Buys, TwoLegs, InstantKinds, Market, Underway, Ended
  <2>3. StatusFits(o)'
    BY DEF StatusFits
  <2>4. FillsFit(o)'
    BY DEF FillsFit
  <2>5. GotFits(o)'
    BY DEF GotFits
  <2> QED BY <1>7, <2>2, <2>3, <2>4, <2>5 DEF OrderFits
<1>9. ASSUME job'[p].o = o PROVE JobFits(o, job[p])'
  <2> USE <1>1, <1>4, <1>5, <1>6, <1>9, IdleIsElsewhere DEF start_processingWrites, RowIs,
     Moves, Buys, TwoLegs, InstantKinds, Market, Underway, Ended
  <2>1. OnPath(o, job[p])'
    BY DEF OnPath, ReportSteps
  <2>2. JobStatusFits(o, job[p])'
    BY DEF JobStatusFits
  <2>3. JobIsQuoted(o, job[p])'
    BY <1>7 DEF JobIsQuoted, Current, Dead, Live
  <2>4. JobIsFilled(o, job[p])'
    BY <1>2 DEF Seen, FillsAre, JobIsFilled, Leg, One
  <2> QED BY <2>1, <2>2, <2>3, <2>4 DEF JobFits
<1>10. ASSUME Square(o) PROVE Square(o)'
  <2> USE <1>1, <1>2, <1>4, <1>5 DEF start_processingWrites, Seen, RowIs, AcctIs, Moves, Closed,
     One, Buys, TwoLegs, InstantKinds
  <2>1. HoldFits(o) /\ JobHoldFits(o, job[p])
    BY <1>10 DEF Square
  <2>2. acct[o].hold = 1
    BY <1>10, <2>1 DEF JobHoldFits
  <2>3. HoldFits(o)'
    BY <2>1, <2>2, IdleIsElsewhere DEF HoldFits, On, Placing
  <2>4. ASSUME job'[p].o = o PROVE JobHoldFits(o, job[p])'
    BY <2>2, <2>4, IdleIsElsewhere DEF JobHoldFits
  <2>5. WalletFits(o)' /\ JobWalletFits(o, p)'
    BY DEF WalletFits, JobWalletFits
  <2> QED BY <1>3, <2>3, <2>4, <2>5, AloneSquare
<1> QED BY <1>2, <1>3, <1>8, <1>9, <1>10, AloneSteady DEF Seen

(* ReleaseSource keeps its order steady, and square. *)
LEMMA ReleaseSourceKeeps ==
  ASSUME TypeInv, NEW p \in Procs, ReleaseSource(p), NEW o \in Orders, o = job[p].o,
         Steady(o), row[o].kind # "legacy"
  PROVE  Steady(o)' /\ (Square(o) => Square(o)')
<1>1. ReleaseSourceWrites(p, o)
  BY ReleaseSourceDoes
<1>2. Seen(p, o)
  BY <1>1, SeenIf DEF ReleaseSourceWrites
<1>3. Alone(p, o)
  BY <1>1, <1>2, AloneIf DEF ReleaseSourceWrites, Seen, Late, ReportSteps
<1>4. /\ row[o].kind \in {"sell"} \cup TwoLegs /\ row[o].status = "PROCESSING"
      /\ job[p].n \in {0, row[o].quotation} /\ (job[p].refund => row[o].kind \in Buys)
BY <1>1, <1>2 DEF ReleaseSourceWrites, Seen, JobFits, OnPath, JobStatusFits, Kinds, Buys,
   TwoLegs, InstantKinds
<1>5. /\ job[p].by # "report" /\ ~row[o].sold /\ row[o].quotation = 0 /\ fills[o].sold = 0
      /\ acct[o].got = 0
BY <1>1, <1>2, <1>4 DEF ReleaseSourceWrites, Seen, JobFits, OnPath, JobIsQuoted, JobIsFilled,
   QuotationFits, FillsFit, GotFits, Leg, One, ReportSteps, Buys, TwoLegs, InstantKinds, Market,
   Underway, Ended
<1>6. Dead(o)
  BY <1>2, <1>4, <1>5, DeadIf DEF Seen
<1>7. QuotationFits(o)'
  <2>1. QuotationStays(o)
BY <1>1, <1>4, <1>5, <1>6, <1>2 DEF ReleaseSourceWrites, Seen, RowIs, Buys, TwoLegs,
   InstantKinds, Underway, QuotationStays, QuotationFits
  <2> QED BY <1>2, <2>1, QuotationKept DEF Seen
<1>8. OrderFits(o)'
  <2>1. row'[o].needs_review => row'[o].quotation > 0
    BY <1>1, <1>2 DEF ReleaseSourceWrites, Seen, RowIs
  <2>2. ReviewFits(o)'
    BY <2>1 DEF ReviewFits
  <2> USE <1>1, <1>4, <1>5, <1>6, <1>2 DEF ReleaseSourceWrites, Seen, RowIs, AcctIs, FillsAre,
     Leg, One, Buys, TwoLegs, InstantKinds, Market, Underway, Ended
  <2>3. StatusFits(o)'
    BY DEF StatusFits
  <2>4. FillsFit(o)'
    BY DEF FillsFit
  <2>5. GotFits(o)'
    BY DEF GotFits
  <2> QED BY <1>7, <2>2, <2>3, <2>4, <2>5 DEF OrderFits
<1>9. ASSUME job'[p].o = o PROVE JobFits(o, job[p])'
  <2> USE <1>1, <1>4, <1>5, <1>6, <1>9, IdleIsElsewhere DEF ReleaseSourceWrites, RowIs, Moves,
     Buys, TwoLegs, InstantKinds, Market, Underway, Ended
  <2>1. OnPath(o, job[p])'
    BY DEF OnPath, ReportSteps
  <2>2. JobStatusFits(o, job[p])'
    BY DEF JobStatusFits
  <2>3. JobIsQuoted(o, job[p])'
    BY <1>7 DEF JobIsQuoted, Current, Dead, Live
  <2>4. JobIsFilled(o, job[p])'
    BY <1>2 DEF Seen, FillsAre, JobIsFilled, Leg, One
  <2> QED BY <2>1, <2>2, <2>3, <2>4 DEF JobFits
<1>10. ASSUME Square(o) PROVE Square(o)'
  <2> USE <1>1, <1>2, <1>4, <1>5 DEF ReleaseSourceWrites, Seen, RowIs, AcctIs, Moves, Closed,
     One, Buys, TwoLegs, InstantKinds
  <2>1. HoldFits(o) /\ JobHoldFits(o, job[p])
    BY <1>10 DEF Square
  <2>2. acct[o].hold = 1
    BY <1>10, <2>1 DEF JobHoldFits
  <2>3. HoldFits(o)'
    BY <2>1, <2>2, IdleIsElsewhere DEF HoldFits, On, Placing
  <2>4. ASSUME job'[p].o = o PROVE JobHoldFits(o, job[p])'
    BY <2>2, <2>4, IdleIsElsewhere DEF JobHoldFits
  <2>5. WalletFits(o)' /\ JobWalletFits(o, p)'
    BY DEF WalletFits, JobWalletFits
  <2> QED BY <1>3, <2>3, <2>4, <2>5, AloneSquare
<1> QED BY <1>2, <1>3, <1>8, <1>9, <1>10, AloneSteady DEF Seen

(* complete_sell keeps its order steady, and square. *)
LEMMA complete_sellKeeps ==
  ASSUME TypeInv, NEW p \in Procs, complete_sell(p), NEW o \in Orders, o = job[p].o,
         Steady(o), row[o].kind # "legacy"
  PROVE  Steady(o)' /\ (Square(o) => Square(o)')
<1>1. complete_sellWrites(p, o)
  BY complete_sellDoes
<1>2. Seen(p, o)
  BY <1>1, SeenIf DEF complete_sellWrites
<1>3. Alone(p, o)
  BY <1>1, <1>2, AloneIf DEF complete_sellWrites, Seen, Late, ReportSteps
<1>4. /\ row[o].kind = "sell" /\ row[o].status = "PROCESSING"
      /\ job[p].n \in {0, row[o].quotation} /\ (job[p].refund => row[o].kind \in Buys)
BY <1>1, <1>2 DEF complete_sellWrites, Seen, JobFits, OnPath, JobStatusFits, Kinds, Buys,
   TwoLegs, InstantKinds
<1>5. /\ job[p].by # "report" /\ ~row[o].sold /\ row[o].quotation = 0 /\ fills[o].sold = 1
      /\ acct[o].got = 0
BY <1>1, <1>2, <1>4 DEF complete_sellWrites, Seen, JobFits, OnPath, JobIsQuoted, JobIsFilled,
   QuotationFits, FillsFit, GotFits, Leg, One, ReportSteps, Buys, TwoLegs, InstantKinds, Market,
   Underway, Ended
<1>6. Dead(o)
  BY <1>2, <1>4, <1>5, DeadIf DEF Seen
<1>7. QuotationFits(o)'
  <2>1. QuotationStays(o)
BY <1>1, <1>4, <1>5, <1>6, <1>2 DEF complete_sellWrites, Seen, RowIs, Buys, TwoLegs,
   InstantKinds, Underway, QuotationStays, QuotationFits
  <2> QED BY <1>2, <2>1, QuotationKept DEF Seen
<1>8. OrderFits(o)'
  <2>1. row'[o].needs_review => row'[o].quotation > 0
    BY <1>1, <1>2 DEF complete_sellWrites, Seen, RowIs
  <2>2. ReviewFits(o)'
    BY <2>1 DEF ReviewFits
  <2> USE <1>1, <1>4, <1>5, <1>6, <1>2 DEF complete_sellWrites, Seen, RowIs, AcctIs, FillsAre,
     Leg, One, Buys, TwoLegs, InstantKinds, Market, Underway, Ended
  <2>3. StatusFits(o)'
    BY DEF StatusFits
  <2>4. FillsFit(o)'
    BY DEF FillsFit
  <2>5. GotFits(o)'
    BY DEF GotFits
  <2> QED BY <1>7, <2>2, <2>3, <2>4, <2>5 DEF OrderFits
<1>9. ASSUME job'[p].o = o PROVE JobFits(o, job[p])'
  <2> USE <1>1, <1>4, <1>5, <1>6, <1>9, IdleIsElsewhere DEF complete_sellWrites, RowIs, Moves,
     Buys, TwoLegs, InstantKinds, Market, Underway, Ended
  <2>1. OnPath(o, job[p])'
    BY DEF OnPath, ReportSteps
  <2>2. JobStatusFits(o, job[p])'
    BY DEF JobStatusFits
  <2>3. JobIsQuoted(o, job[p])'
    BY <1>7 DEF JobIsQuoted, Current, Dead, Live
  <2>4. JobIsFilled(o, job[p])'
    BY <1>2 DEF Seen, FillsAre, JobIsFilled, Leg, One
  <2> QED BY <2>1, <2>2, <2>3, <2>4 DEF JobFits
<1>10. ASSUME Square(o) PROVE Square(o)'
  <2> USE <1>1, <1>2, <1>4, <1>5 DEF complete_sellWrites, Seen, RowIs, AcctIs, Moves, Closed,
     One, Buys, TwoLegs, InstantKinds
  <2>1. HoldFits(o) /\ JobHoldFits(o, job[p])
    BY <1>10 DEF Square
  <2>2. acct[o].hold = 1
    BY <1>10, <2>1 DEF JobHoldFits
  <2>3. HoldFits(o)'
    BY <2>1, <2>2, IdleIsElsewhere DEF HoldFits, On, Placing
  <2>4. ASSUME job'[p].o = o PROVE JobHoldFits(o, job[p])'
    BY <2>2, <2>4, IdleIsElsewhere DEF JobHoldFits
  <2>5. WalletFits(o)' /\ JobWalletFits(o, p)'
    BY DEF WalletFits, JobWalletFits
  <2> QED BY <1>3, <2>3, <2>4, <2>5, AloneSquare
<1> QED BY <1>2, <1>3, <1>8, <1>9, <1>10, AloneSteady DEF Seen

(* execute_quidax_swap keeps its order steady, and square. *)
LEMMA execute_quidax_swapKeeps ==
  ASSUME TypeInv, NEW p \in Procs, _execute_quidax_swap(p), NEW o \in Orders, o = job[p].o,
         Steady(o), row[o].kind # "legacy"
  PROVE  Steady(o)' /\ (Square(o) => Square(o)')
<1>1. execute_quidax_swapWrites(p, o)
  BY execute_quidax_swapDoes
<1>2. Seen(p, o)
  BY <1>1, SeenIf DEF execute_quidax_swapWrites
<1>3. Alone(p, o)
  BY <1>1, <1>2, AloneIf DEF execute_quidax_swapWrites, Seen, Late, ReportSteps
<1>4. /\ row[o].kind \in TwoLegs /\ row[o].status = "PROCESSING"
      /\ job[p].n \in {0, row[o].quotation} /\ (job[p].refund => row[o].kind \in Buys)
BY <1>1, <1>2 DEF execute_quidax_swapWrites, Seen, JobFits, OnPath, JobStatusFits, Kinds, Buys,
   TwoLegs, InstantKinds
<1>5. /\ job[p].by # "report" /\ ~row[o].sold /\ row[o].quotation = 0 /\ fills[o].sold = 1
      /\ acct[o].got = 0
BY <1>1, <1>2, <1>4 DEF execute_quidax_swapWrites, Seen, JobFits, OnPath, JobIsQuoted,
   JobIsFilled, QuotationFits, FillsFit, GotFits, Leg, One, ReportSteps, Buys, TwoLegs,
   InstantKinds, Market, Underway, Ended
<1>6. Dead(o)
  BY <1>2, <1>4, <1>5, DeadIf DEF Seen
<1>7. QuotationFits(o)'
  <2>1. QuotationStays(o)
BY <1>1, <1>4, <1>5, <1>6, <1>2 DEF execute_quidax_swapWrites, Seen, RowIs, Buys, TwoLegs,
   InstantKinds, Underway, QuotationStays, QuotationFits
  <2> QED BY <1>2, <2>1, QuotationKept DEF Seen
<1>8. OrderFits(o)'
  <2>1. row'[o].needs_review => row'[o].quotation > 0
    BY <1>1, <1>2 DEF execute_quidax_swapWrites, Seen, RowIs
  <2>2. ReviewFits(o)'
    BY <2>1 DEF ReviewFits
  <2> USE <1>1, <1>4, <1>5, <1>6, <1>2 DEF execute_quidax_swapWrites, Seen, RowIs, AcctIs,
     FillsAre, Leg, One, Buys, TwoLegs, InstantKinds, Market, Underway, Ended
  <2>3. StatusFits(o)'
    BY DEF StatusFits
  <2>4. FillsFit(o)'
    BY DEF FillsFit
  <2>5. GotFits(o)'
    BY DEF GotFits
  <2> QED BY <1>7, <2>2, <2>3, <2>4, <2>5 DEF OrderFits
<1>9. ASSUME job'[p].o = o PROVE JobFits(o, job[p])'
  <2> USE <1>1, <1>4, <1>5, <1>6, <1>9, IdleIsElsewhere DEF execute_quidax_swapWrites, RowIs,
     Moves, Buys, TwoLegs, InstantKinds, Market, Underway, Ended
  <2>1. OnPath(o, job[p])'
    BY DEF OnPath, ReportSteps
  <2>2. JobStatusFits(o, job[p])'
    BY DEF JobStatusFits
  <2>3. JobIsQuoted(o, job[p])'
    BY <1>7 DEF JobIsQuoted, Current, Dead, Live
  <2>4. JobIsFilled(o, job[p])'
    BY <1>2 DEF Seen, FillsAre, JobIsFilled, Leg, One
  <2> QED BY <2>1, <2>2, <2>3, <2>4 DEF JobFits
<1>10. ASSUME Square(o) PROVE Square(o)'
  <2> USE <1>1, <1>2, <1>4, <1>5 DEF execute_quidax_swapWrites, Seen, RowIs, AcctIs, Moves,
     Closed, One, Buys, TwoLegs, InstantKinds
  <2>1. HoldFits(o) /\ JobHoldFits(o, job[p])
    BY <1>10 DEF Square
  <2>2. acct[o].hold = 1
    BY <1>10, <2>1 DEF JobHoldFits
  <2>3. HoldFits(o)'
    BY <2>1, <2>2, IdleIsElsewhere DEF HoldFits, On, Placing
  <2>4. ASSUME job'[p].o = o PROVE JobHoldFits(o, job[p])'
    BY <2>2, <2>4, IdleIsElsewhere DEF JobHoldFits
  <2>5. WalletFits(o)' /\ JobWalletFits(o, p)'
    BY DEF WalletFits, JobWalletFits
  <2> QED BY <1>3, <2>3, <2>4, <2>5, AloneSquare
<1> QED BY <1>2, <1>3, <1>8, <1>9, <1>10, AloneSteady DEF Seen

(* SpendSource keeps its order steady, and square. *)
LEMMA SpendSourceKeeps ==
  ASSUME TypeInv, NEW p \in Procs, SpendSource(p), NEW o \in Orders, o = job[p].o,
         Steady(o), row[o].kind # "legacy"
  PROVE  Steady(o)' /\ (Square(o) => Square(o)')
<1>1. SpendSourceWrites(p, o)
  BY SpendSourceDoes
<1>2. Seen(p, o)
  BY <1>1, SeenIf DEF SpendSourceWrites
<1>3. Alone(p, o)
  BY <1>1, <1>2, AloneIf DEF SpendSourceWrites, Seen, Late, ReportSteps
<1>4. /\ row[o].kind \in TwoLegs /\ row[o].status = "PROCESSING"
      /\ job[p].n \in {0, row[o].quotation} /\ (job[p].refund => row[o].kind \in Buys)
BY <1>1, <1>2 DEF SpendSourceWrites, Seen, JobFits, OnPath, JobStatusFits, Kinds, Buys, TwoLegs,
   InstantKinds
<1>5. /\ job[p].by # "report" /\ row[o].sold /\ row[o].quotation = 0 /\ fills[o].sold = 1
      /\ row[o].kind = (IF job[p].at = "spend-quote" THEN "legswap" ELSE "swap")
      /\ (job[p].at = "spend-flag" /\ fills[o].last => fills[o].bought > 0) /\ acct[o].got = 0
BY <1>1, <1>2, <1>4 DEF SpendSourceWrites, Seen, JobFits, OnPath, JobIsQuoted, JobIsFilled,
   QuotationFits, FillsFit, GotFits, Leg, One, ReportSteps, Buys, TwoLegs, InstantKinds, Market,
   Underway, Ended
<1>6. Dead(o)
  BY <1>2, <1>4, <1>5, DeadIf DEF Seen
<1>7. QuotationFits(o)'
  <2>1. QuotationStays(o)
BY <1>1, <1>4, <1>5, <1>6, <1>2 DEF SpendSourceWrites, Seen, RowIs, Buys, TwoLegs, InstantKinds,
   Underway, QuotationStays, QuotationFits
  <2> QED BY <1>2, <2>1, QuotationKept DEF Seen
<1>8. OrderFits(o)'
  <2>1. row'[o].needs_review => row'[o].quotation > 0
    BY <1>1, <1>2 DEF SpendSourceWrites, Seen, RowIs
  <2>2. ReviewFits(o)'
    BY <2>1 DEF ReviewFits
  <2> USE <1>1, <1>4, <1>5, <1>6, <1>2 DEF SpendSourceWrites, Seen, RowIs, AcctIs, FillsAre,
     Leg, One, Buys, TwoLegs, InstantKinds, Market, Underway, Ended
  <2>3. StatusFits(o)'
    BY DEF StatusFits
  <2>4. FillsFit(o)'
    BY DEF FillsFit
  <2>5. GotFits(o)'
    BY DEF GotFits
  <2> QED BY <1>7, <2>2, <2>3, <2>4, <2>5 DEF OrderFits
<1>9. ASSUME job'[p].o = o PROVE JobFits(o, job[p])'
  <2> USE <1>1, <1>4, <1>5, <1>6, <1>9, IdleIsElsewhere DEF SpendSourceWrites, RowIs, Moves,
     Buys, TwoLegs, InstantKinds, Market, Underway, Ended
  <2>1. OnPath(o, job[p])'
    BY DEF OnPath, ReportSteps
  <2>2. JobStatusFits(o, job[p])'
    BY DEF JobStatusFits
  <2>3. JobIsQuoted(o, job[p])'
    BY <1>7 DEF JobIsQuoted, Current, Dead, Live
  <2>4. JobIsFilled(o, job[p])'
    BY <1>2 DEF Seen, FillsAre, JobIsFilled, Leg, One
  <2> QED BY <2>1, <2>2, <2>3, <2>4 DEF JobFits
<1>10. ASSUME Square(o) PROVE Square(o)'
  <2> USE <1>1, <1>2, <1>4, <1>5 DEF SpendSourceWrites, Seen, RowIs, AcctIs, Moves, Closed, One,
     Buys, TwoLegs, InstantKinds
  <2>1. HoldFits(o) /\ JobHoldFits(o, job[p])
    BY <1>10 DEF Square
  <2>2. acct[o].hold = 1
    BY <1>10, <2>1 DEF JobHoldFits
  <2>3. HoldFits(o)'
    BY <2>1, <2>2, IdleIsElsewhere DEF HoldFits, On, Placing
  <2>4. ASSUME job'[p].o = o PROVE JobHoldFits(o, job[p])'
    BY <2>2, <2>4, IdleIsElsewhere DEF JobHoldFits
  <2>5. WalletFits(o)' /\ JobWalletFits(o, p)'
    BY DEF WalletFits, JobWalletFits
  <2> QED BY <1>3, <2>3, <2>4, <2>5, AloneSquare
<1> QED BY <1>2, <1>3, <1>8, <1>9, <1>10, AloneSteady DEF Seen

(* execute_quidax_buy keeps its order steady, and square. *)
LEMMA execute_quidax_buyKeeps ==
  ASSUME TypeInv, NEW p \in Procs, _execute_quidax_buy(p), NEW o \in Orders, o = job[p].o,
         Steady(o), row[o].kind # "legacy"
  PROVE  Steady(o)' /\ (Square(o) => Square(o)')
<1>1. execute_quidax_buyWrites(p, o)
  BY execute_quidax_buyDoes
<1>2. Seen(p, o)
  BY <1>1, SeenIf DEF execute_quidax_buyWrites
<1>3. Alone(p, o)
  BY <1>1, <1>2, AloneIf DEF execute_quidax_buyWrites, Seen, Late, ReportSteps
<1>4. /\ row[o].kind = "buy" /\ row[o].status = "PAYMENT_RECEIVED"
      /\ job[p].n \in {0, row[o].quotation} /\ (job[p].refund => row[o].kind \in Buys)
BY <1>1, <1>2 DEF execute_quidax_buyWrites, Seen, JobFits, OnPath, JobStatusFits, Kinds, Buys,
   TwoLegs, InstantKinds
<1>5. /\ job[p].by # "report" /\ ~row[o].sold /\ row[o].quotation = 0 /\ fills[o].bought = 0
      /\ acct[o].got = 0
BY <1>1, <1>2, <1>4 DEF execute_quidax_buyWrites, Seen, JobFits, OnPath, JobIsQuoted,
   JobIsFilled, QuotationFits, FillsFit, GotFits, Leg, One, ReportSteps, Buys, TwoLegs,
   InstantKinds, Market, Underway, Ended
<1>6. Dead(o)
  BY <1>2, <1>4, <1>5, DeadIf DEF Seen
<1>7. QuotationFits(o)'
  <2>1. QuotationStays(o)
BY <1>1, <1>4, <1>5, <1>6, <1>2 DEF execute_quidax_buyWrites, Seen, RowIs, Buys, TwoLegs,
   InstantKinds, Underway, QuotationStays, QuotationFits
  <2> QED BY <1>2, <2>1, QuotationKept DEF Seen
<1>8. OrderFits(o)'
  <2>1. row'[o].needs_review => row'[o].quotation > 0
    BY <1>1, <1>2 DEF execute_quidax_buyWrites, Seen, RowIs
  <2>2. ReviewFits(o)'
    BY <2>1 DEF ReviewFits
  <2> USE <1>1, <1>4, <1>5, <1>6, <1>2 DEF execute_quidax_buyWrites, Seen, RowIs, AcctIs,
     FillsAre, Leg, One, Buys, TwoLegs, InstantKinds, Market, Underway, Ended
  <2>3. StatusFits(o)'
    BY DEF StatusFits
  <2>4. FillsFit(o)'
    BY DEF FillsFit
  <2>5. GotFits(o)'
    BY DEF GotFits
  <2> QED BY <1>7, <2>2, <2>3, <2>4, <2>5 DEF OrderFits
<1>9. ASSUME job'[p].o = o PROVE JobFits(o, job[p])'
  <2> USE <1>1, <1>4, <1>5, <1>6, <1>9, IdleIsElsewhere DEF execute_quidax_buyWrites, RowIs,
     Moves, Buys, TwoLegs, InstantKinds, Market, Underway, Ended
  <2>1. OnPath(o, job[p])'
    BY DEF OnPath, ReportSteps
  <2>2. JobStatusFits(o, job[p])'
    BY DEF JobStatusFits
  <2>3. JobIsQuoted(o, job[p])'
    BY <1>7 DEF JobIsQuoted, Current, Dead, Live
  <2>4. JobIsFilled(o, job[p])'
    BY <1>2 DEF Seen, FillsAre, JobIsFilled, Leg, One
  <2> QED BY <2>1, <2>2, <2>3, <2>4 DEF JobFits
<1>10. ASSUME Square(o) PROVE Square(o)'
  <2> USE <1>1, <1>2, <1>4 DEF execute_quidax_buyWrites, Seen, RowIs, AcctIs, Moves, One, Buys
  <2>1. WalletFits(o) /\ JobWalletFits(o, p) /\ HoldFits(o)
    BY <1>10 DEF Square
  <2>2. \A q \in Procs : On(q, o) => job[q].at = "buy"
    BY <1>3 DEF Alone
  <2>3. /\ acct[o].taken = FromWallet(o)
        /\ row[o].paid = row[o].refunded + FromWallet(o)
        /\ job[p].refund <=> FromWallet(o) = 1
    BY <2>1, <2>2 DEF WalletFits, JobWalletFits, FromWallet
  <2>4. FromWallet(o)' = FromWallet(o)
    BY DEF FromWallet
  <2>5. WalletFits(o)'
    BY <2>1, <2>3, <2>4 DEF WalletFits, On, FromWallet
  <2>6. job'[p].o = o => JobWalletFits(o, p)'
    BY <2>1, <2>3, <2>4, IdleIsElsewhere DEF JobWalletFits, Others, On, FromWallet
  <2>7. HoldFits(o)' /\ JobHoldFits(o, job[p])'
    BY <2>1 DEF HoldFits, JobHoldFits, TwoLegs
  <2> QED BY <1>3, <2>5, <2>6, <2>7, AloneSquare
<1> QED BY <1>2, <1>3, <1>8, <1>9, <1>10, AloneSteady DEF Seen

(* execute_quidax_sell keeps its order steady, and square. *)
LEMMA execute_quidax_sellKeeps ==
  ASSUME TypeInv, NEW p \in Procs, _execute_quidax_sell(p), NEW o \in Orders, o = job[p].o,
         Steady(o), row[o].kind # "legacy"
  PROVE  Steady(o)' /\ (Square(o) => Square(o)')
<1>1. execute_quidax_sellWrites(p, o)
  BY execute_quidax_sellDoes
<1>2. Seen(p, o)
  BY <1>1, SeenIf DEF execute_quidax_sellWrites
<1>3. Alone(p, o)
  BY <1>1, <1>2, AloneIf DEF execute_quidax_sellWrites, Seen, Late, ReportSteps
<1>4. /\ row[o].kind \in {"sell"} \cup TwoLegs /\ row[o].status = "PROCESSING"
      /\ job[p].n \in {0, row[o].quotation} /\ (job[p].refund => row[o].kind \in Buys)
BY <1>1, <1>2 DEF execute_quidax_sellWrites, Seen, JobFits, OnPath, JobStatusFits, Kinds, Buys,
   TwoLegs, InstantKinds
<1>5. /\ job[p].by # "report" /\ ~row[o].sold /\ row[o].quotation = 0 /\ fills[o].sold = 0
      /\ acct[o].got = 0
BY <1>1, <1>2, <1>4 DEF execute_quidax_sellWrites, Seen, JobFits, OnPath, JobIsQuoted,
   JobIsFilled, QuotationFits, FillsFit, GotFits, Leg, One, ReportSteps, Buys, TwoLegs,
   InstantKinds, Market, Underway, Ended
<1>6. Dead(o)
  BY <1>2, <1>4, <1>5, DeadIf DEF Seen
<1>7. QuotationFits(o)'
  <2>1. QuotationStays(o)
BY <1>1, <1>4, <1>5, <1>6, <1>2 DEF execute_quidax_sellWrites, Seen, RowIs, Buys, TwoLegs,
   InstantKinds, Underway, QuotationStays, QuotationFits
  <2> QED BY <1>2, <2>1, QuotationKept DEF Seen
<1>8. OrderFits(o)'
  <2>1. row'[o].needs_review => row'[o].quotation > 0
    BY <1>1, <1>2 DEF execute_quidax_sellWrites, Seen, RowIs
  <2>2. ReviewFits(o)'
    BY <2>1 DEF ReviewFits
  <2> USE <1>1, <1>4, <1>5, <1>6, <1>2 DEF execute_quidax_sellWrites, Seen, RowIs, AcctIs,
     FillsAre, Leg, One, Buys, TwoLegs, InstantKinds, Market, Underway, Ended
  <2>3. StatusFits(o)'
    BY DEF StatusFits
  <2>4. FillsFit(o)'
    BY DEF FillsFit
  <2>5. GotFits(o)'
    BY DEF GotFits
  <2> QED BY <1>7, <2>2, <2>3, <2>4, <2>5 DEF OrderFits
<1>9. ASSUME job'[p].o = o PROVE JobFits(o, job[p])'
  <2> USE <1>1, <1>4, <1>5, <1>6, <1>9, IdleIsElsewhere DEF execute_quidax_sellWrites, RowIs,
     Moves, Buys, TwoLegs, InstantKinds, Market, Underway, Ended
  <2>1. OnPath(o, job[p])'
    BY DEF OnPath, ReportSteps
  <2>2. JobStatusFits(o, job[p])'
    BY DEF JobStatusFits
  <2>3. JobIsQuoted(o, job[p])'
    <3>1. row'[o].quotation = 0 /\ row'[o].sold = row[o].sold /\ Dead(o)' /\ job'[p].n = 0
          /\ row'[o].kind = row[o].kind /\ job'[p].by # "report"
          /\ job'[p].at \in {"sold", "soldleg", "flag", "release"}
      BY DEF Dead
    <3> HIDE <1>1 DEF execute_quidax_sellWrites
    <3> QED BY <3>1 DEF JobIsQuoted
  <2>4. JobIsFilled(o, job[p])'
    BY <1>2 DEF Seen, FillsAre, JobIsFilled, Leg, One
  <2> QED BY <2>1, <2>2, <2>3, <2>4 DEF JobFits
<1>10. ASSUME Square(o) PROVE Square(o)'
  <2> USE <1>1, <1>2, <1>4, <1>5 DEF execute_quidax_sellWrites, Seen, RowIs, AcctIs, Moves,
     Closed, One, Buys, TwoLegs, InstantKinds
  <2>1. HoldFits(o) /\ JobHoldFits(o, job[p])
    BY <1>10 DEF Square
  <2>2. acct[o].hold = 1
    BY <1>10, <2>1 DEF JobHoldFits
  <2>3. HoldFits(o)'
    BY <2>1, <2>2, IdleIsElsewhere DEF HoldFits, On, Placing
  <2>4. ASSUME job'[p].o = o PROVE JobHoldFits(o, job[p])'
    BY <2>2, <2>4, IdleIsElsewhere DEF JobHoldFits
  <2>5. WalletFits(o)' /\ JobWalletFits(o, p)'
    BY DEF WalletFits, JobWalletFits
  <2> QED BY <1>3, <2>3, <2>4, <2>5, AloneSquare
<1> QED BY <1>2, <1>3, <1>8, <1>9, <1>10, AloneSteady DEF Seen

(* execute_swap_buy_leg keeps its order steady, and square. *)
LEMMA execute_swap_buy_legKeeps ==
  ASSUME TypeInv, NEW p \in Procs, _execute_swap_buy_leg(p), NEW o \in Orders, o = job[p].o,
         Steady(o), row[o].kind # "legacy"
  PROVE  Steady(o)' /\ (Square(o) => Square(o)')
<1>1. execute_swap_buy_legWrites(p, o)
  BY execute_swap_buy_legDoes
<1>2. Seen(p, o)
  BY <1>1, SeenIf DEF execute_swap_buy_legWrites
<1>3. Alone(p, o)
  BY <1>1, <1>2, AloneIf DEF execute_swap_buy_legWrites, Seen, Late, ReportSteps
<1>4. /\ row[o].kind = "swap" /\ row[o].status = "PROCESSING"
      /\ job[p].n \in {0, row[o].quotation} /\ (job[p].refund => row[o].kind \in Buys)
BY <1>1, <1>2 DEF execute_swap_buy_legWrites, Seen, JobFits, OnPath, JobStatusFits, Kinds, Buys,
   TwoLegs, InstantKinds
<1>5. /\ job[p].by # "report" /\ row[o].sold /\ row[o].quotation = 0 /\ fills[o].sold = 1
      /\ acct[o].got = 0
BY <1>1, <1>2, <1>4 DEF execute_swap_buy_legWrites, Seen, JobFits, OnPath, JobIsQuoted,
   JobIsFilled, QuotationFits, FillsFit, GotFits, Leg, One, ReportSteps, Buys, TwoLegs,
   InstantKinds, Market, Underway, Ended
<1>6. Dead(o)
  BY <1>2, <1>4, <1>5, DeadIf DEF Seen
<1>7. QuotationFits(o)'
  <2>1. QuotationStays(o)
BY <1>1, <1>4, <1>5, <1>6, <1>2 DEF execute_swap_buy_legWrites, Seen, RowIs, Buys, TwoLegs,
   InstantKinds, Underway, QuotationStays, QuotationFits
  <2> QED BY <1>2, <2>1, QuotationKept DEF Seen
<1>8. OrderFits(o)'
  <2>1. row'[o].needs_review => row'[o].quotation > 0
    BY <1>1, <1>2 DEF execute_swap_buy_legWrites, Seen, RowIs
  <2>2. ReviewFits(o)'
    BY <2>1 DEF ReviewFits
  <2> USE <1>1, <1>4, <1>5, <1>6, <1>2 DEF execute_swap_buy_legWrites, Seen, RowIs, AcctIs,
     FillsAre, Leg, One, Buys, TwoLegs, InstantKinds, Market, Underway, Ended
  <2>3. StatusFits(o)'
    BY DEF StatusFits
  <2>4. FillsFit(o)'
    BY DEF FillsFit
  <2>5. GotFits(o)'
    BY DEF GotFits
  <2> QED BY <1>7, <2>2, <2>3, <2>4, <2>5 DEF OrderFits
<1>9. ASSUME job'[p].o = o PROVE JobFits(o, job[p])'
  <2> USE <1>1, <1>4, <1>5, <1>6, <1>9, IdleIsElsewhere DEF execute_swap_buy_legWrites, RowIs,
     Moves, Buys, TwoLegs, InstantKinds, Market, Underway, Ended
  <2>1. OnPath(o, job[p])'
    BY DEF OnPath, ReportSteps
  <2>2. JobStatusFits(o, job[p])'
    BY DEF JobStatusFits
  <2>3. JobIsQuoted(o, job[p])'
    BY <1>7 DEF JobIsQuoted, Current, Dead, Live
  <2>4. JobIsFilled(o, job[p])'
    BY <1>2 DEF Seen, FillsAre, JobIsFilled, Leg, One
  <2> QED BY <2>1, <2>2, <2>3, <2>4 DEF JobFits
<1>10. ASSUME Square(o) PROVE Square(o)'
  <2> USE <1>1, <1>2, <1>4, <1>5 DEF execute_swap_buy_legWrites, Seen, RowIs, AcctIs, Moves,
     Closed, One, Buys, TwoLegs, InstantKinds
  <2>1. HoldFits(o) /\ JobHoldFits(o, job[p])
    BY <1>10 DEF Square
  <2>2. acct[o].hold = 1
    BY <1>10, <2>1 DEF JobHoldFits
  <2>3. HoldFits(o)'
    BY <2>1, <2>2, IdleIsElsewhere DEF HoldFits, On, Placing
  <2>4. ASSUME job'[p].o = o PROVE JobHoldFits(o, job[p])'
    BY <2>2, <2>4, IdleIsElsewhere DEF JobHoldFits
  <2>5. WalletFits(o)' /\ JobWalletFits(o, p)'
    BY DEF WalletFits, JobWalletFits
  <2> QED BY <1>3, <2>3, <2>4, <2>5, AloneSquare
<1> QED BY <1>2, <1>3, <1>8, <1>9, <1>10, AloneSteady DEF Seen

(* execute_instant_swap keeps its order steady, and square. *)
LEMMA execute_instant_swapKeeps ==
  ASSUME TypeInv, NEW p \in Procs, _execute_instant_swap(p), NEW o \in Orders, o = job[p].o,
         Steady(o), row[o].kind # "legacy"
  PROVE  Steady(o)' /\ (Square(o) => Square(o)')
<1>1. execute_instant_swapWrites(p, o)
  BY execute_instant_swapDoes
<1>2. Seen(p, o)
  BY <1>1, SeenIf DEF execute_instant_swapWrites
<1>3. Alone(p, o)
  BY <1>1, <1>2, AloneIf DEF execute_instant_swapWrites, Seen, Late, ReportSteps
<1>4. /\ row[o].kind = "instantswap" /\ row[o].status = "PROCESSING"
      /\ job[p].n \in {0, row[o].quotation} /\ (job[p].refund => row[o].kind \in Buys)
BY <1>1, <1>2 DEF execute_instant_swapWrites, Seen, JobFits, OnPath, JobStatusFits, Kinds, Buys,
   TwoLegs, InstantKinds
<1>5. /\ job[p].by # "report" /\ ~row[o].sold /\ row[o].quotation = 0 /\ job[p].by = "place"
      /\ acct[o].got = 0
BY <1>1, <1>2, <1>4 DEF execute_instant_swapWrites, Seen, JobFits, OnPath, JobIsQuoted,
   JobIsFilled, QuotationFits, FillsFit, GotFits, Leg, One, ReportSteps, Buys, TwoLegs,
   InstantKinds, Market, Underway, Ended
<1>6. Dead(o)
  BY <1>2, <1>4, <1>5, DeadIf DEF Seen
<1>7. /\ QuotationFits(o)'
      /\ job'[p].at = "confirm" => Current(o)' = "unsent" /\ row'[o].swap = 0
      /\ job'[p].at # "confirm" => Dead(o)'
  <2>1. CASE row'[o].quotation = row[o].quotation
    <3>1. row' = row /\ conversion' = conversion /\ job'[p].at # "confirm"
      BY <1>1, <1>2, <2>1 DEF execute_instant_swapWrites, Seen, RowIs, Moves
    <3> QED BY <1>2, <1>6, <3>1, QuotationKept DEF Seen, QuotationStays, Dead
  <2>2. CASE row'[o].quotation # row[o].quotation
    <3> USE <1>1, <1>4, <1>5, <1>6, <1>2, <2>2 DEF execute_instant_swapWrites, RowIs
    <3>1. /\ QuotationFits(o) /\ conversion' = conversion /\ row[o].quotation + 1 \in Quotations
          /\ row'[o].kind = row[o].kind /\ row'[o].quotation = row[o].quotation + 1
      BY DEF Seen
    <3>2. row'[o].status = "PROCESSING" /\ row'[o].swap = 0
      BY DEF Seen, QuotationFits
    <3>3. row[o].kind \in InstantKinds /\ (row[o].kind = "legswap" => row'[o].sold)
      BY DEF InstantKinds
    <3>4. job'[p].at = "confirm"
      BY DEF Moves
    <3> QED BY <3>1, <3>2, <3>3, <3>4, QuotationAdded
  <2> QED BY <2>1, <2>2
<1>8. OrderFits(o)'
  <2>1. row'[o].needs_review => row'[o].quotation > 0
    <3>1. row'[o].needs_review = row[o].needs_review
              /\ row'[o].quotation \in {row[o].quotation, row[o].quotation + 1}
      BY <1>1 DEF execute_instant_swapWrites, RowIs
    <3> QED BY <1>2, <3>1 DEF Seen
  <2>2. ReviewFits(o)'
    BY <2>1 DEF ReviewFits
  <2> USE <1>1, <1>4, <1>5, <1>6, <1>2 DEF execute_instant_swapWrites, Seen, RowIs, AcctIs,
     FillsAre, Leg, One, Buys, TwoLegs, InstantKinds, Market, Underway, Ended
  <2>3. StatusFits(o)'
    BY DEF StatusFits
  <2>4. FillsFit(o)'
    BY DEF FillsFit
  <2>5. GotFits(o)'
    BY DEF GotFits
  <2> QED BY <1>7, <2>2, <2>3, <2>4, <2>5 DEF OrderFits
<1>9. ASSUME job'[p].o = o PROVE JobFits(o, job[p])'
  <2> USE <1>1, <1>4, <1>5, <1>6, <1>9, IdleIsElsewhere DEF execute_instant_swapWrites, RowIs,
     Moves, Buys, TwoLegs, InstantKinds, Market, Underway, Ended
  <2>1. OnPath(o, job[p])'
    BY DEF OnPath, ReportSteps
  <2>2. JobStatusFits(o, job[p])'
    BY DEF JobStatusFits
  <2>3. JobIsQuoted(o, job[p])'
    <3>1. CASE job'[p].at = "confirm"
      <4>1. row'[o].quotation > 0 /\ job'[p].n = row'[o].quotation /\ job'[p].by # "report"
        BY <1>2, <3>1 DEF Seen
      <4> QED BY <1>7, <3>1, <4>1 DEF JobIsQuoted
    <3>2. CASE job'[p].at # "confirm"
      BY <1>7, <3>2 DEF JobIsQuoted
    <3> QED BY <3>1, <3>2
  <2>4. JobIsFilled(o, job[p])'
    BY <1>2 DEF Seen, FillsAre, JobIsFilled, Leg, One
  <2> QED BY <2>1, <2>2, <2>3, <2>4 DEF JobFits
<1>10. ASSUME Square(o) PROVE Square(o)'
  <2> USE <1>1, <1>2, <1>4, <1>5 DEF execute_instant_swapWrites, Seen, RowIs, AcctIs, Moves,
     Closed, One, Buys, TwoLegs, InstantKinds
  <2>1. HoldFits(o) /\ JobHoldFits(o, job[p])
    BY <1>10 DEF Square
  <2>2. acct[o].hold = 1
    BY <1>10, <2>1 DEF JobHoldFits
  <2>3. HoldFits(o)'
    BY <2>1, <2>2, IdleIsElsewhere DEF HoldFits, On, Placing
  <2>4. ASSUME job'[p].o = o PROVE JobHoldFits(o, job[p])'
    BY <2>2, <2>4, IdleIsElsewhere DEF JobHoldFits
  <2>5. WalletFits(o)' /\ JobWalletFits(o, p)'
    BY DEF WalletFits, JobWalletFits
  <2> QED BY <1>3, <2>3, <2>4, <2>5, AloneSquare
<1> QED BY <1>2, <1>3, <1>8, <1>9, <1>10, AloneSteady DEF Seen

(* execute_swap_buy_leg_instant keeps its order steady, and square. *)
LEMMA execute_swap_buy_leg_instantKeeps ==
  ASSUME TypeInv, NEW p \in Procs, _execute_swap_buy_leg_instant(p), NEW o \in Orders,
         o = job[p].o,
         Steady(o), row[o].kind # "legacy"
  PROVE  Steady(o)' /\ (Square(o) => Square(o)')
<1>1. execute_swap_buy_leg_instantWrites(p, o)
  BY execute_swap_buy_leg_instantDoes
<1>2. Seen(p, o)
  BY <1>1, SeenIf DEF execute_swap_buy_leg_instantWrites
<1>3. Alone(p, o)
  BY <1>1, <1>2, AloneIf DEF execute_swap_buy_leg_instantWrites, Seen, Late, ReportSteps
<1>4. /\ row[o].kind = "legswap" /\ row[o].status = "PROCESSING"
      /\ job[p].n \in {0, row[o].quotation} /\ (job[p].refund => row[o].kind \in Buys)
BY <1>1, <1>2 DEF execute_swap_buy_leg_instantWrites, Seen, JobFits, OnPath, JobStatusFits,
   Kinds, Buys, TwoLegs, InstantKinds
<1>5. /\ job[p].by # "report" /\ row[o].sold /\ row[o].quotation = 0 /\ fills[o].sold = 1
      /\ acct[o].got = 0
BY <1>1, <1>2, <1>4 DEF execute_swap_buy_leg_instantWrites, Seen, JobFits, OnPath, JobIsQuoted,
   JobIsFilled, QuotationFits, FillsFit, GotFits, Leg, One, ReportSteps, Buys, TwoLegs,
   InstantKinds, Market, Underway, Ended
<1>6. Dead(o)
  BY <1>2, <1>4, <1>5, DeadIf DEF Seen
<1>7. /\ QuotationFits(o)'
      /\ job'[p].at = "confirm" => Current(o)' = "unsent" /\ row'[o].swap = 0
      /\ job'[p].at # "confirm" => Dead(o)'
  <2>1. CASE row'[o].quotation = row[o].quotation
    <3>1. row' = row /\ conversion' = conversion /\ job'[p].at # "confirm"
      BY <1>1, <1>2, <2>1 DEF execute_swap_buy_leg_instantWrites, Seen, RowIs, Moves
    <3> QED BY <1>2, <1>6, <3>1, QuotationKept DEF Seen, QuotationStays, Dead
  <2>2. CASE row'[o].quotation # row[o].quotation
    <3> USE <1>1, <1>4, <1>5, <1>6, <1>2, <2>2 DEF execute_swap_buy_leg_instantWrites, RowIs
    <3>1. /\ QuotationFits(o) /\ conversion' = conversion /\ row[o].quotation + 1 \in Quotations
          /\ row'[o].kind = row[o].kind /\ row'[o].quotation = row[o].quotation + 1
      BY DEF Seen
    <3>2. row'[o].status = "PROCESSING" /\ row'[o].swap = 0
      BY DEF Seen, QuotationFits
    <3>3. row[o].kind \in InstantKinds /\ (row[o].kind = "legswap" => row'[o].sold)
      BY DEF InstantKinds
    <3>4. job'[p].at = "confirm"
      BY DEF Moves
    <3> QED BY <3>1, <3>2, <3>3, <3>4, QuotationAdded
  <2> QED BY <2>1, <2>2
<1>8. OrderFits(o)'
  <2>1. row'[o].needs_review => row'[o].quotation > 0
    <3>1. row'[o].needs_review = row[o].needs_review
              /\ row'[o].quotation \in {row[o].quotation, row[o].quotation + 1}
      BY <1>1 DEF execute_swap_buy_leg_instantWrites, RowIs
    <3> QED BY <1>2, <3>1 DEF Seen
  <2>2. ReviewFits(o)'
    BY <2>1 DEF ReviewFits
  <2> USE <1>1, <1>4, <1>5, <1>6, <1>2 DEF execute_swap_buy_leg_instantWrites, Seen, RowIs,
     AcctIs, FillsAre, Leg, One, Buys, TwoLegs, InstantKinds, Market, Underway, Ended
  <2>3. StatusFits(o)'
    BY DEF StatusFits
  <2>4. FillsFit(o)'
    BY DEF FillsFit
  <2>5. GotFits(o)'
    BY DEF GotFits
  <2> QED BY <1>7, <2>2, <2>3, <2>4, <2>5 DEF OrderFits
<1>9. ASSUME job'[p].o = o PROVE JobFits(o, job[p])'
  <2> USE <1>1, <1>4, <1>5, <1>6, <1>9, IdleIsElsewhere DEF execute_swap_buy_leg_instantWrites,
     RowIs, Moves, Buys, TwoLegs, InstantKinds, Market, Underway, Ended
  <2>1. OnPath(o, job[p])'
    BY DEF OnPath, ReportSteps
  <2>2. JobStatusFits(o, job[p])'
    BY DEF JobStatusFits
  <2>3. JobIsQuoted(o, job[p])'
    <3>1. CASE job'[p].at = "confirm"
      <4>1. row'[o].quotation > 0 /\ job'[p].n = row'[o].quotation /\ job'[p].by # "report"
        BY <1>2, <3>1 DEF Seen
      <4> QED BY <1>7, <3>1, <4>1 DEF JobIsQuoted
    <3>2. CASE job'[p].at # "confirm"
      BY <1>7, <3>2 DEF JobIsQuoted
    <3> QED BY <3>1, <3>2
  <2>4. JobIsFilled(o, job[p])'
    BY <1>2 DEF Seen, FillsAre, JobIsFilled, Leg, One
  <2> QED BY <2>1, <2>2, <2>3, <2>4 DEF JobFits
<1>10. ASSUME Square(o) PROVE Square(o)'
  <2> USE <1>1, <1>2, <1>4, <1>5 DEF execute_swap_buy_leg_instantWrites, Seen, RowIs, AcctIs,
     Moves, Closed, One, Buys, TwoLegs, InstantKinds
  <2>1. HoldFits(o) /\ JobHoldFits(o, job[p])
    BY <1>10 DEF Square
  <2>2. acct[o].hold = 0
    BY <1>10, <2>1 DEF JobHoldFits
  <2>3. HoldFits(o)'
    BY <2>1, <2>2, IdleIsElsewhere DEF HoldFits, On, Placing
  <2>4. ASSUME job'[p].o = o PROVE JobHoldFits(o, job[p])'
    BY <2>2, <2>4, IdleIsElsewhere DEF JobHoldFits
  <2>5. WalletFits(o)' /\ JobWalletFits(o, p)'
    BY DEF WalletFits, JobWalletFits
  <2> QED BY <1>3, <2>3, <2>4, <2>5, AloneSquare
<1> QED BY <1>2, <1>3, <1>8, <1>9, <1>10, AloneSteady DEF Seen

(* execute_instant_buy keeps its order steady, and square. *)
LEMMA execute_instant_buyKeeps ==
  ASSUME TypeInv, NEW p \in Procs, _execute_instant_buy(p), NEW o \in Orders, o = job[p].o,
         Steady(o), row[o].kind # "legacy"
  PROVE  Steady(o)' /\ (Square(o) => Square(o)')
<1>1. execute_instant_buyWrites(p, o)
  BY execute_instant_buyDoes
<1>2. Seen(p, o)
  BY <1>1, SeenIf DEF execute_instant_buyWrites
<1>3. Alone(p, o)
  BY <1>1, <1>2, AloneIf DEF execute_instant_buyWrites, Seen, Late, ReportSteps
<1>4. /\ row[o].kind = "instantbuy" /\ row[o].status = "PAYMENT_RECEIVED"
      /\ job[p].n \in {0, row[o].quotation} /\ (job[p].refund => row[o].kind \in Buys)
BY <1>1, <1>2 DEF execute_instant_buyWrites, Seen, JobFits, OnPath, JobStatusFits, Kinds, Buys,
   TwoLegs, InstantKinds
<1>5. /\ job[p].by # "report" /\ ~row[o].sold /\ acct[o].got = 0
BY <1>1, <1>2, <1>4 DEF execute_instant_buyWrites, Seen, JobFits, OnPath, JobIsQuoted,
   JobIsFilled, QuotationFits, FillsFit, GotFits, Leg, One, ReportSteps, Buys, TwoLegs,
   InstantKinds, Market, Underway, Ended
<1>6. Dead(o)
  BY <1>2, <1>4, <1>5, DeadIf DEF Seen
<1>7. /\ QuotationFits(o)'
      /\ job'[p].at = "confirm" => Current(o)' = "unsent" /\ row'[o].swap = 0
      /\ job'[p].at # "confirm" => Dead(o)'
  <2>1. CASE row'[o].quotation = row[o].quotation
    <3>1. row' = row /\ conversion' = conversion /\ job'[p].at # "confirm"
      BY <1>1, <1>2, <2>1 DEF execute_instant_buyWrites, Seen, RowIs, Moves
    <3> QED BY <1>2, <1>6, <3>1, QuotationKept DEF Seen, QuotationStays, Dead
  <2>2. CASE row'[o].quotation # row[o].quotation
    <3> USE <1>1, <1>4, <1>5, <1>6, <1>2, <2>2 DEF execute_instant_buyWrites, RowIs
    <3>1. /\ QuotationFits(o) /\ conversion' = conversion /\ row[o].quotation + 1 \in Quotations
          /\ row'[o].kind = row[o].kind /\ row'[o].quotation = row[o].quotation + 1
      BY DEF Seen
    <3>2. row'[o].status = "PROCESSING" /\ row'[o].swap = 0
      BY DEF Seen, QuotationFits
    <3>3. row[o].kind \in InstantKinds /\ (row[o].kind = "legswap" => row'[o].sold)
      BY DEF InstantKinds
    <3>4. job'[p].at = "confirm"
      BY DEF Moves
    <3> QED BY <3>1, <3>2, <3>3, <3>4, QuotationAdded
  <2> QED BY <2>1, <2>2
<1>8. OrderFits(o)'
  <2>1. row'[o].needs_review => row'[o].quotation > 0
    <3>1. row'[o].needs_review = row[o].needs_review
              /\ row'[o].quotation \in {row[o].quotation, row[o].quotation + 1}
      BY <1>1 DEF execute_instant_buyWrites, RowIs
    <3> QED BY <1>2, <3>1 DEF Seen
  <2>2. ReviewFits(o)'
    BY <2>1 DEF ReviewFits
  <2> USE <1>1, <1>4, <1>5, <1>6, <1>2 DEF execute_instant_buyWrites, Seen, RowIs, AcctIs,
     FillsAre, Leg, One, Buys, TwoLegs, InstantKinds, Market, Underway, Ended
  <2>3. StatusFits(o)'
    BY DEF StatusFits
  <2>4. FillsFit(o)'
    BY DEF FillsFit
  <2>5. GotFits(o)'
    BY DEF GotFits
  <2> QED BY <1>7, <2>2, <2>3, <2>4, <2>5 DEF OrderFits
<1>9. ASSUME job'[p].o = o PROVE JobFits(o, job[p])'
  <2> USE <1>1, <1>4, <1>5, <1>6, <1>9, IdleIsElsewhere DEF execute_instant_buyWrites, RowIs,
     Moves, Buys, TwoLegs, InstantKinds, Market, Underway, Ended
  <2>1. OnPath(o, job[p])'
    BY DEF OnPath, ReportSteps
  <2>2. JobStatusFits(o, job[p])'
    BY DEF JobStatusFits
  <2>3. JobIsQuoted(o, job[p])'
    <3>1. CASE job'[p].at = "confirm"
      <4>1. row'[o].quotation > 0 /\ job'[p].n = row'[o].quotation /\ job'[p].by # "report"
        BY <1>2, <3>1 DEF Seen
      <4> QED BY <1>7, <3>1, <4>1 DEF JobIsQuoted
    <3>2. CASE job'[p].at # "confirm"
      BY <1>7, <3>2 DEF JobIsQuoted
    <3> QED BY <3>1, <3>2
  <2>4. JobIsFilled(o, job[p])'
    BY <1>2 DEF Seen, FillsAre, JobIsFilled, Leg, One
  <2> QED BY <2>1, <2>2, <2>3, <2>4 DEF JobFits
<1>10. ASSUME Square(o) PROVE Square(o)'
  <2> USE <1>1, <1>2, <1>4 DEF execute_instant_buyWrites, Seen, RowIs, AcctIs, Moves, One, Buys
  <2>1. WalletFits(o) /\ JobWalletFits(o, p) /\ HoldFits(o)
    BY <1>10 DEF Square
  <2>2. \A q \in Procs : On(q, o) => job[q].at = "buy"
    BY <1>3 DEF Alone
  <2>3. /\ acct[o].taken = FromWallet(o)
        /\ row[o].paid = row[o].refunded + FromWallet(o)
    BY <2>1, <2>2 DEF WalletFits, JobWalletFits, FromWallet
  <2>4. FromWallet(o)' = FromWallet(o)
    BY DEF FromWallet
  <2>5. WalletFits(o)'
    BY <2>1, <2>3, <2>4 DEF WalletFits, On, FromWallet
  <2>6. job'[p].o = o => JobWalletFits(o, p)'
    BY <2>1, <2>3, <2>4, IdleIsElsewhere DEF JobWalletFits, Others, On, FromWallet
  <2>7. HoldFits(o)' /\ JobHoldFits(o, job[p])'
    BY <2>1 DEF HoldFits, JobHoldFits, TwoLegs
  <2> QED BY <1>3, <2>5, <2>6, <2>7, AloneSquare
<1> QED BY <1>2, <1>3, <1>8, <1>9, <1>10, AloneSteady DEF Seen

(* confirm_swap_quotation keeps its order steady, and square. *)
LEMMA confirm_swap_quotationKeeps ==
  ASSUME TypeInv, NEW p \in Procs, confirm_swap_quotation(p), NEW o \in Orders, o = job[p].o,
         Steady(o), row[o].kind # "legacy"
  PROVE  Steady(o)' /\ (Square(o) => Square(o)')
<1>1. confirm_swap_quotationWrites(p, o)
  BY confirm_swap_quotationDoes
<1>2. Seen(p, o)
  BY <1>1, SeenIf DEF confirm_swap_quotationWrites
<1>3. Alone(p, o)
  BY <1>1, <1>2, AloneIf DEF confirm_swap_quotationWrites, Seen, Late, ReportSteps
<1>4. /\ row[o].kind \in InstantKinds /\ row[o].status = "PROCESSING"
      /\ job[p].n \in {0, row[o].quotation} /\ (job[p].refund => row[o].kind \in Buys)
BY <1>1, <1>2 DEF confirm_swap_quotationWrites, Seen, JobFits, OnPath, JobStatusFits, Kinds,
   Buys, TwoLegs, InstantKinds
<1>5. /\ job[p].by # "report" /\ row[o].quotation > 0 /\ job[p].n = row[o].quotation
      /\ Current(o) = "unsent" /\ row[o].swap = 0
      /\ (row[o].kind = "legswap" => fills[o].sold = 1)
      /\ (row[o].sold <=> row[o].kind = "legswap") /\ acct[o].got = 0
BY <1>1, <1>2, <1>4 DEF confirm_swap_quotationWrites, Seen, JobFits, OnPath, JobIsQuoted,
   JobIsFilled, QuotationFits, FillsFit, GotFits, Leg, One, ReportSteps, Buys, TwoLegs,
   InstantKinds, Market, Underway, Ended
<1>7. /\ QuotationFits(o)'
      /\ \/ Current(o)' = "processing" /\ job'[p].at = "confirmed"
         \/ job'[p].at = "flag"
         \/ Dead(o)' /\ job'[p].at = Unconverted(row[o].kind)
  <2> USE <1>1, <1>4, <1>5, <1>2 DEF confirm_swap_quotationWrites, Seen, Moves
  <2>1. Becomes(o, row[o].quotation, "processing") =>
            QuotationFits(o)' /\ Current(o)' = "processing"
    BY QuotationAnswered
  <2>2. Becomes(o, row[o].quotation, "lost") => QuotationFits(o)'
    BY QuotationAnswered
  <2>3. Becomes(o, row[o].quotation, "refused") => QuotationFits(o)' /\ Dead(o)'
    BY QuotationAnswered DEF Live
  <2> QED BY <2>1, <2>2, <2>3
<1>8. OrderFits(o)'
  <2>1. row'[o].needs_review => row'[o].quotation > 0
    <3>1. row'[o].needs_review = row[o].needs_review
              /\ row'[o].quotation \in {row[o].quotation, row[o].quotation + 1}
      BY <1>1 DEF confirm_swap_quotationWrites, RowIs
    <3> QED BY <1>2, <3>1 DEF Seen
  <2>2. ReviewFits(o)'
    BY <2>1 DEF ReviewFits
  <2> USE <1>1, <1>4, <1>5, <1>2 DEF confirm_swap_quotationWrites, Seen, RowIs, AcctIs,
     FillsAre, Leg, One, Buys, TwoLegs, InstantKinds, Market, Underway, Ended, Unconverted
  <2>3. StatusFits(o)'
    BY DEF StatusFits
  <2>4. FillsFit(o)'
    BY DEF FillsFit
  <2>5. GotFits(o)'
    BY DEF GotFits
  <2> QED BY <1>7, <2>2, <2>3, <2>4, <2>5 DEF OrderFits
<1>9. ASSUME job'[p].o = o PROVE JobFits(o, job[p])'
  <2> USE <1>1, <1>4, <1>5, <1>9, IdleIsElsewhere DEF confirm_swap_quotationWrites, RowIs,
     Moves, Buys, TwoLegs, InstantKinds, Market, Underway, Ended, Unconverted
  <2>1. OnPath(o, job[p])'
    BY DEF OnPath, ReportSteps
  <2>2. JobStatusFits(o, job[p])'
    BY DEF JobStatusFits
  <2>3. JobIsQuoted(o, job[p])'
    BY <1>7 DEF JobIsQuoted, Current, Dead, Live
  <2>4. JobIsFilled(o, job[p])'
    BY <1>2 DEF Seen, FillsAre, JobIsFilled, Leg, One
  <2> QED BY <2>1, <2>2, <2>3, <2>4 DEF JobFits
<1>10. ASSUME Square(o), row[o].kind \notin Buys PROVE Square(o)'
  <2> USE <1>1, <1>2, <1>4, <1>5 DEF confirm_swap_quotationWrites, Seen, RowIs, AcctIs, Moves,
     Closed, One, Buys, TwoLegs, InstantKinds
  <2>1. HoldFits(o) /\ JobHoldFits(o, job[p])
    BY <1>10 DEF Square
  <2>2. acct[o].hold = One(row[o].kind = "instantswap")
    BY <1>10, <2>1 DEF JobHoldFits, HoldFits
  <2>3. HoldFits(o)'
    BY <2>1, <2>2, IdleIsElsewhere DEF HoldFits, On, Placing
  <2>4. ASSUME job'[p].o = o PROVE JobHoldFits(o, job[p])'
    BY <2>2, <2>4, IdleIsElsewhere DEF JobHoldFits, Unconverted
  <2>5. WalletFits(o)' /\ JobWalletFits(o, p)'
    BY <1>10 DEF WalletFits, JobWalletFits
  <2> QED BY <1>3, <2>3, <2>4, <2>5, AloneSquare
<1>11. ASSUME Square(o), row[o].kind \in Buys PROVE Square(o)'
  <2> USE <1>1, <1>2, <1>4, <1>11 DEF confirm_swap_quotationWrites, Seen
  <2>1. row' = row /\ acct' = acct /\ FromWallet(o)' = FromWallet(o)
            /\ row[o].status = "PROCESSING"
    BY DEF FromWallet
  <2>2. WalletFits(o)' /\ HoldFits(o)'
    BY <2>1 DEF Square, WalletFits, HoldFits, Buys, TwoLegs, Closed
  <2>3. JobWalletFits(o, p)' /\ JobHoldFits(o, job[p])'
    BY <2>1 DEF JobWalletFits, JobHoldFits, Moves, Unconverted, Buys
  <2> QED BY <1>3, <2>2, <2>3, AloneSquare
<1> QED BY <1>2, <1>3, <1>8, <1>9, <1>10, <1>11, AloneSteady DEF Seen

(***************************************************************************)
(* The steps that may run beside a report.                                 *)
(***************************************************************************)
(* Beside a late step there are late steps only. *)
LEMMA AllLate ==
  ASSUME NEW o \in Orders, Steady(o), NEW p \in Procs, On(p, o), job[p].at \in Late
  PROVE  \A q \in Procs : On(q, o) => job[q].at \in Late
BY DEF Steady, Apart

(* A late step keeps an order steady for the others as well. *)
LEMMA LateSteady ==
  ASSUME NEW o \in Orders, NEW p \in Procs, Steady(o), On(p, o), Others(p), job[p].at \in Late
             \/ Alone(p, o),
         \/ job'[p].o # o
         \/ job'[p].by = job[p].by /\ job'[p].at \in Late,
         row'[o].kind = row[o].kind, row'[o].quotation = row[o].quotation, OrderFits(o)',
         job'[p].o = o => JobFits(o, job[p])',
         \A q \in Procs : q # p /\ On(q, o) => JobFits(o, job[q])'
  PROVE  Steady(o)'
<1>1. ASSUME NEW q \in Procs, On(q, o)' PROVE JobFits(o, job[q])'
  BY <1>1 DEF On, Others
<1>2. ASSUME NEW q \in Procs, NEW r \in Procs, On(q, o)', On(r, o)', q # r
      PROVE  /\ job'[q].by = "report" \/ job'[r].by = "report"
             /\ job'[q].at \in Late
             /\ row'[o].kind = "instantswap" /\ row'[o].quotation = 0 => job'[q].by = "report"
  <2>1. On(q, o) /\ On(r, o)
    BY <1>2 DEF On, Others
  <2>2. /\ job[q].by = "report" \/ job[r].by = "report"
        /\ job[q].at \in Late
        /\ row[o].kind = "instantswap" /\ row[o].quotation = 0 => job[q].by = "report"
    BY <1>2, <2>1 DEF Steady, Apart
  <2>3. job'[q].by = job[q].by /\ job'[r].by = job[r].by
    BY <1>2 DEF Others, On
  <2>4. job'[q].at \in Late
    BY <1>2, <2>2 DEF Others, On
  <2> QED BY <2>2, <2>3, <2>4
<1>3. Apart(o)'
  BY <1>2 DEF Apart
<1> QED BY <1>1, <1>3 DEF Steady

(* And square. *)
LEMMA SquareIf ==
  ASSUME NEW o \in Orders, NEW p \in Procs, Others(p), WalletFits(o)', HoldFits(o)',
         job'[p].o = o => JobWalletFits(o, p)' /\ JobHoldFits(o, job[p])',
         \A q \in Procs : q # p /\ On(q, o) => JobWalletFits(o, q)' /\ JobHoldFits(o, job[q])'
  PROVE  Square(o)'
BY DEF Square, Others, On

(* Two processes on one order: it is instant, and asked for its quotation, *)
(* or both give the source back.                                           *)
LEMMA Beside ==
  ASSUME TypeInv, NEW o \in Orders, Steady(o), NEW p \in Procs, NEW q \in Procs, q # p, On(p, o),
         On(q, o)
  PROVE  /\ row[o].kind \in InstantKinds /\ job[q].at \in Late
         /\ job[q].at = "refuse" => row[o].kind = "instantbuy"
         /\ row[o].kind = "legswap" => row[o].quotation > 0
<1>1. JobFits(o, job[p]) /\ JobFits(o, job[q])
  BY DEF Steady
<1>2. /\ job[p].by = "report" \/ job[q].by = "report"
      /\ job[q].at \in Late /\ job[p].at \in Late
      /\ row[o].kind = "instantswap" /\ row[o].quotation = 0 => job[q].by = "report"
  BY DEF Steady, Apart
<1>3. row[o].kind \in InstantKinds
  BY <1>1, <1>2 DEF JobFits, OnPath
<1>4. row[o].kind = "legswap" => row[o].quotation > 0
  BY <1>1, <1>2 DEF JobFits, OnPath, JobIsQuoted
<1>5. ASSUME job[q].at = "refuse", row[o].kind # "instantbuy" PROVE FALSE
  <2>1. row[o].quotation = 0
    BY <1>1, <1>5 DEF JobFits, JobIsQuoted
  <2>2. row[o].kind = "instantswap"
    BY <1>3, <1>4, <1>5, <2>1 DEF InstantKinds
  <2>3. job[q].by = "report"
    BY <1>2, <2>1, <2>2
  <2> QED BY <1>1, <1>5, <2>1, <2>3 DEF JobFits, JobIsQuoted
<1> QED BY <1>2, <1>3, <1>4, <1>5

(* What a step does to the job of the other process: nothing that matters, *)
(* if it closes the order according to its quotation.                      *)
LEMMA BesideFits ==
  ASSUME TypeInv, NEW o \in Orders, Steady(o), NEW p \in Procs, NEW q \in Procs, q # p, On(p, o),
         On(q, o),
         Others(p), row'[o].kind = row[o].kind, row'[o].quotation = row[o].quotation,
         row'[o].sold = row[o].sold,
         conversion'[o] = conversion[o], fills'[o] = fills[o],
         \/ row'[o].status = row[o].status
         \/ row[o].kind \notin InstantKinds
         \/ row'[o].status = "FAILED" /\ Dead(o)
         \/ row'[o].status = "COMPLETED" /\ row[o].quotation > 0 /\ Current(o) = "completed"
  PROVE  JobFits(o, job[q])'
<1>1. JobFits(o, job[q])
  BY DEF Steady
<1>2. row[o].kind \in InstantKinds /\ job[q].at \in Late
          /\ (job[q].at = "refuse" => row[o].kind = "instantbuy")
  BY Beside
<1>3. job'[q] = job[q]
  BY DEF Others
<1>4. OnPath(o, job[q])'
  BY <1>1, <1>3 DEF JobFits, OnPath
<1>5. Dead(o)' <=> Dead(o)
  BY DEF Dead
<1>6. Current(o)' = Current(o)
  BY DEF Current
<1>7. row'[o].status = "COMPLETED" /\ row[o].status # "COMPLETED" =>
          job[q].at \notin {"refuse", "refunded"}
  <2>1. SUFFICES ASSUME row'[o].status = "COMPLETED", row[o].status # "COMPLETED" PROVE ~Dead(o)
    BY <1>1 DEF JobFits, JobIsQuoted
  <2>2. row[o].quotation > 0 /\ Current(o) = "completed"
    BY <1>2, <2>1
  <2>3. row[o].quotation \in Quotations
    BY <2>2, RowTypes DEF Quotations
  <2> QED BY <2>2, <2>3 DEF Dead, Current, Live
<1>8. JobStatusFits(o, job[q])'
  BY <1>1, <1>2, <1>3, <1>7 DEF JobFits, OnPath, JobStatusFits, InstantKinds, Buys, TwoLegs,
     Underway, Late, ReportSteps
<1>9. JobIsQuoted(o, job[q])'
  BY <1>1, <1>2, <1>3, <1>5, <1>6 DEF JobFits, JobIsQuoted, Late, ReportSteps
<1>10. JobIsFilled(o, job[q])'
  BY <1>1, <1>3 DEF JobFits, JobIsFilled, Leg
<1> QED BY <1>4, <1>8, <1>9, <1>10 DEF JobFits

(* What is dead has not been converted. *)
LEMMA DeadOrCompleted ==
  ASSUME TypeInv, NEW o \in Orders, Dead(o), row[o].quotation > 0
  PROVE  Current(o) # "completed"
<1>1. row[o].quotation \in Quotations
  BY RowTypes DEF Quotations
<1> QED BY <1>1 DEF Dead, Current, Live

(* Once the stored quotation is not live, none is. *)
LEMMA DeadIfEnded ==
  ASSUME TypeInv, NEW o \in Orders, QuotationFits(o), row[o].quotation > 0, Current(o) \notin Live
  PROVE  Dead(o)
<1> SUFFICES ASSUME NEW n \in Quotations PROVE conversion[o][n] \notin Live
  BY DEF Dead
<1>1. n < row[o].quotation \/ n = row[o].quotation \/ n > row[o].quotation
  BY RowTypes DEF Quotations
<1>2. "unsent" \notin Live
  BY DEF Live
<1>3. n < row[o].quotation => conversion[o][n] \notin Live
  BY DEF QuotationFits
<1>4. n > row[o].quotation => conversion[o][n] = "unsent"
  BY DEF QuotationFits
<1> QED BY <1>1, <1>2, <1>3, <1>4 DEF Current

(* A step that leaves an order open, or closes it as its quotation ended. *)
LEMMA QuotationSettled ==
  ASSUME NEW o \in Orders, QuotationFits(o), conversion'[o] = conversion[o],
         row[o].quotation \in 0..MaxQuotations, row[o].swap \in 0..MaxQuotations,
         row'[o].kind = row[o].kind, row'[o].quotation = row[o].quotation,
         row'[o].sold = row[o].sold,
         row'[o].swap \in {row[o].swap, row[o].quotation},
         \/ row'[o].status = row[o].status
         \/ row'[o].status = "FAILED" /\ Dead(o)
         \/ row'[o].status \in {"PROCESSING", "COMPLETED"} /\ row[o].kind \notin InstantKinds
         \/ row'[o].status = "COMPLETED" /\ row[o].quotation > 0 /\ Current(o) = "completed",
         row[o].kind \notin InstantKinds => row[o].swap = 0 /\ row[o].quotation = 0
  PROVE  QuotationFits(o)'
<1>1. Current(o)' = Current(o) /\ (Dead(o)' <=> Dead(o))
  BY DEF Current, Dead
<1>2. row'[o].swap <= row[o].quotation
  BY DEF QuotationFits
<1>3. row'[o].status = "PROCESSING" => row'[o].swap \in {0, row[o].quotation}
  BY DEF QuotationFits
<1> QED BY <1>1, <1>2, <1>3 DEF QuotationFits, InstantKinds

(* A step that neither pays nor refunds. *)
LEMMA WalletKept ==
  ASSUME NEW o \in Orders, WalletFits(o), NEW p \in Procs, Others(p),
         job[p].at \notin {"refunded", "paid", "restart"}, row'[o].kind = row[o].kind,
         row'[o].paid = row[o].paid, row'[o].refunded = row[o].refunded,
         acct'[o].taken = acct[o].taken, external' = external, past' = past,
         \/ row'[o].status = row[o].status
         \/ /\ row[o].status \in {"PAYMENT_RECEIVED", "PROCESSING"}
            /\ row'[o].status \in {"PROCESSING", "COMPLETED"}
         \/ row[o].kind \notin Buys
  PROVE  WalletFits(o)'
<1> SUFFICES ASSUME row[o].kind \in Buys PROVE WalletFits(o)'
  BY DEF WalletFits
<1>1. FromWallet(o)' = FromWallet(o)
  BY DEF FromWallet
<1>2. (\A q \in Procs : On(q, o) => job[q].at # "refunded")'
        => \A q \in Procs : On(q, o) => job[q].at # "refunded"
  BY DEF On, Others
<1>3. (\A q \in Procs : On(q, o) => job[q].at \notin {"paid", "restart"})'
        => \A q \in Procs : On(q, o) => job[q].at \notin {"paid", "restart"}
  BY DEF On, Others
<1> QED BY <1>1, <1>2, <1>3 DEF WalletFits

(* Beside a late step, what another process knows of the payments holds    *)
(* on.                                                                     *)
LEMMA BesideWallet ==
  ASSUME TypeInv, NEW o \in Orders, Steady(o), Square(o), NEW p \in Procs, NEW q \in Procs, q # p,
         On(p, o), On(q, o), Others(p), row'[o].kind = row[o].kind, external' = external,
         past' = past,
         \/ job[q].at # "refunded"
         \/ /\ row'[o].paid = row[o].paid /\ row'[o].refunded = row[o].refunded
            /\ job'[p].o = o => job'[p].at # "refunded"
  PROVE  JobWalletFits(o, q)'
<1>1. JobWalletFits(o, q) /\ job'[q] = job[q]
  BY DEF Square, Others
<1>2. row[o].kind \in InstantKinds /\ job[q].at \in Late
  BY Beside
<1>3. ASSUME job[q].at = "refunded", row[o].kind \in Buys
      PROVE  /\ row'[o].paid = row'[o].refunded + 1 /\ FromWallet(o)' = 1
             /\ \A r \in Procs : job'[r].o = o /\ job'[r].at = "refunded" => q = r
  <2>1. /\ row[o].paid = row[o].refunded + 1 /\ FromWallet(o) = 1
        /\ \A r \in Procs : On(r, o) /\ job[r].at = "refunded" => q = r
    BY <1>1, <1>3 DEF JobWalletFits
  <2>2. FromWallet(o)' = FromWallet(o)
    BY DEF FromWallet
  <2> QED BY <1>3, <2>1, <2>2 DEF Others, On
<1>4. job'[q].at \notin {"pay", "paid", "redebit", "restart", "buy", "bought"}
  BY <1>1, <1>2 DEF Late, ReportSteps
<1>5. row'[o].kind # "buy"
  BY <1>2 DEF InstantKinds
<1> QED BY <1>1, <1>3, <1>4, <1>5 DEF JobWalletFits, On

(* And what it knows of the reservation. *)
LEMMA BesideHold ==
  ASSUME TypeInv, NEW o \in Orders, Steady(o), Square(o), NEW p \in Procs, NEW q \in Procs, q # p,
         On(p, o), On(q, o), Others(p), row'[o].kind = row[o].kind,
         row'[o].quotation = row[o].quotation,
         \/ row[o].kind # "instantswap" /\ acct'[o].hold = acct[o].hold
         \/ row[o].kind = "instantswap" /\ acct'[o].hold = One(~Closed(o)')
         \/ row[o].kind = "instantswap" /\ acct'[o].hold = acct[o].hold
                /\ row'[o].status = row[o].status
  PROVE  JobHoldFits(o, job[q])'
<1>1. JobHoldFits(o, job[q]) /\ JobFits(o, job[q]) /\ job'[q] = job[q]
  BY DEF Square, Steady, Others
<1>2. /\ row[o].kind \in InstantKinds /\ job[q].at \in Late
      /\ job[q].at = "refuse" => row[o].kind = "instantbuy"
      /\ row[o].kind = "legswap" => row[o].quotation > 0
  BY Beside
<1>3. job[q].at = "giveback" => row[o].kind = "instantswap"
  BY <1>1 DEF JobFits, OnPath
<1>4. job[q].at \in {"finishleg", "refundngn"} => row[o].kind \in TwoLegs
  BY <1>1 DEF JobFits, OnPath
<1>5. job[q].at = "flag" => row[o].quotation > 0
  BY <1>1, <1>2 DEF JobFits, JobIsQuoted, InstantKinds
<1>6. Closed(o)' <=> row'[o].status \in {"COMPLETED", "FAILED"}
  BY DEF Closed
<1>7. Closed(o) <=> row[o].status \in {"COMPLETED", "FAILED"}
  BY DEF Closed
<1>8. CASE row[o].kind = "instantswap"
  <2>1. job[q].at = "giveback" => acct'[o].hold = One(~Closed(o)')
    <3>1. job[q].at = "giveback" => acct[o].hold = One(~Closed(o))
      BY <1>1, <1>8 DEF JobHoldFits, Buys
    <3> QED BY <1>6, <1>7, <1>8, <3>1 DEF One
  <2>2. job[q].at \notin {"refuse", "finishleg", "refundngn"}
    BY <1>2, <1>4, <1>8 DEF TwoLegs
  <2>3. job'[q].at \in Late /\ (job'[q].at = "flag" => row'[o].quotation > 0)
    BY <1>1, <1>2, <1>5
  <2> QED BY <1>1, <1>8, <2>1, <2>2, <2>3 DEF JobHoldFits, Late, ReportSteps
<1>9. CASE row[o].kind # "instantswap"
  <2>1. row'[o].kind \notin Buys =>
            job'[q].at # "giveback" /\ (job'[q].at = "flag" => row'[o].quotation > 0)
    BY <1>1, <1>3, <1>5, <1>9
  <2> QED BY <1>1, <1>2, <1>9, <2>1 DEF JobHoldFits, Late, ReportSteps
<1> QED BY <1>8, <1>9

(* A step that leaves the status and what is reserved as they are, and one *)
(* that closes the order with nothing reserved.                            *)
LEMMA HoldKept ==
  ASSUME NEW o \in Orders, HoldFits(o), row'[o].kind = row[o].kind,
         row'[o].status = row[o].status,
         row'[o].quotation = row[o].quotation, row'[o].sold = row[o].sold,
         row'[o].needs_review => row[o].needs_review, acct'[o].hold = acct[o].hold,
         row[o].status \notin {"none", "WAITING_DEPOSIT"},
         row[o].kind = "instantswap" /\ row[o].status = "PROCESSING" => row[o].quotation > 0
  PROVE  HoldFits(o)'
BY DEF HoldFits, Closed

(* A closed order that holds nothing. *)
LEMMA HoldClosed ==
  ASSUME NEW o \in Orders, row'[o].status \in {"COMPLETED", "FAILED"}, acct'[o].hold = 0
  PROVE  HoldFits(o)'
BY DEF HoldFits

-----------------------------------------------------------------------------
(* What a late step does to its order: it leaves the status, or fails an   *)
(* order that is not converted, completes one that is, or takes it back.   *)
Settles(p, o) ==
    /\ Tidy(p, o) /\ external' = external /\ past' = past /\ job[p].at \in Late
    /\ row'[o].kind = row[o].kind /\ row'[o].quotation = row[o].quotation
    /\ row'[o].sold = row[o].sold
    /\ row'[o].paid = row[o].paid /\ row'[o].swap \in {row[o].swap, row[o].quotation}
    /\ row[o].kind \notin InstantKinds => row'[o].swap = row[o].swap
    /\ conversion'[o] = conversion[o] /\ fills'[o] = fills[o]
    /\ job'[p].o = o => job'[p].by = job[p].by /\ job'[p].at \in Late
    /\ \/ row'[o].status = row[o].status /\ acct'[o].got = acct[o].got
       \/ /\ row[o].status \in {"PAYMENT_RECEIVED", "PROCESSING"}
          /\ \/ /\ row'[o].status = "FAILED" /\ Dead(o)
                /\ (row[o].kind \in Market /\ ~row[o].sold => Leg(o) = 0)
                /\ acct'[o].got = acct[o].got + One(row[o].sold)
             \/ /\ row'[o].status = "COMPLETED" /\ row[o].quotation > 0
                /\ Current(o) = "completed"
                /\ row[o].kind = "legswap" => row[o].sold /\ Leg(o) = 1
                /\ row[o].kind \in InstantKinds /\ acct'[o].got = acct[o].got + 1
             \/ /\ row'[o].status = "PROCESSING" /\ row[o].kind = "buy"
                /\ acct'[o].got = acct[o].got

(* A late step that settles keeps its order steady, if it leaves its own   *)
(* job fitting.                                                            *)
LEMMA Settled ==
  ASSUME TypeInv, NEW p \in Procs, NEW o \in Orders, Steady(o), Seen(p, o), Settles(p, o),
         job'[p].o = o => JobFits(o, job[p])',
         ReviewFits(o)' \/ (row'[o].needs_review => row[o].needs_review)
  PROVE  Steady(o)'
<1>1. row[o].status # "none"
  BY DEF Seen, StatusFits, Resting, On
<1>2. Leg(o)' = Leg(o)
  BY DEF Settles, Leg
<1>3. StatusFits(o)'
  BY <1>1 DEF Seen, StatusFits, Settles, Buys, TwoLegs, InstantKinds, Underway
<1>4. QuotationFits(o)'
  <2>1. row[o].kind \notin InstantKinds => row[o].swap = 0 /\ row[o].quotation = 0
    BY DEF Seen, QuotationFits
  <2> QED BY <2>1, QuotationSettled DEF Seen, Settles, Buys, InstantKinds
<1>5. FillsFit(o)'
  BY <1>1, <1>2 DEF Seen, FillsFit, Settles, Market, TwoLegs, InstantKinds
<1>6. ReviewFits(o)'
  BY DEF Seen, ReviewFits, Settles
<1>7. GotFits(o)'
  BY DEF Seen, GotFits, FillsFit, Settles, One, TwoLegs, InstantKinds
<1>8. ASSUME NEW q \in Procs, q # p, On(q, o) PROVE JobFits(o, job[q])'
  BY <1>8, BesideFits DEF Seen, Settles, Buys, InstantKinds
<1> QED BY <1>3, <1>4, <1>5, <1>6, <1>7, <1>8, LateSteady DEF Seen, Settles, OrderFits

(* It keeps the payments in order, if it refunds nothing. *)
LEMMA SettledWallet ==
  ASSUME TypeInv, NEW p \in Procs, NEW o \in Orders, WalletFits(o), Seen(p, o), Settles(p, o),
         job[p].at # "refunded", row'[o].refunded = row[o].refunded,
         acct'[o].taken = acct[o].taken,
         row[o].kind \notin Buys \/ row'[o].status \in {row[o].status, "PROCESSING", "COMPLETED"}
  PROVE  WalletFits(o)'
BY WalletKept DEF Seen, Settles, Late, ReportSteps

(* It keeps the order square, if the payments and the reservation still    *)
(* fit.                                                                    *)
LEMMA SettledSquare ==
  ASSUME TypeInv, NEW p \in Procs, NEW o \in Orders, Steady(o), Square(o), Seen(p, o),
         Settles(p, o),
         WalletFits(o)', HoldFits(o)', job'[p].o = o =>
             JobWalletFits(o, p)' /\ JobHoldFits(o, job[p])',
         \A q \in Procs : q # p /\ On(q, o) /\ job[q].at = "refunded" =>
            row'[o].refunded = row[o].refunded /\ (job'[p].o = o => job'[p].at # "refunded"),
         \/ row[o].kind # "instantswap" /\ acct'[o].hold = acct[o].hold
         \/ row[o].kind = "instantswap" /\ acct'[o].hold = One(~Closed(o)')
         \/ row[o].kind = "instantswap" /\ acct'[o].hold = acct[o].hold
                /\ row'[o].status = row[o].status
  PROVE  Square(o)'
<1>1. ASSUME NEW q \in Procs, q # p, On(q, o) PROVE JobWalletFits(o, q)'
  BY <1>1, BesideWallet DEF Seen, Settles
<1>2. ASSUME NEW q \in Procs, q # p, On(q, o) PROVE JobHoldFits(o, job[q])'
  BY <1>2, BesideHold DEF Seen, Settles
<1> QED BY <1>1, <1>2, SquareIf DEF Seen

(* LogRefund keeps its order steady, and square. *)
LEMMA LogRefundKeeps ==
  ASSUME TypeInv, NEW p \in Procs, LogRefund(p), NEW o \in Orders, o = job[p].o,
         Steady(o), row[o].kind # "legacy"
  PROVE  Steady(o)' /\ (Square(o) => Square(o)')
<1>1. LogRefundWrites(p, o)
  BY LogRefundDoes
<1>2. Seen(p, o)
  BY <1>1, SeenIf DEF LogRefundWrites
<1>3. row[o].kind \in Buys /\ row[o].status = "FAILED"
  BY <1>1, <1>2 DEF LogRefundWrites, Seen, JobFits, OnPath, JobStatusFits, Kinds, Buys, TwoLegs,
     InstantKinds, Underway
<1>4. /\ ~row[o].sold /\ (row[o].kind = "buy" => fills[o].bought = 0) /\ acct[o].got = 0
  BY <1>1, <1>2, <1>3 DEF LogRefundWrites, Seen, JobFits, OnPath, JobStatusFits, JobIsQuoted,
     JobIsFilled, QuotationFits, StatusFits, FillsFit, GotFits, Leg, One, Buys, TwoLegs,
     InstantKinds, Market, Underway, Ended
<1>5. Dead(o)
  BY <1>1, <1>2 DEF LogRefundWrites, Seen, JobFits, JobIsQuoted
<1>6. Settles(p, o)
  BY <1>1, <1>2, <1>3, <1>4, <1>5, IdleIsElsewhere DEF LogRefundWrites, Seen, Settles, RowIs,
     AcctIs, Moves, Closed, One, Leg, Late, ReportSteps, Buys, TwoLegs, InstantKinds, Market,
     Underway, Ended
<1>7. ASSUME job'[p].o = o PROVE JobFits(o, job[p])'
  <2> USE <1>1, <1>2, <1>3, <1>4, <1>5, <1>6, <1>7, IdleIsElsewhere DEF LogRefundWrites, Seen,
     JobFits, Settles, RowIs, Moves, Buys, TwoLegs, InstantKinds, Market, Underway, Ended
  <2>1. OnPath(o, job[p])'
    BY DEF OnPath, ReportSteps
  <2>2. JobStatusFits(o, job[p])'
    BY DEF JobStatusFits
  <2>3. JobIsQuoted(o, job[p])'
    BY DEF JobIsQuoted, Current, Dead
  <2>4. JobIsFilled(o, job[p])'
    BY DEF JobIsFilled, Leg, One
  <2> QED BY <2>1, <2>2, <2>3, <2>4
<1>8. row'[o].needs_review => row[o].needs_review
  BY <1>1, <1>2 DEF LogRefundWrites, Seen, RowIs
<1>9. ASSUME Square(o) PROVE Square(o)'
  <2>1. WalletFits(o) /\ HoldFits(o) /\ JobWalletFits(o, p) /\ JobHoldFits(o, job[p])
    BY <1>2, <1>9 DEF Square, Seen
  <2>2. /\ row[o].paid = row[o].refunded + 1 /\ FromWallet(o) = 1
        /\ \A q \in Procs : On(q, o) /\ job[q].at = "refunded" => p = q
    BY <1>1, <1>3, <2>1 DEF LogRefundWrites, JobWalletFits
  <2>3. WalletFits(o)'
    <3>1. \A q \in Procs : On(q, o) => job[q].at \notin {"paid", "restart"}
      BY <1>2, <1>6, AllLate DEF Seen, Settles, Late, ReportSteps
    <3>2. acct[o].taken = 0 /\ ~external[o] /\ ~past[o].rejected
      BY <1>3, <2>1, <2>2, <3>1 DEF WalletFits, FromWallet, One
    <3>3. /\ row'[o].status = "FAILED" /\ row'[o].paid = row'[o].refunded /\ row'[o].refunded > 0
          /\ acct'[o].taken = 0 /\ ~external'[o] /\ ~past'[o].rejected
      BY <1>1, <1>2, <1>3, <2>2, <3>2 DEF LogRefundWrites, Seen, RowIs
    <3> QED BY <3>3 DEF WalletFits
  <2>4. acct'[o].hold = acct[o].hold /\ row'[o].status = row[o].status
    BY <1>1 DEF LogRefundWrites, RowIs
  <2>5. HoldFits(o)'
    BY <1>3, <1>4, <1>6, <1>8, <2>1, <2>4, HoldKept DEF Settles, Underway, Buys, TwoLegs,
       InstantKinds
  <2>6. ASSUME job'[p].o = o PROVE JobWalletFits(o, p)' /\ JobHoldFits(o, job[p])'
    <3>1. job'[p].at = "clear"
      BY <1>1, <2>6, IdleIsElsewhere DEF LogRefundWrites, Moves
    <3> QED BY <1>4, <1>6, <3>1 DEF Settles, JobWalletFits, JobHoldFits
  <2> QED BY <1>2, <1>6, <1>9, <2>3, <2>4, <2>5, <2>6, <2>2, SettledSquare DEF Closed, One,
      Underway, TwoLegs
<1> QED BY <1>2, <1>6, <1>7, <1>8, <1>9, Settled

(* ClearReview keeps its order steady, and square. *)
LEMMA ClearReviewKeeps ==
  ASSUME TypeInv, NEW p \in Procs, ClearReview(p), NEW o \in Orders, o = job[p].o,
         Steady(o), row[o].kind # "legacy"
  PROVE  Steady(o)' /\ (Square(o) => Square(o)')
<1>1. ClearReviewWrites(p, o)
  BY ClearReviewDoes
<1>2. Seen(p, o)
  BY <1>1, SeenIf DEF ClearReviewWrites
<1>3. row[o].kind \in {"instantbuy", "legswap"} /\ row[o].status \in Underway
  BY <1>1, <1>2 DEF ClearReviewWrites, Seen, JobFits, OnPath, JobStatusFits, Kinds, Buys,
     TwoLegs, InstantKinds, Underway
<1>4. (row[o].sold <=> row[o].kind = "legswap")
  BY <1>1, <1>2, <1>3 DEF ClearReviewWrites, Seen, JobFits, OnPath, JobStatusFits, JobIsQuoted,
     JobIsFilled, QuotationFits, StatusFits, FillsFit, GotFits, Leg, One, Buys, TwoLegs,
     InstantKinds, Market, Underway, Ended
<1>5. Dead(o)
  BY <1>1, <1>2 DEF ClearReviewWrites, Seen, JobFits, JobIsQuoted
<1>6. Settles(p, o)
  BY <1>1, <1>2, <1>3, <1>4, <1>5, IdleIsElsewhere DEF ClearReviewWrites, Seen, Settles, RowIs,
     AcctIs, Moves, Closed, One, Leg, Late, ReportSteps, Buys, TwoLegs, InstantKinds, Market,
     Underway, Ended
<1>7. job'[p].o # o
  BY <1>1, IdleIsElsewhere DEF ClearReviewWrites
<1>8. row'[o].needs_review => row[o].needs_review
  BY <1>1, <1>2 DEF ClearReviewWrites, Seen, RowIs
<1>9. ASSUME Square(o) PROVE Square(o)'
  <2>1. WalletFits(o) /\ HoldFits(o) /\ JobWalletFits(o, p) /\ JobHoldFits(o, job[p])
    BY <1>2, <1>9 DEF Square, Seen
  <2>2. /\ row'[o].refunded = row[o].refunded /\ acct'[o].taken = acct[o].taken
        /\ job'[p].o = o => job'[p].at # "refunded"
    BY <1>1, <1>7, IdleIsElsewhere DEF ClearReviewWrites, RowIs, AcctIs, Moves
  <2>3. WalletFits(o)'
    BY <1>1, <1>2, <1>3, <1>6, <2>1, <2>2, SettledWallet DEF ClearReviewWrites, RowIs, Buys,
       TwoLegs, InstantKinds
  <2>4. acct'[o].hold = acct[o].hold /\ row'[o].status = row[o].status
    BY <1>1 DEF ClearReviewWrites, RowIs
  <2>5. HoldFits(o)'
    BY <1>3, <1>4, <1>6, <1>8, <2>1, <2>4, HoldKept DEF Settles, Underway, Buys, TwoLegs,
       InstantKinds
  <2> QED BY <1>2, <1>6, <1>9, <2>3, <2>4, <2>5, <1>7, <2>2, SettledSquare DEF Closed, One,
      Underway, TwoLegs
<1> QED BY <1>2, <1>6, <1>7, <1>8, <1>9, Settled

(* StoreSwapId keeps its order steady, and square. *)
LEMMA StoreSwapIdKeeps ==
  ASSUME TypeInv, NEW p \in Procs, StoreSwapId(p), NEW o \in Orders, o = job[p].o,
         Steady(o), row[o].kind # "legacy"
  PROVE  Steady(o)' /\ (Square(o) => Square(o)')
<1>1. StoreSwapIdWrites(p, o)
  BY StoreSwapIdDoes
<1>2. Seen(p, o)
  BY <1>1, SeenIf DEF StoreSwapIdWrites
<1>3. row[o].kind \in InstantKinds /\ row[o].status \in Underway
  BY <1>1, <1>2 DEF StoreSwapIdWrites, Seen, JobFits, OnPath, JobStatusFits, Kinds, Buys,
     TwoLegs, InstantKinds, Underway
<1>4. /\ job[p].n = row[o].quotation /\ row[o].quotation > 0
      /\ (row[o].sold <=> row[o].kind = "legswap") /\ Current(o) \in {"processing"} \cup Ended
      /\ job[p].by # "report"
  BY <1>1, <1>2, <1>3 DEF StoreSwapIdWrites, Seen, JobFits, OnPath, JobStatusFits, JobIsQuoted,
     JobIsFilled, QuotationFits, StatusFits, FillsFit, GotFits, Leg, One, Buys, TwoLegs,
     InstantKinds, Market, Underway, Ended, ReportSteps
<1>5. Settles(p, o)
  BY <1>1, <1>2, <1>3, <1>4, IdleIsElsewhere DEF StoreSwapIdWrites, Seen, Settles, RowIs,
     AcctIs, Moves, Closed, One, Leg, Late, ReportSteps, Buys, TwoLegs, InstantKinds, Market,
     Underway, Ended
<1>6. ASSUME job'[p].o = o PROVE JobFits(o, job[p])'
  <2> USE <1>1, <1>2, <1>3, <1>4, <1>5, <1>6, IdleIsElsewhere DEF StoreSwapIdWrites, Seen,
     JobFits, Settles, RowIs, Moves, Buys, TwoLegs, InstantKinds, Market, Underway, Ended
  <2>1. OnPath(o, job[p])'
    BY DEF OnPath, ReportSteps
  <2>2. JobStatusFits(o, job[p])'
    BY DEF JobStatusFits
  <2>3. JobIsQuoted(o, job[p])'
    BY DEF JobIsQuoted, Current, Dead
  <2>4. JobIsFilled(o, job[p])'
    BY DEF JobIsFilled, Leg, One
  <2> QED BY <2>1, <2>2, <2>3, <2>4
<1>7. row'[o].needs_review => row[o].needs_review
  BY <1>1, <1>2 DEF StoreSwapIdWrites, Seen, RowIs
<1>8. ASSUME Square(o) PROVE Square(o)'
  <2>1. WalletFits(o) /\ HoldFits(o) /\ JobWalletFits(o, p) /\ JobHoldFits(o, job[p])
    BY <1>2, <1>8 DEF Square, Seen
  <2>2. /\ row'[o].refunded = row[o].refunded /\ acct'[o].taken = acct[o].taken
        /\ job'[p].o = o => job'[p].at # "refunded"
    BY <1>1, <1>6, IdleIsElsewhere DEF StoreSwapIdWrites, RowIs, AcctIs, Moves
  <2>3. WalletFits(o)'
    BY <1>1, <1>2, <1>3, <1>5, <2>1, <2>2, SettledWallet DEF StoreSwapIdWrites, RowIs, Buys,
       TwoLegs, InstantKinds
  <2>4. acct'[o].hold = acct[o].hold /\ row'[o].status = row[o].status
    BY <1>1 DEF StoreSwapIdWrites, RowIs
  <2>5. HoldFits(o)'
    BY <1>3, <1>4, <1>5, <1>7, <2>1, <2>4, HoldKept DEF Settles, Underway, Buys, TwoLegs,
       InstantKinds
  <2>6. ASSUME job'[p].o = o PROVE JobWalletFits(o, p)' /\ JobHoldFits(o, job[p])'
    <3>1. job'[p].at = "await"
      BY <1>1, <2>6, IdleIsElsewhere DEF StoreSwapIdWrites, Moves
    <3> QED BY <1>4, <1>5, <3>1 DEF Settles, JobWalletFits, JobHoldFits
  <2> QED BY <1>2, <1>5, <1>8, <2>3, <2>4, <2>5, <2>6, <2>2, SettledSquare DEF Closed, One,
      Underway, TwoLegs
<1> QED BY <1>2, <1>5, <1>6, <1>7, <1>8, Settled

(* await_swap keeps its order steady, and square. *)
LEMMA await_swapKeeps ==
  ASSUME TypeInv, NEW p \in Procs, _await_swap(p), NEW o \in Orders, o = job[p].o,
         Steady(o), row[o].kind # "legacy"
  PROVE  Steady(o)' /\ (Square(o) => Square(o)')
<1>1. await_swapWrites(p, o)
  BY await_swapDoes
<1>2. Seen(p, o)
  BY <1>1, SeenIf DEF await_swapWrites
<1>3. row[o].kind \in InstantKinds /\ row[o].status \in Underway
  BY <1>1, <1>2 DEF await_swapWrites, Seen, JobFits, OnPath, JobStatusFits, Kinds, Buys,
     TwoLegs, InstantKinds, Underway
<1>4. /\ job[p].n = row[o].quotation /\ row[o].quotation > 0
      /\ (row[o].sold <=> row[o].kind = "legswap") /\ job[p].by # "report"
      /\ (row[o].status = "COMPLETED" => Current(o) = "completed")
  BY <1>1, <1>2, <1>3 DEF await_swapWrites, Seen, JobFits, OnPath, JobStatusFits, JobIsQuoted,
     JobIsFilled, QuotationFits, StatusFits, FillsFit, GotFits, Leg, One, Buys, TwoLegs,
     InstantKinds, Market, Underway, Ended, ReportSteps
<1>5. \/ job'[p] = Idle
      \/ job'[p].at = "converted" /\ Current(o) = "completed"
      \/ job'[p].at = Unconverted(row[o].kind) /\ Dead(o) /\ row[o].status # "COMPLETED"
  <2>1. conversion[o][job[p].n] = Current(o)
    BY <1>4 DEF Current
  <2>2. \/ job'[p] = Idle
        \/ job'[p].at = "converted" /\ Current(o) = "completed"
        \/ job'[p].at = Unconverted(row[o].kind) /\ Current(o) = "failed"
    BY <1>1, <2>1 DEF await_swapWrites, Moves, Outcome, Ended
  <2>3. Current(o) = "failed" => Dead(o) /\ row[o].status # "COMPLETED"
    BY <1>2, <1>4, DeadIfEnded DEF Seen, Live
  <2> QED BY <2>2, <2>3
<1>6. Settles(p, o)
  BY <1>1, <1>2, <1>3, <1>4, <1>5, IdleIsElsewhere DEF await_swapWrites, Seen, Settles, RowIs,
     AcctIs, Moves, Closed, One, Leg, Late, ReportSteps, Buys, TwoLegs, InstantKinds, Market,
     Underway, Ended, Unconverted
<1>7. ASSUME job'[p].o = o PROVE JobFits(o, job[p])'
  <2> USE <1>1, <1>2, <1>3, <1>4, <1>5, <1>6, <1>7, IdleIsElsewhere DEF await_swapWrites, Seen,
     JobFits, Settles, RowIs, Moves, Buys, TwoLegs, InstantKinds, Market, Underway, Ended,
     Unconverted
  <2>1. OnPath(o, job[p])'
    BY DEF OnPath, ReportSteps
  <2>2. JobStatusFits(o, job[p])'
    BY DEF JobStatusFits
  <2>3. JobIsQuoted(o, job[p])'
    BY DEF JobIsQuoted, Current, Dead
  <2>4. JobIsFilled(o, job[p])'
    BY DEF JobIsFilled, Leg, One
  <2> QED BY <2>1, <2>2, <2>3, <2>4
<1>8. row'[o].needs_review => row[o].needs_review
  BY <1>1, <1>2 DEF await_swapWrites, Seen, RowIs
<1>9. ASSUME Square(o) PROVE Square(o)'
  <2>1. WalletFits(o) /\ HoldFits(o) /\ JobWalletFits(o, p) /\ JobHoldFits(o, job[p])
    BY <1>2, <1>9 DEF Square, Seen
  <2>2. /\ row'[o].refunded = row[o].refunded /\ acct'[o].taken = acct[o].taken
        /\ job'[p].o = o => job'[p].at # "refunded"
    BY <1>1, <1>7, <1>5, IdleIsElsewhere DEF await_swapWrites, RowIs, AcctIs, Moves, Unconverted
  <2>3. WalletFits(o)'
    BY <1>1, <1>2, <1>3, <1>6, <2>1, <2>2, SettledWallet DEF await_swapWrites, RowIs, Buys,
       TwoLegs, InstantKinds
  <2>4. acct'[o].hold = acct[o].hold /\ row'[o].status = row[o].status
    BY <1>1 DEF await_swapWrites, RowIs
  <2>5. HoldFits(o)'
    BY <1>3, <1>4, <1>6, <1>8, <2>1, <2>4, HoldKept DEF Settles, Underway, Buys, TwoLegs,
       InstantKinds
  <2>6. ASSUME job'[p].o = o PROVE JobWalletFits(o, p)' /\ JobHoldFits(o, job[p])'
    <3>1. \/ job'[p].at = "converted"
          \/ job'[p].at = "refuse" /\ row[o].kind = "instantbuy"
          \/ job'[p].at = "refundngn" /\ row[o].kind = "legswap"
          \/ job'[p].at = "giveback" /\ row[o].kind = "instantswap"
      BY <1>3, <1>5, <2>6, IdleIsElsewhere DEF Unconverted, InstantKinds
    <3>2. row[o].kind = "legswap" => acct[o].hold = 0
      BY <1>4, <2>1 DEF HoldFits
    <3>3. row[o].kind = "instantswap" => acct[o].hold = One(~Closed(o))
      BY <1>3, <1>4, <2>1 DEF HoldFits, Closed, One, Underway
    <3>4. row'[o].kind = row[o].kind /\ Closed(o)' = Closed(o)
      BY <1>1 DEF await_swapWrites, Closed
    <3> QED BY <2>4, <3>1, <3>2, <3>3, <3>4 DEF JobWalletFits, JobHoldFits, Buys, One
  <2> QED BY <1>2, <1>6, <1>9, <2>3, <2>4, <2>5, <2>6, <2>2, SettledSquare DEF Closed, One,
      Underway, TwoLegs
<1> QED BY <1>2, <1>6, <1>7, <1>8, <1>9, Settled

(* release_instant_swap keeps its order steady, and square. *)
LEMMA release_instant_swapKeeps ==
  ASSUME TypeInv, NEW p \in Procs, _release_instant_swap(p), NEW o \in Orders, o = job[p].o,
         Steady(o), row[o].kind # "legacy"
  PROVE  Steady(o)' /\ (Square(o) => Square(o)')
<1>1. release_instant_swapWrites(p, o)
  BY release_instant_swapDoes
<1>2. Seen(p, o)
  BY <1>1, SeenIf DEF release_instant_swapWrites
<1>3. row[o].kind = "instantswap" /\ row[o].status \in Underway
  BY <1>1, <1>2 DEF release_instant_swapWrites, Seen, JobFits, OnPath, JobStatusFits, Kinds,
     Buys, TwoLegs, InstantKinds, Underway
<1>4. ~row[o].sold
  BY <1>1, <1>2, <1>3 DEF release_instant_swapWrites, Seen, JobFits, OnPath, JobStatusFits,
     JobIsQuoted, JobIsFilled, QuotationFits, StatusFits, FillsFit, GotFits, Leg, One, Buys,
     TwoLegs, InstantKinds, Market, Underway, Ended
<1>5. Dead(o)
  BY <1>1, <1>2 DEF release_instant_swapWrites, Seen, JobFits, JobIsQuoted
<1>6. Settles(p, o)
  BY <1>1, <1>2, <1>3, <1>4, <1>5, IdleIsElsewhere DEF release_instant_swapWrites, Seen,
     Settles, RowIs, AcctIs, Moves, Closed, One, Leg, Late, ReportSteps, Buys, TwoLegs,
     InstantKinds, Market, Underway, Ended
<1>7. job'[p].o # o
  BY <1>1, IdleIsElsewhere DEF release_instant_swapWrites
<1>8. row'[o].needs_review => row[o].needs_review
  BY <1>1, <1>2 DEF release_instant_swapWrites, Seen, RowIs
<1>9. ASSUME Square(o) PROVE Square(o)'
  <2>1. WalletFits(o) /\ HoldFits(o) /\ JobWalletFits(o, p) /\ JobHoldFits(o, job[p])
    BY <1>2, <1>9 DEF Square, Seen
  <2>2. /\ row'[o].refunded = row[o].refunded /\ acct'[o].taken = acct[o].taken
        /\ job'[p].o = o => job'[p].at # "refunded"
    BY <1>1, <1>7, IdleIsElsewhere DEF release_instant_swapWrites, RowIs, AcctIs, Moves
  <2>3. WalletFits(o)'
    BY <1>1, <1>2, <1>3, <1>6, <2>1, <2>2, SettledWallet DEF release_instant_swapWrites, RowIs,
       Buys, TwoLegs, InstantKinds
  <2>4. acct'[o].hold = 0 /\ row'[o].status \in {"COMPLETED", "FAILED"}
            /\ acct[o].hold = One(~Closed(o))
    <3>1. acct[o].hold = One(~Closed(o))
      BY <1>1, <1>3, <1>4, <2>1 DEF release_instant_swapWrites, HoldFits, JobHoldFits, Closed,
         One, Underway, Buys, TwoLegs, InstantKinds
    <3> QED BY <1>1, <1>2, <3>1 DEF release_instant_swapWrites, Seen, RowIs, AcctIs, Closed, One
  <2>5. HoldFits(o)'
    BY <2>4, HoldClosed
  <2> QED BY <1>2, <1>6, <1>9, <2>3, <1>3, <2>4, <2>5, <1>7, <2>2, SettledSquare DEF Closed, One,
      Underway, TwoLegs
<1> QED BY <1>2, <1>6, <1>7, <1>8, <1>9, Settled

(* finalize_instant_swap keeps its order steady, and square. *)
LEMMA finalize_instant_swapKeeps ==
  ASSUME TypeInv, NEW p \in Procs, _finalize_instant_swap(p), NEW o \in Orders, o = job[p].o,
         Steady(o), row[o].kind # "legacy"
  PROVE  Steady(o)' /\ (Square(o) => Square(o)')
<1>1. finalize_instant_swapWrites(p, o)
  BY finalize_instant_swapDoes
<1>2. Seen(p, o)
  BY <1>1, SeenIf DEF finalize_instant_swapWrites
<1>3. row[o].kind = "instantswap" /\ row[o].status \in Underway
  BY <1>1, <1>2 DEF finalize_instant_swapWrites, Seen, JobFits, OnPath, JobStatusFits, Kinds,
     Buys, TwoLegs, InstantKinds, Underway
<1>4. /\ row[o].quotation > 0 /\ Current(o) = "completed" /\ ~row[o].sold
  BY <1>1, <1>2, <1>3 DEF finalize_instant_swapWrites, Seen, JobFits, OnPath, JobStatusFits,
     JobIsQuoted, JobIsFilled, QuotationFits, StatusFits, FillsFit, GotFits, Leg, One, Buys,
     TwoLegs, InstantKinds, Market, Underway, Ended
<1>5. Settles(p, o)
  BY <1>1, <1>2, <1>3, <1>4, IdleIsElsewhere DEF finalize_instant_swapWrites, Seen, Settles,
     RowIs, AcctIs, Moves, Closed, One, Leg, Late, ReportSteps, Buys, TwoLegs, InstantKinds,
     Market, Underway, Ended
<1>6. job'[p].o # o
  BY <1>1, IdleIsElsewhere DEF finalize_instant_swapWrites
<1>7. row'[o].needs_review => row[o].needs_review
  BY <1>1, <1>2 DEF finalize_instant_swapWrites, Seen, RowIs
<1>8. ASSUME Square(o) PROVE Square(o)'
  <2>1. WalletFits(o) /\ HoldFits(o) /\ JobWalletFits(o, p) /\ JobHoldFits(o, job[p])
    BY <1>2, <1>8 DEF Square, Seen
  <2>2. /\ row'[o].refunded = row[o].refunded /\ acct'[o].taken = acct[o].taken
        /\ job'[p].o = o => job'[p].at # "refunded"
    BY <1>1, <1>6, IdleIsElsewhere DEF finalize_instant_swapWrites, RowIs, AcctIs, Moves
  <2>3. WalletFits(o)'
    BY <1>1, <1>2, <1>3, <1>5, <2>1, <2>2, SettledWallet DEF finalize_instant_swapWrites, RowIs,
       Buys, TwoLegs, InstantKinds
  <2>4. acct'[o].hold = 0 /\ row'[o].status \in {"COMPLETED", "FAILED"}
            /\ acct[o].hold = One(~Closed(o))
    <3>1. acct[o].hold = One(~Closed(o))
      BY <1>1, <1>3, <1>4, <2>1 DEF finalize_instant_swapWrites, HoldFits, JobHoldFits, Closed,
         One, Underway, Buys, TwoLegs, InstantKinds
    <3> QED BY <1>1, <1>2, <3>1 DEF finalize_instant_swapWrites, Seen, RowIs, AcctIs, Closed, One
  <2>5. HoldFits(o)'
    BY <2>4, HoldClosed
  <2> QED BY <1>2, <1>5, <1>8, <2>3, <1>3, <2>4, <2>5, <1>6, <2>2, SettledSquare DEF Closed, One,
      Underway, TwoLegs
<1> QED BY <1>2, <1>5, <1>6, <1>7, <1>8, Settled

(* finalize_instant_buy keeps its order steady, and square. *)
LEMMA finalize_instant_buyKeeps ==
  ASSUME TypeInv, NEW p \in Procs, _finalize_instant_buy(p), NEW o \in Orders, o = job[p].o,
         Steady(o), row[o].kind # "legacy"
  PROVE  Steady(o)' /\ (Square(o) => Square(o)')
<1>1. finalize_instant_buyWrites(p, o)
  BY finalize_instant_buyDoes
<1>2. Seen(p, o)
  BY <1>1, SeenIf DEF finalize_instant_buyWrites
<1>3. row[o].kind = "instantbuy" /\ row[o].status \in Underway
  BY <1>1, <1>2 DEF finalize_instant_buyWrites, Seen, JobFits, OnPath, JobStatusFits, Kinds,
     Buys, TwoLegs, InstantKinds, Underway
<1>4. /\ row[o].quotation > 0 /\ Current(o) = "completed" /\ ~row[o].sold
  BY <1>1, <1>2, <1>3 DEF finalize_instant_buyWrites, Seen, JobFits, OnPath, JobStatusFits,
     JobIsQuoted, JobIsFilled, QuotationFits, StatusFits, FillsFit, GotFits, Leg, One, Buys,
     TwoLegs, InstantKinds, Market, Underway, Ended
<1>5. Settles(p, o)
  BY <1>1, <1>2, <1>3, <1>4, IdleIsElsewhere DEF finalize_instant_buyWrites, Seen, Settles,
     RowIs, AcctIs, Moves, Closed, One, Leg, Late, ReportSteps, Buys, TwoLegs, InstantKinds,
     Market, Underway, Ended
<1>6. job'[p].o # o
  BY <1>1, IdleIsElsewhere DEF finalize_instant_buyWrites
<1>7. row'[o].needs_review => row[o].needs_review
  BY <1>1, <1>2 DEF finalize_instant_buyWrites, Seen, RowIs
<1>8. ASSUME Square(o) PROVE Square(o)'
  <2>1. WalletFits(o) /\ HoldFits(o) /\ JobWalletFits(o, p) /\ JobHoldFits(o, job[p])
    BY <1>2, <1>8 DEF Square, Seen
  <2>2. /\ row'[o].refunded = row[o].refunded /\ acct'[o].taken = acct[o].taken
        /\ job'[p].o = o => job'[p].at # "refunded"
    BY <1>1, <1>6, IdleIsElsewhere DEF finalize_instant_buyWrites, RowIs, AcctIs, Moves
  <2>3. WalletFits(o)'
    BY <1>1, <1>2, <1>3, <1>5, <2>1, <2>2, SettledWallet DEF finalize_instant_buyWrites, RowIs,
       Buys, TwoLegs, InstantKinds
  <2>4. acct'[o].hold = 0 /\ row'[o].status \in {"COMPLETED", "FAILED"} /\ acct[o].hold = 0
    <3>1. acct[o].hold = 0
      BY <1>1, <1>3, <1>4, <2>1 DEF finalize_instant_buyWrites, HoldFits, JobHoldFits, Closed,
         One, Underway, Buys, TwoLegs, InstantKinds
    <3> QED BY <1>1, <1>2, <3>1 DEF finalize_instant_buyWrites, Seen, RowIs, AcctIs, Closed, One
  <2>5. HoldFits(o)'
    BY <2>4, HoldClosed
  <2> QED BY <1>2, <1>5, <1>8, <2>3, <1>3, <2>4, <2>5, <1>6, <2>2, SettledSquare DEF Closed, One,
      Underway, TwoLegs
<1> QED BY <1>2, <1>5, <1>6, <1>7, <1>8, Settled

(* finalize_swap_buy_leg keeps its order steady, and square. *)
LEMMA finalize_swap_buy_legKeeps ==
  ASSUME TypeInv, NEW p \in Procs, _finalize_swap_buy_leg(p), NEW o \in Orders, o = job[p].o,
         Steady(o), row[o].kind # "legacy"
  PROVE  Steady(o)' /\ (Square(o) => Square(o)')
<1>1. finalize_swap_buy_legWrites(p, o)
  BY finalize_swap_buy_legDoes
<1>2. Seen(p, o)
  BY <1>1, SeenIf DEF finalize_swap_buy_legWrites
<1>3. row[o].kind = "legswap" /\ row[o].status \in Underway
  BY <1>1, <1>2 DEF finalize_swap_buy_legWrites, Seen, JobFits, OnPath, JobStatusFits, Kinds,
     Buys, TwoLegs, InstantKinds, Underway
<1>4. /\ row[o].quotation > 0 /\ Current(o) = "completed" /\ row[o].sold /\ fills[o].sold = 1
  BY <1>1, <1>2, <1>3 DEF finalize_swap_buy_legWrites, Seen, JobFits, OnPath, JobStatusFits,
     JobIsQuoted, JobIsFilled, QuotationFits, StatusFits, FillsFit, GotFits, Leg, One, Buys,
     TwoLegs, InstantKinds, Market, Underway, Ended
<1>5. Settles(p, o)
  <2>1. Leg(o) = 1
    BY <1>3, <1>4 DEF Leg, TwoLegs
  <2>2. row[o].status \in {"PAYMENT_RECEIVED", "PROCESSING"} \/ Closed(o)
    BY <1>3 DEF Underway, Closed
  <2>3. job'[p].o # o /\ job[p].at \in Late /\ Tidy(p, o)
    BY <1>1, IdleIsElsewhere DEF finalize_swap_buy_legWrites, Late, ReportSteps
  <2>4. row'[o].swap \in {row[o].swap, row[o].quotation} /\ row[o].kind \in InstantKinds
    BY <1>1, <1>2, <1>3 DEF finalize_swap_buy_legWrites, Seen, RowIs, InstantKinds
  <2>5. CASE Closed(o)
    BY <1>1, <2>3, <2>4, <2>5 DEF finalize_swap_buy_legWrites, Settles
  <2>6. CASE ~Closed(o)
    BY <1>1, <1>3, <1>4, <2>1, <2>2, <2>3, <2>4, <2>6 DEF finalize_swap_buy_legWrites, Settles,
       RowIs, AcctIs
  <2> QED BY <2>5, <2>6
<1>6. job'[p].o # o
  BY <1>1, IdleIsElsewhere DEF finalize_swap_buy_legWrites
<1>7. row'[o].needs_review => row[o].needs_review
  BY <1>1, <1>2 DEF finalize_swap_buy_legWrites, Seen, RowIs
<1>8. ASSUME Square(o) PROVE Square(o)'
  <2>1. WalletFits(o) /\ HoldFits(o) /\ JobWalletFits(o, p) /\ JobHoldFits(o, job[p])
    BY <1>2, <1>8 DEF Square, Seen
  <2>2. /\ row'[o].refunded = row[o].refunded /\ acct'[o].taken = acct[o].taken
        /\ job'[p].o = o => job'[p].at # "refunded"
    BY <1>1, <1>6, IdleIsElsewhere DEF finalize_swap_buy_legWrites, RowIs, AcctIs, Moves
  <2>3. WalletFits(o)'
    BY <1>1, <1>2, <1>3, <1>5, <2>1, <2>2, SettledWallet DEF finalize_swap_buy_legWrites, RowIs,
       Buys, TwoLegs, InstantKinds
  <2>4. acct'[o].hold = 0 /\ row'[o].status \in {"COMPLETED", "FAILED"} /\ acct[o].hold = 0
    <3>1. acct[o].hold = 0
      BY <1>1, <1>3, <1>4, <2>1 DEF finalize_swap_buy_legWrites, HoldFits, JobHoldFits, Closed,
         One, Underway, Buys, TwoLegs, InstantKinds
    <3> QED BY <1>1, <1>2, <3>1 DEF finalize_swap_buy_legWrites, Seen, RowIs, AcctIs, Closed, One
  <2>5. HoldFits(o)'
    BY <2>4, HoldClosed
  <2> QED BY <1>2, <1>5, <1>8, <2>3, <1>3, <2>4, <2>5, <1>6, <2>2, SettledSquare DEF Closed, One,
      Underway, TwoLegs
<1> QED BY <1>2, <1>5, <1>6, <1>7, <1>8, Settled

(* Unusable keeps its order steady, and square. *)
LEMMA UnusableKeeps ==
  ASSUME TypeInv, NEW p \in Procs, Unusable(p), NEW o \in Orders, o = job[p].o,
         Steady(o), row[o].kind # "legacy"
  PROVE  Steady(o)' /\ (Square(o) => Square(o)')
<1>1. UnusableWrites(p, o)
  BY UnusableDoes
<1>2. Seen(p, o)
  BY <1>1, SeenIf DEF UnusableWrites
<1>3. row[o].kind \in InstantKinds /\ row[o].status \in Underway
  BY <1>1, <1>2 DEF UnusableWrites, Seen, JobFits, OnPath, JobStatusFits, Kinds, Buys, TwoLegs,
     InstantKinds, Underway
<1>4. /\ row[o].quotation > 0 /\ (row[o].sold <=> row[o].kind = "legswap")
  BY <1>1, <1>2, <1>3 DEF UnusableWrites, Seen, JobFits, OnPath, JobStatusFits, JobIsQuoted,
     JobIsFilled, QuotationFits, StatusFits, FillsFit, GotFits, Leg, One, Buys, TwoLegs,
     InstantKinds, Market, Underway, Ended
<1>5. Settles(p, o)
  BY <1>1, <1>2, <1>3, <1>4, IdleIsElsewhere DEF UnusableWrites, Seen, Settles, RowIs, AcctIs,
     Moves, Closed, One, Leg, Late, ReportSteps, Buys, TwoLegs, InstantKinds, Market, Underway,
     Ended
<1>6. ASSUME job'[p].o = o PROVE JobFits(o, job[p])'
  <2> USE <1>1, <1>2, <1>3, <1>4, <1>5, <1>6, IdleIsElsewhere DEF UnusableWrites, Seen, JobFits,
     Settles, RowIs, Moves, Buys, TwoLegs, InstantKinds, Market, Underway, Ended
  <2>1. OnPath(o, job[p])'
    BY DEF OnPath, ReportSteps
  <2>2. JobStatusFits(o, job[p])'
    BY DEF JobStatusFits
  <2>3. JobIsQuoted(o, job[p])'
    BY DEF JobIsQuoted, Current, Dead
  <2>4. JobIsFilled(o, job[p])'
    BY DEF JobIsFilled, Leg, One
  <2> QED BY <2>1, <2>2, <2>3, <2>4
<1>7. row'[o].needs_review => row[o].needs_review
  BY <1>1, <1>2 DEF UnusableWrites, Seen, RowIs
<1>8. ASSUME Square(o) PROVE Square(o)'
  <2>1. WalletFits(o) /\ HoldFits(o) /\ JobWalletFits(o, p) /\ JobHoldFits(o, job[p])
    BY <1>2, <1>8 DEF Square, Seen
  <2>2. /\ row'[o].refunded = row[o].refunded /\ acct'[o].taken = acct[o].taken
        /\ job'[p].o = o => job'[p].at # "refunded"
    BY <1>1, <1>6, IdleIsElsewhere DEF UnusableWrites, RowIs, AcctIs, Moves
  <2>3. WalletFits(o)'
    BY <1>1, <1>2, <1>3, <1>5, <2>1, <2>2, SettledWallet DEF UnusableWrites, RowIs, Buys,
       TwoLegs, InstantKinds
  <2>4. acct'[o].hold = acct[o].hold /\ row'[o].status = row[o].status
    BY <1>1 DEF UnusableWrites, RowIs
  <2>5. HoldFits(o)'
    BY <1>3, <1>4, <1>5, <1>7, <2>1, <2>4, HoldKept DEF Settles, Underway, Buys, TwoLegs,
       InstantKinds
  <2>6. ASSUME job'[p].o = o PROVE JobWalletFits(o, p)' /\ JobHoldFits(o, job[p])'
    <3>1. job'[p].at = "flag"
      BY <1>1, <2>6, IdleIsElsewhere DEF UnusableWrites, Moves
    <3> QED BY <1>4, <1>5, <3>1 DEF Settles, JobWalletFits, JobHoldFits
  <2> QED BY <1>2, <1>5, <1>8, <2>3, <2>4, <2>5, <2>6, <2>2, SettledSquare DEF Closed, One,
      Underway, TwoLegs
<1> QED BY <1>2, <1>5, <1>6, <1>7, <1>8, Settled

(* refund_failed_swap_as_ngn keeps its order steady, and square. *)
LEMMA refund_failed_swap_as_ngnKeeps ==
  ASSUME TypeInv, NEW p \in Procs, _refund_failed_swap_as_ngn(p), NEW o \in Orders, o = job[p].o,
         Steady(o), row[o].kind # "legacy"
  PROVE  Steady(o)' /\ (Square(o) => Square(o)')
<1>1. refund_failed_swap_as_ngnWrites(p, o)
  BY refund_failed_swap_as_ngnDoes
<1>2. Seen(p, o)
  BY <1>1, SeenIf DEF refund_failed_swap_as_ngnWrites
<1>3. row[o].kind \in TwoLegs /\ row[o].status \in Underway
  BY <1>1, <1>2 DEF refund_failed_swap_as_ngnWrites, Seen, JobFits, OnPath, JobStatusFits,
     Kinds, Buys, TwoLegs, InstantKinds, Underway
<1>4. /\ row[o].sold /\ fills[o].sold = 1
      /\ (row[o].kind = "swap" => row[o].status = "PROCESSING")
  BY <1>1, <1>2, <1>3 DEF refund_failed_swap_as_ngnWrites, Seen, JobFits, OnPath, JobStatusFits,
     JobIsQuoted, JobIsFilled, QuotationFits, StatusFits, FillsFit, GotFits, Leg, One, Buys,
     TwoLegs, InstantKinds, Market, Underway, Ended
<1>5. Dead(o)
  BY <1>1, <1>2 DEF refund_failed_swap_as_ngnWrites, Seen, JobFits, JobIsQuoted
<1>6. Settles(p, o)
  BY <1>1, <1>2, <1>3, <1>4, <1>5, IdleIsElsewhere DEF refund_failed_swap_as_ngnWrites, Seen,
     Settles, RowIs, AcctIs, Moves, Closed, One, Leg, Late, ReportSteps, Buys, TwoLegs,
     InstantKinds, Market, Underway, Ended
<1>7. ASSUME job'[p].o = o PROVE JobFits(o, job[p])'
  <2> USE <1>1, <1>2, <1>3, <1>4, <1>5, <1>6, <1>7, IdleIsElsewhere
     DEF refund_failed_swap_as_ngnWrites, Seen, JobFits, Settles, RowIs, Moves, Buys, TwoLegs,
        InstantKinds, Market, Underway, Ended
  <2>1. OnPath(o, job[p])'
    BY DEF OnPath, ReportSteps
  <2>2. JobStatusFits(o, job[p])'
    BY DEF JobStatusFits
  <2>3. JobIsQuoted(o, job[p])'
    BY DEF JobIsQuoted, Current, Dead
  <2>4. JobIsFilled(o, job[p])'
    BY DEF JobIsFilled, Leg, One
  <2> QED BY <2>1, <2>2, <2>3, <2>4
<1>8. row'[o].needs_review => row[o].needs_review
  BY <1>1, <1>2 DEF refund_failed_swap_as_ngnWrites, Seen, RowIs
<1>9. ASSUME Square(o) PROVE Square(o)'
  <2>1. WalletFits(o) /\ HoldFits(o) /\ JobWalletFits(o, p) /\ JobHoldFits(o, job[p])
    BY <1>2, <1>9 DEF Square, Seen
  <2>2. /\ row'[o].refunded = row[o].refunded /\ acct'[o].taken = acct[o].taken
        /\ job'[p].o = o => job'[p].at # "refunded"
    BY <1>1, <1>7, IdleIsElsewhere DEF refund_failed_swap_as_ngnWrites, RowIs, AcctIs, Moves
  <2>3. WalletFits(o)'
    BY <1>1, <1>2, <1>3, <1>6, <2>1, <2>2, SettledWallet DEF refund_failed_swap_as_ngnWrites,
       RowIs, Buys, TwoLegs, InstantKinds
  <2>4. acct'[o].hold = 0 /\ row'[o].status \in {"COMPLETED", "FAILED"} /\ acct[o].hold = 0
    <3>1. acct[o].hold = 0
      BY <1>1, <1>3, <1>4, <2>1 DEF refund_failed_swap_as_ngnWrites, HoldFits, JobHoldFits,
         Closed, One, Underway, Buys, TwoLegs, InstantKinds
    <3> QED BY <1>1, <1>2, <3>1 DEF refund_failed_swap_as_ngnWrites, Seen, RowIs, AcctIs, Closed,
        One
  <2>5. HoldFits(o)'
    BY <2>4, HoldClosed
  <2>6. ASSUME job'[p].o = o PROVE JobWalletFits(o, p)' /\ JobHoldFits(o, job[p])'
    <3>1. job'[p].at = "clear"
      BY <1>1, <2>6, IdleIsElsewhere DEF refund_failed_swap_as_ngnWrites, Moves
    <3> QED BY <1>4, <1>6, <3>1 DEF Settles, JobWalletFits, JobHoldFits
  <2> QED BY <1>2, <1>6, <1>9, <2>3, <1>3, <2>4, <2>5, <2>6, <2>2, SettledSquare DEF Closed, One,
      Underway, TwoLegs
<1> QED BY <1>2, <1>6, <1>7, <1>8, <1>9, Settled

(* flag_for_review keeps its order steady, and square. *)
LEMMA flag_for_reviewKeeps ==
  ASSUME TypeInv, NEW p \in Procs, _flag_for_review(p), NEW o \in Orders, o = job[p].o,
         Steady(o), row[o].kind # "legacy"
  PROVE  Steady(o)' /\ (Square(o) => Square(o)')
<1>1. flag_for_reviewWrites(p, o)
  BY flag_for_reviewDoes
<1>2. Seen(p, o)
  BY <1>1, SeenIf DEF flag_for_reviewWrites
<1>3. row[o].kind \in Kinds \ {"legacy"} /\ row[o].status \in Underway \cup {"PAYMENT_RECEIVED"}
  BY <1>1, <1>2 DEF flag_for_reviewWrites, Seen, JobFits, OnPath, JobStatusFits, Kinds, Buys,
     TwoLegs, InstantKinds, Underway
<1>4. /\ (row[o].kind \in InstantKinds =>
             (row[o].quotation > 0 <=> row[o].kind # "legswap" \/ row[o].sold))
      /\ (row[o].kind \in Market /\ ~row[o].sold => Leg(o) = One(fills[o].last))
      /\ (row[o].kind = "swap" /\ row[o].sold /\ fills[o].last => fills[o].bought > 0)
      /\ (row[o].status = "PAYMENT_RECEIVED" => row[o].kind = "buy")
  <2>1. row[o].kind \in InstantKinds =>
            (row[o].quotation > 0 <=> row[o].kind # "legswap" \/ row[o].sold)
    BY <1>1, <1>2, <1>3 DEF flag_for_reviewWrites, Seen, JobFits, JobIsQuoted
  <2>2. row[o].kind \in Market /\ ~row[o].sold => Leg(o) = One(fills[o].last)
    BY <1>1, <1>2, <1>3 DEF flag_for_reviewWrites, Seen, JobFits, JobIsFilled, One
  <2>3. row[o].kind = "swap" /\ row[o].sold /\ fills[o].last => fills[o].bought > 0
    BY <1>1, <1>2, <1>3 DEF flag_for_reviewWrites, Seen, JobFits, JobIsFilled, Market
  <2>4. row[o].status = "PAYMENT_RECEIVED" => row[o].kind = "buy"
    BY <1>1, <1>2, <1>3 DEF flag_for_reviewWrites, Seen, JobFits, JobStatusFits, OnPath, Kinds,
       Buys, TwoLegs, InstantKinds, Underway
  <2> QED BY <2>1, <2>2, <2>3, <2>4
<1>5. Settles(p, o)
  BY <1>1, <1>2, <1>3, <1>4, IdleIsElsewhere DEF flag_for_reviewWrites, Seen, Settles, RowIs,
     AcctIs, Moves, Closed, One, Leg, Late, ReportSteps, Buys, TwoLegs, InstantKinds, Market,
     Underway, Ended
<1>6. job'[p].o # o
  BY <1>1, IdleIsElsewhere DEF flag_for_reviewWrites
<1>7. ReviewFits(o)' \/ (row'[o].needs_review => row[o].needs_review)
  <2> SUFFICES ASSUME ~Closed(o) PROVE ReviewFits(o)'
    BY <1>1 DEF flag_for_reviewWrites
  <2>1. row'[o].status = "PROCESSING" /\ job'[p] = Idle
    BY <1>1 DEF flag_for_reviewWrites, RowIs
  <2>2. row[o].quotation = 0 => Resting(o)'
    <3>1. row[o].quotation = 0 => Alone(p, o)
      BY <1>2, <1>4, Beside DEF Seen, Alone, InstantKinds
    <3> QED BY <1>2, <2>1, <3>1, IdleIsElsewhere DEF Seen, Resting, Alone, On, Others
  <2>3. /\ row[o].kind \in {"instantbuy", "instantswap"} => row[o].quotation > 0
        /\ row[o].kind = "legswap" /\ row[o].sold => row[o].quotation > 0
        /\ row[o].quotation = 0 /\ ~row[o].sold => Leg(o) = One(fills[o].last)
    BY <1>2, <1>3, <1>4 DEF Seen, InstantKinds, Market, Kinds, Buys, TwoLegs
  <2> QED BY <1>4, <1>5, <2>1, <2>2, <2>3 DEF Settles, ReviewFits, Leg
<1>8. ASSUME Square(o) PROVE Square(o)'
  <2>1. WalletFits(o) /\ HoldFits(o) /\ JobWalletFits(o, p) /\ JobHoldFits(o, job[p])
    BY <1>2, <1>8 DEF Square, Seen
  <2>2. /\ row'[o].refunded = row[o].refunded /\ acct'[o].taken = acct[o].taken
        /\ job'[p].o = o => job'[p].at # "refunded"
    BY <1>1, <1>6, IdleIsElsewhere DEF flag_for_reviewWrites, RowIs, AcctIs, Moves
  <2>3. WalletFits(o)'
    BY <1>1, <1>2, <1>3, <1>5, <2>1, <2>2, SettledWallet DEF flag_for_reviewWrites, RowIs, Buys,
       TwoLegs, InstantKinds
  <2>4. acct' = acct /\ (IF Closed(o) THEN row' = row ELSE row'[o].status = "PROCESSING")
    BY <1>1 DEF flag_for_reviewWrites, RowIs
  <2>5. HoldFits(o)'
    <3>1. CASE Closed(o)
      BY <1>3, <2>1, <2>4, <3>1, HoldKept DEF Closed, Underway
    <3>2. CASE ~Closed(o)
      <4>1. row[o].kind \notin Buys /\ row[o].quotation = 0 => acct[o].hold = One(~row[o].sold)
        BY <1>1, <2>1 DEF flag_for_reviewWrites, JobHoldFits
      <4>2. row[o].status = "PROCESSING" \/ row[o].kind = "buy"
        BY <1>3, <1>4, <3>2 DEF Closed, Underway
      <4>3. row[o].kind = "instantswap" => row[o].quotation > 0
        BY <1>2, <1>4 DEF Seen, InstantKinds
      <4> QED BY <1>5, <2>1, <2>4, <3>2, <4>1, <4>2, <4>3 DEF Settles, HoldFits, Buys, Closed
    <3> QED BY <3>1, <3>2
  <2> QED BY <1>2, <1>5, <1>8, <2>3, <1>3, <1>4, <2>4, <2>5, <1>6, <2>2, SettledSquare DEF Closed,
      One, Underway, TwoLegs
<1> QED BY <1>2, <1>5, <1>6, <1>7, <1>8, Settled

(* fail_order keeps its order steady, and square. *)
LEMMA fail_orderKeeps ==
  ASSUME TypeInv, NEW p \in Procs, _fail_order(p), NEW o \in Orders, o = job[p].o,
         Steady(o), row[o].kind # "legacy"
  PROVE  Steady(o)' /\ (Square(o) => Square(o)')
<1>1. fail_orderWrites(p, o)
  BY fail_orderDoes
<1>2. Seen(p, o)
  BY <1>1, SeenIf DEF fail_orderWrites
<1>3. row[o].kind \in Kinds \ {"legacy"}
          /\ row[o].status \in {"PAYMENT_RECEIVED", "PROCESSING", "FAILED"}
  BY <1>1, <1>2 DEF fail_orderWrites, Seen, JobFits, OnPath, JobStatusFits, Kinds, Buys,
     TwoLegs, InstantKinds, Underway
<1>4. /\ (row[o].kind \in Market => Leg(o) = 0) /\ ~row[o].sold
      /\ (row[o].kind # "instantbuy" => row[o].quotation = 0)
      /\ (row[o].kind \notin Buys => row[o].status = "PROCESSING")
      /\ (row[o].status = "FAILED" => row[o].kind = "instantbuy")
  BY <1>1, <1>2, <1>3 DEF fail_orderWrites, Seen, JobFits, OnPath, JobStatusFits, JobIsQuoted,
     JobIsFilled, QuotationFits, StatusFits, FillsFit, GotFits, Leg, One, Buys, TwoLegs,
     InstantKinds, Market, Underway, Ended
<1>5. Dead(o)
  BY <1>1, <1>2 DEF fail_orderWrites, Seen, JobFits, JobIsQuoted
<1>6. Refunds(p) => row[o].kind \in Buys
  BY <1>1, <1>2, <1>3 DEF fail_orderWrites, Seen, JobFits, OnPath, Refunds, Buys
<1>7. Settles(p, o)
  BY <1>1, <1>2, <1>3, <1>4, <1>5, <1>6, IdleIsElsewhere DEF fail_orderWrites, Seen, Settles,
     RowIs, AcctIs, Moves, Closed, One, Leg, Late, ReportSteps, Buys, TwoLegs, InstantKinds,
     Market, Underway, Ended
<1>8. ASSUME job'[p].o = o PROVE JobFits(o, job[p])'
  <2> USE <1>1, <1>2, <1>3, <1>4, <1>5, <1>6, <1>7, <1>8, IdleIsElsewhere DEF fail_orderWrites,
     Seen, JobFits, Settles, RowIs, Moves, Buys, TwoLegs, InstantKinds, Market, Underway, Ended
  <2>1. OnPath(o, job[p])'
    BY DEF OnPath, ReportSteps
  <2>2. JobStatusFits(o, job[p])'
    <3>1. job'[p].at \in {"refunded", "clear"}
      BY <1>1, <1>8, IdleIsElsewhere DEF Moves
    <3>2. row'[o].status = "FAILED"
      BY <1>1, <1>8, IdleIsElsewhere DEF RowIs, Closed
    <3> HIDE <1>1, <1>2, <1>7 DEF fail_orderWrites, Seen, Settles
    <3> QED BY <3>1, <3>2 DEF JobStatusFits, Underway
  <2>3. JobIsQuoted(o, job[p])'
    BY DEF JobIsQuoted, Current, Dead
  <2>4. JobIsFilled(o, job[p])'
    BY DEF JobIsFilled, Leg, One
  <2> QED BY <2>1, <2>2, <2>3, <2>4
<1>9. row'[o].needs_review => row[o].needs_review
  BY <1>1, <1>2 DEF fail_orderWrites, Seen, RowIs
<1>10. ASSUME Square(o) PROVE Square(o)'
  <2>1. WalletFits(o) /\ HoldFits(o) /\ JobWalletFits(o, p) /\ JobHoldFits(o, job[p])
    BY <1>2, <1>10 DEF Square, Seen
  <2>2. /\ row[o].paid \in Nat /\ row[o].refunded \in Nat /\ acct[o].taken \in Int
        /\ FromWallet(o)' = FromWallet(o) /\ FromWallet(o) \in {0, 1}
    BY <1>2, <1>7 DEF Seen, Settles, FromWallet, One
  <2>3. WalletFits(o)' /\ (row[o].kind \in Buys /\ ~Closed(o) =>
          (Refunds(p) <=> FromWallet(o) = 1) /\ row[o].paid = row[o].refunded + FromWallet(o))
    <3> SUFFICES ASSUME row[o].kind \in Buys
        PROVE  WalletFits(o)' /\ (~Closed(o) =>
                 (Refunds(p) <=> FromWallet(o) = 1)
                     /\ row[o].paid = row[o].refunded + FromWallet(o))
      BY <1>7 DEF Settles, WalletFits
    <3>1. ASSUME ~Closed(o)
          PROVE  /\ row[o].paid = row[o].refunded + FromWallet(o) /\ acct[o].taken = FromWallet(o)
                 /\ Refunds(p) <=> FromWallet(o) = 1
      <4>1. row[o].paid = row[o].refunded + FromWallet(o) /\ acct[o].taken = FromWallet(o)
        BY <1>3, <2>1, <3>1 DEF WalletFits, Closed
      <4>2. CASE row[o].kind = "instantbuy"
        BY <2>2, <4>1, <4>2 DEF Refunds, _wallet_payment_outstanding
      <4>3. CASE row[o].kind = "buy"
        <5>1. job[p].refund <=> FromWallet(o) = 1
          BY <1>1, <2>1, <4>3 DEF fail_orderWrites, JobWalletFits, Buys
        <5> QED BY <4>1, <4>3, <5>1 DEF Refunds
      <4> QED BY <4>1, <4>2, <4>3 DEF Buys
    <3>2. CASE Closed(o)
      <4>1. row' = row /\ acct' = acct /\ job[p].at = "refuse"
        BY <1>1, <3>2 DEF fail_orderWrites
      <4> QED BY <1>2, <1>7, <2>1, <3>2, <4>1, SettledWallet
    <3>3. CASE ~Closed(o) /\ Refunds(p)
      <4>1. /\ row'[o].status = "FAILED" /\ job'[p].at = "refunded" /\ job'[p].o = o
            /\ acct'[o].taken = 0
        BY <1>1, <2>2, <3>1, <3>3 DEF fail_orderWrites, RowIs, AcctIs, Moves
      <4>2. ~external'[o] /\ ~past'[o].rejected
        BY <1>1, <3>1, <3>3 DEF fail_orderWrites, FromWallet, One
      <4>3. On(p, o)' /\ job'[p].at = "refunded"
        BY <4>1 DEF On
      <4> QED BY <3>1, <3>3, <4>1, <4>2, <4>3 DEF WalletFits
    <3>4. CASE ~Closed(o) /\ ~Refunds(p)
      <4>1. FromWallet(o) = 0 /\ row[o].paid = row[o].refunded /\ acct[o].taken = 0
        BY <2>2, <3>1, <3>4
      <4>2. /\ row'[o].status = "FAILED" /\ row'[o].paid = row[o].paid
            /\ row'[o].refunded = row[o].refunded
            /\ acct' = acct /\ external' = external /\ past' = past
        BY <1>1, <3>4 DEF fail_orderWrites, RowIs
      <4>3. external[o] \/ past[o].rejected => row[o].paid = 0 /\ row[o].refunded = 0
        BY <2>1 DEF WalletFits
      <4> QED BY <2>2, <3>1, <3>4, <4>1, <4>2, <4>3 DEF WalletFits
    <3> QED BY <3>1, <3>2, <3>3, <3>4
  <2>4. acct[o].hold = 0 /\ acct'[o].hold = 0 /\ row'[o].status \in {"COMPLETED", "FAILED"}
    BY <1>1, <2>1 DEF fail_orderWrites, HoldFits, JobHoldFits, RowIs, AcctIs, Closed
  <2>5. HoldFits(o)'
    BY <2>4, HoldClosed
  <2>6. ASSUME job'[p].o = o PROVE JobWalletFits(o, p)' /\ JobHoldFits(o, job[p])'
    <3>1. job'[p].at \in {"refunded", "clear"}
      BY <1>1, <2>6, IdleIsElsewhere DEF fail_orderWrites, Moves
    <3>2. ASSUME row[o].kind \in Buys, job'[p].at = "refunded"
          PROVE  /\ row'[o].paid = row'[o].refunded + 1 /\ FromWallet(o)' = 1
                 /\ \A q \in Procs : On(q, o)' /\ job'[q].at = "refunded" => p = q
      <4>1. ~Closed(o) /\ Refunds(p) /\ row'[o].paid = row[o].paid
                /\ row'[o].refunded = row[o].refunded
        BY <1>1, <2>6, <3>2, IdleIsElsewhere DEF fail_orderWrites, Moves, RowIs
      <4>2. ASSUME NEW q \in Procs, q # p, On(q, o)' PROVE job'[q].at # "refunded"
        <5>1. On(q, o) /\ job'[q] = job[q]
          BY <1>2, <4>2 DEF Seen, On, Others
        <5> QED BY <4>1, <5>1 DEF Steady, JobFits, JobStatusFits, Closed
      <4> QED BY <2>2, <2>3, <3>2, <4>1, <4>2
    <3> QED BY <1>7, <3>1, <3>2 DEF Settles, JobWalletFits, JobHoldFits
  <2>7. ASSUME NEW q \in Procs, q # p, On(q, o), job[q].at = "refunded"
        PROVE  row'[o].refunded = row[o].refunded /\ (job'[p].o = o => job'[p].at # "refunded")
    <3>1. Closed(o)
      BY <2>7 DEF Steady, JobFits, JobStatusFits, Closed
    <3> QED BY <1>1, <3>1, IdleIsElsewhere DEF fail_orderWrites, Moves
  <2> QED BY <1>2, <1>7, <1>10, <2>3, <2>4, <2>5, <2>6, <2>7, SettledSquare DEF Closed, One,
      Underway, TwoLegs
<1> QED BY <1>2, <1>7, <1>8, <1>9, <1>10, Settled

(* complete_swap keeps its order steady, and square. *)
LEMMA complete_swapKeeps ==
  ASSUME TypeInv, NEW p \in Procs, _complete_swap(p), NEW o \in Orders, o = job[p].o,
         Steady(o), row[o].kind # "legacy"
  PROVE  Steady(o)' /\ (Square(o) => Square(o)')
<1>1. job[p].at \in {"bookleg", "finishleg", "compensate"} /\ Tidy(p, o)
  BY complete_swapDoes DEF complete_swapWrites
<1>2. job[p] # Idle /\ On(p, o)
  BY <1>1, AtWork DEF On
<1>3. StatusFits(o) /\ QuotationFits(o) /\ FillsFit(o) /\ ReviewFits(o) /\ GotFits(o)
          /\ JobFits(o, job[p])
  BY <1>2 DEF Steady, OrderFits
<1>4. /\ job[p].at # "compensate"
      /\ row[o].kind \in TwoLegs /\ row[o].status \in Underway
      /\ job[p].at = "bookleg" \/ row[o].kind = "swap" =>
             row[o].kind = "swap" /\ row[o].status = "PROCESSING"
  BY <1>1, <1>3, RowTypes DEF JobFits, OnPath, JobStatusFits, TwoLegs, InstantKinds, Underway
<1>5. /\ job[p].at \in {"bookleg", "finishleg"} /\ external' = external /\ past' = past
      /\ fills' = fills /\ conversion' = conversion /\ job'[p] = Idle
      /\ \/ row[o].status = "COMPLETED" /\ row' = row /\ acct' = acct
         \/ /\ row[o].status # "COMPLETED"
            /\ RowIs(o, "COMPLETED", row[o].needs_review, row[o].sold, row[o].quotation,
                   row[o].swap,
                     row[o].paid, row[o].refunded)
            /\ AcctIs(o, acct[o].taken, acct[o].hold - One(job[p].at = "bookleg"),
                   acct[o].got + 1)
  <2>1. acct[o].hold - 0 = acct[o].hold
    BY BookTypes
  <2> QED BY <1>1, <1>4, <2>1, complete_swapDoes DEF One, complete_swapWrites
<1>6. /\ row[o].sold /\ Leg(o) = 1
      /\ row[o].kind = "swap" => fills[o].bought > 0
      /\ row[o].kind = "legswap" => row[o].quotation > 0 /\ Current(o) = "completed"
  BY <1>3, <1>4, <1>5 DEF JobFits, JobIsQuoted, JobIsFilled, FillsFit, TwoLegs, Market
<1>7. row[o].status # "FAILED"
  <2>1. row[o].status = "FAILED" => row[o].kind = "legswap" /\ Dead(o)
    BY <1>3, <1>4 DEF QuotationFits, TwoLegs
  <2> QED BY <1>6, <2>1, DeadOrCompleted
<1>8. row[o].kind = "swap" \/ job[p].at = "bookleg" => Alone(p, o)
  BY <1>2, <1>4, <1>5, AloneIf DEF Late, ReportSteps, InstantKinds
<1>9. job[p].at \in Late \/ Alone(p, o)
  BY <1>5, <1>8 DEF Late
<1>10. /\ row'[o].kind = row[o].kind /\ row'[o].quotation = row[o].quotation
       /\ row'[o].sold = row[o].sold
       /\ row'[o].swap = row[o].swap /\ row'[o].needs_review = row[o].needs_review
       /\ row'[o].paid = row[o].paid /\ row'[o].refunded = row[o].refunded
       /\ row'[o].status = "COMPLETED" /\ acct'[o].taken = acct[o].taken
  BY <1>5 DEF RowIs, AcctIs
<1>11. /\ row[o].quotation \in 0..MaxQuotations /\ row[o].swap \in 0..MaxQuotations /\ Others(p)
       /\ acct[o].hold \in Int
  BY <1>1, RowTypes, BookTypes DEF Tidy
<1>12. Current(o)' = Current(o) /\ (Dead(o)' <=> Dead(o)) /\ Leg(o)' = Leg(o)
  BY <1>5, <1>10 DEF Current, Dead, Leg
<1>13. StatusFits(o)'
  BY <1>3, <1>4, <1>10 DEF StatusFits, Buys, TwoLegs, Underway
<1>14. QuotationFits(o)'
  <2>1. row[o].kind \notin InstantKinds => row[o].swap = 0 /\ row[o].quotation = 0
    BY <1>3, <1>11 DEF QuotationFits
  <2>2. \/ row'[o].status = "COMPLETED" /\ row[o].kind \notin InstantKinds
        \/ row'[o].status = "COMPLETED" /\ row[o].quotation > 0 /\ Current(o) = "completed"
    BY <1>4, <1>6, <1>10 DEF TwoLegs, InstantKinds
  <2> QED BY <1>3, <1>5, <1>10, <1>11, <2>1, <2>2, QuotationSettled
<1>15. FillsFit(o)'
  BY <1>4, <1>5, <1>6, <1>10, <1>12 DEF FillsFit, TwoLegs
<1>16. ReviewFits(o)'
  <2>1. row[o].needs_review => row[o].quotation > 0
    BY <1>2, <1>3, NotInReview
  <2> QED BY <1>10, <2>1 DEF ReviewFits
<1>17. GotFits(o)'
  <2>1. row[o].status # "COMPLETED" => acct[o].got = 0
    BY <1>3, <1>7 DEF GotFits, One
  <2>2. acct'[o].got = 1
    BY <1>3, <1>5, <2>1 DEF GotFits, AcctIs, One
  <2> QED BY <1>10, <2>2 DEF GotFits, One
<1>18. ASSUME NEW q \in Procs, q # p, On(q, o) PROVE JobFits(o, job[q])'
  <2>1. row'[o].status = "COMPLETED" /\ row[o].quotation > 0 /\ Current(o) = "completed"
    BY <1>4, <1>6, <1>8, <1>10, <1>18 DEF Alone, TwoLegs
  <2> QED BY <1>2, <1>5, <1>10, <1>11, <1>18, <2>1, BesideFits
<1>19. job'[p].o # o
  BY <1>5, IdleIsElsewhere
<1>20. ASSUME Square(o) PROVE Square(o)'
  <2>1. WalletFits(o) /\ HoldFits(o) /\ JobHoldFits(o, job[p])
    BY <1>2, <1>20 DEF Square
  <2>2. acct'[o].hold = 0
    <3>1. acct[o].hold = One(job[p].at = "bookleg")
      BY <1>4, <1>5, <2>1 DEF JobHoldFits, One, TwoLegs, Buys
    <3>2. row[o].status = "COMPLETED" => job[p].at # "bookleg"
      BY <1>4
    <3> QED BY <1>5, <3>1, <3>2 DEF AcctIs, One
  <2>3. HoldFits(o)'
    BY <1>10, <2>2, HoldClosed
  <2>4. WalletFits(o)'
    BY <1>4, <1>10 DEF WalletFits, Buys, TwoLegs
  <2>5. ASSUME NEW q \in Procs, q # p, On(q, o) PROVE JobWalletFits(o, q)'
                   /\ JobHoldFits(o, job[q])'
    <3>1. JobWalletFits(o, q)'
      BY <1>4, <1>10 DEF JobWalletFits, Buys, TwoLegs
    <3>2. row[o].kind # "instantswap" /\ acct'[o].hold = acct[o].hold
      <4>1. job[p].at # "bookleg"
        BY <1>8, <2>5 DEF Alone
      <4> QED BY <1>4, <1>5, <1>11, <4>1 DEF AcctIs, One, TwoLegs
    <3> QED BY <1>2, <1>10, <1>11, <1>20, <2>5, <3>1, <3>2, BesideHold
  <2> QED BY <1>11, <1>19, <2>3, <2>4, <2>5, SquareIf
<1> QED BY <1>2, <1>9, <1>10, <1>11, <1>13, <1>14, <1>15, <1>16, <1>17, <1>18, <1>19, <1>20,
    LateSteady DEF OrderFits

(***************************************************************************)
(* The steps of an admin who resolves a swap that an older version left.   *)
(***************************************************************************)
(* The one job on a legacy swap. *)
LEMMA LegacyJob ==
  ASSUME NEW o \in Orders, Legacy(o), NEW p \in Procs, On(p, o)
  PROVE  /\ job[p].at \in {"buyback", "compensate", "unclaim", "unanswered", "log"}
         /\ row[o].claimed /\ ~row[o].compensated /\ Alone(p, o)
         /\ job[p].at = "log" <=> row[o].status = "COMPLETED"
         /\ job[p].at = "compensate" => fills[o].bought > 0
BY DEF Legacy, Alone

(* No other process works on the order. *)
LEMMA LegacyIf ==
  ASSUME NEW o \in Orders, NEW p \in Procs, Others(p), Alone(p, o),
         row'[o].status \in {"COMPLETED", "FAILED"}, ~row'[o].needs_review,
         fills'[o].sold > 0, row'[o].quotation = 0, row'[o].swap = 0, acct'[o].hold = 0,
         acct'[o].got = One(row'[o].compensated \/ row'[o].status = "COMPLETED"),
         row'[o].status = "COMPLETED" => row'[o].claimed,
         \/ job'[p].o # o
         \/ /\ job'[p].at \in {"buyback", "compensate", "unclaim", "unanswered", "log"}
            /\ row'[o].claimed /\ ~row'[o].compensated
            /\ job'[p].at = "log" <=> row'[o].status = "COMPLETED"
            /\ job'[p].at = "compensate" => fills'[o].bought > 0
  PROVE  Legacy(o)'
<1>1. ASSUME NEW q \in Procs, On(q, o)' PROVE q = p
  BY <1>1 DEF On, Others, Alone
<1> QED BY <1>1 DEF Legacy, Closed, On

(* A buy-back keeps a legacy swap as the invariant asks. *)
LEMMA BuyBackKeeps ==
  ASSUME TypeInv, NEW p \in Procs, BuyBack(p), NEW o \in Orders, o = job[p].o, Legacy(o)
  PROVE  Legacy(o)'
<1>1. /\ Tidy(p, o) /\ job[p].at = "buyback" /\ row' = row /\ acct' = acct
      /\ fills'[o].sold = fills[o].sold
      /\ fills'[o].bought \in {fills[o].bought, fills[o].bought + 1}
      /\ \/ Moves(p, "compensate", job[p].n) /\ fills'[o].bought = fills[o].bought + 1
         \/ Moves(p, "unclaim", job[p].n) \/ Moves(p, "unanswered", job[p].n)
  BY BuyBackDoes DEF RowIs, FillsAre, BuyBackWrites
<1>2. On(p, o) /\ job[p] # Idle
  BY <1>1, AtWork DEF On
<1>3. /\ Closed(o) /\ ~row[o].needs_review /\ fills[o].sold > 0 /\ row[o].quotation = 0
      /\ row[o].swap = 0
      /\ acct[o].hold = 0 /\ row[o].claimed /\ ~row[o].compensated /\ Alone(p, o)
      /\ job[p].at = "log" <=> row[o].status = "COMPLETED"
      /\ job[p].at = "compensate" => fills[o].bought > 0
      /\ acct[o].got = One(row[o].compensated \/ row[o].status = "COMPLETED")
  BY <1>2, LegacyJob DEF Legacy
<1>4. Others(p) /\ row[o].status \in {"COMPLETED", "FAILED"} /\ fills[o].bought \in Nat
  BY <1>1, <1>3, BookTypes DEF Tidy, Closed
<1>5. /\ job'[p].at \in {"compensate", "unclaim", "unanswered"}
      /\ job'[p].at = "compensate" => fills'[o].bought > 0
  BY <1>1, <1>4 DEF Moves
<1>6. /\ row'[o].status \in {"COMPLETED", "FAILED"} /\ row'[o].status # "COMPLETED"
  BY <1>1, <1>3, <1>4
<1> QED BY <1>1, <1>3, <1>4, <1>5, <1>6, LegacyIf

(* So does its failure. *)
LEMMA BuyBackRaisedKeeps ==
  ASSUME TypeInv, NEW p \in Procs, BuyBackRaised(p), NEW o \in Orders, o = job[p].o, Legacy(o)
  PROVE  Legacy(o)'
<1>1. /\ Tidy(p, o) /\ fills' = fills /\ acct' = acct /\ job'[p] = Idle
      /\ job[p].at \in {"unclaim", "unanswered"}
      /\ row'[o].status = row[o].status /\ row'[o].needs_review = row[o].needs_review
      /\ row'[o].quotation = row[o].quotation /\ row'[o].swap = row[o].swap
      /\ row'[o].compensated = row[o].compensated
  BY BuyBackRaisedDoes DEF RowIs, FillsAre, BuyBackRaisedWrites
<1>2. On(p, o) /\ job[p] # Idle
  BY <1>1, AtWork DEF On
<1>3. /\ Closed(o) /\ ~row[o].needs_review /\ fills[o].sold > 0 /\ row[o].quotation = 0
      /\ row[o].swap = 0
      /\ acct[o].hold = 0 /\ row[o].claimed /\ ~row[o].compensated /\ Alone(p, o)
      /\ job[p].at = "log" <=> row[o].status = "COMPLETED"
      /\ job[p].at = "compensate" => fills[o].bought > 0
      /\ acct[o].got = One(row[o].compensated \/ row[o].status = "COMPLETED")
  BY <1>2, LegacyJob DEF Legacy
<1>4. Others(p) /\ row[o].status \in {"COMPLETED", "FAILED"} /\ fills[o].bought \in Nat
  BY <1>1, <1>3, BookTypes DEF Tidy, Closed
<1>5. job'[p].o # o
  BY <1>1, IdleIsElsewhere
<1>6. row'[o].status # "COMPLETED" /\ ~row'[o].needs_review
  BY <1>1, <1>3
<1>7. acct'[o].got = One(row'[o].compensated \/ row'[o].status = "COMPLETED")
  BY <1>1, <1>3 DEF One
<1> QED BY <1>1, <1>3, <1>4, <1>5, <1>6, <1>7, LegacyIf

(* So does the log of a compensation. *)
LEMMA LogCompensatedKeeps ==
  ASSUME TypeInv, NEW p \in Procs, LogCompensated(p), NEW o \in Orders, o = job[p].o, Legacy(o)
  PROVE  Legacy(o)'
<1>1. /\ Tidy(p, o) /\ fills' = fills /\ acct' = acct /\ job'[p] = Idle
      /\ job[p].at = "log"
      /\ row'[o].status = row[o].status /\ row'[o].needs_review = row[o].needs_review
      /\ row'[o].quotation = row[o].quotation /\ row'[o].swap = row[o].swap
      /\ row'[o].compensated /\ row'[o].claimed = row[o].claimed
  BY LogCompensatedDoes DEF RowIs, FillsAre, LogCompensatedWrites
<1>2. On(p, o) /\ job[p] # Idle
  BY <1>1, AtWork DEF On
<1>3. /\ Closed(o) /\ ~row[o].needs_review /\ fills[o].sold > 0 /\ row[o].quotation = 0
      /\ row[o].swap = 0
      /\ acct[o].hold = 0 /\ row[o].claimed /\ ~row[o].compensated /\ Alone(p, o)
      /\ job[p].at = "log" <=> row[o].status = "COMPLETED"
      /\ job[p].at = "compensate" => fills[o].bought > 0
      /\ acct[o].got = One(row[o].compensated \/ row[o].status = "COMPLETED")
  BY <1>2, LegacyJob DEF Legacy
<1>4. Others(p) /\ row[o].status \in {"COMPLETED", "FAILED"} /\ fills[o].bought \in Nat
  BY <1>1, <1>3, BookTypes DEF Tidy, Closed
<1>5. job'[p].o # o
  BY <1>1, IdleIsElsewhere
<1>6. row'[o].claimed /\ ~row'[o].needs_review
  BY <1>1, <1>3
<1>7. acct'[o].got = One(row'[o].compensated \/ row'[o].status = "COMPLETED")
  BY <1>1, <1>3 DEF One
<1> QED BY <1>1, <1>3, <1>4, <1>5, <1>6, <1>7, LegacyIf

(* So does its completion. *)
LEMMA complete_swapOfLegacyKeeps ==
  ASSUME TypeInv, NEW p \in Procs, _complete_swap(p), NEW o \in Orders, o = job[p].o, Legacy(o)
  PROVE  Legacy(o)'
<1>1. Tidy(p, o) /\ job[p].at \in {"bookleg", "finishleg", "compensate"} /\ fills' = fills
  BY complete_swapDoes DEF complete_swapWrites
<1>2. On(p, o) /\ job[p] # Idle
  BY <1>1, AtWork DEF On
<1>3. /\ Closed(o) /\ ~row[o].needs_review /\ fills[o].sold > 0 /\ row[o].quotation = 0
      /\ row[o].swap = 0
      /\ acct[o].hold = 0 /\ row[o].claimed /\ ~row[o].compensated /\ Alone(p, o)
      /\ job[p].at = "log" <=> row[o].status = "COMPLETED"
      /\ job[p].at = "compensate" => fills[o].bought > 0
      /\ acct[o].got = One(row[o].compensated \/ row[o].status = "COMPLETED")
  BY <1>2, LegacyJob DEF Legacy
<1>4. Others(p) /\ row[o].status \in {"COMPLETED", "FAILED"} /\ fills[o].bought \in Nat
  BY <1>1, <1>3, BookTypes DEF Tidy, Closed
<1>5. job[p].at = "compensate" /\ row[o].status # "COMPLETED"
  BY <1>1, <1>2, <1>3, LegacyJob
<1>6. Moves(p, "log", job[p].n) /\ AcctIs(o, acct[o].taken, acct[o].hold, acct[o].got + 1)
  BY <1>5, complete_swapDoes DEF complete_swapWrites
<1>7. row' = [row EXCEPT ![o].status = "COMPLETED"] /\ "COMPLETED" \in Statuses
  BY <1>5 DEF _complete_swap, Statuses
<1>8. /\ RowIs(o, "COMPLETED", row[o].needs_review, row[o].sold, row[o].quotation, row[o].swap,
               row[o].paid, row[o].refunded)
      /\ row'[o].claimed = row[o].claimed /\ row'[o].compensated = row[o].compensated
  BY <1>7, StatusIs DEF OnlyRow, ClaimIs
<1>9. acct'[o].hold = 0 /\ acct'[o].got = One(row'[o].compensated \/ row'[o].status = "COMPLETED")
  BY <1>3, <1>5, <1>6, <1>8 DEF AcctIs, RowIs, One
<1>10. /\ row'[o].status = "COMPLETED" /\ row'[o].claimed /\ ~row'[o].compensated
       /\ ~row'[o].needs_review
       /\ row'[o].quotation = 0 /\ row'[o].swap = 0 /\ job'[p].at = "log"
  BY <1>3, <1>6, <1>8 DEF RowIs, Moves
<1> QED BY <1>1, <1>3, <1>4, <1>9, <1>10, LegacyIf

(***************************************************************************)
(* An order that is not written, and whose jobs stay as they are.          *)
(***************************************************************************)
Untouched(x) ==
    /\ row'[x] = row[x] /\ acct'[x] = acct[x] /\ fills'[x] = fills[x]
    /\ conversion'[x] = conversion[x] /\ external'[x] = external[x] /\ past'[x] = past[x]
    /\ \A q \in Procs : job'[q] = job[q] \/ (job[q].o # x /\ job'[q].o # x)

(* It fits as before. *)
LEMMA UntouchedFits ==
  ASSUME NEW x \in Orders, Fits(x), Untouched(x)
  PROVE  Fits(x)'
<1>1. /\ row'[x] = row[x] /\ acct'[x] = acct[x] /\ fills'[x] = fills[x]
      /\ conversion'[x] = conversion[x] /\ external'[x] = external[x] /\ past'[x] = past[x]
  BY DEF Untouched
<1>2. \A q \in Procs : On(q, x)' => On(q, x) /\ job'[q] = job[q]
  BY DEF Untouched, On
<1>3. \A q \in Procs : On(q, x) => On(q, x)' /\ job'[q] = job[q]
  BY DEF Untouched, On
<1>4. (Resting(x)' <=> Resting(x)) /\ (Placing(x)' <=> Placing(x)) /\ (Closed(x)' <=> Closed(x))
  BY <1>1, <1>2, <1>3 DEF Resting, Placing, Closed, On
<1>5. Current(x)' = Current(x) /\ (Dead(x)' <=> Dead(x)) /\ Leg(x)' = Leg(x)
          /\ FromWallet(x)' = FromWallet(x)
  BY <1>1 DEF Current, Dead, Leg, FromWallet
<1>6. ASSUME Steady(x) PROVE Steady(x)'
  <2>1. Apart(x)'
    BY <1>1, <1>2, <1>6 DEF Steady, Apart
  <2>2. StatusFits(x)'
    BY <1>1, <1>4, <1>6 DEF Steady, OrderFits, StatusFits
  <2>3. QuotationFits(x)'
    BY <1>1, <1>5, <1>6 DEF Steady, OrderFits, QuotationFits
  <2>4. FillsFit(x)' /\ GotFits(x)'
    BY <1>1, <1>5, <1>6 DEF Steady, OrderFits, FillsFit, GotFits
  <2>5. ReviewFits(x)'
    BY <1>1, <1>4, <1>5, <1>6 DEF Steady, OrderFits, ReviewFits
  <2>6. ASSUME NEW q \in Procs, On(q, x)' PROVE JobFits(x, job[q])'
    <3>1. job'[q] = job[q] /\ JobFits(x, job[q])
      BY <1>2, <1>6, <2>6 DEF Steady
    <3>2. OnPath(x, job[q])' /\ JobStatusFits(x, job[q])'
      BY <1>1, <3>1 DEF JobFits, OnPath, JobStatusFits
    <3>3. JobIsQuoted(x, job[q])'
      BY <1>1, <1>5, <3>1 DEF JobFits, JobIsQuoted
    <3>4. JobIsFilled(x, job[q])'
      BY <1>1, <1>5, <3>1 DEF JobFits, JobIsFilled
    <3> QED BY <3>2, <3>3, <3>4 DEF JobFits
  <2> QED BY <2>1, <2>2, <2>3, <2>4, <2>5, <2>6 DEF Steady, OrderFits
<1>7. ASSUME Square(x) PROVE Square(x)'
  <2>1. WalletFits(x)'
    <3>1. (\A q \in Procs : On(q, x) => job[q].at # "refunded")'
            => \A q \in Procs : On(q, x) => job[q].at # "refunded"
      BY <1>3
    <3>2. (\A q \in Procs : On(q, x) => job[q].at \notin {"paid", "restart"})'
            => \A q \in Procs : On(q, x) => job[q].at \notin {"paid", "restart"}
      BY <1>3
    <3> QED BY <1>1, <1>5, <1>7, <3>1, <3>2 DEF Square, WalletFits
  <2>2. HoldFits(x)'
    <3>1. (\A q \in Procs : On(q, x) => job[q].at # "start")'
            => \A q \in Procs : On(q, x) => job[q].at # "start"
      BY <1>3
    <3> QED BY <1>1, <1>4, <1>7, <3>1 DEF Square, HoldFits
  <2>3. ASSUME NEW q \in Procs, On(q, x)' PROVE JobWalletFits(x, q)' /\ JobHoldFits(x, job[q])'
    <3>1. job'[q] = job[q] /\ JobWalletFits(x, q) /\ JobHoldFits(x, job[q])
      BY <1>2, <1>7, <2>3 DEF Square
    <3>2. JobHoldFits(x, job[q])'
      BY <1>1, <1>4, <3>1 DEF JobHoldFits
    <3>3. JobWalletFits(x, q)'
      BY <1>1, <1>2, <1>5, <3>1 DEF JobWalletFits
    <3> QED BY <3>2, <3>3
  <2> QED BY <2>1, <2>2, <2>3 DEF Square
<1>8. ASSUME Legacy(x) PROVE Legacy(x)'
  BY <1>1, <1>2, <1>4, <1>8 DEF Legacy
<1> QED BY <1>1, <1>6, <1>7, <1>8 DEF Fits

(* The orders that a step of a process is not about. *)
LEMMA OthersFit ==
  ASSUME OrdersInv, NEW p \in Procs, NEW o \in Orders, o = job[p].o, Tidy(p, o),
         job'[p] = Idle \/ job'[p].o = o
  PROVE  \A x \in Orders : x # o => Fits(x)'
<1> SUFFICES ASSUME NEW x \in Orders, x # o PROVE Fits(x)'
  OBVIOUS
<1>1. job'[p].o # x
  BY IdleIsElsewhere
<1>2. Untouched(x)
  BY <1>1 DEF Tidy, Elsewhere, Others, Untouched
<1> QED BY <1>2, UntouchedFits DEF OrdersInv

(* A step that keeps its order steady and square keeps the invariant. *)
LEMMA StepFits ==
  ASSUME OrdersInv, NEW p \in Procs, NEW o \in Orders, o = job[p].o, Tidy(p, o), past' = past,
         job'[p] = Idle \/ job'[p].o = o, row'[o].kind = row[o].kind, row[o].kind # "legacy",
         Steady(o) => Steady(o)' /\ (Square(o) => Square(o)')
  PROVE  OrdersInv'
<1>1. Fits(o)'
  BY FitsIf DEF OrdersInv
<1> QED BY <1>1, OthersFit DEF OrdersInv, TypeInv, Tidy

(* So does one on a legacy swap. *)
LEMMA LegacyStepFits ==
  ASSUME OrdersInv, NEW p \in Procs, NEW o \in Orders, o = job[p].o, Tidy(p, o),
         job'[p] = Idle
             \/ job'[p].o = o, row'[o].kind = row[o].kind, row[o].kind = "legacy", Legacy(o)'
  PROVE  OrdersInv'
<1>1. Fits(o)'
  BY DEF Fits
<1> QED BY <1>1, OthersFit DEF OrdersInv, TypeInv, Tidy

(* The invariant is kept by the steps that end an order without a fill. *)
LEMMA BookStepKeeps ==
  ASSUME OrdersInv, NEW p \in Procs, BookStep(p), NEW o \in Orders, o = job[p].o
  PROVE  OrdersInv'
<1>1. TypeInv
  BY DEF OrdersInv
<1>2. CASE _fail_order(p)
  <2>2. /\ Tidy(p, o) /\ past' = past /\ row'[o].kind = row[o].kind
        /\ job'[p] = Idle \/ job'[p].o = o
    BY <1>1, <1>2, fail_orderDoes DEF RowIs, Moves, fail_orderWrites
  <2>3. row[o].kind # "legacy"
    <3>1. job[p].at \notin {"buyback", "compensate", "unclaim", "unanswered", "log"} /\ On(p, o)
      BY <1>2 DEF _fail_order, IsAt, On
    <3> QED BY <3>1, NotLegacy DEF OrdersInv
  <2> QED BY <1>1, <1>2, <2>2, <2>3, StepFits, fail_orderKeeps
<1>3. CASE LogRefund(p)
  <2>2. /\ Tidy(p, o) /\ past' = past /\ row'[o].kind = row[o].kind
        /\ job'[p] = Idle \/ job'[p].o = o
    BY <1>1, <1>3, LogRefundDoes DEF RowIs, Moves, LogRefundWrites
  <2>3. row[o].kind # "legacy"
    <3>1. job[p].at \notin {"buyback", "compensate", "unclaim", "unanswered", "log"} /\ On(p, o)
      BY <1>3 DEF LogRefund, IsAt, On
    <3> QED BY <3>1, NotLegacy DEF OrdersInv
  <2> QED BY <1>1, <1>3, <2>2, <2>3, StepFits, LogRefundKeeps
<1>4. CASE ClearReview(p)
  <2>2. /\ Tidy(p, o) /\ past' = past /\ row'[o].kind = row[o].kind
        /\ job'[p] = Idle \/ job'[p].o = o
    BY <1>1, <1>4, ClearReviewDoes DEF RowIs, Moves, ClearReviewWrites
  <2>3. row[o].kind # "legacy"
    <3>1. job[p].at \notin {"buyback", "compensate", "unclaim", "unanswered", "log"} /\ On(p, o)
      BY <1>4 DEF ClearReview, IsAt, On
    <3> QED BY <3>1, NotLegacy DEF OrdersInv
  <2> QED BY <1>1, <1>4, <2>2, <2>3, StepFits, ClearReviewKeeps
<1>5. CASE _flag_for_review(p)
  <2>2. /\ Tidy(p, o) /\ past' = past /\ row'[o].kind = row[o].kind
        /\ job'[p] = Idle \/ job'[p].o = o
    BY <1>1, <1>5, flag_for_reviewDoes DEF RowIs, Moves, flag_for_reviewWrites
  <2>3. row[o].kind # "legacy"
    <3>1. job[p].at \notin {"buyback", "compensate", "unclaim", "unanswered", "log"} /\ On(p, o)
      BY <1>5 DEF _flag_for_review, IsAt, On
    <3> QED BY <3>1, NotLegacy DEF OrdersInv
  <2> QED BY <1>1, <1>5, <2>2, <2>3, StepFits, flag_for_reviewKeeps
<1> QED BY <1>2, <1>3, <1>4, <1>5 DEF BookStep

(* By the steps of a buy. *)
LEMMA BuyStepKeeps ==
  ASSUME OrdersInv, NEW p \in Procs, BuyStep(p), NEW o \in Orders, o = job[p].o
  PROVE  OrdersInv'
<1>1. TypeInv
  BY DEF OrdersInv
<1>2. CASE PayFromWallet(p)
  <2>2. /\ Tidy(p, o) /\ past' = past /\ row'[o].kind = row[o].kind
        /\ job'[p] = Idle \/ job'[p].o = o
    BY <1>1, <1>2, PayFromWalletDoes DEF RowIs, Moves, PayFromWalletWrites
  <2>3. row[o].kind # "legacy"
    <3>1. job[p].at \notin {"buyback", "compensate", "unclaim", "unanswered", "log"} /\ On(p, o)
      BY <1>2 DEF PayFromWallet, IsAt, On
    <3> QED BY <3>1, NotLegacy DEF OrdersInv
  <2> QED BY <1>1, <1>2, <2>2, <2>3, StepFits, PayFromWalletKeeps
<1>3. CASE MarkPaid(p)
  <2>2. /\ Tidy(p, o) /\ past' = past /\ row'[o].kind = row[o].kind
        /\ job'[p] = Idle \/ job'[p].o = o
    BY <1>1, <1>3, MarkPaidDoes DEF RowIs, Moves, MarkPaidWrites
  <2>3. row[o].kind # "legacy"
    <3>1. job[p].at \notin {"buyback", "compensate", "unclaim", "unanswered", "log"} /\ On(p, o)
      BY <1>3 DEF MarkPaid, IsAt, On
    <3> QED BY <3>1, NotLegacy DEF OrdersInv
  <2> QED BY <1>1, <1>3, <2>2, <2>3, StepFits, MarkPaidKeeps
<1>4. CASE Redebit(p)
  <2>2. /\ Tidy(p, o) /\ past' = past /\ row'[o].kind = row[o].kind
        /\ job'[p] = Idle \/ job'[p].o = o
    BY <1>1, <1>4, RedebitDoes DEF RowIs, Moves, RedebitWrites
  <2>3. row[o].kind # "legacy"
    <3>1. job[p].at \notin {"buyback", "compensate", "unclaim", "unanswered", "log"} /\ On(p, o)
      BY <1>4 DEF Redebit, IsAt, On
    <3> QED BY <3>1, NotLegacy DEF OrdersInv
  <2> QED BY <1>1, <1>4, <2>2, <2>3, StepFits, RedebitKeeps
<1>5. CASE Restart(p)
  <2>2. /\ Tidy(p, o) /\ past' = past /\ row'[o].kind = row[o].kind
        /\ job'[p] = Idle \/ job'[p].o = o
    BY <1>1, <1>5, RestartDoes DEF RowIs, Moves, RestartWrites
  <2>3. row[o].kind # "legacy"
    <3>1. job[p].at \notin {"buyback", "compensate", "unclaim", "unanswered", "log"} /\ On(p, o)
      BY <1>5 DEF Restart, IsAt, On
    <3> QED BY <3>1, NotLegacy DEF OrdersInv
  <2> QED BY <1>1, <1>5, <2>2, <2>3, StepFits, RestartKeeps
<1>6. CASE _execute_quidax_buy(p)
  <2>2. /\ Tidy(p, o) /\ past' = past /\ row'[o].kind = row[o].kind
        /\ job'[p] = Idle \/ job'[p].o = o
    BY <1>1, <1>6, execute_quidax_buyDoes DEF RowIs, Moves, execute_quidax_buyWrites
  <2>3. row[o].kind # "legacy"
    <3>1. job[p].at \notin {"buyback", "compensate", "unclaim", "unanswered", "log"} /\ On(p, o)
      BY <1>6 DEF _execute_quidax_buy, IsAt, On
    <3> QED BY <3>1, NotLegacy DEF OrdersInv
  <2> QED BY <1>1, <1>6, <2>2, <2>3, StepFits, execute_quidax_buyKeeps
<1>7. CASE _complete_buy(p)
  <2>2. /\ Tidy(p, o) /\ past' = past /\ row'[o].kind = row[o].kind
        /\ job'[p] = Idle \/ job'[p].o = o
    BY <1>1, <1>7, complete_buyDoes DEF RowIs, Moves, complete_buyWrites
  <2>3. row[o].kind # "legacy"
    <3>1. job[p].at \notin {"buyback", "compensate", "unclaim", "unanswered", "log"} /\ On(p, o)
      BY <1>7 DEF _complete_buy, IsAt, On
    <3> QED BY <3>1, NotLegacy DEF OrdersInv
  <2> QED BY <1>1, <1>7, <2>2, <2>3, StepFits, complete_buyKeeps
<1> QED BY <1>2, <1>3, <1>4, <1>5, <1>6, <1>7 DEF BuyStep

(* By those of a sell, and of the first leg of a swap. *)
LEMMA SellStepKeeps ==
  ASSUME OrdersInv, NEW p \in Procs, SellStep(p), NEW o \in Orders, o = job[p].o
  PROVE  OrdersInv'
<1>1. TypeInv
  BY DEF OrdersInv
<1>2. CASE ReserveSource(p)
  <2>2. /\ Tidy(p, o) /\ past' = past /\ row'[o].kind = row[o].kind
        /\ job'[p] = Idle \/ job'[p].o = o
    BY <1>1, <1>2, ReserveSourceDoes DEF RowIs, Moves, ReserveSourceWrites
  <2>3. row[o].kind # "legacy"
    <3>1. job[p].at \notin {"buyback", "compensate", "unclaim", "unanswered", "log"} /\ On(p, o)
      BY <1>2 DEF ReserveSource, IsAt, On
    <3> QED BY <3>1, NotLegacy DEF OrdersInv
  <2> QED BY <1>1, <1>2, <2>2, <2>3, StepFits, ReserveSourceKeeps
<1>3. CASE WaitForDeposit(p)
  <2>2. /\ Tidy(p, o) /\ past' = past /\ row'[o].kind = row[o].kind
        /\ job'[p] = Idle \/ job'[p].o = o
    BY <1>1, <1>3, WaitForDepositDoes DEF RowIs, Moves, WaitForDepositWrites
  <2>3. row[o].kind # "legacy"
    <3>1. job[p].at \notin {"buyback", "compensate", "unclaim", "unanswered", "log"} /\ On(p, o)
      BY <1>3 DEF WaitForDeposit, IsAt, On
    <3> QED BY <3>1, NotLegacy DEF OrdersInv
  <2> QED BY <1>1, <1>3, <2>2, <2>3, StepFits, WaitForDepositKeeps
<1>4. CASE ReserveAgain(p)
  <2>2. /\ Tidy(p, o) /\ past' = past /\ row'[o].kind = row[o].kind
        /\ job'[p] = Idle \/ job'[p].o = o
    BY <1>1, <1>4, ReserveAgainDoes DEF RowIs, Moves, ReserveAgainWrites
  <2>3. row[o].kind # "legacy"
    <3>1. job[p].at \notin {"buyback", "compensate", "unclaim", "unanswered", "log"} /\ On(p, o)
      BY <1>4 DEF ReserveAgain, IsAt, On
    <3> QED BY <3>1, NotLegacy DEF OrdersInv
  <2> QED BY <1>1, <1>4, <2>2, <2>3, StepFits, ReserveAgainKeeps
<1>5. CASE _start_processing(p)
  <2>2. /\ Tidy(p, o) /\ past' = past /\ row'[o].kind = row[o].kind
        /\ job'[p] = Idle \/ job'[p].o = o
    BY <1>1, <1>5, start_processingDoes DEF RowIs, Moves, start_processingWrites
  <2>3. row[o].kind # "legacy"
    <3>1. job[p].at \notin {"buyback", "compensate", "unclaim", "unanswered", "log"} /\ On(p, o)
      BY <1>5 DEF _start_processing, IsAt, On
    <3> QED BY <3>1, NotLegacy DEF OrdersInv
  <2> QED BY <1>1, <1>5, <2>2, <2>3, StepFits, start_processingKeeps
<1>6. CASE _execute_quidax_sell(p)
  <2>2. /\ Tidy(p, o) /\ past' = past /\ row'[o].kind = row[o].kind
        /\ job'[p] = Idle \/ job'[p].o = o
    BY <1>1, <1>6, execute_quidax_sellDoes DEF RowIs, Moves, execute_quidax_sellWrites
  <2>3. row[o].kind # "legacy"
    <3>1. job[p].at \notin {"buyback", "compensate", "unclaim", "unanswered", "log"} /\ On(p, o)
      BY <1>6 DEF _execute_quidax_sell, IsAt, On
    <3> QED BY <3>1, NotLegacy DEF OrdersInv
  <2> QED BY <1>1, <1>6, <2>2, <2>3, StepFits, execute_quidax_sellKeeps
<1>7. CASE ReleaseSource(p)
  <2>2. /\ Tidy(p, o) /\ past' = past /\ row'[o].kind = row[o].kind
        /\ job'[p] = Idle \/ job'[p].o = o
    BY <1>1, <1>7, ReleaseSourceDoes DEF RowIs, Moves, ReleaseSourceWrites
  <2>3. row[o].kind # "legacy"
    <3>1. job[p].at \notin {"buyback", "compensate", "unclaim", "unanswered", "log"} /\ On(p, o)
      BY <1>7 DEF ReleaseSource, IsAt, On
    <3> QED BY <3>1, NotLegacy DEF OrdersInv
  <2> QED BY <1>1, <1>7, <2>2, <2>3, StepFits, ReleaseSourceKeeps
<1>8. CASE complete_sell(p)
  <2>2. /\ Tidy(p, o) /\ past' = past /\ row'[o].kind = row[o].kind
        /\ job'[p] = Idle \/ job'[p].o = o
    BY <1>1, <1>8, complete_sellDoes DEF RowIs, Moves, complete_sellWrites
  <2>3. row[o].kind # "legacy"
    <3>1. job[p].at \notin {"buyback", "compensate", "unclaim", "unanswered", "log"} /\ On(p, o)
      BY <1>8 DEF complete_sell, IsAt, On
    <3> QED BY <3>1, NotLegacy DEF OrdersInv
  <2> QED BY <1>1, <1>8, <2>2, <2>3, StepFits, complete_sellKeeps
<1> QED BY <1>2, <1>3, <1>4, <1>5, <1>6, <1>7, <1>8 DEF SellStep

(* By those of the second leg, and of a legacy swap. *)
LEMMA SwapStepKeeps ==
  ASSUME OrdersInv, NEW p \in Procs, SwapStep(p), NEW o \in Orders, o = job[p].o
  PROVE  OrdersInv'
<1>1. TypeInv
  BY DEF OrdersInv
<1>2. CASE _execute_quidax_swap(p)
  <2>2. /\ Tidy(p, o) /\ past' = past /\ row'[o].kind = row[o].kind
        /\ job'[p] = Idle \/ job'[p].o = o
    BY <1>1, <1>2, execute_quidax_swapDoes DEF RowIs, Moves, execute_quidax_swapWrites
  <2>3. row[o].kind # "legacy"
    <3>1. job[p].at \notin {"buyback", "compensate", "unclaim", "unanswered", "log"} /\ On(p, o)
      BY <1>2 DEF _execute_quidax_swap, IsAt, On
    <3> QED BY <3>1, NotLegacy DEF OrdersInv
  <2> QED BY <1>1, <1>2, <2>2, <2>3, StepFits, execute_quidax_swapKeeps
<1>3. CASE _execute_swap_buy_leg(p)
  <2>2. /\ Tidy(p, o) /\ past' = past /\ row'[o].kind = row[o].kind
        /\ job'[p] = Idle \/ job'[p].o = o
    BY <1>1, <1>3, execute_swap_buy_legDoes DEF RowIs, Moves, execute_swap_buy_legWrites
  <2>3. row[o].kind # "legacy"
    <3>1. job[p].at \notin {"buyback", "compensate", "unclaim", "unanswered", "log"} /\ On(p, o)
      BY <1>3 DEF _execute_swap_buy_leg, IsAt, On
    <3> QED BY <3>1, NotLegacy DEF OrdersInv
  <2> QED BY <1>1, <1>3, <2>2, <2>3, StepFits, execute_swap_buy_legKeeps
<1>4. CASE SpendSource(p)
  <2>2. /\ Tidy(p, o) /\ past' = past /\ row'[o].kind = row[o].kind
        /\ job'[p] = Idle \/ job'[p].o = o
    BY <1>1, <1>4, SpendSourceDoes DEF RowIs, Moves, SpendSourceWrites
  <2>3. row[o].kind # "legacy"
    <3>1. job[p].at \notin {"buyback", "compensate", "unclaim", "unanswered", "log"} /\ On(p, o)
      BY <1>4 DEF SpendSource, IsAt, On
    <3> QED BY <3>1, NotLegacy DEF OrdersInv
  <2> QED BY <1>1, <1>4, <2>2, <2>3, StepFits, SpendSourceKeeps
<1>5. CASE _complete_swap(p)
  <2>2. /\ Tidy(p, o) /\ past' = past /\ row'[o].kind = row[o].kind
        /\ job'[p] = Idle \/ job'[p].o = o
    BY <1>1, <1>5, complete_swapDoes DEF RowIs, Moves, complete_swapWrites
  <2>3. ASSUME row[o].kind = "legacy" PROVE OrdersInv'
    <3>1. Legacy(o)
      BY <2>3 DEF OrdersInv, Fits
    <3>2. Legacy(o)'
      BY <1>1, <1>5, <3>1, complete_swapOfLegacyKeeps
    <3> QED BY <2>2, <2>3, <3>2, LegacyStepFits
  <2>4. ASSUME row[o].kind # "legacy" PROVE OrdersInv'
    BY <1>1, <1>5, <2>2, <2>4, StepFits, complete_swapKeeps
  <2> QED BY <2>3, <2>4
<1>6. CASE _refund_failed_swap_as_ngn(p)
  <2>2. /\ Tidy(p, o) /\ past' = past /\ row'[o].kind = row[o].kind
        /\ job'[p] = Idle \/ job'[p].o = o
    BY <1>1, <1>6, refund_failed_swap_as_ngnDoes DEF RowIs, Moves, refund_failed_swap_as_ngnWrites
  <2>3. row[o].kind # "legacy"
    <3>1. job[p].at \notin {"buyback", "compensate", "unclaim", "unanswered", "log"} /\ On(p, o)
      BY <1>6 DEF _refund_failed_swap_as_ngn, IsAt, On
    <3> QED BY <3>1, NotLegacy DEF OrdersInv
  <2> QED BY <1>1, <1>6, <2>2, <2>3, StepFits, refund_failed_swap_as_ngnKeeps
<1>7. CASE BuyBack(p)
  <2>2. /\ Tidy(p, o) /\ past' = past /\ row'[o].kind = row[o].kind
        /\ job'[p] = Idle \/ job'[p].o = o
    BY <1>1, <1>7, BuyBackDoes DEF RowIs, Moves, BuyBackWrites
  <2>3. ASSUME row[o].kind = "legacy" PROVE OrdersInv'
    <3>1. Legacy(o)
      BY <2>3 DEF OrdersInv, Fits
    <3>2. Legacy(o)'
      BY <1>1, <1>7, <3>1, BuyBackKeeps
    <3> QED BY <2>2, <2>3, <3>2, LegacyStepFits
  <2>4. ASSUME row[o].kind # "legacy" PROVE OrdersInv'
    <3>1. ~Steady(o)
      <4>1. job[p].at \in {"buyback", "unclaim", "unanswered", "log"}
        BY <1>7 DEF BuyBack, IsAt
      <4>2. On(p, o)
        BY DEF On
      <4> QED BY <4>1, <4>2 DEF Steady, JobFits, OnPath
    <3> QED BY <2>2, <2>4, <3>1, StepFits
  <2> QED BY <2>3, <2>4
<1>8. CASE BuyBackRaised(p)
  <2>2. /\ Tidy(p, o) /\ past' = past /\ row'[o].kind = row[o].kind
        /\ job'[p] = Idle \/ job'[p].o = o
    BY <1>1, <1>8, BuyBackRaisedDoes DEF RowIs, Moves, BuyBackRaisedWrites
  <2>3. ASSUME row[o].kind = "legacy" PROVE OrdersInv'
    <3>1. Legacy(o)
      BY <2>3 DEF OrdersInv, Fits
    <3>2. Legacy(o)'
      BY <1>1, <1>8, <3>1, BuyBackRaisedKeeps
    <3> QED BY <2>2, <2>3, <3>2, LegacyStepFits
  <2>4. ASSUME row[o].kind # "legacy" PROVE OrdersInv'
    <3>1. ~Steady(o)
      <4>1. job[p].at \in {"buyback", "unclaim", "unanswered", "log"}
        BY <1>8 DEF BuyBackRaised, IsAt
      <4>2. On(p, o)
        BY DEF On
      <4> QED BY <4>1, <4>2 DEF Steady, JobFits, OnPath
    <3> QED BY <2>2, <2>4, <3>1, StepFits
  <2> QED BY <2>3, <2>4
<1>9. CASE LogCompensated(p)
  <2>2. /\ Tidy(p, o) /\ past' = past /\ row'[o].kind = row[o].kind
        /\ job'[p] = Idle \/ job'[p].o = o
    BY <1>1, <1>9, LogCompensatedDoes DEF RowIs, Moves, LogCompensatedWrites
  <2>3. ASSUME row[o].kind = "legacy" PROVE OrdersInv'
    <3>1. Legacy(o)
      BY <2>3 DEF OrdersInv, Fits
    <3>2. Legacy(o)'
      BY <1>1, <1>9, <3>1, LogCompensatedKeeps
    <3> QED BY <2>2, <2>3, <3>2, LegacyStepFits
  <2>4. ASSUME row[o].kind # "legacy" PROVE OrdersInv'
    <3>1. ~Steady(o)
      <4>1. job[p].at \in {"buyback", "unclaim", "unanswered", "log"}
        BY <1>9 DEF LogCompensated, IsAt
      <4>2. On(p, o)
        BY DEF On
      <4> QED BY <4>1, <4>2 DEF Steady, JobFits, OnPath
    <3> QED BY <2>2, <2>4, <3>1, StepFits
  <2> QED BY <2>3, <2>4
<1> QED BY <1>2, <1>3, <1>4, <1>5, <1>6, <1>7, <1>8, <1>9 DEF SwapStep

(* By those of an instant swap. *)
LEMMA InstantStepKeeps ==
  ASSUME OrdersInv, NEW p \in Procs, InstantStep(p), NEW o \in Orders, o = job[p].o
  PROVE  OrdersInv'
<1>1. TypeInv
  BY DEF OrdersInv
<1>2. CASE _execute_instant_swap(p)
  <2>2. /\ Tidy(p, o) /\ past' = past /\ row'[o].kind = row[o].kind
        /\ job'[p] = Idle \/ job'[p].o = o
    BY <1>1, <1>2, execute_instant_swapDoes DEF RowIs, Moves, execute_instant_swapWrites
  <2>3. row[o].kind # "legacy"
    <3>1. job[p].at \notin {"buyback", "compensate", "unclaim", "unanswered", "log"} /\ On(p, o)
      BY <1>2 DEF _execute_instant_swap, IsAt, On
    <3> QED BY <3>1, NotLegacy DEF OrdersInv
  <2> QED BY <1>1, <1>2, <2>2, <2>3, StepFits, execute_instant_swapKeeps
<1>3. CASE _execute_instant_buy(p)
  <2>2. /\ Tidy(p, o) /\ past' = past /\ row'[o].kind = row[o].kind
        /\ job'[p] = Idle \/ job'[p].o = o
    BY <1>1, <1>3, execute_instant_buyDoes DEF RowIs, Moves, execute_instant_buyWrites
  <2>3. row[o].kind # "legacy"
    <3>1. job[p].at \notin {"buyback", "compensate", "unclaim", "unanswered", "log"} /\ On(p, o)
      BY <1>3 DEF _execute_instant_buy, IsAt, On
    <3> QED BY <3>1, NotLegacy DEF OrdersInv
  <2> QED BY <1>1, <1>3, <2>2, <2>3, StepFits, execute_instant_buyKeeps
<1>4. CASE _execute_swap_buy_leg_instant(p)
  <2>2. /\ Tidy(p, o) /\ past' = past /\ row'[o].kind = row[o].kind
        /\ job'[p] = Idle \/ job'[p].o = o
    BY <1>1, <1>4, execute_swap_buy_leg_instantDoes DEF RowIs, Moves,
       execute_swap_buy_leg_instantWrites
  <2>3. row[o].kind # "legacy"
    <3>1. job[p].at \notin {"buyback", "compensate", "unclaim", "unanswered", "log"} /\ On(p, o)
      BY <1>4 DEF _execute_swap_buy_leg_instant, IsAt, On
    <3> QED BY <3>1, NotLegacy DEF OrdersInv
  <2> QED BY <1>1, <1>4, <2>2, <2>3, StepFits, execute_swap_buy_leg_instantKeeps
<1>5. CASE _finalize_instant_swap(p)
  <2>2. /\ Tidy(p, o) /\ past' = past /\ row'[o].kind = row[o].kind
        /\ job'[p] = Idle \/ job'[p].o = o
    BY <1>1, <1>5, finalize_instant_swapDoes DEF RowIs, Moves, finalize_instant_swapWrites
  <2>3. row[o].kind # "legacy"
    <3>1. job[p].at \notin {"buyback", "compensate", "unclaim", "unanswered", "log"} /\ On(p, o)
      BY <1>5 DEF _finalize_instant_swap, IsAt, On
    <3> QED BY <3>1, NotLegacy DEF OrdersInv
  <2> QED BY <1>1, <1>5, <2>2, <2>3, StepFits, finalize_instant_swapKeeps
<1>6. CASE _finalize_instant_buy(p)
  <2>2. /\ Tidy(p, o) /\ past' = past /\ row'[o].kind = row[o].kind
        /\ job'[p] = Idle \/ job'[p].o = o
    BY <1>1, <1>6, finalize_instant_buyDoes DEF RowIs, Moves, finalize_instant_buyWrites
  <2>3. row[o].kind # "legacy"
    <3>1. job[p].at \notin {"buyback", "compensate", "unclaim", "unanswered", "log"} /\ On(p, o)
      BY <1>6 DEF _finalize_instant_buy, IsAt, On
    <3> QED BY <3>1, NotLegacy DEF OrdersInv
  <2> QED BY <1>1, <1>6, <2>2, <2>3, StepFits, finalize_instant_buyKeeps
<1>7. CASE _finalize_swap_buy_leg(p)
  <2>2. /\ Tidy(p, o) /\ past' = past /\ row'[o].kind = row[o].kind
        /\ job'[p] = Idle \/ job'[p].o = o
    BY <1>1, <1>7, finalize_swap_buy_legDoes DEF RowIs, Moves, finalize_swap_buy_legWrites
  <2>3. row[o].kind # "legacy"
    <3>1. job[p].at \notin {"buyback", "compensate", "unclaim", "unanswered", "log"} /\ On(p, o)
      BY <1>7 DEF _finalize_swap_buy_leg, IsAt, On
    <3> QED BY <3>1, NotLegacy DEF OrdersInv
  <2> QED BY <1>1, <1>7, <2>2, <2>3, StepFits, finalize_swap_buy_legKeeps
<1>8. CASE confirm_swap_quotation(p)
  <2>2. /\ Tidy(p, o) /\ past' = past /\ row'[o].kind = row[o].kind
        /\ job'[p] = Idle \/ job'[p].o = o
    BY <1>1, <1>8, confirm_swap_quotationDoes DEF RowIs, Moves, confirm_swap_quotationWrites
  <2>3. row[o].kind # "legacy"
    <3>1. job[p].at \notin {"buyback", "compensate", "unclaim", "unanswered", "log"} /\ On(p, o)
      BY <1>8 DEF confirm_swap_quotation, IsAt, On
    <3> QED BY <3>1, NotLegacy DEF OrdersInv
  <2> QED BY <1>1, <1>8, <2>2, <2>3, StepFits, confirm_swap_quotationKeeps
<1>9. CASE StoreSwapId(p)
  <2>2. /\ Tidy(p, o) /\ past' = past /\ row'[o].kind = row[o].kind
        /\ job'[p] = Idle \/ job'[p].o = o
    BY <1>1, <1>9, StoreSwapIdDoes DEF RowIs, Moves, StoreSwapIdWrites
  <2>3. row[o].kind # "legacy"
    <3>1. job[p].at \notin {"buyback", "compensate", "unclaim", "unanswered", "log"} /\ On(p, o)
      BY <1>9 DEF StoreSwapId, IsAt, On
    <3> QED BY <3>1, NotLegacy DEF OrdersInv
  <2> QED BY <1>1, <1>9, <2>2, <2>3, StepFits, StoreSwapIdKeeps
<1>10. CASE _await_swap(p)
  <2>2. /\ Tidy(p, o) /\ past' = past /\ row'[o].kind = row[o].kind
        /\ job'[p] = Idle \/ job'[p].o = o
    BY <1>1, <1>10, await_swapDoes DEF RowIs, Moves, await_swapWrites
  <2>3. row[o].kind # "legacy"
    <3>1. job[p].at \notin {"buyback", "compensate", "unclaim", "unanswered", "log"} /\ On(p, o)
      BY <1>10 DEF _await_swap, IsAt, On
    <3> QED BY <3>1, NotLegacy DEF OrdersInv
  <2> QED BY <1>1, <1>10, <2>2, <2>3, StepFits, await_swapKeeps
<1>11. CASE _release_instant_swap(p)
  <2>2. /\ Tidy(p, o) /\ past' = past /\ row'[o].kind = row[o].kind
        /\ job'[p] = Idle \/ job'[p].o = o
    BY <1>1, <1>11, release_instant_swapDoes DEF RowIs, Moves, release_instant_swapWrites
  <2>3. row[o].kind # "legacy"
    <3>1. job[p].at \notin {"buyback", "compensate", "unclaim", "unanswered", "log"} /\ On(p, o)
      BY <1>11 DEF _release_instant_swap, IsAt, On
    <3> QED BY <3>1, NotLegacy DEF OrdersInv
  <2> QED BY <1>1, <1>11, <2>2, <2>3, StepFits, release_instant_swapKeeps
<1>12. CASE Unusable(p)
  <2>2. /\ Tidy(p, o) /\ past' = past /\ row'[o].kind = row[o].kind
        /\ job'[p] = Idle \/ job'[p].o = o
    BY <1>1, <1>12, UnusableDoes DEF RowIs, Moves, UnusableWrites
  <2>3. row[o].kind # "legacy"
    <3>1. job[p].at \notin {"buyback", "compensate", "unclaim", "unanswered", "log"} /\ On(p, o)
      BY <1>12 DEF Unusable, IsAt, On
    <3> QED BY <3>1, NotLegacy DEF OrdersInv
  <2> QED BY <1>1, <1>12, <2>2, <2>3, StepFits, UnusableKeeps
<1> QED BY <1>2, <1>3, <1>4, <1>5, <1>6, <1>7, <1>8, <1>9, <1>10, <1>11, <1>12 DEF InstantStep

(***************************************************************************)
(* A process is killed.                                                    *)
(***************************************************************************)
(* A killed process leaves its order as it was. *)
LEMMA CrashKeeps ==
  ASSUME OrdersInv, NEW p \in Procs, Crash(p)
  PROVE  OrdersInv'
<1>1. TypeInv /\ job[p] # Idle
  BY DEF OrdersInv, Crash
<1>2. PICK o \in Orders : o = job[p].o
  BY <1>1, JobTypes
<1>3. /\ row' = row /\ acct' = acct /\ fills' = fills /\ conversion' = conversion
      /\ external' = external
      /\ Ends(p) /\ crashes' \in 0..MaxCrashes
      /\ past' = [past EXCEPT ![o].died = @ \/ job[p].by # "report" \/ job[p].at = "refunded"]
  BY <1>1, <1>2, OrderAssumption DEF Crash, quidaxVars, IsAt, TypeInv, BookTypeOK
<1>4. job' \in [Procs -> Jobs] /\ job'[p] = Idle /\ Others(p) /\ JobsAreOnOrders'
  BY <1>1, <1>3, StopsAt DEF OnlyJob
<1>5. past[o] \in [retries : 0..(MaxRetries + 1), rejected : BOOLEAN, overlap : BOOLEAN,
          died : BOOLEAN]
  BY <1>1 DEF TypeInv, BookTypeOK
<1>6. /\ past'[o].overlap = past[o].overlap /\ past'[o].rejected = past[o].rejected
      /\ ~past'[o].died => ~past[o].died /\ job[p].by = "report" /\ job[p].at # "refunded"
      /\ \A x \in Orders : x # o => past'[x] = past[x]
      /\ BookTypeOK'
  <2>1. \A x \in Orders : x # o => past'[x] = past[x]
    BY <1>1, <1>3 DEF TypeInv, BookTypeOK
  <2> DEFINE d == past[o].died \/ job[p].by # "report" \/ job[p].at = "refunded"
             r == [past[o] EXCEPT !.died = d]
  <2>2. past' = [past EXCEPT ![o] = r]
    BY <1>3
  <2>3. d \in BOOLEAN
    BY <1>5
  <2>4. /\ r.overlap = past[o].overlap /\ r.rejected = past[o].rejected /\ r.died = d
        /\ r \in [retries : 0..(MaxRetries + 1), rejected : BOOLEAN, overlap : BOOLEAN,
               died : BOOLEAN]
    <3> HIDE DEF d
    <3> QED BY <1>5, <2>3
  <2>5. (~d) => ~past[o].died /\ job[p].by = "report" /\ job[p].at # "refunded"
    OBVIOUS
  <2> HIDE DEF d, r
  <2>6. past'[o] = r
    BY <1>1, <2>2 DEF TypeInv, BookTypeOK
  <2>7. BookTypeOK'
    <3>1. past' \in [Orders -> [retries : 0..(MaxRetries + 1), rejected : BOOLEAN,
              overlap : BOOLEAN, died : BOOLEAN]]
      BY <1>1, <2>2, <2>4 DEF TypeInv, BookTypeOK
    <3> QED BY <1>1, <1>3, <1>4, <3>1 DEF TypeInv, BookTypeOK
  <2> QED BY <2>1, <2>4, <2>5, <2>6, <2>7
<1>7. ASSUME NEW x \in Orders, x # o PROVE Fits(x)'
  <2>1. Untouched(x)
    BY <1>2, <1>3, <1>4, <1>6, <1>7, IdleIsElsewhere DEF Untouched, Others
  <2> QED BY <2>1, UntouchedFits DEF OrdersInv
<1>8. \A q \in Procs : On(q, o)' => On(q, o) /\ job'[q] = job[q] /\ q # p
  BY <1>4, IdleIsElsewhere DEF On, Others
<1>9. /\ (Resting(o) => Resting(o)') /\ (Closed(o)' <=> Closed(o)) /\ On(p, o)
      /\ Current(o)' = Current(o) /\ (Dead(o)' <=> Dead(o)) /\ Leg(o)' = Leg(o)
      /\ FromWallet(o)' = FromWallet(o)
  <2>1. Resting(o) => Resting(o)'
    BY <1>8 DEF Resting, On
  <2> QED BY <1>2, <1>3, <1>6, <2>1 DEF On, Closed, Current, Dead, Leg, FromWallet
<1>10. ASSUME Steady(o) PROVE Steady(o)'
  <2>1. Apart(o)'
    BY <1>3, <1>8, <1>10 DEF Steady, Apart
  <2>2. OrderFits(o)'
    BY <1>3, <1>9, <1>10 DEF Steady, OrderFits, StatusFits, QuotationFits, FillsFit, GotFits,
       ReviewFits
  <2>3. ASSUME NEW q \in Procs, On(q, o)' PROVE JobFits(o, job[q])'
    <3>1. job'[q] = job[q] /\ JobFits(o, job[q])
      BY <1>8, <1>10, <2>3 DEF Steady
    <3> QED BY <1>3, <1>9, <3>1 DEF JobFits, OnPath, JobStatusFits, JobIsQuoted, JobIsFilled
  <2> QED BY <2>1, <2>2, <2>3 DEF Steady
<1>11. ASSUME Steady(o), Square(o), job[p].by = "report", job[p].at # "refunded" PROVE Square(o)'
  <2>1. job[p].at \notin {"paid", "restart", "start"}
    BY <1>9, <1>11 DEF Steady, JobFits, OnPath, ReportSteps
  <2>2. \A q \in Procs : On(q, o) => q = p \/ (On(q, o)' /\ job'[q] = job[q])
    BY <1>4 DEF On, Others
  <2>3. WalletFits(o)'
    <3>1. (\A q \in Procs : On(q, o) => job[q].at # "refunded")'
            => \A q \in Procs : On(q, o) => job[q].at # "refunded"
      BY <1>11, <2>2
    <3>2. (\A q \in Procs : On(q, o) => job[q].at \notin {"paid", "restart"})'
            => \A q \in Procs : On(q, o) => job[q].at \notin {"paid", "restart"}
      BY <2>1, <2>2
    <3> QED BY <1>3, <1>6, <1>9, <1>11, <3>1, <3>2 DEF Square, WalletFits
  <2>4. HoldFits(o)'
    <3>1. (\A q \in Procs : On(q, o) => job[q].at # "start")'
            => \A q \in Procs : On(q, o) => job[q].at # "start"
      BY <2>1, <2>2
    <3>2. Placing(o) => Placing(o)'
      BY <1>11, <2>2 DEF Placing, On
    <3> QED BY <1>3, <1>9, <1>11, <3>1, <3>2 DEF Square, HoldFits
  <2>5. ASSUME NEW q \in Procs, On(q, o)' PROVE JobWalletFits(o, q)' /\ JobHoldFits(o, job[q])'
    <3>1. job'[q] = job[q] /\ JobWalletFits(o, q) /\ JobHoldFits(o, job[q])
      BY <1>8, <1>11, <2>5 DEF Square
    <3>2. JobHoldFits(o, job[q])'
      BY <1>3, <1>9, <3>1 DEF JobHoldFits
    <3>3. JobWalletFits(o, q)'
      BY <1>3, <1>8, <1>9, <3>1 DEF JobWalletFits
    <3> QED BY <3>2, <3>3
  <2> QED BY <2>3, <2>4, <2>5 DEF Square
<1>12. Fits(o)'
  <2>1. CASE row[o].kind = "legacy"
    <3>1. Legacy(o)'
      BY <1>3, <1>8, <1>9, <2>1 DEF OrdersInv, Fits, Legacy
    <3> QED BY <1>3, <2>1, <3>1 DEF Fits
  <2>2. CASE row[o].kind # "legacy"
    BY <1>3, <1>6, <1>10, <1>11, <2>2, FitsIf DEF OrdersInv
  <2> QED BY <2>1, <2>2
<1> QED BY <1>4, <1>6, <1>7, <1>12 DEF OrdersInv, TypeInv

(***************************************************************************)
(* What users, admins and Quidax do between the steps of processes.        *)
(***************************************************************************)
Pasts == [retries : 0..(MaxRetries + 1), rejected : BOOLEAN, overlap : BOOLEAN, died : BOOLEAN]

(* The past of one order is replaced. *)
LEMMA PastIs ==
  ASSUME TypeInv, NEW o \in Orders, NEW r \in Pasts, past' = [past EXCEPT ![o] = r]
  PROVE  past' \in [Orders -> Pasts] /\ past'[o] = r /\ \A x \in Orders : x # o =>
             past'[x] = past[x]
BY DEF TypeInv, BookTypeOK, Pasts

(* A request that starts overlaps if another process is on the order. *)
LEMMA OverlapIs ==
  ASSUME TypeInv, NEW o \in Orders, NEW v \in BOOLEAN,
         past' = [past EXCEPT ![o].overlap = past[o].overlap \/ v]
  PROVE  /\ past' \in [Orders -> Pasts] /\ \A x \in Orders : x # o => past'[x] = past[x]
         /\ past'[o].rejected = past[o].rejected /\ past'[o].died = past[o].died
         /\ past[o].overlap => past'[o].overlap
         /\ v => past'[o].overlap
<1> DEFINE w == past[o].overlap \/ v
           r == [past[o] EXCEPT !.overlap = w]
<1>1. past[o] \in Pasts
  BY DEF TypeInv, BookTypeOK, Pasts
<1>2. w \in BOOLEAN /\ (past[o].overlap => w) /\ (v => w)
  BY <1>1 DEF Pasts
<1>3. past' = [past EXCEPT ![o] = r]
  OBVIOUS
<1> HIDE DEF w
<1>4. r \in Pasts /\ r.rejected = past[o].rejected /\ r.died = past[o].died /\ r.overlap = w
  BY <1>1, <1>2 DEF Pasts
<1> HIDE DEF r
<1> QED BY <1>2, <1>3, <1>4, PastIs

(* A retry is counted, and may overlap. *)
LEMMA RetriesAndOverlapAre ==
  ASSUME TypeInv, NEW o \in Orders, NEW v \in BOOLEAN, past[o].retries < MaxRetries,
         past'
             = [past EXCEPT ![o].retries = past[o].retries + 1, ![o].overlap = past[o].overlap
                 \/ v]
  PROVE  /\ past' \in [Orders -> Pasts] /\ \A x \in Orders : x # o => past'[x] = past[x]
         /\ past'[o].rejected = past[o].rejected /\ past'[o].died = past[o].died
         /\ past[o].overlap => past'[o].overlap
         /\ v => past'[o].overlap
<1> DEFINE w == past[o].overlap \/ v
           n == past[o].retries + 1
           r == [past[o] EXCEPT !.retries = n, !.overlap = w]
<1>1. past[o] \in Pasts
  BY DEF TypeInv, BookTypeOK, Pasts
<1>2. w \in BOOLEAN /\ (past[o].overlap => w) /\ (v => w)
  BY <1>1 DEF Pasts
<1>3. n \in 0..(MaxRetries + 1)
  BY <1>1, OrderAssumption DEF Pasts
<1>4. past' = [past EXCEPT ![o] = r]
  OBVIOUS
<1> HIDE DEF w, n
<1>5. r \in Pasts /\ r.rejected = past[o].rejected /\ r.died = past[o].died /\ r.overlap = w
  BY <1>1, <1>2, <1>3 DEF Pasts
<1> HIDE DEF r
<1> QED BY <1>2, <1>4, <1>5, PastIs

(* A rejection is remembered, and may overlap. *)
LEMMA RejectedIs ==
  ASSUME TypeInv, NEW o \in Orders, NEW v \in BOOLEAN,
         past' = [past EXCEPT ![o].rejected = TRUE, ![o].overlap = past[o].overlap \/ v]
  PROVE  /\ past' \in [Orders -> Pasts] /\ \A x \in Orders : x # o => past'[x] = past[x]
         /\ past'[o].rejected /\ past'[o].died = past[o].died
         /\ past[o].overlap => past'[o].overlap
         /\ v => past'[o].overlap
<1> DEFINE w == past[o].overlap \/ v
           r == [past[o] EXCEPT !.rejected = TRUE, !.overlap = w]
<1>1. past[o] \in Pasts
  BY DEF TypeInv, BookTypeOK, Pasts
<1>2. w \in BOOLEAN /\ (past[o].overlap => w) /\ (v => w)
  BY <1>1 DEF Pasts
<1>3. past' = [past EXCEPT ![o] = r]
  OBVIOUS
<1> HIDE DEF w
<1>4. r \in Pasts /\ r.rejected = TRUE /\ r.died = past[o].died /\ r.overlap = w
  BY <1>1, <1>2 DEF Pasts
<1> HIDE DEF r
<1> QED BY <1>2, <1>3, <1>4, PastIs

(* A resolution of a legacy swap is counted. *)
LEMMA RetriesAre ==
  ASSUME TypeInv, NEW o \in Orders, past[o].retries <= MaxRetries,
         past' = [past EXCEPT ![o].retries = past[o].retries + 1]
  PROVE  past' \in [Orders -> Pasts] /\ \A x \in Orders : x # o => past'[x] = past[x]
<1> DEFINE n == past[o].retries + 1
           r == [past[o] EXCEPT !.retries = n]
<1>1. past[o] \in Pasts
  BY DEF TypeInv, BookTypeOK, Pasts
<1>2. n \in 0..(MaxRetries + 1)
  BY <1>1, OrderAssumption DEF Pasts
<1>3. past' = [past EXCEPT ![o] = r]
  OBVIOUS
<1> HIDE DEF n
<1>4. r \in Pasts
  BY <1>1, <1>2 DEF Pasts
<1> HIDE DEF r
<1> QED BY <1>3, <1>4, PastIs

(* An order is in hands or resting. *)
LEMMA InHandsIs == ASSUME NEW o \in Orders PROVE InHands(o) <=> ~Resting(o)
BY DEF InHands, Resting

(* What such a step leaves alone; its process, if it has one, was idle. *)
Orderly(o) ==
    /\ BookTypeOK' /\ JobsAreOnOrders' /\ Elsewhere(o)
    /\ \A q \in Procs : job'[q] = job[q] \/ (job[q] = Idle /\ job'[q].o = o)

(* A step that writes one order, and starts at most one job on it, is      *)
(* orderly.                                                                *)
LEMMA OrderlyIf ==
  ASSUME TypeInv, NEW o \in Orders,
         row' \in [Orders -> Rows], \A x \in Orders : x # o => row'[x] = row[x],
         acct' \in [Orders -> Accounts], \A x \in Orders : x # o => acct'[x] = acct[x],
         fills' = fills,
         conversion' \in [Orders -> ConversionTypes], \A x \in Orders : x # o =>
             conversion'[x] = conversion[x],
         external' \in [Orders -> BOOLEAN], \A x \in Orders : x # o => external'[x] = external[x],
         past' \in [Orders -> Pasts], \A x \in Orders : x # o => past'[x] = past[x],
         crashes' = crashes, job' \in [Procs -> Jobs], JobsAreOnOrders',
         \A q \in Procs : job'[q] = job[q] \/ (job[q] = Idle /\ job'[q].o = o)
  PROVE  Orderly(o)
BY DEF Orderly, Elsewhere, TypeInv, BookTypeOK, FillsTypes, ConversionTypes, Pasts

(* An orderly step that leaves its order fitting keeps the invariant. *)
LEMMA OrderlyFits ==
  ASSUME OrdersInv, NEW o \in Orders, Orderly(o), Fits(o)'
  PROVE  OrdersInv'
<1>1. ASSUME NEW x \in Orders, x # o PROVE Fits(x)'
  <2>1. Untouched(x)
    BY <1>1, IdleIsElsewhere DEF Orderly, Elsewhere, Untouched
  <2> QED BY <2>1, UntouchedFits DEF OrdersInv
<1> QED BY <1>1 DEF OrdersInv, TypeInv, Orderly

(* The types, for a step between the steps of processes. *)
LEMMA BookKept ==
  ASSUME TypeInv
  PROVE  /\ row \in [Orders -> Rows] /\ acct \in [Orders -> Accounts]
         /\ conversion \in [Orders -> ConversionTypes]
         /\ external \in [Orders -> BOOLEAN] /\ past \in [Orders -> Pasts]
         /\ job \in [Procs -> Jobs]
BY DEF TypeInv, BookTypeOK, ConversionTypes, Pasts

(* Nobody works on the order but a request that starts. *)
LEMMA BeginSteady ==
  ASSUME NEW o \in Orders, NEW p \in Procs, Resting(o), Others(p), OrderFits(o)',
         JobFits(o, job[p])'
  PROVE  Steady(o)'
<1>1. \A q \in Procs : On(q, o)' => q = p
  BY DEF Resting, Others, On
<1> QED BY <1>1 DEF Steady, Apart

(* And the order is square if the request finds and leaves it so. *)
LEMMA BeginSquare ==
  ASSUME NEW o \in Orders, NEW p \in Procs, Resting(o), Others(p), WalletFits(o)', HoldFits(o)',
         JobWalletFits(o, p)', JobHoldFits(o, job[p])'
  PROVE  Square(o)'
<1>1. \A q \in Procs : On(q, o)' => q = p
  BY DEF Resting, Others, On
<1> QED BY <1>1 DEF Square

(* A payment by card or bank transfer keeps the invariant. *)
LEMMA PayOutsideKeeps ==
  ASSUME OrdersInv, NEW o \in Orders, PayOutside(o)
  PROVE  OrdersInv'
<1>1. TypeInv /\ Fits(o)
  BY DEF OrdersInv
<1>2. /\ row' = row /\ acct' = acct /\ fills' = fills /\ conversion' = conversion /\ past' = past
      /\ job' = job /\ crashes' = crashes /\ external' = [external EXCEPT ![o] = TRUE]
      /\ row[o].status = "PENDING_PAYMENT" /\ ~external[o] /\ ~Placing(o)
  BY DEF PayOutside, quidaxVars
<1>3. /\ external' \in [Orders -> BOOLEAN] /\ external'[o]
      /\ \A x \in Orders : x # o => external'[x] = external[x]
  BY <1>1, <1>2 DEF TypeInv, BookTypeOK
<1>4. Orderly(o)
  <2>1. JobsAreOnOrders'
    BY <1>1, <1>2 DEF TypeInv, JobsAreOnOrders
  <2> QED BY <1>1, <1>2, <1>3, <2>1, BookKept, OrderlyIf
<1>5. row[o].kind # "legacy"
  BY <1>1, <1>2 DEF Fits, Legacy, Closed
<1>6. /\ (Resting(o)' <=> Resting(o)) /\ (Closed(o)' <=> Closed(o))
             /\ (Placing(o)' <=> Placing(o))
      /\ Current(o)' = Current(o) /\ (Dead(o)' <=> Dead(o)) /\ Leg(o)' = Leg(o)
  BY <1>2 DEF Resting, Closed, Placing, Current, Dead, Leg
<1>7. ASSUME Steady(o) PROVE Steady(o)'
  <2>1. OrderFits(o)'
    BY <1>2, <1>6, <1>7 DEF Steady, OrderFits, StatusFits, QuotationFits, FillsFit, GotFits,
       ReviewFits
  <2>2. ASSUME NEW q \in Procs, On(q, o) PROVE JobFits(o, job[q])'
    <3>1. JobFits(o, job[q])
      BY <1>7, <2>2 DEF Steady
    <3> QED BY <1>2, <1>6, <3>1 DEF JobFits, OnPath, JobStatusFits, JobIsQuoted, JobIsFilled
  <2>3. Apart(o)'
    BY <1>2, <1>7 DEF Steady, Apart, On
  <2> QED BY <1>2, <2>1, <2>2, <2>3 DEF Steady, On
<1>8. ASSUME Steady(o), Square(o) PROVE Square(o)'
  <2>1. WalletFits(o)'
    BY <1>2, <1>3, <1>8 DEF Square, WalletFits, On
  <2>2. HoldFits(o)'
    BY <1>2, <1>6, <1>8 DEF Square, HoldFits, On
  <2>3. ASSUME NEW q \in Procs, On(q, o) PROVE JobWalletFits(o, q)' /\ JobHoldFits(o, job[q])'
    <3>1. JobFits(o, job[q]) /\ JobHoldFits(o, job[q])
      BY <1>8, <2>3 DEF Steady, Square
    <3>2. JobHoldFits(o, job[q])'
      BY <1>2, <1>6, <3>1 DEF JobHoldFits
    <3>3. job[q].by # "place"
      BY <1>2, <2>3 DEF Placing, On
    <3>4. row[o].kind \in Buys =>
            job[q].at \notin {"pay", "paid", "redebit", "restart", "refunded", "buy"}
      BY <1>2, <3>1, <3>3 DEF JobFits, OnPath, JobStatusFits
    <3>5. row[o].kind = "buy" => job[q].at \notin {"refuse", "bought"}
      BY <1>2, <3>1 DEF JobFits, JobStatusFits
    <3>6. JobWalletFits(o, q)'
      BY <1>2, <3>4, <3>5 DEF JobWalletFits
    <3> QED BY <3>2, <3>6
  <2> QED BY <1>2, <2>1, <2>2, <2>3 DEF Square, On
<1>9. Fits(o)'
  BY <1>1, <1>2, <1>5, <1>7, <1>8, FitsIf
<1> QED BY <1>4, <1>9, OrderlyFits

(* So does a conversion at Quidax. *)
LEMMA QuidaxConvertsKeeps ==
  ASSUME OrdersInv, NEW o \in Orders, NEW n \in Quotations, QuidaxConverts(o, n)
  PROVE  OrdersInv'
<1>1. TypeInv /\ Fits(o)
  BY DEF OrdersInv
<1>2. PICK c \in Ended : conversion' = [conversion EXCEPT ![o][n] = c]
  BY DEF QuidaxConverts
<1>3. /\ row' = row /\ acct' = acct /\ fills' = fills /\ past' = past /\ external' = external
      /\ job' = job /\ crashes' = crashes /\ conversion[o][n] = "processing"
  BY DEF QuidaxConverts, outsideVars
<1>4. /\ conversion' \in [Orders -> ConversionTypes]
      /\ \A x \in Orders : x # o => conversion'[x] = conversion[x]
      /\ ConversionIs(o, n, c)
  <2>1. n \in 0..MaxQuotations /\ c \in {"processing", "completed", "failed", "refused", "lost"}
    BY OrderAssumption DEF Quotations, MaxQuotations, Ended
  <2> QED BY <1>1, <1>2, <2>1, Sent DEF Becomes, OnlyConversion
<1>5. Orderly(o)
  <2>1. JobsAreOnOrders'
    BY <1>1, <1>3 DEF TypeInv, JobsAreOnOrders
  <2> QED BY <1>1, <1>3, <1>4, <2>1, BookKept, OrderlyIf
<1>6. /\ (Resting(o)' <=> Resting(o)) /\ (Closed(o)' <=> Closed(o))
             /\ (Placing(o)' <=> Placing(o))
      /\ Leg(o)' = Leg(o) /\ FromWallet(o)' = FromWallet(o)
  BY <1>3 DEF Resting, Closed, Placing, Leg, FromWallet
<1>7. ~Dead(o)
  BY <1>3 DEF Dead, Live
<1>8. ASSUME Steady(o), row[o].kind # "legacy" PROVE Steady(o)'
  <2>1. StatusFits(o) /\ QuotationFits(o) /\ FillsFit(o) /\ ReviewFits(o) /\ GotFits(o)
    BY <1>8 DEF Steady, OrderFits
  <2>2. n = row[o].quotation
    <3>1. n < row[o].quotation \/ n = row[o].quotation \/ n > row[o].quotation
      BY <1>1, RowTypes, OrderAssumption DEF Quotations, MaxQuotations
    <3>2. ~(n < row[o].quotation)
      BY <1>3, <2>1 DEF QuotationFits, Live
    <3>3. ~(n > row[o].quotation)
      BY <1>3, <2>1 DEF QuotationFits
    <3> QED BY <3>1, <3>2, <3>3
  <2>3. Current(o) = "processing" /\ Current(o)' \in Ended /\ row[o].quotation > 0
    BY <1>3, <1>4, <2>2, OrderAssumption DEF Current, ConversionIs, Quotations, MaxQuotations
  <2>4. row[o].kind \in InstantKinds /\ row[o].status = "PROCESSING"
    BY <1>7, <2>1, <2>3, OrderAssumption DEF QuotationFits
  <2>5. \A m \in Quotations : m # row[o].quotation => conversion'[o][m] = conversion[o][m]
    BY <1>4, <2>2 DEF ConversionIs
  <2>6. QuotationFits(o)'
    <3>1. \A m \in Quotations : m < row[o].quotation => conversion'[o][m] \notin Live
      BY <2>1, <2>5, OrderAssumption DEF QuotationFits, Quotations, MaxQuotations
    <3>2. \A m \in Quotations : m > row[o].quotation => conversion'[o][m] = "unsent"
      BY <2>1, <2>5, OrderAssumption DEF QuotationFits, Quotations, MaxQuotations
    <3> QED BY <1>3, <2>1, <2>4, <3>1, <3>2 DEF QuotationFits
  <2>7. StatusFits(o)' /\ FillsFit(o)' /\ ReviewFits(o)' /\ GotFits(o)'
    BY <1>3, <1>6, <2>1 DEF StatusFits, FillsFit, ReviewFits, GotFits
  <2>8. ASSUME NEW q \in Procs, On(q, o) PROVE JobFits(o, job[q])'
    <3>1. JobFits(o, job[q])
      BY <1>8, <2>8 DEF Steady
    <3>2. OnPath(o, job[q])' /\ JobStatusFits(o, job[q])' /\ JobIsFilled(o, job[q])'
      BY <1>3, <1>6, <3>1 DEF JobFits, OnPath, JobStatusFits, JobIsFilled
    <3>3. /\ job[q].at # "confirm"
          /\ job[q].at \notin {"giveback", "clear", "refunded", "refuse", "refundngn"}
          /\ job[q].at \in {"converted", "finishleg"} => row[o].kind = "swap"
      BY <1>7, <2>3, <3>1 DEF JobFits, JobIsQuoted
    <3>4. JobIsQuoted(o, job[q])'
      BY <1>3, <2>3, <3>1, <3>3 DEF JobFits, JobIsQuoted
    <3> QED BY <3>2, <3>4 DEF JobFits
  <2>9. Apart(o)'
    BY <1>3, <1>8 DEF Steady, Apart, On
  <2> QED BY <1>3, <2>6, <2>7, <2>8, <2>9 DEF Steady, OrderFits, On
<1>9. ASSUME Square(o) PROVE Square(o)'
  <2>1. WalletFits(o)' /\ HoldFits(o)'
    BY <1>3, <1>6, <1>9 DEF Square, WalletFits, HoldFits, On
  <2>2. ASSUME NEW q \in Procs, On(q, o) PROVE JobWalletFits(o, q)' /\ JobHoldFits(o, job[q])'
    <3>1. JobWalletFits(o, q) /\ JobHoldFits(o, job[q])
      BY <1>9, <2>2 DEF Square
    <3> QED BY <1>3, <1>6, <3>1 DEF JobWalletFits, JobHoldFits, On
  <2> QED BY <1>3, <2>1, <2>2 DEF Square, On
<1>10. Fits(o)'
  <2>1. CASE row[o].kind = "legacy"
    <3>1. Legacy(o)'
      BY <1>1, <1>3, <1>6, <2>1 DEF Fits, Legacy, On
    <3> QED BY <1>3, <2>1, <3>1 DEF Fits
  <2>2. CASE row[o].kind # "legacy"
    BY <1>1, <1>3, <1>8, <1>9, <2>2, FitsIf
  <2> QED BY <2>1, <2>2
<1> QED BY <1>5, <1>10, OrderlyFits

(* So does a rejection. *)
LEMMA admin_reject_orderKeeps ==
  ASSUME OrdersInv, NEW o \in Orders, admin_reject_order(o)
  PROVE  OrdersInv'
<1>1. TypeInv /\ Fits(o)
  BY DEF OrdersInv
<1>2. /\ row[o].status \in {"PENDING_PAYMENT", "WAITING_DEPOSIT"}
      /\ row' = [row EXCEPT ![o].status = "FAILED"]
      /\ past' = [past EXCEPT ![o].rejected = TRUE, ![o].overlap = past[o].overlap \/ InHands(o)]
      /\ acct' = acct /\ fills' = fills /\ conversion' = conversion /\ external' = external
      /\ crashes' = crashes /\ job' = job
  BY DEF admin_reject_order, quidaxVars
<1>3. /\ row' \in [Orders -> Rows] /\ \A x \in Orders : x # o => row'[x] = row[x]
      /\ RowIs(o, "FAILED", row[o].needs_review, row[o].sold, row[o].quotation, row[o].swap,
               row[o].paid, row[o].refunded)
  <2>1. "FAILED" \in Statuses
    BY DEF Statuses
  <2> QED BY <1>1, <1>2, <2>1, StatusIs DEF OnlyRow, ClaimIs
<1>4. /\ past' \in [Orders -> Pasts] /\ \A x \in Orders : x # o => past'[x] = past[x]
      /\ past'[o].rejected /\ past'[o].died = past[o].died
      /\ past[o].overlap => past'[o].overlap
      /\ InHands(o) => past'[o].overlap
  <2>1. InHands(o) \in BOOLEAN
    BY DEF InHands
  <2> QED BY <1>1, <1>2, <2>1, RejectedIs
<1>5. Orderly(o)
  <2>1. JobsAreOnOrders'
    BY <1>1, <1>2 DEF TypeInv, JobsAreOnOrders
  <2> QED BY <1>1, <1>2, <1>3, <1>4, <2>1, BookKept, OrderlyIf
<1>6. row[o].kind # "legacy"
  BY <1>1, <1>2 DEF Fits, Legacy, Closed
<1>7. /\ row'[o].kind = row[o].kind /\ row'[o].status = "FAILED"
      /\ row'[o].quotation = row[o].quotation
      /\ row'[o].swap = row[o].swap /\ row'[o].sold = row[o].sold
      /\ row'[o].needs_review = row[o].needs_review
      /\ row'[o].paid = row[o].paid /\ row'[o].refunded = row[o].refunded
  BY <1>3 DEF RowIs
<1>8. Leg(o)' = Leg(o) /\ (Dead(o)' <=> Dead(o)) /\ Current(o)' = Current(o)
  BY <1>2, <1>7 DEF Leg, Dead, Current
<1>9. ASSUME Steady(o), Resting(o) PROVE Steady(o)'
  <2>1. StatusFits(o) /\ QuotationFits(o) /\ FillsFit(o) /\ ReviewFits(o) /\ GotFits(o)
    BY <1>9 DEF Steady, OrderFits
  <2>2. row[o].kind \in Buys \cup {"sell"}
    BY <1>1, <1>2, <1>6, <2>1, RowTypes DEF StatusFits, Kinds, TwoLegs, Underway
  <2>3. ~row[o].sold
    BY <2>1, <2>2 DEF FillsFit, Buys, TwoLegs
  <2>4. StatusFits(o)'
    BY <1>7, <2>1, <2>2 DEF StatusFits, Buys, TwoLegs, Underway
  <2>5. QuotationFits(o)'
    BY <1>2, <1>7, <1>8, <2>1 DEF QuotationFits
  <2>6. FillsFit(o)'
    BY <1>2, <1>7, <1>8, <2>1, <2>3 DEF FillsFit
  <2>7. GotFits(o)'
    BY <1>2, <1>7, <2>1, <2>3 DEF GotFits, One
  <2>8. ReviewFits(o)'
    <3>1. row[o].needs_review => row[o].quotation # 0
      BY <1>2, <2>1 DEF ReviewFits
    <3>2. row[o].needs_review => row[o].quotation > 0
      BY <1>1, <3>1, RowTypes
    <3> QED BY <1>7, <3>2 DEF ReviewFits
  <2>9. \A q \in Procs : ~On(q, o)'
    BY <1>2, <1>9 DEF Resting, On
  <2> QED BY <2>4, <2>5, <2>6, <2>7, <2>8, <2>9 DEF Steady, OrderFits, Apart
<1>10. ASSUME Steady(o), Square(o), Resting(o) PROVE Square(o)'
  <2>1. WalletFits(o) /\ HoldFits(o)
    BY <1>10 DEF Square
  <2>2. \A q \in Procs : ~On(q, o) /\ ~On(q, o)'
    BY <1>2, <1>10 DEF Resting, On
  <2>3. WalletFits(o)'
    <3> SUFFICES ASSUME row[o].kind \in Buys PROVE WalletFits(o)'
      BY <1>7 DEF WalletFits
    <3>1. row[o].status = "PENDING_PAYMENT"
      BY <1>2, <1>10 DEF Steady, OrderFits, StatusFits
    <3>2. row[o].paid = 0 /\ row[o].refunded = 0 /\ acct[o].taken = 0
      BY <2>1, <2>2, <3>1 DEF WalletFits
    <3>3. FromWallet(o)' = 0
      BY <1>4 DEF FromWallet, One
    <3> QED BY <1>2, <1>7, <3>2, <3>3 DEF WalletFits
  <2>4. HoldFits(o)'
    <3>1. acct[o].hold = 0
      <4>1. row[o].status = "WAITING_DEPOSIT" => acct[o].hold = 0
        BY <2>1, <2>2 DEF HoldFits
      <4>2. row[o].status = "PENDING_PAYMENT" => row[o].kind \in Buys
        BY <1>1, <1>6, <1>10, RowTypes DEF Steady, OrderFits, StatusFits, Kinds, TwoLegs, Underway
      <4>3. row[o].kind \in Buys => acct[o].hold = 0
        BY <2>1 DEF HoldFits
      <4> QED BY <1>2, <4>1, <4>2, <4>3
    <3> QED BY <1>2, <1>7, <3>1, HoldClosed
  <2> QED BY <2>2, <2>3, <2>4 DEF Square
<1>11. Fits(o)'
  <2>1. ~past'[o].overlap => Resting(o)
    BY <1>4, InHandsIs
  <2> QED BY <1>1, <1>4, <1>6, <1>7, <1>9, <1>10, <2>1, FitsIf
<1> QED BY <1>5, <1>11, OrderlyFits

(* A process that starts on an order. *)
LEMMA StartOrderly ==
  ASSUME TypeInv, NEW p \in Procs, NEW a \in Steps, a # "idle", NEW o \in Orders,
         NEW n \in 0..MaxQuotations, NEW f \in BOOLEAN, NEW b \in {"place", "later", "report"},
         Starts(p, Job(a, o, n, f, b)),
         row' \in [Orders -> Rows], \A x \in Orders : x # o => row'[x] = row[x],
         acct' = acct, fills' = fills, conversion' = conversion, external' = external,
         past' \in [Orders -> Pasts], \A x \in Orders : x # o => past'[x] = past[x],
         crashes' = crashes
  PROVE  Orderly(o) /\ Others(p) /\ Begins(p, a, o, n, f, b)
<1>1. job' \in [Procs -> Jobs] /\ Others(p) /\ Begins(p, a, o, n, f, b) /\ JobsAreOnOrders'
  BY StartsOn DEF OnlyJob
<1>2. \A q \in Procs : job'[q] = job[q] \/ (job[q] = Idle /\ job'[q].o = o)
  BY <1>1 DEF Others, Begins
<1> QED BY <1>1, <1>2, BookKept, OrderlyIf

(* A new order keeps the invariant. *)
LEMMA create_order_from_quoteKeeps ==
  ASSUME OrdersInv, NEW p \in WebWorkers, NEW o \in Orders, _create_order_from_quote(p, o)
  PROVE  OrdersInv'
<1> DEFINE a == IF row[o].kind \in Buys THEN "pay" ELSE "reserve"
           f == row[o].kind = "buy"
           s == INITIAL_STATUS(row[o].kind)
<1>1. TypeInv /\ Fits(o) /\ p \in Procs
  BY DEF OrdersInv, Procs
<1>2. /\ row[o].status = "none" /\ row' = [row EXCEPT ![o].status = s]
      /\ Starts(p, Job(a, o, 0, f, "place"))
      /\ acct' = acct /\ fills' = fills /\ conversion' = conversion /\ external' = external
      /\ past' = past /\ crashes' = crashes
  BY DEF _create_order_from_quote, quidaxVars, outsideVars
<1>3. a \in Steps /\ a # "idle" /\ f \in BOOLEAN /\ s \in Statuses /\ 0 \in 0..MaxQuotations
  BY OrderAssumption DEF Steps, Statuses, INITIAL_STATUS, MaxQuotations
<1>4. \/ a = "pay" /\ s = "PENDING_PAYMENT" /\ row[o].kind \in Buys
      \/ a = "reserve" /\ s = "PROCESSING" /\ row[o].kind \notin Buys
  BY DEF INITIAL_STATUS
<1>5. f <=> row[o].kind = "buy"
  OBVIOUS
<1> HIDE DEF a, f, s
<1>6. /\ row' \in [Orders -> Rows] /\ \A x \in Orders : x # o => row'[x] = row[x]
      /\ RowIs(o, s, row[o].needs_review, row[o].sold, row[o].quotation, row[o].swap,
               row[o].paid, row[o].refunded)
  BY <1>1, <1>2, <1>3, StatusIs DEF OnlyRow, ClaimIs
<1>7. Orderly(o) /\ Others(p) /\ Begins(p, a, o, 0, f, "place")
  BY <1>1, <1>2, <1>3, <1>6, BookKept, StartOrderly
<1>8. row[o].kind # "legacy"
  BY <1>1, <1>2 DEF Fits, Legacy, Closed
<1>9. /\ row'[o].kind = row[o].kind /\ row'[o].status = s /\ row'[o].quotation = row[o].quotation
      /\ row'[o].swap = row[o].swap /\ row'[o].sold = row[o].sold
      /\ row'[o].needs_review = row[o].needs_review
      /\ row'[o].paid = row[o].paid /\ row'[o].refunded = row[o].refunded
      /\ job'[p].at = a /\ job'[p].o = o /\ job'[p].n = 0 /\ job'[p].refund = f
      /\ job'[p].by = "place"
  BY <1>6, <1>7 DEF RowIs, Begins
<1>10. Leg(o)' = Leg(o) /\ (Dead(o)' <=> Dead(o)) /\ Current(o)' = Current(o)
  BY <1>2, <1>9 DEF Leg, Dead, Current
<1>11. ASSUME Steady(o) PROVE Steady(o)'
  <2>1. StatusFits(o) /\ QuotationFits(o) /\ FillsFit(o) /\ ReviewFits(o) /\ GotFits(o)
    BY <1>11 DEF Steady, OrderFits
  <2>2. /\ Resting(o) /\ ~row[o].sold /\ row[o].quotation = 0 /\ row[o].swap = 0
        /\ row[o].kind \notin Buys => row[o].paid = 0
        /\ row[o].kind \in Market => Leg(o) = 0
        /\ acct[o].got = 0 /\ ~row[o].needs_review
    <3>1. /\ Resting(o) /\ ~row[o].sold /\ row[o].quotation = 0
          /\ row[o].kind \notin Buys => row[o].paid = 0
      BY <1>2, <2>1 DEF StatusFits, QuotationFits
    <3>2. row[o].swap = 0
      BY <1>1, <2>1, <3>1, RowTypes DEF QuotationFits
    <3>3. row[o].kind \in Market => Leg(o) = 0
      BY <1>2, <2>1, <3>1 DEF FillsFit
    <3>4. acct[o].got = 0
      BY <1>2, <2>1 DEF GotFits, One
    <3>5. ~row[o].needs_review
      BY <1>2, <2>1, <3>1 DEF ReviewFits
    <3> QED BY <3>1, <3>2, <3>3, <3>4, <3>5
  <2>3. StatusFits(o)'
    BY <1>1, <1>4, <1>9, <2>2, RowTypes DEF StatusFits, Buys, TwoLegs, Underway
  <2>4. QuotationFits(o)'
    BY <1>2, <1>4, <1>9, <1>10, <2>1, <2>2 DEF QuotationFits, InstantKinds, Buys
  <2>5. FillsFit(o)'
    BY <1>4, <1>9, <1>10, <2>2 DEF FillsFit
  <2>6. ReviewFits(o)' /\ GotFits(o)'
    BY <1>2, <1>4, <1>9, <2>2 DEF ReviewFits, GotFits, One
  <2>7. OnPath(o, job[p])'
    BY <1>1, <1>4, <1>5, <1>8, <1>9, RowTypes DEF OnPath, Buys, TwoLegs, Kinds
  <2>8. JobStatusFits(o, job[p])' /\ JobIsQuoted(o, job[p])'
    BY <1>4, <1>9, <2>2 DEF JobStatusFits, JobIsQuoted
  <2>9. JobIsFilled(o, job[p])'
    BY <1>4, <1>9, <1>10, <2>2 DEF JobIsFilled
  <2> QED BY <1>1, <1>7, <2>2, <2>3, <2>4, <2>5, <2>6, <2>7, <2>8, <2>9, BeginSteady DEF
     OrderFits, JobFits
<1>12. ASSUME Steady(o), Square(o) PROVE Square(o)'
  <2>1. WalletFits(o) /\ HoldFits(o) /\ Resting(o) /\ row[o].quotation = 0 /\ ~row[o].needs_review
    BY <1>2, <1>12 DEF Square, Steady, OrderFits, StatusFits, QuotationFits, ReviewFits
  <2>2. \A q \in Procs : ~On(q, o)
    BY <2>1 DEF Resting, On
  <2>3. acct[o].hold = 0
    BY <1>2, <2>1, <2>2 DEF HoldFits
  <2>4. row[o].kind \in Buys => /\ acct[o].taken = 0 /\ row[o].paid = 0 /\ row[o].refunded = 0
                                /\ ~external[o] /\ ~past[o].rejected
    BY <1>2, <2>1, <2>2 DEF WalletFits
  <2>5. WalletFits(o)'
    BY <1>2, <1>4, <1>9, <2>4 DEF WalletFits
  <2>6. Placing(o)'
    BY <1>1, <1>9 DEF Placing
  <2>7. HoldFits(o)'
    BY <1>2, <1>4, <1>9, <2>1, <2>3, <2>6 DEF HoldFits, Closed, Buys, TwoLegs
  <2>8. JobWalletFits(o, p)'
    BY <1>2, <1>4, <1>5, <1>9, <2>4 DEF JobWalletFits
  <2>9. JobHoldFits(o, job[p])'
    BY <1>2, <1>4, <1>9, <2>3 DEF JobHoldFits
  <2> QED BY <1>1, <1>7, <2>1, <2>5, <2>7, <2>8, <2>9, BeginSquare
<1>13. Fits(o)'
  BY <1>1, <1>2, <1>8, <1>9, <1>11, <1>12, FitsIf
<1> QED BY <1>7, <1>13, OrderlyFits

(* A paid order is carried on. *)
LEMMA PaymentConfirmedKeeps ==
  ASSUME OrdersInv, NEW p \in WebWorkers, NEW o \in Orders, PaymentConfirmed(p, o)
  PROVE  OrdersInv'
<1>1. TypeInv /\ Fits(o) /\ p \in Procs
  BY DEF OrdersInv, Procs
<1>2. /\ row[o].kind \in Buys /\ external[o] /\ row[o].status = "PENDING_PAYMENT"
      /\ row' = [row EXCEPT ![o].status = "PAYMENT_RECEIVED"]
      /\ Starts(p, Job("buy", o, 0, FALSE, "later"))
      /\ past' = [past EXCEPT ![o].overlap = past[o].overlap \/ InHands(o)]
      /\ acct' = acct /\ fills' = fills /\ conversion' = conversion /\ external' = external
      /\ crashes' = crashes
  BY DEF PaymentConfirmed, quidaxVars, Overlaps
<1>3. "buy" \in Steps /\ "PAYMENT_RECEIVED" \in Statuses /\ 0 \in 0..MaxQuotations
          /\ InHands(o) \in BOOLEAN
  BY OrderAssumption DEF Steps, Statuses, MaxQuotations, InHands
<1>4. /\ past' \in [Orders -> Pasts] /\ \A x \in Orders : x # o => past'[x] = past[x]
      /\ past'[o].rejected = past[o].rejected /\ past'[o].died = past[o].died
      /\ past[o].overlap => past'[o].overlap
      /\ InHands(o) => past'[o].overlap
  BY <1>1, <1>2, <1>3, OverlapIs
<1>6. /\ row' \in [Orders -> Rows] /\ \A x \in Orders : x # o => row'[x] = row[x]
      /\ RowIs(o, "PAYMENT_RECEIVED", row[o].needs_review, row[o].sold, row[o].quotation,
             row[o].swap,
               row[o].paid, row[o].refunded)
  BY <1>1, <1>2, <1>3, StatusIs DEF OnlyRow, ClaimIs
<1>7. Orderly(o) /\ Others(p) /\ Begins(p, "buy", o, 0, FALSE, "later")
  BY <1>1, <1>2, <1>3, <1>4, <1>6, BookKept, StartOrderly
<1>8. row[o].kind # "legacy"
  BY <1>2 DEF Buys
<1>9. /\ row'[o].kind = row[o].kind /\ row'[o].status = "PAYMENT_RECEIVED"
      /\ row'[o].quotation = row[o].quotation
      /\ row'[o].swap = row[o].swap /\ row'[o].sold = row[o].sold
      /\ row'[o].needs_review = row[o].needs_review
      /\ row'[o].paid = row[o].paid /\ row'[o].refunded = row[o].refunded
      /\ job'[p].at = "buy" /\ job'[p].o = o /\ job'[p].n = 0 /\ job'[p].refund = FALSE
      /\ job'[p].by = "later"
  BY <1>6, <1>7 DEF RowIs, Begins
<1>10. Leg(o)' = Leg(o) /\ (Dead(o)' <=> Dead(o)) /\ Current(o)' = Current(o)
  BY <1>2, <1>9 DEF Leg, Dead, Current
<1>11. ASSUME Steady(o), Resting(o) PROVE Steady(o)'
  <2>1. StatusFits(o) /\ QuotationFits(o) /\ FillsFit(o) /\ ReviewFits(o) /\ GotFits(o)
    BY <1>11 DEF Steady, OrderFits
  <2>2. ~row[o].sold /\ (row[o].kind \in Market => Leg(o) = 0) /\ acct[o].got = 0
    BY <1>2, <2>1 DEF FillsFit, GotFits, One, Buys, TwoLegs
  <2>3. StatusFits(o)' /\ FillsFit(o)' /\ GotFits(o)'
    BY <1>2, <1>9, <1>10, <2>2 DEF StatusFits, FillsFit, GotFits, Buys, TwoLegs, One
  <2>4. QuotationFits(o)'
    BY <1>2, <1>9, <1>10, <2>1 DEF QuotationFits
  <2>6. ReviewFits(o)'
    <3>1. row[o].needs_review => row[o].quotation # 0
      BY <1>2, <2>1 DEF ReviewFits
    <3>2. row[o].needs_review => row[o].quotation > 0
      BY <1>1, <3>1, RowTypes
    <3> QED BY <1>9, <3>2 DEF ReviewFits
  <2>7. OnPath(o, job[p])' /\ JobStatusFits(o, job[p])' /\ JobIsFilled(o, job[p])'
    BY <1>2, <1>9, <1>10, <2>2 DEF OnPath, JobStatusFits, JobIsFilled
  <2>8. JobIsQuoted(o, job[p])'
    BY <1>2, <1>9 DEF JobIsQuoted, Buys
  <2> QED BY <1>1, <1>7, <1>11, <2>3, <2>4, <2>6, <2>7, <2>8, BeginSteady DEF OrderFits, JobFits
<1>12. ASSUME Square(o), Resting(o) PROVE Square(o)'
  <2>1. WalletFits(o) /\ HoldFits(o)
    BY <1>12 DEF Square
  <2>2. \A q \in Procs : ~On(q, o)
    BY <1>12 DEF Resting, On
  <2>3. acct[o].hold = 0 /\ acct[o].taken = 0 /\ row[o].paid = 0 /\ row[o].refunded = 0
    BY <1>2, <2>1, <2>2 DEF HoldFits, WalletFits
  <2>4. FromWallet(o)' = 0
    BY <1>2 DEF FromWallet, One
  <2>5. WalletFits(o)'
    BY <1>2, <1>9, <2>3, <2>4 DEF WalletFits
  <2>6. HoldFits(o)'
    BY <1>2, <1>9, <2>3 DEF HoldFits, Closed, Buys
  <2>7. JobWalletFits(o, p)'
    BY <1>9, <2>4 DEF JobWalletFits
  <2>8. JobHoldFits(o, job[p])'
    BY <1>9 DEF JobHoldFits
  <2> QED BY <1>1, <1>7, <1>12, <2>5, <2>6, <2>7, <2>8, BeginSquare
<1>13. Fits(o)'
  <2>1. ~past'[o].overlap => Resting(o)
    BY <1>4, InHandsIs
  <2> QED BY <1>1, <1>4, <1>8, <1>9, <1>11, <1>12, <2>1, FitsIf
<1> QED BY <1>7, <1>13, OrderlyFits

(* A retried buy, paid again if it had been refunded, keeps the invariant. *)
LEMMA admin_retry_buyKeeps ==
  ASSUME OrdersInv, NEW p \in WebWorkers, NEW o \in Orders, admin_retry_buy(p, o)
  PROVE  OrdersInv'
<1> DEFINE f == row[o].refunded > 0
           a == IF f THEN "redebit" ELSE "restart"
<1>1. TypeInv /\ Fits(o) /\ p \in Procs
  BY DEF OrdersInv, Procs
<1>2. /\ row[o].kind \in Buys /\ row[o].status = "FAILED" /\ row' = row
      /\ past[o].retries < MaxRetries /\ Starts(p, Job(a, o, 0, f, "later"))
      /\ past'
             = [past EXCEPT ![o].retries = past[o].retries + 1, ![o].overlap = past[o].overlap
                 \/ InHands(o)]
      /\ acct' = acct /\ fills' = fills /\ conversion' = conversion /\ external' = external
      /\ crashes' = crashes
  BY DEF admin_retry_buy, quidaxVars
<1>3. /\ a \in Steps /\ a # "idle" /\ f \in BOOLEAN /\ 0 \in 0..MaxQuotations
      /\ (a = "redebit" /\ f) \/ (a = "restart" /\ ~f)
      /\ f <=> row[o].refunded > 0
  BY OrderAssumption DEF Steps, MaxQuotations
<1> HIDE DEF a, f
<1>4. /\ past' \in [Orders -> Pasts] /\ \A x \in Orders : x # o => past'[x] = past[x]
      /\ past'[o].rejected = past[o].rejected /\ past'[o].died = past[o].died
      /\ past[o].overlap => past'[o].overlap
      /\ InHands(o) => past'[o].overlap
  <2>1. InHands(o) \in BOOLEAN
    BY DEF InHands
  <2> QED BY <1>1, <1>2, <2>1, RetriesAndOverlapAre
<1>5. Orderly(o) /\ Others(p) /\ Begins(p, a, o, 0, f, "later")
  BY <1>1, <1>2, <1>3, <1>4, BookKept, StartOrderly
<1>6. /\ (Closed(o)' <=> Closed(o)) /\ FromWallet(o)' = FromWallet(o)
      /\ Leg(o)' = Leg(o) /\ (Dead(o)' <=> Dead(o)) /\ Current(o)' = Current(o)
  BY <1>2, <1>4 DEF Closed, FromWallet, Leg, Dead, Current
<1>7. job'[p].at = a /\ job'[p].o = o /\ job'[p].n = 0 /\ job'[p].refund = f
          /\ job'[p].by = "later"
  BY <1>5 DEF Begins
<1>8. ASSUME Steady(o), Resting(o) PROVE Steady(o)'
  <2>1. StatusFits(o) /\ QuotationFits(o) /\ FillsFit(o) /\ ReviewFits(o) /\ GotFits(o)
    BY <1>8 DEF Steady, OrderFits
  <2>2. ~row[o].sold /\ (row[o].kind \in Market => Leg(o) = 0)
    BY <1>2, <2>1 DEF FillsFit, Buys, TwoLegs
  <2>3. StatusFits(o)' /\ QuotationFits(o)' /\ FillsFit(o)' /\ GotFits(o)'
    BY <1>2, <1>6, <2>1 DEF StatusFits, QuotationFits, FillsFit, GotFits
  <2>4. ReviewFits(o)'
    <3>1. row[o].needs_review => row[o].quotation # 0
      BY <1>2, <2>1 DEF ReviewFits
    <3>2. row[o].needs_review => row[o].quotation > 0
      BY <1>1, <3>1, RowTypes
    <3> QED BY <1>2, <3>2 DEF ReviewFits
  <2>5. OnPath(o, job[p])' /\ JobStatusFits(o, job[p])' /\ JobIsFilled(o, job[p])'
    BY <1>2, <1>3, <1>6, <1>7, <2>2 DEF OnPath, JobStatusFits, JobIsFilled
  <2>6. JobIsQuoted(o, job[p])'
    BY <1>2, <1>3, <1>7 DEF JobIsQuoted, Buys
  <2> QED BY <1>1, <1>5, <1>8, <2>3, <2>4, <2>5, <2>6, BeginSteady DEF OrderFits, JobFits
<1>9. ASSUME Square(o), Resting(o) PROVE Square(o)'
  <2>1. WalletFits(o) /\ HoldFits(o)
    BY <1>9 DEF Square
  <2>2. \A q \in Procs : ~On(q, o)
    BY <1>9 DEF Resting, On
  <2>3. acct[o].hold = 0 /\ acct[o].taken = 0 /\ row[o].paid = row[o].refunded
        /\ (FromWallet(o) = 1 => row[o].refunded > 0)
    BY <1>2, <2>1, <2>2 DEF HoldFits, WalletFits
  <2>4. WalletFits(o)'
    BY <1>2, <1>4, <1>6, <2>1, <2>3 DEF WalletFits
  <2>5. HoldFits(o)'
    BY <1>2, <2>3, HoldClosed
  <2>6. JobWalletFits(o, p)'
    BY <1>2, <1>3, <1>7, <2>3 DEF JobWalletFits, One
  <2>7. JobHoldFits(o, job[p])'
    BY <1>2 DEF JobHoldFits
  <2> QED BY <1>1, <1>5, <1>9, <2>4, <2>5, <2>6, <2>7, BeginSquare
<1>10. Fits(o)'
  <2>1. ~past'[o].overlap => Resting(o)
    BY <1>4, InHandsIs
  <2>2. row[o].kind # "legacy"
    BY <1>2 DEF Buys
  <2> QED BY <1>1, <1>2, <1>4, <1>8, <1>9, <2>1, <2>2, FitsIf
<1> QED BY <1>5, <1>10, OrderlyFits

(* So does a retried sell. *)
LEMMA retry_sell_orderKeeps ==
  ASSUME OrdersInv, NEW p \in WebWorkers, NEW o \in Orders, _retry_sell_order(p, o)
  PROVE  OrdersInv'
<1>1. TypeInv /\ Fits(o) /\ p \in Procs
  BY DEF OrdersInv, Procs
<1>2. /\ row[o].kind = "sell" /\ row[o].status = "WAITING_DEPOSIT" /\ row' = row
      /\ past[o].retries < MaxRetries /\ Starts(p, Job("rereserve", o, 0, FALSE, "later"))
      /\ past'
             = [past EXCEPT ![o].retries = past[o].retries + 1, ![o].overlap = past[o].overlap
                 \/ InHands(o)]
      /\ acct' = acct /\ fills' = fills /\ conversion' = conversion /\ external' = external
      /\ crashes' = crashes
  BY DEF _retry_sell_order, quidaxVars
<1>3. "rereserve" \in Steps /\ 0 \in 0..MaxQuotations
  BY OrderAssumption DEF Steps, MaxQuotations
<1>4. /\ past' \in [Orders -> Pasts] /\ \A x \in Orders : x # o => past'[x] = past[x]
      /\ past'[o].rejected = past[o].rejected /\ past'[o].died = past[o].died
      /\ past[o].overlap => past'[o].overlap
      /\ InHands(o) => past'[o].overlap
  <2>1. InHands(o) \in BOOLEAN
    BY DEF InHands
  <2> QED BY <1>1, <1>2, <2>1, RetriesAndOverlapAre
<1>5. Orderly(o) /\ Others(p) /\ Begins(p, "rereserve", o, 0, FALSE, "later")
  BY <1>1, <1>2, <1>3, <1>4, BookKept, StartOrderly
<1>6. /\ (Closed(o)' <=> Closed(o)) /\ FromWallet(o)' = FromWallet(o)
      /\ Leg(o)' = Leg(o) /\ (Dead(o)' <=> Dead(o)) /\ Current(o)' = Current(o)
  BY <1>2, <1>4 DEF Closed, FromWallet, Leg, Dead, Current
<1>7. /\ job'[p].at = "rereserve" /\ job'[p].o = o /\ job'[p].n = 0
      /\ job'[p].refund = FALSE /\ job'[p].by = "later"
  BY <1>5 DEF Begins
<1>8. ASSUME Steady(o), Resting(o) PROVE Steady(o)'
  <2>1. StatusFits(o) /\ QuotationFits(o) /\ FillsFit(o) /\ ReviewFits(o) /\ GotFits(o)
    BY <1>8 DEF Steady, OrderFits
  <2>2. ~row[o].sold /\ Leg(o) = 0
    BY <1>2, <2>1 DEF FillsFit, Market, TwoLegs
  <2>3. StatusFits(o)' /\ QuotationFits(o)' /\ FillsFit(o)' /\ GotFits(o)'
    BY <1>2, <1>6, <2>1 DEF StatusFits, QuotationFits, FillsFit, GotFits
  <2>4. ReviewFits(o)'
    <3>1. row[o].needs_review => row[o].quotation # 0
      BY <1>2, <2>1 DEF ReviewFits
    <3>2. row[o].needs_review => row[o].quotation > 0
      BY <1>1, <3>1, RowTypes
    <3> QED BY <1>2, <3>2 DEF ReviewFits
  <2>5. OnPath(o, job[p])' /\ JobStatusFits(o, job[p])' /\ JobIsFilled(o, job[p])'
    BY <1>2, <1>3, <1>6, <1>7, <2>2 DEF OnPath, JobStatusFits, JobIsFilled
  <2>6. JobIsQuoted(o, job[p])'
    BY <1>2, <1>3, <1>7 DEF JobIsQuoted
  <2> QED BY <1>1, <1>5, <1>8, <2>3, <2>4, <2>5, <2>6, BeginSteady DEF OrderFits, JobFits
<1>9. ASSUME Square(o), Resting(o) PROVE Square(o)'
  <2>1. WalletFits(o) /\ HoldFits(o)
    BY <1>9 DEF Square
  <2>2. \A q \in Procs : ~On(q, o)
    BY <1>9 DEF Resting, On
  <2>3. acct[o].hold = 0
    BY <1>2, <2>1, <2>2 DEF HoldFits
  <2>4. WalletFits(o)' /\ JobWalletFits(o, p)'
    BY <1>2 DEF WalletFits, JobWalletFits, Buys
  <2>5. HoldFits(o)'
    BY <1>2, <2>3 DEF HoldFits, Closed
  <2>6. JobHoldFits(o, job[p])'
    BY <1>2, <1>7, <2>3 DEF JobHoldFits
  <2> QED BY <1>1, <1>5, <1>9, <2>4, <2>5, <2>6, BeginSquare
<1>10. Fits(o)'
  <2>1. ~past'[o].overlap => Resting(o)
    BY <1>4, InHandsIs
  <2> QED BY <1>1, <1>2, <1>4, <1>8, <1>9, <2>1, FitsIf
<1> QED BY <1>5, <1>10, OrderlyFits

(* So does the resolution of a legacy swap. *)
LEMMA admin_resolve_failed_swapKeeps ==
  ASSUME OrdersInv, NEW p \in WebWorkers, NEW o \in Orders, admin_resolve_failed_swap(p, o)
  PROVE  OrdersInv'
<1>1. TypeInv /\ Fits(o) /\ p \in Procs
  BY DEF OrdersInv, Procs
<1>2. /\ row[o].kind = "legacy" /\ row[o].status = "FAILED" /\ ~row[o].compensated
      /\ ~row[o].claimed
      /\ past[o].retries <= MaxRetries
      /\ past' = [past EXCEPT ![o].retries = past[o].retries + 1]
      /\ fills' = fills /\ conversion' = conversion /\ external' = external /\ crashes' = crashes
      /\ \/ /\ row' = [row EXCEPT ![o].compensated = TRUE]
            /\ acct' = [acct EXCEPT ![o].got = acct[o].got + 1] /\ job' = job
         \/ /\ row' = [row EXCEPT ![o].claimed = TRUE]
            /\ Starts(p, Job("buyback", o, 0, FALSE, "later")) /\ acct' = acct
  BY DEF admin_resolve_failed_swap, quidaxVars
<1>3. past' \in [Orders -> Pasts] /\ \A x \in Orders : x # o => past'[x] = past[x]
  BY <1>1, <1>2, RetriesAre
<1>4. Legacy(o) /\ Resting(o) /\ acct[o].got = 0
  <2>1. Legacy(o)
    BY <1>1, <1>2 DEF Fits
  <2> QED BY <1>2, <2>1 DEF Legacy, Resting, On, One
<1>5. CASE /\ row' = [row EXCEPT ![o].compensated = TRUE]
           /\ acct' = [acct EXCEPT ![o].got = acct[o].got + 1] /\ job' = job
  <2>1. /\ row' \in [Orders -> Rows] /\ \A x \in Orders : x # o => row'[x] = row[x]
        /\ RowIs(o, row[o].status, row[o].needs_review, row[o].sold, row[o].quotation,
                 row[o].swap, row[o].paid, row[o].refunded)
        /\ row'[o].claimed = row[o].claimed /\ row'[o].compensated = TRUE
    BY <1>1, <1>5, CompensatedIs DEF OnlyRow, ClaimIs
  <2>2. /\ acct' \in [Orders -> Accounts] /\ \A x \in Orders : x # o => acct'[x] = acct[x]
        /\ AcctIs(o, acct[o].taken, acct[o].hold, acct[o].got + 1)
    BY <1>1, <1>5, GotMore DEF OnlyAcct
  <2>3. Orderly(o)
    <3>1. JobsAreOnOrders'
      BY <1>1, <1>5 DEF TypeInv, JobsAreOnOrders
    <3> QED BY <1>1, <1>2, <1>3, <1>5, <2>1, <2>2, <3>1, BookKept, OrderlyIf
  <2>4. \A q \in Procs : ~On(q, o)'
    BY <1>4, <1>5 DEF Resting, On
  <2>5. acct'[o].got = 1 /\ acct'[o].hold = acct[o].hold
    BY <1>4, <2>2 DEF AcctIs
  <2>6. Legacy(o)'
    BY <1>2, <1>4, <2>1, <2>4, <2>5 DEF Legacy, Closed, RowIs, One
  <2>7. Fits(o)'
    BY <1>2, <2>1, <2>6 DEF Fits, RowIs
  <2> QED BY <2>3, <2>7, OrderlyFits
<1>6. CASE /\ row' = [row EXCEPT ![o].claimed = TRUE]
           /\ Starts(p, Job("buyback", o, 0, FALSE, "later")) /\ acct' = acct
  <2>1. /\ row' \in [Orders -> Rows] /\ \A x \in Orders : x # o => row'[x] = row[x]
        /\ RowIs(o, row[o].status, row[o].needs_review, row[o].sold, row[o].quotation,
                 row[o].swap, row[o].paid, row[o].refunded)
        /\ row'[o].claimed = TRUE /\ row'[o].compensated = row[o].compensated
    BY <1>1, <1>6, ClaimedIs DEF OnlyRow, ClaimIs
  <2>2. "buyback" \in Steps /\ 0 \in 0..MaxQuotations
    BY OrderAssumption DEF Steps, MaxQuotations
  <2>3. Orderly(o) /\ Others(p) /\ Begins(p, "buyback", o, 0, FALSE, "later")
    BY <1>1, <1>2, <1>3, <1>6, <2>1, <2>2, StartOrderly
  <2>4. Alone(p, o) /\ row'[o].status = "FAILED" /\ job'[p].at = "buyback"
    BY <1>2, <1>4, <2>1, <2>3 DEF Resting, On, Alone, RowIs, Begins
  <2>5. /\ ~row'[o].needs_review /\ fills'[o].sold > 0 /\ row'[o].quotation = 0
        /\ row'[o].swap = 0
        /\ acct'[o].hold = 0 /\ row'[o].claimed /\ ~row'[o].compensated
    BY <1>2, <1>4, <1>6, <2>1 DEF Legacy, RowIs
  <2>6. acct'[o].got = One(row'[o].compensated \/ row'[o].status = "COMPLETED")
    BY <1>4, <1>6, <2>4, <2>5 DEF One
  <2>7. Legacy(o)'
    BY <1>1, <2>3, <2>4, <2>5, <2>6, LegacyIf
  <2>8. Fits(o)'
    BY <1>2, <2>1, <2>7 DEF Fits, RowIs
  <2> QED BY <2>3, <2>8, OrderlyFits
<1> QED BY <1>2, <1>5, <1>6

(* Whoever else works on an order whose quotation has ended is past the    *)
(* point where that matters.                                               *)
LEMMA EndedIsLate ==
  ASSUME TypeInv, NEW o \in Orders, Steady(o), NEW q \in Procs, On(q, o),
         row[o].status = "PROCESSING", row[o].quotation > 0, row[o].kind \in InstantKinds,
         Current(o) \in Ended
  PROVE  job[q].at \in Late
<1>1. JobFits(o, job[q])
  BY DEF Steady
<1>2. job[q].at \in Steps /\ job[q].at # "idle"
  <2>1. job[q].o \in Orders
    BY DEF On
  <2> QED BY <2>1, AtWork, JobTypes
<1>3. job[q].at \notin {"pay", "paid", "redebit", "restart", "buy", "rereserve", "start"}
  BY <1>1 DEF JobFits, JobStatusFits
<1>4. job[q].at \notin {"reserve", "sell", "soldleg", "spend-quote", "quote", "release",
          "confirm"}
  BY <1>1 DEF JobFits, JobIsQuoted, Ended
<1>5. job[q].at \notin {"bought", "wait", "sold", "buyleg", "bookleg", "spend-flag",
          "spend-refund",
                        "buyback", "compensate", "unclaim", "unanswered", "log"}
  BY <1>1 DEF JobFits, OnPath, InstantKinds
<1> QED BY <1>2, <1>3, <1>4, <1>5 DEF Steps, Late, ReportSteps

(* A report of a swap that ended, from a webhook or from reconciliation. *)
LEMMA ReportKeeps ==
  ASSUME OrdersInv, NEW p \in Procs, NEW o \in Orders, NEW n \in Quotations,
         conversion[o][n] \in Ended, n \in {row[o].swap, row[o].quotation},
         row[o].status = "PROCESSING",
         Reported(p, o, n), external' = external, crashes' = crashes,
         past' \in [Orders -> Pasts], \A x \in Orders : x # o => past'[x] = past[x],
         past'[o].rejected = past[o].rejected, past'[o].died = past[o].died,
         past[o].overlap => past'[o].overlap
  PROVE  OrdersInv'
<1> DEFINE a == Outcome(o, n)
<1>1. TypeInv /\ Fits(o)
  BY DEF OrdersInv
<1>2. n > 0 /\ n \in 0..MaxQuotations
  BY OrderAssumption DEF Quotations, MaxQuotations
<1>3. /\ acct' = acct /\ fills' = fills /\ conversion' = conversion
      /\ Starts(p, Job(a, o, n, FALSE, "report"))
      /\ IF row[o].swap = 0 THEN row' = [row EXCEPT ![o].swap = n] ELSE row' = row
  BY DEF Reported, quidaxVars
<1>4. /\ a \in {"converted", "refuse", "refundngn", "giveback"}
      /\ a = "converted" => conversion[o][n] = "completed"
      /\ a # "converted" => conversion[o][n] = "failed" /\ a = Unconverted(row[o].kind)
  BY DEF Outcome, Unconverted, Ended
<1> HIDE DEF a
<1>5. /\ row' \in [Orders -> Rows] /\ \A x \in Orders : x # o => row'[x] = row[x]
      /\ row'[o].kind = row[o].kind /\ row'[o].status = row[o].status
      /\ row'[o].quotation = row[o].quotation /\ row'[o].sold = row[o].sold
      /\ row'[o].needs_review = row[o].needs_review
      /\ row'[o].paid = row[o].paid /\ row'[o].refunded = row[o].refunded
      /\ row'[o].swap \in {row[o].swap, n}
  <2>1. CASE row[o].swap = 0
    BY <1>1, <1>2, <1>3, <2>1, SwapIs DEF RowIs, OnlyRow
  <2>2. CASE row[o].swap # 0
    BY <1>1, <1>3, <2>2, BookKept
  <2> QED BY <2>1, <2>2
<1>6. Orderly(o) /\ Others(p) /\ Begins(p, a, o, n, FALSE, "report")
  <2>1. a \in Steps /\ a # "idle"
    BY <1>4 DEF Steps
  <2> QED BY <1>1, <1>2, <1>3, <1>5, <2>1, StartOrderly
<1>7. /\ job'[p].at = a /\ job'[p].o = o /\ job'[p].n = n /\ job'[p].refund = FALSE
      /\ job'[p].by = "report"
      /\ job[p] = Idle
  BY <1>6 DEF Begins
<1>8. row[o].kind # "legacy"
  BY <1>1 DEF Fits, Legacy, Closed
<1>9. /\ (Closed(o)' <=> Closed(o)) /\ FromWallet(o)' = FromWallet(o)
      /\ Leg(o)' = Leg(o) /\ (Dead(o)' <=> Dead(o)) /\ Current(o)' = Current(o)
  BY <1>3, <1>5 DEF Closed, FromWallet, Leg, Dead, Current
<1>10. ASSUME Steady(o)
       PROVE  /\ n = row[o].quotation /\ row[o].kind \in InstantKinds
              /\ Current(o) = conversion[o][n]
              /\ \A q \in Procs : On(q, o)' /\ q # p =>
                     On(q, o) /\ job'[q] = job[q] /\ job[q].at \in Late
              /\ a \in ReportSteps
  <2>1. n = row[o].quotation
    BY <1>1, <1>2, <1>10, RowTypes DEF Steady, OrderFits, QuotationFits
  <2>2. row[o].kind \in InstantKinds
    BY <1>2, <1>10, <2>1 DEF Steady, OrderFits, QuotationFits
  <2>3. Current(o) = conversion[o][n]
    BY <2>1 DEF Current
  <2>4. ASSUME NEW q \in Procs, On(q, o)', q # p PROVE On(q, o) /\ job'[q] = job[q]
                   /\ job[q].at \in Late
    <3>1. On(q, o) /\ job'[q] = job[q]
      BY <1>6, <2>4 DEF On, Others
    <3> QED BY <1>1, <1>2, <1>10, <2>1, <2>2, <2>3, <3>1, EndedIsLate
  <2> QED BY <1>4, <2>1, <2>2, <2>3, <2>4 DEF ReportSteps
<1>11. ASSUME Steady(o) PROVE Steady(o)'
  <2>1. StatusFits(o) /\ QuotationFits(o) /\ FillsFit(o) /\ ReviewFits(o) /\ GotFits(o)
    BY <1>11 DEF Steady, OrderFits
  <2>2. StatusFits(o)' /\ FillsFit(o)' /\ GotFits(o)'
    BY <1>3, <1>5, <1>9, <2>1 DEF StatusFits, FillsFit, GotFits
  <2>3. QuotationFits(o)'
    <3>1. row[o].quotation \in 0..MaxQuotations /\ row[o].swap \in 0..MaxQuotations
      BY <1>1, RowTypes
    <3> QED BY <1>3, <1>5, <1>10, <1>11, <2>1, <3>1, QuotationSettled
  <2>4. ReviewFits(o)'
    BY <1>2, <1>5, <1>10, <1>11 DEF ReviewFits
  <2>5. JobFits(o, job[p])'
    <3>1. a # "converted" => Dead(o)
      BY <1>1, <1>2, <1>4, <1>10, <1>11, <2>1, DeadIfEnded DEF Live
    <3>2. a = "converted" => Current(o) = "completed"
      BY <1>4, <1>10, <1>11
    <3>3. /\ a = "refuse" => row[o].kind = "instantbuy"
          /\ a = "refundngn" => row[o].kind = "legswap"
          /\ a = "giveback" => row[o].kind = "instantswap"
      BY <1>4, <1>10, <1>11 DEF Unconverted, InstantKinds
    <3>4. OnPath(o, job[p])'
      BY <1>4, <1>5, <1>7, <1>10, <1>11, <3>3 DEF OnPath, Buys, TwoLegs, InstantKinds
    <3>5. JobStatusFits(o, job[p])'
      BY <1>4, <1>5, <1>7, <1>10, <1>11, <3>3 DEF JobStatusFits, InstantKinds, Underway
    <3>6. JobIsQuoted(o, job[p])'
      BY <1>2, <1>4, <1>5, <1>7, <1>9, <1>10, <1>11, <3>1, <3>2, <3>3 DEF JobIsQuoted
    <3>7. row[o].kind \in Market => row[o].sold
      BY <1>2, <1>10, <1>11, <2>1 DEF QuotationFits, Market, InstantKinds
    <3>8. JobIsFilled(o, job[p])'
      BY <1>4, <1>5, <1>7, <1>10, <1>11, <3>3, <3>7 DEF JobIsFilled, Market, InstantKinds
    <3> QED BY <3>4, <3>5, <3>6, <3>8 DEF JobFits
  <2>6. ASSUME NEW q \in Procs, On(q, o)', q # p PROVE JobFits(o, job[q])'
    <3>1. job'[q] = job[q] /\ JobFits(o, job[q]) /\ job[q].at \in Late
      BY <1>10, <1>11, <2>6 DEF Steady
    <3>2. OnPath(o, job[q])' /\ JobStatusFits(o, job[q])' /\ JobIsFilled(o, job[q])'
      BY <1>3, <1>5, <1>9, <3>1 DEF JobFits, OnPath, JobStatusFits, JobIsFilled
    <3>3. JobIsQuoted(o, job[q])'
      BY <1>5, <1>9, <3>1 DEF JobFits, JobIsQuoted, Late, ReportSteps
    <3> QED BY <3>2, <3>3 DEF JobFits
  <2>7. Apart(o)'
    <3> SUFFICES ASSUME NEW q \in Procs, NEW r \in Procs, On(q, o)', On(r, o)', q # r
                 PROVE  /\ job'[q].by = "report" \/ job'[r].by = "report"
                        /\ job'[q].at \in Late
                        /\ row'[o].kind = "instantswap" /\ row'[o].quotation = 0 =>
                               job'[q].by = "report"
      BY DEF Apart
    <3>1. job'[q].at \in Late
      BY <1>7, <1>10, <1>11 DEF Late
    <3>2. job'[q].by = "report" \/ job'[r].by = "report"
      BY <1>7, <1>10, <1>11 DEF Steady, Apart
    <3>3. row'[o].quotation # 0
      BY <1>2, <1>5, <1>10, <1>11
    <3> QED BY <3>1, <3>2, <3>3
  <2> QED BY <2>2, <2>3, <2>4, <2>5, <2>6, <2>7 DEF Steady, OrderFits
<1>12. ASSUME Steady(o), Square(o), past'[o].died = past[o].died PROVE Square(o)'
  <2>1. WalletFits(o) /\ HoldFits(o)
    BY <1>12 DEF Square
  <2>2. \A q \in Procs : On(q, o) => On(q, o)' /\ job'[q] = job[q]
    BY <1>6, <1>7, IdleIsElsewhere DEF On, Others
  <2>3. WalletFits(o)'
    <3>1. (\A q \in Procs : On(q, o) => job[q].at # "refunded")'
            => \A q \in Procs : On(q, o) => job[q].at # "refunded"
      BY <2>2
    <3>2. row'[o].status = "PROCESSING"
      BY <1>5
    <3> QED BY <1>3, <1>5, <1>9, <2>1, <3>1, <3>2 DEF WalletFits
  <2>4. HoldFits(o)'
    BY <1>2, <1>3, <1>5, <1>10, <1>12, <2>1, HoldKept
  <2>5. JobWalletFits(o, p)' /\ JobHoldFits(o, job[p])'
    <3>1. /\ a = "refuse" => row[o].kind = "instantbuy"
          /\ a = "refundngn" => row[o].kind = "legswap"
          /\ a = "giveback" => row[o].kind = "instantswap"
      BY <1>4, <1>10, <1>12 DEF Unconverted, InstantKinds
    <3>2. JobWalletFits(o, p)'
      BY <1>4, <1>5, <1>7, <3>1 DEF JobWalletFits
    <3>3. /\ row[o].kind = "legswap" => acct[o].hold = 0
          /\ row[o].kind = "instantswap" => acct[o].hold = 1
      BY <1>2, <1>10, <1>12, <2>1 DEF HoldFits
    <3>4. ~Closed(o)'
      BY <1>5 DEF Closed
    <3>5. JobHoldFits(o, job[p])'
      BY <1>3, <1>4, <1>5, <1>7, <3>1, <3>3, <3>4 DEF JobHoldFits, Buys, One
    <3> QED BY <3>2, <3>5
  <2>6. ASSUME NEW q \in Procs, On(q, o)', q # p PROVE JobWalletFits(o, q)'
                   /\ JobHoldFits(o, job[q])'
    <3>1. On(q, o) /\ job'[q] = job[q] /\ JobWalletFits(o, q) /\ JobHoldFits(o, job[q])
              /\ JobFits(o, job[q])
      BY <1>10, <1>12, <2>6 DEF Square, Steady
    <3>2. JobHoldFits(o, job[q])'
      BY <1>3, <1>5, <1>9, <3>1 DEF JobHoldFits
    <3>3. job[q].at \notin {"refunded", "redebit", "restart"}
      BY <3>1 DEF JobFits, JobStatusFits
    <3>4. JobWalletFits(o, q)'
      BY <1>3, <1>5, <1>9, <3>1, <3>3 DEF JobWalletFits
    <3> QED BY <3>2, <3>4
  <2> QED BY <2>3, <2>4, <2>5, <2>6 DEF Square
<1>13. Fits(o)'
  BY <1>1, <1>5, <1>8, <1>11, <1>12, FitsIf
<1> QED BY <1>6, <1>13, OrderlyFits

(* A report that finds no quotation to ask for. *)
LEMMA GiveBackKeeps ==
  ASSUME OrdersInv, NEW p \in Procs, NEW o \in Orders, row[o].status = "PROCESSING",
         row[o].kind = "instantswap", row[o].quotation = 0,
         Starts(p, Job("giveback", o, 0, FALSE, "report")),
         row' = row, acct' = acct, fills' = fills, conversion' = conversion, external' = external,
         crashes' = crashes,
         past' \in [Orders -> Pasts], \A x \in Orders : x # o => past'[x] = past[x],
         past'[o].rejected = past[o].rejected, past'[o].died = past[o].died,
         past[o].overlap => past'[o].overlap,
         Placing(o) => past'[o].overlap
  PROVE  OrdersInv'
<1>1. TypeInv /\ Fits(o)
  BY DEF OrdersInv
<1>2. Orderly(o) /\ Others(p) /\ Begins(p, "giveback", o, 0, FALSE, "report")
  <2>1. "giveback" \in Steps /\ 0 \in 0..MaxQuotations
    BY OrderAssumption DEF Steps, MaxQuotations
  <2> QED BY <1>1, <2>1, BookKept, StartOrderly
<1>3. /\ job'[p].at = "giveback" /\ job'[p].o = o /\ job'[p].n = 0 /\ job'[p].refund = FALSE
      /\ job'[p].by = "report" /\ job[p] = Idle
  BY <1>2 DEF Begins
<1>4. /\ Leg(o)' = Leg(o) /\ (Dead(o)' <=> Dead(o)) /\ Current(o)' = Current(o)
  BY DEF Leg, Dead, Current
<1>5. ASSUME Steady(o), ~Placing(o) PROVE Steady(o)'
  <2>1. StatusFits(o) /\ QuotationFits(o) /\ FillsFit(o) /\ ReviewFits(o) /\ GotFits(o)
    BY <1>5 DEF Steady, OrderFits
  <2>2. ASSUME NEW q \in Procs, On(q, o)', q # p
        PROVE  On(q, o) /\ job'[q] = job[q] /\ JobFits(o, job[q]) /\ job[q].by = "report"
                   /\ job[q].at \in Late
    <3>1. On(q, o) /\ job'[q] = job[q]
      BY <1>2, <2>2 DEF On, Others
    <3>2. JobFits(o, job[q])
      BY <1>5, <3>1 DEF Steady
    <3>3. job[q].by \in {"place", "later", "report"}
      <4>1. job[q].o \in Orders
        BY <3>1 DEF On
      <4> QED BY <1>1, <4>1, AtWork, JobTypes
    <3>4. job[q].by # "place"
      BY <1>5, <3>1 DEF Placing, On
    <3>5. job[q].by # "later"
      BY <3>2 DEF JobFits, JobIsQuoted
    <3> QED BY <3>1, <3>2, <3>3, <3>4, <3>5 DEF JobFits, OnPath, Late
  <2>3. StatusFits(o)' /\ QuotationFits(o)' /\ FillsFit(o)' /\ GotFits(o)'
    BY <1>4, <2>1 DEF StatusFits, QuotationFits, FillsFit, GotFits
  <2>4. ReviewFits(o)'
    BY <2>1 DEF ReviewFits
  <2>5. Dead(o)
    <3>1. \A m \in Quotations : m > row[o].quotation
      BY OrderAssumption DEF Quotations, MaxQuotations
    <3> QED BY <2>1, <3>1 DEF QuotationFits, Dead, Live
  <2>6. JobFits(o, job[p])'
    BY <1>3, <1>4, <2>5 DEF JobFits, OnPath, JobStatusFits, JobIsQuoted, JobIsFilled,
       InstantKinds, TwoLegs, Buys, ReportSteps, Market, Underway
  <2>7. ASSUME NEW q \in Procs, On(q, o)', q # p PROVE JobFits(o, job[q])'
    BY <1>4, <2>2, <2>7 DEF JobFits, OnPath, JobStatusFits, JobIsQuoted, JobIsFilled
  <2>8. Apart(o)'
    BY <1>3, <2>2 DEF Apart, Late, ReportSteps
  <2> QED BY <2>3, <2>4, <2>6, <2>7, <2>8 DEF Steady, OrderFits
<1>6. ~(Square(o) /\ ~Placing(o))
  BY DEF Square, HoldFits
<1>7. Fits(o)'
  BY <1>1, <1>5, <1>6, FitsIf
<1> QED BY <1>2, <1>7, OrderlyFits

(* A webhook keeps the invariant. *)
LEMMA handle_swap_webhookKeeps ==
  ASSUME OrdersInv, NEW p \in Procs, NEW o \in Orders, NEW n \in Quotations,
         handle_swap_webhook(p, o, n)
  PROVE  OrdersInv'
<1>1. TypeInv /\ past' = past /\ external' = external /\ crashes' = crashes
  BY DEF OrdersInv, handle_swap_webhook, outsideVars
<1> QED BY <1>1, BookKept, ReportKeeps DEF handle_swap_webhook

(* Reconciliation keeps it, with or without an id to ask for. *)
LEMMA reconcile_instant_swapKeeps ==
  ASSUME OrdersInv, NEW p \in Procs, NEW o \in Orders, reconcile_instant_swap(p, o),
         external' = external, crashes' = crashes,
         past' \in [Orders -> Pasts], \A x \in Orders : x # o => past'[x] = past[x],
         past'[o].rejected = past[o].rejected, past'[o].died = past[o].died,
         past[o].overlap => past'[o].overlap,
         Placing(o) => past'[o].overlap
  PROVE  OrdersInv'
<1> DEFINE n == Stored(o)
<1>1. TypeInv /\ row[o].status = "PROCESSING" /\ _is_instant(o)
  BY DEF OrdersInv, reconcile_instant_swap
<1>2. /\ n \in {row[o].swap, row[o].quotation} /\ n \in 0..MaxQuotations
      /\ n = 0 => row[o].swap = 0 /\ row[o].quotation = 0
  BY <1>1, RowTypes DEF Stored
<1>3. CASE n > 0
  <2>1. conversion[o][n] \in Ended /\ Reported(p, o, n)
    BY <1>3 DEF reconcile_instant_swap
  <2> HIDE DEF n
  <2>2. n \in Quotations
    BY <1>2, <1>3, OrderAssumption DEF Quotations, MaxQuotations
  <2> QED BY <1>1, <1>2, <2>1, <2>2, ReportKeeps
<1>4. CASE n = 0
  <2>0. ~(n > 0)
    BY <1>4
  <2>1. /\ Starts(p, Job("giveback", o, 0, FALSE, "report")) /\ row' = row /\ acct' = acct
        /\ fills' = fills /\ conversion' = conversion
    <3>1. IF n > 0 THEN conversion[o][n] \in Ended /\ Reported(p, o, n)
          ELSE /\ Starts(p, Job("giveback", o, 0, FALSE, "report"))
               /\ UNCHANGED <<row, acct, quidaxVars>>
      BY DEF reconcile_instant_swap
    <3> HIDE DEF n
    <3>2. Starts(p, Job("giveback", o, 0, FALSE, "report")) /\ UNCHANGED <<row, acct, quidaxVars>>
      BY <2>0, <3>1
    <3> QED BY <3>2 DEF quidaxVars
  <2>2. row[o].quotation = 0
    BY <1>2, <1>4
  <2>3. row[o].kind = "instantswap"
    BY <1>1, <2>2 DEF _is_instant
  <2> QED BY <1>1, <2>1, <2>2, <2>3, GiveBackKeeps
<1>5. n = 0 \/ n > 0
  <2> HIDE DEF n
  <2> QED BY <1>2, OrderAssumption DEF MaxQuotations
<1> QED BY <1>3, <1>4, <1>5

(* So does the worker, which leaves a request that places an order alone. *)
LEMMA reconcile_due_instant_swapsKeeps ==
  ASSUME OrdersInv, NEW o \in Orders, reconcile_due_instant_swaps(o)
  PROVE  OrdersInv'
<1>1. /\ TypeInv /\ past' = past /\ external' = external /\ crashes' = crashes /\ ~Placing(o)
      /\ reconcile_instant_swap(Settler, o) /\ Settler \in Procs
  BY DEF OrdersInv, reconcile_due_instant_swaps, outsideVars, Procs
<1> QED BY <1>1, BookKept, reconcile_instant_swapKeeps

(* So does an admin, whose check overlaps with a request that runs. *)
LEMMA admin_check_instant_swapKeeps ==
  ASSUME OrdersInv, NEW p \in Procs, NEW o \in Orders, admin_check_instant_swap(p, o)
  PROVE  OrdersInv'
<1>1. /\ TypeInv /\ external' = external /\ crashes' = crashes /\ reconcile_instant_swap(p, o)
      /\ past' = [past EXCEPT ![o].overlap = past[o].overlap \/ Requested(o)]
      /\ Requested(o) \in BOOLEAN
  BY DEF OrdersInv, admin_check_instant_swap, Requested
<1>2. /\ past' \in [Orders -> Pasts] /\ \A x \in Orders : x # o => past'[x] = past[x]
      /\ past'[o].rejected = past[o].rejected /\ past'[o].died = past[o].died
      /\ past[o].overlap => past'[o].overlap
      /\ Requested(o) => past'[o].overlap
  BY <1>1, OverlapIs
<1>3. Placing(o) => Requested(o)
  BY DEF Placing, Requested
<1> QED BY <1>1, <1>2, <1>3, reconcile_instant_swapKeeps

(* The admin's word sends the order where Quidax's answer would have sent  *)
(* it.                                                                     *)
LEMMA admin_resolve_unknown_orderKeeps ==
  ASSUME OrdersInv, NEW p \in WebWorkers, NEW o \in Orders, admin_resolve_unknown_order(p, o)
  PROVE  OrdersInv'
<1> DEFINE a == Resolution(o)
           f == row[o].paid > row[o].refunded
<1>1. TypeInv /\ Fits(o) /\ p \in Procs
  BY DEF OrdersInv, Procs
<1>2. /\ row[o].status = "PROCESSING" /\ row[o].needs_review /\ Known(o)
      /\ Starts(p, Job(a, o, 0, f, "later"))
      /\ row' = [row EXCEPT ![o].needs_review = FALSE]
      /\ past' = [past EXCEPT ![o].overlap = past[o].overlap \/ InHands(o)]
      /\ acct' = acct /\ fills' = fills /\ conversion' = conversion /\ external' = external
      /\ crashes' = crashes
  BY DEF admin_resolve_unknown_order, quidaxVars, Overlaps, _wallet_payment_outstanding
<1>3. /\ a \in {"bought", "refuse", "sold", "release", "converted", "refundngn", "giveback",
                "soldleg", "finishleg"}
      /\ a \in Steps /\ a # "idle"
  BY DEF Resolution, Unconverted, Steps
<1>4. /\ past' \in [Orders -> Pasts] /\ \A x \in Orders : x # o => past'[x] = past[x]
      /\ past'[o].rejected = past[o].rejected /\ past'[o].died = past[o].died
      /\ past[o].overlap => past'[o].overlap
      /\ InHands(o) => past'[o].overlap
  <2>1. InHands(o) \in BOOLEAN
    BY DEF InHands
  <2> QED BY <1>1, <1>2, <2>1, OverlapIs
<1>5. /\ row' \in [Orders -> Rows] /\ \A x \in Orders : x # o => row'[x] = row[x]
      /\ RowIs(o, row[o].status, FALSE, row[o].sold, row[o].quotation, row[o].swap,
               row[o].paid, row[o].refunded)
  BY <1>1, <1>2, ReviewIs DEF OnlyRow, ClaimIs
<1>6. f \in BOOLEAN /\ (f <=> row[o].paid > row[o].refunded) /\ 0 \in 0..MaxQuotations
  BY OrderAssumption DEF MaxQuotations
<1>7. a = Resolution(o)
  OBVIOUS
<1> HIDE DEF a, f
<1>8. Orderly(o) /\ Others(p) /\ Begins(p, a, o, 0, f, "later")
  <2>1. /\ Starts(p, Job(a, o, 0, f, "later")) /\ acct' = acct /\ fills' = fills
        /\ conversion' = conversion /\ external' = external /\ crashes' = crashes
    BY <1>2
  <2>2. row' \in [Orders -> Rows] /\ \A x \in Orders : x # o => row'[x] = row[x]
    BY <1>5
  <2>3. past' \in [Orders -> Pasts] /\ \A x \in Orders : x # o => past'[x] = past[x]
    BY <1>4
  <2>4. f \in BOOLEAN /\ 0 \in 0..MaxQuotations
    BY <1>6
  <2> QED BY <1>1, <1>3, <2>1, <2>2, <2>3, <2>4, StartOrderly
<1>9. row[o].kind # "legacy"
  BY <1>1, <1>2 DEF Fits, Legacy, Closed
<1>10. /\ row'[o].kind = row[o].kind /\ row'[o].status = "PROCESSING"
       /\ row'[o].quotation = row[o].quotation
       /\ row'[o].swap = row[o].swap /\ row'[o].sold = row[o].sold /\ row'[o].needs_review = FALSE
       /\ row'[o].paid = row[o].paid /\ row'[o].refunded = row[o].refunded
       /\ job'[p].at = a /\ job'[p].o = o /\ job'[p].n = 0 /\ job'[p].refund = f
       /\ job'[p].by = "later"
  BY <1>2, <1>5, <1>8 DEF RowIs, Begins
<1>11. /\ Leg(o)' = Leg(o) /\ (Dead(o)' <=> Dead(o)) /\ Current(o)' = Current(o)
       /\ FromWallet(o)' = FromWallet(o)
  BY <1>2, <1>4, <1>10 DEF Leg, Dead, Current, FromWallet
<1>12. ASSUME Steady(o)
       PROVE  /\ row[o].quotation = 0 => Dead(o) /\ (Executed(o) <=> fills[o].last)
              /\ row[o].quotation > 0 => /\ Executed(o) <=> Current(o) = "completed"
                                         /\ ~Executed(o) => Dead(o)
              /\ row[o].kind \notin InstantKinds => row[o].quotation = 0
              /\ row[o].kind \in {"instantbuy", "instantswap"} => row[o].quotation > 0
              /\ row[o].kind = "legswap" => (row[o].quotation > 0 <=> row[o].sold)
              /\ row[o].quotation = 0 /\ ~row[o].sold => Leg(o) = One(fills[o].last)
              /\ row[o].kind = "swap" /\ row[o].sold /\ fills[o].last => fills[o].bought > 0
              /\ row[o].sold => row[o].kind \in TwoLegs /\ Leg(o) = 1
              /\ row[o].kind \notin Buys => ~f
              /\ row[o].quotation \in 0..MaxQuotations
  <2>1. StatusFits(o) /\ QuotationFits(o) /\ FillsFit(o) /\ ReviewFits(o) /\ GotFits(o)
    BY <1>12 DEF Steady, OrderFits
  <2>2. row[o].quotation \in 0..MaxQuotations
    BY <1>1, RowTypes
  <2>3. row[o].quotation = 0 => Dead(o)
    <3>1. \A m \in Quotations : m > 0
      BY OrderAssumption DEF Quotations, MaxQuotations
    <3> QED BY <2>1, <3>1 DEF QuotationFits, Dead, Live
  <2>4. row[o].quotation = 0 => (Executed(o) <=> fills[o].last)
    BY DEF Executed
  <2>5. row[o].quotation > 0 => (Executed(o) <=> Current(o) = "completed")
    BY DEF Executed, Current
  <2>6. row[o].quotation > 0 /\ ~Executed(o) => Dead(o)
    <3>1. row[o].quotation > 0 => Current(o) # "processing"
      BY <1>2 DEF Known, Current
    <3> QED BY <1>1, <2>1, <2>5, <3>1, DeadIfEnded DEF Live
  <2>7. row[o].kind \notin InstantKinds => row[o].quotation = 0
    BY <2>1 DEF QuotationFits
  <2>8. row[o].kind \in {"instantbuy", "instantswap"} => row[o].quotation > 0
    BY <1>2, <2>1 DEF ReviewFits
  <2>9. row[o].kind = "legswap" => (row[o].quotation > 0 <=> row[o].sold)
    BY <1>2, <2>1 DEF ReviewFits, QuotationFits
  <2>10. row[o].quotation = 0 /\ ~row[o].sold => Leg(o) = One(fills[o].last)
    BY <1>2, <2>1 DEF ReviewFits
  <2>11. row[o].kind = "swap" /\ row[o].sold /\ fills[o].last => fills[o].bought > 0
    BY <1>2, <2>1, <2>7 DEF ReviewFits, InstantKinds
  <2>12. row[o].sold => row[o].kind \in TwoLegs /\ Leg(o) = 1
    BY <2>1 DEF FillsFit
  <2>13. row[o].kind \notin Buys => ~f
    BY <1>1, <1>6, <2>1, RowTypes DEF StatusFits
  <2> QED BY <2>2, <2>3, <2>4, <2>5, <2>6, <2>7, <2>8, <2>9, <2>10, <2>11, <2>12, <2>13
<1>13. /\ a = "bought" => row[o].kind = "buy" /\ Executed(o)
       /\ a = "refuse" => row[o].kind \in Buys /\ ~Executed(o)
       /\ a = "sold" => row[o].kind = "sell" /\ Executed(o)
       /\ a = "release" =>
            \/ row[o].kind \in TwoLegs /\ ~row[o].sold /\ ~Executed(o)
            \/ row[o].kind = "sell" /\ ~Executed(o)
       /\ a = "converted" => row[o].kind \in {"instantbuy", "instantswap"} /\ Executed(o)
       /\ a = "giveback" => row[o].kind = "instantswap" /\ ~Executed(o)
       /\ a = "soldleg" => row[o].kind \in TwoLegs /\ ~row[o].sold /\ Executed(o)
       /\ a = "finishleg" => row[o].kind \in TwoLegs /\ row[o].sold /\ Executed(o)
       /\ a = "refundngn" => row[o].kind \in TwoLegs /\ row[o].sold /\ ~Executed(o)
  <2>1. row[o].kind \in {"buy", "sell", "instantbuy", "instantswap", "swap", "legswap"}
    BY <1>1, <1>9, RowTypes DEF Kinds, Buys, TwoLegs
  <2> QED BY <1>7, <2>1 DEF Resolution, Unconverted, Buys, TwoLegs
<1>14. ASSUME Steady(o), Resting(o) PROVE Steady(o)'
  <2>1. StatusFits(o) /\ QuotationFits(o) /\ FillsFit(o) /\ ReviewFits(o) /\ GotFits(o)
    BY <1>14 DEF Steady, OrderFits
  <2>2. OrderFits(o)'
    BY <1>2, <1>10, <1>11, <2>1 DEF OrderFits, StatusFits, QuotationFits, FillsFit, ReviewFits,
       GotFits
  <2>3. a = "release" => row[o].kind \in {"sell"} \cup TwoLegs /\ ~row[o].sold /\ ~Executed(o)
    BY <1>12, <1>13, <1>14 DEF TwoLegs
  <2>4. OnPath(o, job[p])'
    BY <1>3, <1>10, <1>12, <1>13, <1>14, <2>3 DEF OnPath, Buys, TwoLegs, InstantKinds
  <2>5. JobStatusFits(o, job[p])'
    BY <1>3, <1>10 DEF JobStatusFits, Underway
  <2>6. JobIsQuoted(o, job[p])'
    <3>1. a \in {"giveback", "refuse", "refundngn"} => Dead(o)
      BY <1>12, <1>13, <1>14
    <3>2. a \in {"converted", "finishleg"} /\ row[o].kind # "swap" =>
              row[o].quotation > 0 /\ Current(o) = "completed"
      BY <1>12, <1>13, <1>14 DEF TwoLegs
    <3>3. a \in {"soldleg", "release"} => row[o].quotation = 0
      BY <1>12, <1>13, <1>14, <2>3 DEF TwoLegs, InstantKinds, MaxQuotations
    <3>4. a = "refuse" /\ row[o].kind # "instantbuy" => row[o].quotation = 0
      BY <1>12, <1>13, <1>14 DEF Buys, InstantKinds
    <3>5. row[o].kind = "instantswap" => row[o].quotation > 0
      BY <1>12, <1>14
    <3> QED BY <1>3, <1>10, <1>11, <3>1, <3>2, <3>3, <3>4, <3>5 DEF JobIsQuoted
  <2>7. JobIsFilled(o, job[p])'
    <3>1. row[o].kind \in Market /\ ~row[o].sold => row[o].quotation = 0
      BY <1>12, <1>14 DEF Market, InstantKinds
    <3>2. row[o].kind \in Market /\ a \in {"release", "refuse"} => Leg(o) = 0 /\ ~row[o].sold
      BY <1>12, <1>13, <1>14, <2>3, <3>1 DEF One, Market, Buys, TwoLegs
    <3>3. a \in {"sold", "soldleg", "bought"} => Leg(o) = 1 /\ ~row[o].sold
      BY <1>12, <1>13, <1>14, <3>1 DEF One, Market, TwoLegs
    <3>4. row[o].kind \in Market /\ a \in {"converted", "finishleg", "refundngn"} => row[o].sold
      BY <1>13 DEF Market
    <3>5. a = "finishleg" /\ row[o].kind = "swap" => fills[o].bought > 0
      BY <1>12, <1>13, <1>14 DEF InstantKinds
    <3> QED BY <1>2, <1>3, <1>10, <1>11, <3>2, <3>3, <3>4, <3>5 DEF JobIsFilled
  <2> QED BY <1>1, <1>8, <1>14, <2>2, <2>4, <2>5, <2>6, <2>7, BeginSteady DEF JobFits
<1>15. ASSUME Steady(o), Square(o), Resting(o) PROVE Square(o)'
  <2>1. WalletFits(o) /\ HoldFits(o)
    BY <1>15 DEF Square
  <2>2. WalletFits(o)'
    BY <1>2, <1>4, <1>10, <1>11, <2>1 DEF WalletFits
  <2>3. HoldFits(o)'
    BY <1>2, <1>10, <1>12, <1>15, <2>1, HoldKept
  <2>4. JobWalletFits(o, p)'
    <3>1. row[o].kind = "buy" => (f <=> FromWallet(o) = 1)
      <4>1. row[o].kind = "buy" => row[o].paid = row[o].refunded + FromWallet(o)
        BY <1>2, <2>1 DEF WalletFits, Buys
      <4>2. FromWallet(o) \in {0, 1} /\ row[o].paid \in Nat /\ row[o].refunded \in Nat
        BY <1>1, RowTypes DEF FromWallet, One
      <4> QED BY <1>6, <4>1, <4>2
    <3> QED BY <1>3, <1>10, <1>11, <3>1 DEF JobWalletFits
  <2>5. JobHoldFits(o, job[p])'
    <3>1. a \in {"sold", "soldleg", "release"} => acct[o].hold = 1
      BY <1>2, <1>12, <1>13, <1>15, <2>1 DEF HoldFits, One, TwoLegs, InstantKinds, MaxQuotations
    <3>2. a \in {"finishleg", "refundngn"} => acct[o].hold = 0
      BY <1>2, <1>12, <1>13, <1>15, <2>1 DEF HoldFits, One, TwoLegs, InstantKinds
    <3>3. a = "giveback" => acct[o].hold = 1
      BY <1>2, <1>12, <1>13, <1>15, <2>1 DEF HoldFits
    <3>4. row[o].kind \notin Buys => a # "refuse"
      BY <1>13
    <3>5. ~Closed(o)'
      BY <1>10 DEF Closed
    <3> QED BY <1>2, <1>3, <1>10, <3>1, <3>2, <3>3, <3>4, <3>5 DEF JobHoldFits, One
  <2> QED BY <1>1, <1>8, <1>15, <2>2, <2>3, <2>4, <2>5, BeginSquare
<1>16. Fits(o)'
  <2>1. ~past'[o].overlap => Resting(o)
    BY <1>4, InHandsIs
  <2> QED BY <1>1, <1>4, <1>9, <1>10, <1>14, <1>15, <2>1, FitsIf
<1> QED BY <1>8, <1>16, OrderlyFits

(***************************************************************************)
(* Every reachable state.                                                  *)
(***************************************************************************)
(* What a new order row holds. *)
LEMMA NewRowIs ==
  ASSUME NEW k \in Kinds
  PROVE  /\ NewRow(k) \in Rows /\ NewRow(k).kind = k
         /\ NewRow(k).status = (IF k = "legacy" THEN "FAILED" ELSE "none")
         /\ ~NewRow(k).needs_review /\ (NewRow(k).sold <=> k = "legacy")
         /\ NewRow(k).quotation = 0 /\ NewRow(k).swap = 0
         /\ NewRow(k).paid = 0 /\ NewRow(k).refunded = 0
         /\ ~NewRow(k).claimed /\ ~NewRow(k).compensated
<1> DEFINE s == IF k = "legacy" THEN "FAILED" ELSE "none"
           d == k = "legacy"
<1>1. s \in Statuses /\ d \in BOOLEAN /\ 0 \in 0..MaxQuotations
  BY OrderAssumption DEF Statuses, MaxQuotations
<1>2. NewRow(k) = [kind |-> k, status |-> s, needs_review |-> FALSE, sold |-> d, quotation |-> 0,
                   swap |-> 0, paid |-> 0, refunded |-> 0, claimed |-> FALSE,
                   compensated |-> FALSE]
  BY DEF NewRow
<1>3. s = (IF k = "legacy" THEN "FAILED" ELSE "none") /\ (d <=> k = "legacy")
  OBVIOUS
<1> HIDE DEF s, d
<1>4. NewRow(k) \in Rows
  BY <1>1, <1>2 DEF Rows
<1> QED BY <1>2, <1>3, <1>4

(* Every order starts as the invariant asks. *)
LEMMA InitFits == ASSUME BookInit PROVE OrdersInv
<1>1. /\ row \in [Orders -> {NewRow(k) : k \in Kinds}]
      /\ acct = [o \in Orders |-> [taken |-> 0, hold |-> 0, got |-> 0]]
      /\ fills = [o \in Orders |->
                  [sold |-> IF row[o].kind = "legacy" THEN 1 ELSE 0, bought |-> 0,
                      last |-> FALSE]]
      /\ conversion = [o \in Orders |-> [n \in Quotations |-> "unsent"]]
      /\ external = [o \in Orders |-> FALSE]
      /\ past = [o \in Orders |->
                 [retries |-> 0, rejected |-> FALSE, overlap |-> FALSE, died |-> FALSE]]
      /\ job = [p \in Procs |-> Idle]
      /\ crashes = 0
  BY DEF BookInit
<1>2. \A o \in Orders : row[o] \in Rows
  <2>1. ASSUME NEW o \in Orders PROVE row[o] \in Rows
    <3>1. PICK k \in Kinds : row[o] = NewRow(k)
      BY <1>1
    <3> QED BY <3>1, NewRowIs
  <2> QED BY <2>1
<1>3. TypeInv
  <2>1. row \in [Orders -> Rows]
    BY <1>1, <1>2
  <2>2. acct \in [Orders -> Accounts]
    BY <1>1 DEF Accounts
  <2>3. fills \in [Orders -> [sold : Nat, bought : Nat, last : BOOLEAN]]
    BY <1>1
  <2>4. conversion \in [Orders -> [Quotations ->
          {"unsent", "processing", "completed", "failed", "refused", "lost"}]]
    BY <1>1
  <2>5. external \in [Orders -> BOOLEAN]
    BY <1>1
  <2>6. past \in [Orders ->
          [retries : 0..(MaxRetries + 1), rejected : BOOLEAN, overlap : BOOLEAN, died : BOOLEAN]]
    BY <1>1, OrderAssumption
  <2>7. job \in [Procs -> Jobs] /\ JobsAreOnOrders
    BY <1>1, IdleIs DEF JobsAreOnOrders
  <2>8. crashes \in 0..MaxCrashes
    BY <1>1, OrderAssumption
  <2> QED BY <2>1, <2>2, <2>3, <2>4, <2>5, <2>6, <2>7, <2>8 DEF TypeInv, BookTypeOK
<1>4. ASSUME NEW o \in Orders PROVE Fits(o)
  <2>1. PICK k \in Kinds : row[o] = NewRow(k)
    BY <1>1
  <2>2. /\ row[o].kind = k /\ row[o].status = (IF k = "legacy" THEN "FAILED" ELSE "none")
        /\ ~row[o].needs_review /\ (row[o].sold <=> k = "legacy")
        /\ row[o].quotation = 0 /\ row[o].swap = 0 /\ row[o].paid = 0 /\ row[o].refunded = 0
        /\ ~row[o].claimed /\ ~row[o].compensated
    BY <2>1, NewRowIs
  <2>3. /\ acct[o].taken = 0 /\ acct[o].hold = 0 /\ acct[o].got = 0
        /\ fills[o].bought = 0 /\ fills[o].last = FALSE
        /\ fills[o].sold = IF k = "legacy" THEN 1 ELSE 0
        /\ \A n \in Quotations : conversion[o][n] = "unsent"
        /\ ~external[o] /\ ~past[o].rejected
    BY <1>1, <2>2
  <2>4. Resting(o) /\ \A p \in Procs : ~On(p, o)
    <3>1. \A p \in Procs : job[p].o \notin Orders
      BY <1>1, IdleIsElsewhere
    <3> QED BY <3>1 DEF Resting, On
  <2>5. CASE k = "legacy"
    <3>1. Legacy(o)
      BY <2>2, <2>3, <2>4, <2>5 DEF Legacy, Closed, One
    <3> QED BY <2>2, <2>5, <3>1 DEF Fits
  <2>6. CASE k # "legacy"
    <3>1. Dead(o)
      BY <2>3 DEF Dead, Live
    <3>2. OrderFits(o)
      <4>1. StatusFits(o)
        BY <2>2, <2>4, <2>6 DEF StatusFits, Buys, TwoLegs, Underway
      <4>2. QuotationFits(o)
        BY <2>2, <2>3, <2>6, <3>1 DEF QuotationFits, Quotations, Live
      <4>3. FillsFit(o) /\ GotFits(o) /\ ReviewFits(o)
        BY <2>2, <2>3, <2>6 DEF FillsFit, GotFits, ReviewFits, Leg, One
      <4> QED BY <4>1, <4>2, <4>3 DEF OrderFits
    <3>3. Steady(o)
      BY <2>4, <3>2 DEF Steady, Apart
    <3>4. Square(o)
      BY <2>2, <2>3, <2>4, <2>6 DEF Square, WalletFits, HoldFits, Closed
    <3> QED BY <2>2, <2>6, <3>3, <3>4 DEF Fits
  <2> QED BY <2>5, <2>6
<1> QED BY <1>3, <1>4 DEF OrdersInv

(* A process that takes a step is at work on an order. *)
LEMMA WorksOn ==
  ASSUME TypeInv, NEW p \in Procs, Works(p)
  PROVE  \E o \in Orders : o = job[p].o
<1>1. job[p].at # "idle"
  <2>1. BookStep(p) => job[p].at # "idle"
    BY DEF BookStep, _fail_order, LogRefund, ClearReview, _flag_for_review, IsAt
  <2>2. BuyStep(p) => job[p].at # "idle"
    BY DEF BuyStep, PayFromWallet, MarkPaid, Redebit, Restart, _execute_quidax_buy,
       _complete_buy, IsAt
  <2>3. SellStep(p) => job[p].at # "idle"
    BY DEF SellStep, ReserveSource, WaitForDeposit, ReserveAgain, _start_processing,
       _execute_quidax_sell, ReleaseSource, complete_sell, IsAt
  <2>4. SwapStep(p) => job[p].at # "idle"
    BY DEF SwapStep, _execute_quidax_swap, _execute_swap_buy_leg, SpendSource, _complete_swap,
       _refund_failed_swap_as_ngn, BuyBack, BuyBackRaised, LogCompensated, IsAt
  <2>5. InstantStep(p) => job[p].at # "idle"
    BY DEF InstantStep, _execute_instant_swap, _execute_instant_buy,
       _execute_swap_buy_leg_instant, _finalize_instant_swap, _finalize_instant_buy,
       _finalize_swap_buy_leg, confirm_swap_quotation, StoreSwapId, _await_swap,
       _release_instant_swap, Unusable, IsAt
  <2> QED BY <2>1, <2>2, <2>3, <2>4, <2>5 DEF Works
<1>2. job[p] # Idle
  BY <1>1, AtWork
<1> QED BY <1>2, JobTypes

(* Every request keeps the invariant. *)
LEMMA RequestsKeep ==
  ASSUME OrdersInv, NEW p \in WebWorkers, NEW o \in Orders, Requests(p, o)
  PROVE  OrdersInv'
<1>1. p \in Procs
  BY DEF Procs
<1>2. CASE _create_order_from_quote(p, o)
  BY <1>2, create_order_from_quoteKeeps
<1>3. CASE verify_buy_payment(p, o) \/ admin_approve_buy(p, o)
  BY <1>3, PaymentConfirmedKeeps DEF verify_buy_payment, admin_approve_buy
<1>4. CASE admin_retry_buy(p, o)
  BY <1>4, admin_retry_buyKeeps
<1>5. CASE _retry_sell_order(p, o)
  BY <1>5, retry_sell_orderKeeps
<1>6. CASE admin_check_instant_swap(p, o)
  BY <1>1, <1>6, admin_check_instant_swapKeeps
<1>7. CASE admin_resolve_failed_swap(p, o)
  BY <1>7, admin_resolve_failed_swapKeeps
<1>8. CASE admin_resolve_unknown_order(p, o)
  BY <1>8, admin_resolve_unknown_orderKeeps
<1> QED BY <1>2, <1>3, <1>4, <1>5, <1>6, <1>7, <1>8 DEF Requests

(* Every step of the system does. *)
LEMMA NextKeeps == ASSUME OrdersInv, [Next]_orderVars PROVE OrdersInv'
<1>1. ASSUME NEW p \in Procs, Works(p) PROVE OrdersInv'
  <2>1. PICK o \in Orders : o = job[p].o
    BY <1>1, WorksOn DEF OrdersInv
  <2> QED
    BY <1>1, <2>1, BookStepKeeps, BuyStepKeeps, SellStepKeeps, SwapStepKeeps, InstantStepKeeps DEF
       Works
<1>2. ASSUME NEW p \in Procs, Crash(p) PROVE OrdersInv'
  BY <1>2, CrashKeeps
<1>3. ASSUME NEW p \in WebWorkers, NEW o \in Orders,
             Requests(p, o) \/ \E n \in Quotations : handle_swap_webhook(p, o, n)
      PROVE  OrdersInv'
  <2>1. p \in Procs
    BY DEF Procs
  <2> QED BY <1>3, <2>1, RequestsKeep, handle_swap_webhookKeeps
<1>4. ASSUME NEW o \in Orders,
             \/ reconcile_due_instant_swaps(o) \/ admin_reject_order(o) \/ PayOutside(o)
             \/ \E n \in Quotations : QuidaxConverts(o, n)
      PROVE  OrdersInv'
  BY <1>4, reconcile_due_instant_swapsKeeps, admin_reject_orderKeeps, PayOutsideKeeps,
     QuidaxConvertsKeeps
<1>5. ASSUME UNCHANGED orderVars PROVE OrdersInv'
  <2>1. \A x \in Orders : Untouched(x)
    BY <1>5 DEF orderVars, quidaxVars, outsideVars, Untouched
  <2>2. \A x \in Orders : Fits(x)'
    BY <2>1, UntouchedFits DEF OrdersInv
  <2>3. TypeInv'
    BY <1>5 DEF OrdersInv, TypeInv, BookTypeOK, JobsAreOnOrders, orderVars, quidaxVars,
       outsideVars
  <2> QED BY <2>2, <2>3 DEF OrdersInv
<1> QED BY <1>1, <1>2, <1>3, <1>4, <1>5 DEF Next

(* Every order of every reachable state fits its row, its conversions and  *)
(* fills, its jobs and its accounts.                                       *)
THEOREM OrdersInvariant == Spec => []OrdersInv
BY InitFits, NextKeeps, PTL DEF Spec

(***************************************************************************)
(* What the invariant says of each property.                               *)
(***************************************************************************)
(* An order whose requests did not overlap. *)
LEMMA FitsSteady ==
  ASSUME OrdersInv, NEW o \in Orders, ~past[o].overlap, row[o].kind # "legacy"
  PROVE  Steady(o) /\ (~past[o].died => Square(o))
BY DEF OrdersInv, Fits

(* The fills or conversions that a settled order had. *)
LEMMA DealsAre ==
  ASSUME TypeInv, NEW o \in Orders, Steady(o), row[o].kind # "legacy"
  PROVE  /\ Deals(o) \in Nat
         /\ acct[o].got = 1 => Deals(o) = 1
         /\ row[o].status = "FAILED" /\ ~row[o].sold => Deals(o) = 0
<1>1. OrderFits(o) /\ row[o].kind \in Kinds /\ fills[o].bought \in Nat /\ fills[o].sold \in Nat
  BY RowTypes, BookTypes DEF Steady
<1>2. acct[o].got = 1 => row[o].status = "COMPLETED" \/ (row[o].status = "FAILED" /\ row[o].sold)
  BY <1>1 DEF OrderFits, GotFits, One
<1>3. CASE row[o].kind \in Market
  <2>1. Deals(o) = Leg(o) /\ Deals(o) \in Nat
    BY <1>1, <1>3 DEF Deals, Leg, Market
  <2>2. row[o].status = "FAILED" /\ ~row[o].sold => Leg(o) = 0
    BY <1>1, <1>3 DEF OrderFits, FillsFit
  <2>3. row[o].status = "COMPLETED" \/ row[o].sold => Leg(o) = 1
    BY <1>1, <1>3 DEF OrderFits, FillsFit
  <2> QED BY <1>2, <2>1, <2>2, <2>3
<1>4. CASE row[o].kind \in {"instantbuy", "instantswap"}
  <2> DEFINE Done == {n \in Quotations : conversion[o][n] = "completed"}
  <2>1. Deals(o) = Cardinality(Done)
    BY <1>4 DEF Deals
  <2>2. ASSUME Dead(o) PROVE Deals(o) = 0
    <3>1. Done = {}
      BY <2>2 DEF Dead, Live
    <3> HIDE DEF Done
    <3> QED BY <2>1, <3>1, FS_EmptySet
  <2>3. ASSUME row[o].status = "COMPLETED" PROVE Deals(o) = 1
    <3>1. /\ row[o].quotation > 0 /\ Current(o) = "completed" /\ row[o].quotation \in Quotations
          /\ \A n \in Quotations : n < row[o].quotation => conversion[o][n] # "completed"
          /\ \A n \in Quotations : n > row[o].quotation => conversion[o][n] # "completed"
      BY <1>1, <1>4, <2>3, RowTypes, OrderAssumption DEF OrderFits, QuotationFits, InstantKinds,
         Live, Quotations, MaxQuotations
    <3>2. Done = {row[o].quotation}
      BY <3>1, OrderAssumption DEF Current, Quotations, MaxQuotations
    <3> HIDE DEF Done
    <3> QED BY <2>1, <3>2, FS_Singleton
  <2>4. Deals(o) \in Nat
    <3>1. IsFiniteSet(Quotations)
      BY FS_Interval, OrderAssumption DEF Quotations, MaxQuotations
    <3>2. IsFiniteSet(Done)
      BY <3>1, FS_Subset
    <3> HIDE DEF Done
    <3> QED BY <2>1, <3>2, FS_CardinalityType
  <2>5. ~row[o].sold
    BY <1>1, <1>4 DEF OrderFits, FillsFit, TwoLegs
  <2>6. row[o].status = "FAILED" => Dead(o)
    BY <1>1 DEF OrderFits, QuotationFits
  <2> QED BY <1>2, <2>2, <2>3, <2>4, <2>5, <2>6
<1> QED BY <1>1, <1>3, <1>4 DEF Kinds, Buys, TwoLegs, Market

(* Proceeds are credited once. *)
LEMMA GotOnce ==
  ASSUME OrdersInv, NEW o \in Orders, ~past[o].overlap
  PROVE  acct[o].got \in {0, 1}
<1>1. CASE row[o].kind = "legacy"
  BY <1>1 DEF OrdersInv, Fits, Legacy, One
<1>2. CASE row[o].kind # "legacy"
  BY <1>2, FitsSteady DEF Steady, OrderFits, GotFits, One
<1> QED BY <1>1, <1>2

(* The credit of the proceeds goes with one change of the row. *)
LEMMA OnceHolds == ASSUME OrdersInv PROVE ProceedsOnce
BY GotOnce DEF ProceedsOnce

(* A credit has its fill or its conversion. *)
LEMMA BackedHolds == ASSUME OrdersInv PROVE CreditsAreBacked
<1>1. ASSUME NEW o \in Orders, ~past[o].overlap
      PROVE  /\ acct[o].got <= Deals(o)
             /\ row[o].kind \in TwoLegs /\ row[o].status = "COMPLETED" =>
                  fills[o].bought > 0 \/ \E n \in Quotations : conversion[o][n] = "completed"
  <2>1. acct[o].got \in {0, 1}
    BY <1>1, GotOnce
  <2>2. CASE row[o].kind = "legacy"
    <3>1. Deals(o) = fills[o].sold /\ fills[o].sold > 0 /\ fills[o].sold \in Nat
      BY <2>2, BookTypes DEF OrdersInv, Fits, Legacy, Deals
    <3> QED BY <2>1, <2>2, <3>1 DEF TwoLegs
  <2>3. CASE row[o].kind # "legacy"
    <3>1. Steady(o) /\ TypeInv
      BY <1>1, <2>3, FitsSteady DEF OrdersInv
    <3>2. acct[o].got <= Deals(o)
      BY <2>1, <2>3, <3>1, DealsAre
    <3>3. OrderFits(o) /\ row[o].quotation \in 0..MaxQuotations
      BY <3>1, RowTypes DEF Steady
    <3>4. row[o].kind = "swap" /\ row[o].status = "COMPLETED" => fills[o].bought > 0
      BY <3>3 DEF OrderFits, FillsFit
    <3>5. ASSUME row[o].kind = "legswap", row[o].status = "COMPLETED"
          PROVE  \E n \in Quotations : conversion[o][n] = "completed"
      <4>1. row[o].quotation > 0 /\ Current(o) = "completed"
        BY <3>3, <3>5 DEF OrderFits, QuotationFits, InstantKinds
      <4>2. row[o].quotation \in Quotations
        BY <3>3, <4>1, OrderAssumption DEF Quotations, MaxQuotations
      <4> QED BY <4>1, <4>2 DEF Current
    <3> QED BY <3>2, <3>4, <3>5 DEF TwoLegs
  <2> QED BY <2>2, <2>3
<1> QED BY <1>1 DEF CreditsAreBacked

(* A failed instant order has no live quotation. *)
LEMMA FailedHolds == ASSUME OrdersInv PROVE FailedIsNotConverted
<1>1. ASSUME NEW o \in Orders, row[o].kind \in InstantKinds, row[o].status = "FAILED",
             ~past[o].overlap
      PROVE  Dead(o)
  <2>1. OrderFits(o)
    BY <1>1, FitsSteady DEF Steady, InstantKinds
  <2> QED BY <1>1, <2>1 DEF OrderFits, QuotationFits
<1> QED BY <1>1 DEF FailedIsNotConverted, Dead, Live

(* A closed order at rest is square. *)
LEMMA SquareHolds == ASSUME OrdersInv PROVE ClosedIsSquare
<1>1. ASSUME NEW o \in Orders, Closed(o), Resting(o), ~past[o].died, ~past[o].overlap
      PROVE  /\ acct[o].hold = 0
             /\ row[o].kind # "legacy" =>
                  acct[o].got = IF row[o].status = "COMPLETED" \/ row[o].sold THEN 1 ELSE 0
             /\ row[o].kind \in Buys =>
                  acct[o].taken = IF row[o].status = "FAILED" \/ external[o] \/ past[o].rejected
                                  THEN 0 ELSE 1
             /\ row[o].kind # "legacy" => Deals(o) = acct[o].got
  <2>1. CASE row[o].kind = "legacy"
    BY <2>1 DEF OrdersInv, Fits, Legacy, Buys
  <2>2. CASE row[o].kind # "legacy"
    <3>1. Steady(o) /\ Square(o) /\ TypeInv
      BY <1>1, <2>2, FitsSteady DEF OrdersInv
    <3>2. GotFits(o) /\ WalletFits(o) /\ HoldFits(o)
      BY <3>1 DEF Steady, Square, OrderFits
    <3>3. acct[o].hold = 0
      BY <1>1, <3>2 DEF HoldFits
    <3>4. acct[o].got = IF row[o].status = "COMPLETED" \/ row[o].sold THEN 1 ELSE 0
      BY <1>1, <3>2 DEF GotFits, Closed, One
    <3>5. \A p \in Procs : ~On(p, o)
      BY <1>1 DEF Resting, On
    <3>6. row[o].kind \in Buys =>
            acct[o].taken = IF row[o].status = "FAILED" \/ external[o]
                \/ past[o].rejected THEN 0 ELSE 1
      BY <1>1, <3>2, <3>5 DEF WalletFits, FromWallet, Closed, One
    <3>7. Deals(o) = acct[o].got
      BY <1>1, <2>2, <3>1, <3>4, DealsAre DEF Closed
    <3> QED BY <3>3, <3>4, <3>6, <3>7
  <2> QED BY <2>1, <2>2
<1> QED BY <1>1 DEF ClosedIsSquare, Smooth

(* The variables have their types. *)
THEOREM TypeCorrect == Spec => []BookTypeOK
<1>1. OrdersInv => BookTypeOK
  BY DEF OrdersInv, TypeInv
<1> QED BY <1>1, OrdersInvariant, PTL

(* Without an overlap of requests, the proceeds of an order are credited   *)
(* at most once (_finalize_instant_swap, complete_sell, _complete_buy,     *)
(* _refund_failed_swap_as_ngn).                                            *)
THEOREM ProceedsAreOnce == Spec => []ProceedsOnce
BY OnceHolds, OrdersInvariant, PTL

(* Without an overlap, Quidax filled or converted at least as often as     *)
(* proceeds were credited.                                                 *)
THEOREM CreditsHaveDeals == Spec => []CreditsAreBacked
BY BackedHolds, OrdersInvariant, PTL

(* Without an overlap, an instant order that is FAILED is not converted by *)
(* Quidax: neither crashes nor lost answers bring a conversion to light    *)
(* after the coins were given back.                                        *)
THEOREM FailedStaysUnconverted == Spec => []FailedIsNotConverted
BY FailedHolds, OrdersInvariant, PTL

(* Without an overlap or a killed request, a closed order holds no         *)
(* reservation, and its credits and payments are those of its status.      *)
THEOREM ClosedBooksBalance == Spec => []ClosedIsSquare
BY SquareHolds, OrdersInvariant, PTL

(***************************************************************************)
(* What a step may do to a reservation, and to a completed order.          *)
(***************************************************************************)
LetsGo(p, o) ==
    /\ acct'[o].hold = acct[o].hold - 1
    /\ \/ job[p].at \in {"release", "sold", "bookleg", "spend-quote", "spend-flag",
              "spend-refund"}
       \/ job[p].at = "giveback" /\ ~Closed(o)
       \/ job[p].at = "converted" /\ row[o].kind = "instantswap" /\ ~Closed(o)
Holds(p, o) ==
    acct'[o].hold = acct[o].hold \/ acct'[o].hold = acct[o].hold + 1 \/ LetsGo(p, o)
KeepsCompleted(p, o) ==
    row[o].status = "COMPLETED" =>
        \/ row'[o].status = "COMPLETED"
        \/ job[p].at \in {"paid", "restart", "wait", "start"}
        \/ job[p].at = "buy" /\ row[o].kind = "instantbuy"
Writes(p, o) ==
    /\ Elsewhere(o) /\ past' = past
    /\ Holds(p, o)
    /\ KeepsCompleted(p, o)

(* The steps that end an order without a fill. *)
LEMMA BookStepWrites ==
  ASSUME TypeInv, NEW p \in Procs, BookStep(p), NEW o \in Orders, o = job[p].o
  PROVE  Writes(p, o)
<1>1. acct[o].hold \in Int
  BY BookTypes
<1>2. CASE _fail_order(p)
  <2>1. Elsewhere(o) /\ past' = past
    BY <1>2, fail_orderDoes DEF Tidy, fail_orderWrites
  <2>2. Holds(p, o)
    BY <1>1, <1>2, fail_orderDoes DEF AcctIs, Holds, LetsGo, fail_orderWrites
  <2>3. KeepsCompleted(p, o)
    BY <1>2, fail_orderDoes DEF KeepsCompleted, RowIs, Closed, fail_orderWrites
  <2> QED BY <2>1, <2>2, <2>3 DEF Writes
<1>3. CASE LogRefund(p)
  <2>1. Elsewhere(o) /\ past' = past
    BY <1>3, LogRefundDoes DEF Tidy, LogRefundWrites
  <2>2. Holds(p, o)
    BY <1>1, <1>3, LogRefundDoes DEF AcctIs, Holds, LetsGo, LogRefundWrites
  <2>3. KeepsCompleted(p, o)
    BY <1>3, LogRefundDoes DEF KeepsCompleted, RowIs, Closed, LogRefundWrites
  <2> QED BY <2>1, <2>2, <2>3 DEF Writes
<1>4. CASE ClearReview(p)
  <2>1. Elsewhere(o) /\ past' = past
    BY <1>4, ClearReviewDoes DEF Tidy, ClearReviewWrites
  <2>2. Holds(p, o)
    BY <1>1, <1>4, ClearReviewDoes DEF AcctIs, Holds, LetsGo, ClearReviewWrites
  <2>3. KeepsCompleted(p, o)
    BY <1>4, ClearReviewDoes DEF KeepsCompleted, RowIs, Closed, ClearReviewWrites
  <2> QED BY <2>1, <2>2, <2>3 DEF Writes
<1>5. CASE _flag_for_review(p)
  <2>1. Elsewhere(o) /\ past' = past
    BY <1>5, flag_for_reviewDoes DEF Tidy, flag_for_reviewWrites
  <2>2. Holds(p, o)
    BY <1>1, <1>5, flag_for_reviewDoes DEF AcctIs, Holds, LetsGo, flag_for_reviewWrites
  <2>3. KeepsCompleted(p, o)
    BY <1>5, flag_for_reviewDoes DEF KeepsCompleted, RowIs, Closed, flag_for_reviewWrites
  <2> QED BY <2>1, <2>2, <2>3 DEF Writes
<1> QED BY <1>2, <1>3, <1>4, <1>5 DEF BookStep

(* The steps of a buy. *)
LEMMA BuyStepWrites ==
  ASSUME TypeInv, NEW p \in Procs, BuyStep(p), NEW o \in Orders, o = job[p].o
  PROVE  Writes(p, o)
<1>1. acct[o].hold \in Int
  BY BookTypes
<1>2. CASE PayFromWallet(p)
  <2>1. Elsewhere(o) /\ past' = past
    BY <1>2, PayFromWalletDoes DEF Tidy, PayFromWalletWrites
  <2>2. Holds(p, o)
    BY <1>1, <1>2, PayFromWalletDoes DEF AcctIs, Holds, LetsGo, PayFromWalletWrites
  <2>3. KeepsCompleted(p, o)
    BY <1>2, PayFromWalletDoes DEF KeepsCompleted, RowIs, Closed, PayFromWalletWrites
  <2> QED BY <2>1, <2>2, <2>3 DEF Writes
<1>3. CASE MarkPaid(p)
  <2>1. Elsewhere(o) /\ past' = past
    BY <1>3, MarkPaidDoes DEF Tidy, MarkPaidWrites
  <2>2. Holds(p, o)
    BY <1>1, <1>3, MarkPaidDoes DEF AcctIs, Holds, LetsGo, MarkPaidWrites
  <2>3. KeepsCompleted(p, o)
    BY <1>3, MarkPaidDoes DEF KeepsCompleted, RowIs, Closed, MarkPaidWrites
  <2> QED BY <2>1, <2>2, <2>3 DEF Writes
<1>4. CASE Redebit(p)
  <2>1. Elsewhere(o) /\ past' = past
    BY <1>4, RedebitDoes DEF Tidy, RedebitWrites
  <2>2. Holds(p, o)
    BY <1>1, <1>4, RedebitDoes DEF AcctIs, Holds, LetsGo, RedebitWrites
  <2>3. KeepsCompleted(p, o)
    BY <1>4, RedebitDoes DEF KeepsCompleted, RowIs, Closed, RedebitWrites
  <2> QED BY <2>1, <2>2, <2>3 DEF Writes
<1>5. CASE Restart(p)
  <2>1. Elsewhere(o) /\ past' = past
    BY <1>5, RestartDoes DEF Tidy, RestartWrites
  <2>2. Holds(p, o)
    BY <1>1, <1>5, RestartDoes DEF AcctIs, Holds, LetsGo, RestartWrites
  <2>3. KeepsCompleted(p, o)
    BY <1>5, RestartDoes DEF KeepsCompleted, RowIs, Closed, RestartWrites
  <2> QED BY <2>1, <2>2, <2>3 DEF Writes
<1>6. CASE _execute_quidax_buy(p)
  <2>1. Elsewhere(o) /\ past' = past
    BY <1>6, execute_quidax_buyDoes DEF Tidy, execute_quidax_buyWrites
  <2>2. Holds(p, o)
    BY <1>1, <1>6, execute_quidax_buyDoes DEF AcctIs, Holds, LetsGo, execute_quidax_buyWrites
  <2>3. KeepsCompleted(p, o)
    BY <1>6, execute_quidax_buyDoes DEF KeepsCompleted, RowIs, Closed, execute_quidax_buyWrites
  <2> QED BY <2>1, <2>2, <2>3 DEF Writes
<1>7. CASE _complete_buy(p)
  <2>1. Elsewhere(o) /\ past' = past
    BY <1>7, complete_buyDoes DEF Tidy, complete_buyWrites
  <2>2. Holds(p, o)
    BY <1>1, <1>7, complete_buyDoes DEF AcctIs, Holds, LetsGo, complete_buyWrites
  <2>3. KeepsCompleted(p, o)
    BY <1>7, complete_buyDoes DEF KeepsCompleted, RowIs, Closed, complete_buyWrites
  <2> QED BY <2>1, <2>2, <2>3 DEF Writes
<1> QED BY <1>2, <1>3, <1>4, <1>5, <1>6, <1>7 DEF BuyStep

(* The steps of a sell, and of the first leg of a swap. *)
LEMMA SellStepWrites ==
  ASSUME TypeInv, NEW p \in Procs, SellStep(p), NEW o \in Orders, o = job[p].o
  PROVE  Writes(p, o)
<1>1. acct[o].hold \in Int
  BY BookTypes
<1>2. CASE ReserveSource(p)
  <2>1. Elsewhere(o) /\ past' = past
    BY <1>2, ReserveSourceDoes DEF Tidy, ReserveSourceWrites
  <2>2. Holds(p, o)
    BY <1>1, <1>2, ReserveSourceDoes DEF AcctIs, Holds, LetsGo, ReserveSourceWrites
  <2>3. KeepsCompleted(p, o)
    BY <1>2, ReserveSourceDoes DEF KeepsCompleted, RowIs, Closed, ReserveSourceWrites
  <2> QED BY <2>1, <2>2, <2>3 DEF Writes
<1>3. CASE WaitForDeposit(p)
  <2>1. Elsewhere(o) /\ past' = past
    BY <1>3, WaitForDepositDoes DEF Tidy, WaitForDepositWrites
  <2>2. Holds(p, o)
    BY <1>1, <1>3, WaitForDepositDoes DEF AcctIs, Holds, LetsGo, WaitForDepositWrites
  <2>3. KeepsCompleted(p, o)
    BY <1>3, WaitForDepositDoes DEF KeepsCompleted, RowIs, Closed, WaitForDepositWrites
  <2> QED BY <2>1, <2>2, <2>3 DEF Writes
<1>4. CASE ReserveAgain(p)
  <2>1. Elsewhere(o) /\ past' = past
    BY <1>4, ReserveAgainDoes DEF Tidy, ReserveAgainWrites
  <2>2. Holds(p, o)
    BY <1>1, <1>4, ReserveAgainDoes DEF AcctIs, Holds, LetsGo, ReserveAgainWrites
  <2>3. KeepsCompleted(p, o)
    BY <1>4, ReserveAgainDoes DEF KeepsCompleted, RowIs, Closed, ReserveAgainWrites
  <2> QED BY <2>1, <2>2, <2>3 DEF Writes
<1>5. CASE _start_processing(p)
  <2>1. Elsewhere(o) /\ past' = past
    BY <1>5, start_processingDoes DEF Tidy, start_processingWrites
  <2>2. Holds(p, o)
    BY <1>1, <1>5, start_processingDoes DEF AcctIs, Holds, LetsGo, start_processingWrites
  <2>3. KeepsCompleted(p, o)
    BY <1>5, start_processingDoes DEF KeepsCompleted, RowIs, Closed, start_processingWrites
  <2> QED BY <2>1, <2>2, <2>3 DEF Writes
<1>6. CASE _execute_quidax_sell(p)
  <2>1. Elsewhere(o) /\ past' = past
    BY <1>6, execute_quidax_sellDoes DEF Tidy, execute_quidax_sellWrites
  <2>2. Holds(p, o)
    BY <1>1, <1>6, execute_quidax_sellDoes DEF AcctIs, Holds, LetsGo, execute_quidax_sellWrites
  <2>3. KeepsCompleted(p, o)
    BY <1>6, execute_quidax_sellDoes DEF KeepsCompleted, RowIs, Closed, execute_quidax_sellWrites
  <2> QED BY <2>1, <2>2, <2>3 DEF Writes
<1>7. CASE ReleaseSource(p)
  <2>1. Elsewhere(o) /\ past' = past
    BY <1>7, ReleaseSourceDoes DEF Tidy, ReleaseSourceWrites
  <2>2. Holds(p, o)
    BY <1>1, <1>7, ReleaseSourceDoes DEF AcctIs, Holds, LetsGo, ReleaseSourceWrites
  <2>3. KeepsCompleted(p, o)
    BY <1>7, ReleaseSourceDoes DEF KeepsCompleted, RowIs, Closed, ReleaseSourceWrites
  <2> QED BY <2>1, <2>2, <2>3 DEF Writes
<1>8. CASE complete_sell(p)
  <2>1. Elsewhere(o) /\ past' = past
    BY <1>8, complete_sellDoes DEF Tidy, complete_sellWrites
  <2>2. Holds(p, o)
    BY <1>1, <1>8, complete_sellDoes DEF AcctIs, Holds, LetsGo, complete_sellWrites
  <2>3. KeepsCompleted(p, o)
    BY <1>8, complete_sellDoes DEF KeepsCompleted, RowIs, Closed, complete_sellWrites
  <2> QED BY <2>1, <2>2, <2>3 DEF Writes
<1> QED BY <1>2, <1>3, <1>4, <1>5, <1>6, <1>7, <1>8 DEF SellStep

(* The steps of the second leg. *)
LEMMA SwapStepWrites ==
  ASSUME TypeInv, NEW p \in Procs, SwapStep(p), NEW o \in Orders, o = job[p].o
  PROVE  Writes(p, o)
<1>1. acct[o].hold \in Int
  BY BookTypes
<1>2. CASE _execute_quidax_swap(p)
  <2>1. Elsewhere(o) /\ past' = past
    BY <1>2, execute_quidax_swapDoes DEF Tidy, execute_quidax_swapWrites
  <2>2. Holds(p, o)
    BY <1>1, <1>2, execute_quidax_swapDoes DEF AcctIs, Holds, LetsGo, execute_quidax_swapWrites
  <2>3. KeepsCompleted(p, o)
    BY <1>2, execute_quidax_swapDoes DEF KeepsCompleted, RowIs, Closed, execute_quidax_swapWrites
  <2> QED BY <2>1, <2>2, <2>3 DEF Writes
<1>3. CASE _execute_swap_buy_leg(p)
  <2>1. Elsewhere(o) /\ past' = past
    BY <1>3, execute_swap_buy_legDoes DEF Tidy, execute_swap_buy_legWrites
  <2>2. Holds(p, o)
    BY <1>1, <1>3, execute_swap_buy_legDoes DEF AcctIs, Holds, LetsGo, execute_swap_buy_legWrites
  <2>3. KeepsCompleted(p, o)
    BY <1>3, execute_swap_buy_legDoes DEF KeepsCompleted, RowIs, Closed,
       execute_swap_buy_legWrites
  <2> QED BY <2>1, <2>2, <2>3 DEF Writes
<1>4. CASE SpendSource(p)
  <2>1. Elsewhere(o) /\ past' = past
    BY <1>4, SpendSourceDoes DEF Tidy, SpendSourceWrites
  <2>2. Holds(p, o)
    BY <1>1, <1>4, SpendSourceDoes DEF AcctIs, Holds, LetsGo, SpendSourceWrites
  <2>3. KeepsCompleted(p, o)
    BY <1>4, SpendSourceDoes DEF KeepsCompleted, RowIs, Closed, SpendSourceWrites
  <2> QED BY <2>1, <2>2, <2>3 DEF Writes
<1>5. CASE _complete_swap(p)
  <2>1. Elsewhere(o) /\ past' = past
    BY <1>5, complete_swapDoes DEF Tidy, complete_swapWrites
  <2>2. Holds(p, o)
    BY <1>1, <1>5, complete_swapDoes DEF AcctIs, Holds, LetsGo, complete_swapWrites
  <2>3. KeepsCompleted(p, o)
    BY <1>5, complete_swapDoes DEF KeepsCompleted, RowIs, Closed, complete_swapWrites
  <2> QED BY <2>1, <2>2, <2>3 DEF Writes
<1>6. CASE _refund_failed_swap_as_ngn(p)
  <2>1. Elsewhere(o) /\ past' = past
    BY <1>6, refund_failed_swap_as_ngnDoes DEF Tidy, refund_failed_swap_as_ngnWrites
  <2>2. Holds(p, o)
    BY <1>1, <1>6, refund_failed_swap_as_ngnDoes DEF AcctIs, Holds, LetsGo,
       refund_failed_swap_as_ngnWrites
  <2>3. KeepsCompleted(p, o)
    BY <1>6, refund_failed_swap_as_ngnDoes DEF KeepsCompleted, RowIs, Closed,
       refund_failed_swap_as_ngnWrites
  <2> QED BY <2>1, <2>2, <2>3 DEF Writes
<1>7. CASE BuyBack(p)
  <2>1. Elsewhere(o) /\ past' = past
    BY <1>7, BuyBackDoes DEF Tidy, BuyBackWrites
  <2>2. Holds(p, o)
    BY <1>1, <1>7, BuyBackDoes DEF AcctIs, Holds, LetsGo, BuyBackWrites
  <2>3. KeepsCompleted(p, o)
    BY <1>7, BuyBackDoes DEF KeepsCompleted, RowIs, Closed, BuyBackWrites
  <2> QED BY <2>1, <2>2, <2>3 DEF Writes
<1>8. CASE BuyBackRaised(p)
  <2>1. Elsewhere(o) /\ past' = past
    BY <1>8, BuyBackRaisedDoes DEF Tidy, BuyBackRaisedWrites
  <2>2. Holds(p, o)
    BY <1>1, <1>8, BuyBackRaisedDoes DEF AcctIs, Holds, LetsGo, BuyBackRaisedWrites
  <2>3. KeepsCompleted(p, o)
    BY <1>8, BuyBackRaisedDoes DEF KeepsCompleted, RowIs, Closed, BuyBackRaisedWrites
  <2> QED BY <2>1, <2>2, <2>3 DEF Writes
<1>9. CASE LogCompensated(p)
  <2>1. Elsewhere(o) /\ past' = past
    BY <1>9, LogCompensatedDoes DEF Tidy, LogCompensatedWrites
  <2>2. Holds(p, o)
    BY <1>1, <1>9, LogCompensatedDoes DEF AcctIs, Holds, LetsGo, LogCompensatedWrites
  <2>3. KeepsCompleted(p, o)
    BY <1>9, LogCompensatedDoes DEF KeepsCompleted, RowIs, Closed, LogCompensatedWrites
  <2> QED BY <2>1, <2>2, <2>3 DEF Writes
<1> QED BY <1>2, <1>3, <1>4, <1>5, <1>6, <1>7, <1>8, <1>9 DEF SwapStep

(* The steps of an instant swap. *)
LEMMA InstantStepWrites ==
  ASSUME TypeInv, NEW p \in Procs, InstantStep(p), NEW o \in Orders, o = job[p].o
  PROVE  Writes(p, o)
<1>1. acct[o].hold \in Int
  BY BookTypes
<1>2. CASE _execute_instant_swap(p)
  <2>1. Elsewhere(o) /\ past' = past
    BY <1>2, execute_instant_swapDoes DEF Tidy, execute_instant_swapWrites
  <2>2. Holds(p, o)
    BY <1>1, <1>2, execute_instant_swapDoes DEF AcctIs, Holds, LetsGo, execute_instant_swapWrites
  <2>3. KeepsCompleted(p, o)
    BY <1>2, execute_instant_swapDoes DEF KeepsCompleted, RowIs, Closed,
       execute_instant_swapWrites
  <2> QED BY <2>1, <2>2, <2>3 DEF Writes
<1>3. CASE _execute_instant_buy(p)
  <2>1. Elsewhere(o) /\ past' = past
    BY <1>3, execute_instant_buyDoes DEF Tidy, execute_instant_buyWrites
  <2>2. Holds(p, o)
    BY <1>1, <1>3, execute_instant_buyDoes DEF AcctIs, Holds, LetsGo, execute_instant_buyWrites
  <2>3. KeepsCompleted(p, o)
    BY <1>3, execute_instant_buyDoes DEF KeepsCompleted, RowIs, Closed, execute_instant_buyWrites
  <2> QED BY <2>1, <2>2, <2>3 DEF Writes
<1>4. CASE _execute_swap_buy_leg_instant(p)
  <2>1. Elsewhere(o) /\ past' = past
    BY <1>4, execute_swap_buy_leg_instantDoes DEF Tidy, execute_swap_buy_leg_instantWrites
  <2>2. Holds(p, o)
    BY <1>1, <1>4, execute_swap_buy_leg_instantDoes DEF AcctIs, Holds, LetsGo,
       execute_swap_buy_leg_instantWrites
  <2>3. KeepsCompleted(p, o)
    BY <1>4, execute_swap_buy_leg_instantDoes DEF KeepsCompleted, RowIs, Closed,
       execute_swap_buy_leg_instantWrites
  <2> QED BY <2>1, <2>2, <2>3 DEF Writes
<1>5. CASE _finalize_instant_swap(p)
  <2>1. Elsewhere(o) /\ past' = past
    BY <1>5, finalize_instant_swapDoes DEF Tidy, finalize_instant_swapWrites
  <2>2. Holds(p, o)
    BY <1>1, <1>5, finalize_instant_swapDoes DEF AcctIs, Holds, LetsGo,
       finalize_instant_swapWrites
  <2>3. KeepsCompleted(p, o)
    BY <1>5, finalize_instant_swapDoes DEF KeepsCompleted, RowIs, Closed,
       finalize_instant_swapWrites
  <2> QED BY <2>1, <2>2, <2>3 DEF Writes
<1>6. CASE _finalize_instant_buy(p)
  <2>1. Elsewhere(o) /\ past' = past
    BY <1>6, finalize_instant_buyDoes DEF Tidy, finalize_instant_buyWrites
  <2>2. Holds(p, o)
    BY <1>1, <1>6, finalize_instant_buyDoes DEF AcctIs, Holds, LetsGo, finalize_instant_buyWrites
  <2>3. KeepsCompleted(p, o)
    BY <1>6, finalize_instant_buyDoes DEF KeepsCompleted, RowIs, Closed,
       finalize_instant_buyWrites
  <2> QED BY <2>1, <2>2, <2>3 DEF Writes
<1>7. CASE _finalize_swap_buy_leg(p)
  <2>1. Elsewhere(o) /\ past' = past
    BY <1>7, finalize_swap_buy_legDoes DEF Tidy, finalize_swap_buy_legWrites
  <2>2. Holds(p, o)
    BY <1>1, <1>7, finalize_swap_buy_legDoes DEF AcctIs, Holds, LetsGo,
       finalize_swap_buy_legWrites
  <2>3. KeepsCompleted(p, o)
    BY <1>7, finalize_swap_buy_legDoes DEF KeepsCompleted, RowIs, Closed,
       finalize_swap_buy_legWrites
  <2> QED BY <2>1, <2>2, <2>3 DEF Writes
<1>8. CASE confirm_swap_quotation(p)
  <2>1. Elsewhere(o) /\ past' = past
    BY <1>8, confirm_swap_quotationDoes DEF Tidy, confirm_swap_quotationWrites
  <2>2. Holds(p, o)
    BY <1>1, <1>8, confirm_swap_quotationDoes DEF AcctIs, Holds, LetsGo,
       confirm_swap_quotationWrites
  <2>3. KeepsCompleted(p, o)
    BY <1>8, confirm_swap_quotationDoes DEF KeepsCompleted, RowIs, Closed,
       confirm_swap_quotationWrites
  <2> QED BY <2>1, <2>2, <2>3 DEF Writes
<1>9. CASE StoreSwapId(p)
  <2>1. Elsewhere(o) /\ past' = past
    BY <1>9, StoreSwapIdDoes DEF Tidy, StoreSwapIdWrites
  <2>2. Holds(p, o)
    BY <1>1, <1>9, StoreSwapIdDoes DEF AcctIs, Holds, LetsGo, StoreSwapIdWrites
  <2>3. KeepsCompleted(p, o)
    BY <1>9, StoreSwapIdDoes DEF KeepsCompleted, RowIs, Closed, StoreSwapIdWrites
  <2> QED BY <2>1, <2>2, <2>3 DEF Writes
<1>10. CASE _await_swap(p)
  <2>1. Elsewhere(o) /\ past' = past
    BY <1>10, await_swapDoes DEF Tidy, await_swapWrites
  <2>2. Holds(p, o)
    BY <1>1, <1>10, await_swapDoes DEF AcctIs, Holds, LetsGo, await_swapWrites
  <2>3. KeepsCompleted(p, o)
    BY <1>10, await_swapDoes DEF KeepsCompleted, RowIs, Closed, await_swapWrites
  <2> QED BY <2>1, <2>2, <2>3 DEF Writes
<1>11. CASE _release_instant_swap(p)
  <2>1. Elsewhere(o) /\ past' = past
    BY <1>11, release_instant_swapDoes DEF Tidy, release_instant_swapWrites
  <2>2. Holds(p, o)
    BY <1>1, <1>11, release_instant_swapDoes DEF AcctIs, Holds, LetsGo, release_instant_swapWrites
  <2>3. KeepsCompleted(p, o)
    BY <1>11, release_instant_swapDoes DEF KeepsCompleted, RowIs, Closed,
       release_instant_swapWrites
  <2> QED BY <2>1, <2>2, <2>3 DEF Writes
<1>12. CASE Unusable(p)
  <2>1. Elsewhere(o) /\ past' = past
    BY <1>12, UnusableDoes DEF Tidy, UnusableWrites
  <2>2. Holds(p, o)
    BY <1>1, <1>12, UnusableDoes DEF AcctIs, Holds, LetsGo, UnusableWrites
  <2>3. KeepsCompleted(p, o)
    BY <1>12, UnusableDoes DEF KeepsCompleted, RowIs, Closed, UnusableWrites
  <2> QED BY <2>1, <2>2, <2>3 DEF Writes
<1> QED BY <1>2, <1>3, <1>4, <1>5, <1>6, <1>7, <1>8, <1>9, <1>10, <1>11, <1>12 DEF InstantStep

(* Every step of a process on its order. *)
LEMMA WorksWrites ==
  ASSUME TypeInv, NEW p \in Procs, Works(p), NEW o \in Orders, o = job[p].o
  PROVE  Writes(p, o)
BY BookStepWrites, BuyStepWrites, SellStepWrites, SwapStepWrites, InstantStepWrites DEF Works

(* What is let go had been reserved. *)
LEMMA LetGoIsReserved ==
  ASSUME OrdersInv, NEW p \in Procs, NEW o \in Orders, o = job[p].o, LetsGo(p, o), Smooth(o)
  PROVE  acct[o].hold = 1
<1>1. On(p, o) /\ ~past[o].overlap /\ ~past[o].died /\ TypeInv
  BY DEF On, Smooth, OrdersInv
<1>2. row[o].kind # "legacy"
  <2>1. job[p].at \notin {"buyback", "compensate", "unclaim", "unanswered", "log"}
    BY DEF LetsGo
  <2> QED BY <1>1, <2>1, NotLegacy DEF OrdersInv
<1>3. Steady(o) /\ Square(o)
  BY <1>1, <1>2, FitsSteady
<1>4. JobFits(o, job[p]) /\ JobHoldFits(o, job[p]) /\ HoldFits(o)
  BY <1>1, <1>3 DEF Steady, Square
<1>5. CASE job[p].at \in {"release", "sold", "bookleg", "spend-quote", "spend-flag",
          "spend-refund"}
  <2>1. row[o].kind \notin Buys
    BY <1>4, <1>5 DEF JobFits, OnPath, Buys, TwoLegs
  <2> QED BY <1>4, <1>5, <2>1 DEF JobHoldFits
<1>6. CASE job[p].at = "giveback" /\ ~Closed(o)
  <2>1. row[o].kind \notin Buys
    BY <1>4, <1>6 DEF JobFits, OnPath, Buys
  <2> QED BY <1>4, <1>6, <2>1 DEF JobHoldFits, One
<1>7. CASE job[p].at = "converted" /\ row[o].kind = "instantswap" /\ ~Closed(o)
  <2>1. row[o].quotation > 0
    BY <1>4, <1>7 DEF JobFits, JobIsQuoted
  <2>2. row[o].status = "PROCESSING"
    BY <1>4, <1>7 DEF JobFits, JobStatusFits, InstantKinds, Underway, Closed
  <2> QED BY <1>4, <1>7, <2>1, <2>2 DEF HoldFits
<1> QED BY <1>5, <1>6, <1>7 DEF LetsGo

(* What users, admins, Quidax and a crash do to reservations and to past. *)
HoldStays ==
    \A x \in Orders : acct'[x].hold = acct[x].hold /\ (Smooth(x)' => Smooth(x))

(* A step that leaves the accounts alone, and does not undo the past. *)
LEMMA OutsideHolds ==
  ASSUME TypeInv, NEW o \in Orders, acct' = acct,
         \/ past' = past
         \/ /\ \A x \in Orders : x # o => past'[x] = past[x]
            /\ past[o].overlap => past'[o].overlap
            /\ past[o].died => past'[o].died
  PROVE  HoldStays
BY DEF HoldStays, Smooth

(* A request that starts reserves nothing and lets nothing go. *)
LEMMA RequestsHold ==
  ASSUME TypeInv, NEW p \in Procs, NEW o \in Orders, Requests(p, o)
  PROVE  HoldStays
<1>1. past[o].overlap \in BOOLEAN /\ InHands(o) \in BOOLEAN /\ Requested(o) \in BOOLEAN
  BY BookTypes DEF InHands, Requested
<1>2. CASE _create_order_from_quote(p, o)
  BY <1>2, OutsideHolds DEF _create_order_from_quote, outsideVars
<1>3. CASE verify_buy_payment(p, o) \/ admin_approve_buy(p, o)
  <2>1. acct' = acct /\ past' = [past EXCEPT ![o].overlap = past[o].overlap \/ InHands(o)]
    BY <1>3 DEF verify_buy_payment, admin_approve_buy, PaymentConfirmed, Overlaps
  <2> QED BY <1>1, <2>1, OverlapIs, OutsideHolds
<1>4. CASE admin_retry_buy(p, o)
  <2>1. /\ acct' = acct /\ past[o].retries < MaxRetries
        /\ past' = [past EXCEPT ![o].retries = past[o].retries + 1,
                                ![o].overlap = past[o].overlap \/ InHands(o)]
    BY <1>4 DEF admin_retry_buy
  <2> QED BY <1>1, <2>1, RetriesAndOverlapAre, OutsideHolds
<1>5. CASE _retry_sell_order(p, o)
  <2>1. /\ acct' = acct /\ past[o].retries < MaxRetries
        /\ past' = [past EXCEPT ![o].retries = past[o].retries + 1,
                                ![o].overlap = past[o].overlap \/ InHands(o)]
    BY <1>5 DEF _retry_sell_order
  <2> QED BY <1>1, <2>1, RetriesAndOverlapAre, OutsideHolds
<1>6. CASE admin_check_instant_swap(p, o)
  <2>1. acct' = acct
    BY <1>6 DEF admin_check_instant_swap, reconcile_instant_swap, Reported
  <2>2. past' = [past EXCEPT ![o].overlap = past[o].overlap \/ Requested(o)]
    BY <1>6 DEF admin_check_instant_swap
  <2> QED BY <1>1, <2>1, <2>2, OverlapIs, OutsideHolds
<1>7. CASE admin_resolve_failed_swap(p, o)
  <2>1. past[o].retries <= MaxRetries /\ past' = [past EXCEPT ![o].retries = past[o].retries + 1]
    BY <1>7 DEF admin_resolve_failed_swap
  <2>2. \A x \in Orders : past'[x].overlap = past[x].overlap /\ past'[x].died = past[x].died
    BY <2>1 DEF TypeInv, BookTypeOK
  <2>3. acct' = acct \/ acct' = [acct EXCEPT ![o].got = acct[o].got + 1]
    BY <1>7 DEF admin_resolve_failed_swap
  <2>4. \A x \in Orders : acct'[x].hold = acct[x].hold
    <3>1. acct \in [Orders -> Accounts]
      BY BookKept
    <3> DEFINE n == acct[o].got + 1
    <3>2. acct' = acct \/ acct' = [acct EXCEPT ![o].got = n]
      BY <2>3
    <3> HIDE DEF n
    <3> QED BY <3>1, <3>2 DEF Accounts
  <2> QED BY <2>2, <2>4 DEF HoldStays, Smooth
<1>8. CASE admin_resolve_unknown_order(p, o)
  <2>1. acct' = acct /\ past' = [past EXCEPT ![o].overlap = past[o].overlap \/ InHands(o)]
    BY <1>8 DEF admin_resolve_unknown_order, Overlaps
  <2> QED BY <1>1, <2>1, OverlapIs, OutsideHolds
<1> QED BY <1>2, <1>3, <1>4, <1>5, <1>6, <1>7, <1>8 DEF Requests

(* No step lets go of coins that were not reserved. *)
LEMMA ReservedFirst ==
  ASSUME OrdersInv, NothingReleasedUnreserved, [Next]_orderVars
  PROVE  NothingReleasedUnreserved'
<1>1. TypeInv /\ WebWorkers \subseteq Procs
  BY DEF OrdersInv, Procs
<1>2. ASSUME HoldStays PROVE NothingReleasedUnreserved'
  BY <1>2 DEF HoldStays, NothingReleasedUnreserved
<1>3. ASSUME NEW p \in Procs, Works(p) PROVE NothingReleasedUnreserved'
  <2>1. PICK o \in Orders : o = job[p].o
    BY <1>1, <1>3, WorksOn
  <2>2. Elsewhere(o) /\ past' = past /\ Holds(p, o)
    BY <1>1, <1>3, <2>1, WorksWrites DEF Writes
  <2>3. ASSUME NEW x \in Orders, Smooth(x)' PROVE acct'[x].hold >= 0
    <3>1. Smooth(x) /\ acct[x].hold >= 0 /\ acct[x].hold \in Int
      BY <1>1, <2>2, <2>3, BookTypes DEF Smooth, NothingReleasedUnreserved
    <3>2. CASE x # o
      BY <2>2, <3>1, <3>2 DEF Elsewhere
    <3>3. CASE x = o /\ LetsGo(p, o)
      <4>1. acct[o].hold = 1 /\ acct'[o].hold = acct[o].hold - 1
        BY <2>1, <3>1, <3>3, LetGoIsReserved DEF LetsGo
      <4> QED BY <3>3, <4>1
    <3>4. CASE x = o /\ ~LetsGo(p, o)
      BY <2>2, <3>1, <3>4 DEF Holds
    <3> QED BY <3>2, <3>3, <3>4
  <2> QED BY <2>3 DEF NothingReleasedUnreserved
<1>4. ASSUME NEW p \in Procs, Crash(p) PROVE NothingReleasedUnreserved'
  <2>1. /\ acct' = acct /\ job[p] # Idle
        /\ past' = [past EXCEPT ![job[p].o].died =
                      past[job[p].o].died \/ job[p].by # "report" \/ IsAt(p, "refunded")]
    BY <1>4 DEF Crash
  <2>2. \A x \in Orders : past'[x].overlap = past[x].overlap /\ (past[x].died => past'[x].died)
    BY <1>1, <2>1 DEF TypeInv, BookTypeOK
  <2> QED BY <1>2, <2>1, <2>2 DEF HoldStays, Smooth
<1>5. ASSUME NEW p \in WebWorkers, NEW o \in Orders,
             Requests(p, o) PROVE NothingReleasedUnreserved'
  BY <1>1, <1>2, <1>5, RequestsHold
<1>6. ASSUME NEW o \in Orders,
             \/ \E p \in WebWorkers, n \in Quotations : handle_swap_webhook(p, o, n)
             \/ reconcile_due_instant_swaps(o) \/ PayOutside(o)
             \/ \E n \in Quotations : QuidaxConverts(o, n)
      PROVE  NothingReleasedUnreserved'
  <2>1. acct' = acct /\ past' = past
    BY <1>6 DEF handle_swap_webhook, reconcile_due_instant_swaps, reconcile_instant_swap,
       Reported, PayOutside, QuidaxConverts, outsideVars
  <2> QED BY <1>1, <1>2, <2>1 DEF HoldStays, Smooth
<1>7. ASSUME NEW o \in Orders, admin_reject_order(o) PROVE NothingReleasedUnreserved'
  <2>1. InHands(o) \in BOOLEAN
    BY DEF InHands
  <2>2. acct' = acct /\ past' = [past EXCEPT ![o].rejected = TRUE,
                                             ![o].overlap = past[o].overlap \/ InHands(o)]
    BY <1>7 DEF admin_reject_order
  <2> QED BY <1>1, <1>2, <2>1, <2>2, RejectedIs, OutsideHolds
<1>8. ASSUME UNCHANGED orderVars PROVE NothingReleasedUnreserved'
  BY <1>8 DEF orderVars, outsideVars, NothingReleasedUnreserved, Smooth
<1> QED BY <1>3, <1>4, <1>5, <1>6, <1>7, <1>8 DEF Next

Completed(x) == row[x].status = "COMPLETED"
StaysCompleted ==
    \A x \in Orders : Completed(x) /\ ~past'[x].overlap => row'[x].status = "COMPLETED"

(* A step of a process on a completed order. *)
LEMMA WorksKeepCompleted ==
  ASSUME OrdersInv, NEW p \in Procs, Works(p)
  PROVE  StaysCompleted
<1>1. PICK o \in Orders : o = job[p].o
  BY WorksOn DEF OrdersInv
<1>2. Elsewhere(o) /\ past' = past /\ KeepsCompleted(p, o) /\ On(p, o)
  BY <1>1, WorksWrites DEF OrdersInv, Writes, On
<1>3. ASSUME Completed(o), ~past[o].overlap, row[o].kind # "legacy"
      PROVE  /\ job[p].at \notin {"paid", "restart", "wait", "start"}
             /\ ~(job[p].at = "buy" /\ row[o].kind = "instantbuy")
  <2>1. JobStatusFits(o, job[p])
    BY <1>2, <1>3, FitsSteady DEF Steady, JobFits
  <2> QED BY <1>3, <2>1 DEF JobStatusFits, Completed
<1>4. ASSUME row[o].kind = "legacy" PROVE job[p].at \notin {"paid", "restart", "wait", "start"}
  BY <1>2, <1>4 DEF OrdersInv, Fits, Legacy
<1>5. ASSUME Completed(o), ~past'[o].overlap PROVE row'[o].status = "COMPLETED"
  BY <1>2, <1>3, <1>4, <1>5 DEF KeepsCompleted, Completed
<1>6. ASSUME NEW x \in Orders, x # o, Completed(x) PROVE row'[x].status = "COMPLETED"
  BY <1>2, <1>6 DEF Elsewhere, Completed
<1> QED BY <1>5, <1>6 DEF StaysCompleted

(* A request that starts finds no completed order to reopen. *)
LEMMA RequestsKeepCompleted ==
  ASSUME TypeInv, NEW p \in Procs, NEW o \in Orders, Requests(p, o)
  PROVE  StaysCompleted
<1>1. CASE _create_order_from_quote(p, o)
  <2> DEFINE s == INITIAL_STATUS(row[o].kind)
  <2>1. row[o].status = "none" /\ row' = [row EXCEPT ![o].status = s]
    BY <1>1 DEF _create_order_from_quote
  <2>2. s \in Statuses
    BY DEF INITIAL_STATUS, Statuses
  <2> HIDE DEF s
  <2> QED BY <2>1, <2>2, StatusIs DEF StaysCompleted, Completed, OnlyRow, ClaimIs
<1>2. CASE verify_buy_payment(p, o) \/ admin_approve_buy(p, o)
  <2>1. /\ row[o].status = "PENDING_PAYMENT"
        /\ row' = [row EXCEPT ![o].status = "PAYMENT_RECEIVED"] /\ "PAYMENT_RECEIVED" \in Statuses
    BY <1>2 DEF verify_buy_payment, admin_approve_buy, PaymentConfirmed, Statuses
  <2> QED BY <2>1, StatusIs DEF StaysCompleted, Completed, OnlyRow, ClaimIs
<1>3. CASE admin_retry_buy(p, o) \/ _retry_sell_order(p, o)
  BY <1>3 DEF admin_retry_buy, _retry_sell_order, StaysCompleted, Completed
<1>4. CASE admin_check_instant_swap(p, o)
  <2>1. row[o].status = "PROCESSING"
    BY <1>4 DEF admin_check_instant_swap, reconcile_instant_swap
  <2>2. row' = row \/ \E n : row' = [row EXCEPT ![o].swap = n]
    BY <1>4 DEF admin_check_instant_swap, reconcile_instant_swap, Reported
  <2> QED BY <2>1, <2>2 DEF StaysCompleted, Completed, TypeInv, BookTypeOK
<1>5. CASE admin_resolve_failed_swap(p, o)
  <2>1. row[o].status = "FAILED"
    BY <1>5 DEF admin_resolve_failed_swap
  <2>2. row' = [row EXCEPT ![o].compensated = TRUE] \/ row' = [row EXCEPT ![o].claimed = TRUE]
    BY <1>5 DEF admin_resolve_failed_swap
  <2> QED BY <2>1, <2>2 DEF StaysCompleted, Completed, TypeInv, BookTypeOK
<1>6. CASE admin_resolve_unknown_order(p, o)
  <2>1. row[o].status = "PROCESSING" /\ row' = [row EXCEPT ![o].needs_review = FALSE]
    BY <1>6 DEF admin_resolve_unknown_order
  <2> QED BY <2>1 DEF StaysCompleted, Completed, TypeInv, BookTypeOK
<1> QED BY <1>1, <1>2, <1>3, <1>4, <1>5, <1>6 DEF Requests

(* No step reopens a completed order. *)
LEMMA NextKeepsCompleted ==
  ASSUME OrdersInv, [Next]_orderVars
  PROVE  StaysCompleted
<1>1. TypeInv /\ WebWorkers \subseteq Procs
  BY DEF OrdersInv, Procs
<1>2. ASSUME row' = row PROVE StaysCompleted
  BY <1>2 DEF StaysCompleted, Completed
<1>3. ASSUME NEW p \in Procs, Works(p) PROVE StaysCompleted
  BY <1>3, WorksKeepCompleted
<1>4. ASSUME NEW p \in Procs, Crash(p) PROVE StaysCompleted
  BY <1>2, <1>4 DEF Crash
<1>5. ASSUME NEW p \in WebWorkers, NEW o \in Orders, Requests(p, o) PROVE StaysCompleted
  BY <1>1, <1>5, RequestsKeepCompleted
<1>6. ASSUME NEW o \in Orders,
             \/ \E p \in WebWorkers, n \in Quotations : handle_swap_webhook(p, o, n)
             \/ reconcile_due_instant_swaps(o)
      PROVE  StaysCompleted
  <2>1. row[o].status = "PROCESSING"
    BY <1>6 DEF handle_swap_webhook, reconcile_due_instant_swaps, reconcile_instant_swap
  <2>2. row' = row \/ \E n : row' = [row EXCEPT ![o].swap = n]
    BY <1>6 DEF handle_swap_webhook, reconcile_due_instant_swaps, reconcile_instant_swap, Reported
  <2> QED BY <1>1, <2>1, <2>2 DEF StaysCompleted, Completed, TypeInv, BookTypeOK
<1>7. ASSUME NEW o \in Orders, PayOutside(o) \/ \E n \in Quotations : QuidaxConverts(o, n)
      PROVE  StaysCompleted
  BY <1>2, <1>7 DEF PayOutside, QuidaxConverts
<1>8. ASSUME NEW o \in Orders, admin_reject_order(o) PROVE StaysCompleted
  <2>1. /\ row[o].status \in {"PENDING_PAYMENT", "WAITING_DEPOSIT"}
        /\ row' = [row EXCEPT ![o].status = "FAILED"] /\ "FAILED" \in Statuses
    BY <1>8 DEF admin_reject_order, Statuses
  <2> QED BY <1>1, <2>1, StatusIs DEF StaysCompleted, Completed, OnlyRow, ClaimIs
<1>9. ASSUME UNCHANGED orderVars PROVE StaysCompleted
  BY <1>2, <1>9 DEF orderVars
<1> QED BY <1>3, <1>4, <1>5, <1>6, <1>7, <1>8, <1>9 DEF Next

(* Without an overlap or a killed request, release_crypto and              *)
(* debit_reserved_crypto only take what reserve_crypto put aside.          *)
THEOREM ReservationsComeFirst == Spec => []NothingReleasedUnreserved
<1>1. BookInit => NothingReleasedUnreserved
  BY DEF BookInit, NothingReleasedUnreserved
<1>2. OrdersInv /\ NothingReleasedUnreserved /\ [Next]_orderVars => NothingReleasedUnreserved'
  BY ReservedFirst
<1> QED BY <1>1, <1>2, OrdersInvariant, PTL DEF Spec

(* Without an overlap, an order that is COMPLETED stays so, whatever       *)
(* webhook, retry or admin comes late.                                     *)
THEOREM CompletedForGood == Spec => CompletedStays
<1>1. OrdersInv /\ [Next]_orderVars =>
        [\A o \in Orders : row[o].status = "COMPLETED" /\ ~past'[o].overlap =>
            row'[o].status = "COMPLETED"]_orderVars
  BY NextKeepsCompleted DEF StaysCompleted, Completed
<1> QED BY <1>1, OrdersInvariant, PTL DEF Spec, CompletedStays
=============================================================================
