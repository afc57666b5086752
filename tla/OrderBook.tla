----------------------------- MODULE OrderBook -----------------------------
(***************************************************************************)
(* CryptoOrder rows (crypto/orders.py), what each order has done to its    *)
(* user's balances, and the processes that work on orders: web workers,    *)
(* which run the requests of users and admins and Quidax's webhooks, and   *)
(* the Procfile worker.  A request is many transactions and Quidax calls;  *)
(* job[p] says between which two of them it is, and each transaction locks *)
(* the row or the balance it updates, so it is one step.                   *)
(* Amounts do not matter here: an order moves its naira, its source coins  *)
(* and its proceeds in whole, and whether a balance suffices is up to the  *)
(* rest of the system.                                                     *)
(***************************************************************************)
EXTENDS Integers, FiniteSets

CONSTANTS
    Orders,       \* CryptoOrder rows
    NoOrder,      \* what an idle process works on
    WebWorkers,   \* gunicorn workers
    Settler,      \* the Procfile worker process
    MaxRetries,   \* bound: admin retries of one buy, user retries of one sell
    MaxCrashes    \* bound: process crashes in one behaviour

ASSUME OrderAssumption ==
    /\ NoOrder \notin Orders
    /\ Settler \notin WebWorkers
    /\ MaxRetries \in Nat /\ MaxCrashes \in Nat

VARIABLES
    row,         \* the order rows and what matters of their logs
    acct,        \* history: what each order took from and gave to its user
    fills,       \* Quidax's side: market orders filled for an order
    conversion,  \* Quidax's side: what became of each swap quotation
    external,    \* has the user paid by card or bank transfer
    past,        \* history of the requests on each order
    job,         \* what each process is in the middle of
    crashes      \* processes killed so far

quidaxVars == <<fills, conversion>>
outsideVars == <<external, past, crashes>>
orderVars == <<row, acct, quidaxVars, outsideVars, job>>

Procs == WebWorkers \cup {Settler}

(* buy, sell, swap: through {coin}ngn market orders.  instantbuy, legswap: *)
(* the same buy and the swap's second leg with QUIDAX_INSTANT_BUY_ENABLED. *)
(* instantswap: swap_method INSTANT.  legacy: a swap that failed after its *)
(* first leg before refunds were automatic.                                *)
Buys == {"buy", "instantbuy"}
TwoLegs == {"swap", "legswap"}
Kinds == Buys \cup TwoLegs \cup {"sell", "instantswap", "legacy"}
INITIAL_STATUS(k) == IF k \in Buys THEN "PENDING_PAYMENT" ELSE "PROCESSING"
Statuses == {"none", "PENDING_PAYMENT", "PAYMENT_RECEIVED", "WAITING_DEPOSIT",
             "PROCESSING", "COMPLETED", "FAILED"}
Closed(o) == row[o].status \in {"COMPLETED", "FAILED"}

MaxQuotations == MaxRetries + 1
Quotations == 1..MaxQuotations  \* those of one order, in order

(* sold: quidax_sell_order_id is set; quotation, swap: the quotation and   *)
(* the swap whose ids are stored, or 0; paid, refunded: how many of these  *)
(* events are logged; claimed, compensated: of admin_resolve_failed_swap.  *)
Rows == [kind : Kinds, status : Statuses, needs_review : BOOLEAN, sold : BOOLEAN,
         quotation : 0..MaxQuotations, swap : 0..MaxQuotations,
         paid : Nat, refunded : Nat, claimed : BOOLEAN, compensated : BOOLEAN]
NewRow(k) ==
    [kind |-> k, status |-> IF k = "legacy" THEN "FAILED" ELSE "none",
     needs_review |-> FALSE, sold |-> k = "legacy", quotation |-> 0, swap |-> 0,
     paid |-> 0, refunded |-> 0, claimed |-> FALSE, compensated |-> FALSE]

(* taken: naira payments less refunds; hold: reservations less releases    *)
(* and debits; got: how often the proceeds were credited.                  *)
Accounts == [taken : Int, hold : Int, got : Nat]

Steps == {"idle", "pay", "paid", "redebit", "restart", "buy", "bought", "reserve", "wait",
          "rereserve", "start", "sell", "sold", "soldleg", "release", "buyleg",
          "bookleg", "spend-quote", "spend-flag", "spend-refund", "finishleg",
          "refundngn", "quote", "confirm", "confirmed", "await", "converted",
          "giveback", "flag", "refuse", "refunded", "clear", "buyback",
          "compensate", "unclaim", "unanswered", "log"}

(* by: "place" for the request that creates the order, "later" for others  *)
(* that carry it on, "report" for webhooks and reconciliation.             *)
Jobs == [at : Steps, o : Orders \cup {NoOrder}, n : 0..MaxQuotations, refund : BOOLEAN,
         by : {"", "place", "later", "report"}]
Job(at, o, n, refund, by) == [at |-> at, o |-> o, n |-> n, refund |-> refund, by |-> by]
Idle == Job("idle", NoOrder, 0, FALSE, "")

IsAt(p, step) == job[p].at = step
Starts(p, j) == job[p] = Idle /\ job' = [job EXCEPT ![p] = j]
Goes(p, step) == job' = [job EXCEPT ![p].at = step]
Ends(p) == job' = [job EXCEPT ![p] = Idle]

Placing(o) == \E p \in Procs : job[p].o = o /\ job[p].by = "place"
Requested(o) == \E p \in Procs : job[p].o = o /\ job[p].by # "report"
InHands(o) == \E p \in Procs : job[p].o = o

(* A request starts on an order that another process is working on. *)
Overlaps(o) ==
    past' = [past EXCEPT ![o].overlap = @ \/ InHands(o)]

-----------------------------------------------------------------------------
BookInit ==
    /\ row \in [Orders -> {NewRow(k) : k \in Kinds}]
    /\ acct = [o \in Orders |-> [taken |-> 0, hold |-> 0, got |-> 0]]
    /\ fills = [o \in Orders |->
                  [sold |-> IF row[o].kind = "legacy" THEN 1 ELSE 0, bought |-> 0, last |-> FALSE]]
    /\ conversion = [o \in Orders |-> [n \in Quotations |-> "unsent"]]
    /\ external = [o \in Orders |-> FALSE]
    /\ past = [o \in Orders |->
                 [retries |-> 0, rejected |-> FALSE, overlap |-> FALSE, died |-> FALSE]]
    /\ job = [p \in Procs |-> Idle]
    /\ crashes = 0

(* place_*_order up to its first balance update: the quote is used, and    *)
(* the row created, in one transaction, so once.                           *)
_create_order_from_quote(p, o) ==
    LET k == row[o].kind IN
    /\ row[o].status = "none"
    /\ Starts(p, Job(IF k \in Buys THEN "pay" ELSE "reserve", o, 0, k = "buy", "place"))
    /\ row' = [row EXCEPT ![o].status = INITIAL_STATUS(k)]
    /\ UNCHANGED <<acct, quidaxVars, outsideVars>>

-----------------------------------------------------------------------------
(* How a request ends without a fill.                                      *)

_wallet_payment_outstanding(o) == row[o].paid > row[o].refunded

(* An instant buy looks at the log; others know if the wallet paid. *)
Refunds(p) ==
    IF row[job[p].o].kind = "instantbuy" THEN _wallet_payment_outstanding(job[p].o)
                                          ELSE job[p].refund

Afterwards(p) == IF row[job[p].o].kind = "instantbuy" THEN Goes(p, "clear") ELSE Ends(p)

(* FAILED, with the refund, unless the order is closed; the refund is      *)
(* logged in a transaction of its own.                                     *)
_fail_order(p) ==
    LET o == job[p].o IN
    /\ IsAt(p, "refuse")
    /\ \/ Closed(o) /\ Afterwards(p) /\ UNCHANGED <<row, acct>>
       \/ /\ ~Closed(o)
          /\ row' = [row EXCEPT ![o].status = "FAILED"]
          /\ \/ Refunds(p) /\ acct' = [acct EXCEPT ![o].taken = @ - 1] /\ Goes(p, "refunded")
             \/ ~Refunds(p) /\ Afterwards(p) /\ UNCHANGED acct
    /\ UNCHANGED <<quidaxVars, outsideVars>>

LogRefund(p) ==
    /\ IsAt(p, "refunded")
    /\ row' = [row EXCEPT ![job[p].o].refunded = @ + 1]
    /\ Afterwards(p)
    /\ UNCHANGED <<acct, quidaxVars, outsideVars>>

ClearReview(p) ==
    /\ IsAt(p, "clear")
    /\ row' = [row EXCEPT ![job[p].o].needs_review = FALSE]
    /\ Ends(p)
    /\ UNCHANGED <<acct, quidaxVars, outsideVars>>

(* A closed order is taken back into review. *)
MutFlagForReview(p) ==
    /\ IsAt(p, "flag")
    /\ row' = [row EXCEPT ![job[p].o].status = "PROCESSING", ![job[p].o].needs_review = TRUE]
    /\ Ends(p)
    /\ UNCHANGED <<acct, quidaxVars, outsideVars>>

(* An order that may have been filled waits for an admin. *)
_flag_for_review(p) ==
    LET o == job[p].o IN
    /\ IsAt(p, "flag")
    /\ row' = IF Closed(o) THEN row
              ELSE [row EXCEPT ![o].status = "PROCESSING", ![o].needs_review = TRUE]
    /\ Ends(p)
    /\ UNCHANGED <<acct, quidaxVars, outsideVars>>

BookStep(p) == _fail_order(p) \/ LogRefund(p) \/ ClearReview(p) \/ _flag_for_review(p)

(* A deploy, an OOM kill or gunicorn's --timeout ends a process between    *)
(* two of its steps; what it committed stays.  died: of a request, or of a *)
(* report that had refunded a buy and not logged it.                       *)
Crash(p) ==
    LET o == job[p].o IN
    /\ job[p] # Idle
    /\ crashes < MaxCrashes
    /\ crashes' = crashes + 1
    /\ past' = [past EXCEPT ![o].died = @ \/ job[p].by # "report" \/ IsAt(p, "refunded")]
    /\ Ends(p)
    /\ UNCHANGED <<row, acct, quidaxVars, external>>

BookTypeOK ==
    /\ row \in [Orders -> Rows]
    /\ acct \in [Orders -> Accounts]
    /\ fills \in [Orders -> [sold : Nat, bought : Nat, last : BOOLEAN]]
    /\ conversion \in [Orders -> [Quotations ->
          {"unsent", "processing", "completed", "failed", "refused", "lost"}]]
    /\ external \in [Orders -> BOOLEAN]
    /\ past \in [Orders ->
          [retries : 0..(MaxRetries + 1), rejected : BOOLEAN, overlap : BOOLEAN, died : BOOLEAN]]
    /\ job \in [Procs -> Jobs]
    /\ crashes \in 0..MaxCrashes
=============================================================================
