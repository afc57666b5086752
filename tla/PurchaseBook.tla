---------------------------- MODULE PurchaseBook ----------------------------
(***************************************************************************)
(* What VTU purchases, gift cards and card fundings have in common: a row  *)
(* per purchase, an order at the app's provider (PluginNG, Reloadly or     *)
(* Bitnob) and a price taken from the NGN wallet.  The provider is modelled *)
(* from how the apps use it: it may do an order it never answered, its     *)
(* answers and webhooks tell of the past, and what it did it may reverse.  *)
(***************************************************************************)
EXTENDS NgnLedger

CONSTANTS
    Purchases,  \* references of VTUTransaction, GiftCardPurchase, CardTransaction rows
    MaxBegun    \* bound: purchases begun in one behaviour

ASSUME PurchaseAssumption ==
    /\ Purchases \subseteq Transactions
    /\ MaxBegun \in Nat

VARIABLES
    st,       \* status of each row, "none" before it exists
    order,    \* the provider's side of each purchase
    paid,     \* history: purchases whose price was debited
    refunds,  \* history: how often the price was credited back
    guessed,  \* history: purchases credited back because the request went unanswered
    killed    \* history: purchases whose request was killed where nothing takes them up again

historyVars == <<paid, refunds, guessed, killed>>
bookVars == <<st, order, historyVars>>

Statuses == {"none", "PENDING", "COMPLETED", "FAILED"}
Ended == {"done", "failed", "reversed"}
Undone == {"failed", "reversed"}

(* What the provider can have said of an order by now: the last state or,  *)
(* in an answer that was under way, an earlier one.                        *)
Told(x) ==
    CASE order[x] \in {"unsent", "sent"} -> {}
      [] order[x] = "reversed" -> {"processing", "done", "reversed"}
      [] OTHER -> {"processing", order[x]}

BookInit ==
    /\ st = [x \in Purchases |-> "none"]
    /\ order = [x \in Purchases |-> "unsent"]
    /\ paid = {}
    /\ refunds = [x \in Purchases |-> 0]
    /\ guessed = {}
    /\ killed = {}

Begun == {x \in Purchases : st[x] # "none" \/ x \in paid \/ \E p \in Procs : job[p].tx = x}

(* A new purchase by an idle process. *)
Begins(p, x) ==
    /\ job[p] = Idle
    /\ x \notin Begun
    /\ Cardinality(Begun) < MaxBegun

(* An idle process takes a new purchase's price. *)
Charges(p, x, next) ==
    /\ Begins(p, x)
    /\ Debit(Owner[x], Amount[x])
    /\ paid' = paid \cup {x}
    /\ SetJob(p, Job(next, x, ""))

(* The PENDING row is committed; the request to the provider goes out.     *)
Records(x) ==
    /\ st' = [st EXCEPT ![x] = "PENDING"]
    /\ order' = [order EXCEPT ![x] = "sent"]

GivesBack(x, says) ==
    /\ Credit(Owner[x], Amount[x])
    /\ refunds' = [refunds EXCEPT ![x] = @ + 1]
    /\ guessed' = IF says = "" THEN guessed \cup {x} ELSE guessed

(* The refund without the status check under the lock. *)
MutRefundUnchecked(x, says) ==
    /\ GivesBack(x, says)
    /\ st' = [st EXCEPT ![x] = "FAILED"]

(* _refund_and_fail: the row is locked and read again; nothing happens     *)
(* unless it is still PENDING.  says: what the provider said, or "".       *)
_refund_and_fail(x, says) ==
    \/ /\ st[x] = "PENDING"
       /\ GivesBack(x, says)
       /\ st' = [st EXCEPT ![x] = "FAILED"]
    \/ /\ st[x] # "PENDING"
       /\ UNCHANGED <<balance, st, refunds, guessed>>

-----------------------------------------------------------------------------
(* The provider answers a purchase request: a 2xx with what it has done.   *)
Answered(p, x) ==
    /\ IsAt(p, "send") /\ job[p].tx = x
    /\ \E says \in Told(x) : SetJob(p, Job("apply", x, says))
    /\ UNCHANGED <<balance, outside, crashes, bookVars>>

(* A refusal, a timeout, a broken connection or an answer that is not      *)
(* JSON, whatever the provider made of the request: one exception.         *)
Unanswered(p, x) ==
    /\ IsAt(p, "send") /\ job[p].tx = x
    /\ SetJob(p, Job("refund", x, ""))
    /\ UNCHANGED <<balance, outside, crashes, bookVars>>

RequestRefund(p) ==
    /\ IsAt(p, "refund")
    /\ _refund_and_fail(job[p].tx, "")
    /\ SetJob(p, Idle)
    /\ UNCHANGED <<outside, crashes, order, paid, killed>>

(* Somebody asks, or is told, about a purchase seen PENDING; what it says  *)
(* is applied in a step of its own.  To hear that an order is processing   *)
(* changes nothing, so that is left out where no id can come with it.      *)
Hears(p, x, news) ==
    /\ job[p] = Idle
    /\ st[x] = "PENDING"
    /\ \E says \in Told(x) \cap news : SetJob(p, Job("apply", x, says))
    /\ UNCHANGED <<balance, outside, crashes, bookVars>>

-----------------------------------------------------------------------------
(* The provider takes an order up, ends it, or takes back what it did.     *)
Provides(x, s) ==
    /\ \/ order[x] = "sent" /\ s \in {"processing", "done", "failed"}
       \/ order[x] = "processing" /\ s \in {"done", "failed"}
       \/ order[x] = "done" /\ s = "reversed"
    /\ order' = [order EXCEPT ![x] = s]
    /\ UNCHANGED <<ledgerVars, st, historyVars>>

(* A kill takes the request with it.  Between a debit and its row, and     *)
(* between a FAILED funding and its credit, nothing else knows of it.  (A  *)
(* kill after an answer came leaves what one before it would have left.)   *)
PurchaseCrash(p) ==
    /\ job[p].at \in {"record", "send", "giveback"}
    /\ Crash(p)
    /\ killed' = IF IsAt(p, "send") THEN killed ELSE killed \cup {job[p].tx}
    /\ UNCHANGED <<st, order, paid, refunds, guessed>>

BookTypeOK ==
    /\ st \in [Purchases -> Statuses]
    /\ order \in [Purchases -> {"unsent", "sent", "processing"} \cup Ended]
    /\ paid \subseteq Purchases
    /\ refunds \in [Purchases -> Nat]
    /\ guessed \subseteq Purchases
    /\ killed \subseteq Purchases
=============================================================================
