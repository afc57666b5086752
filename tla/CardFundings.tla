---------------------------- MODULE CardFundings ----------------------------
(***************************************************************************)
(* Money to and from a virtual card (cards/services.py): fund_card and     *)
(* withdraw_card on a card that was ACTIVE when it was looked up.  Funding *)
(* debits the NGN wallet first; a withdrawal from the card never touches   *)
(* it.  Nothing asks Bitnob again and there is no webhook: a row it left   *)
(* pending stays PENDING.                                                  *)
(***************************************************************************)
EXTENDS PurchaseBook

CONSTANTS
    Fundings,  \* references of FUNDING rows of CardTransaction
    Unloads    \* references of WITHDRAWAL rows

ASSUME FundingAssumption ==
    /\ Fundings \subseteq Purchases
    /\ Unloads \subseteq Purchases \ Fundings

fund_card(p, x) ==
    /\ x \in Fundings
    /\ Charges(p, x, "record")
    /\ UNCHANGED <<outside, crashes, st, order, refunds, guessed, killed>>

withdraw_card(p, x) ==
    /\ x \in Unloads
    /\ Begins(p, x)
    /\ SetJob(p, Job("record", x, ""))
    /\ UNCHANGED <<balance, outside, crashes, bookVars>>

(* The CardTransaction row, then the request to Bitnob. *)
CreateCardTransaction(p, x) ==
    /\ IsAt(p, "record") /\ job[p].tx = x
    /\ Records(x)
    /\ SetJob(p, Job("send", x, ""))
    /\ UNCHANGED <<balance, outside, crashes, historyVars>>

(* Any BitnobError, a timeout of the third try included: the row is FAILED *)
(* and, in a transaction after that one, a funding's naira are given back. *)
BalanceNotConfirmed(p, x) ==
    /\ IsAt(p, "send") /\ job[p].tx = x
    /\ st' = [st EXCEPT ![x] = "FAILED"]
    /\ SetJob(p, IF x \in Fundings THEN Job("giveback", x, "") ELSE Idle)
    /\ UNCHANGED <<balance, outside, crashes, order, historyVars>>

GiveBackNaira(p, x) ==
    /\ IsAt(p, "giveback") /\ job[p].tx = x
    /\ GivesBack(x, "")
    /\ SetJob(p, Idle)
    /\ UNCHANGED <<outside, crashes, st, order, paid, killed>>

(* Bitnob's word is saved as it is; "failed" gives nothing back. *)
BalanceStatus(says) ==
    CASE says = "done" -> "COMPLETED" [] says = "failed" -> "FAILED" [] OTHER -> "PENDING"

SaveBalanceAnswer(p, x) ==
    /\ IsAt(p, "apply") /\ job[p].tx = x
    /\ st' = [st EXCEPT ![x] = BalanceStatus(job[p].says)]
    /\ SetJob(p, Idle)
    /\ UNCHANGED <<balance, outside, crashes, order, historyVars>>

CardRequest(p, x) == fund_card(p, x) \/ withdraw_card(p, x)

CardStepOf(p, x) ==
    \/ CreateCardTransaction(p, x)
    \/ Answered(p, x) \/ BalanceNotConfirmed(p, x)
    \/ GiveBackNaira(p, x) \/ SaveBalanceAnswer(p, x)
=============================================================================
