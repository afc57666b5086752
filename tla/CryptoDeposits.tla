--------------------------- MODULE CryptoDeposits ---------------------------
(***************************************************************************)
(* On-chain deposits (crypto/deposits.py): sub-accounts at Quidax, deposit *)
(* addresses, the deposit.successful webhook and the passes that look for  *)
(* deposits whose webhook never came.  A Quidax sub-account belongs to an  *)
(* e-mail address, the app's rows to a user; a user who registers again    *)
(* after a deletion has a new primary key and the old e-mail address.      *)
(***************************************************************************)
EXTENDS Integers, FiniteSets

CONSTANTS
    Users,       \* primary keys
    FirstUsers,  \* the users there are at first
    Email,       \* e-mail address, hence Quidax sub-account, of each user
    Coins,
    Deposits,
    PaidTo,      \* sub-account each deposit arrives at
    CoinOf,
    NoUser,
    Worker,      \* the settlement worker's pass, one a minute
    Admin,       \* the command reconcile_crypto_deposits --apply
    BatchSize,   \* sub-accounts of a pass
    MaxCrashes   \* bound: restarts of the worker and kills of the command

ASSUME DepositsAssumption ==
    /\ Users \subseteq Nat \ {0}
    /\ IsFiniteSet(Users)
    /\ FirstUsers \subseteq Users
    /\ \A u, v \in FirstUsers : Email[u] = Email[v] => u = v
    /\ NoUser \notin Users
    /\ Worker # Admin
    /\ BatchSize \in Nat \ {0}
    /\ MaxCrashes \in Nat

Emails == {Email[u] : u \in Users}
Passes == {Worker, Admin}

VARIABLES
    rows,      \* users there are
    born,      \* users there have been
    quidax,    \* e-mail addresses with a sub-account at Quidax
    sub,       \* users with a QuidaxSubAccount row
    asked,     \* users for whom Quidax was asked and whose row is not written yet
    issued,    \* addresses Quidax has made, or is making, for a sub-account and coin
    addr,      \* CryptoDepositAddress rows
    deposit,   \* what Quidax says of each deposit
    old,       \* deposits older than AUTO_RECONCILE_MAX_AGE
    event,     \* user of each CryptoDepositEvent row, and of its settlement
    credits,   \* history: how often each deposit was credited
    hooks,     \* deposit webhooks that have found their user
    pass,      \* what each reconciling process is doing
    cursor,    \* the worker's deposit_cursor
    crashes

userVars == <<rows, born>>
subVars == <<quidax, sub, asked>>
addrVars == <<issued, addr>>
creditVars == <<event, credits>>
passVars == <<pass, cursor, crashes>>
vars == <<userVars, subVars, addrVars, deposit, old, creditVars, hooks, passVars>>

(* A pass: the batch, its users left, and of the user it is at the coins   *)
(* to list and the deposits to credit.                                     *)
Resting ==
    [on |-> FALSE, batch |-> {}, left |-> {}, user |-> NoUser, coins |-> {}, todo |-> {}]

-----------------------------------------------------------------------------
(* Registration gives the next primary key; the e-mail address is unique.  *)
Register(u) ==
    /\ u \notin born /\ \A v \in born : v < u
    /\ \A v \in rows : Email[v] # Email[u]
    /\ rows' = rows \cup {u}
    /\ born' = born \cup {u}
    /\ UNCHANGED <<subVars, addrVars, deposit, old, creditVars, hooks, passVars>>

(* A deletion that takes the events, and so their settlements, along.      *)
MutDeleteUser(u) ==
    /\ u \in rows
    /\ rows' = rows \ {u}
    /\ sub' = sub \ {u}
    /\ addr' = [k \in DOMAIN addr |-> IF k[1] = u THEN "none" ELSE addr[k]]
    /\ event' = [d \in Deposits |-> IF event[d] = u THEN NoUser ELSE event[d]]
    /\ UNCHANGED <<born, quidax, asked, issued, deposit, old, credits, hooks, passVars>>

(* delete_user: every row of the user goes, but not while a settlement     *)
(* protects one of the user's deposit events.                              *)
delete_user(u) ==
    /\ u \in rows
    /\ \A d \in Deposits : event[d] # u
    /\ rows' = rows \ {u}
    /\ sub' = sub \ {u}
    /\ addr' = [k \in DOMAIN addr |-> IF k[1] = u THEN "none" ELSE addr[k]]
    /\ UNCHANGED <<born, quidax, asked, issued, deposit, old, creditVars, hooks, passVars>>

-----------------------------------------------------------------------------
(* get_or_create_sub_account, by the signal on a named user's save, by a   *)
(* deposit address request or by the backfill: no row is found and Quidax  *)
(* is asked.  It makes the account or, if the e-mail address has one, the  *)
(* account is looked up; the answer may be lost.                           *)
get_or_create_sub_account(u) ==
    /\ u \in rows /\ u \notin sub /\ u \notin asked
    /\ quidax' = quidax \cup {Email[u]}
    /\ asked' \in {asked, asked \cup {u}}
    /\ UNCHANGED <<userVars, sub, addrVars, deposit, old, creditVars, hooks, passVars>>

(* get_or_create of the row; an error if the user is gone. *)
_link_sub_account(u) ==
    /\ u \in asked
    /\ asked' = asked \ {u}
    /\ sub' = IF u \in rows THEN sub \cup {u} ELSE sub
    /\ UNCHANGED <<userVars, quidax, addrVars, deposit, old, creditVars, hooks, passVars>>

(* A cached address of the right shape is returned as it is.  Another is   *)
(* dropped before Quidax is asked; whether Quidax then lists the address,  *)
(* returns a new one or makes it later, or fails, the row is written now   *)
(* or not at all.                                                          *)
get_deposit_address(u, c) ==
    /\ u \in rows /\ u \in sub
    /\ addr[u, c] # "fits"
    /\ \/ /\ addr' = [addr EXCEPT ![<<u, c>>] = "fits"]
          /\ issued' = issued \cup {<<Email[u], c>>}
       \/ /\ addr' = [addr EXCEPT ![<<u, c>>] = "none"]
          /\ issued' \in {issued, issued \cup {<<Email[u], c>>}}
    /\ UNCHANGED <<userVars, subVars, deposit, old, creditVars, hooks, passVars>>

(* wallet.address.generated: get_or_create for whoever is linked; a row    *)
(* that is there stays as it is.                                           *)
handle_address_generated_webhook(u, c) ==
    /\ u \in sub
    /\ <<Email[u], c>> \in issued
    /\ addr[u, c] = "none"
    /\ addr' = [addr EXCEPT ![<<u, c>>] = "fits"]
    /\ UNCHANGED <<userVars, subVars, issued, deposit, old, creditVars, hooks, passVars>>

-----------------------------------------------------------------------------
(* At Quidax, once an address was made: a deposit is seen, then accepted   *)
(* or not.                                                                 *)
Arrives(d) ==
    /\ PaidTo[d] \in quidax
    /\ deposit[d] = "none" /\ <<PaidTo[d], CoinOf[d]>> \in issued
    /\ deposit' = [deposit EXCEPT ![d] = "submitted"]
    /\ UNCHANGED <<userVars, subVars, addrVars, old, creditVars, hooks, passVars>>

Confirmed(d) ==
    /\ deposit[d] = "submitted"
    /\ \E s \in {"accepted", "rejected"} : deposit' = [deposit EXCEPT ![d] = s]
    /\ UNCHANGED <<userVars, subVars, addrVars, old, creditVars, hooks, passVars>>

GrowsOld(d) ==
    /\ deposit[d] # "none" /\ d \notin old
    /\ old' = old \cup {d}
    /\ UNCHANGED <<userVars, subVars, addrVars, deposit, creditVars, hooks, passVars>>

-----------------------------------------------------------------------------
(* _credit_deposit, one transaction: the event row, whose id is unique,    *)
(* the credit and the settlement; nothing if the event is there, an error  *)
(* if the user is gone.                                                    *)
_credit_deposit(u, d) ==
    IF event[d] = NoUser /\ u \in rows
    THEN /\ event' = [event EXCEPT ![d] = u]
         /\ credits' = [credits EXCEPT ![d] = @ + 1]
    ELSE UNCHANGED creditVars

(* deposit.successful, as often as Quidax sends it: the sub-account's user *)
(* is looked up; of an unknown one, the master's too, nothing is credited. *)
(* A process may be killed, that is never go on, before the credit.        *)
handle_deposit_webhook(d, u) ==
    /\ deposit[d] = "accepted"
    /\ u \in sub /\ Email[u] = PaidTo[d]
    /\ <<d, u>> \notin hooks
    /\ hooks' = hooks \cup {<<d, u>>}
    /\ UNCHANGED <<userVars, subVars, addrVars, deposit, old, creditVars, passVars>>

HookCredits(d, u) ==
    /\ <<d, u>> \in hooks
    /\ hooks' = hooks \ {<<d, u>>}
    /\ _credit_deposit(u, d)
    /\ UNCHANGED <<userVars, subVars, addrVars, deposit, old, passVars>>

-----------------------------------------------------------------------------
SetPass(p, r) == pass' = [pass EXCEPT ![p] = r]

CoinsOf(u) == {c \in Coins : addr[u, c] # "none"}

(* reconcile_recent_deposits: the next sub-accounts by primary key, of     *)
(* users with an address.                                                  *)
Batch ==
    LET next == {u \in sub : u > cursor /\ CoinsOf(u) # {}} IN
    {u \in next : Cardinality({v \in next : v < u}) < BatchSize}

reconcile_recent_deposits ==
    /\ ~pass[Worker].on
    /\ SetPass(Worker, [Resting EXCEPT !.on = TRUE, !.batch = Batch, !.left = Batch])
    /\ UNCHANGED <<userVars, subVars, addrVars, deposit, old, creditVars, hooks, cursor, crashes>>

TakeUser ==
    LET r == pass[Worker] IN
    /\ r.on /\ r.left # {} /\ r.coins = {} /\ r.todo = {}
    /\ \E u \in r.left :
         /\ \A v \in r.left : u <= v
         /\ SetPass(Worker, [r EXCEPT !.user = u, !.left = @ \ {u}, !.coins = CoinsOf(u)])
    /\ UNCHANGED <<userVars, subVars, addrVars, deposit, old, creditVars, hooks, cursor, crashes>>

(* The command asks for one user and coin. *)
ReconcileCommand(u, c) ==
    /\ ~pass[Admin].on
    /\ u \in rows
    /\ SetPass(Admin, [Resting EXCEPT !.on = TRUE, !.user = u, !.coins = {c}])
    /\ UNCHANGED <<userVars, subVars, addrVars, deposit, old, creditVars, hooks, cursor, crashes>>

(* reconcile_deposits: Quidax lists the user's deposits of a coin; those   *)
(* accepted and without an event are to be credited.                       *)
reconcile_deposits(p, u, c) ==
    /\ pass[p].user = u /\ pass[p].todo = {} /\ c \in pass[p].coins
    /\ u \in sub
    /\ SetPass(p, [pass[p] EXCEPT !.coins = @ \ {c},
           !.todo = {d \in Deposits : /\ PaidTo[d] = Email[u] /\ CoinOf[d] = c
                                      /\ deposit[d] = "accepted" /\ event[d] = NoUser}])
    /\ UNCHANGED <<userVars, subVars, addrVars, deposit, old, creditVars, hooks, cursor, crashes>>

(* No sub-account, or Quidax gives no list: on to the next coin.           *)
ListFails(p, c) ==
    /\ pass[p].todo = {} /\ c \in pass[p].coins
    /\ SetPass(p, [pass[p] EXCEPT !.coins = @ \ {c}])
    /\ UNCHANGED <<userVars, subVars, addrVars, deposit, old, creditVars, hooks, cursor, crashes>>

(* The worker leaves an old deposit to the command.  The error a deleted   *)
(* user makes ends the pass where it is.                                   *)
CreditRow(p, d) ==
    LET u == pass[p].user IN
    /\ d \in pass[p].todo
    /\ IF p = Worker /\ d \in old
       THEN UNCHANGED creditVars /\ SetPass(p, [pass[p] EXCEPT !.todo = @ \ {d}])
       ELSE /\ _credit_deposit(u, d)
            /\ SetPass(p, IF u \notin rows /\ event[d] = NoUser THEN Resting
                          ELSE [pass[p] EXCEPT !.todo = @ \ {d}])
    /\ UNCHANGED <<userVars, subVars, addrVars, deposit, old, hooks, cursor, crashes>>

Last(batch) == {u \in batch : \A v \in batch : v <= u}

(* A cursor that is only moved on by a full batch. *)
MutMoveCursor(batch) ==
    IF Cardinality(batch) = BatchSize THEN cursor' \in Last(batch) ELSE UNCHANGED cursor

(* To the last of a full batch; to 0, to begin again, after a shorter one. *)
MoveCursor(batch) ==
    IF Cardinality(batch) = BatchSize THEN cursor' \in Last(batch) ELSE cursor' = 0

PassEnds(p) ==
    /\ pass[p].on /\ pass[p].left = {} /\ pass[p].coins = {} /\ pass[p].todo = {}
    /\ SetPass(p, Resting)
    /\ IF p = Worker THEN MoveCursor(pass[p].batch) ELSE UNCHANGED cursor
    /\ UNCHANGED <<userVars, subVars, addrVars, deposit, old, creditVars, hooks, crashes>>

(* A killed worker begins again at 0. *)
PassDies(p) ==
    /\ pass[p].on
    /\ crashes < MaxCrashes
    /\ crashes' = crashes + 1
    /\ SetPass(p, Resting)
    /\ cursor' = IF p = Worker THEN 0 ELSE cursor
    /\ UNCHANGED <<userVars, subVars, addrVars, deposit, old, creditVars, hooks>>

-----------------------------------------------------------------------------
Init ==
    /\ rows = FirstUsers
    /\ born = FirstUsers
    /\ sub \in SUBSET FirstUsers
    /\ quidax = {Email[u] : u \in sub}
    /\ asked = {}
    /\ \E shown \in SUBSET (sub \X Coins) :
         /\ issued = {<<Email[k[1]], k[2]>> : k \in shown}
         /\ addr \in {[k \in Users \X Coins |-> IF k \in shown THEN shape ELSE "none"] :
                       shape \in {"fits", "misfit"}}
    /\ deposit = [d \in Deposits |-> "none"]
    /\ old = {}
    /\ event = [d \in Deposits |-> NoUser]
    /\ credits = [d \in Deposits |-> 0]
    /\ hooks = {}
    /\ pass = [p \in Passes |-> Resting]
    /\ cursor = 0
    /\ crashes = 0

ListStep(p) == \E u \in Users, c \in Coins : reconcile_deposits(p, u, c)

PassStep(p) ==
    \/ p = Worker /\ (reconcile_recent_deposits \/ TakeUser)
    \/ ListStep(p) \/ \E c \in Coins : ListFails(p, c)
    \/ \E d \in Deposits : CreditRow(p, d)
    \/ PassEnds(p)

Next ==
    \/ \E u \in Users :
         \/ Register(u) \/ delete_user(u)
         \/ get_or_create_sub_account(u) \/ _link_sub_account(u)
         \/ \E c \in Coins : \/ get_deposit_address(u, c)
                             \/ handle_address_generated_webhook(u, c)
                             \/ ReconcileCommand(u, c)
         \/ \E d \in Deposits : \/ handle_deposit_webhook(d, u)
                                \/ HookCredits(d, u)
    \/ \E d \in Deposits : Arrives(d) \/ Confirmed(d) \/ GrowsOld(d)
    \/ \E p \in Passes : PassStep(p) \/ PassDies(p)

Spec == Init /\ [][Next]_vars

(* The worker's loop goes on until it is restarted, and Quidax, asked for  *)
(* a list again and again, gives it.                                       *)
Fairness ==
    /\ WF_vars(PassStep(Worker))
    /\ \A u \in Users, c \in Coins : SF_vars(reconcile_deposits(Worker, u, c))

FairSpec == Spec /\ Fairness

-----------------------------------------------------------------------------
(* Every variable keeps its type. *)
TypeOK ==
    /\ rows \subseteq born /\ born \subseteq Users
    /\ quidax \subseteq Emails
    /\ sub \subseteq rows /\ asked \subseteq Users
    /\ issued \subseteq Emails \X Coins
    /\ addr \in [Users \X Coins -> {"none", "fits", "misfit"}]
    /\ deposit \in [Deposits -> {"none", "submitted", "accepted", "rejected"}]
    /\ old \subseteq Deposits
    /\ event \in [Deposits -> Users \cup {NoUser}]
    /\ credits \in [Deposits -> Nat]
    /\ hooks \subseteq Deposits \X Users
    /\ pass \in [Passes -> [on : BOOLEAN, batch : SUBSET Users, left : SUBSET Users,
                            user : Users \cup {NoUser}, coins : SUBSET Coins,
                            todo : SUBSET Deposits]]
    /\ cursor \in Nat
    /\ crashes \in 0..MaxCrashes

(* A deposit is credited at most once ever, to the user its sub-account    *)
(* belongs to, and only if Quidax accepted it, whatever webhooks, passes   *)
(* and commands overlap and although its user can be deleted and the       *)
(* e-mail address, with its sub-account, registered again.                 *)
CreditOK(d) ==
    /\ credits[d] = IF event[d] = NoUser THEN 0 ELSE 1
    /\ event[d] # NoUser =>
         /\ deposit[d] = "accepted"
         /\ event[d] \in rows
         /\ Email[event[d]] = PaidTo[d]

CreditedAtMostOnceEver == \A d \in Deposits : CreditOK(d)

(* A webhook that found its user, and a row on a pass's list, is about an  *)
(* accepted deposit to the sub-account of the user it has in hand.         *)
HookOK(h) == deposit[h[1]] = "accepted" /\ Email[h[2]] = PaidTo[h[1]]

PassOK(p) ==
    \A d \in pass[p].todo : deposit[d] = "accepted" /\ Email[pass[p].user] = PaidTo[d]

IInv ==
    /\ TypeOK
    /\ \A h \in hooks : HookOK(h)
    /\ \A p \in Passes : PassOK(p)
    /\ CreditedAtMostOnceEver

(* An accepted deposit whose user keeps a deposit address for its coin is  *)
(* credited, without a webhook, unless it grows too old first.             *)
(* The list that Quidax gives is taken to hold it (quidax.py:185).         *)
Watched(d) ==
    /\ deposit[d] = "accepted"
    /\ \E u \in sub : Email[u] = PaidTo[d] /\ addr[u, CoinOf[d]] # "none"

MissedDepositIsCredited ==
    \A d \in Deposits : <>[]Watched(d) => <>(event[d] # NoUser \/ d \in old)
=============================================================================
