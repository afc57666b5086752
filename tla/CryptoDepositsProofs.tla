------------------------ MODULE CryptoDepositsProofs ------------------------
(***************************************************************************)
(* A deposit is credited at most once ever, for any users, deposits,       *)
(* batches and crashes.  What a webhook or a pass has in hand stays true:  *)
(* an accepted deposit stays accepted, and an e-mail address never changes *)
(* its sub-account.                                                        *)
(***************************************************************************)
EXTENDS CryptoDeposits, TLAPS

USE DEF userVars, subVars, addrVars, creditVars, passVars

Pass == [on : BOOLEAN, batch : SUBSET Users, left : SUBSET Users,
         user : Users \cup {NoUser}, coins : SUBSET Coins, todo : SUBSET Deposits]

Addr == [Users \X Coins -> {"none", "fits", "misfit"}]

-----------------------------------------------------------------------------
(* Types *)

(* The types hold at the start.                                            *)
LEMMA InitTypes == Init => TypeOK
<1> SUFFICES ASSUME Init PROVE TypeOK
    OBVIOUS
<1>1. FirstUsers \subseteq Users /\ sub \subseteq FirstUsers
    BY DepositsAssumption DEF Init
<1>2. addr \in Addr
    BY DEF Init, Addr
<1>3. quidax \subseteq Emails
    BY <1>1 DEF Init, Emails
<1>4. issued \subseteq Emails \X Coins
    <2>1. PICK shown \in SUBSET (sub \X Coins) : issued = {<<Email[k[1]], k[2]>> : k \in shown}
        BY DEF Init
    <2>2. \A k \in shown : Email[k[1]] \in Emails /\ k[2] \in Coins
        BY <1>1, <2>1 DEF Emails
    <2>3. QED
        BY <2>1, <2>2
<1>5. pass \in [Passes -> Pass]
    BY DEF Init, Pass, Resting
<1>6. crashes \in 0..MaxCrashes
    BY DepositsAssumption DEF Init
<1>7. QED
    BY <1>1, <1>2, <1>3, <1>4, <1>5, <1>6 DEF Init, TypeOK, Pass, Addr

(* The steps of users and of sub-accounts. *)
LEMMA UserTypes ==
    ASSUME TypeOK, NEW u \in Users,
           Register(u) \/ delete_user(u) \/ get_or_create_sub_account(u) \/ _link_sub_account(u)
    PROVE  TypeOK'
<1>1. CASE Register(u)
    BY <1>1 DEF TypeOK, Register
<1>2. CASE delete_user(u)
    <2>1. addr \in Addr
        BY DEF TypeOK, Addr
    <2>2. addr' \in Addr
        BY <1>2, <2>1 DEF delete_user, Addr
    <2>3. QED
        BY <1>2, <2>2 DEF TypeOK, delete_user, Addr
<1>3. CASE get_or_create_sub_account(u)
    BY <1>3 DEF TypeOK, get_or_create_sub_account, Emails
<1>4. CASE _link_sub_account(u)
    BY <1>4 DEF TypeOK, _link_sub_account
<1>5. QED
    BY <1>1, <1>2, <1>3, <1>4

(* Giving out an address keeps the types.                                  *)
LEMMA AddressTypes ==
    ASSUME TypeOK, NEW u \in Users, NEW c \in Coins,
           get_deposit_address(u, c) \/ handle_address_generated_webhook(u, c)
    PROVE  TypeOK'
<1>1. <<Email[u], c>> \in Emails \X Coins /\ <<u, c>> \in Users \X Coins
    BY DEF Emails
<1>2. addr \in Addr
    BY DEF TypeOK, Addr
<1>3. addr' \in Addr /\ issued' \subseteq Emails \X Coins
    BY <1>1, <1>2 DEF TypeOK, Addr, get_deposit_address, handle_address_generated_webhook
<1>4. QED
    BY <1>3 DEF TypeOK, Addr, get_deposit_address, handle_address_generated_webhook

(* What happens to a deposit on the chain keeps the types.                 *)
LEMMA DepositTypes ==
    ASSUME TypeOK, NEW d \in Deposits, Arrives(d) \/ Confirmed(d) \/ GrowsOld(d)
    PROVE  TypeOK'
BY DEF TypeOK, Arrives, Confirmed, GrowsOld

(* What a credit leaves of the types it touches. *)
LEMMA CreditTypes ==
    ASSUME TypeOK, NEW u, NEW d \in Deposits, _credit_deposit(u, d)
    PROVE  event' \in [Deposits -> Users \cup {NoUser}] /\ credits' \in [Deposits -> Nat]
BY DEF TypeOK, _credit_deposit

(* A webhook keeps the types.                                              *)
LEMMA HookTypes ==
    ASSUME TypeOK, NEW u \in Users, NEW d \in Deposits,
           handle_deposit_webhook(d, u) \/ HookCredits(d, u)
    PROVE  TypeOK'
<1>1. CASE handle_deposit_webhook(d, u)
    BY <1>1 DEF TypeOK, handle_deposit_webhook
<1>2. CASE HookCredits(d, u)
    BY <1>2, CreditTypes DEF TypeOK, HookCredits
<1>3. QED
    BY <1>1, <1>2

(* A pass that becomes another one. *)
LEMMA PassTypes ==
    ASSUME TypeOK, NEW p \in Passes, NEW r \in Pass, SetPass(p, r)
    PROVE  pass' \in [Passes -> Pass]
BY DEF TypeOK, Pass, SetPass

(* A step of a reconciliation pass keeps the types.                        *)
LEMMA PassStepTypes ==
    ASSUME TypeOK, NEW p \in Passes, PassStep(p) \/ PassDies(p)
    PROVE  TypeOK'
<1> DEFINE r == pass[p]
<1>1. r \in Pass /\ Worker \in Passes
    BY DEF TypeOK, Pass, Passes
<1>2. \A q \in Pass : SetPass(p, q) => pass' \in [Passes -> Pass]
    BY PassTypes
<1>3. Resting \in Pass
    BY DEF Resting, Pass
<1>4. \A u : CoinsOf(u) \subseteq Coins
    BY DEF CoinsOf
<1>5. CASE p = Worker /\ reconcile_recent_deposits
    <2>1. Batch \subseteq Users
        BY DEF Batch, TypeOK
    <2>2. [Resting EXCEPT !.on = TRUE, !.batch = Batch, !.left = Batch] \in Pass
        BY <1>3, <2>1 DEF Pass
    <2>3. pass' \in [Passes -> Pass]
        BY <1>5, <1>2, <2>2 DEF reconcile_recent_deposits
    <2>4. QED
        BY <1>5, <2>3 DEF TypeOK, Pass, reconcile_recent_deposits
<1>6. CASE p = Worker /\ TakeUser
    <2>1. PICK u \in r.left :
            SetPass(p, [r EXCEPT !.user = u, !.left = @ \ {u}, !.coins = CoinsOf(u)])
        BY <1>6 DEF TakeUser
    <2>2. [r EXCEPT !.user = u, !.left = @ \ {u}, !.coins = CoinsOf(u)] \in Pass
        BY <1>1, <1>4 DEF Pass
    <2>3. pass' \in [Passes -> Pass]
        BY <1>2, <2>1, <2>2
    <2>4. QED
        BY <1>6, <2>3 DEF TypeOK, Pass, TakeUser
<1>7. CASE ListStep(p)
    <2>1. PICK u \in Users, c \in Coins : reconcile_deposits(p, u, c)
        BY <1>7 DEF ListStep
    <2>2. PICK D \in SUBSET Deposits : SetPass(p, [r EXCEPT !.coins = @ \ {c}, !.todo = D])
        BY <2>1 DEF reconcile_deposits
    <2>3. [r EXCEPT !.coins = @ \ {c}, !.todo = D] \in Pass
        BY <1>1 DEF Pass
    <2>4. pass' \in [Passes -> Pass]
        BY <1>2, <2>2, <2>3
    <2>5. QED
        BY <2>1, <2>4 DEF TypeOK, Pass, reconcile_deposits
<1>8. CASE \E c \in Coins : ListFails(p, c)
    <2>1. PICK c \in Coins : ListFails(p, c)
        BY <1>8
    <2>2. [r EXCEPT !.coins = @ \ {c}] \in Pass
        BY <1>1 DEF Pass
    <2>3. pass' \in [Passes -> Pass]
        BY <1>2, <2>1, <2>2 DEF ListFails
    <2>4. QED
        BY <2>1, <2>3 DEF TypeOK, Pass, ListFails
<1>9. CASE \E d \in Deposits : CreditRow(p, d)
    <2>1. PICK d \in Deposits : CreditRow(p, d)
        BY <1>9
    <2>2. [r EXCEPT !.todo = @ \ {d}] \in Pass
        BY <1>1 DEF Pass
    <2>3. pass' \in [Passes -> Pass]
        BY <1>2, <1>3, <2>1, <2>2 DEF CreditRow
    <2>4. event' \in [Deposits -> Users \cup {NoUser}] /\ credits' \in [Deposits -> Nat]
        BY <2>1, CreditTypes DEF CreditRow, TypeOK
    <2>5. QED
        BY <2>1, <2>3, <2>4 DEF TypeOK, Pass, CreditRow
<1>10. CASE PassEnds(p)
    <2>1. pass' \in [Passes -> Pass]
        BY <1>2, <1>3, <1>10 DEF PassEnds
    <2>2. r.batch \subseteq Nat /\ cursor \in Nat
        BY <1>1, DepositsAssumption DEF TypeOK, Pass
    <2>3. MoveCursor(r.batch) \/ UNCHANGED cursor
        BY <1>10 DEF PassEnds
    <2>4. cursor' \in Nat
        BY <2>2, <2>3 DEF MoveCursor, Last
    <2>5. QED
        BY <1>10, <2>1, <2>4 DEF TypeOK, Pass, PassEnds
<1>11. CASE PassDies(p)
    <2>1. pass' \in [Passes -> Pass]
        BY <1>2, <1>3, <1>11 DEF PassDies
    <2>2. cursor' \in Nat /\ crashes' \in 0..MaxCrashes
        BY <1>11, DepositsAssumption DEF PassDies, TypeOK
    <2>3. QED
        BY <1>11, <2>1, <2>2 DEF TypeOK, Pass, PassDies
<1>12. QED
    BY <1>5, <1>6, <1>7, <1>8, <1>9, <1>10, <1>11 DEF PassStep

(* The reconciliation command keeps the types.                             *)
LEMMA CommandTypes ==
    ASSUME TypeOK, NEW u \in Users, NEW c \in Coins, ReconcileCommand(u, c)
    PROVE  TypeOK'
<1>1. Admin \in Passes /\ Resting \in Pass
    BY DEF Passes, Resting, Pass
<1>2. [Resting EXCEPT !.on = TRUE, !.user = u, !.coins = {c}] \in Pass
    BY <1>1 DEF Pass
<1>3. pass' \in [Passes -> Pass]
    BY <1>1, <1>2, PassTypes DEF ReconcileCommand
<1>4. QED
    BY <1>3 DEF TypeOK, Pass, ReconcileCommand

-----------------------------------------------------------------------------
(* Safety *)

AcceptedStays == \A d \in Deposits : deposit[d] = "accepted" => deposit'[d] = "accepted"

HooksKept == \A h \in hooks' : h \in hooks \/ HookOK(h)'

PassKept(p) ==
    \/ pass'[p].todo \subseteq pass[p].todo /\ pass'[p].user = pass[p].user
    \/ PassOK(p)'

CreditKept(d) ==
    \/ /\ event'[d] = event[d] /\ credits'[d] = credits[d]
       /\ event[d] \in rows => event[d] \in rows'
    \/ CreditOK(d)'

(* What remains to be shown of a step. *)
LEMMA StepKeeps ==
    ASSUME IInv, TypeOK', AcceptedStays, HooksKept,
           \A p \in Passes : PassKept(p), \A d \in Deposits : CreditKept(d)
    PROVE  IInv'
<1>1. ASSUME NEW h \in hooks' PROVE HookOK(h)'
    <2>1. CASE h \in hooks
        <3>1. h[1] \in Deposits /\ HookOK(h)
            BY <2>1 DEF IInv, TypeOK
        <3>2. QED
            BY <3>1 DEF HookOK, AcceptedStays
    <2>2. QED
        BY <1>1, <2>1 DEF HooksKept
<1>2. ASSUME NEW p \in Passes PROVE PassOK(p)'
    <2>1. pass[p].todo \subseteq Deposits /\ PassOK(p)
        BY DEF IInv, TypeOK
    <2>2. QED
        BY <2>1 DEF PassOK, PassKept, AcceptedStays
<1>3. ASSUME NEW d \in Deposits PROVE CreditOK(d)'
    <2>1. CreditOK(d) /\ CreditKept(d)
        BY DEF IInv, CreditedAtMostOnceEver
    <2>2. QED
        BY <2>1 DEF CreditOK, CreditKept, AcceptedStays
<1>4. QED
    BY <1>1, <1>2, <1>3 DEF IInv, CreditedAtMostOnceEver

(* A credit of an accepted deposit to the user of its sub-account. *)
LEMMA CreditSafe ==
    ASSUME IInv, NEW u, NEW d \in Deposits, _credit_deposit(u, d), UNCHANGED <<rows, deposit>>,
           deposit[d] = "accepted", Email[u] = PaidTo[d]
    PROVE  \A e \in Deposits : CreditKept(e)
<1>1. CASE event[d] = NoUser /\ u \in rows
    <2>1. /\ event' = [event EXCEPT ![d] = u]
          /\ credits' = [credits EXCEPT ![d] = @ + 1]
        BY <1>1 DEF _credit_deposit
    <2>2. credits[d] = 0 /\ u # NoUser
        BY <1>1, DepositsAssumption DEF IInv, TypeOK, CreditedAtMostOnceEver, CreditOK
    <2>3. CreditOK(d)'
        BY <1>1, <2>1, <2>2 DEF CreditOK, IInv, TypeOK
    <2>4. \A e \in Deposits \ {d} : CreditKept(e)
        BY <2>1 DEF CreditKept, IInv, TypeOK
    <2>5. QED
        BY <2>3, <2>4 DEF CreditKept
<1>2. CASE UNCHANGED creditVars
    BY <1>2 DEF CreditKept
<1>3. QED
    BY <1>1, <1>2 DEF _credit_deposit

(* Every step keeps the types.                                             *)
LEMMA NextTypes == ASSUME TypeOK, Next PROVE TypeOK'
BY UserTypes, AddressTypes, CommandTypes, HookTypes, DepositTypes, PassStepTypes DEF Next

(* The invariant holds at the start.                                       *)
LEMMA InitIInv == Init => IInv
<1>1. Init => TypeOK
    BY InitTypes
<1>2. Init => /\ \A h \in hooks : HookOK(h)
              /\ \A p \in Passes : PassOK(p)
              /\ CreditedAtMostOnceEver
    BY DEF Init, PassOK, Resting, CreditedAtMostOnceEver, CreditOK
<1>3. QED
    BY <1>1, <1>2 DEF IInv

(* Steps that leave the passes, the webhooks and the credits alone. *)
LEMMA QuietSafe ==
    ASSUME IInv, TypeOK', UNCHANGED <<creditVars, hooks, pass>>, AcceptedStays,
           \A d \in Deposits : event[d] \in rows => event[d] \in rows'
    PROVE  IInv'
BY StepKeeps DEF HooksKept, PassKept, CreditKept

(* A webhook keeps the invariant: it credits once.                         *)
LEMMA HookSafe ==
    ASSUME IInv, TypeOK', NEW u \in Users, NEW d \in Deposits,
           handle_deposit_webhook(d, u) \/ HookCredits(d, u)
    PROVE  IInv'
<1>1. CASE handle_deposit_webhook(d, u)
    <2>1. HooksKept /\ AcceptedStays
        BY <1>1 DEF handle_deposit_webhook, HooksKept, HookOK, AcceptedStays
    <2>2. QED
        BY <1>1, <2>1, StepKeeps DEF handle_deposit_webhook, PassKept, CreditKept
<1>2. CASE HookCredits(d, u)
    <2>1. HookOK(<<d, u>>)
        BY <1>2 DEF HookCredits, IInv
    <2>2. \A e \in Deposits : CreditKept(e)
        BY <1>2, <2>1, CreditSafe DEF HookCredits, HookOK
    <2>3. HooksKept /\ AcceptedStays /\ \A p \in Passes : PassKept(p)
        BY <1>2 DEF HookCredits, HooksKept, AcceptedStays, PassKept
    <2>4. QED
        BY <2>2, <2>3, StepKeeps
<1>3. QED
    BY <1>1, <1>2

(* A pass that is set to one whose list is right. *)
LEMMA PassSafe ==
    ASSUME IInv, TypeOK', NEW p \in Passes, NEW r \in Pass, SetPass(p, r),
           UNCHANGED <<rows, deposit, hooks>>, \A d \in Deposits : CreditKept(d),
           \/ r.todo \subseteq pass[p].todo /\ r.user = pass[p].user
           \/ \A d \in r.todo : deposit[d] = "accepted" /\ Email[r.user] = PaidTo[d]
    PROVE  IInv'
<1>1. pass'[p] = r /\ \A q \in Passes \ {p} : pass'[q] = pass[q]
    BY DEF SetPass, IInv, TypeOK
<1>2. PassKept(p)
    BY <1>1 DEF PassKept, PassOK
<1>3. \A q \in Passes \ {p} : PassKept(q)
    BY <1>1 DEF PassKept
<1>4. HooksKept /\ AcceptedStays
    BY DEF HooksKept, AcceptedStays
<1>5. QED
    BY <1>2, <1>3, <1>4, StepKeeps

(* A step of a reconciliation pass keeps the invariant.                    *)
LEMMA PassStepSafe ==
    ASSUME IInv, TypeOK', NEW p \in Passes, PassStep(p) \/ PassDies(p)
    PROVE  IInv'
<1> DEFINE r == pass[p]
<1>1. r \in Pass /\ Resting \in Pass /\ Resting.todo = {}
    BY DEF IInv, TypeOK, Pass, Resting
<1>2. pass' \in [Passes -> Pass] /\ pass \in [Passes -> Pass]
    BY DEF IInv, TypeOK, Pass
<1>3. CASE p = Worker /\ (reconcile_recent_deposits \/ TakeUser)
    <2>1. PICK q : SetPass(p, q) /\ q.todo = {}
        <3>1. CASE reconcile_recent_deposits
            <4>1. [Resting EXCEPT !.on = TRUE, !.batch = Batch, !.left = Batch].todo = {}
                BY DEF Resting
            <4>2. QED
                BY <1>3, <3>1, <4>1 DEF reconcile_recent_deposits
        <3>2. CASE TakeUser
            <4>1. PICK u \in r.left :
                    SetPass(p, [r EXCEPT !.user = u, !.left = @ \ {u}, !.coins = CoinsOf(u)])
                BY <1>3, <3>2 DEF TakeUser
            <4>2. [r EXCEPT !.user = u, !.left = @ \ {u}, !.coins = CoinsOf(u)].todo = r.todo
                BY <1>1 DEF Pass
            <4>3. r.todo = {}
                BY <1>3, <3>2 DEF TakeUser
            <4>4. QED
                BY <4>1, <4>2, <4>3
        <3>3. QED
            BY <1>3, <3>1, <3>2
    <2>2. PassKept(p) /\ \A o \in Passes \ {p} : PassKept(o)
        BY <1>2, <2>1 DEF PassKept, PassOK, SetPass
    <2>3. HooksKept /\ AcceptedStays /\ \A d \in Deposits : CreditKept(d)
        BY <1>3 DEF reconcile_recent_deposits, TakeUser, HooksKept, AcceptedStays, CreditKept
    <2>4. QED
        BY <2>2, <2>3, StepKeeps
<1>4. CASE ListStep(p)
    <2>1. PICK u \in Users, c \in Coins : reconcile_deposits(p, u, c)
        BY <1>4 DEF ListStep
    <2> DEFINE D == {d \in Deposits : /\ PaidTo[d] = Email[u] /\ CoinOf[d] = c
                                      /\ deposit[d] = "accepted" /\ event[d] = NoUser}
               q == [r EXCEPT !.coins = @ \ {c}, !.todo = D]
    <2>2. r.user = u /\ SetPass(p, q)
        BY <2>1 DEF reconcile_deposits
    <2>3. q \in Pass /\ q.user = u /\ q.todo = D
        BY <1>1, <2>2 DEF Pass
    <2>4. UNCHANGED <<rows, deposit, hooks>> /\ \A d \in Deposits : CreditKept(d)
        BY <2>1 DEF reconcile_deposits, CreditKept
    <2> HIDE DEF q
    <2>5. QED
        BY <2>2, <2>3, <2>4, PassSafe
<1>5. CASE \E c \in Coins : ListFails(p, c)
    <2>1. PICK c \in Coins : ListFails(p, c)
        BY <1>5
    <2> DEFINE q == [r EXCEPT !.coins = @ \ {c}]
    <2>2. q \in Pass /\ q.user = r.user /\ q.todo = r.todo /\ SetPass(p, q)
        BY <1>1, <2>1 DEF Pass, ListFails
    <2>3. UNCHANGED <<rows, deposit, hooks>> /\ \A d \in Deposits : CreditKept(d)
        BY <2>1 DEF ListFails, CreditKept
    <2> HIDE DEF q
    <2>4. QED
        BY <2>2, <2>3, PassSafe
<1>6. CASE \E d \in Deposits : CreditRow(p, d)
    <2>1. PICK d \in Deposits : CreditRow(p, d)
        BY <1>6
    <2>2. deposit[d] = "accepted" /\ Email[r.user] = PaidTo[d]
        BY <2>1 DEF CreditRow, IInv, PassOK
    <2>3. UNCHANGED <<rows, deposit, hooks>>
        BY <2>1 DEF CreditRow
    <2>4. \A e \in Deposits : CreditKept(e)
        <3>1. CASE UNCHANGED creditVars
            BY <2>3, <3>1 DEF CreditKept
        <3>2. CASE _credit_deposit(r.user, d)
            BY <2>2, <2>3, <3>2, CreditSafe
        <3>3. QED
            BY <2>1, <3>1, <3>2 DEF CreditRow
    <2> DEFINE q == [r EXCEPT !.todo = @ \ {d}]
    <2>5. q \in Pass /\ q.user = r.user /\ q.todo \subseteq r.todo
        BY <1>1 DEF Pass
    <2>6. SetPass(p, Resting) \/ SetPass(p, q)
        BY <2>1 DEF CreditRow
    <2> HIDE DEF q
    <2>7. QED
        BY <1>1, <2>3, <2>4, <2>5, <2>6, PassSafe
<1>7. CASE PassEnds(p) \/ PassDies(p)
    <2>1. UNCHANGED <<rows, deposit, hooks>> /\ SetPass(p, Resting)
          /\ \A d \in Deposits : CreditKept(d)
        BY <1>7 DEF PassEnds, PassDies, CreditKept
    <2>2. QED
        BY <1>1, <2>1, PassSafe
<1>8. QED
    BY <1>3, <1>4, <1>5, <1>6, <1>7 DEF PassStep

(* The reconciliation command keeps the invariant.                         *)
LEMMA CommandSafe ==
    ASSUME IInv, TypeOK', NEW u \in Users, NEW c \in Coins, ReconcileCommand(u, c)
    PROVE  IInv'
<1> DEFINE q == [Resting EXCEPT !.on = TRUE, !.user = u, !.coins = {c}]
<1>1. q \in Pass /\ q.todo = {} /\ Admin \in Passes /\ SetPass(Admin, q)
    BY DEF ReconcileCommand, Resting, Pass, Passes
<1>2. UNCHANGED <<rows, deposit, hooks>> /\ \A d \in Deposits : CreditKept(d)
    BY DEF ReconcileCommand, CreditKept
<1> HIDE DEF q
<1>3. QED
    BY <1>1, <1>2, PassSafe

(* Every step keeps the invariant.                                         *)
LEMMA NextKeeps == ASSUME IInv, Next PROVE IInv'
<1>1. TypeOK'
    BY NextTypes DEF IInv
<1>2. ASSUME NEW u \in Users, Register(u) PROVE IInv'
    BY <1>1, <1>2, QuietSafe DEF Register, AcceptedStays
<1>3. ASSUME NEW u \in Users, delete_user(u) PROVE IInv'
    <2>1. \A d \in Deposits : event[d] \in rows => event[d] \in rows'
        BY <1>3 DEF delete_user
    <2>2. QED
        BY <1>1, <1>3, <2>1, QuietSafe DEF delete_user, AcceptedStays
<1>4. ASSUME NEW u \in Users, get_or_create_sub_account(u) \/ _link_sub_account(u) PROVE IInv'
    BY <1>1, <1>4, QuietSafe DEF get_or_create_sub_account, _link_sub_account, AcceptedStays
<1>5. ASSUME NEW u \in Users, NEW c \in Coins,
             get_deposit_address(u, c) \/ handle_address_generated_webhook(u, c)
      PROVE  IInv'
    BY <1>1, <1>5, QuietSafe
       DEF get_deposit_address, handle_address_generated_webhook, AcceptedStays
<1>6. ASSUME NEW d \in Deposits, Arrives(d) \/ Confirmed(d) \/ GrowsOld(d) PROVE IInv'
    <2>1. AcceptedStays /\ UNCHANGED <<rows, creditVars, hooks, pass>>
        BY <1>6 DEF Arrives, Confirmed, GrowsOld, AcceptedStays, IInv, TypeOK
    <2>2. QED
        BY <1>1, <2>1, QuietSafe
<1>7. QED
    BY <1>1, <1>2, <1>3, <1>4, <1>5, <1>6, CommandSafe, HookSafe, PassStepSafe DEF Next

-----------------------------------------------------------------------------
(* A webhook or a pass only ever has accepted deposits of its user in      *)
(* hand, and each credit has an event that nothing takes away.             *)
THEOREM InductiveInvariant == Spec => []IInv
<1>1. IInv /\ [Next]_vars => IInv'
    <2>1. IInv /\ UNCHANGED vars => IInv'
        BY DEF vars, IInv, TypeOK, HookOK, PassOK, CreditedAtMostOnceEver, CreditOK
    <2>2. QED
        BY <2>1, NextKeeps
<1>2. QED
    BY InitIInv, <1>1, PTL DEF Spec

(* Every variable keeps its type. *)
THEOREM TypeCorrect == Spec => []TypeOK
<1>1. IInv => TypeOK
    BY DEF IInv
<1>2. QED
    BY InductiveInvariant, <1>1, PTL

(* A deposit is credited at most once ever, whatever webhooks, passes and  *)
(* commands overlap and whoever registers again under its e-mail address.  *)
THEOREM CreditedOnceEver == Spec => []CreditedAtMostOnceEver
<1>1. IInv => CreditedAtMostOnceEver
    BY DEF IInv
<1>2. QED
    BY InductiveInvariant, <1>1, PTL
=============================================================================
