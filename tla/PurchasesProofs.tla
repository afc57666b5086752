--------------------------- MODULE PurchasesProofs ---------------------------
(***************************************************************************)
(* The purchases' invariants and their refinement of the escrow, for any   *)
(* users, purchases, amounts, processes and bounds.  A step works on one   *)
(* purchase and moves one process: StepKeeps says what remains to be shown *)
(* of such a step, and each action has a lemma that shows it.              *)
(***************************************************************************)
EXTENDS Purchases, TLAPS

USE DEF ledgerVars, bookVars, historyVars, giftVars

Price == VtuPurchases \cup GiftCards  \* purchases whose refund is _refund_and_fail

(* The kinds of purchases do not overlap, and their references are rows'.  *)
LEMMA Kinds ==
    /\ Purchases \subseteq Transactions
    /\ Purchases = Price \cup Cards
    /\ Price \cap Cards = {}
    /\ Priced = Price \cup Fundings /\ Priced \subseteq Purchases
    /\ Fundings \cap Unloads = {}
    /\ NoTx \notin Purchases
BY PurchaseAssumption, FundingAssumption, PurchasesAssumption, LedgerAssumption
   DEF Cards, Priced, Price

(* The idle job is at no purchase's step and on no purchase. *)
LEMMA IdleFacts ==
    Idle \in Jobs /\ Idle.at = "idle" /\ Idle.tx = NoTx /\ Idle.tx \notin Purchases
BY Kinds DEF Idle, Job, Jobs, Steps, WalletSteps, Answers, FlutterwaveAnswers

(* Any other step, purchase and answer make a job, which has them back. *)
IsJob(j, at, x, says) ==
    j \in Jobs /\ j.at = at /\ j.tx = x /\ j.says = says /\ j # Idle

(* A job and its fields.                                                   *)
LEMMA JobFacts ==
    ASSUME NEW at \in {"record", "send", "apply", "giveback", "refund"}, NEW x \in Purchases,
           NEW says \in {""} \cup ProviderAnswers
    PROVE  IsJob(Job(at, x, says), at, x, says)
<1> DEFINE j == Job(at, x, says)
<1>1. x \in Transactions /\ at \in Steps /\ says \in Answers /\ at # "idle"
    BY Kinds DEF Steps, WalletSteps, PurchaseSteps, Answers, ProviderAnswers
<1>2. j \in Jobs /\ j.at = at /\ j.tx = x /\ j.says = says
    BY <1>1 DEF Job, Jobs
<1>3. QED
    BY <1>1, <1>2, IdleFacts DEF IsJob

(* What a provider can have said, and what that says of the order. *)
LEMMA ToldFacts ==
    ASSUME BookTypeOK, NEW x \in Purchases
    PROVE  /\ Told(x) \subseteq ProviderAnswers
           /\ "done" \in Told(x) => order[x] \in {"done", "reversed"}
           /\ "failed" \in Told(x) => order[x] = "failed"
           /\ "reversed" \in Told(x) => order[x] = "reversed"
           /\ Told(x) # {} => order[x] # "unsent"
BY DEF Told, ProviderAnswers, BookTypeOK, Ended

(* The invariant, one purchase at a time. *)
LEMMA ByPurchase ==
    IInv <=> /\ TypeOK
             /\ \A p \in Procs : JobOK(p)
             /\ OneRequest
             /\ \A x \in Purchases : RowOK(x) /\ ResultOK(x) /\ (x \in paid => AccountedFor(x))
<1>1. TypeOK => paid \subseteq Purchases
    BY DEF TypeOK, BookTypeOK
<1>2. QED
    BY <1>1 DEF IInv, RefundedOnlyIfUndoneOrGuessed, DebitsAreAccountedFor

(* A step that leaves every other purchase alone. *)
OnlyRow(x) ==
    \A y \in Purchases \ {x} :
        /\ st'[y] = st[y] /\ order'[y] = order[y] /\ refunds'[y] = refunds[y]
        /\ y \in paid' <=> y \in paid
        /\ y \in guessed' <=> y \in guessed
        /\ y \in killed' <=> y \in killed

(* Such a step loses neither the debit, nor the row, nor the provider's    *)
(* words of the purchase it works on.                                      *)
RowGrows(x) ==
    /\ x \in paid => x \in paid'
    /\ st[x] # "none" => st'[x] # "none"
    /\ Told(x) \subseteq Told(x)'

(* A process that is idle or on x moves on with x or ends; nobody else is  *)
(* on x, unless its row exists and it is no card's.  What has to be shown  *)
(* is the invariant of x and of that process.                              *)
LEMMA StepKeeps ==
    ASSUME IInv, NEW p \in Procs, NEW x \in Purchases, NEW j \in Jobs,
           SetJob(p, j), TypeOK', OnlyRow(x), RowGrows(x),
           job[p].tx \in {x, NoTx}, j.tx \in {x, NoTx},
           \A q \in Procs \ {p} : job[q].tx = x => x \notin Cards /\ st[x] # "none",
           JobOK(p)', RowOK(x)', ResultOK(x)', x \in paid' => AccountedFor(x)'
    PROVE  IInv'
<1> USE Kinds
<1>1. job \in [Procs -> Jobs] /\ \A q \in Procs : JobOK(q)
    BY DEF IInv, TypeOK, LedgerTypeOK
<1>2. job'[p] = j /\ \A q \in Procs \ {p} : job'[q] = job[q]
    BY <1>1 DEF SetJob
<1>3. ASSUME NEW q \in Procs \ {p} PROVE JobOK(q)'
    <2>1. CASE job[q] = Idle
        BY <2>1, <1>2 DEF JobOK, Idle, Job
    <2>2. CASE job[q] # Idle /\ job[q].tx # x
        <3> DEFINE y == job[q].tx
        <3>1. y \in Purchases \ {x}
            BY <2>2, <1>1 DEF JobOK
        <3>2. /\ st'[y] = st[y] /\ order'[y] = order[y] /\ refunds'[y] = refunds[y]
              /\ y \in paid' <=> y \in paid
            BY <3>1 DEF OnlyRow
        <3>3. Told(y)' = Told(y)
            BY <1>2, <3>2 DEF Told
        <3>4. QED
            BY <2>2, <1>1, <1>2, <3>1, <3>2, <3>3 DEF JobOK, IsAt
    <2>3. CASE job[q] # Idle /\ job[q].tx = x
        <3>1. x \notin Cards /\ st[x] # "none" /\ st'[x] # "none"
            BY <2>3 DEF RowGrows
        <3>2. x \notin Fundings
            BY <3>1 DEF Cards
        <3>3. JobOK(q)
            BY <1>1
        <3>4. QED
            BY <2>3, <1>2, <3>1, <3>2, <3>3 DEF JobOK, IsAt, RowGrows
    <2>4. QED
        BY <2>1, <2>2, <2>3
<1>4. OneRequest'
    <2> SUFFICES ASSUME NEW q \in Procs, NEW r \in Procs, q # r,
                        job'[q].tx = job'[r].tx, job'[q].tx \in Purchases
                 PROVE  job'[q].tx \notin Cards /\ st'[job'[q].tx] # "none"
        BY DEF OneRequest
    <2>1. CASE q # p /\ r # p
        <3>1. job[q].tx \notin Cards /\ st[job[q].tx] # "none"
            BY <2>1, <1>2 DEF IInv, OneRequest
        <3>2. QED
            BY <2>1, <3>1, <1>2 DEF OnlyRow, RowGrows
    <2>2. CASE q = p
        BY <2>2, <1>2 DEF RowGrows
    <2>3. CASE r = p
        BY <2>3, <1>2 DEF RowGrows
    <2>4. QED
        BY <2>1, <2>2, <2>3
<1>5. ASSUME NEW y \in Purchases \ {x}
      PROVE  (RowOK(y) /\ ResultOK(y) /\ (y \in paid => AccountedFor(y)))'
    <2>1. /\ st'[y] = st[y] /\ order'[y] = order[y] /\ refunds'[y] = refunds[y]
          /\ y \in paid' <=> y \in paid
          /\ y \in guessed' <=> y \in guessed
          /\ y \in killed' <=> y \in killed
        BY DEF OnlyRow
    <2>2. RowOK(y) /\ ResultOK(y) /\ (y \in paid => AccountedFor(y))
        BY ByPurchase
    <2>3. InHands(y) => InHands(y)'
        BY <1>2 DEF InHands
    <2>4. QED
        BY <2>1, <2>2, <2>3 DEF RowOK, ResultOK, AccountedFor, AnsweredFailed
<1>6. QED
    <2>1. \A q \in Procs : JobOK(q)'
        BY <1>3
    <2>2. \A y \in Purchases :
            (RowOK(y) /\ ResultOK(y) /\ (y \in paid => AccountedFor(y)))'
        BY <1>5
    <2>3. paid' \subseteq Purchases
        BY DEF TypeOK, BookTypeOK
    <2>4. QED
        BY <1>4, <2>1, <2>2, <2>3
           DEF IInv, RefundedOnlyIfUndoneOrGuessed, DebitsAreAccountedFor

(* The initial state satisfies the invariant. *)
LEMMA InitInv == Init => IInv
<1> SUFFICES ASSUME Init PROVE IInv
    OBVIOUS
<1> USE LedgerAssumption, GiftCardAssumption
        DEF Init, LedgerInit, BookInit, GiftInit
<1>1. \A p \in Procs : job[p] = Idle /\ job[p].tx \notin Purchases
    BY IdleFacts
<1>2. TypeOK
    BY <1>1, IdleFacts
       DEF TypeOK, LedgerTypeOK, BookTypeOK, GiftTypeOK, Statuses, Ended
<1>3. (\A p \in Procs : JobOK(p)) /\ OneRequest
    BY <1>1 DEF JobOK, OneRequest
<1>4. \A x \in Purchases : RowOK(x) /\ ResultOK(x) /\ (x \in paid => AccountedFor(x))
    BY DEF RowOK, ResultOK
<1>5. QED
    BY <1>2, <1>3, <1>4, ByPurchase

(* A purchase that begins is nobody's, and has neither a row nor a debit. *)
LEMMA Fresh ==
    ASSUME IInv, NEW p \in Procs, NEW x \in Purchases, Begins(p, x)
    PROVE  /\ job[p] = Idle /\ job[p].tx = NoTx
           /\ \A q \in Procs : job[q].tx # x
           /\ st[x] = "none" /\ order[x] = "unsent" /\ x \notin paid
           /\ refunds[x] = 0 /\ x \notin guessed
<1>1. /\ job[p] = Idle /\ st[x] = "none" /\ x \notin paid
      /\ \A q \in Procs : job[q].tx # x
    BY DEF Begins, Begun
<1>2. RowOK(x) /\ refunds[x] \in Nat
    BY DEF IInv, TypeOK, BookTypeOK
<1>3. QED
    BY <1>1, <1>2, IdleFacts DEF RowOK

(* A debit of the price keeps balances and the set of debits typed. *)
LEMMA DebitTypes ==
    ASSUME LedgerTypeOK, NEW x \in Transactions, Debit(Owner[x], Amount[x])
    PROVE  balance' \in [Users -> Nat]
BY LedgerAssumption DEF LedgerTypeOK, Debit, HasFunds

(* So does a credit. *)
LEMMA CreditTypes ==
    ASSUME LedgerTypeOK, NEW x \in Transactions, Credit(Owner[x], Amount[x])
    PROVE  balance' \in [Users -> Nat]
BY LedgerAssumption DEF LedgerTypeOK, Credit

(* A debit whose row comes next. *)
LEMMA DebitFirst ==
    ASSUME IInv, NEW p \in Procs, NEW x \in VtuPurchases \cup Fundings,
           Charges(p, x, "record"),
           UNCHANGED <<outside, crashes, st, order, refunds, guessed, killed, giftVars>>
    PROVE  IInv'
<1>1. x \in Purchases /\ x \in Transactions /\ x \in Priced /\ x \notin Unloads
      /\ x \in VtuPurchases \cup Cards
    BY Kinds DEF Price, Cards
<1>0. PICK j : j = Job("record", x, "")
    OBVIOUS
<1>2. /\ Begins(p, x) /\ Debit(Owner[x], Amount[x])
      /\ paid' = paid \cup {x} /\ SetJob(p, j)
    BY <1>0 DEF Charges
<1>3. j \in Jobs /\ j.at = "record" /\ j.tx = x /\ j # Idle
    <2>1. IsJob(j, "record", x, "")
        BY <1>0, <1>1, JobFacts
    <2>2. QED
        BY <2>1 DEF IsJob, Jobs
<1>4. /\ job[p] = Idle /\ job[p].tx = NoTx
      /\ \A q \in Procs : job[q].tx # x
      /\ st[x] = "none" /\ order[x] = "unsent" /\ x \notin paid
      /\ refunds[x] = 0 /\ x \notin guessed
    BY <1>1, <1>2, Fresh
<1>5. job'[p] = j
    BY <1>2 DEF SetJob, IInv, TypeOK, LedgerTypeOK
<1>6. TypeOK'
    BY <1>1, <1>2, <1>3, DebitTypes
       DEF IInv, TypeOK, LedgerTypeOK, BookTypeOK, GiftTypeOK, SetJob
<1>7. OnlyRow(x) /\ RowGrows(x)
    BY <1>2 DEF OnlyRow, RowGrows, Told
<1>8. JobOK(p)' /\ RowOK(x)' /\ ResultOK(x)' /\ AccountedFor(x)'
    BY <1>1, <1>2, <1>3, <1>4, <1>5
       DEF JobOK, IsAt, PurchaseSteps, RowOK, ResultOK, AccountedFor, InHands
<1>9. QED
    BY <1>1, <1>2, <1>3, <1>4, <1>6, <1>7, <1>8, StepKeeps

(* A gift card's debit commits with its row. *)
LEMMA BuyGiftCard ==
    ASSUME IInv, NEW p \in Procs, NEW g \in GiftCards, buy_gift_card(p, g)
    PROVE  IInv'
<1>1. g \in Purchases /\ g \in Transactions /\ g \in Priced /\ g \notin Cards
    BY Kinds DEF Price
<1>0. PICK j : j = Job("send", g, "")
    OBVIOUS
<1>2. /\ Begins(p, g) /\ Debit(Owner[g], Amount[g]) /\ paid' = paid \cup {g}
      /\ SetJob(p, j) /\ Records(g)
      /\ UNCHANGED <<outside, crashes, refunds, guessed, killed, giftVars>>
    BY <1>0 DEF buy_gift_card, Charges
<1>3. j \in Jobs /\ j.at = "send" /\ j.tx = g /\ j # Idle
    <2>1. IsJob(j, "send", g, "")
        BY <1>0, <1>1, JobFacts
    <2>2. QED
        BY <2>1 DEF IsJob, Jobs
<1>4. /\ job[p] = Idle /\ job[p].tx = NoTx
      /\ \A q \in Procs : job[q].tx # g
      /\ st[g] = "none" /\ order[g] = "unsent" /\ g \notin paid
      /\ refunds[g] = 0 /\ g \notin guessed
    BY <1>1, <1>2, Fresh
<1>5. job'[p] = j /\ st'[g] = "PENDING" /\ order'[g] = "sent"
    BY <1>1, <1>2 DEF SetJob, Records, IInv, TypeOK, LedgerTypeOK, BookTypeOK
<1>6. TypeOK'
    BY <1>1, <1>2, <1>3, DebitTypes
       DEF IInv, TypeOK, LedgerTypeOK, BookTypeOK, GiftTypeOK, SetJob, Records, Statuses
<1>7. OnlyRow(g) /\ RowGrows(g)
    BY <1>1, <1>2, <1>4, <1>5
       DEF OnlyRow, RowGrows, Told, Records, IInv, TypeOK, BookTypeOK
<1>8. JobOK(p)'
    BY <1>1, <1>2, <1>3, <1>5 DEF JobOK, IsAt, PurchaseSteps
<1>9. RowOK(g)' /\ ResultOK(g)' /\ AccountedFor(g)'
    BY <1>1, <1>2, <1>4, <1>5, Kinds DEF RowOK, ResultOK, AccountedFor, Cards
<1>10. QED
    BY <1>1, <1>2, <1>3, <1>4, <1>6, <1>7, <1>8, <1>9, StepKeeps

(* A withdrawal from the card begins. *)
LEMMA WithdrawCard ==
    ASSUME IInv, NEW p \in Procs, NEW x \in Purchases, withdraw_card(p, x),
           UNCHANGED giftVars
    PROVE  IInv'
<1>1. x \notin Priced /\ x \in Cards /\ x \in VtuPurchases \cup Cards
    BY Kinds DEF withdraw_card, Cards, Priced, Price
<1>0. PICK j : j = Job("record", x, "")
    OBVIOUS
<1>2. /\ Begins(p, x) /\ SetJob(p, j)
      /\ UNCHANGED <<balance, outside, crashes, st, order, paid, refunds, guessed, killed>>
    BY <1>0 DEF withdraw_card
<1>3. j \in Jobs /\ j.at = "record" /\ j.tx = x /\ j # Idle
    <2>1. IsJob(j, "record", x, "")
        BY <1>0, JobFacts
    <2>2. QED
        BY <2>1 DEF IsJob, Jobs
<1>4. /\ job[p] = Idle /\ job[p].tx = NoTx
      /\ \A q \in Procs : job[q].tx # x
      /\ st[x] = "none" /\ x \notin paid
    BY <1>2, Fresh
<1>5. job'[p] = j
    BY <1>2 DEF SetJob, IInv, TypeOK, LedgerTypeOK
<1>6. TypeOK'
    BY <1>2, <1>3 DEF IInv, TypeOK, LedgerTypeOK, BookTypeOK, GiftTypeOK, SetJob
<1>7. OnlyRow(x) /\ RowGrows(x)
    BY <1>2 DEF OnlyRow, RowGrows, Told
<1>8. JobOK(p)' /\ RowOK(x)' /\ ResultOK(x)'
    BY <1>1, <1>2, <1>3, <1>4, <1>5, ByPurchase
       DEF JobOK, IsAt, PurchaseSteps, RowOK, ResultOK
<1>9. QED
    BY <1>2, <1>3, <1>4, <1>6, <1>7, <1>8, StepKeeps

(* The row of a purchase in a process's hands, and the request. *)
LEMMA RecordRow ==
    ASSUME IInv, NEW p \in Procs, NEW x \in Purchases,
           _create_pending_tx(p, x) \/ CreateCardTransaction(p, x), UNCHANGED giftVars
    PROVE  IInv'
<1>0. PICK j : j = Job("send", x, "")
    OBVIOUS
<1>1. j \in Jobs /\ j.at = "send" /\ j.tx = x /\ j # Idle
    <2>1. IsJob(j, "send", x, "")
        BY <1>0, JobFacts
    <2>2. QED
        BY <2>1 DEF IsJob, Jobs
<1>2. /\ SetJob(p, j) /\ Records(x)
      /\ UNCHANGED <<balance, outside, crashes, paid, refunds, guessed, killed>>
    BY <1>0 DEF _create_pending_tx, CreateCardTransaction
<1>3. IsAt(p, "record") /\ job[p].tx = x
    BY DEF _create_pending_tx, CreateCardTransaction
<1>4. st[x] = "none" /\ (x \in Priced => x \in paid) /\ RowOK(x) /\ refunds[x] = 0
    <2>1. JobOK(p) /\ job[p] # Idle
        BY <1>3, IdleFacts DEF IInv, IsAt
    <2>2. st[x] = "none" /\ (x \in Priced => x \in paid) /\ RowOK(x)
        BY <1>3, <2>1 DEF IInv, JobOK
    <2>3. refunds[x] \in Nat
        BY DEF IInv, TypeOK, BookTypeOK
    <2>4. QED
        BY <2>2, <2>3 DEF RowOK
<1>5. \A q \in Procs \ {p} : job[q].tx # x
    BY <1>3, <1>4 DEF IInv, OneRequest
<1>6. job'[p] = j /\ st'[x] = "PENDING" /\ order'[x] = "sent"
    BY <1>2 DEF SetJob, Records, IInv, TypeOK, LedgerTypeOK, BookTypeOK
<1>7. TypeOK'
    BY <1>1, <1>2
       DEF IInv, TypeOK, LedgerTypeOK, BookTypeOK, GiftTypeOK, SetJob, Records, Statuses
<1>8. OnlyRow(x) /\ RowGrows(x)
    BY <1>2, <1>4, <1>6 DEF OnlyRow, RowGrows, Told, Records, RowOK, IInv, TypeOK, BookTypeOK
<1>9. JobOK(p)'
    BY <1>1, <1>2, <1>4, <1>6 DEF JobOK, IsAt, PurchaseSteps
<1>10. RowOK(x)' /\ ResultOK(x)' /\ AccountedFor(x)'
    BY <1>2, <1>4, <1>6 DEF RowOK, ResultOK, AccountedFor
<1>11. QED
    BY <1>1, <1>2, <1>3, <1>5, <1>7, <1>8, <1>9, <1>10, StepKeeps

(* What a process in the middle of x's request may rely on. *)
On(p, step, x) == IsAt(p, step) /\ job[p].tx = x

Others(p, x) == \A q \in Procs \ {p} : job[q].tx = x => x \notin Cards /\ st[x] # "none"

(* What the invariant says of the row a process is on.                     *)
LEMMA OnRow ==
    ASSUME IInv, NEW p \in Procs, NEW x \in Purchases, NEW step, On(p, step, x),
           step # "idle"
    PROVE  /\ JobOK(p) /\ job[p] # Idle /\ Others(p, x)
           /\ RowOK(x) /\ ResultOK(x) /\ (x \in paid => AccountedFor(x))
           /\ refunds[x] \in Nat /\ (x \in Priced => x \in paid)
           /\ step # "record" => st[x] # "none"
           /\ step \in {"send", "apply"} /\ x \in Cards => st[x] = "PENDING"
           /\ step = "giveback" => x \in Fundings /\ st[x] = "FAILED" /\ refunds[x] = 0
<1>1. IsAt(p, step) /\ JobOK(p) /\ job[p] # Idle
    BY IdleFacts DEF On, IInv, IsAt
<1>2. /\ (x \in Priced => x \in paid)
      /\ step # "record" => st[x] # "none"
      /\ step \in {"send", "apply"} /\ x \in Cards => st[x] = "PENDING"
      /\ step = "giveback" => x \in Fundings /\ st[x] = "FAILED" /\ refunds[x] = 0
    BY <1>1 DEF JobOK, On, IsAt
<1>3. Others(p, x)
    BY DEF On, Others, IInv, OneRequest
<1>4. RowOK(x) /\ ResultOK(x) /\ (x \in paid => AccountedFor(x)) /\ refunds[x] \in Nat
    BY ByPurchase DEF TypeOK, BookTypeOK
<1>5. QED
    BY <1>1, <1>2, <1>3, <1>4

(* StepKeeps for a process that is on x. *)
LEMMA OnStepKeeps ==
    ASSUME IInv, NEW p \in Procs, NEW x \in Purchases, NEW step, On(p, step, x),
           step # "idle", NEW j \in Jobs, SetJob(p, j), j.tx \in {x, NoTx},
           TypeOK', OnlyRow(x), RowGrows(x),
           JobOK(p)', RowOK(x)', ResultOK(x)', x \in paid' => AccountedFor(x)'
    PROVE  IInv'
<1>1. job[p].tx \in {x, NoTx}
    BY DEF On
<1>2. \A q \in Procs \ {p} : job[q].tx = x => x \notin Cards /\ st[x] # "none"
    BY OnRow DEF Others
<1>3. QED
    BY <1>1, <1>2, StepKeeps

(* A process that moves on, with x or to an end, and changes no purchase;  *)
(* it had no debit in its hands.                                           *)
LEMMA MoveOn ==
    ASSUME IInv, NEW p \in Procs, NEW x \in Purchases, NEW j \in Jobs, SetJob(p, j),
           UNCHANGED <<balance, outside, crashes, bookVars>>, GiftTypeOK',
           job[p].tx \in {x, NoTx}, j.tx \in {x, NoTx}, Others(p, x),
           ~IsAt(p, "record"), ~IsAt(p, "giveback"), JobOK(p)'
    PROVE  IInv'
<1>1. job' = [job EXCEPT ![p] = j] /\ job \in [Procs -> Jobs]
    BY DEF SetJob, IInv, TypeOK, LedgerTypeOK
<1>2. TypeOK'
    BY <1>1 DEF IInv, TypeOK, LedgerTypeOK, BookTypeOK
<1>3. OnlyRow(x) /\ RowGrows(x)
    BY DEF OnlyRow, RowGrows, Told
<1>4. RowOK(x) /\ ResultOK(x) /\ (x \in paid => AccountedFor(x))
    BY ByPurchase
<1>5. InHands(x) => InHands(x)'
    BY <1>1 DEF InHands, IsAt
<1>6. RowOK(x)' /\ ResultOK(x)' /\ (x \in paid' => AccountedFor(x)')
    BY <1>4, <1>5 DEF RowOK, ResultOK, AccountedFor, AnsweredFailed
<1>7. QED
    BY <1>2, <1>3, <1>6, StepKeeps DEF Others

(* The provider's answer is taken up. *)
LEMMA TakeAnswer ==
    ASSUME IInv, NEW p \in Procs, NEW x \in Purchases, Answered(p, x), GiftTypeOK'
    PROVE  IInv'
<1>1. PICK says \in Told(x) : SetJob(p, Job("apply", x, says))
    BY DEF Answered
<1>2. PICK j : j = Job("apply", x, says)
    OBVIOUS
<1>3. says \in ProviderAnswers
    BY ToldFacts DEF IInv, TypeOK
<1>4. j \in Jobs /\ j.at = "apply" /\ j.tx = x /\ j.says = says /\ j # Idle
    <2>1. IsJob(j, "apply", x, says)
        BY <1>2, <1>3, JobFacts
    <2>2. QED
        BY <2>1 DEF IsJob, Jobs
<1>5. SetJob(p, j)
    BY <1>1, <1>2
<1>6. On(p, "send", x) /\ UNCHANGED <<balance, outside, crashes, bookVars>>
    BY DEF Answered, On
<1>7. /\ Others(p, x) /\ (x \in Priced => x \in paid) /\ st[x] # "none"
      /\ (x \in Cards => st[x] = "PENDING")
    BY <1>6, OnRow
<1>8. job'[p] = j
    BY <1>5 DEF SetJob, IInv, TypeOK, LedgerTypeOK
<1>9. JobOK(p)'
    BY <1>4, <1>6, <1>7, <1>8 DEF JobOK, IsAt, PurchaseSteps, Told
<1>10. QED
    BY <1>4, <1>5, <1>6, <1>7, <1>9, MoveOn DEF On, IsAt

(* The request to a provider that refunds through the row failed. *)
LEMMA TakeSilence ==
    ASSUME IInv, NEW p \in Procs, NEW x \in Price, Unanswered(p, x), GiftTypeOK'
    PROVE  IInv'
<1>1. PICK j : j = Job("refund", x, "")
    OBVIOUS
<1>2. x \in Purchases /\ x \notin Cards
    BY Kinds
<1>3. j \in Jobs /\ j.at = "refund" /\ j.tx = x /\ j # Idle
    <2>1. IsJob(j, "refund", x, "")
        BY <1>1, <1>2, JobFacts
    <2>2. QED
        BY <2>1 DEF IsJob, Jobs
<1>4. SetJob(p, j) /\ On(p, "send", x) /\ UNCHANGED <<balance, outside, crashes, bookVars>>
    BY <1>1 DEF Unanswered, On
<1>5. Others(p, x) /\ (x \in Priced => x \in paid) /\ st[x] # "none"
    BY <1>2, <1>4, OnRow
<1>6. job'[p] = j
    BY <1>4 DEF SetJob, IInv, TypeOK, LedgerTypeOK
<1>7. JobOK(p)'
    BY <1>2, <1>3, <1>4, <1>5, <1>6 DEF JobOK, IsAt, PurchaseSteps, Price
<1>8. QED
    BY <1>2, <1>3, <1>4, <1>5, <1>7, MoveOn DEF On, IsAt

(* A requery, a webhook, a page or the worker learns of a pending row. *)
LEMMA TakeNews ==
    ASSUME IInv, NEW p \in Procs, NEW x \in Price, NEW news, Hears(p, x, news), GiftTypeOK'
    PROVE  IInv'
<1>1. PICK says \in Told(x) : SetJob(p, Job("apply", x, says))
    BY DEF Hears
<1>2. PICK j : j = Job("apply", x, says)
    OBVIOUS
<1>3. x \in Purchases /\ x \notin Cards /\ says \in ProviderAnswers
    BY Kinds, ToldFacts DEF IInv, TypeOK
<1>4. j \in Jobs /\ j.at = "apply" /\ j.tx = x /\ j.says = says /\ j # Idle
    <2>1. IsJob(j, "apply", x, says)
        BY <1>2, <1>3, JobFacts
    <2>2. QED
        BY <2>1 DEF IsJob, Jobs
<1>5. /\ SetJob(p, j) /\ job[p] = Idle /\ st[x] = "PENDING"
      /\ UNCHANGED <<balance, outside, crashes, bookVars>>
    BY <1>1, <1>2 DEF Hears
<1>6. x \in paid /\ Others(p, x)
    BY <1>3, <1>5, Kinds, ByPurchase DEF RowOK, Others
<1>7. job'[p] = j
    BY <1>5 DEF SetJob, IInv, TypeOK, LedgerTypeOK
<1>8. JobOK(p)'
    BY <1>3, <1>4, <1>5, <1>6, <1>7 DEF JobOK, IsAt, PurchaseSteps, Told
<1>9. QED
    BY <1>3, <1>4, <1>5, <1>6, <1>8, IdleFacts, MoveOn DEF IsAt

(* A job that ends fits any state. *)
LEMMA EndsOK ==
    ASSUME IInv, NEW p \in Procs, SetJob(p, Idle)
    PROVE  /\ job'[p] = Idle /\ job' \in [Procs -> Jobs]
           /\ Idle \in Jobs /\ JobOK(p)'
           /\ \A x \in Purchases : Idle.tx \in {x, NoTx}
<1>1. job'[p] = Idle /\ job' \in [Procs -> Jobs]
    BY IdleFacts DEF SetJob, IInv, TypeOK, LedgerTypeOK
<1>2. JobOK(p)'
    BY <1>1 DEF JobOK, Idle, Job
<1>3. QED
    BY <1>1, <1>2, IdleFacts

(* The refund of a VTU purchase or a gift card: the request failed, or the *)
(* provider said that it did nothing.                                      *)
Deserved(x, says) == says = "" \/ order[x] \in Undone

(* A refund of one row keeps the invariant.                                *)
LEMMA RefundRow ==
    ASSUME IInv, NEW p \in Procs, NEW x \in Price, NEW step \in {"refund", "apply"},
           On(p, step, x), NEW says, _refund_and_fail(x, says),
           Deserved(x, says), SetJob(p, Idle),
           UNCHANGED <<outside, crashes, order, paid, killed>>, GiftTypeOK'
    PROVE  IInv'
<1>1. x \in Purchases /\ x \in Transactions /\ x \in Priced /\ x \notin Cards
    BY Kinds
<1>2. /\ Others(p, x) /\ RowOK(x) /\ refunds[x] \in Nat /\ x \in paid
      /\ ~IsAt(p, "record") /\ ~IsAt(p, "giveback")
    BY <1>1, OnRow DEF On, IsAt
<1>3. /\ job'[p] = Idle /\ job' \in [Procs -> Jobs]
      /\ Idle \in Jobs /\ JobOK(p)' /\ Idle.tx \in {x, NoTx}
    BY <1>1, EndsOK
<1>4. CASE st[x] # "PENDING"
    <2>1. UNCHANGED <<balance, st, refunds, guessed>>
        BY <1>4 DEF _refund_and_fail
    <2>2. job[p].tx \in {x, NoTx}
        BY DEF On
    <2>3. QED
        BY <1>1, <1>2, <1>3, <2>1, <2>2, MoveOn
<1>5. CASE st[x] = "PENDING"
    <2>1. /\ GivesBack(x, says) /\ Credit(Owner[x], Amount[x])
          /\ st' = [st EXCEPT ![x] = "FAILED"]
          /\ refunds' = [refunds EXCEPT ![x] = @ + 1]
          /\ guessed' \in {guessed, guessed \cup {x}}
          /\ x \in guessed' \/ order[x] \in Undone
        BY <1>5 DEF _refund_and_fail, GivesBack, Deserved
    <2>2. refunds[x] = 0
        BY <1>2, <1>5 DEF RowOK
    <2>3. st'[x] = "FAILED" /\ refunds'[x] = 1
        BY <1>1, <2>1, <2>2 DEF IInv, TypeOK, BookTypeOK
    <2>4. TypeOK'
        BY <1>1, <1>3, <2>1, CreditTypes
           DEF IInv, TypeOK, LedgerTypeOK, BookTypeOK, Statuses
    <2>5. OnlyRow(x) /\ RowGrows(x)
        BY <1>1, <2>1, <2>3 DEF OnlyRow, RowGrows, Told, IInv, TypeOK, BookTypeOK
    <2>6. RowOK(x)' /\ ResultOK(x)' /\ AccountedFor(x)'
        <3>1. x \in guessed' \/ order'[x] \in Undone
            BY <2>1
        <3>2. st[x] = "none" <=> order[x] = "unsent"
            BY <1>2 DEF RowOK
        <3>3. x \notin Unloads
            BY <1>1 DEF Cards
        <3>4. QED
            BY <1>2, <1>5, <2>3, <3>1, <3>2, <3>3 DEF RowOK, ResultOK, AccountedFor
    <2>7. QED
        BY <1>1, <1>3, <2>4, <2>5, <2>6, OnStepKeeps
<1>6. QED
    BY <1>4, <1>5

(* An answer that is no failure completes a pending row, or leaves it. *)
LEMMA CompleteRow ==
    ASSUME IInv, NEW p \in Procs, NEW x \in Price, On(p, "apply", x), SetJob(p, Idle),
           st' = [st EXCEPT ![x] = "COMPLETED"], st[x] = "PENDING",
           order[x] \in {"done", "reversed"},
           UNCHANGED <<balance, outside, crashes, order, paid, refunds, guessed, killed>>,
           GiftTypeOK'
    PROVE  IInv'
<1>1. x \in Purchases /\ x \in Priced /\ x \notin Cards
    BY Kinds
<1>2. RowOK(x) /\ ResultOK(x) /\ x \in paid
    BY <1>1, OnRow
<1>3. /\ job'[p] = Idle /\ job' \in [Procs -> Jobs]
      /\ Idle \in Jobs /\ JobOK(p)' /\ Idle.tx \in {x, NoTx}
    BY <1>1, EndsOK
<1>4. st'[x] = "COMPLETED" /\ TypeOK'
    BY <1>1, <1>3 DEF IInv, TypeOK, LedgerTypeOK, BookTypeOK, Statuses
<1>5. OnlyRow(x) /\ RowGrows(x)
    BY <1>1, <1>4 DEF OnlyRow, RowGrows, Told, IInv, TypeOK, BookTypeOK
<1>6. RowOK(x)' /\ ResultOK(x)' /\ AccountedFor(x)'
    BY <1>1, <1>2, <1>4 DEF RowOK, ResultOK, AccountedFor, Cards
<1>7. QED
    BY <1>1, <1>3, <1>4, <1>5, <1>6, OnStepKeeps

(* _apply_provider_result of a VTU purchase. *)
LEMMA ApplyVtu ==
    ASSUME IInv, NEW p \in Procs, NEW v \in VtuPurchases, _apply_provider_result(p, v),
           GiftTypeOK'
    PROVE  IInv'
<1> DEFINE says == job[p].says
<1>1. v \in Price /\ v \in Purchases
    BY Kinds DEF Price
<1>2. On(p, "apply", v) /\ SetJob(p, Idle) /\ UNCHANGED <<outside, crashes, order, paid, killed>>
    BY DEF _apply_provider_result, On
<1>3. says \in Told(v)
    BY <1>1, <1>2, OnRow DEF JobOK, On, IsAt
<1>4. /\ "done" = says => order[v] \in {"done", "reversed"}
      /\ says \in Undone => order[v] \in Undone
    BY <1>1, <1>3, ToldFacts DEF IInv, TypeOK, Undone
<1>5. CASE PLUGINNG_STATUS_MAP(says) = "FAILED"
    <2>1. says \in Undone /\ _refund_and_fail(v, says)
        BY <1>5 DEF _apply_provider_result, PLUGINNG_STATUS_MAP
    <2>2. QED
        BY <1>1, <1>2, <1>4, <2>1, RefundRow DEF Deserved
<1>6. CASE PLUGINNG_STATUS_MAP(says) # "FAILED"
    <2>1. /\ st' = IF st[v] = "PENDING"
                   THEN [st EXCEPT ![v] = PLUGINNG_STATUS_MAP(says)] ELSE st
          /\ UNCHANGED <<balance, refunds, guessed>>
        BY <1>6 DEF _apply_provider_result
    <2>2. CASE st[v] = "PENDING" /\ says = "done"
        <3>1. PLUGINNG_STATUS_MAP(says) = "COMPLETED"
            BY <2>2 DEF PLUGINNG_STATUS_MAP, Undone
        <3>2. st' = [st EXCEPT ![v] = "COMPLETED"]
            BY <2>1, <2>2, <3>1
        <3>3. QED
            BY <1>1, <1>2, <1>4, <2>1, <2>2, <3>2, CompleteRow
    <2>3. CASE ~(st[v] = "PENDING" /\ says = "done")
        <3>1. st[v] = "PENDING" => PLUGINNG_STATUS_MAP(says) = "PENDING"
            BY <1>6, <2>3 DEF PLUGINNG_STATUS_MAP
        <3>2. st' = st
            BY <2>1, <3>1 DEF IInv, TypeOK, BookTypeOK
        <3>3. Others(p, v) /\ ~IsAt(p, "record") /\ ~IsAt(p, "giveback")
            BY <1>1, <1>2, OnRow DEF On, IsAt
        <3>4. Idle \in Jobs /\ JobOK(p)' /\ Idle.tx \in {v, NoTx}
            BY <1>1, <1>2, EndsOK
        <3>5. job[p].tx \in {v, NoTx}
            BY <1>2 DEF On
        <3>6. QED
            BY <1>1, <1>2, <2>1, <3>2, <3>3, <3>4, <3>5, MoveOn
    <2>4. QED
        BY <2>2, <2>3
<1>7. QED
    BY <1>5, <1>6

(* _apply_order_result of a gift card. *)
LEMMA ApplyGift ==
    ASSUME IInv, NEW p \in Procs, NEW g \in GiftCards, _apply_order_result(p, g)
    PROVE  IInv'
<1> DEFINE says == job[p].says
<1>1. g \in Price /\ g \in Purchases
    BY Kinds DEF Price
<1>2. On(p, "apply", g) /\ SetJob(p, Idle) /\ UNCHANGED <<outside, crashes, order, paid, killed>>
    BY DEF _apply_order_result, On
<1>3. GiftTypeOK'
    BY DEF _apply_order_result, IInv, TypeOK, GiftTypeOK
<1>4. says \in Told(g)
    BY <1>1, <1>2, OnRow DEF JobOK, On, IsAt
<1>5. /\ "done" = says => order[g] \in {"done", "reversed"}
      /\ says \in Undone => order[g] \in Undone
    BY <1>1, <1>4, ToldFacts DEF IInv, TypeOK, Undone
<1>6. CASE says \in Undone
    <2>1. _refund_and_fail(g, says)
        BY <1>6 DEF _apply_order_result
    <2>2. QED
        BY <1>1, <1>2, <1>3, <1>5, <1>6, <2>1, RefundRow DEF Deserved
<1>7. CASE says \notin Undone /\ st[g] = "PENDING" /\ says = "done"
    <2>1. st' = [st EXCEPT ![g] = "COMPLETED"] /\ UNCHANGED <<balance, refunds, guessed>>
        BY <1>7 DEF _apply_order_result
    <2>2. QED
        BY <1>1, <1>2, <1>3, <1>5, <1>7, <2>1, CompleteRow
<1>8. CASE says \notin Undone /\ ~(st[g] = "PENDING" /\ says = "done")
    <2>1. st' = st /\ UNCHANGED <<balance, refunds, guessed>>
        BY <1>8 DEF _apply_order_result, IInv, TypeOK, BookTypeOK
    <2>2. Others(p, g) /\ ~IsAt(p, "record") /\ ~IsAt(p, "giveback")
        BY <1>1, <1>2, OnRow DEF On, IsAt
    <2>3. Idle \in Jobs /\ JobOK(p)' /\ Idle.tx \in {g, NoTx}
        BY <1>1, <1>2, EndsOK
    <2>4. job[p].tx \in {g, NoTx}
        BY <1>2 DEF On
    <2>5. QED
        BY <1>1, <1>2, <1>3, <2>1, <2>2, <2>3, <2>4, MoveOn
<1>9. QED
    BY <1>6, <1>7, <1>8

(* Bitnob did not confirm: the card's row is FAILED, and a funding's naira *)
(* are now in the process's hands.                                         *)
LEMMA CardNotConfirmed ==
    ASSUME IInv, NEW p \in Procs, NEW x \in Cards, BalanceNotConfirmed(p, x), UNCHANGED giftVars
    PROVE  IInv'
<1>1. x \in Purchases /\ x \notin Price /\ (x \in Fundings <=> x \in Priced)
      /\ (x \in Fundings <=> x \notin Unloads)
    BY Kinds DEF Cards
<1>2. PICK j : j = IF x \in Fundings THEN Job("giveback", x, "") ELSE Idle
    OBVIOUS
<1>3. j \in Jobs /\ j.tx \in {x, NoTx}
      /\ (x \in Fundings => j.at = "giveback" /\ j.tx = x /\ j # Idle)
      /\ (x \notin Fundings => j = Idle)
    <2>1. CASE x \in Fundings
        <3>1. IsJob(j, "giveback", x, "")
            BY <1>1, <1>2, <2>1, JobFacts
        <3>2. QED
            BY <2>1, <3>1 DEF IsJob, Jobs
    <2>2. CASE x \notin Fundings
        BY <1>2, <2>2, IdleFacts
    <2>3. QED
        BY <2>1, <2>2
<1>4. /\ On(p, "send", x) /\ SetJob(p, j) /\ st' = [st EXCEPT ![x] = "FAILED"]
      /\ UNCHANGED <<balance, outside, crashes, order, paid, refunds, guessed, killed>>
    BY <1>2 DEF BalanceNotConfirmed, On
<1>5. RowOK(x) /\ refunds[x] \in Nat /\ st[x] = "PENDING" /\ (x \in Fundings => x \in paid)
    BY <1>1, <1>4, OnRow
<1>6. refunds[x] = 0 /\ order[x] # "unsent" /\ x \notin guessed
    BY <1>5 DEF RowOK
<1>7. job'[p] = j /\ job' \in [Procs -> Jobs] /\ st'[x] = "FAILED"
    BY <1>1, <1>3, <1>4 DEF SetJob, IInv, TypeOK, LedgerTypeOK, BookTypeOK
<1>8. TypeOK'
    BY <1>4, <1>7 DEF IInv, TypeOK, LedgerTypeOK, BookTypeOK, GiftTypeOK, Statuses
<1>9. OnlyRow(x) /\ RowGrows(x)
    BY <1>4, <1>7 DEF OnlyRow, RowGrows, Told, IInv, TypeOK, BookTypeOK
<1>10. JobOK(p)'
    <2>1. CASE x \in Fundings
        BY <1>1, <1>3, <1>4, <1>5, <1>6, <1>7, <2>1 DEF JobOK, IsAt, PurchaseSteps
    <2>2. CASE x \notin Fundings
        BY <1>3, <1>7, <2>2 DEF JobOK, Idle, Job
    <2>3. QED
        BY <2>1, <2>2
<1>11. RowOK(x)' /\ ResultOK(x)'
    BY <1>1, <1>4, <1>5, <1>6, <1>7, Kinds DEF RowOK, ResultOK, Price
<1>12. x \in paid' => AccountedFor(x)'
    <2>1. x \in paid' => x \in Fundings
        BY <1>1, <1>4, <1>5 DEF RowOK
    <2>2. x \in Fundings => InHands(x)'
        BY <1>3, <1>7 DEF InHands, Jobs
    <2>3. QED
        BY <2>1, <2>2 DEF AccountedFor
<1>13. QED
    BY <1>1, <1>3, <1>4, <1>8, <1>9, <1>10, <1>11, <1>12, OnStepKeeps

(* A FAILED funding's naira are given back. *)
LEMMA CardGivesBack ==
    ASSUME IInv, NEW p \in Procs, NEW x \in Cards, GiveBackNaira(p, x), UNCHANGED giftVars
    PROVE  IInv'
<1>1. x \in Purchases /\ x \in Transactions
    BY Kinds
<1>2. /\ On(p, "giveback", x) /\ SetJob(p, Idle) /\ Credit(Owner[x], Amount[x])
      /\ refunds' = [refunds EXCEPT ![x] = @ + 1] /\ guessed' = guessed \cup {x}
      /\ UNCHANGED <<outside, crashes, st, order, paid, killed>>
    BY DEF GiveBackNaira, GivesBack, On
<1>3. /\ RowOK(x) /\ x \in Priced /\ x \in paid /\ st[x] = "FAILED" /\ refunds[x] = 0
    <2>1. x \in Fundings
        BY <1>1, <1>2, OnRow
    <2>2. QED
        BY <1>1, <1>2, <2>1, OnRow, Kinds
<1>4. /\ job'[p] = Idle /\ job' \in [Procs -> Jobs]
      /\ Idle \in Jobs /\ JobOK(p)' /\ Idle.tx \in {x, NoTx}
    BY <1>1, <1>2, EndsOK
<1>5. refunds'[x] = 1
    BY <1>1, <1>2, <1>3 DEF IInv, TypeOK, BookTypeOK
<1>6. TypeOK'
    BY <1>1, <1>2, <1>4, CreditTypes DEF IInv, TypeOK, LedgerTypeOK, BookTypeOK, GiftTypeOK
<1>7. OnlyRow(x) /\ RowGrows(x)
    BY <1>1, <1>2 DEF OnlyRow, RowGrows, Told, IInv, TypeOK, BookTypeOK
<1>8. RowOK(x)' /\ ResultOK(x)' /\ AccountedFor(x)'
    BY <1>2, <1>3, <1>5 DEF RowOK, ResultOK, AccountedFor
<1>9. QED
    BY <1>1, <1>2, <1>4, <1>6, <1>7, <1>8, OnStepKeeps

(* Bitnob's answer is saved on the card's row. *)
LEMMA CardSaves ==
    ASSUME IInv, NEW p \in Procs, NEW x \in Cards, SaveBalanceAnswer(p, x), UNCHANGED giftVars
    PROVE  IInv'
<1>1. x \in Purchases /\ x \notin Price /\ (x \in Fundings <=> x \in Priced)
      /\ (x \in Fundings <=> x \notin Unloads)
    BY Kinds DEF Cards
<1>2. PICK says : says = job[p].says
    OBVIOUS
<1>3. /\ On(p, "apply", x) /\ SetJob(p, Idle)
      /\ st' = [st EXCEPT ![x] = BalanceStatus(says)]
      /\ UNCHANGED <<balance, outside, crashes, order, paid, refunds, guessed, killed>>
    BY <1>2 DEF SaveBalanceAnswer, On
<1>4. RowOK(x) /\ refunds[x] \in Nat /\ st[x] = "PENDING" /\ (x \in Fundings => x \in paid)
    BY <1>1, <1>3, OnRow
<1>5. refunds[x] = 0 /\ order[x] # "unsent" /\ x \notin guessed
    BY <1>4 DEF RowOK
<1>6. says \in Told(x)
    BY <1>1, <1>2, <1>3, OnRow DEF JobOK, On, IsAt
<1>7. /\ "done" \in Told(x) => order[x] \in {"done", "reversed"}
      /\ "failed" \in Told(x) => order[x] = "failed"
    BY <1>1, ToldFacts DEF IInv, TypeOK
<1>8. PICK s \in {"PENDING", "COMPLETED", "FAILED"} :
        /\ s = BalanceStatus(says)
        /\ s = "COMPLETED" => order[x] \in {"done", "reversed"}
        /\ s = "FAILED" => order[x] = "failed"
    <2>1. BalanceStatus(says) \in {"PENDING", "COMPLETED", "FAILED"}
        BY DEF BalanceStatus
    <2>2. BalanceStatus(says) = "COMPLETED" => says = "done"
        BY DEF BalanceStatus
    <2>3. BalanceStatus(says) = "FAILED" => says = "failed"
        BY DEF BalanceStatus
    <2>4. QED
        BY <1>6, <1>7, <2>1, <2>2, <2>3
<1>9. /\ job'[p] = Idle /\ job' \in [Procs -> Jobs]
      /\ Idle \in Jobs /\ JobOK(p)' /\ Idle.tx \in {x, NoTx}
    BY <1>1, <1>3, EndsOK
<1>10. st' = [st EXCEPT ![x] = s] /\ st'[x] = s
    BY <1>1, <1>3, <1>8 DEF IInv, TypeOK, BookTypeOK
<1>11. TypeOK'
    BY <1>3, <1>9, <1>10 DEF IInv, TypeOK, LedgerTypeOK, BookTypeOK, GiftTypeOK, Statuses
<1>12. OnlyRow(x) /\ RowGrows(x)
    BY <1>3, <1>10 DEF OnlyRow, RowGrows, Told, IInv, TypeOK, BookTypeOK
<1>13. RowOK(x)' /\ ResultOK(x)'
    BY <1>1, <1>3, <1>4, <1>5, <1>8, <1>10, Kinds DEF RowOK, ResultOK, Price
<1>14. x \in paid' => AccountedFor(x)'
    <2>1. x \in paid' => x \in Fundings
        BY <1>1, <1>3, <1>4 DEF RowOK
    <2>2. s = "FAILED" /\ x \in Fundings => AnsweredFailed(x)'
        BY <1>3, <1>8, <1>10 DEF AnsweredFailed
    <2>3. QED
        BY <1>8, <1>10, <2>1, <2>2 DEF AccountedFor
<1>15. QED
    BY <1>1, <1>3, <1>9, <1>11, <1>12, <1>13, <1>14, OnStepKeeps

(* What the provider does of itself changes what it can have said, and     *)
(* never takes back a word.                                                *)
LEMMA ProvidesInv ==
    ASSUME IInv, NEW x \in Purchases, NEW s \in {"processing"} \cup Ended, Provides(x, s),
           UNCHANGED giftVars
    PROVE  IInv'
<1>1. /\ \/ order[x] = "sent" /\ s \in {"processing", "done", "failed"}
         \/ order[x] = "processing" /\ s \in {"done", "failed"}
         \/ order[x] = "done" /\ s = "reversed"
      /\ order' = [order EXCEPT ![x] = s]
      /\ UNCHANGED <<balance, outside, job, crashes, st, paid, refunds, guessed, killed>>
    BY DEF Provides
<1>2. order'[x] = s /\ \A y \in Purchases \ {x} : order'[y] = order[y]
    BY <1>1 DEF IInv, TypeOK, BookTypeOK
<1>3. TypeOK'
    BY <1>1 DEF IInv, TypeOK, LedgerTypeOK, BookTypeOK, GiftTypeOK
<1>4. \A y \in Purchases : Told(y) \subseteq Told(y)'
    <2>1. Told(x) \subseteq Told(x)'
        BY <1>1, <1>2 DEF Told
    <2>2. ASSUME NEW y \in Purchases \ {x} PROVE Told(y) = Told(y)'
        BY <1>2 DEF Told
    <2>3. QED
        BY <2>1, <2>2
<1>5. ASSUME NEW p \in Procs PROVE JobOK(p)'
    <2>1. JobOK(p) /\ job \in [Procs -> Jobs]
        BY DEF IInv, TypeOK, LedgerTypeOK
    <2>2. QED
        BY <1>1, <1>4, <2>1 DEF JobOK, IsAt, Idle, Job
<1>6. OneRequest'
    BY <1>1 DEF IInv, OneRequest
<1>7. ASSUME NEW y \in Purchases
      PROVE  (RowOK(y) /\ ResultOK(y) /\ (y \in paid => AccountedFor(y)))'
    <2>1. RowOK(y) /\ ResultOK(y) /\ (y \in paid => AccountedFor(y))
        BY ByPurchase
    <2>2. CASE y # x
        BY <1>1, <1>2, <2>1, <2>2
           DEF RowOK, ResultOK, AccountedFor, InHands, AnsweredFailed
    <2>3. CASE y = x
        <3>1. RowOK(y)' /\ ResultOK(y)'
            BY <1>1, <1>2, <2>1, <2>3 DEF RowOK, ResultOK, Undone
        <3>2. y \in paid' => AccountedFor(y)'
            BY <1>1, <2>1, <2>3 DEF AccountedFor, InHands, AnsweredFailed
        <3>3. QED
            BY <3>1, <3>2
    <2>4. QED
        BY <2>2, <2>3
<1>8. paid' \subseteq Purchases
    BY <1>3 DEF TypeOK, BookTypeOK
<1>9. QED
    BY <1>3, <1>5, <1>6, <1>7, <1>8 DEF IInv, RefundedOnlyIfUndoneOrGuessed, DebitsAreAccountedFor

(* A kill takes the process off its purchase; where that leaves a debit    *)
(* nobody knows of, it is in killed.                                       *)
LEMMA CrashInv ==
    ASSUME IInv, NEW p \in Procs, PurchaseCrash(p), UNCHANGED giftVars
    PROVE  IInv'
<1>1. PICK at \in {"record", "send", "giveback"} : IsAt(p, at)
    BY DEF PurchaseCrash, IsAt
<1>2. /\ SetJob(p, Idle) /\ crashes' = crashes + 1 /\ crashes < MaxCrashes
      /\ UNCHANGED <<balance, outside, st, order, paid, refunds, guessed>>
      /\ killed' = IF IsAt(p, "send") THEN killed ELSE killed \cup {job[p].tx}
    BY DEF PurchaseCrash, Crash
<1>3. PICK x \in Purchases : On(p, at, x)
    BY <1>1, IdleFacts DEF On, IInv, JobOK, IsAt
<1>4. killed' = IF at = "send" THEN killed ELSE killed \cup {x}
    BY <1>2, <1>3 DEF On, IsAt
<1>5. RowOK(x) /\ ResultOK(x) /\ (x \in paid => AccountedFor(x))
    BY <1>3, OnRow
<1>6. /\ job'[p] = Idle /\ job' \in [Procs -> Jobs]
      /\ Idle \in Jobs /\ JobOK(p)' /\ Idle.tx \in {x, NoTx}
    BY <1>2, EndsOK
<1>7. TypeOK'
    BY <1>2, <1>4, <1>6, LedgerAssumption
       DEF IInv, TypeOK, LedgerTypeOK, BookTypeOK, GiftTypeOK
<1>8. OnlyRow(x) /\ RowGrows(x)
    BY <1>2, <1>4 DEF OnlyRow, RowGrows, Told
<1>9. RowOK(x)' /\ ResultOK(x)'
    BY <1>2, <1>5 DEF RowOK, ResultOK
<1>10. x \in paid' => AccountedFor(x)'
    <2>1. CASE at = "send"
        <3>1. InHands(x) => InHands(x)'
            <4>1. job'= [job EXCEPT ![p] = Idle] /\ job \in [Procs -> Jobs]
                BY <1>2 DEF SetJob, IInv, TypeOK, LedgerTypeOK
            <4>2. QED
                BY <1>3, <2>1, <4>1 DEF InHands, On, IsAt
        <3>2. QED
            BY <1>2, <1>4, <1>5, <2>1, <3>1 DEF AccountedFor, AnsweredFailed
    <2>2. CASE at # "send"
        BY <1>4, <2>2 DEF AccountedFor
    <2>3. QED
        BY <2>1, <2>2
<1>11. QED
    BY <1>3, <1>2, <1>6, <1>7, <1>8, <1>9, <1>10, OnStepKeeps

(* Other uses of the wallet, and other people's gift cards. *)
LEMMA FrameInv ==
    ASSUME IInv, UNCHANGED <<job, bookVars>>, LedgerTypeOK', GiftTypeOK'
    PROVE  IInv'
<1>1. TypeOK'
    BY DEF IInv, TypeOK, BookTypeOK
<1>2. \A p \in Procs : JobOK(p)'
    BY DEF IInv, JobOK, IsAt, Told
<1>3. OneRequest' /\ RefundedOnlyIfUndoneOrGuessed' /\ DebitsAreAccountedFor'
    BY DEF IInv, OneRequest, RefundedOnlyIfUndoneOrGuessed, DebitsAreAccountedFor,
           ResultOK, AccountedFor, InHands, AnsweredFailed
<1>4. \A x \in Purchases : RowOK(x)'
    BY DEF IInv, RowOK
<1>5. QED
    BY <1>1, <1>2, <1>3, <1>4 DEF IInv

(* Every step keeps the invariant. *)
LEMMA NextInv == ASSUME IInv, [Next]_vars PROVE IInv'
<1> USE Kinds DEF Price
<1>1. CASE Elsewhere /\ UNCHANGED <<bookVars, giftVars>>
    <2>1. LedgerTypeOK' /\ UNCHANGED job
        BY <1>1, LedgerAssumption
           DEF Elsewhere, debit_wallet, credit_wallet, Debit, HasFunds, Credit, Outside,
               IInv, TypeOK, LedgerTypeOK
    <2>2. GiftTypeOK'
        BY <1>1 DEF IInv, TypeOK, GiftTypeOK
    <2>3. QED
        BY <1>1, <2>1, <2>2, FrameInv
<1>2. ASSUME NEW p \in Procs, NEW v \in VtuPurchases, VtuRequest(p, v), UNCHANGED giftVars
      PROVE  IInv'
    <2>1. GiftTypeOK'
        BY <1>2 DEF IInv, TypeOK, GiftTypeOK
    <2>2. CASE requery_transaction(p, v) \/ handle_vtu_webhook(p, v)
        BY <1>2, <2>1, <2>2, TakeNews DEF requery_transaction, handle_vtu_webhook
    <2>3. CASE VtuDebit(p, v)
        BY <1>2, <2>3, DebitFirst DEF VtuDebit
    <2>4. QED
        BY <1>2, <2>2, <2>3 DEF VtuRequest, buy_airtime, buy_data, buy_cable, buy_electricity
<1>3. ASSUME NEW p \in Procs, NEW g \in GiftCards, GiftRequest(p, g) \/ _requery(p, g)
      PROVE  IInv'
    <2>1. CASE buy_gift_card(p, g)
        BY <1>3, <2>1, BuyGiftCard
    <2>2. CASE handle_gift_webhook(p, g) \/ _requery(p, g)
        <3>1. GiftTypeOK'
            BY <2>2 DEF handle_gift_webhook, _requery, IInv, TypeOK, GiftTypeOK
        <3>2. PICK news : Hears(p, g, news)
            BY <2>2 DEF handle_gift_webhook, _requery
        <3>3. QED
            BY <1>3, <3>1, <3>2, TakeNews
    <2>3. QED
        BY <1>3, <2>1, <2>2 DEF GiftRequest, refresh_pending_purchases
<1>4. ASSUME NEW p \in Procs, NEW x \in Cards, CardRequest(p, x), UNCHANGED giftVars
      PROVE  IInv'
    <2>1. CASE fund_card(p, x)
        BY <1>4, <2>1, DebitFirst DEF fund_card
    <2>2. CASE withdraw_card(p, x)
        BY <1>4, <2>2, WithdrawCard
    <2>3. QED
        BY <1>4, <2>1, <2>2 DEF CardRequest
<1>5. ASSUME NEW p \in Procs, StepOf(p) PROVE IInv'
    <2>1. CASE RequestRefund(p) /\ UNCHANGED giftVars
        <3>1. PICK x \in Price : On(p, "refund", x)
            BY <1>5, <2>1, IdleFacts DEF RequestRefund, On, IInv, JobOK, IsAt
        <3>2. /\ _refund_and_fail(x, "") /\ SetJob(p, Idle)
              /\ UNCHANGED <<outside, crashes, order, paid, killed>>
            BY <2>1, <3>1 DEF RequestRefund, On
        <3>3. GiftTypeOK' /\ Deserved(x, "")
            BY <2>1 DEF IInv, TypeOK, GiftTypeOK, Deserved
        <3>4. QED
            BY <1>5, <3>1, <3>2, <3>3, RefundRow
    <2>2. ASSUME NEW v \in VtuPurchases, VtuStepOf(p, v), UNCHANGED giftVars PROVE IInv'
        <3>1. GiftTypeOK'
            BY <2>2 DEF IInv, TypeOK, GiftTypeOK
        <3>2. QED
            BY <1>5, <2>2, <3>1, RecordRow, TakeAnswer, TakeSilence, ApplyVtu DEF VtuStepOf
    <2>3. ASSUME NEW g \in GiftCards, GiftStepOf(p, g) PROVE IInv'
        <3>1. CASE _apply_order_result(p, g)
            BY <1>5, <3>1, ApplyGift
        <3>2. CASE (Answered(p, g) \/ Unanswered(p, g)) /\ UNCHANGED giftVars
            <4>1. GiftTypeOK'
                BY <3>2 DEF IInv, TypeOK, GiftTypeOK
            <4>2. QED
                BY <1>5, <3>2, <4>1, TakeAnswer, TakeSilence
        <3>3. QED
            BY <2>3, <3>1, <3>2 DEF GiftStepOf
    <2>4. ASSUME NEW x \in Cards, CardStepOf(p, x), UNCHANGED giftVars PROVE IInv'
        <3>1. GiftTypeOK'
            BY <2>4 DEF IInv, TypeOK, GiftTypeOK
        <3>2. QED
            BY <1>5, <2>4, <3>1, RecordRow, TakeAnswer, CardNotConfirmed, CardGivesBack, CardSaves
               DEF CardStepOf
    <2>5. QED
        BY <1>5, <2>1, <2>2, <2>3, <2>4 DEF StepOf
<1>6. CASE EldersChange
    <2>1. LedgerTypeOK' /\ GiftTypeOK'
        BY <1>6 DEF EldersChange, IInv, TypeOK, LedgerTypeOK, GiftTypeOK
    <2>2. QED
        BY <1>6, <2>1, FrameInv DEF EldersChange
<1>7. CASE UNCHANGED vars
    <2>1. LedgerTypeOK' /\ GiftTypeOK'
        BY <1>7 DEF vars, IInv, TypeOK, LedgerTypeOK, GiftTypeOK
    <2>2. QED
        BY <1>7, <2>1, FrameInv DEF vars
<1>8. CASE Next
    <2>1. Settler \in Procs /\ WebWorkers \subseteq Procs
        BY DEF Procs
    <2>2. CASE \E g \in GiftCards : reconcile_pending_purchases(g)
        BY <1>3, <2>1, <2>2 DEF reconcile_pending_purchases
    <2>3. QED
        BY <1>1, <1>2, <1>3, <1>4, <1>5, <1>6, <1>8, <2>1, <2>2, CrashInv, ProvidesInv DEF Next
<1>9. QED
    BY <1>7, <1>8

(* The inductive invariant holds in every reachable state. *)
THEOREM InductiveInvariant == Spec => []IInv
BY InitInv, NextInv, PTL DEF Spec

(* Every variable keeps its type, and no balance is negative. *)
THEOREM TypeCorrect == Spec => []TypeOK
BY InductiveInvariant, PTL DEF IInv

(* What is COMPLETED was done by its provider, and what was done is only   *)
(* credited back by a request that was not answered.                       *)
THEOREM RefundsAreRight == Spec => []RefundedOnlyIfUndoneOrGuessed
BY InductiveInvariant, PTL DEF IInv

(* Every debit is a row's or a process's, was given back, or is one of the *)
(* two kinds the code loses.                                               *)
THEOREM NoDebitLost == Spec => []DebitsAreAccountedFor
BY InductiveInvariant, PTL DEF IInv

-----------------------------------------------------------------------------
(* The refinement: what each step is to the escrow.                        *)
hold == [x \in Priced |-> HoldOf(x)]

(* A step on one purchase moves that purchase's hold, and no other. *)
LEMMA HoldMoves ==
    ASSUME NEW x \in Priced,
           \A y \in Priced \ {x} : /\ st'[y] = st[y] /\ refunds'[y] = refunds[y]
                                   /\ y \in paid' <=> y \in paid
    PROVE  hold' = [hold EXCEPT ![x] = HoldOf(x)']
BY DEF hold, HoldOf

(* A step without debit, refund or completion moves none. *)
LEMMA HoldStays ==
    ASSUME UNCHANGED <<paid, refunds>>,
           \A y \in Priced : st'[y] = "COMPLETED" <=> st[y] = "COMPLETED"
    PROVE  UNCHANGED hold
BY DEF hold, HoldOf

EscrowStep == PurchaseEscrow!EscrowNext \/ UNCHANGED PurchaseEscrow!escrowVars

(* Without money either, such a step is none of the escrow's. *)
LEMMA SilentEscrow ==
    ASSUME UNCHANGED <<balance, outside>>, UNCHANGED hold
    PROVE  EscrowStep
BY DEF EscrowStep, PurchaseEscrow!escrowVars, hold

(* The initial state is an initial escrow. *)
LEMMA InitEscrow == Init => PurchaseEscrow!EscrowInit
BY DEF Init, LedgerInit, BookInit, PurchaseEscrow!EscrowInit, HoldOf

(* A debit places the price. *)
LEMMA PlaceEscrow ==
    ASSUME IInv, NEW p \in Procs, NEW x \in Priced, NEW next, Charges(p, x, next),
           st' = st \/ Records(x), UNCHANGED <<outside, refunds>>
    PROVE  EscrowStep
<1>1. x \in Purchases
    BY Kinds
<1>2. Begins(p, x) /\ Debit(Owner[x], Amount[x]) /\ paid' = paid \cup {x}
    BY DEF Charges
<1>3. st[x] = "none" /\ x \notin paid /\ refunds[x] = 0
    BY <1>1, <1>2, Fresh
<1>4. st'[x] # "COMPLETED" /\ \A y \in Purchases \ {x} : st'[y] = st[y]
    BY <1>1, <1>3 DEF Records, IInv, TypeOK, BookTypeOK
<1>5. HoldOf(x) = "open" /\ HoldOf(x)' = "held"
    BY <1>2, <1>3, <1>4 DEF HoldOf
<1>6. hold' = [hold EXCEPT ![x] = "held"]
    BY <1>2, <1>4, <1>5, HoldMoves, Kinds
<1>7. PurchaseEscrow!Place(x)
    BY <1>2, <1>5, <1>6 DEF PurchaseEscrow!Place, Debit, HasFunds, hold
<1>8. QED
    BY <1>7 DEF EscrowStep, PurchaseEscrow!EscrowNext

(* A credit releases it. *)
LEMMA ReleaseEscrow ==
    ASSUME IInv, NEW x \in Priced, NEW says, GivesBack(x, says), UNCHANGED <<outside, paid>>,
           st' = st \/ st' = [st EXCEPT ![x] = "FAILED"],
           x \in paid, refunds[x] = 0, st[x] # "COMPLETED"
    PROVE  EscrowStep
<1>1. x \in Purchases
    BY Kinds
<1>2. Credit(Owner[x], Amount[x]) /\ refunds' = [refunds EXCEPT ![x] = @ + 1]
    BY DEF GivesBack
<1>3. refunds'[x] = 1 /\ \A y \in Purchases \ {x} : st'[y] = st[y] /\ refunds'[y] = refunds[y]
    BY <1>1, <1>2 DEF IInv, TypeOK, BookTypeOK
<1>4. HoldOf(x) = "held" /\ HoldOf(x)' = "released"
    BY <1>3 DEF HoldOf
<1>5. hold' = [hold EXCEPT ![x] = "released"]
    BY <1>3, <1>4, HoldMoves, Kinds
<1>6. PurchaseEscrow!Release(x)
    BY <1>2, <1>4, <1>5 DEF PurchaseEscrow!Release, Credit, hold
<1>7. QED
    BY <1>6 DEF EscrowStep, PurchaseEscrow!EscrowNext

(* A row that becomes COMPLETED captures it. *)
LEMMA CaptureEscrow ==
    ASSUME IInv, NEW x \in Priced, x \in paid, refunds[x] = 0, st[x] # "COMPLETED",
           st' = [st EXCEPT ![x] = "COMPLETED"],
           UNCHANGED <<balance, outside, paid, refunds>>
    PROVE  EscrowStep
<1>1. x \in Purchases
    BY Kinds
<1>2. st'[x] = "COMPLETED" /\ \A y \in Purchases \ {x} : st'[y] = st[y]
    BY <1>1 DEF IInv, TypeOK, BookTypeOK
<1>3. HoldOf(x) = "held" /\ HoldOf(x)' = "captured"
    BY <1>2 DEF HoldOf
<1>4. hold' = [hold EXCEPT ![x] = "captured"]
    BY <1>2, <1>3, HoldMoves, Kinds
<1>5. PurchaseEscrow!Capture(x)
    BY <1>3, <1>4 DEF PurchaseEscrow!Capture, hold
<1>6. QED
    BY <1>5 DEF EscrowStep, PurchaseEscrow!EscrowNext

(* A refund through the row releases the price, or does nothing. *)
LEMMA RefundEscrow ==
    ASSUME IInv, NEW x \in Price, NEW says, _refund_and_fail(x, says), UNCHANGED <<outside, paid>>
    PROVE  EscrowStep
<1>1. x \in Purchases /\ x \in Priced
    BY Kinds
<1>2. CASE st[x] # "PENDING"
    BY <1>2, HoldStays, SilentEscrow DEF _refund_and_fail
<1>3. CASE st[x] = "PENDING"
    <2>1. GivesBack(x, says) /\ st' = [st EXCEPT ![x] = "FAILED"]
        BY <1>3 DEF _refund_and_fail
    <2>2. RowOK(x) /\ refunds[x] \in Nat
        BY <1>1 DEF IInv, TypeOK, BookTypeOK
    <2>3. x \in paid /\ refunds[x] = 0
        BY <1>1, <1>3, <2>2 DEF RowOK
    <2>4. QED
        BY <1>1, <1>3, <2>1, <2>3, ReleaseEscrow
<1>4. QED
    BY <1>2, <1>3

(* A row that was PENDING gets another status, and nothing else changes. *)
LEMMA StatusEscrow ==
    ASSUME IInv, NEW x \in Purchases, st[x] = "PENDING", NEW s \in Statuses,
           st' = [st EXCEPT ![x] = s], UNCHANGED <<balance, outside, paid, refunds>>
    PROVE  EscrowStep
<1>1. RowOK(x) /\ refunds[x] \in Nat
    BY DEF IInv, TypeOK, BookTypeOK
<1>2. refunds[x] = 0 /\ (x \in Priced => x \in paid)
    BY <1>1 DEF RowOK
<1>3. CASE s = "COMPLETED" /\ x \in Priced
    BY <1>2, <1>3, CaptureEscrow
<1>4. CASE ~(s = "COMPLETED" /\ x \in Priced)
    <2>1. \A y \in Priced : st'[y] = "COMPLETED" <=> st[y] = "COMPLETED"
        BY <1>4, Kinds DEF IInv, TypeOK, BookTypeOK
    <2>2. QED
        BY <2>1, HoldStays, SilentEscrow
<1>5. QED
    BY <1>3, <1>4

(* What other apps do with the wallet is the escrow's elsewhere. *)
LEMMA ElsewhereEscrow ==
    ASSUME IInv, IInv', Elsewhere, UNCHANGED bookVars
    PROVE  EscrowStep
<1>1. UNCHANGED hold
    BY HoldStays
<1>2. balance \in [Users -> Nat] /\ balance' \in [Users -> Nat] /\ outside \in [Users -> Int]
    BY DEF IInv, TypeOK, LedgerTypeOK
<1>3. PICK u \in Users, a \in AppAmounts : debit_wallet(u, a) \/ credit_wallet(u, a)
    BY DEF Elsewhere
<1>4. PICK i \in Int : /\ balance' = [balance EXCEPT ![u] = @ + i]
                       /\ outside' = [outside EXCEPT ![u] = @ + i]
    <2>1. a \in Int /\ 0 - a \in Int
        BY LedgerAssumption
    <2>2. CASE credit_wallet(u, a)
        <3>1. /\ balance' = [balance EXCEPT ![u] = @ + a]
              /\ outside' = [outside EXCEPT ![u] = @ + a]
            BY <2>2 DEF credit_wallet, Credit, Outside
        <3>2. QED
            BY <2>1, <3>1
    <2>3. CASE debit_wallet(u, a)
        <3>1. balance[u] - a = balance[u] + (0 - a)
            BY <1>2, <2>1
        <3>2. QED
            BY <2>1, <2>3, <3>1 DEF debit_wallet, Debit, Outside
    <2>4. QED
        BY <1>3, <2>2, <2>3
<1>5. outside'[u] - outside[u] = i /\ balance'[u] >= 0
    BY <1>2, <1>4
<1>6. PurchaseEscrow!Elsewhere(u)
    BY <1>1, <1>4, <1>5 DEF PurchaseEscrow!Elsewhere, hold
<1>7. QED
    BY <1>6 DEF EscrowStep, PurchaseEscrow!EscrowNext

(* Every step is a step of the escrow or leaves it alone. *)
LEMMA NextEscrow == ASSUME IInv, IInv', Next PROVE EscrowStep
<1> USE Kinds DEF Price
<1>1. CASE Elsewhere /\ UNCHANGED <<bookVars, giftVars>>
    BY <1>1, ElsewhereEscrow
<1>2. ASSUME UNCHANGED <<balance, outside, st, paid, refunds>> PROVE EscrowStep
    BY <1>2, HoldStays, SilentEscrow
<1>3. CASE \E p \in WebWorkers, v \in VtuPurchases : VtuRequest(p, v)
    <2>1. PICK p \in WebWorkers, v \in VtuPurchases : VtuRequest(p, v)
        BY <1>3
    <2>2. CASE VtuDebit(p, v)
        BY <2>2, PlaceEscrow DEF VtuDebit, Procs
    <2>3. CASE requery_transaction(p, v) \/ handle_vtu_webhook(p, v)
        BY <1>2, <2>3 DEF requery_transaction, handle_vtu_webhook, Hears
    <2>4. QED
        BY <2>1, <2>2, <2>3 DEF VtuRequest, buy_airtime, buy_data, buy_cable, buy_electricity
<1>4. CASE \E p \in WebWorkers, g \in GiftCards : GiftRequest(p, g)
    <2>1. PICK p \in WebWorkers, g \in GiftCards : GiftRequest(p, g)
        BY <1>4
    <2>2. CASE buy_gift_card(p, g)
        BY <2>2, PlaceEscrow DEF buy_gift_card, Procs
    <2>3. CASE handle_gift_webhook(p, g) \/ refresh_pending_purchases(p, g)
        BY <1>2, <2>3 DEF handle_gift_webhook, refresh_pending_purchases, _requery, Hears
    <2>4. QED
        BY <2>1, <2>2, <2>3 DEF GiftRequest
<1>5. CASE \E p \in WebWorkers, x \in Cards : CardRequest(p, x)
    <2>1. PICK p \in WebWorkers, x \in Cards : CardRequest(p, x)
        BY <1>5
    <2>2. CASE fund_card(p, x)
        BY <2>2, PlaceEscrow DEF fund_card, Procs
    <2>3. CASE withdraw_card(p, x)
        BY <1>2, <2>3 DEF withdraw_card
    <2>4. QED
        BY <2>1, <2>2, <2>3 DEF CardRequest
<1>6. CASE EldersChange \/ \E g \in GiftCards : reconcile_pending_purchases(g)
    BY <1>2, <1>6 DEF EldersChange, reconcile_pending_purchases, _requery, Hears
<1>7. ASSUME NEW p \in Procs, StepOf(p) PROVE EscrowStep
    <2>1. CASE RequestRefund(p)
        <3>1. PICK x \in Price : On(p, "refund", x)
            BY <1>7, <2>1, IdleFacts DEF RequestRefund, On, IInv, JobOK, IsAt
        <3>2. _refund_and_fail(x, "") /\ UNCHANGED <<outside, paid>>
            BY <2>1, <3>1 DEF RequestRefund, On
        <3>3. QED
            BY <3>1, <3>2, RefundEscrow
    <2>2. ASSUME NEW x \in Purchases, Answered(p, x) \/ Unanswered(p, x) PROVE EscrowStep
        BY <1>2, <2>2 DEF Answered, Unanswered
    <2>3. ASSUME NEW x \in Purchases, _create_pending_tx(p, x) \/ CreateCardTransaction(p, x)
          PROVE  EscrowStep
        <3>1. On(p, "record", x) /\ Records(x) /\ UNCHANGED <<balance, outside, paid, refunds>>
            BY <2>3 DEF _create_pending_tx, CreateCardTransaction, On
        <3>2. st[x] = "none"
            BY <3>1, OnRow DEF JobOK, On, IsAt
        <3>3. \A y \in Priced : st'[y] = "COMPLETED" <=> st[y] = "COMPLETED"
            BY <3>1, <3>2 DEF Records, IInv, TypeOK, BookTypeOK
        <3>4. QED
            BY <3>1, <3>3, HoldStays, SilentEscrow
    <2>4. ASSUME NEW v \in VtuPurchases, _apply_provider_result(p, v) PROVE EscrowStep
        <3>1. PICK s \in {"PENDING", "COMPLETED", "FAILED"} : s = PLUGINNG_STATUS_MAP(job[p].says)
            BY DEF PLUGINNG_STATUS_MAP
        <3>2. UNCHANGED <<outside, paid>>
            BY <2>4 DEF _apply_provider_result
        <3>3. CASE s = "FAILED"
            BY <2>4, <3>1, <3>2, <3>3, RefundEscrow DEF _apply_provider_result
        <3>4. CASE s # "FAILED"
            <4>1. /\ st' = IF st[v] = "PENDING" THEN [st EXCEPT ![v] = s] ELSE st
                  /\ UNCHANGED <<balance, outside, paid, refunds>>
                BY <2>4, <3>1, <3>4 DEF _apply_provider_result
            <4>2. QED
                BY <1>2, <4>1, StatusEscrow DEF Statuses
        <3>5. QED
            BY <3>3, <3>4
    <2>5. ASSUME NEW g \in GiftCards, _apply_order_result(p, g) PROVE EscrowStep
        <3>1. UNCHANGED <<outside, paid>>
            BY <2>5 DEF _apply_order_result
        <3>2. CASE _refund_and_fail(g, job[p].says)
            BY <3>1, <3>2, RefundEscrow
        <3>3. CASE ~_refund_and_fail(g, job[p].says)
            <4>1. /\ \/ st' = st
                     \/ st[g] = "PENDING" /\ \E s \in {"PENDING", "COMPLETED"} :
                                                st' = [st EXCEPT ![g] = s]
                  /\ UNCHANGED <<balance, outside, paid, refunds>>
                BY <2>5, <3>3 DEF _apply_order_result
            <4>2. QED
                BY <1>2, <4>1, StatusEscrow DEF Statuses
        <3>4. QED
            BY <3>2, <3>3
    <2>6. ASSUME NEW x \in Cards, BalanceNotConfirmed(p, x) PROVE EscrowStep
        <3>1. /\ On(p, "send", x) /\ st' = [st EXCEPT ![x] = "FAILED"]
              /\ UNCHANGED <<balance, outside, paid, refunds>>
            BY <2>6 DEF BalanceNotConfirmed, On
        <3>2. st[x] = "PENDING"
            BY <3>1, OnRow
        <3>3. QED
            BY <3>1, <3>2, StatusEscrow DEF Statuses
    <2>7. ASSUME NEW x \in Cards, GiveBackNaira(p, x) PROVE EscrowStep
        <3>1. On(p, "giveback", x) /\ GivesBack(x, "") /\ UNCHANGED <<outside, st, paid>>
            BY <2>7 DEF GiveBackNaira, On
        <3>2. x \in Fundings /\ st[x] = "FAILED" /\ refunds[x] = 0
            BY <3>1, OnRow
        <3>3. x \in Priced /\ x \in paid
            BY <3>1, <3>2, OnRow
        <3>4. QED
            BY <3>1, <3>2, <3>3, ReleaseEscrow
    <2>8. ASSUME NEW x \in Cards, SaveBalanceAnswer(p, x) PROVE EscrowStep
        <3>1. PICK s \in Statuses : s = BalanceStatus(job[p].says)
            BY DEF BalanceStatus, Statuses
        <3>2. /\ On(p, "apply", x) /\ st' = [st EXCEPT ![x] = s]
              /\ UNCHANGED <<balance, outside, paid, refunds>>
            BY <2>8, <3>1 DEF SaveBalanceAnswer, On
        <3>3. st[x] = "PENDING"
            BY <3>2, OnRow
        <3>4. QED
            BY <3>2, <3>3, StatusEscrow
    <2>9. CASE \E v \in VtuPurchases : VtuStepOf(p, v)
        BY <2>2, <2>3, <2>4, <2>9 DEF VtuStepOf
    <2>10. CASE \E g \in GiftCards : GiftStepOf(p, g)
        BY <2>2, <2>5, <2>10 DEF GiftStepOf
    <2>11. CASE \E x \in Cards : CardStepOf(p, x)
        BY <2>2, <2>3, <2>6, <2>7, <2>8, <2>11 DEF CardStepOf
    <2>12. QED
        BY <1>7, <2>1, <2>9, <2>10, <2>11 DEF StepOf
<1>8. CASE \E p \in Procs : PurchaseCrash(p)
    BY <1>2, <1>8 DEF PurchaseCrash, Crash
<1>9. CASE \E x \in Purchases, s \in {"processing"} \cup Ended : Provides(x, s)
    BY <1>2, <1>9 DEF Provides
<1>10. QED
    BY <1>1, <1>3, <1>4, <1>5, <1>6, <1>7, <1>8, <1>9 DEF Next

(* Purchases implement the escrow: a price leaves the wallet once, out of  *)
(* funds that are there, and comes back at most once and never after the   *)
(* purchase was COMPLETED.                                                 *)
THEOREM PurchasesImplementEscrow == Spec => PurchasesAreEscrowed
<1>1. ASSUME IInv, IInv', [Next]_vars
      PROVE  [PurchaseEscrow!EscrowNext]_(PurchaseEscrow!escrowVars)
    <2>1. CASE UNCHANGED vars
        BY <2>1, HoldStays DEF vars, PurchaseEscrow!escrowVars, hold
    <2>2. CASE Next
        BY <1>1, <2>2, NextEscrow DEF EscrowStep
    <2>3. QED
        BY <1>1, <2>1, <2>2
<1>2. QED
    BY InitEscrow, InductiveInvariant, <1>1, PTL
       DEF Spec, PurchasesAreEscrowed, PurchaseEscrow!EscrowSpec
=============================================================================
