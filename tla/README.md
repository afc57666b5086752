# CrownEx backend: models and proofs of its money flows and its accounts

CrownEx is a Django backend that keeps NGN wallets and crypto wallets for its users and
calls providers (Flutterwave, Quidax, PluginNG, Reloadly, Bitnob, Dojah) to move real
money. Every operation has the same skeleton: take the money in one database transaction,
call a provider outside it, settle or give back in another. What is hard is everything
between the transactions: other requests, webhooks, reconcilers and admins on the same row,
answers that do not come, and processes that are killed. These modules are about that.

## 1. The system

### Processes

`Procfile` starts `web` (gunicorn, `--timeout 60`, as many workers as WEB_CONCURRENCY says)
and `worker` (`process_deposit_settlements --loop`, which advances deposit settlements and, once
a minute, reconciles instant orders, NGN withdrawals, gift card purchases and missed deposits). A release overlaps old and new processes. A web process that
waits for a provider longer than 60 s is killed in the middle of its request; Quidax's
client tries up to three times with 30 s each. So a process can stop between any two
transactions. There are no other locks than row locks (`select_for_update`), held within
one transaction.

### Components

| component | state | operations | interacts with | what makes it correct |
|---|---|---|---|---|
| NGN wallet ledger (`wallet/services.py`, `wallet/models.py`) | `Wallet.balance` | debit, credit under a row lock | every paid operation | no money made or lost |
| NGN deposits (`wallet/services.py`) | `Transaction.status` | initiate, verify, `charge.completed` | Flutterwave | a paid charge is credited, once |
| NGN withdrawals (`wallet/services.py`, `reconcile_withdrawals`) | `Transaction.status`, `flw_transfer_id` | request, `transfer.completed`, reconcile | Flutterwave | refunded once and only if not paid out; settles in the end |
| Crypto wallet ledger (`crypto/services.py`) | `available`, `reserved` | credit, reserve, release, debit | orders, withdrawals, settlements | reserved is what is held, no more |
| Deposit settlement (`crypto/settlements.py`) | settlement row, its sell order | create, sweep, poll, webhook, sell, skip, hold, stale sell, admin retry | Quidax, wallets, orders | swept before sold, neither twice, paid once |
| Crypto withdrawals (`crypto/withdrawals.py`) | withdrawal row | request, `withdraw.*`, admin complete and reject | Quidax, wallets | coins come back once and only if not paid out |
| Crypto orders (`crypto/orders.py`) | order row and log | buy, sell, two-leg and instant swap, reconcile, admin resolve | Quidax, both wallets | both sides move once, or neither |
| Crypto deposits (`crypto/deposits.py`) | sub-accounts, addresses, event rows, the worker's cursor | link, address, webhooks, the worker's pass, the admin's command | Quidax, accounts, settlement | each on-chain deposit credited at most once ever, and without its webhook in the end |
| Markets and quotes (`crypto/services.py`) | quotes, caches | create, expire, use | orders | a quote is used once and not after its expiry |
| VTU (`vtu/services.py`) | `VTUTransaction.status` | four purchases, requery, webhook | NGN wallet, PluginNG | paid once for what was delivered |
| Gift cards (`giftcards/services.py`) | `GiftCardPurchase.status`, `reloadly_tx_id` | buy, webhook, refresh, reconcile | NGN wallet, Reloadly, worker | paid once for a card; settles without its buyer |
| Virtual cards (`cards/services.py`) | `VirtualCard`, `CardTransaction` rows | request, sync, fund, withdraw, freeze, unfreeze, terminate | NGN wallet, KYC, Bitnob | the row's card is Bitnob's; naira are not lost |
| Accounts and OTP (`accounts/services.py`, `accounts/views.py`) | `User` row, codes and their attempts | register, verify, complete, log in, reset, change, delete | mail, everything that hangs on a user | guesses are bounded; a saved change stays |
| KYC (`kyc/services.py`) | `KycVerification` row | submit, address, admin approve and reject | Dojah, cards | a status belongs to the data it was given for |
| Admin panel, configuration | none of their own | lists, statistics, thin views | all | |

The hard behaviours, line by line, are the hazards of `PROJECT.json`: reads before a lock
used after it, answers that outlive the row they are about, time-outs that are taken for
refusals, kills between two transactions, lost webhooks, exhausted attempts, clamps at zero.

## 2. Modules

| module | models | by |
|---|---|---|
| `NgnLedger` | wallet rows, processes, the other apps' debits and credits | one action per row-locked update |
| `NgnDeposits`, `NgnWithdrawals` | `wallet/services.py` on top of it | one action per transaction or provider answer |
| `NgnWallet` | their composition; fairness; properties | `Next` interleaves the two on shared wallets and processes |
| `Escrow` | abstract: a price is held once, then captured or released | `NgnWallet` implements it |
| `CryptoLedger` | `available` and `reserved`; other operations on the same wallet | one action per row-locked update |
| `DepositSettlement` | all of `crypto/settlements.py`, and what of `orders.py` it calls | one action per compare-and-set, request or answer |
| `Reservations` | abstract: a claim is counted in `reserved` exactly while it is held | `DepositSettlement` implements it |
| `CryptoWithdrawals` | all writers of a withdrawal row | one action per transaction, request or answer |
| `OrderBook` | order rows, what each order moved, the processes on it, how an order fails or waits for an admin | one action per row-locked update |
| `MarketOrders`, `InstantSwaps` | on top of it: market buys, sells and two-leg swaps; swap quotations with webhooks, polling and reconciliation | one action per transaction, Quidax call or report |
| `CryptoOrders` | their composition; an admin's resolution of unknown outcomes; fairness; properties | `Next` |
| `PurchaseBook` | a purchase's row, the provider's side of it, the request on it, the refund under the lock | one action per transaction, answer or webhook |
| `VtuPurchases`, `GiftCards`, `CardFundings` | on top of it and of `NgnLedger`: `vtu/services.py`, `giftcards/services.py`, and the naira side of `cards/services.py` | one action per operation and per step |
| `Purchases` | their composition on one wallet; fairness; properties | `Next`; implements `Escrow` |
| `Accounts` | the `User` row and the one-time codes of an e-mail address | a request reads the row in one action and saves in another |
| `Kyc` | the verification row; Dojah's score against an admin's decision | extends `Accounts` |
| `VirtualCards` | the card row and the card at Bitnob | extends `Kyc` |
| `Identity` | their composition, deletion with its cascade, kills; properties | `Next` |
| `CryptoDeposits` | `crypto/deposits.py`, its worker pass and command, re-registration under an e-mail address | one action per row, listing or credit |
| `MC*` | small instances | constants, symmetry |
| `Sums` | lemmas about sums over sets of rows, which the proofs rest on | TLAPS |
| `*Proofs` | theorems | TLAPS |

Conventions. A row's columns that a property can tell apart are variables, "none" standing
for a row that does not exist yet. `job[p]` is the local state of process `p`: the step it is
at and what it read before. A step that runs in one transaction under a row lock is one
action; where the code looks at a row first and locks it later, the look is one action and
the locked part another, with its own guard. What a provider has done is a variable of the
environment (`transfer`, `charge`, `market`, `payout`, `fills`, `conversion`, `order`, `bitnob`), apart from what the code believes.
A crash empties `job[p]` and leaves the database. Names are the code's where it has them.
History variables (`refunds`, `credits`, `hold`, `guessed`, `killed`, `died`, `acct`, `past`, `clean`, ...) are read by
properties only, except that `hold` in `CryptoWithdrawals` keeps a request that has reserved
from being made again. Operators named `Mut...` are
faulty variants that no behaviour uses: replacing the definition below them breaks the
property that guards it, which shows that the property can fail.

### NGN wallet

`request_withdrawal` debits and inserts PENDING in one transaction, then posts the transfer.
The answer is a success (`TransferAccepted`), or an error, refusal and time-out alike
(`TransferNotConfirmed`, then `RequestRefund` by `_refund_and_fail`, which locks the row and
looks at the status). The webhook looks without the lock and settles with it
(`TransferWebhook`, `SettleTransfer`). `Reconcile` walks PENDING rows, by id or else through
ten pages of transfers; `Buried` are references beyond the tenth page. Deposits:
`verify_payment` reads without a lock, asks Flutterwave, then credits under the lock or saves
FAILED over whatever the row has become (`MarkFailed`).

### Deposit settlement

PENDING -> SWEEPING -> SWEPT -> SELLING -> COMPLETED, with SKIPPED, FAILED and back-off
returns. `_transition` is the compare-and-set on the status (`Wins`). A process holds the row
it loaded (`job[p]`: attempts and reference) across the Quidax call, so late answers meet rows
that have moved on. The worker takes rows up in `TakeUp`; `GoOn` are the continuations.
Sweep references are numbered; a used one is found at Quidax and not sent again.

### Crypto withdrawals

`request_withdrawal` checks key and daily total, `Reserve`, `_create_withdrawal_row` (whose
idempotency key is unique: with the key taken it fails five times and leaves the coins
reserved), `_execute_quidax_withdrawal`; then `Accepted` debits the reservation, or `Raised`
leads to `Release` and, in a transaction of its own, `Fail`. The webhook looks
(`handle_withdraw_webhook`) and then settles under the lock (`Settle`). The two admin
operations are one step each. Learned minimums, networks and addresses only decide whether a
request is admitted, and are left out.

### Crypto orders

One row has one of seven kinds, fixed in `Init`: a buy, a sell and a swap by market orders; the
same buy, and the second leg of the same swap, by Instant Swap (QUIDAX_INSTANT_BUY_ENABLED); an
instant swap; and a swap that failed before refunds were automatic, which is all that
`admin_resolve_failed_swap` still serves: the log entry it looks for,
`reservation_debited_needs_review`, is written by no code any more (`tests.py:843` makes one).

A request is a chain of steps (`job[p].at`): pay, buy, complete; reserve, sell, spend, buy the
second leg, complete; reserve, quote, store the quotation's id, confirm, store the swap's id, poll,
finalise. `Places` is a market order, filled or not, whose answer may not come. An
order that Quidax certainly did not fill goes to "refuse", "giveback" or "refundngn"; one that it
may have filled goes to "flag" and waits for `admin_resolve_unknown_order`, which carries it
on as if Quidax had answered. Reports (`handle_swap_webhook`, `reconcile_instant_swap`)
look at the status without a lock and end in the same locked steps as the request. Amounts
are left out: an order takes, reserves and pays in whole, whether a balance suffices is
chosen freely, and dust refunds belong to the completion they are committed with.

`acct[o]` counts what an order took from the naira wallet, has reserved, and has paid out;
`past[o]` remembers whether a request on it was killed (`died`), or started while another was
under way (`overlap`), and the properties say where they need that neither happened.

### Purchases

A VTU purchase debits in one transaction (`VtuDebit`), creates its PENDING row in the next
(`_create_pending_tx`), asks PluginNG and applies the answer, or refunds on any error. A gift
card debits and creates its row together (`buy_gift_card`). A card funding debits, creates its
row, asks Bitnob and, on any error, saves FAILED and credits in a transaction after that one
(`BalanceNotConfirmed`, `GiveBackNaira`). What the provider made of it is `order[x]`; an answer
may be as old as the order (`Told`). A VTU row is settled later by the webhook or the buyer's
requery only, a gift card also by the worker, which takes the oldest `BatchLimit` rows with a stored id:
`elders` is how many older ones there are. Nothing asks about a card funding again.

`RefundedOnlyIfUndoneOrGuessed` and `DebitsAreAccountedFor` name what the code gives up: a refund
of a request that went unanswered (`guessed`), a kill where nothing takes the purchase up again
(`killed`), and a funding that Bitnob answered with status failed (`AnsweredFailed`,
`cards/services.py:227`).

### Account, KYC and card

One e-mail address, and `Requests` that are each made once: a request is a chain of steps, and the
copy of the row it read is `job[r].saw`. No row is locked, except that `submit_verification` holds the KYC row
over the call to Dojah (`Held`), and that the unique key of a new card row keeps a second
`request_card` waiting. `save` is Django's: with `update_fields` it writes some columns, without it
the whole copy, which inserts a row that was deleted meanwhile. `_status_from_score`
is exact at both thresholds. Codes age from fresh (the cooldown) over old to expired.
`misses` counts the wrong guesses a code was compared with; `counted` says that every one of them could be
counted: that is false for a code two requests held at a time, for one whose request was
killed before it saved the count, and for one guessed at in `reset_password`, which rolls its own count
back (`accounts/services.py:379`, the decorator). `clean` says that the card's requests came one by
one and were answered. `bitnob` is the sequence of statuses of every card Bitnob ever made; a row's `id` is the number of
its card, so that a save, like Django's, is about its own row and a copy of a deleted row does not meet the
next one. `unheard` counts the cards whose answer did not reach the app, `forgotten` those whose account was deleted.
A card request keeps the deletion and the re-insertion of a row waiting, since its own row is
not committed yet.

### Crypto deposits

The events, the sub-account and the addresses hang on a user's primary key, but the sub-account at
Quidax belongs to the e-mail address, which a new user may have after a deletion. So a deposit
that was credited may be listed again for another user, and only its event row, unique by Quidax's
id, says that it was credited. It can not be deleted: its settlement refers to it with PROTECT
(`crypto/models.py`), so that the deletion of its user fails. The worker's pass takes
`BatchSize` sub-accounts after the cursor; a user's sub-account has the user's place in that order. A deposit
older than `AUTO_RECONCILE_MAX_AGE` is left to the command.

## 3. Checks

| run | asks |
|---|---|
| `wallet_safety` | refunds once iff FAILED; reports agree with Flutterwave; credits match reopenings; money is conserved; withdrawals implement the escrow |
| `wallet_liveness` | with every transfer webhook lost, a transfer that ended settles its row if it can be looked up; a paid charge is credited |
| `settlement_safety` | nothing sells unswept; sweeps and sells do not overlap; paid once; converting coins are reserved; skipped ones given back; settled rows stay; reservations are implemented; with webhooks lost and a process killed, every settlement ends or is given to an admin |
| `withdrawals_safety` | a rejection credits once; what was paid is not returned unless the request gave up on an unknown outcome; coins stay reserved only under a running request; one key pays once; the daily limit gives way by one request per other worker at most; settled rows stay |
| `orders_safety` | what is booked happened at Quidax, and what may be confirmed is stored; proceeds are backed and credited once; a FAILED instant order is not converted; nothing unreserved is given back; a closed order is square; COMPLETED stays; an ended conversion is settled or with an admin |
| `purchases_safety` | COMPLETED means done, and what was done is refunded by guess only; no debit is lost but in the named ways; purchases implement the escrow; a gift card Reloadly ended settles without buyer and webhook |
| `identity_safety` | a code is compared with a bounded number of wrong guesses; what one request changed, another undoes only by a stale save of the whole row; a KYC status is its data's; the app's card is the one Bitnob has |
| `deposits` | a deposit is credited at most once ever, to a user of its sub-account; without its webhook the worker credits it |
| `wallet_credited_twice`, `wallet_paid_and_refunded`, `settlement_swept_twice`, `withdrawals_paid_and_returned` | expected violations, see below |

Deadlock is not checked: all of these systems may come to rest with every row settled.

### Bounds, and why they are enough

- Wallet: one user, because rows of different users share nothing; two withdrawals (amounts
  1 and 2, the second past the tenth page) and one deposit compete for one balance; two web
  workers and the Settler give the three-way race of error path, webhook and reconciler; one
  crash at any step. `MaxCredits = 2` lets a deposit be credited once too often. The liveness run has one web
  worker.
- Settlement: rows share only the wallet, where `Elsewhere*` stands for every other
  operation, so one row with amount 2; one worker and one web process (`swept_twice`: two
  workers); `MaxAttempts = 2` (the code has 8) exercises both retrying and running out;
  `MaxRefs = 4` references allow two sweeps before and two after one admin retry; one crash.
- Withdrawals: four requests of one unit on one wallet, two under the same key; `DailyLimit = 1`,
  so that two admitted at once pass it; two web processes; one crash; at most two coins in the
  wallet and one reserved elsewhere. Processes, the two
  requests under one key, and the two with keys of their own are symmetric: keys are only
  compared, and nothing else tells them apart.

- Purchases: one row of each kind, at most two of them begun, so that any two meet on one wallet of two; two web workers
  and the Settler; one kill; a batch of one row with at most one older.
- Identity: any three requests, one kill. Three are what the hazards take: two guesses and the one that
  should find the lock, a read, a change and a stale save, or a sync, a freeze and a look.
  `OTP_MAX_ATTEMPTS = 2` (5 in the code), so that three guesses pass it. Scores 69, 70 and 90 are the two thresholds and
  the value below. The behaviours begin with an account at each step of its registration, a verified one
  and one with a card, since three requests do not lead there. Requests are interchangeable.
- Deposits: two people, the first of whom may register again as a third user; one coin, one
  deposit; batches of one, so that the cursor passes over the user before it comes back; one kill of the worker or the command.
- Orders: rows share only balances, whose sufficiency is free, so one row of each kind; two web
  processes and the worker give request, webhook and reconciliation at once; one retry and so
  two quotations, enough for a late report to meet a newer attempt; one kill at any step.

### Fairness

Wallet: a process that works on a request goes on until it is killed (WF); the Settler's loop
visits a PENDING row again and again (SF on `Reconcile`); Flutterwave repeats
`charge.completed` until a worker has taken it (SF). Users, `transfer.completed` and what
Flutterwave decides are not fair.

Settlement: processes go on (WF); the worker loop takes up every due row again and again (SF);
a price is quoted in the end (SF on skipping or selling: without it the code retries for
ever, as it says); a request on the wire lands or is lost (WF). Webhooks, admins and Quidax's
verdict on a transfer are not fair: a sweep that is never decided is given up by age.

Orders: processes go on until killed (WF); the worker comes back to every PROCESSING order
once a minute (SF on `reconcile_due_instant_swaps`). Webhooks, admins, users and Quidax's verdict
are not fair.

Purchases: a process goes on until it is killed (WF); the worker comes to a row of its batch again and
again, and Reloadly, asked about an order it has ended, says so in the end (SF on `Settles`).
`StoredOrderSettles` is conditional on `[]<>(elders < BatchLimit)`: 50 older purchases that never
settle starve a younger one. Buyers and webhooks are not fair.

Deposits: the worker's loop goes on (WF on its pass); Quidax gives a list it is asked for again and again
(SF). Webhooks, users and the command are not fair.

### Assumptions on time and on providers

Time is not modelled; where the code relies on it, a guard says so:
a back-off of at least 60 s outlasts a web request, so no row is loaded as PENDING
while another process is about to start its sweep; a sell still SELLING after ten minutes is
not being sent any more (one try of 30 s); a sweep request that Quidax has no record of after
ten minutes or a day never lands (`settlements.py:70`); an admin retries, completes or
rejects when no process is on the row and after looking at Quidax. A definite 4xx with no
record is a refusal. A reference names at most one transfer at Quidax, however often the
client sends it. The worker looks at orders older than
a minute, when gunicorn's time-out has ended the request that made them (`~Placing`); admins'
checks are not held back. An admin who resolves an unknown outcome reads Quidax's history
rightly and only once a swap has ended (`Known`). Withdrawals of one user on one day are one set; the turn of the day is not
modelled. A create-card request that Bitnob's client repeats makes one card: it carries the same
reference. Quidax lists deposits without pages asked for (`crypto/quidax.py:185`): `MissedDepositIsCredited`
assumes that the list it gives holds the deposit, as the first page does while it is recent. Because a sell older than
ten minutes is not being sent any more, no run exercises a market order that executes after the
stale-sell check gave its row to an admin. The mail server's answer changes nothing but what `RegisterCommit` rolls back.

### Where the code departs from what it says

1. `wallet/services.py:147` — `verify_payment` saves FAILED over a deposit that a webhook has
   completed meanwhile; the next verification credits it again (`CreditedAtMostOnce`). What
   does hold is `CreditsMatchReopenings`.
2. `wallet/services.py:254` — a transfer request whose answer is lost is refunded although it
   may be paid (`NeverPaidOutAndRefunded`). What holds is `ReportsAreTrue`.
3. `crypto/settlements.py:116` — the compare-and-set looks at the status only; a late answer
   about an older sweep reference puts a row under a newer one back to PENDING, and two sweeps
   are on their way (`SweepsDoNotOverlap` with two workers). With one worker it holds.
4. `crypto/withdrawals.py:232` — every QuidaxError releases the coins, a time-out included,
   and Quidax may pay all the same (`NeverPaidAndReturned`). What holds is
   `ReturnedOnceUnlessGuessed`. The same property names a second window: a kill between the
   release and FAILED, after which an admin's rejection credits the coins again; and
   `HeldWhileRequested` names the two ways coins stay reserved: a kill, and a taken key.

Some of the other properties are stated with the exceptions the code needs. They do not show that the hazard
they name is avoided: it happens, and they say that it is the only way in which things go wrong, so that a
second way would be found. In `PROJECT.json` such a hazard names, in its note, the property that excuses it and the
history it is excused by, and lists only properties that a mistake there would break. No run is kept for each:

- A kill between SKIPPED and the release (`crypto/settlements.py:418`) leaves the coins reserved for
  good (`crashes > 0` in `SkippedIsGivenBack`).
- A VTU purchase or a card funding killed between its debit and its row, or a funding killed between FAILED and its
  credit, or answered with status failed, is not given back by anything (`DebitsAreAccountedFor`). An
  unanswered purchase is refunded although it may be delivered (`RefundedOnlyIfUndoneOrGuessed`).
- A reversal that PluginNG reports after a success finds the row COMPLETED and is not refunded.
- A gift card whose request is killed before the id is stored waits for Reloadly's webhook.
- A profile update saves every column of the copy it read (`accounts/views.py:349`), so it may put back an old
  password or PIN, and insert a deleted account again; so does `complete_profile`, on complete accounts too, and so
  does a restarted registration, on an account that was incomplete when it read it (`ChangesStay`).
- `reset_password` checks the code inside its own transaction (`accounts/services.py:379`), so a wrong guess
  rolls back the count and the lock that `verify_reset_otp` has just saved; and two guesses side by side read the same
  count (183, 369), so that one of them is not counted (`counted` in `MissesAreBounded`).
- `kyc/views.py:27` calls approved and rejected "final for the auto-decided range". They are not: an
  admin's `approve` takes a REJECTED submission and `reject` an APPROVED one, whoever decided it
  (`kyc/services.py:148`, 159; `Decidable`). `DecidedOnItsData` allows the override.
- An admin's decision that waited for a resubmission is saved over the score of the new data
  (`during` in `DecidedOnItsData`).
- A lost answer to a freeze, an unfreeze or a termination leaves the old status for good, and a
  lost answer to a creation leaves a card at Bitnob that the app does not know (`CardAgrees`).
- The docstring of `delete_user` (`accounts/services.py:465`) says that every relation cascades; a user with a
  crypto deposit can not be deleted at all, since its settlement is PROTECTed. `CreditedAtMostOnceEver` needs
  that: its mutant is the cascade.

Of the orders:

- `admin_retry_buy` (`orders.py:1440`) and `_retry_sell_order` (439) read the status without
  a lock and `Restart` and `_start_processing` write it unconditionally, so two at once
  buy, or reserve and sell, twice (`overlap` in `ProceedsOnce`).
- `reconcile_instant_swap` (1002) gives coins back when no quotation is stored. An
  admin's check may run before the request has reserved or quoted, and the request goes on;
  after a kill between creation and reservation the coins were never reserved
  (`NothingReleasedUnreserved`), whatever 'Never releases or credits on a guess' (963) says.
- A kill after the debit of a buy and before PAYMENT_RECEIVED (241-247) leaves PENDING_PAYMENT
  with the naira gone; `admin_reject_order` takes such an order for one that has 'committed'
  nothing. A kill between a refund and its log line (122-127) makes a retry free; a retry of an
  order that was rejected before it was paid is free too (`died` and `rejected` in `ClosedIsSquare`).
- A market order whose request is killed while it is PROCESSING, or a buy killed while PAYMENT_RECEIVED,
  stays so: nothing comes back to it (`EndedConversionSettles` is about instant orders).

## 4. Proofs

For every value of the constants that satisfies the named assumptions (which every run
evaluates): any users, rows, amounts, processes, attempts and crashes.

| module | theorem | statement |
|---|---|---|
| `NgnWalletProofs` | `InductiveInvariant`, `TypeCorrect` | `IInv`, `TypeOK` |
| | `RefundOnce`, `TrueReports`, `CreditsOnceUnlessReopened` | the wallet's safety properties |
| | `WithdrawalsImplementEscrow` | `Spec` implements `Escrow` under the mapping of `HoldOf` |
| | `MoneyIsConserved` | what a wallet holds and its withdrawals took is what came in |
| `DepositSettlementProofs` | `InductiveInvariant`, `TypeCorrect` | `IInv`, `TypeOK` |
| | `SellsAreSwept`, `PaidOnce`, `SettledForGood` | swept before sold, paid once, settled for good |
| | `ConvertingHasCoins`, `SkippedGivesBack`, `OneSellAtATime` | the settlement's other safety properties |
| | `OneSweepAtATime` | `SweepsDoNotOverlap`, with one worker |
| | `SettlementsImplementReservations` | `Spec` implements `Reservations`: `SettlementsAreClaims` |
| `CryptoWithdrawalsProofs` | `InductiveInvariant`, `TypeCorrect` | `IInv`, `TypeOK` |
| | `RejectionsCreditOnce`, `ReturnsAreRight`, `HeldOnlyWhileRequested`, `SettledForGood`, `KeysPayOnce` | the withdrawals' safety properties |
| | `ReservedIsWhatIsHeld`, `LimitIsNearlyKept` | the reserved balance is a sum; the daily limit, and by how much it gives way |
| `CryptoOrdersProofs` | `OrdersInvariant`, `TypeCorrect` | `OrdersInv`, `BookTypeOK` |
| | `ProceedsAreOnce`, `CreditsHaveDeals`, `FailedStaysUnconverted`, `ClosedBooksBalance`, `ReservationsComeFirst`, `CompletedForGood` | the orders' safety properties |
| `PurchasesProofs` | `InductiveInvariant`, `TypeCorrect` | `IInv`, `TypeOK` |
| | `RefundsAreRight`, `NoDebitLost` | the purchases' safety properties |
| | `PurchasesImplementEscrow` | `Spec` implements `Escrow` under the mapping of `HoldOf` |
| `IdentityProofs` | `InductiveInvariant`, `TypeCorrect` | `IInv`, `TypeOK` |
| | `CompleteMeansReady` | `LoginReady`: a complete account is verified and has a usable password |
| | `DecisionsMatch`, `ChangesStayForGood` | a status belongs to its data; only whole-row saves undo changes |
| | `CardIsBitnobs`, `MissesStayBounded` | `CardAgrees`, `MissesAreBounded` |
| `CryptoDepositsProofs` | `InductiveInvariant`, `TypeCorrect` | `IInv`, `TypeOK` |
| | `CreditedOnceEver` | a deposit is credited at most once, to a user of its sub-account |

The argument. None of the properties is inductive alone, because a step uses what a process
read earlier. Each `IInv` therefore says what a process still knows:

- wallet: a job is about a row of the right kind, the answer it carries is still true at
  Flutterwave (final states do not change), and a row that does not exist has no transfer;
- settlement: a row past the sweep has a sweep that is done at Quidax; "done" on its way to a
  row is true; a process in the middle of a sell has an order of its own that is still open;
  so of two late answers only one finds an open order and pays;
- withdrawals: at each step the status, the reservation and Quidax's side are what the step
  before left, except that a webhook may have settled the row after Quidax ended the payout;
  no two processes work on one request; a row whose coins are released has a process about to
  fail it, unless that was killed. This last part is what keeps an admin from rejecting it;
- purchases: each step is about a purchase of the right kind, debited, with or without a row; an
  answer in hand is still one the provider can have given; nobody else is on a purchase without
  a row, or on a card funding ever, whose FAILED and credit no lock protects; and FAILED of the other kinds means refunded, once;
- accounts, KYC and cards: the copy in hand is a row of the request's kind, complete only if
  verified and with a password, so that no save of a whole stale row makes a complete account
  that can not log in; an admin's decision on its way is about the submission in the row, or was
  running when a newer one was committed. Every step moves one request (`Moved`), and one lemma
  says what saving a row or some fields of it does (`SaveFacts`). Two invariants stand on `IInv`:
  `CardInv`, that as long as requests on the card came one by one the only difference between row and
  Bitnob is a request that Bitnob answered and that has not saved (`Changed`), and what a sync has
  read still holds; and `GuessInv`, that a counted code has at most one request on it, which holds the
  count that is in the row, so that the misses are at most the count, plus one on its way;
- orders: `OrdersInv` speaks of one order at a time. While its requests did not overlap (`Steady`) one
  request is on it, and beside it, at its last steps (`Late`), reports of webhooks, polls and
  reconciliation; each step fixes the status, the quotation and what Quidax did so far, and a quotation
  that was left is dead before the next one is confirmed. If none was killed either (`Square`), it fixes the
  reservation and the payments too. Half-done swaps of an older version have an invariant of their
  own (`Legacy`): the admin's claim keeps the others away. `NothingReleasedUnreserved` and `CompletedStays` are
  shown for each step on top of it;
- deposits: a deposit once accepted stays accepted, an account never changes its sub-account, and
  the account of an event stays, because its deletion is refused.

Sums. `MoneyConserved`, `ReservedIsHeld`, `DailyLimitHeld` and `Reservations` are about sums of
amounts over a set of rows, which the community modules define by recursion on the set with a `CHOOSE`.
An induction theorem with an operator parameter is out of the provers' reach; `Sums` takes a smallest
counterexample instead: strict inclusion of finite sets is well founded (`FS_StrictSubsetOrderingWellFounded`,
`WFMin`), so of the subsets at which a claim fails there is one none of whose parts fails, and one step of the
recursion contradicts that. `TotalTake` says that any element may be taken first, the others what a sum
becomes when a row enters, leaves or is among more. In each module the rows whose amount is in the sum
are always finitely many (only finitely many were begun), or, for the daily limit, the day's rows are
(`DayAssumption`). `LimitIsNearlyKept` adds to the day's total the requests that have passed the check and
have no row yet: each worker has at most one, and the last to check saw all but those of the others.

Refinements. `SettlementsImplementReservations` needs that `max(reserved - amount, 0)` never cuts:
the reserved balance is the sum of what the settlements hold and of what others do (`HeldTogether`), so
that each claim is covered when it is released or spent. Every step then moves the coins of one row or
none (`NextCoins`).

Sweeps and sells. Each is counted by references that are numbered in order and used once. The
invariants (`RowSweeps`, `RowSells`) say of every row that besides the newest reference no more are alive than admins
asked for retries, that the newest is over as well when the row is about to send another, and that a process in the
middle of a sweep or sell is about the newest. For sweeps this needs one worker, as the `Procfile` starts: it is the hypothesis of
`OneSweepAtATime` (`OneWorker`), and with two the run `settlement_swept_twice` shows why.

What rests on the assumptions on time (section 3) beside the named hypotheses: of settlements,
`SweepsDoNotOverlap`, `SellsDoNotOverlap` and `ConvertingIsReserved`, whose steps have those guards; of
withdrawals, that an admin settles a row only when no process is on it (`AdminMay`). `KeysPayOnce` adds to
`IInv` that a key has one row, which `_create_withdrawal_row` keeps. Steps that change one row go through
one lemma each (`LegalRow`, `OneStep`, `ProcessStep`, `Single`, `Moved`); every action has its own lemma.

Only model-checked: liveness and everything under fairness (`EndedTransferSettles`, `PaidChargeIsCredited`, `SettlementEnds`,
`EndedConversionSettles`, `StoredOrderSettles` and the like), which are out of the prover's reach. Every
other property of a passing run has a theorem.

## 5. Plan

1. NGN wallet: done, proved.
2. Crypto ledger, deposit settlement, reservations: done, proved.
3. Crypto withdrawals: done, proved.
4. Crypto orders: done, proved. Left: `CryptoTrading`, which composes orders and
   withdrawals on one wallet in place of `Elsewhere*`, and a specification of an exchange,
   both sides move once or neither, that orders without overlapping requests implement.
5. Purchases: done, proved.
6. Accounts, KYC, cards, deposits: done, proved. Left: the pure functions (fees,
   rounding, the reading of an order's log) against reference definitions.
7. Proofs: every safety property is proved. Left: that withdrawals implement a claim
   of `Reservations` as settlements do, and the exchange of 4.

## 6. Not modelled

The quote's life (`crypto/services.py`): a quote is locked, checked and marked used in the
transaction that creates the order, so two requests can not both use it and nothing comes between.
The rest of that file, and the admin panel's lists, compute or read. Logout blacklists a token of the JWT
library; phone numbers, names and the other columns of a row
that nothing here depends on are left out. Prices, fees, minimums, addresses and notification texts
decide which requests are admitted, and amounts, but no interleaving; provider clients appear
as their outcomes. Postgres is assumed to serialise transactions that lock the same row, and to
commit a transaction as a whole or not at all. A wallet credit of a card funding whose user is deleted
meanwhile, and what a deletion takes from the money flows, are left out.
