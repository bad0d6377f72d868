# TLA+ models of PropAI

PropAI is a platform for real-estate development: feasibility and design
services, the sale of a project's units, billing with prepaid coins, and smart
contracts for deals. Most of its code computes numbers or calls models and
public data. This directory specifies the part where several actors change
shared state: who has paid what, and who has which unit.

Paths below are relative to `src/propai-platform/`; `billing/` and `sales/` stand
for `apps/api/app/services/billing/` and `apps/api/app/services/sales/`.

| file | what it is |
|---|---|
| `TossPayments.tla` | coin orders, card and virtual-account payments, refunds, reconciliation |
| `TossPayments_proofs.tla` | its theorems, for any number of orders, payments, users and requests |
| `CoinExchange.tla` | what charging coins promises, money against coins: the abstract specification it implements |
| `MCTossPayments.tla`, `MCToss*.cfg` | its instances for TLC |
| `SalesUnits.tla` | units of a sales site: holds, menu, contracts, subscription, instant draw |
| `SalesUnits_proofs.tla` | its theorems, for any number of units, staff, contracts and applications |
| `MCSalesUnits.tla`, `MCUnits*.cfg` | its instances for TLC |
| `SalesPayments.tla` | installments of a contract, payments, reversals, loans |
| `SalesCommission.tla` | commission: pool, splits, milestones, payout runs |
| `SalesMoney_proofs.tla` | theorems about both, for any contracts, payments, versions and runs; the types of a whole sale |
| `MCSales.tla`, `MCSales.cfg` | units, payments and commission for TLC |
| `DrawEvidence.tla` | the commitment an instant draw rests on, its finalisation, its anchor on the chain |
| `DrawEvidence_proofs.tla` | its theorems, for any number of candidates, commitments and deaths |
| `Outbox.tla`, `OutboxTwo.cfg` | the transactional outbox and its two dispatching processes |
| `AtLeastOnce.tla` | what the outbox promises: the abstract specification it implements |
| `ChargeOnce.tla` | the idempotency key of a request that costs money |
| `Services_proofs.tla` | theorems about all three, the refinement among them |
| `MCServices.tla`, `MCServices.cfg` | the outbox and the charges for TLC |
| `UsageMeter.tla` | the monthly amount, bought coins, free analyses |
| `ParcelBatch.tla` | batch jobs over parcels: submission, runs, cancellation, each `get` and `save` in its statements |
| `MCTossTakeBack.tla` | coin orders that are taken back, and the batches, for TLC |
| `Apart_proofs.tla` | theorems about the meter and the batches, and the types of the six components `MCApart` joins |
| `Escrow.tla` | the contract `PropAIEscrow`, with recipients that call back or fail |
| `Deposits.tla` | what it promises, a transaction being one step: the abstract specification it implements |
| `SubcontractPayment.tla`, `PropAIToken.tla`, `PropAIGovernance.tla` | the other contracts |
| `Contracts_proofs.tla` | theorems about all four, for any accounts, amounts and rates |
| `SumTheorems.tla` | what the proofs need to know about sums over finite sets |
| `MCApart.tla`, `MCApart.cfg` | the contracts, the meter and the draw evidence for TLC |
| `PROJECT.json` | components, runs, mutants, the map from definitions to source lines, hazards |

To check: `tlc -config MCTossAll.cfg MCTossPayments`, and so on with the other
configurations; `tlapm TossPayments_proofs.tla` and so on with the other `*_proofs.tla`.

## 1. Inventory

### Billing: card and virtual-account payments (modelled)

*State.* `coin_orders` (status, provider, provider_ref, refunded_krw, paid_at, the
buyer's name), `users.topup_krw`, `coin_ledger_events` (append-only),
`payment_receipts` (append-only, written in a session of its own), and the
payment at Toss.

*Operations.* `create_order`, `confirm_toss_payment`, `cancel_order`,
`admin_confirm_order`, `refund_toss_payment`, `reconcile_order` with three callers
(`toss_webhook`, `admin_reconcile`, `reconcile_stale_payments`), `record_usage_usd`,
`withdraw_account`, `purge_expired_buyer_pii`.

*Interactions.* The handlers call the vendor between two database transactions;
the vendor sends unsigned webhooks, which only make us look; the scheduler reads the
unresolved list that the receipts form. Confirmation and reconciliation share one
advisory lock per order, refunds have another, cancellation has none.

*Hard.* The vendor's answer may be lost after the money moved; a handler may die
between vendor and ledger; a reconciliation decides on a row it read before it asked
the vendor; refunds cross; a payment is taken back after the coins were spent.

*Correct means.* Balance and ledger agree; coins are backed by money and money ends
up as coins, or a human is told; refunds stay within the order; a canceled
order stays canceled; a paid order keeps its buyer.

### Sales: units (modelled)

*State.* `sales_unit_inventory` (status, held_by, hold_token, hold_expires_at),
`sales_contracts_ext`, `sales_subscription_winners` and `_reserve_queue`,
`sales_draw_candidates.assigned_unit_id`.

*Operations.* `atomic_hold`, `atomic_release`, `atomic_reserve`; the six actions of
`unit_action`; `create_contract`, `sign_contract`, `cancel_contract`; `run_draw`,
`promote_reserve`, `claim_offer`; `draw_for_candidate`.

*Interactions.* All of them write the one status column of the unit, with row
locks or conditional updates; migration 037 adds a unique index on active contracts.

*Hard.* Holds time out under the holder's hand and tokens outlive them; a contract
is canceled twice; a reserve takes a unit over that went elsewhere; both draws look
at something before they hold the lock they work under.

*Correct means.* One unit, one contract, one winner; what a contract or a winner has
is not offered to others; a hold in time belongs to its holder; a candidate draws once.

### Sales: installments, payments and loans (modelled)

*State.* `sales_contract_installments` (paid_amount, paid_at), `sales_payments` with a unique
`raw_ref`, `sales_loan_agreements` and `_disbursements`.

*Operations.* `ingest_payment`, `manual_match`, `reverse_payment`, `execute_disbursement`,
`repay_loan`.

*Hard.* A deposit is reported again; it is spread over installments that others fill too,
and reversed later; a disbursement writes what it computed from an old row.

*Correct means.* An installment is paid what its payments brought; a deposit counts once.

### Sales: commission (modelled in part)

*State.* Master, events and splits, milestones, holdbacks, payouts.

*Operations.* `split_commission` in `sign_contract`, `clawback` in `cancel_contract`,
`create_schedule`, `set_holdback`, `release_holdback`, `run_due_payouts`.

*Hard.* Signatures race for what is left of the pool; runs race for milestones.

*Correct means.* The pool is kept; nobody is paid more than his split.

### Contracts: sale escrow (modelled)

*State.* A record per escrow (payer, payee, subcontractor, totalAmount,
remainingAmount, expiresAt, status), the contract's balance, and what it inherits: the
owner, the pause, the lock.

*Operations.* `createEscrow`, `fundEscrow`, `releaseEscrow`,
`directPaymentToSubcontractor`, `autoRefundOnExpiry`, `initiateDispute`,
`resolveDispute`, `pause`, `unpause`.

*Interactions.* A payment is two transfers, the fee to the owner and the rest to
the recipient. Each hands control to an account that may be a contract, which
calls back before the payment goes on, or fails, which undoes the transaction.

*Hard.* Four functions hold the lock of `nonReentrant`, the others do not; the
deadline races a release and a dispute; the fee is rounded for each part paid.

*Correct means.* The balance is what open escrows add up to; every deposit is
accounted for; an escrow is open exactly while it has money; it is settled once.

### Sales: the evidence of a draw (modelled)

*State.* Per group: `sales_draw_commitments` (secret nonce, roster hash, beacon round,
`finalized_at`, two anchors), `sales_draw_commitment_voids`, the candidates with what
they drew, and one record of the contract `DrawRegistry`.

*Operations.* `commit_draw`, `void_commitment`, `draw_for_candidate`, `finalize_draw`,
`_reconcile_anchor`, `ChainAnchor._send`; `commitDraw` and `revealDraw` on the chain.

*Interactions.* A draw holds the commitment's row; whoever finds everybody drawn sends
the nonce to the chain and then notes it; readers of the public page correct the anchor.

*Hard.* Roster, beacon and row are read at different times; two last draws end at
once; a transaction is mined after the wait for it, or reverted.

*Correct means.* The nonce is secret until the draw is over; nobody draws who was not on
the roster; the page says about the chain what is true.

### Outbox (modelled)

*State.* `outbox_event` (status, attempts, next_attempt_at); per process the guards
of the consumers, bounded sets of keys; `_SCHEMA_READY`.

*Operations.* `emit_event`, `ensure_schema`, `fetch_publishable`, `deliver`,
`mark_published`, `mark_failed`, `run_outbox_dispatch`.

*Interactions.* Emitters write in their callers' transactions. The arq worker and a
loop of the API process dispatch from the same table, with `SKIP LOCKED` between them.

*Hard.* Delivery and mark are apart, the batch has one commit, a failed mark rolls the
batch back half way, guards are lost with their process and not shared.

*Correct means.* What was emitted is handled by everybody or given up, and published
only then; a change and its event are saved together.

### Charge idempotency (modelled)

*State.* `charge_idempotency`: a row per key, in flight or settled, with its body's hash
and `created_at`.

*Operations.* `reserve`, `settle`, `release`, `charge_once`, and the charges in it.

*Interactions.* Requests with one key meet at its row only. Each charge commits by itself.

*Hard.* Repeats during the first attempt, after it, after its death; two repeats that
find the same expired row; a database that fails in between.

*Correct means.* One request per key is charged; who runs free had a paid one before; a
key is not locked for ever.

### Usage meter (modelled in part)

*State.* The user's tier, amount billed, included amount, bought coins, cycle, free
analyses.

*Operations.* `ensure_cycle`, `record_usage_usd`, `charge_service`, `topup`, `set_tier`.

*Hard.* The draw is computed from a row read before an `await`; the month may change.

*Correct means.* Bought coins are drawn for what exceeds the included amount only.

### Parcel batch jobs (modelled)

*State.* `parcel_batch_jobs` with its items and aggregate, a unique idempotency key.

*Operations.* `submit`, `run`, `cancel`, `find`/`bind`/`unbind_idempotency`.

*Hard.* Runs and cancellations read a record, change it and save it, and a save is itself
several statements with no lock on what it read: it writes only the columns that differ
from its own SELECT, and deletes whichever results it finds. A job is given out again
while it runs; a run raises anywhere.

*Correct means.* One job per key; a complete job is complete; a run ends its job.

### Contracts: subcontract payments, token, governance (modelled)

*State.* Subcontracts and claims with the retention kept back; balances, whitelist,
allowances, dividend debits and credits; members with their power, proposals, votes.

*Operations.* All functions that change state.

*Hard.* Claims add up after separate checks; dividends by an accumulated, rounded amount
per token while balances change; members come and go during a vote.

*Correct means.* A claim is paid once and paid is sent or kept back; what can be claimed
was distributed; power counts once.

### Not modelled, in the order of the plan

| component | state and operations | hard behaviour | properties worth stating |
|---|---|---|---|
| resale, organisation | transfers between buyers, a tree | a move in the tree while a sale is signed | one owner per contract, no cycle |
| unit event ledger, analysis ledger | hash chains | concurrent appends, status read without the lock | one successor per entry; the chain explains the status |
| authentication | refresh tokens | a token used twice | rotation |
| approval workflow | transition table | two approvers | separation of duties |
| `create_order`, `bank_transfer.py` | caps on pending and daily orders, matching of deposits | counted under a lock | never above the cap; a deposit is one order's |
| batches and the project pipeline | stages and cached results | a stage that fails in the middle | a stage runs on what its predecessors ended with |

Left out for good: the appraisal, design, zoning, permit and report services (pure
computation on reals, language models, external data: the larger part of the
code by far), the web client, the workers' glue code and the shared type packages.

## 2. Plan

1. `TossPayments`, `SalesUnits`, `Escrow`, each with proofs: done.
2. `Outbox` with `AtLeastOnce` as its abstract specification, and the proof that it
   implements it: done.
3. `ChargeOnce`, `UsageMeter`, `ParcelBatch`, `DrawEvidence`, the three other contracts,
   `SalesPayments` and `SalesCommission`, with proofs: done.
4. The sums in these proofs (`SumTheorems`): done.
5. `NeverBoth`, `ReturnedIsRecorded`, `StrandedIsListed`, `NoFreeCoins`,
   `CanceledIsFinal`, `RefundsSettle` and `FreshClawIsExact`, each under the conditions it
   needs: done.
6. `Deposits`, in which a transaction is one step, and the proof that `Escrow` implements
   it: done. `CoinExchange`, the exchange of coins and money, and the proof that
   `TossPayments` implements it: done.
7. `DrawEvidence` composed with `SalesUnits`; the unit event ledger.
8. The table above, in its order.

## 3. TossPayments

**State.** `order`, `topup` are the rows; `ledger` and `coins` are the sums of
`coin_ledger_events` per user and per order; `used` counts what usage drew (usage
is not in that ledger); `listed` is `list_unresolved` (an entry with a
paymentKey is that key, one without is the order); `confirm`, `refund` and
`reconcile` are the requests in progress with the local variables they carry across
an `await`; `pay`, `cancels` and `signals` are the vendor: its payments, its
answers by idempotency key, the webhooks on their way. `bank` and `withdrawn` are the
bank transfers received and the accounts closed.

**Steps.** A handler is cut where it waits for the vendor. What it does between two
waits is one transaction and one action; a receipt commits on its own and may be
lost (`File`). `ConfirmBegin`…`ConfirmApply` are `confirm_toss_payment`,
`RefundBegin`…`RefundRevert` are `refund_toss_payment`, `ReconcileFetch`…
`ReconcileConsistent` are `reconcile_order`, which `AdminReconcile`,
`SchedulerReconcile` and `WebhookReconcile` start. Locks are derived from the
requests in progress (`LockFree`, `RefundLockFree`). The vendor is external and
modelled from how the code calls it: idempotent answers, lost answers, refusals,
virtual accounts, partial cancels, approvals taken back.

**Abstractions.** Amounts are small numbers. The refusals and idempotent early returns
that change nothing are absent. Left out: amount mismatches, a vendor's answer without
`balanceAmount`, the scheduler's age window (10 minutes to 7 days) and batch limit,
receipt kinds that never reach the unresolved list, the purge after five years, the
self-confirmation of the simulated mode. Orders exist from the start. A webhook's
receipt and its lock are one step. The vendor does not approve after it has left a
confirmation unanswered, other than at once. `Expire` gathers ABORTED and EXPIRED.

### Runs

One user; an order is worth two coins (three and one in `toss_claw`, four and one in
`toss_refunds`). Two is the least amount with a partial refund, three the least with a
partial refund on each side of a clawback; with four, refunds of different size cross and
leave something. The second order of one coin is what a clawback could take too much of. Bounds: `MaxFaults` faults in a behaviour, `MaxUsed` coins spent.

| run | instance | shows |
|---|---|---|
| `toss_all` | one order, one payment, all events but the replay, all faults, one at a time | types; balance and ledger agree; a paid order keeps its buyer; refunds within the order |
| `toss_refunds` | two orders, two refunds at once, refusals, usage | each step is one of the exchange promised; nobody has both money and coins; what came back is recorded; a paid order at rest has exactly the coins for what the vendor holds |
| `toss_take_back` | one order, two payments, virtual accounts, bank transfers, cancellation, closed accounts, webhooks, two faults; in other behaviours the batches (section 9) | coins stay backed by money; a canceled order stays canceled; the state of batch jobs is true |
| `toss_recovery` | two payments, two confirmations, replay, lost answers and webhooks, three faults, **fairness** | money without coins is listed, and is paid out in the end |
| `toss_claw` | two orders, partial refunds and revocations, webhooks and the button | a clawback on current data leaves the order the coins of what the vendor still holds, unless it refused a refund of the order |
| `toss_reconcile_refund` | webhook and refund, violated | a refund clawed back a second time |

Deadlock is not checked: payments expire and orders end, and the system stops.

A property is checked under the faults it is promised for, and the others break it (the
proofs below name the conditions, and what breaks without them). `RefundsSettle` is about
orders that are paid: when a revert crosses another refund the order keeps the status
`refunded` with coins left, and the scheduler may then claw it back once more, so the
same said of every order that was ever paid, `SettledAtRest`, does not hold;
`toss_reconcile_refund` shows it with a webhook.

`ExchangeIsFair` says that the program implements `CoinExchange`, which knows three amounts
of an order: its coins, the money that was paid for it and has not gone back, and
the coins taken for money that has not gone back yet. Coins are given only if all that
was given and taken before, with these, is covered by money; money goes back only for coins
that are taken, at most as much; and what was taken comes back only while its money has
not gone. The money is that of the vendor and the bank transfer (`Money`); what is
taken is what refunds under way have committed and the vendor has not paid out (`OwedBy`).
A handler's steps are then `Pays` (the vendor approves, or a deposit comes), `Receives` (a
grant), `Buys` (the manual confirmation of a transfer), `GivesIn` (a refund commits), `IsPaid`
(the vendor cancels), `IsRefused` (the revert) and `Loses` (a clawback); all others
stutter. A refund that dies with coins taken and no money gone is an `IsPaid` of no money:
its coins are lost, which the promise allows since it is about not having both.

**Fairness** (`FairSpec`, in `toss_recovery` only). Weak for the steps of a
confirmation and of a reconciliation in progress: the process runs and calls have
timeouts. Strong for the scheduler's attempt on an entry: it runs every hour, waits
for the advisory lock like anybody else, and PostgreSQL serves waiters in turn; the lock
is free again and again, not forever. No fairness for customers, webhooks or the
administrator. The bound on faults is what makes the outages end.

### Divergences

`toss_reconcile_refund` is a run with a finding in `PROJECT.json`. The model shows these too:

- After a crash between the vendor's approval and the commit of `confirm_order` only the
  receipts "requested" and "approved" exist. `list_unresolved`
  (`billing/payment_receipts.py:84`) looks for unknown outcomes and failed applications
  only, although line 87 says "종결되지 않은 선행이 곧 미해결 건이다": nothing lists the money.
  (`StrandedIsListed` with "crash" among `Faults`.)
- After an unknown outcome of the vendor's cancel the coins are given back and the receipt
  is one of a rejected cancel, which is on no list, although
  `toss_orders_service.py:962` says a human will see it: the user may have both, and
  nobody knows. (`NeverBoth` with "unknown" among `Faults`.)

- While a virtual account waits for its deposit the scheduler finds the order
  `already_consistent` and takes its entry off the list
  (`billing/toss_orders_service.py:1417`). Without a webhook nobody finds the
  deposit later, although line 1365 counts deposits among what this function covers.
  (In `MCTossRecovery.cfg`, `Events = {"account"}` and `Faults = {}`.)
- `cancel_order` (`billing/coin_orders_service.py:278`) takes no lock, so it may
  cancel an order whose confirmation is at the vendor; the money is listed
  (`APPLY_FAILED`), then the scheduler calls it `already_consistent` and takes it off.
- `_fetch_payment` answers None when both lookups fail, which the scheduler
  resolves as `no_payment_at_vendor`: an outage delists an order that was paid.
- A crash between a refund's commit and the vendor's cancel leaves the coins taken and
  nothing listed; so does a database error in `_revert_clawback`, which is swallowed.
- An order paid by bank transfer is clawed back because of a virtual account of the
  same order (`toss_orders_service.py:1161` looks at the status, not at the provider).
- A confirmation replayed after the vendor took the approval back is answered with the
  old approval and grants the coins again.
- A receipt without order and key resolves every entry without key
  (`payment_receipts.list_unresolved`), including an unkeyed `APPLY_FAILED` of a refund.
- Reverting the refund that completed an order may leave its status `refunded`.
- Reverting a refused refund makes the order `paid` also if a clawback has meanwhile taken its
  coins for a full cancellation at the vendor: the next reconciliation takes as many coins
  again, of the user's other orders. (`FreshClawIsExact` without `~Refused(o)`.)
- A full refund that completes between a reconciliation's read and its decision is clawed
  back and leaves the order `pending`: the customer may pay it again, with another key, while
  `refunded_krw` still says that all of it went back. Its coins are then fewer
  than its money for good, with no fault at all. (`RefundsSettle` with two orders and two
  payments of one of them.)

### Proofs

From `InstanceAssumption` (owners, orders and amounts are what they should be, NULL is no
key, tables are finite), for every value of the constants:

- `Invariance`: `Spec => []IInv`, with `IInv` the types, `ConfirmKeyed`, `RefundFits`
  and `RefundedWithinOrder`. `RefundedWithinOrder` alone is not inductive: a refund
  commits what it computed from a row it read a step before. `RefundFits` says that
  a refund in progress fits what its order had left by then, and the commit compares the
  row with what it read.
- `TypeCorrect`, `RefundsFit`: from `Invariance`.
- `LedgerExplains`: the equation is preserved because every step that changes
  `topup` changes `ledger` or `used` by as much; types are needed for the arithmetic.
- `BuyersKept`: the purge spares rows with `paid_at`, and nothing resets `paid_at`.
- `CanceledButForRefunds`: a canceled order changes its status by a refund's commit or
  revert only, with every event and fault; hence `CanceledStays`, `CanceledIsFinal` where
  there are no refunds. A clawback sets the status to pending whatever it is
  by now; what saves it is `LockedPaid`: while a reconciliation that has read a paid order
  holds the lock nobody makes the order pending, so nobody can have canceled it.

Five results have a condition on the instance, which is a hypothesis of the theorem.
TLC finds each property violated without it.

- `Dependable`: every call is answered, no old answer is given again, no approval is taken
  back. Then `NobodyHasBoth` (`NeverBoth`) and `ReturnsAreRecorded`
  (`ReturnedIsRecorded`), with crashes, refusals, crossing refunds, transfers and
  reconciliations of any number. The invariant, `MoneyInv`, is a balance sheet that
  holds in the middle of requests (`AccountFine`): the coins of an order and those that
  refunds under way have taken (`OwedBy`) are covered by what the vendor holds and the
  bank transfer, and by the transfer alone while there is another payment the order may
  yet be granted for; what went back, with what refunds have taken, is in `refunded_krw`.
  It rests on what requests know: a confirmation that was answered DONE has a payment that
  still is (`ConfirmFine`), a reconciliation that was told of a whole payment too, and
  one that was told of a lesser one has an order whose own is not whole (`ReconcileFine`).
  With a lost answer both properties fail, with approvals taken back too; with repeated
  answers `NeverBoth` does.
  Under the same conditions `FairExchange` (`ExchangeIsFair`): `MoneyInv` gives each step the
  guard its abstract step has, `AccountFine` that of `Receives`, the sum `OwedBy` with one
  refund's share in it those of `IsRefused` and `IsPaid`; which of the three amounts an
  action changes, and that it changes them for one order only, is a lemma per action
  (`EveryStepIsFair`). `ExchangeGivesNoBoth` derives `NeverBoth` from the exchange alone,
  with no condition on the instance: what the abstract specification promises is enough.
- `Findable`: no cancellation, no virtual accounts, no crash, no lost receipt, no lookup that
  fails twice over. Then `StrandedAreListed` (`StrandedIsListed`), with lost answers and
  webhooks, revocations, repeats, refunds, transfers. The invariant, `ListInv`: money of
  an order that was never paid is listed, or in the hands of a confirmation that will
  pay it out or list it (`Covered`). A reconciliation might take it off the list, so
  `ReconcileKnows`: what it was told is the one payment that has the money, and stays so,
  as the lock keeps confirmations away (`ConfirmApart`) and the vendor approves one
  payment of an order at a time (`OneLive`). Each condition is one of the divergences above.
- `Watched`: no refunds, webhooks that arrive, calls and lookups that are answered, no
  repeats, no crash. Then `CoinsAreBacked` (`NoFreeCoins`): the vendor may take approvals back
  at any time, and users spend, cancel, transfer and close their accounts. The
  invariant, `BackInv`: a paid order has its bank transfer or a whole payment, or it is
  `Alerted`: a webhook about it is on its way, or a reconciliation has begun that will claw
  back. The alarm may only end with the clawback, and what a confirmation or a
  reconciliation is about to grant was approved, or a webhook waits for its lock
  (`ApprovedAt`). The coins of a user are then at most what the paid orders are worth
  (`CoinsCovered`), since a clawback takes the whole order or all there is. With the
  vendor taking approvals back, each of refunds, repeats, lost answers, lost webhooks, failed
  lookups and crashes makes the property false.

- `"unknown" \notin Faults`: the vendor answers each cancellation. Then `ClawsAreExact`
  (`FreshClawIsExact`), with every event and all other faults, revocations and crashes
  included. What a clawback takes beyond its own order's coins it takes from the user's
  other orders, so the invariant, `ClawInv`, bounds the coins of an order from below
  (`CoinsKept`): with what was refunded they are never negative, and at least the whole
  amount while the order is paid or a reconciliation that has read it as paid is under way,
  unless a refund of the order was refused. A refusal is on record before coins
  come back for it (`RefusalNoted`), and a clawback ends what entitled it. With lost answers
  coins come back for refunds that nobody refused.
- `Settling`: `Dependable`, a customer has one payment per order, nobody pays by
  transfer and no process dies. Then `RefundsAreSettled` (`RefundsSettle`), with any number
  of refunds that cross, are refused and reverted, stale clawbacks, cancellations, lost
  webhooks and receipts. `MoneyInv` bounds the coins from above; the equation needs more.
  `SettleInv` says it of an order that is paid *or* whose payment is whole (`Settled`):
  a clawback on stale data breaks the equation, but only of an order whose payment is
  not whole, and such an order is never paid again (`RevertedIsWhole`: a revert that makes
  it paid was of a refund that had taken all there was). And what the vendor cancels has
  to be what the refund took (`CancelIsExact`): the vendor answers by idempotency key,
  `order_no` and the sum refunded so far, and a key of a refund that was reverted is used
  again. So a refund has a part of the order, from what was refunded before to what it
  writes, and the parts under way and those cancelled do not overlap (`PartsApart`).
  TLC finds `RefundsSettle` violated without any one of these conditions.

Model-checked only: `StrandedIsPaid`, which is liveness under fairness and out of the
provers' reach. `SettledAtRest` is refuted.

## 4. SalesUnits

**State.** `unit` holds the row; a token is the number of the hold that issued it, an
expiry is `none`, `live` or `past`, `by` is the user in `sales_unit_status_log`.
`knows` is which tokens a member of staff has seen. `announced` is the announcement
while open. `seating` and `drawing` are draws between their gate and their work.

**Steps.** An operation begins with the row lock or is a conditional UPDATE: one
action. `run_draw` takes two, `DrawGate` and `RunDraw`, because it compares the pool of
available units with the committed one before it locks them. `draw_for_candidate`
takes two, `DrawBegin` and `DrawTake` or `DrawFail`, because it reads the candidate
without a lock and then waits for the row of the group's commitment.

**Abstractions.** One announcement, one type, a committed pool of all units. Ranks,
seeds, reserve numbers and the draw's randomness are choices. Commission,
installments and outbox rows of a contract, checks on the customer and the price, soft
deletion, the generic CRUD (`apps/api/app/api/crud_router.py`), with which managers may
overwrite any column of units, contracts, installments and commission, the roster's gate and the beacon are left out (a refusal is `DrawFail`; a
`run_draw` that rolls back is one that did not start). A contract for a drawn
candidate is `CreateContract`. `SKIP LOCKED` is `NobodyNext`: a promotion finds no
reserve if promotions of other units can have locked them all.

### Runs

| run | instance | shows |
|---|---|---|
| `sales` | two units, one member of staff, two contracts, three applications, one candidate, all operations; and the two modules of sections 12 and 13 | types, one contract, one winner, whatever the menu does; see there for the rest |
| `units_desk` | two members of staff, two holds per unit, no menu | the unit of a contract stays taken, that of a winner applied for, a hold in time its holder's |
| `units_double_draw` | two requests for one candidate, violated | the candidate gets two units, one stays on hold for nobody |

Two units, so that a winner and a contract can be on different ones; three
applications, so that there is a reserve; two contracts, so that one can follow the
other on a unit; two members of staff and two holds, so that a token outlives its
hold. `Alike` permutes all sets but the single candidate, in `MCSales` the applications
alone; nothing in the module orders or names their members. Contracts and holds are bounded, so the system stops
and deadlock is not checked. No liveness is stated: nothing in the code promises that
a hold is used or a reserve promoted.

### Divergences

- `units_double_draw`: see the finding.
- `unit_action` looks at no owner: it signs away a colleague's hold in time, and leaves
  `held_by` behind, so that a later hold without owner has one, although
  `sales/contract/service.py:101-106` tells the two apart by `held_by`.
- `atomic_hold` takes a hold without a time for an expired one, so units parked by the
  menu or by the instant draw can be held over the desk.
- `expire_holds` (`sales/provision.py:78`) is never called; the five minutes are kept
  by the guards.
- Nothing sets a winner to CONTRACTED, so after the menu's CONTRACT_CANCEL
  `promote_reserve` may take the unit of a winner who has contracted.
  `ContractHoldsUnit` and `WinnerHoldsUnit` therefore do not hold with the menu.
- `run_draw` says it refuses when the pool changed (`subscription/engine.py:151`), but
  a claim or a contract after the comparison leaves fewer units, and it draws from those.

### Proofs

From `InstanceAssumption`, for every value of the constants:

- `Invariance`: `Spec => []IInv`, with `IInv` the types, `Placed` (a contract
  that exists and a winner who was told name a unit) and `OneContract`.
- `UnitsTyped`, `ContractsApart`: from `Invariance`.
- `WinnersApart`: `OneWinner` is preserved given that before the draw nobody has
  won, that a draw seats injectively and that a promotion forfeits the occupants first.
- `DeskKept`: if the menu is not among `Events`, `ContractHoldsUnit` and
  `WinnerHoldsUnit`. Each needs the other: cancelling a contract frees its unit, which
  must not be a winner's; promoting writes a unit, which must not be a contract's.
- `HoldersKept`: if the menu is not among `Events`, `HoldIsKept`, step by step from the
  types and `DeskKept`: what is not in HOLD is nobody's hold.

`OneUnitPerCandidate` is refuted, not proved.

## 5. Escrow

**State.** `escrow` holds the records; `out` is what has left the contract for an
escrow as fee, payment and refund, which the contract only emits as events; `held` is
its balance. `call` is the lock: the escrow whose function is running, and the payment
`due` after the fee. `before` is the contract as it was when that function began.
`expired` are the escrows whose `expiresAt` has passed.

**Steps.** Transactions run one after the other, but a transfer hands control to its
recipient. So a function that transfers is cut there. Its first action does
everything up to and including the first transfer (`releaseEscrow`, … with `distribute`
or `refund`) and takes the lock; `PayOut` is the second transfer of `_distribute`, once
the recipient of the fee has returned; `Return` ends the function. Between these
steps the functions without the lock may run: recipients create, fund and dispute
escrows, pause, and give ownership away. `Revert` is a transfer that fails: it restores
`before`, with all that recipients did in between.

**Abstractions.** Recipients' addresses are not tracked: any account may call back at
any transfer, which is more than the code allows. An id is any fresh one, as the
counter is observable only through it. `conditionHash`, events and the refusals that
change nothing are absent; `pause` stands for both `pause` and `unpause`. The block time
is the action `Expire` between transactions. An escrow may expire at any time after
its creation. Money that enters other than through `fundEscrow` (a block reward, the end
of another contract) would make `Solvent` an inequality and is left out.

### Run

In `apart`: two escrows, two accounts (one may be payer, payee, owner and subcontractor
at once, or they differ), deposits of one or two, a rate of one half. With the
contract's own rate of 30 / 10000 a small amount has no fee; with one half a deposit of
two has a fee if paid at once and none if paid in two parts, so rounding, both shapes of
`_distribute` and the last of several payments happen. Two escrows, so that one can be
funded or disputed while the other is paid, and be touched by its failure. `Alike`
permutes accounts and ids. Deadlock is not checked: an owner may renounce, and then all
escrows can be settled with nothing left to do. No liveness is stated: the contract
relies on somebody calling it.

What it shows: `Solvent` at every step, also while a payment is due; `Accounted` per
escrow, with `FeesWithinRate` in it and `OpenHasMoney`, so that no escrow is stuck in a state
that every function refuses; `DepositsAreAtomic`, that the contract implements `Deposits`.
There a transaction is one step, with no calls in it: it pays from at most one deposit,
the fee (the rate of what is paid, rounded down) and the payout together, or returns all
of it; it opens and disputes others; what is settled stays. A deposit stands there as its
owners know it (`Standing`): while a function runs, what `before` says. So the
steps of a function stutter, `Revert` too, and `Return` is the transaction. What
recipients did in between is part of it: a deposit may be paid from in part and disputed
by one transaction, and others be created, funded and disputed.

### Proofs

From `InstanceAssumption` (address zero is nobody, the rate is at most one), for every
value of the constants:

- `EscrowInvariance`: `Spec => []EscrowInv`, with `EscrowInv` the types, `RowsFine` and
  `BeforeFine`, and of the balance, before and now, that it is what the records have left
  and what is due. The properties alone are not inductive: `Revert` goes back to `before`,
  so the same must hold of the records there with nothing owed, and an escrow that is funded
  must have had nothing before (`totalAmount = 0` while pending).
- `FeesBounded` rests on `FeeFits`, which says that the rounded fee is at most the
  rate of the amount; the sum over parts follows since the bound is linear.
- `EscrowTypesHold`, `DepositsAccounted`, `EscrowSolvent`: from
  `EscrowInvariance`. For `EscrowSolvent` the balance changes by what one record does.
- `AtomicDeposits`: `Spec => DepositsAreAtomic`, the refinement. `EscrowInv` says nothing of
  how the records and `before` are related, so it does not give the step of `Return`.
  `Underway` does: while a function runs, what the records will be once the payment due
  has left (`Through`) is what a transaction makes of `before`, paid from for the
  escrow of the call and touched at most for the others. The lock's taking establishes
  it; `PayOut` moves what is due and changes nothing of it; functions that are called
  back keep it since a dispute of a deposit just paid from, opened or touched is again
  one of these (`PaidThenTouched`, `TouchedTwice`); and `Return` is what it says.
- `SettledStays`: no action that starts without the lock accepts a settled escrow, so that
  its whole record stays (`SettledIsFinal`; the amounts and the status also follow from
  `AtomicDeposits`).

## 6. Outbox

**State.** `row` holds the committed rows, with a flag for a backoff that still runs;
`writer` is the transaction of a caller of `emit_event`, `saved` the callers' own
changes; `batch` is a dispatch under way, with its locks and the values it has written
but not committed; `memory` is what each consumer's guard knows in each process.

**Steps.** One statement, or one delivery to all consumers, is one action. Between
any two the other process runs, a handler raises, a mark fails and rolls back the
marks before it (`MarkFails`), the final commit fails, or a process dies (`Crash`).
`EnsureSchema` is the first emission in a process, which commits half of its caller's
transaction.

**Abstractions.** All consumers listen to all events. Which key a full guard has
dropped is a choice. The limit of a batch, the length of a backoff, payloads and their
migration are left out. READ COMMITTED is what makes committed rows and locks enough.

**Runs.** `services`: two events, two consumers, two processes, two attempts, guards
that hold one key, two mishaps of any kinds. Two events, so that a batch has a row
before and a row after the one whose mark fails; two consumers, so that one can fail and
the other not; a capacity below the number of events, so that guards forget.
`outbox_two_processes`: see its finding. Deadlock is not checked: with all events
settled nothing is left to do.

**Fairness.** Weak for every process's dispatch and for the end of a backoff: both
loops poll for ever whatever a batch raises (`outbox_dispatch_task.py:69`,
`main.py:478`), and time passes. None for emitters or mishaps, which are bounded: a
handler that always raises makes its event DEAD by `MaxAttempts`. `Settles` excepts
behaviours in which a mark has failed half way (`undone`), because of the divergence
below.

**Proofs** (from `OutboxAssumption`, for any number of events, consumers, processes and
mishaps). `OutboxInvariance` is `OutboxSpec => []OutboxInv`: a dispatcher at "publish" has seen all
consumers take the event, what it has marked it has locked or lost, and what it would
write as published was handled. `PublishedIsHandled` alone is not inductive, since the
mark and the commit are steps apart and rows of a batch may have lost their locks.
From it: `OutboxTypesHold`, `PublishedAreHandled`, `ExhaustedAreDead`, `PublishedStays` and
`EmissionIsAtomic`. `KeepsPromise` is the refinement: with `status` the row's
status renamed and `taken` the consumers that ran, `OutboxSpec` implements `AtLeastOnce`,
where an event is done only when all have taken it and never lost. Liveness (`Settles`)
is model-checked.

**Divergences.**

- `mark_failed` decides between PENDING and DEAD from attempts it read before its UPDATE.
  After a rollback has dropped the lock, both processes may count a failure, and a row is
  PENDING with no attempt left: never fetched, never DEAD (`ExhaustedIsDead` has the
  condition `undone = 0`).
- The first `emit_event` of a process commits its caller's transaction before the
  event is inserted (`outbox_event.py:281`); a failure then leaves the change without it.

## 7. ChargeOnce

**State.** `charge` is the table; `created_at` is the request that wrote it and an age
(within the in-flight TTL of ten minutes, past it, past a day); `call` and `mode` are a
`charge_once` block and its guard, `due` and `billed` the units of work it charges for.

**Steps.** `reserve` is its INSERT, its SELECT with the decision, and its takeover UPDATE,
which compares `created_at`; the block works, charges unit by unit, and ends by `settle`
or `release`, or by neither when its process dies. `RowAges` is time.

**Abstractions.** Only requests with a key. A unit is one charge whatever it costs. The
charging helpers' own errors are `LosesCharge`.

**Run.** `services`: four requests with one key, one of them with another body, one unit
each, one flaw of any kind. Four, so that a dead holder is followed by two that race for
its row and one that repeats afterwards.

**Fairness.** Weak for a request that has begun and for time; only the request itself
can die, which is a flaw and bounded. Requests need not come.

`ChargedOnce` excepts keys whose holder outlived the TTL (`overdue`) or whose settled row
is a day old (`lapsed`), and pairs one of which raised, died or could not settle;
`FreeWasPaid` says settled means that somebody with the same content ended well.

**Proofs** (from `ChargeAssumption`, for any requests, keys, contents, units and flaws).
`ChargesOnce` and `FreeAfterPaid` are the two properties. Neither is inductive: two
requests charge for one key when a row stops being its holder's while the holder is in its
block. The invariant (`ChargeInv`) rules that out: while a holder is in its block and within the TTL, the
row is the holder's, young and in flight (`HeldRows`); a settled row has a request with
its content that ended well (`SettledRows`), and that request has the row until it lapses
(`DoneRows`); a request about to take a row over has read that very content and found it
expired (`TakersKnow`), which the comparison of `created_at` keeps true until its UPDATE.

**Divergences.** A block that raises after its first charge releases the key, and the
repeat is charged again. A charge that fails inside the helper is swallowed and the key
settled. A failed `settle` makes the key chargeable again ten minutes later. A holder
slower than the TTL is joined by a second. An expired row with another hash
answers 422 for ever, as `prune_expired` is called by nobody.

## 8. UsageMeter

**State.** `user` is the row; `view` and `cost` are a call's variables; `drawn`, `spent`
and `bought` are sums to compare with; `stale` says that the amount billed was reset under
a call that had read it.

**Steps.** `UseReads` is the SELECT of `ensure_cycle`, `UseRolls` and `UseAssigns` its
UPDATEs, `UseRecords` the relative UPDATE of `record_usage_usd`; `Analysis…` is
`charge_service` for a land analysis with its quota; `Topup`, `SetTier`, `NextMonth`.

**Run.** In `apart`: three calls, costs of one or two, an included amount of two, two
months, one top-up, one change of tier. Three calls, so that two overlap after one has used
part of the included amount.

`NeverOverdrawn` is the promise that bought coins are drawn for the excess only. The
converse does not hold: two uses at once read the same amount billed and draw too little.
A rollover between a use's read and its UPDATE makes it draw too much, and two rollovers
at once erase usage (`billing_service.py:149`), which `stale` excepts.

**Proofs** (from `MeterAssumption`, for any calls, costs, included amount, quota, months).
`CoinsNeverOverdrawn` is the property. A draw is computed from an older row, so the
invariant (`MeterInv`) bounds how old: until a reset passes under it, a call has read no more billed
than the row has now, and the included amount the row has now (`ViewsBehind`); and
nothing is drawn before an amount is assigned (`DrawnWithBase`). That what a use draws is
at most what it adds beyond the included amount is then arithmetic (`DrawIsBounded`).

## 9. ParcelBatch

**State.** `head` is the row of each job and `jobRows` its results and aggregate row, by the
saver that inserted them; `key` is the job the idempotency key is bound to. `step`, `mine`,
`copy`, `at` are a submission with the run it starts, or a cancellation: where it is, its
job, the record in its hands, its chunk. `tx` is its `get` or `save` under way: what the
SELECT saw of the row, and what its DELETEs found to delete.

**Steps.** `DbJobStore` (`job_store.py:214-319`) locks nothing it reads. A `get` is two
steps: the SELECT of the job (`Selects`), then its results and aggregate (`Got`); it raises
when there are two aggregates (`Readable`). A `save` is four: the SELECT (`SaveStarts`);
the flush, which updates only the columns that differ from what that SELECT saw, and so
takes the lock of the row only when one does (`SaveUpdates`); the DELETE of the results
(`SaveDeletes`), which waits for whoever deletes the same rows; and the DELETE of the
aggregate, the INSERTs and the commit (`SaveCommits`). A DELETE finds what is committed when
it begins, so two saves can insert results beside each other or remove each other's.
The other actions are what a run or a cancellation computes between a `get` and a `save`.
`RunRaises`, `RunCatches` and `RunFails` are the handler around a run, `RunIsCutOff` its
failure or the process's end.

**Abstractions.** A chunk of parcels is one result, the worst of them. The SELECTs of results
and aggregate in a `get` are one. What an aggregate contains, the error message and the
region's geometry columns are left out. Binding and unbinding the key are one step each. What the
external lookups return is a choice. The isolation is PostgreSQL's default, READ COMMITTED.

**Run.** In `toss_take_back`: two submissions, one cancellation, two chunks, one flaw among a call
that raises, a handler whose save fails, a dying process and two runs at once; at most
two runs and cancellations under way (`MaxAtOnce`). Two submissions can race, repeat a
finished or failed job and run one job twice; two savers show every pair of saves that
cross, and two chunks have a save that is not the last. 3.8 million states.

`JobsAreTrue` is `SameJob`, that a region has one job, and `StateIsTrue`. The latter says of
every job that is complete that each chunk has a confirmed result, unless two runs or two
cancellations of the job overlapped, and of a job whose only run was neither cut off nor
crossed by a cancellation that it ends in a terminal state that can be read.

**Divergences.**

- A run that overlaps another can leave the job complete without results: both saves read
  RUNNING, the first commits COMPLETE with its results, and the second, which writes RUNNING
  and saw RUNNING, leaves the state, deletes the results and inserts none
  (`job_store.py:271-310`). `batch_service.py:200-202` says that `run()` is idempotent
  ("구성상 멱등"). `overlapped` excepts these jobs; the exception is needed, since without it
  the run is violated.
- Two saves that both find no aggregate, or the same one, each insert one, and every later
  `get` raises `MultipleResultsFound` (`job_store.py:235`): pages, submissions and
  cancellations of the region fail from then on. This does not need overlapping runs: a
  cancellation whose save writes no column, and so takes no lock, can cross the save
  of a later run.
- There is no column for the flag `cancelled`, so a run never sees a cancellation; one that
  crosses the last save leaves RUNNING, which no run will end, although
  `batch_service.py:161` says "폴링은 항상 터미널 상태로 수렴한다".
- `unbind_idempotency` unbinds whichever job has the key by then, which `retried` excepts.

**Proofs** (from `BatchAssumption`, for any submissions, cancellations, chunks and flaws).
`JobsTrue` is `JobsAreTrue`, from `BatchInv`, which has these parts besides the types.

- Whoever has a job was given the one the key is bound to, as long as nobody unbinds it
  (`KeyKept`, `GivenPast`), from which `SameJob` follows.
- A job that is not excepted has one run at once and one cancellation (`OneAtOnce`, `Alone`).
- The columns in a saver's hands, those its SELECT saw and those in the row can all differ.
  What is said of completeness must hold of the record in hand (`Candid`), what was seen must
  be what the row has but for a cancellation (`Behind`), and only then is the mixture that a
  partial UPDATE leaves true of the results it leaves (`Well`).
- An undisturbed run has a result for every chunk it has passed and deletes every aggregate
  there is (`OnCourse`), so that its last save is terminal and the job can be read.

## 10. SubcontractPayment, PropAIToken, PropAIGovernance

Each function is one step. Those that transfer write first and read nothing afterwards
that a callee could change, and a failed transfer undoes the transaction, so that a call
from a recipient is the same as one after the return; in `PropAIEscrow` this is not
so, and `Escrow` cuts there. 2^256 arithmetic is taken as unbounded.

- `SubcontractPayment`: two subcontracts, two claims, amounts up to two, a rate up to
  one half. `PaidIsAccounted`: paid is the sum of the claims paid, is sent or kept
  back, and the retention stays within the rate.
- `PropAIToken`: two accounts, `PRECISION` two (so that divisions lose something), a supply
  and deposits up to two, four synchronisations. `DividendsCovered`: a debit never exceeds
  what the balance was owed, and all claims together are covered up to the rounding.
- `PropAIGovernance`: three members with power up to two, one proposal.
  `PowerCountsOnce`: the tally is one weight per voter, the total that of the members of now.

**Divergences.**

- Claims are checked against the total one by one (`SubcontractPayment.sol:139`), so
  several that are pending may be paid beyond it, after which every claim
  reverts by underflow. A payment is possible after dispute and completion; nothing
  leaves Disputed; a claim of zero is accepted.
- Rounding can leave the last claimant of a dividend short: with a supply of two and
  `PRECISION` two, distributing one, transferring one token and distributing one makes three
  claimable of two, although `PropAIToken.test.ts:186` tests against insolvency.
  `DividendsCovered` bounds the gap by less than a unit per synchronisation.
- The quorum is taken of the members at finalisation and rounds down, while votes of
  removed members count.

**Proofs** (from `SubcontractAssumption`, `TokenAssumption` and `GovernanceAssumption`, for any
accounts, entries, amounts, rates and precision; each invariant has the types).

- `PaymentsAccounted` (`PaidIsAccounted`): a claim is paid once because it is pending before
  and not after, so the sum over the paid claims grows by this one. The invariant, `SubInv`,
  adds that what can be decided has an entry (`ClaimsHaveEntry`), that an entry not
  registered is blank, so that registering starts from zero (`UnregisteredBlank`), and that no
  rate exceeds the unit (`RatesFit`), so that the part kept back is at most the claim.
- `DividendsHold` (`DividendsCovered`): its bound speaks of rounded claims, which do not add
  up; the invariant, `TokenInv`, has the bound before rounding (`AccrualsCovered`: what all
  accounts have accrued, in units of 1 / `PRECISION`, is at most what was distributed and
  less than a unit per synchronisation) and `DebitsBehind`, that no debit exceeds what the
  balance was owed.
- `VotesCountOnce` (`PowerCountsOnce`): `GovInv` adds that who has not voted weighs
  nothing (`Unvoted`), so that a vote adds its whole weight to the sum.

## 11. DrawEvidence

**State.** `commitment` is the group's row, `roster` what each commitment was made for;
nonces are numbers in the order they are made. `drawing`, `clerk` and `reader` are draws
(with the finalisation at their end), a `commit_draw` and a reconciliation under way;
`txs` and `registry` are the chain. `open` is which nonces anybody may know.

**Steps.** One statement, one call to the chain or one receipt is one action;
`DrawLocks` holds the row until `DrawCommits`. The chain estimates at `Sent`, executes in
the order of the account's nonces at `Mine`, and its receipt may come too late, say that it
reverted, or not be heard at all (`Heard`). `Dies` ends a draw or a commitment anywhere.

**Abstractions.** One group; hashes, the Merkle root and the seed are data; which unit is
drawn is `SalesUnits`. That the beacon's round lies in the future is `BeaconPublishes`.

**Run.** In `apart`: two candidates, two commitments, one death. Two candidates, so that
two last draws end at once; two commitments, so that one is voided and made again.

`EvidenceIsTrue` is `OpenIsOver` (the nonce is secret until the draw is over) and `RowIsTrue`
(the row says of chain and draw what is true); `DrawnInSecret` is about single draws.

**Proofs** (from `EvidenceAssumption`, for any candidates, commitments and deaths).
`EvidenceHolds` and `DrawsInSecret` are the two properties. Between what a call has read and
what it writes others may commit, so the invariant says what calls under way know. Nonces
belong to commitments that were made, and unless one was voided under a call, the call
works for the commitment the group has (`CallsCurrent`); a finaliser has seen everybody
drawn (`LateIsOver`); while a draw is over but not final somebody is on the way to its end
(`LastSees`), as the row lock lets one of two last draws count after the other. For the
chain: an anchor in the row or in a call's hands names a transaction of its kind and nonce,
and a transaction that is anchored is what the registry holds (`AnchorInv`), which no
step can change once it holds one.

**Divergences** (all through `crossed`, which the properties except).

- The UPDATEs that note an anchor or the end of a draw name the group and not the
  commitment they read. After a void and a new commitment in the middle of a finalisation
  they open the new nonce, although `commitment_store.py:272` says it is shown after the
  draw only.
- A draw whose SELECT precedes a void goes on under the voided nonce, without a lock.
- The contract takes one commitment per group for ever, so a new one is refused there.

And outside it: two finalisers race, and the second one's "failed" replaces "anchored";
an error after sending is noted as "failed"; after a crash between the last draw and its
finalisation, or a candidate added in between, nothing finalises the draw.

## 12. SalesPayments

**State.** `paid` and `dated` are the installments of one contract, `payments` the rows of
`sales_payments` in the order they came, each with what it filled; `loan` sums up the
agreement's disbursements; `disbursing` is one between its SELECT and its commit. A
`raw_ref` is what it names and the reason a reversal has appended to it.

**Steps.** `IngestPayment`, `ManualMatch`, `ReversePayment` and `RepayLoan` lock the rows
they change before they read them, so a transaction is one step. `execute_disbursement`
does not, and takes two, `DisburseRead` and `DisburseWrite`. A deposit may be reported at
any time and any number of times; what the unique index refuses does not happen.

**Abstractions.** All installments have one amount; a payment that was allocated before
allocations were recorded is absent. A repeat that meets the first report's INSERT fails as
a whole rather than being answered as a duplicate, since `begin_nested` flushes before it
sets its savepoint; neither changes anything. A deadlock between a reversal, which locks
the installments one by one, and an ingestion aborts one of the two. Amounts are whole: of
a fraction `ingest_payment` would keep the whole part only.

**Run.** In `sales`: two installments of two, deposits of one and three, other payments of
two, disbursements of two and of minus two (`Lent`: `Entered` and `Worth` are positive, since
`ingest_payment` and `repay_loan` refuse anything else, and `execute_disbursement` refuses
nothing), three payments. The deposits leave an installment part filled and go on to the
next.

`BooksAreTrue` is `PaidIsExplained` (an installment has been paid what the payments matched to
it brought, and has a date when it is full) and `AppliedOnce` (a deposit is in the books
once).

**Divergences**, which the two except.

- A reversal with a reason rewrites `raw_ref` (`payment/service.py:240`), by which a repeat
  is recognised: the bank's next report of the deposit is filled in again, although
  line 95 says what has been processed is not. A second reversal for the same reason may
  be refused by the index.
- `execute_disbursement` (`loan/service.py:28`) adds to what it read without a lock, so a
  payment that commits in between is lost (`overwritten`).
- It takes any amount (`lifecycle_p5.py:275`). A negative one takes from the installment
  (`TakenBack`), below zero if less was paid; a reversal stops at zero
  (`payment/service.py:229`), so that after less two, three deposited and the three
  reversed, nothing is paid where the payments left in the books add up to less two. The
  property then says that paid is no less than they brought, no longer that it is the
  same. A loan of nothing or less is never repaid, and is not closed.
- Its `raw_ref` names the agreement, so the second disbursement of an agreement fails,
  although `_allocate_repayment` is written for several.
- What exceeds all installments is in the answer to the bank only, unless nothing could be
  filled (`SURPLUS`); a manual match or a disbursement may fill more than is due.

**Proofs** (from `PaymentAssumption`, for any installments, deposits and payments, and for
disbursements of any amount, negative ones and zero included).
`BooksHold` is `BooksAreTrue`. Filling goes through the installments one by one; that it adds
to each what it records as filled is arithmetic, and a reversal takes off what was recorded.
That it takes no more than there is, so that the floor at zero changes nothing, holds where
no row has taken back (`BroughtIsInt`); elsewhere the floor can only leave more.
`LoanHasRow` says that a loan with repayments has its row, so that none is disbursed on top.
That a deposit counts once needs the unique index as an invariant (`NoRefTwice`) and that
only reversals append a reason (`ReasonsAreOfReversals`), so that two rows in the
books for one deposit would have one `raw_ref`.

## 13. SalesCommission

**State.** `event` is the commission of a contract with its splits, `master` the version that
is effective, `plan` the milestones with what was paid for them, `holdback` what is held
back from a split. `signing` is a signature in progress, `run` what a payout run has selected.

**Steps.** A signature is `SignRead`, `SignLock` (the row lock of the master, the sum,
the comparison with the pool) and `SignCommit`, where it may also fail; the contract's row is
locked all along, which a cancellation waits for. A payout run is `RunSelect` and
`RunPay`, between which nothing is locked.

**Abstractions.** A master with a pool whose basis gives each contract an amount;
`TOTAL_POOL` splits nothing. The tree above a seller is one agency and one member. A run
reads splits and holdbacks together when it ends. Taxes are left out.

**Run.** In `sales`: two contracts of three each and a pool of three, so that either fits
and both do not; three, so that shares of one, two and three arise; two versions of the master; two milestones, of one half, of
twice the split and of minus the split (`Halves`), so that halves are rounded and one
call's ratios can hide a sum above one behind a negative ratio; between minus one and one
held back; two runs.

`PoolKept`: what arises stays within the pool, unless signatures under two versions
of the master met (`mixed`). `PaidWithinSplit`: a split is paid at most once, up to
the rounding, unless it was planned twice, or a milestone has a negative ratio, or two runs
selected the same milestone, or it was paid while less than nothing was held back (`raised`).

**Divergences.**

- The lock is on the version of the master that was read (`commission/engine.py:126`), the sum
  over the site: signatures before and after a new version both pass. The comment there
  promises no more ("같은 master 기준").
- Nothing locks a milestone: two runs at once pay it twice (`extension.py:137`).
- `create_schedule` looks at the sum of the ratios of one call. A second call plans the split
  again; and ratios of minus one and two pass in one call (`extension.py:109`): the first
  milestone pays nothing, the second twice the split.
- `set_holdback` takes any amount (`extension.py:118`); a negative one is paid on top of each
  milestone (line 156).
- A cancellation takes the commission back and leaves the milestones planned: the next
  run pays them.
- What is held back is deducted from each milestone, not once, and is not paid when it is
  released. `quantize` rounds halves to even, so milestones can exceed the split.

**Proofs** (from `CommissionAssumption`, for any contracts, nodes, amounts, plans and
runs, and for ratios and holdbacks of either sign). `PoolIsKept` (`PoolKept`): what arose was compared with the pool a step before it is
committed, so the invariant, `ComInv`, says of the signature behind the lock that its amount
still fits and that there is one such (`PoolFits`), and that a contract is split only once,
while it is reserved (`SplitOnce`). `SplitsArePaidOnce` (`PaidWithinSplit`): a
milestone that only one run has selected is not paid yet (`SelectedOnce`), it is paid its part
of the split within half a unit if neither that part nor what is held back is negative
(`PaidByHalves`), and the parts planned by one call are at most
the whole (`PlannedOnce`); a milestone's split is there (`PlansHaveSplits`).

## 14. Instances of several modules

TLC's runs `toss_take_back`, `services`, `apart` and `sales` each check components that share nothing (in
`sales`, nothing but the fact that a contract is signed and canceled): the first
step of a behaviour has chosen one of them, and the others stay as they began. Each
invariant speaks of one module, so it is checked over all behaviours of that module, and
no time is spent on products of independent states. `ServicesSpec` assumes the fairness of the
chosen service only. `Alike` in `MCApart` permutes accounts, escrows and candidates, which
nothing in the modules orders; the candidates of `DrawEvidence` and the parties of
`Escrow` are used by one component each.

Because only the chosen component moves, a behaviour of such an instance is a behaviour of
each of its components (`SalesPartsApart`, `ServicesApart`, `ComponentsApart`), and what is
proved of a component holds there: `SalesTypesHold`, `ServicesTypesHold` and
`ApartTypesHold` are its types, from those of the components' invariants, which are where
most hazards of arithmetic show first (an amount subtracted that is not there leaves the
naturals).

## 15. Sums in proofs

Balances, totals and tallies are `SumFunctionOnSet` of the community modules, a fold by a
recursive function over the subsets of a set. `SumTheorems` shows for every finite set and
function what the proofs use: that a sum changes by what one amount does (`SumChanges`),
that amounts may join and leave (`SumWith`, `SumWithout`), that sums are added and compared
member by member (`SumOfBoth`, `SumAtMost`). The induction theorems of the library cannot
be applied, as they take an operator. Induction over subsets is made from one that does
not: inclusion is well founded on the subsets of a finite set, so a set of
counterexamples has a least one (`SmallestSubset`, `SubsetInduction`).

## 16. What is model-checked only

Liveness (`StrandedIsPaid`, `Settles`, `KeyComesBack`), since the provers reach neither
fairness nor ENABLED. Every other property that a passing run checks is a theorem.
Refuted are `SettledAtRest`, `OneUnitPerCandidate` and `HandledOnce`.
