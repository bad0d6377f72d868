---------------------------- MODULE TossPayments ----------------------------
(***************************************************************************)
(* Charging coins with a card or a virtual account: the coin order         *)
(* (coin_orders), the owner's balance (users.topup_krw), the coin ledger   *)
(* (coin_ledger_events), the receipts (payment_receipts) and the payment   *)
(* at the vendor (Toss).  Confirmation, refund and reconciliation are      *)
(* request handlers that stop at every call to the vendor; between two     *)
(* stops a handler is one database transaction, so it is one step here.    *)
(* Amounts are counted in an abstract unit of won.                         *)
(***************************************************************************)
EXTENDS Integers, FiniteSets, Functions

CONSTANTS
    Orders,      \* coin_orders rows, created pending by create_order
    Keys,        \* paymentKeys the vendor may hand out
    Users,       \* order owners
    KeyOrder,    \* the order each paymentKey is a payment for
    Owner,       \* the user each order belongs to
    Amount,      \* amount_krw = coin_krw of each order
    Confirms,    \* confirm requests that can be in progress together
    Refunds,     \* refund requests that can be in progress together
    NoKey,       \* provider_ref IS NULL; also "no payment found"
    NoOrder,     \* a refund request that is not running
    Events,      \* the optional actions of customers, admins and the vendor
    Faults,      \* the kinds of fault this instance may inject
    MaxFaults,   \* bound: how many faults one behaviour may contain
    MaxUsed      \* bound: how many coins a user ever spends

\* cancel: customers cancel orders; manual: bank transfers; withdraw: accounts
\* are closed; admin: the reconcile button; webhook: the URL is registered at
\* the vendor; account: virtual accounts; replay: a confirm request is sent
\* again with the idempotency key the vendor has answered before.
EventKinds == {"cancel", "manual", "withdraw", "admin", "webhook", "account", "replay"}
\* crash: the process dies; unknown: no answer from the vendor; reject: the
\* vendor refuses; lookup: the lookups of _try_resolve fail; outage: those of a
\* reconciliation fail; receipt: a receipt is not written; webhook: a webhook is
\* lost; revoke: the vendor takes back an approval.
FaultKinds ==
    {"crash", "unknown", "reject", "lookup", "outage", "receipt", "webhook", "revoke"}

ASSUME InstanceAssumption ==
    /\ IsFiniteSet(Orders) /\ IsFiniteSet(Keys) /\ IsFiniteSet(Refunds)
    /\ KeyOrder \in [Keys -> Orders]
    /\ Owner \in [Orders -> Users]
    /\ Amount \in [Orders -> Nat \ {0}]
    /\ NoKey \notin Keys \cup Orders /\ NoOrder \notin Orders
    /\ Keys \cap Orders = {}
    /\ Events \subseteq EventKinds
    /\ Faults \subseteq FaultKinds
    /\ MaxFaults \in Nat
    /\ MaxUsed \in Nat

VARIABLES
    order,       \* coin_orders: status, provider, provider_ref, refunded_krw, ...
    topup,       \* users.topup_krw
    used,        \* coins taken out of topup_krw by usage, ever
    ledger,      \* SUM(amount_krw) of coin_ledger_events by user_id
    coins,       \* SUM(amount_krw) of coin_ledger_events by ref_id (the order)
    bank,        \* won received by bank transfer for an order
    withdrawn,   \* users with deleted_at set
    pay,         \* the payments at the vendor
    cancels,     \* the vendor's first reply by cancel idempotency key
    confirm,     \* confirm_toss_payment requests
    reconcile,   \* the reconcile_order call that holds an order's lock
    refund,      \* refund_toss_payment requests
    listed,      \* payment_receipts.list_unresolved
    signals,     \* webhooks sent by the vendor and not yet received
    faults       \* faults injected so far

vars == <<order, topup, used, ledger, coins, bank, withdrawn, pay, cancels,
          confirm, reconcile, refund, listed, signals, faults>>
accounts == <<order, topup, ledger, coins>>
vendor   == <<pay, cancels, signals>>
people   == <<used, bank, withdrawn>>

-----------------------------------------------------------------------------
(* Types.                                                                  *)

OrderStatus == {"pending", "paid", "canceled", "refunded"}
OrderRow == [status : OrderStatus, provider : {"none", "toss", "manual"},
             ref : Keys \cup {NoKey}, refunded : Nat, paidAt : BOOLEAN, buyer : BOOLEAN]

\* A revoked payment keeps nothing at the vendor, a partial cancel keeps bal.
\* (mutant: a list of statuses that forgets the deposit error)
RevokedByCancel == {"CANCELED", "ABORTED"}
Revoked   == {"CANCELED", "WAITING_FOR_DEPOSIT", "ABORTED"}
Revoking  == Revoked \cup {"PARTIAL_CANCELED"}
Captured  == {"DONE", "PARTIAL_CANCELED"}
PayStatus == {"NONE", "IN_PROGRESS", "DONE"} \cup Revoking
Replies   == {"none", "DONE", "WAITING_FOR_DEPOSIT", "rejected", "unknown"}
Payment   == [st : PayStatus, bal : Nat, first : Replies]
Signal    == [order : Orders, kind : {"status", "deposit"}]

\* key = NoKey: the vendor told us of no payment.
Found        == [key : Keys \cup {NoKey}, st : PayStatus, bal : Nat]
Nothing      == [key |-> NoKey, st |-> "NONE", bal |-> 0]
ConfirmJob   == [pc : {"idle", "calling", "answered", "resolving"},
                 key : Keys \cup {NoKey}, reply : Replies]
ReconcileJob == [pc : {"idle", "fetching", "deciding"},
                 item : Keys \cup Orders \cup {NoKey}, row : OrderRow, got : Found]
RefundJob    == [pc : {"idle", "read", "calling", "answered"},
                 order : Orders \cup {NoOrder}, key : Keys \cup {NoKey},
                 want : Nat, prev : Nat, reply : Replies]

\* propai-cancel-{order_no}-{new_refunded}
CancelKeys == UNION {{o} \X (1..Amount[o]) : o \in Orders}

NewOrder == [status |-> "pending", provider |-> "none", ref |-> NoKey,
             refunded |-> 0, paidAt |-> FALSE, buyer |-> TRUE]
NoConfirm   == [pc |-> "idle", key |-> NoKey, reply |-> "none"]
NoReconcile == [pc |-> "idle", item |-> NoKey, row |-> NewOrder, got |-> Nothing]
NoRefund    == [pc |-> "idle", order |-> NoOrder, key |-> NoKey,
                want |-> 0, prev |-> 0, reply |-> "none"]

TypeOK ==
    /\ order \in [Orders -> OrderRow]
    /\ topup \in [Users -> Nat] /\ used \in [Users -> Nat] /\ ledger \in [Users -> Int]
    /\ coins \in [Orders -> Int] /\ bank \in [Orders -> Nat]
    /\ withdrawn \subseteq Users
    /\ pay \in [Keys -> Payment]
    /\ cancels \in [CancelKeys -> {"none", "DONE", "rejected"}]
    /\ confirm \in [Confirms -> ConfirmJob]
    /\ reconcile \in [Orders -> ReconcileJob]
    /\ refund \in [Refunds -> RefundJob]
    /\ listed \subseteq Keys \cup Orders
    /\ signals \subseteq Signal
    /\ faults \in 0..MaxFaults

Init ==
    /\ order = [o \in Orders |-> NewOrder]
    /\ topup = [u \in Users |-> 0]
    /\ used = [u \in Users |-> 0]
    /\ ledger = [u \in Users |-> 0]
    /\ coins = [o \in Orders |-> 0]
    /\ bank = [o \in Orders |-> 0]
    /\ withdrawn = {}
    /\ pay = [k \in Keys |-> [st |-> "NONE", bal |-> 0, first |-> "none"]]
    /\ cancels = [i \in CancelKeys |-> "none"]
    /\ confirm = [c \in Confirms |-> NoConfirm]
    /\ reconcile = [o \in Orders |-> NoReconcile]
    /\ refund = [r \in Refunds |-> NoRefund]
    /\ listed = {}
    /\ signals = {}
    /\ faults = 0

-----------------------------------------------------------------------------
(* Pieces the handlers share.                                              *)

Fault(kind) == kind \in Faults /\ faults < MaxFaults /\ faults' = faults + 1

\* payment_receipts.record commits in a session of its own and never raises.
\* add: what the receipt puts on the unresolved list; rem: what it resolves.
\* A keyed entry is the paymentKey; an entry without key is the order it names.
File(add, rem) ==
    \/ listed' = (listed \ rem) \cup add /\ UNCHANGED faults
    \/ listed' = listed /\ Fault("receipt")

\* The vendor reports a change of payment k, if it has the address.
Notify(k, kinds) ==
    signals' = signals \cup
        (IF "webhook" \in Events THEN {[order |-> KeyOrder[k], kind |-> n] : n \in kinds}
         ELSE {})

\* One UPDATE of topup_krw and the ledger event of the same transaction.
Credit(o, n) ==
    /\ topup'  = [topup EXCEPT ![Owner[o]] = @ + n]
    /\ ledger' = [ledger EXCEPT ![Owner[o]] = @ + n]
    /\ coins'  = [coins EXCEPT ![o] = @ + n]

\* confirm_order: pending -> paid, balance and ledger in one transaction.
\* (mutant: the UPDATE without status = 'pending')
ConfirmableAnyStatus(o) == Owner[o] \notin withdrawn
Confirmable(o) == order[o].status = "pending" /\ Owner[o] \notin withdrawn
Grant(o, provider, ref) ==
    /\ order' = [order EXCEPT ![o].status = "paid", ![o].provider = provider,
                              ![o].ref = ref, ![o].paidAt = TRUE]
    /\ Credit(o, Amount[o])

KeysOf(o) == {k \in Keys : KeyOrder[k] = o}

\* pg_advisory_xact_lock(coin_order_confirm:o): held by a confirm or a reconcile.
LockFree(o) ==
    /\ reconcile[o].pc = "idle"
    /\ \A c \in Confirms : confirm[c].key \notin KeysOf(o)
\* pg_advisory_xact_lock(coin_order_refund:o): released by the refund's commit.
RefundLockFree(o) == \A r \in Refunds : refund[r].pc # "read" \/ refund[r].order # o

LeastOf(a, b) == IF a <= b THEN a ELSE b
Live(k) == pay[k].st \in Captured \cup {"WAITING_FOR_DEPOSIT"}

-----------------------------------------------------------------------------
(* confirm_toss_payment.                                                   *)

\* Owner, lock, row, status, REQUESTED receipt.  A paid order answers at once
\* (same key) or is BLOCKED, like any other status: nothing changes.
ConfirmBegin(c, k) ==
    /\ confirm[c].pc = "idle"
    /\ pay[k].st # "NONE"
    /\ Owner[KeyOrder[k]] \notin withdrawn
    /\ LockFree(KeyOrder[k])
    /\ order[KeyOrder[k]].status = "pending"
    /\ confirm' = [confirm EXCEPT ![c] = [pc |-> "calling", key |-> k, reply |-> "none"]]
    /\ UNCHANGED <<accounts, people, vendor, reconcile, refund, listed, faults>>

\* The vendor answered TossError: REJECTED receipt, the order stays pending.
ConfirmRejected(c) ==
    /\ confirm[c].pc = "answered" /\ confirm[c].reply = "rejected"
    /\ confirm' = [confirm EXCEPT ![c] = NoConfirm]
    /\ UNCHANGED <<accounts, people, vendor, reconcile, refund, listed, faults>>

\* TossOutcomeUnknownError: UNKNOWN receipt, then _try_resolve.
ConfirmUnknown(c) ==
    /\ confirm[c].pc = "answered" /\ confirm[c].reply = "unknown"
    /\ confirm' = [confirm EXCEPT ![c].pc = "resolving"]
    /\ File({confirm[c].key}, {})
    /\ UNCHANGED <<accounts, people, vendor, reconcile, refund>>

\* _try_resolve asks by paymentKey, then by order id; only DONE resolves.
TryResolve(k) == {l \in KeysOf(KeyOrder[k]) : pay[l].st = "DONE"}

\* Resolved: a RECONCILED receipt.  Otherwise PaymentUnresolvedError.
ConfirmResolve(c) ==
    /\ confirm[c].pc = "resolving"
    /\ \/ /\ TryResolve(confirm[c].key) # {}
          /\ confirm' = [confirm EXCEPT ![c].pc = "answered", ![c].reply = "DONE"]
          /\ File({}, {confirm[c].key})
       \/ /\ TryResolve(confirm[c].key) = {}
          /\ confirm' = [confirm EXCEPT ![c] = NoConfirm]
          /\ UNCHANGED <<listed, faults>>
       \/ /\ Fault("lookup")
          /\ confirm' = [confirm EXCEPT ![c] = NoConfirm]
          /\ UNCHANGED listed
    /\ UNCHANGED <<accounts, people, vendor, reconcile, refund>>

\* HTTP 200 with a pending status: UNKNOWN receipt, PaymentPendingError.
ConfirmPending(c) ==
    /\ confirm[c].pc = "answered" /\ confirm[c].reply = "WAITING_FOR_DEPOSIT"
    /\ confirm' = [confirm EXCEPT ![c] = NoConfirm]
    /\ File({confirm[c].key}, {})
    /\ UNCHANGED <<accounts, people, vendor, reconcile, refund>>

\* DONE: APPROVED receipt, confirm_order, then APPLIED or APPLY_FAILED.
ConfirmApply(c) ==
    LET k == confirm[c].key
        o == KeyOrder[k]
    IN  /\ confirm[c].pc = "answered" /\ confirm[c].reply = "DONE"
        /\ \/ Confirmable(o) /\ Grant(o, "toss", k) /\ File({}, {k})
           \/ ~Confirmable(o) /\ UNCHANGED accounts /\ File({k}, {})
        /\ confirm' = [confirm EXCEPT ![c] = NoConfirm]
        /\ UNCHANGED <<people, vendor, reconcile, refund>>

-----------------------------------------------------------------------------
(* The other ways an order changes.                                        *)

\* cancel_order: a conditional UPDATE that takes no lock.
CancelOrder(o) ==
    /\ "cancel" \in Events
    /\ order[o].status = "pending" /\ Owner[o] \notin withdrawn
    /\ order' = [order EXCEPT ![o].status = "canceled"]
    /\ UNCHANGED <<topup, ledger, coins, people, vendor, confirm, reconcile, refund,
                   listed, faults>>

\* A bank transfer arrives and an administrator confirms the order by hand.
ManualConfirm(o) ==
    /\ "manual" \in Events /\ bank[o] = 0
    /\ Confirmable(o)
    /\ bank' = [bank EXCEPT ![o] = Amount[o]]
    /\ Grant(o, "manual", NoKey)
    /\ UNCHANGED <<used, withdrawn, vendor, confirm, reconcile, refund, listed, faults>>

\* record_usage_usd draws from topup_krw; usage is not in the coin ledger.
Spend(u) ==
    /\ used[u] < MaxUsed /\ topup[u] > 0
    /\ topup' = [topup EXCEPT ![u] = @ - 1]
    /\ used'  = [used EXCEPT ![u] = @ + 1]
    /\ UNCHANGED <<order, ledger, coins, bank, withdrawn, vendor, confirm, reconcile,
                   refund, listed, faults>>

\* The account is closed (deleted_at).
Withdraw(u) ==
    /\ "withdraw" \in Events /\ u \notin withdrawn
    /\ withdrawn' = withdrawn \cup {u}
    /\ UNCHANGED <<accounts, used, bank, vendor, confirm, reconcile, refund, listed, faults>>

\* purge_expired_buyer_pii, clause (B): unpaid orders of closed accounts.
\* (mutant: without paid_at IS NULL)
PurgeableByStatus(o) == order[o].status \in {"pending", "canceled"} /\ Owner[o] \in withdrawn
Purgeable(o) == /\ order[o].status \in {"pending", "canceled"}
                /\ ~order[o].paidAt
                /\ Owner[o] \in withdrawn
PurgeBuyers ==
    /\ \E o \in Orders : Purgeable(o) /\ order[o].buyer
    /\ order' = [o \in Orders |->
                    IF Purgeable(o) THEN [order[o] EXCEPT !.buyer = FALSE] ELSE order[o]]
    /\ UNCHANGED <<topup, ledger, coins, people, vendor, confirm, reconcile, refund,
                   listed, faults>>

-----------------------------------------------------------------------------
(* refund_toss_payment.                                                    *)

\* The unused part of the payment: min(unrefunded part of the order, topup).
\* (mutant: the balance alone)
RefundableByBalance(o) == topup[Owner[o]]
Refundable(o) == LeastOf(Amount[o] - order[o].refunded, topup[Owner[o]])

\* Lock, row, balance.
RefundBegin(r, o, want) ==
    /\ refund[r].pc = "idle"
    /\ RefundLockFree(o)
    /\ order[o].status = "paid" /\ order[o].provider = "toss" /\ order[o].ref # NoKey
    /\ want \in 1..Refundable(o)
    /\ refund' = [refund EXCEPT ![r] =
                    [pc |-> "read", order |-> o, key |-> order[o].ref, want |-> want,
                     prev |-> order[o].refunded, reply |-> "none"]]
    /\ UNCHANGED <<accounts, people, vendor, confirm, reconcile, listed, faults>>

\* Conditional UPDATE of the balance, ledger event, compare-and-set of
\* refunded_krw; a miss rolls the transaction back.
RefundCommit(r) ==
    LET j == refund[r]
        o == j.order
    IN  /\ j.pc = "read"
        /\ \/ /\ topup[Owner[o]] >= j.want /\ order[o].refunded = j.prev
              /\ Credit(o, -j.want)
              /\ order' = [order EXCEPT
                             ![o].refunded = j.prev + j.want,
                             ![o].status = IF j.prev + j.want >= Amount[o]
                                           THEN "refunded" ELSE @]
              /\ refund' = [refund EXCEPT ![r].pc = "calling"]
           \/ /\ topup[Owner[o]] < j.want \/ order[o].refunded # j.prev
              /\ refund' = [refund EXCEPT ![r] = NoRefund]
              /\ UNCHANGED accounts
        /\ UNCHANGED <<people, vendor, confirm, reconcile, listed, faults>>

\* The vendor cancelled: CANCELED receipt.
\* (mutant: any answer is taken for a cancellation)
RefundDoneAnyAnswer(r) ==
    /\ refund[r].pc = "answered"
    /\ refund' = [refund EXCEPT ![r] = NoRefund]
    /\ UNCHANGED <<accounts, people, vendor, confirm, reconcile, listed, faults>>
RefundDone(r) ==
    /\ refund[r].pc = "answered" /\ refund[r].reply = "DONE"
    /\ refund' = [refund EXCEPT ![r] = NoRefund]
    /\ UNCHANGED <<accounts, people, vendor, confirm, reconcile, listed, faults>>

\* The compare-and-set of _revert_clawback.  (mutant: without it)
RefundAlwaysOurs(o, j) == TRUE
RefundUntouched(o, j) == order[o].refunded = j.prev + j.want

\* Rejected or unknown: _revert_clawback gives the coins back and, if
\* refunded_krw is still what this request wrote, restores it; otherwise an
\* APPLY_FAILED receipt without payment key.  Then CANCEL_REJECTED.
RefundRevert(r) ==
    LET j == refund[r]
        o == j.order
    IN  /\ j.pc = "answered" /\ j.reply \in {"rejected", "unknown"}
        /\ Credit(o, j.want)
        /\ \/ /\ RefundUntouched(o, j)
              /\ order' = [order EXCEPT ![o].refunded = j.prev,
                                        ![o].status = IF j.prev <= 0 THEN "paid" ELSE @]
              /\ UNCHANGED <<listed, faults>>
           \/ /\ ~RefundUntouched(o, j)
              /\ File({o}, {})
              /\ UNCHANGED order
        /\ refund' = [refund EXCEPT ![r] = NoRefund]
        /\ UNCHANGED <<people, vendor, confirm, reconcile>>

-----------------------------------------------------------------------------
(* reconcile_order and its three callers.                                  *)

ReconcileBegin(o, item) ==
    /\ LockFree(o)
    /\ reconcile' = [reconcile EXCEPT ![o] = [pc |-> "fetching", item |-> item,
                                              row |-> order[o], got |-> Nothing]]

\* The button of the administrator.
AdminReconcile(o) ==
    /\ "admin" \in Events
    /\ ReconcileBegin(o, NoKey)
    /\ UNCHANGED <<accounts, people, vendor, confirm, refund, listed, faults>>

\* reconcile_stale_payments takes an entry of the unresolved list.
SchedulerReconcile(i) ==
    /\ i \in listed
    /\ ReconcileBegin(IF i \in Keys THEN KeyOrder[i] ELSE i, i)
    /\ UNCHANGED <<accounts, people, vendor, confirm, refund, listed, faults>>

\* The entries a webhook's receipt resolves.  (mutant: those of its payment too)
WebhookResolvesPayment(s) == IF s.kind = "deposit" THEN Orders ELSE KeysOf(s.order)
WebhookResolves(s) == IF s.kind = "deposit" THEN Orders ELSE {}

\* toss_webhook files a RECONCILED receipt without order_no; a deposit
\* callback has no payment key either, so the receipt resolves every entry
\* of the list that has none.
WebhookReconcile(s) ==
    /\ s \in signals
    /\ ReconcileBegin(s.order, NoKey)
    /\ signals' = signals \ {s}
    /\ File({}, WebhookResolves(s))
    /\ UNCHANGED <<accounts, people, pay, cancels, confirm, refund>>

\* _fetch_payment: by provider_ref if there is one, by order id if there is
\* none or that lookup fails, and no payment if both fail.
\* (mutant: by provider_ref only)
LookupByRef(o, ref) == {ref} \ {NoKey}
Lookup(o, ref) ==
    IF ref \in Keys THEN {ref}
    ELSE IF \E k \in KeysOf(o) : Live(k) THEN {k \in KeysOf(o) : Live(k)}
    ELSE {k \in KeysOf(o) : pay[k].st # "NONE"}

ReconcileFetch(o) ==
    LET answer(f) == reconcile' = [reconcile EXCEPT ![o].pc = "deciding", ![o].got = f]
        found == Lookup(o, reconcile[o].row.ref)
    IN  /\ reconcile[o].pc = "fetching"
        /\ \/ \E k \in found : /\ answer([key |-> k, st |-> pay[k].st, bal |-> pay[k].bal])
                               /\ UNCHANGED faults
           \/ found = {} /\ answer(Nothing) /\ UNCHANGED faults
           \/ Fault("outage") /\ answer(Nothing)
           \/ /\ reconcile[o].row.ref # NoKey /\ Fault("outage")
              /\ \E k \in Lookup(o, NoKey) :
                    answer([key |-> k, st |-> pay[k].st, bal |-> pay[k].bal])
        /\ UNCHANGED <<accounts, people, vendor, confirm, refund, listed>>

\* topup_krw goes down to zero at most; the ledger says what was really taken.
\* (mutants: no floor; a floor, and the whole amount in the ledger)
ClawbackUnfloored(o, n) == Credit(o, -n)
ClawbackFullEntry(o, n) ==
    /\ topup'  = [topup EXCEPT ![Owner[o]] = @ - LeastOf(n, @)]
    /\ ledger' = [ledger EXCEPT ![Owner[o]] = @ - n]
    /\ coins'  = [coins EXCEPT ![o] = @ - n]
Clawback(o, n) == Credit(o, -LeastOf(n, topup[Owner[o]]))

\* What reconcile_order compares: the row it read and the payment it fetched.
\* (mutant of ClawTarget: refunded_krw is not read)
Unpaid(j) == j.got.st = "DONE" /\ j.row.status = "pending"
VendorRemaining(f) == IF f.st \in Revoked THEN 0 ELSE f.bal
ClawTargetOfOrder(o, j) == Amount[o] - VendorRemaining(j.got)
ClawTarget(o, j) == Amount[o] - j.row.refunded - VendorRemaining(j.got)
Overpaid(o, j) == /\ j.row.status = "paid" /\ j.got.st \in Revoking
                  /\ ClawTarget(o, j) > 0

Finish(o) == /\ reconcile[o].pc = "deciding"
             /\ reconcile' = [reconcile EXCEPT ![o] = NoReconcile]
             /\ UNCHANGED <<people, vendor, confirm, refund>>

\* granted, or apply_conflict when the order is no longer confirmable.
ReconcileGrant(o) ==
    LET j == reconcile[o]
    IN  /\ Finish(o)
        /\ j.got.key # NoKey /\ Unpaid(j)
        /\ \/ Confirmable(o) /\ Grant(o, "toss", j.got.key) /\ File({}, {j.got.key})
           \/ ~Confirmable(o) /\ UNCHANGED <<accounts, listed, faults>>

\* clawed_back: the order is pending again whatever its status is by now.
ReconcileClaw(o) ==
    LET j == reconcile[o]
    IN  /\ Finish(o)
        /\ j.got.key # NoKey /\ Overpaid(o, j)
        /\ Clawback(o, ClawTarget(o, j))
        /\ order' = [order EXCEPT ![o].status = "pending"]
        /\ File({}, {j.got.key})

\* already_consistent or no_payment_at_vendor: the scheduler resolves its entry.
ReconcileConsistent(o) ==
    LET j == reconcile[o]
    IN  /\ Finish(o)
        /\ j.got.key = NoKey \/ (~Unpaid(j) /\ ~Overpaid(o, j))
        /\ File({}, IF j.item \in Orders THEN Orders ELSE {j.item})
        /\ UNCHANGED accounts

-----------------------------------------------------------------------------
(* The vendor and its customers (external).                                *)

\* The customer authorises a payment in the vendor's window.
OpenWindow(k) ==
    /\ pay[k].st = "NONE" /\ order[KeyOrder[k]].status = "pending"
    /\ pay' = [pay EXCEPT ![k].st = "IN_PROGRESS"]
    /\ UNCHANGED <<accounts, people, cancels, signals, confirm, reconcile, refund, listed, faults>>

Approval(o, status) ==
    [pay   |-> [st |-> status, bal |-> IF status = "DONE" THEN Amount[o] ELSE 0,
                first |-> status],
     reply |-> status]

\* An idempotency key that was answered before gets the first answer again.
ConfirmAnswers(k) ==
    IF "replay" \in Events /\ pay[k].first # "none"
    THEN {[pay |-> pay[k], reply |-> pay[k].first]}
    ELSE IF pay[k].st = "IN_PROGRESS" /\ \A l \in KeysOf(KeyOrder[k]) : ~Live(l)
    THEN {Approval(KeyOrder[k], s) :
            s \in {"DONE"} \cup (IF "account" \in Events THEN {"WAITING_FOR_DEPOSIT"} ELSE {})}
    ELSE {[pay |-> pay[k], reply |-> "rejected"]}

VendorConfirm(c) ==
    LET k == confirm[c].key
    IN  /\ confirm[c].pc = "calling"
        /\ \E a \in ConfirmAnswers(k) :
              \/ /\ pay' = [pay EXCEPT ![k] = a.pay]
                 /\ confirm' = [confirm EXCEPT ![c].pc = "answered", ![c].reply = a.reply]
                 /\ UNCHANGED faults
              \/ /\ Fault("unknown")
                 /\ pay' \in {pay, [pay EXCEPT ![k] = a.pay]}
                 /\ confirm' = [confirm EXCEPT ![c].pc = "answered", ![c].reply = "unknown"]
              \/ /\ Fault("reject") /\ pay[k].st = "IN_PROGRESS"
                 /\ pay' = [pay EXCEPT ![k].st = "ABORTED", ![k].first = "rejected"]
                 /\ confirm' = [confirm EXCEPT ![c].pc = "answered", ![c].reply = "rejected"]
        /\ IF pay' = pay THEN UNCHANGED signals ELSE Notify(k, {"status"})
        /\ UNCHANGED <<accounts, people, cancels, reconcile, refund, listed>>

\* POST /cancel: without cancelAmount (a first and full refund) the vendor
\* cancels all it still holds.
\* (mutant: also for the refund that completes earlier ones)
CancelAmountOfLast(r) ==
    LET j == refund[r]
    IN  IF j.prev + j.want = Amount[j.order] THEN pay[j.key].bal ELSE j.want
CancelAmount(r) ==
    LET j == refund[r]
    IN  IF j.prev = 0 /\ j.want = Amount[j.order] THEN pay[j.key].bal ELSE j.want
CancelId(r) == <<refund[r].order, refund[r].prev + refund[r].want>>
Answered(r, reply) ==
    refund' = [refund EXCEPT ![r].pc = "answered", ![r].reply = reply]
Recorded(r, reply) ==
    cancels' = [cancels EXCEPT ![CancelId(r)] = reply]

VendorCancels(r) ==
    LET k == refund[r].key
        n == CancelAmount(r)
    IN  /\ pay[k].st \in Captured /\ n \in 1..pay[k].bal
        /\ pay' = [pay EXCEPT ![k].bal = @ - n,
                              ![k].st = IF n = pay[k].bal THEN "CANCELED" ELSE "PARTIAL_CANCELED"]
        /\ Notify(k, {"status"})
        /\ Recorded(r, "DONE")

VendorRefuses(r) ==
    \/ pay[refund[r].key].st \notin Captured
    \/ CancelAmount(r) \notin 1..pay[refund[r].key].bal

VendorCancel(r) ==
    /\ refund[r].pc = "calling"
    /\ IF cancels[CancelId(r)] # "none"
       THEN Answered(r, cancels[CancelId(r)]) /\ UNCHANGED <<vendor, faults>>
       ELSE \/ VendorCancels(r) /\ Answered(r, "DONE") /\ UNCHANGED faults
            \/ VendorCancels(r) /\ Answered(r, "unknown") /\ Fault("unknown")
            \/ /\ Answered(r, "unknown") /\ Fault("unknown")
               /\ UNCHANGED vendor
            \/ /\ \/ VendorRefuses(r) /\ UNCHANGED faults
                  \/ Fault("reject")
               /\ Answered(r, "rejected") /\ Recorded(r, "rejected")
               /\ UNCHANGED <<pay, signals>>
    /\ UNCHANGED <<accounts, people, confirm, reconcile, listed>>

\* The deposit of a virtual account arrives.
Deposit(k) ==
    /\ pay[k].st = "WAITING_FOR_DEPOSIT"
    /\ pay' = [pay EXCEPT ![k].st = "DONE", ![k].bal = Amount[KeyOrder[k]]]
    /\ Notify(k, {"status", "deposit"})
    /\ UNCHANGED <<accounts, people, cancels, confirm, reconcile, refund, listed, faults>>

\* The vendor takes an approval back: a deposit error, a cancel at its console.
VendorRevoke(k) ==
    /\ pay[k].st \in Captured /\ Fault("revoke")
    /\ \E s \in {"WAITING_FOR_DEPOSIT", "CANCELED"} :
          /\ s = "WAITING_FOR_DEPOSIT" => pay[k].st = "DONE" /\ "account" \in Events
          /\ pay' = [pay EXCEPT ![k].st = s, ![k].bal = 0]
    /\ Notify(k, {"status"})
    /\ UNCHANGED <<accounts, people, cancels, confirm, reconcile, refund, listed>>

\* An authorisation nobody confirmed, or an account nobody paid into, expires.
Expire(k) ==
    /\ pay[k].st \in {"IN_PROGRESS", "WAITING_FOR_DEPOSIT"}
    /\ pay' = [pay EXCEPT ![k].st = "ABORTED"]
    /\ Notify(k, {"status"})
    /\ UNCHANGED <<accounts, people, cancels, confirm, reconcile, refund, listed, faults>>

LoseWebhook(s) ==
    /\ s \in signals /\ Fault("webhook")
    /\ signals' = signals \ {s}
    /\ UNCHANGED <<accounts, people, pay, cancels, confirm, reconcile, refund, listed>>

\* The process that runs a handler dies; its open transaction rolls back.
Crash ==
    /\ Fault("crash")
    /\ \/ /\ \E c \in Confirms : confirm[c].pc # "idle"
                                 /\ confirm' = [confirm EXCEPT ![c] = NoConfirm]
          /\ UNCHANGED <<reconcile, refund>>
       \/ /\ \E o \in Orders : reconcile[o].pc # "idle"
                               /\ reconcile' = [reconcile EXCEPT ![o] = NoReconcile]
          /\ UNCHANGED <<confirm, refund>>
       \/ /\ \E r \in Refunds : refund[r].pc # "idle"
                                /\ refund' = [refund EXCEPT ![r] = NoRefund]
          /\ UNCHANGED <<confirm, reconcile>>
    /\ UNCHANGED <<accounts, people, vendor, listed>>

-----------------------------------------------------------------------------

ConfirmStep(c) ==
    \/ \E k \in Keys : ConfirmBegin(c, k)
    \/ ConfirmRejected(c) \/ ConfirmUnknown(c) \/ ConfirmResolve(c)
    \/ ConfirmPending(c) \/ ConfirmApply(c) \/ VendorConfirm(c)
RefundStep(r) ==
    \/ \E o \in Orders : \E want \in 1..Amount[o] : RefundBegin(r, o, want)
    \/ RefundCommit(r) \/ RefundDone(r) \/ RefundRevert(r) \/ VendorCancel(r)
ReconcileWork(o) ==
    ReconcileFetch(o) \/ ReconcileGrant(o) \/ ReconcileClaw(o) \/ ReconcileConsistent(o)
PaymentStep(k) == OpenWindow(k) \/ Deposit(k) \/ VendorRevoke(k) \/ Expire(k)

Next ==
    \/ \E c \in Confirms : ConfirmStep(c)
    \/ \E r \in Refunds : RefundStep(r)
    \/ \E o \in Orders : ReconcileWork(o) \/ AdminReconcile(o)
    \/ \E o \in Orders : CancelOrder(o) \/ ManualConfirm(o)
    \/ \E i \in Keys \cup Orders : SchedulerReconcile(i)
    \/ \E s \in Signal : WebhookReconcile(s) \/ LoseWebhook(s)
    \/ \E k \in Keys : PaymentStep(k)
    \/ \E u \in Users : Spend(u) \/ Withdraw(u)
    \/ PurgeBuyers \/ Crash

Spec == Init /\ [][Next]_vars

\* The database, the vendor and the scheduler keep working.  A request that waits
\* for an advisory lock is served in turn, whatever else asks for the lock.
Fairness ==
    /\ \A c \in Confirms : WF_vars(ConfirmStep(c) /\ confirm[c].pc # "idle")
    /\ \A o \in Orders : WF_vars(ReconcileWork(o))
    /\ \A i \in Keys \cup Orders : SF_vars(SchedulerReconcile(i))
FairSpec == Spec /\ Fairness

-----------------------------------------------------------------------------
(* Properties.                                                             *)

Money(o) == bank[o] + SumFunctionOnSet([k \in Keys |-> pay[k].bal], KeysOf(o))

\* Nothing about order o is under way.
AtRest(o) == /\ LockFree(o)
             /\ \A r \in Refunds : refund[r].order # o
             /\ \A s \in signals : s.order # o

\* The ledger of a user explains his balance to the last won: what was credited
\* is what he holds plus what usage drew, through grants, refunds, reverted
\* refunds and clawbacks clipped at a spent balance.
LedgerMatchesBalance == \A u \in Users : ledger[u] = topup[u] + used[u]

\* However refunds, reverts and reconciliation interleave, the refunds recorded
\* on an order never exceed what was paid for it.
RefundedWithinOrder == \A o \in Orders : order[o].refunded <= Amount[o]

\* An order that was ever paid keeps its buyer, which has to be preserved for
\* five years, though accounts close and the purge runs at any time.
PaidBuyerKept == \A o \in Orders : order[o].paidAt => order[o].buyer

\* refund_toss_payment takes the coins first and gives them back only when the
\* vendor refused, so nobody has his money back and the coins too.
NeverBoth == \A o \in Orders : coins[o] <= Money(o)

\* Whatever the vendor gave back is in refunded_krw: concurrent refunds whose
\* reverts cross do not erase each other's record.
ReturnedIsRecorded ==
    \A o \in Orders : order[o].ref # NoKey =>
        Amount[o] - pay[order[o].ref].bal <= order[o].refunded

\* When no request is under way for an order that counts as paid, its coins are
\* exactly what the vendor still holds for it: no refund that was refused, and
\* none that crossed another, has left a coin too few or too many.
RefundsSettle ==
    \A o \in Orders : AtRest(o) /\ order[o].status = "paid" => coins[o] = Money(o)

\* The same of every order that was ever paid.
SettledAtRest ==
    \A o \in Orders : AtRest(o) /\ order[o].paidAt => coins[o] = Money(o)

\* The coins of a user whose orders are all at rest are backed by money, after
\* deposit errors, cancellations at the vendor and clawbacks.
NoFreeCoins ==
    \A u \in Users :
        LET mine == {o \in Orders : Owner[o] = u}
        IN  (\A o \in mine : AtRest(o)) => topup[u] <= SumFunctionOnSet([o \in Orders |-> Money(o)], mine)

\* A clawback decided on the row as it is, told what the vendor still holds, leaves the
\* order at least the coins for that, after partial refunds and revocations and whatever
\* the user's other orders have to lose, unless the vendor refused a refund of the order.
Refused(o) == \E n \in 1..Amount[o] : cancels[<<o, n>>] = "rejected"
FreshClawIsExact ==
    [][\A o \in Orders :
        LET j == reconcile[o]
            fresh == j.row = order[o] /\ j.got.bal = Money(o)
        IN  ReconcileClaw(o) /\ fresh /\ ~Refused(o) => coins'[o] >= Money(o)]_vars

\* Coins a refund has taken for money that has not gone back: until the vendor says
\* that it has cancelled.
Outstanding(j) ==
    IF j.pc = "calling" \/ (j.pc = "answered" /\ j.reply # "DONE") THEN j.want ELSE 0
Share(j, o) == IF j.order = o THEN Outstanding(j) ELSE 0
OwedBy(jobs, o) == SumFunctionOnSet([r \in Refunds |-> Share(jobs[r], o)], Refunds)

\* Through confirmations, refunds that cross or are reverted, reconciliations and crashes,
\* each step of the program is one of the exchange it promises: coins against money,
\* money against coins.
Fair == INSTANCE CoinExchange WITH
    taken <- [o \in Orders |-> OwedBy(refund, o)], money <- [o \in Orders |-> Money(o)]
ExchangeIsFair == Fair!AbstractSpec

\* Money taken for an order that is not paid is never forgotten: when nothing
\* is under way for the order, its payment is on the unresolved list.
Stranded(o) == AtRest(o) /\ Money(o) > 0 /\ ~order[o].paidAt
OnList(o)   == listed \cap KeysOf(o) # {}
StrandedIsListed == \A o \in Orders : Stranded(o) => OnList(o)

\* A canceled order is never reopened, by a confirmation that was under way or
\* by a clawback.
CanceledIsFinal ==
    [][\A o \in Orders : order[o].status = "canceled" => order'[o].status = "canceled"]_vars

\* A payment on the unresolved list leaves it by being paid out, if its owner
\* still has an account.
StrandedIsPaid ==
    \A o \in Orders : Stranded(o) /\ OnList(o) ~> order[o].paidAt \/ Owner[o] \in withdrawn
=============================================================================
