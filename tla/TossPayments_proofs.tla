------------------------ MODULE TossPayments_proofs ------------------------
(***************************************************************************)
(* Proofs about TossPayments, for any number of orders, payments, users    *)
(* and concurrent requests.  The invariant that is inductive adds to the   *)
(* types what a request in progress remembers: the payment a confirmation  *)
(* is for, and that a refund in progress fits in what its order had left   *)
(* when the refund read it.  The parts that follow each have an invariant  *)
(* on top of it: MoneyInv (nobody has money and coins), LockedPaid (a      *)
(* canceled order stays so), ListInv (money without coins is listed),      *)
(* BackInv (coins are backed by money), ClawInv (a clawback on current     *)
(* data is exact) and SettleInv (refunds settle).  The last part shows that*)
(* TossPayments implements CoinExchange.                                   *)
(***************************************************************************)
EXTENDS TossPayments, SumTheorems

ConfirmKeyed == \A c \in Confirms : confirm[c].pc # "idle" => confirm[c].key \in Keys
RefundFits ==
    \A r \in Refunds : refund[r].pc # "idle" =>
        /\ refund[r].order \in Orders /\ refund[r].key \in Keys
        /\ refund[r].want > 0
        /\ refund[r].prev + refund[r].want <= Amount[refund[r].order]
IInv == TypeOK /\ ConfirmKeyed /\ RefundFits /\ RefundedWithinOrder

\* The types a step that writes one of these variables has to restore.
OrderOK  == order \in [Orders -> OrderRow]
CoinsOK  == /\ topup \in [Users -> Nat] /\ ledger \in [Users -> Int]
            /\ coins \in [Orders -> Int]
ListedOK == listed \subseteq Keys \cup Orders /\ faults \in 0..MaxFaults

-----------------------------------------------------------------------------
(* What the shared pieces of the handlers keep.                            *)

\* The owner of an order is a user and its amount a positive number.
LEMMA OwnerType ==
  ASSUME NEW o \in Orders
  PROVE  Owner[o] \in Users /\ Amount[o] \in Nat /\ Amount[o] > 0
  BY InstanceAssumption

\* A credit that leaves no balance below zero keeps balance and ledger typed.
LEMMA CreditOK ==
  ASSUME TypeOK, NEW o \in Orders, NEW n \in Int, topup[Owner[o]] + n >= 0, Credit(o, n)
  PROVE  CoinsOK'
  <1>1. Owner[o] \in Users /\ topup \in [Users -> Nat] /\ topup[Owner[o]] + n \in Nat
    BY OwnerType DEF TypeOK
  <1>2. topup' \in [Users -> Nat]
    BY <1>1 DEF Credit
  <1>3. ledger' \in [Users -> Int] /\ coins' \in [Orders -> Int]
    BY <1>1 DEF TypeOK, Credit
  <1> QED
    BY <1>2, <1>3 DEF CoinsOK

\* A clawback is floored at a balance of zero.
LEMMA ClawbackOK ==
  ASSUME TypeOK, NEW o \in Orders, NEW n \in Int, n > 0, Clawback(o, n)
  PROVE  CoinsOK'
  <1> DEFINE m == LeastOf(n, topup[Owner[o]])
  <1>1. topup[Owner[o]] \in Nat
    BY InstanceAssumption DEF TypeOK
  <1>2. m \in Int /\ -m \in Int /\ topup[Owner[o]] + (-m) >= 0
    BY <1>1 DEF LeastOf
  <1> QED
    BY <1>2, CreditOK DEF Clawback

\* A receipt changes the list by entries of the list's type.
LEMMA FileOK ==
  ASSUME TypeOK, NEW add \in SUBSET (Keys \cup Orders), NEW rem, File(add, rem)
  PROVE  ListedOK'
  BY InstanceAssumption DEF TypeOK, File, Fault, ListedOK

\* A fault stays within the bound.
LEMMA FaultOK ==
  ASSUME TypeOK, NEW kind, Fault(kind)
  PROVE  faults' \in 0..MaxFaults
  BY InstanceAssumption DEF TypeOK, Fault

\* Replacing one row by one that fits its order keeps the table.
LEMMA RowOK ==
  ASSUME TypeOK, RefundedWithinOrder, NEW o \in Orders, NEW row \in OrderRow,
         row.refunded <= Amount[o], order' = [order EXCEPT ![o] = row]
  PROVE  OrderOK' /\ RefundedWithinOrder'
  BY DEF TypeOK, OrderOK, RefundedWithinOrder

\* A row with another amount refunded and another status is a row.
LEMMA RefundedRowOK ==
  ASSUME NEW row \in OrderRow, NEW n \in Nat, NEW status \in OrderStatus
  PROVE  LET new == [row EXCEPT !.refunded = n, !.status = status]
         IN  new \in OrderRow /\ new.refunded = n
  BY DEF OrderRow

\* confirm_order makes a row and a balance of the right type.
LEMMA GrantOK ==
  ASSUME TypeOK, RefundedWithinOrder, NEW o \in Orders, NEW provider \in {"toss", "manual"},
         NEW ref \in Keys \cup {NoKey}, Grant(o, provider, ref)
  PROVE  OrderOK' /\ CoinsOK' /\ RefundedWithinOrder'
  <1>0. topup[Owner[o]] \in Nat
    BY OwnerType DEF TypeOK
  <1>1. Amount[o] \in Int /\ topup[Owner[o]] + Amount[o] >= 0
    BY <1>0, OwnerType
  <1>2. CoinsOK'
    BY <1>1, CreditOK DEF Grant
  <1> DEFINE row == [order[o] EXCEPT !.status = "paid", !.provider = provider,
                                     !.ref = ref, !.paidAt = TRUE]
  <1>3. row \in OrderRow /\ row.refunded <= Amount[o]
    BY DEF TypeOK, OrderRow, OrderStatus, RefundedWithinOrder
  <1>4. order' = [order EXCEPT ![o] = row]
    BY DEF Grant, TypeOK
  <1>5. OrderOK' /\ RefundedWithinOrder'
    BY <1>3, <1>4, RowOK
  <1> QED
    BY <1>2, <1>5

\* What the vendor answers to a confirmation is a payment and a reply.
LEMMA AnswerOK ==
  ASSUME TypeOK, NEW k \in Keys, NEW a \in ConfirmAnswers(k)
  PROVE  a.pay \in Payment /\ a.reply \in Replies
  <1>0. pay[k] \in Payment /\ Amount[KeyOrder[k]] \in Nat
    BY InstanceAssumption DEF TypeOK
  <1>1. CASE a = [pay |-> pay[k], reply |-> pay[k].first]
    BY <1>0, <1>1 DEF Payment
  <1>2. CASE a = [pay |-> pay[k], reply |-> "rejected"]
    BY <1>0, <1>2 DEF Payment, Replies
  <1>3. ASSUME NEW s \in {"DONE", "WAITING_FOR_DEPOSIT"}, a = Approval(KeyOrder[k], s)
        PROVE  a.pay \in Payment /\ a.reply \in Replies
    BY <1>0, <1>3 DEF Approval, Payment, PayStatus, Revoking, Revoked, Replies
  <1> QED
    BY <1>1, <1>2, <1>3 DEF ConfirmAnswers

\* A notification is a signal about an order.
LEMMA NotifyOK ==
  ASSUME TypeOK, NEW k \in Keys, NEW kinds \in SUBSET {"status", "deposit"}, Notify(k, kinds)
  PROVE  signals' \subseteq Signal
  <1>1. KeyOrder[k] \in Orders /\ signals \subseteq Signal
    BY InstanceAssumption DEF TypeOK
  <1>2. ASSUME NEW n \in kinds PROVE [order |-> KeyOrder[k], kind |-> n] \in Signal
    BY <1>1 DEF Signal
  <1> DEFINE sent == {[order |-> KeyOrder[k], kind |-> n] : n \in kinds}
  <1>3. sent \subseteq Signal
    BY <1>2
  <1>4. signals' = signals \/ signals' = signals \cup sent
    BY DEF Notify
  <1> HIDE DEF sent
  <1> QED
    BY <1>1, <1>3, <1>4

-----------------------------------------------------------------------------
(* The initial state and the steps of a confirmation.                      *)

\* The invariant holds at the start.
LEMMA IInvInit == Init => IInv
  <1> SUFFICES ASSUME Init PROVE IInv
    OBVIOUS
  <1> USE InstanceAssumption DEF Init
  <1>1. TypeOK
    BY DEF TypeOK, NewOrder, NoConfirm, NoReconcile, NoRefund, OrderRow, OrderStatus, Payment,
           PayStatus, Revoking, Revoked, Replies, ConfirmJob, ReconcileJob, RefundJob, Found,
           Nothing
  <1>2. ConfirmKeyed /\ RefundFits
    BY DEF ConfirmKeyed, RefundFits, NoConfirm, NoRefund
  <1>3. RefundedWithinOrder
    BY DEF RefundedWithinOrder, NewOrder
  <1> QED
    BY <1>1, <1>2, <1>3 DEF IInv

\* A step that writes only confirmations and the list keeps the invariant if it
\* replaces one job by a well-formed one.
LEMMA ConfirmJobOK ==
  ASSUME IInv, NEW c \in Confirms, NEW job \in ConfirmJob, job.pc # "idle" => job.key \in Keys,
         confirm' = [confirm EXCEPT ![c] = job]
  PROVE  confirm' \in [Confirms -> ConfirmJob] /\ ConfirmKeyed'
  BY DEF IInv, TypeOK, ConfirmKeyed

\* What confirmations do not write.
OutsideConfirm == <<people, cancels, reconcile, refund>>

\* What a step of a confirmation has to show of the parts it writes.
LEMMA FromConfirm ==
  ASSUME IInv, OrderOK', CoinsOK', RefundedWithinOrder', ListedOK',
         pay' \in [Keys -> Payment], signals' \subseteq Signal,
         confirm' \in [Confirms -> ConfirmJob], ConfirmKeyed', UNCHANGED OutsideConfirm
  PROVE  IInv'
  BY DEF IInv, TypeOK, OrderOK, CoinsOK, ListedOK, RefundFits, OutsideConfirm, people

\* Each step of confirm_toss_payment keeps the invariant.
LEMMA ConfirmStepKeeps ==
  ASSUME IInv, NEW c \in Confirms, ConfirmStep(c)
  PROVE  IInv'
  <1> DEFINE k == confirm[c].key
             o == KeyOrder[k]
  <1>0. /\ TypeOK /\ RefundedWithinOrder /\ ConfirmKeyed
        /\ confirm[c] \in ConfirmJob /\ NoConfirm \in ConfirmJob /\ NoConfirm.pc = "idle"
    BY DEF IInv, TypeOK, NoConfirm, ConfirmJob, Replies
  <1>a. ASSUME confirm[c].pc # "idle" PROVE k \in Keys /\ o \in Orders
    BY <1>0, <1>a, InstanceAssumption DEF ConfirmKeyed
  <1>b. ASSUME UNCHANGED accounts PROVE OrderOK' /\ CoinsOK' /\ RefundedWithinOrder'
    BY <1>0, <1>b DEF accounts, TypeOK, OrderOK, CoinsOK, RefundedWithinOrder
  <1>c. ASSUME UNCHANGED vendor
        PROVE  pay' \in [Keys -> Payment] /\ signals' \subseteq Signal /\ cancels' = cancels
    BY <1>0, <1>c DEF vendor, TypeOK
  <1>d. ASSUME UNCHANGED <<listed, faults>> PROVE ListedOK'
    BY <1>0, <1>d DEF TypeOK, ListedOK
  <1>1. ASSUME NEW key \in Keys, ConfirmBegin(c, key) PROVE IInv'
    <2>1. [pc |-> "calling", key |-> key, reply |-> "none"] \in ConfirmJob
      BY DEF ConfirmJob, Replies
    <2>2. confirm' \in [Confirms -> ConfirmJob] /\ ConfirmKeyed'
      BY <1>1, <2>1, ConfirmJobOK DEF ConfirmBegin
    <2> QED
      BY <1>1, <1>b, <1>c, <1>d, <2>2, FromConfirm DEF ConfirmBegin, OutsideConfirm
  <1>2. CASE ConfirmRejected(c)
    <2>1. confirm' \in [Confirms -> ConfirmJob] /\ ConfirmKeyed'
      BY <1>0, <1>2, ConfirmJobOK DEF ConfirmRejected
    <2> QED
      BY <1>2, <1>b, <1>c, <1>d, <2>1, FromConfirm DEF ConfirmRejected, OutsideConfirm
  <1>3. CASE ConfirmUnknown(c)
    <2>1. k \in Keys
      BY <1>3, <1>a DEF ConfirmUnknown
    <2> DEFINE job == [confirm[c] EXCEPT !.pc = "resolving"]
    <2>2. job \in ConfirmJob /\ job.key = k /\ confirm' = [confirm EXCEPT ![c] = job]
      BY <1>0, <1>3 DEF ConfirmUnknown, ConfirmJob, TypeOK
    <2>3. confirm' \in [Confirms -> ConfirmJob] /\ ConfirmKeyed'
      BY <2>1, <2>2, ConfirmJobOK
    <2>4. ListedOK'
      BY <1>0, <1>3, <2>1, FileOK DEF ConfirmUnknown
    <2> QED
      BY <1>3, <1>b, <1>c, <2>3, <2>4, FromConfirm DEF ConfirmUnknown, OutsideConfirm
  <1>4. CASE ConfirmResolve(c)
    <2>1. k \in Keys
      BY <1>4, <1>a DEF ConfirmResolve
    <2> DEFINE job == [confirm[c] EXCEPT !.pc = "answered", !.reply = "DONE"]
    <2>2. job \in ConfirmJob /\ job.key = k
      BY <1>0 DEF ConfirmJob, Replies
    <2>3. \/ confirm' = [confirm EXCEPT ![c] = job] \/ confirm' = [confirm EXCEPT ![c] = NoConfirm]
      BY <1>0, <1>4 DEF ConfirmResolve, TypeOK
    <2>4. confirm' \in [Confirms -> ConfirmJob] /\ ConfirmKeyed'
      BY <1>0, <2>1, <2>2, <2>3, ConfirmJobOK
    <2>5. ListedOK'
      <3>1. CASE File({}, {k})
        BY <1>0, <3>1, FileOK
      <3>2. CASE UNCHANGED <<listed, faults>>
        BY <1>d, <3>2
      <3>3. CASE Fault("lookup") /\ UNCHANGED listed
        BY <1>0, <3>3, FaultOK DEF ListedOK, TypeOK
      <3> QED
        BY <1>4, <3>1, <3>2, <3>3 DEF ConfirmResolve
    <2> QED
      BY <1>4, <1>b, <1>c, <2>4, <2>5, FromConfirm DEF ConfirmResolve, OutsideConfirm
  <1>5. CASE ConfirmPending(c)
    <2>1. k \in Keys
      BY <1>5, <1>a DEF ConfirmPending
    <2>2. confirm' \in [Confirms -> ConfirmJob] /\ ConfirmKeyed'
      BY <1>0, <1>5, ConfirmJobOK DEF ConfirmPending
    <2>3. ListedOK'
      BY <1>0, <1>5, <2>1, FileOK DEF ConfirmPending
    <2> QED
      BY <1>5, <1>b, <1>c, <2>2, <2>3, FromConfirm DEF ConfirmPending, OutsideConfirm
  <1>6. CASE ConfirmApply(c)
    <2>1. k \in Keys /\ o \in Orders
      BY <1>6, <1>a DEF ConfirmApply
    <2>2. confirm' \in [Confirms -> ConfirmJob] /\ ConfirmKeyed'
      BY <1>0, <1>6, ConfirmJobOK DEF ConfirmApply
    <2>3. CASE Grant(o, "toss", k) /\ File({}, {k})
      <3>1. OrderOK' /\ CoinsOK' /\ RefundedWithinOrder'
        BY <1>0, <2>1, <2>3, GrantOK
      <3>2. ListedOK'
        BY <1>0, <2>3, FileOK
      <3> QED
        BY <1>6, <1>c, <2>2, <3>1, <3>2, FromConfirm DEF ConfirmApply, OutsideConfirm
    <2>4. CASE UNCHANGED accounts /\ File({k}, {})
      <3>1. ListedOK'
        BY <1>0, <2>1, <2>4, FileOK
      <3> QED
        BY <1>6, <1>b, <1>c, <2>2, <2>4, <3>1, FromConfirm DEF ConfirmApply, OutsideConfirm
    <2> QED
      BY <1>6, <2>3, <2>4 DEF ConfirmApply
  <1>7. CASE VendorConfirm(c)
    <2>1. k \in Keys /\ pay[k] \in Payment
      BY <1>0, <1>7, <1>a DEF VendorConfirm, TypeOK
    <2>2. ASSUME NEW reply \in Replies,
                 confirm' = [confirm EXCEPT ![c].pc = "answered", ![c].reply = reply]
          PROVE  confirm' \in [Confirms -> ConfirmJob] /\ ConfirmKeyed'
      <3> DEFINE job == [confirm[c] EXCEPT !.pc = "answered", !.reply = reply]
      <3>1. job \in ConfirmJob /\ job.key = k
        BY <1>0 DEF ConfirmJob
      <3>2. confirm' = [confirm EXCEPT ![c] = job]
        BY <1>0, <2>2 DEF TypeOK
      <3> QED
        BY <2>1, <3>1, <3>2, ConfirmJobOK
    <2>3. ASSUME NEW p \in Payment, pay' \in {pay, [pay EXCEPT ![k] = p]}
          PROVE  pay' \in [Keys -> Payment]
      BY <1>0, <2>3 DEF TypeOK
    <2>4. PICK a \in ConfirmAnswers(k) :
              \/ /\ pay' = [pay EXCEPT ![k] = a.pay]
                 /\ confirm' = [confirm EXCEPT ![c].pc = "answered", ![c].reply = a.reply]
                 /\ UNCHANGED faults
              \/ /\ Fault("unknown")
                 /\ pay' \in {pay, [pay EXCEPT ![k] = a.pay]}
                 /\ confirm' = [confirm EXCEPT ![c].pc = "answered", ![c].reply = "unknown"]
              \/ /\ Fault("reject") /\ pay[k].st = "IN_PROGRESS"
                 /\ pay' = [pay EXCEPT ![k].st = "ABORTED", ![k].first = "rejected"]
                 /\ confirm' = [confirm EXCEPT ![c].pc = "answered", ![c].reply = "rejected"]
      BY <1>7 DEF VendorConfirm
    <2>5. a.pay \in Payment /\ a.reply \in Replies /\ {"unknown", "rejected"} \subseteq Replies
      BY <1>0, <2>1, AnswerOK DEF Replies
    <2>6. confirm' \in [Confirms -> ConfirmJob] /\ ConfirmKeyed'
      BY <2>2, <2>4, <2>5
    <2> DEFINE aborted == [pay[k] EXCEPT !.st = "ABORTED", !.first = "rejected"]
    <2>7. aborted \in Payment
      BY <2>1 DEF Payment, PayStatus, Revoking, Revoked, Replies
    <2>8. \E p \in Payment : pay' \in {pay, [pay EXCEPT ![k] = p]}
      <3>1. CASE pay' \in {pay, [pay EXCEPT ![k] = a.pay]}
        BY <2>5, <3>1
      <3>2. CASE pay' = [pay EXCEPT ![k].st = "ABORTED", ![k].first = "rejected"]
        <4>1. pay' = [pay EXCEPT ![k] = aborted]
          BY <1>0, <3>2 DEF TypeOK
        <4> QED
          BY <2>7, <4>1
      <3> QED
        BY <2>4, <3>1, <3>2
    <2>9. pay' \in [Keys -> Payment]
      BY <2>3, <2>8
    <2>10. signals' \subseteq Signal
      BY <1>0, <1>7, <2>1, NotifyOK DEF VendorConfirm, TypeOK
    <2>11. listed' = listed /\ ListedOK'
      BY <1>0, <1>7, <2>4, FaultOK DEF VendorConfirm, ListedOK, TypeOK
    <2> QED
      BY <1>7, <1>b, <2>6, <2>9, <2>10, <2>11, FromConfirm DEF VendorConfirm, OutsideConfirm
  <1> QED
    BY <1>1, <1>2, <1>3, <1>4, <1>5, <1>6, <1>7 DEF ConfirmStep

-----------------------------------------------------------------------------
(* The steps of a refund.                                                  *)

\* What a refund in progress remembers of its order: it fits in the order.
JobFits(job) == job.pc # "idle" =>
    /\ job.order \in Orders /\ job.key \in Keys
    /\ job.want > 0
    /\ job.prev + job.want <= Amount[job.order]

\* A step that replaces one refund job by one that fits its order.
LEMMA RefundJobOK ==
  ASSUME IInv, NEW r \in Refunds, NEW job \in RefundJob, JobFits(job),
         refund' = [refund EXCEPT ![r] = job]
  PROVE  refund' \in [Refunds -> RefundJob] /\ RefundFits'
  BY DEF IInv, TypeOK, RefundFits, JobFits

OutsideRefund == <<people, confirm, reconcile>>

\* What a step of a refund has to show of the parts it writes.
LEMMA FromRefund ==
  ASSUME IInv, OrderOK', CoinsOK', RefundedWithinOrder', ListedOK',
         pay' \in [Keys -> Payment], signals' \subseteq Signal,
         cancels' \in [CancelKeys -> {"none", "DONE", "rejected"}],
         refund' \in [Refunds -> RefundJob], RefundFits', UNCHANGED OutsideRefund
  PROVE  IInv'
  BY DEF IInv, TypeOK, OrderOK, CoinsOK, ListedOK, ConfirmKeyed, OutsideRefund, people

\* POST /cancel leaves the payments, the replies by key and the signals typed.
LEMMA VendorCancelOK ==
  ASSUME TypeOK, NEW r \in Refunds, refund[r] \in RefundJob, JobFits(refund[r]),
         refund[r].pc # "idle", VendorCancel(r)
  PROVE  /\ pay' \in [Keys -> Payment] /\ signals' \subseteq Signal
         /\ cancels' \in [CancelKeys -> {"none", "DONE", "rejected"}]
         /\ listed' = listed /\ faults' \in 0..MaxFaults
         /\ \E reply \in Replies : Answered(r, reply)
  <1> DEFINE k == refund[r].key
             n == CancelAmount(r)
             i == CancelId(r)
  <1>1. k \in Keys /\ refund[r].order \in Orders /\ pay[k] \in Payment
    BY DEF JobFits, TypeOK
  <1>2. i \in CancelKeys
    <2>1. refund[r].prev + refund[r].want \in 1..Amount[refund[r].order]
      BY <1>1, InstanceAssumption DEF RefundJob, JobFits
    <2> QED
      BY <1>1, <2>1 DEF CancelId, CancelKeys
  <1>3. ASSUME NEW reply \in {"DONE", "rejected"}, Recorded(r, reply)
        PROVE  cancels' \in [CancelKeys -> {"none", "DONE", "rejected"}]
    BY <1>2, <1>3 DEF Recorded, TypeOK
  <1>4. ASSUME VendorCancels(r)
        PROVE  /\ pay' \in [Keys -> Payment] /\ signals' \subseteq Signal
               /\ cancels' \in [CancelKeys -> {"none", "DONE", "rejected"}]
    <2> DEFINE p == [pay[k] EXCEPT !.bal = @ - n,
                                   !.st = IF n = pay[k].bal THEN "CANCELED"
                                          ELSE "PARTIAL_CANCELED"]
    <2>1. pay[k].bal - n \in Nat
      BY <1>1, <1>4 DEF VendorCancels, Payment
    <2>2. p \in Payment
      BY <1>1, <2>1 DEF Payment, PayStatus, Revoking, Revoked
    <2>3. pay' = [pay EXCEPT ![k] = p]
      BY <1>1, <1>4 DEF VendorCancels, TypeOK
    <2>4. pay' \in [Keys -> Payment]
      BY <1>1, <2>2, <2>3 DEF TypeOK
    <2>5. Notify(k, {"status"}) /\ Recorded(r, "DONE")
      BY <1>4 DEF VendorCancels
    <2> QED
      BY <1>1, <1>3, <2>4, <2>5, NotifyOK
  <1>5. ASSUME UNCHANGED vendor
        PROVE  /\ pay' \in [Keys -> Payment] /\ signals' \subseteq Signal
               /\ cancels' \in [CancelKeys -> {"none", "DONE", "rejected"}]
    BY <1>5 DEF vendor, TypeOK
  <1>6. /\ pay' \in [Keys -> Payment] /\ signals' \subseteq Signal
        /\ cancels' \in [CancelKeys -> {"none", "DONE", "rejected"}]
    <2>1. CASE Recorded(r, "rejected") /\ UNCHANGED <<pay, signals>>
      BY <1>3, <2>1 DEF TypeOK
    <2>2. VendorCancels(r) \/ UNCHANGED vendor
            \/ (Recorded(r, "rejected") /\ UNCHANGED <<pay, signals>>)
      BY DEF VendorCancel
    <2> QED
      BY <1>4, <1>5, <2>1, <2>2
  <1>7. listed' = listed /\ faults' \in 0..MaxFaults
    <2>1. UNCHANGED faults \/ Fault("unknown") \/ Fault("reject")
      BY DEF VendorCancel
    <2> QED
      BY <2>1, FaultOK DEF VendorCancel, TypeOK
  <1>8. \E reply \in Replies : Answered(r, reply)
    <2>1. cancels[i] \in Replies /\ {"DONE", "unknown", "rejected"} \subseteq Replies
      BY <1>2 DEF TypeOK, Replies
    <2>2. Answered(r, cancels[i]) \/ Answered(r, "DONE") \/ Answered(r, "unknown")
            \/ Answered(r, "rejected")
      BY DEF VendorCancel
    <2> QED
      BY <2>1, <2>2
  <1> QED
    BY <1>6, <1>7, <1>8

\* Each step of refund_toss_payment keeps the invariant.
LEMMA RefundStepKeeps ==
  ASSUME IInv, NEW r \in Refunds, RefundStep(r)
  PROVE  IInv'
  <1> DEFINE j == refund[r]
             o == j.order
  <1>0. /\ TypeOK /\ RefundedWithinOrder /\ j \in RefundJob /\ JobFits(j)
        /\ NoRefund \in RefundJob /\ JobFits(NoRefund)
    BY DEF IInv, TypeOK, RefundFits, JobFits, NoRefund, RefundJob, Replies
  <1>a. ASSUME j.pc # "idle"
        PROVE  /\ o \in Orders /\ Owner[o] \in Users /\ j.want \in Nat /\ j.prev \in Nat
               /\ Amount[o] \in Nat /\ j.prev + j.want <= Amount[o] /\ order[o] \in OrderRow
               /\ topup[Owner[o]] \in Nat
    BY <1>0, <1>a, OwnerType DEF JobFits, RefundJob, TypeOK
  <1>b. ASSUME UNCHANGED accounts PROVE OrderOK' /\ CoinsOK' /\ RefundedWithinOrder'
    BY <1>0, <1>b DEF accounts, TypeOK, OrderOK, CoinsOK, RefundedWithinOrder
  <1>c. ASSUME UNCHANGED vendor
        PROVE  /\ pay' \in [Keys -> Payment] /\ signals' \subseteq Signal
               /\ cancels' \in [CancelKeys -> {"none", "DONE", "rejected"}]
    BY <1>0, <1>c DEF vendor, TypeOK
  <1>d. ASSUME UNCHANGED <<listed, faults>> PROVE ListedOK'
    BY <1>0, <1>d DEF TypeOK, ListedOK
  <1>e. ASSUME refund' = [refund EXCEPT ![r] = NoRefund]
        PROVE  refund' \in [Refunds -> RefundJob] /\ RefundFits'
    BY <1>0, <1>e, RefundJobOK
  <1>1. ASSUME NEW o2 \in Orders, NEW want \in 1..Amount[o2], RefundBegin(r, o2, want)
        PROVE  IInv'
    <2> DEFINE job == [pc |-> "read", order |-> o2, key |-> order[o2].ref, want |-> want,
                       prev |-> order[o2].refunded, reply |-> "none"]
    <2>1. /\ order[o2] \in OrderRow /\ order[o2].ref \in Keys
          /\ Amount[o2] \in Nat /\ topup[Owner[o2]] \in Nat /\ want \in 1..Refundable(o2)
      BY <1>0, <1>1, OwnerType DEF RefundBegin, TypeOK, OrderRow
    <2>2. want \in Nat /\ want > 0 /\ order[o2].refunded \in Nat
      BY <2>1 DEF OrderRow
    <2>3. order[o2].refunded + want <= Amount[o2]
      BY <2>1, <2>2 DEF Refundable, LeastOf
    <2>4. job \in RefundJob /\ JobFits(job)
      BY <2>1, <2>2, <2>3 DEF RefundJob, JobFits, Replies
    <2>5. refund' \in [Refunds -> RefundJob] /\ RefundFits'
      BY <1>1, <2>4, RefundJobOK DEF RefundBegin
    <2> QED
      BY <1>1, <1>b, <1>c, <1>d, <2>5, FromRefund DEF RefundBegin, OutsideRefund
  <1>2. CASE RefundCommit(r)
    <2>0. o \in Orders /\ Owner[o] \in Users /\ j.want \in Nat /\ j.prev \in Nat
          /\ Amount[o] \in Nat /\ j.prev + j.want <= Amount[o] /\ order[o] \in OrderRow
          /\ topup[Owner[o]] \in Nat
      BY <1>2, <1>a DEF RefundCommit
    <2>1. CASE /\ topup[Owner[o]] >= j.want
               /\ Credit(o, -j.want)
               /\ order' = [order EXCEPT
                              ![o].refunded = j.prev + j.want,
                              ![o].status = IF j.prev + j.want >= Amount[o]
                                            THEN "refunded" ELSE @]
               /\ refund' = [refund EXCEPT ![r].pc = "calling"]
      <3> DEFINE row == [order[o] EXCEPT !.refunded = j.prev + j.want,
                                         !.status = IF j.prev + j.want >= Amount[o]
                                                    THEN "refunded" ELSE @]
                 job == [j EXCEPT !.pc = "calling"]
      <3>1. CoinsOK'
        <4>1. -j.want \in Int /\ topup[Owner[o]] + (-j.want) >= 0
          BY <2>0, <2>1
        <4> QED
          BY <1>0, <2>0, <2>1, <4>1, CreditOK
      <3>2. row \in OrderRow /\ row.refunded <= Amount[o]
        <4> DEFINE n == j.prev + j.want
                   status == IF n >= Amount[o] THEN "refunded" ELSE order[o].status
        <4>1. n \in Nat /\ n <= Amount[o] /\ status \in OrderStatus
          BY <2>0 DEF OrderRow, OrderStatus
        <4>2. row = [order[o] EXCEPT !.refunded = n, !.status = status]
          OBVIOUS
        <4> HIDE DEF n, status, row
        <4> QED
          BY <2>0, <4>1, <4>2, RefundedRowOK
      <3>3. order' = [order EXCEPT ![o] = row]
        BY <1>0, <2>0, <2>1 DEF TypeOK
      <3>4. OrderOK' /\ RefundedWithinOrder'
        BY <1>0, <2>0, <3>2, <3>3, RowOK
      <3>5. job \in RefundJob /\ JobFits(job)
        BY <1>0, <1>2 DEF RefundCommit, RefundJob, JobFits
      <3>6. refund' = [refund EXCEPT ![r] = job]
        BY <1>0, <2>1 DEF TypeOK
      <3>7. refund' \in [Refunds -> RefundJob] /\ RefundFits'
        BY <3>5, <3>6, RefundJobOK
      <3> QED
        BY <1>2, <1>c, <1>d, <3>1, <3>4, <3>7, FromRefund DEF RefundCommit, OutsideRefund
    <2>2. CASE refund' = [refund EXCEPT ![r] = NoRefund] /\ UNCHANGED accounts
      BY <1>2, <1>b, <1>c, <1>d, <1>e, <2>2, FromRefund DEF RefundCommit, OutsideRefund
    <2> QED
      BY <1>2, <2>1, <2>2 DEF RefundCommit
  <1>3. CASE RefundDone(r)
    BY <1>3, <1>b, <1>c, <1>d, <1>e, FromRefund DEF RefundDone, OutsideRefund
  <1>4. CASE RefundRevert(r)
    <2>0. o \in Orders /\ Owner[o] \in Users /\ j.want \in Nat /\ j.prev \in Nat
          /\ Amount[o] \in Nat /\ j.prev + j.want <= Amount[o] /\ order[o] \in OrderRow
          /\ topup[Owner[o]] \in Nat
      BY <1>4, <1>a DEF RefundRevert
    <2>1. CoinsOK'
      BY <1>0, <1>4, <2>0, CreditOK DEF RefundRevert
    <2>2. OrderOK' /\ RefundedWithinOrder' /\ ListedOK'
      <3>1. CASE /\ order' = [order EXCEPT ![o].refunded = j.prev,
                                           ![o].status = IF j.prev <= 0 THEN "paid" ELSE @]
                 /\ UNCHANGED <<listed, faults>>
        <4> DEFINE row == [order[o] EXCEPT !.refunded = j.prev,
                                           !.status = IF j.prev <= 0 THEN "paid" ELSE @]
        <4>1. row \in OrderRow /\ row.refunded <= Amount[o]
          <5> DEFINE status == IF j.prev <= 0 THEN "paid" ELSE order[o].status
          <5>1. j.prev \in Nat /\ j.prev <= Amount[o] /\ status \in OrderStatus
            BY <2>0 DEF OrderRow, OrderStatus
          <5>2. row = [order[o] EXCEPT !.refunded = j.prev, !.status = status]
            OBVIOUS
          <5> HIDE DEF status, row
          <5> QED
            BY <2>0, <5>1, <5>2, RefundedRowOK
        <4>2. order' = [order EXCEPT ![o] = row]
          BY <1>0, <2>0, <3>1 DEF TypeOK
        <4>3. OrderOK' /\ RefundedWithinOrder'
          BY <1>0, <2>0, <4>1, <4>2, RowOK
        <4> QED
          BY <1>d, <3>1, <4>3
      <3>2. CASE File({o}, {}) /\ UNCHANGED order
        <4>1. ListedOK'
          BY <1>0, <2>0, <3>2, FileOK
        <4> QED
          BY <1>0, <3>2, <4>1 DEF TypeOK, OrderOK, RefundedWithinOrder
      <3> QED
        BY <1>4, <3>1, <3>2 DEF RefundRevert
    <2> QED
      BY <1>4, <1>c, <1>e, <2>1, <2>2, FromRefund DEF RefundRevert, OutsideRefund
  <1>5. CASE VendorCancel(r)
    <2>1. j.pc = "calling"
      BY <1>5 DEF VendorCancel
    <2>2. /\ pay' \in [Keys -> Payment] /\ signals' \subseteq Signal
          /\ cancels' \in [CancelKeys -> {"none", "DONE", "rejected"}]
          /\ listed' = listed /\ faults' \in 0..MaxFaults
          /\ \E reply \in Replies : Answered(r, reply)
      BY <1>0, <1>5, <2>1, VendorCancelOK
    <2>3. PICK reply \in Replies : Answered(r, reply)
      BY <2>2
    <2> DEFINE job == [j EXCEPT !.pc = "answered", !.reply = reply]
    <2>4. job \in RefundJob /\ JobFits(job)
      BY <1>0, <2>1 DEF RefundJob, JobFits
    <2>5. refund' = [refund EXCEPT ![r] = job]
      BY <1>0, <2>3 DEF Answered, TypeOK
    <2>6. refund' \in [Refunds -> RefundJob] /\ RefundFits'
      BY <2>4, <2>5, RefundJobOK
    <2>7. ListedOK'
      BY <1>0, <2>2 DEF ListedOK, TypeOK
    <2> QED
      BY <1>5, <1>b, <2>2, <2>6, <2>7, FromRefund DEF VendorCancel, OutsideRefund
  <1> QED
    BY <1>1, <1>2, <1>3, <1>4, <1>5 DEF RefundStep

-----------------------------------------------------------------------------
(* The steps of a reconciliation.                                          *)

\* A step that replaces one reconciliation by a typed one.
LEMMA ReconcileJobOK ==
  ASSUME TypeOK, NEW o \in Orders, NEW job \in ReconcileJob,
         reconcile' = [reconcile EXCEPT ![o] = job]
  PROVE  reconcile' \in [Orders -> ReconcileJob]
  BY DEF TypeOK

OutsideReconcile == <<people, pay, cancels, confirm, refund>>

\* What a step of a reconciliation has to show of the parts it writes.
LEMMA FromReconcile ==
  ASSUME IInv, OrderOK', CoinsOK', RefundedWithinOrder', ListedOK', signals' \subseteq Signal,
         reconcile' \in [Orders -> ReconcileJob], UNCHANGED OutsideReconcile
  PROVE  IInv'
  BY DEF IInv, TypeOK, OrderOK, CoinsOK, ListedOK, ConfirmKeyed, RefundFits, OutsideReconcile,
         people

\* Every call starts from the row as it is and nothing fetched.
LEMMA ReconcileBeginOK ==
  ASSUME TypeOK, NEW o \in Orders, NEW item \in Keys \cup Orders \cup {NoKey},
         ReconcileBegin(o, item)
  PROVE  reconcile' \in [Orders -> ReconcileJob]
  <1> DEFINE job == [pc |-> "fetching", item |-> item, row |-> order[o], got |-> Nothing]
  <1>1. job \in ReconcileJob
    BY DEF TypeOK, ReconcileJob, Found, Nothing, PayStatus
  <1> QED
    BY <1>1, ReconcileJobOK DEF ReconcileBegin

\* Each step of reconcile_order keeps the invariant.
LEMMA ReconcileWorkKeeps ==
  ASSUME IInv, NEW o \in Orders, ReconcileWork(o)
  PROVE  IInv'
  <1> DEFINE j == reconcile[o]
  <1>0. /\ TypeOK /\ RefundedWithinOrder /\ j \in ReconcileJob /\ NoReconcile \in ReconcileJob
        /\ order[o] \in OrderRow /\ order[o].refunded <= Amount[o]
    BY DEF IInv, TypeOK, RefundedWithinOrder, NoReconcile, ReconcileJob, NewOrder, OrderRow,
           OrderStatus, Found, Nothing, PayStatus
  <1>b. ASSUME UNCHANGED accounts PROVE OrderOK' /\ CoinsOK' /\ RefundedWithinOrder'
    BY <1>0, <1>b DEF accounts, TypeOK, OrderOK, CoinsOK, RefundedWithinOrder
  <1>c. ASSUME UNCHANGED vendor PROVE UNCHANGED <<pay, cancels>> /\ signals' \subseteq Signal
    BY <1>0, <1>c DEF vendor, TypeOK
  <1>e. ASSUME Finish(o)
        PROVE  /\ reconcile' \in [Orders -> ReconcileJob] /\ signals' \subseteq Signal
               /\ UNCHANGED OutsideReconcile
    BY <1>0, <1>c, <1>e, ReconcileJobOK DEF Finish, OutsideReconcile
  <1>1. CASE ReconcileFetch(o)
    <2> DEFINE Answer(f) == reconcile' = [reconcile EXCEPT ![o].pc = "deciding", ![o].got = f]
               Told(k) == [key |-> k, st |-> pay[k].st, bal |-> pay[k].bal]
    <2>1. ASSUME NEW f \in Found, Answer(f) PROVE reconcile' \in [Orders -> ReconcileJob]
      <3> DEFINE job == [j EXCEPT !.pc = "deciding", !.got = f]
      <3>1. job \in ReconcileJob
        BY <1>0 DEF ReconcileJob
      <3>2. reconcile' = [reconcile EXCEPT ![o] = job]
        BY <1>0, <2>1 DEF TypeOK
      <3> QED
        BY <1>0, <3>1, <3>2, ReconcileJobOK
    <2>2. Nothing \in Found
      BY DEF Nothing, Found, PayStatus
    <2>3. ASSUME NEW k \in Keys PROVE Told(k) \in Found
      BY <1>0 DEF TypeOK, Payment, Found
    <2>4. \A ref : Lookup(o, ref) \subseteq Keys
      BY DEF Lookup, KeysOf
    <2>5. /\ \/ Answer(Nothing) \/ \E k \in Keys : Answer(Told(k))
          /\ UNCHANGED faults \/ Fault("outage")
      BY <1>1, <2>4 DEF ReconcileFetch
    <2>6. reconcile' \in [Orders -> ReconcileJob]
      BY <2>1, <2>2, <2>3, <2>5
    <2>7. ListedOK'
      BY <1>0, <1>1, <2>5, FaultOK DEF ReconcileFetch, ListedOK, TypeOK
    <2> QED
      BY <1>1, <1>b, <1>c, <2>6, <2>7, FromReconcile DEF ReconcileFetch, OutsideReconcile
  <1>2. CASE ReconcileGrant(o)
    <2>1. Finish(o) /\ j.got.key \in Keys
      BY <1>0, <1>2 DEF ReconcileGrant, ReconcileJob, Found
    <2>2. CASE Grant(o, "toss", j.got.key) /\ File({}, {j.got.key})
      <3>1. OrderOK' /\ CoinsOK' /\ RefundedWithinOrder'
        BY <1>0, <2>1, <2>2, GrantOK
      <3>2. ListedOK'
        BY <1>0, <2>2, FileOK
      <3> QED
        BY <1>e, <2>1, <3>1, <3>2, FromReconcile
    <2>3. CASE UNCHANGED <<accounts, listed, faults>>
      <3>1. ListedOK'
        BY <1>0, <2>3 DEF ListedOK, TypeOK
      <3> QED
        BY <1>b, <1>e, <2>1, <2>3, <3>1, FromReconcile
    <2> QED
      BY <1>2, <2>2, <2>3 DEF ReconcileGrant
  <1>3. CASE ReconcileClaw(o)
    <2>1. Finish(o) /\ ClawTarget(o, j) > 0 /\ Clawback(o, ClawTarget(o, j))
      BY <1>3 DEF ReconcileClaw, Overpaid
    <2>2. ClawTarget(o, j) \in Int
      BY <1>0, OwnerType DEF ClawTarget, VendorRemaining, ReconcileJob, Found, OrderRow
    <2>3. CoinsOK'
      BY <1>0, <2>1, <2>2, ClawbackOK
    <2> DEFINE row == [order[o] EXCEPT !.status = "pending"]
    <2>4. row \in OrderRow /\ row.refunded <= Amount[o]
      BY <1>0 DEF OrderRow, OrderStatus
    <2>5. order' = [order EXCEPT ![o] = row]
      BY <1>0, <1>3 DEF ReconcileClaw, TypeOK
    <2>6. OrderOK' /\ RefundedWithinOrder'
      BY <1>0, <2>4, <2>5, RowOK
    <2>7. ListedOK'
      BY <1>0, <1>3, FileOK DEF ReconcileClaw
    <2> QED
      BY <1>e, <2>1, <2>3, <2>6, <2>7, FromReconcile
  <1>4. CASE ReconcileConsistent(o)
    <2>1. ListedOK'
      BY <1>0, <1>4, FileOK DEF ReconcileConsistent
    <2> QED
      BY <1>4, <1>b, <1>e, <2>1, FromReconcile DEF ReconcileConsistent
  <1> QED
    BY <1>1, <1>2, <1>3, <1>4 DEF ReconcileWork

\* The three ways a reconciliation starts.
LEMMA ReconcileStartKeeps ==
  ASSUME IInv,
         \/ \E o \in Orders : AdminReconcile(o)
         \/ \E i \in Keys \cup Orders : SchedulerReconcile(i)
         \/ \E s \in Signal : WebhookReconcile(s)
  PROVE  IInv'
  <1>0. TypeOK /\ RefundedWithinOrder
    BY DEF IInv
  <1>b. ASSUME UNCHANGED accounts PROVE OrderOK' /\ CoinsOK' /\ RefundedWithinOrder'
    BY <1>0, <1>b DEF accounts, TypeOK, OrderOK, CoinsOK, RefundedWithinOrder
  <1>c. ASSUME UNCHANGED vendor PROVE UNCHANGED <<pay, cancels>> /\ signals' \subseteq Signal
    BY <1>0, <1>c DEF vendor, TypeOK
  <1>d. ASSUME UNCHANGED <<listed, faults>> PROVE ListedOK'
    BY <1>0, <1>d DEF TypeOK, ListedOK
  <1>1. ASSUME NEW o \in Orders, AdminReconcile(o) PROVE IInv'
    <2>1. reconcile' \in [Orders -> ReconcileJob]
      BY <1>0, <1>1, ReconcileBeginOK DEF AdminReconcile
    <2> QED
      BY <1>1, <1>b, <1>c, <1>d, <2>1, FromReconcile DEF AdminReconcile, OutsideReconcile
  <1>2. ASSUME NEW i \in Keys \cup Orders, SchedulerReconcile(i) PROVE IInv'
    <2>1. (IF i \in Keys THEN KeyOrder[i] ELSE i) \in Orders
      BY InstanceAssumption
    <2>2. reconcile' \in [Orders -> ReconcileJob]
      BY <1>0, <1>2, <2>1, ReconcileBeginOK DEF SchedulerReconcile
    <2> QED
      BY <1>2, <1>b, <1>c, <1>d, <2>2, FromReconcile DEF SchedulerReconcile, OutsideReconcile
  <1>3. ASSUME NEW s \in Signal, WebhookReconcile(s) PROVE IInv'
    <2>1. s.order \in Orders
      BY DEF Signal
    <2>2. reconcile' \in [Orders -> ReconcileJob]
      BY <1>0, <1>3, <2>1, ReconcileBeginOK DEF WebhookReconcile
    <2>3. ListedOK' /\ signals' \subseteq Signal
      BY <1>0, <1>3, FileOK DEF WebhookReconcile, TypeOK
    <2> QED
      BY <1>3, <1>b, <2>2, <2>3, FromReconcile DEF WebhookReconcile, OutsideReconcile
  <1> QED
    BY <1>1, <1>2, <1>3

-----------------------------------------------------------------------------
(* Customers, administrators, the vendor's own steps, and crashes.         *)

\* What the steps of people leave alone.
OutsidePeople == <<vendor, confirm, reconcile, refund, listed, faults>>

\* What a step of a user or of staff has to show of the parts it writes.
LEMMA FromPeople ==
  ASSUME IInv, OrderOK', CoinsOK', RefundedWithinOrder', used' \in [Users -> Nat],
         bank' \in [Orders -> Nat], withdrawn' \subseteq Users, UNCHANGED OutsidePeople
  PROVE  IInv'
  BY DEF IInv, TypeOK, OrderOK, CoinsOK, ConfirmKeyed, RefundFits, OutsidePeople, vendor

\* The steps of users and staff keep the invariant.
LEMMA PeopleKeep ==
  ASSUME IInv,
         \/ \E o \in Orders : CancelOrder(o) \/ ManualConfirm(o)
         \/ \E u \in Users : Spend(u) \/ Withdraw(u)
         \/ PurgeBuyers
  PROVE  IInv'
  <1>0. TypeOK /\ RefundedWithinOrder /\ OrderOK /\ CoinsOK
    BY DEF IInv, TypeOK, OrderOK, CoinsOK
  <1>1. ASSUME NEW o \in Orders, CancelOrder(o) PROVE IInv'
    <2> DEFINE row == [order[o] EXCEPT !.status = "canceled"]
    <2>1. row \in OrderRow /\ row.refunded <= Amount[o]
      BY <1>0 DEF OrderOK, OrderRow, OrderStatus, RefundedWithinOrder
    <2>2. order' = [order EXCEPT ![o] = row]
      BY <1>0, <1>1 DEF CancelOrder, OrderOK
    <2>3. OrderOK' /\ RefundedWithinOrder'
      BY <1>0, <2>1, <2>2, RowOK
    <2> QED
      BY <1>0, <1>1, <2>3, FromPeople DEF CancelOrder, OutsidePeople, CoinsOK, TypeOK, people
  <1>2. ASSUME NEW o \in Orders, ManualConfirm(o) PROVE IInv'
    <2>1. OrderOK' /\ CoinsOK' /\ RefundedWithinOrder'
      BY <1>0, <1>2, GrantOK DEF ManualConfirm
    <2>2. bank' \in [Orders -> Nat]
      BY <1>0, <1>2, OwnerType DEF ManualConfirm, TypeOK
    <2> QED
      BY <1>0, <1>2, <2>1, <2>2, FromPeople DEF ManualConfirm, OutsidePeople, TypeOK
  <1>3. ASSUME NEW u \in Users, Spend(u) PROVE IInv'
    <2>1. topup' \in [Users -> Nat] /\ used' \in [Users -> Nat]
      BY <1>0, <1>3 DEF Spend, TypeOK
    <2> QED
      BY <1>0, <1>3, <2>1, FromPeople DEF Spend, OutsidePeople, OrderOK, CoinsOK, TypeOK,
         RefundedWithinOrder
  <1>4. ASSUME NEW u \in Users, Withdraw(u) PROVE IInv'
    BY <1>0, <1>4, FromPeople DEF Withdraw, OutsidePeople, OrderOK, CoinsOK, TypeOK,
       RefundedWithinOrder, accounts
  <1>5. CASE PurgeBuyers
    <2>1. \A o \in Orders : /\ order'[o] \in OrderRow
                            /\ order'[o].refunded = order[o].refunded
      BY <1>0, <1>5 DEF PurgeBuyers, OrderOK, OrderRow
    <2>2. OrderOK' /\ RefundedWithinOrder'
      BY <1>0, <1>5, <2>1 DEF PurgeBuyers, OrderOK, RefundedWithinOrder
    <2> QED
      BY <1>0, <1>5, <2>2, FromPeople DEF PurgeBuyers, OutsidePeople, CoinsOK, TypeOK, people
  <1> QED
    BY <1>1, <1>2, <1>3, <1>4, <1>5

\* What the vendor's own steps leave alone.
OutsideVendor == <<accounts, people, cancels, confirm, reconcile, refund, listed>>

\* What a step of the vendor has to show of the parts it writes.
LEMMA FromVendor ==
  ASSUME IInv, pay' \in [Keys -> Payment], signals' \subseteq Signal, faults' \in 0..MaxFaults,
         UNCHANGED OutsideVendor
  PROVE  IInv'
  BY DEF IInv, TypeOK, RefundedWithinOrder, ConfirmKeyed, RefundFits, OutsideVendor, accounts,
         people

\* The vendor's own steps keep the invariant.
LEMMA VendorKeeps ==
  ASSUME IInv,
         \/ \E k \in Keys : PaymentStep(k)
         \/ \E s \in Signal : LoseWebhook(s)
  PROVE  IInv'
  <1>0. TypeOK /\ faults \in 0..MaxFaults /\ signals \subseteq Signal /\ pay \in [Keys -> Payment]
    BY DEF IInv, TypeOK
  <1>1. ASSUME NEW k \in Keys, NEW st \in PayStatus, NEW bal \in Nat,
               pay' = [pay EXCEPT ![k].st = st, ![k].bal = bal]
        PROVE  pay' \in [Keys -> Payment]
    <2>1. [pay[k] EXCEPT !.st = st, !.bal = bal] \in Payment
      BY <1>0 DEF Payment
    <2> QED
      BY <1>0, <1>1, <2>1
  <1>2. ASSUME NEW k \in Keys, NEW st \in PayStatus, pay' = [pay EXCEPT ![k].st = st]
        PROVE  pay' \in [Keys -> Payment]
    <2>1. [pay[k] EXCEPT !.st = st] \in Payment
      BY <1>0 DEF Payment
    <2> QED
      BY <1>0, <1>2, <2>1
  <1>3. {"IN_PROGRESS", "DONE", "ABORTED", "CANCELED", "WAITING_FOR_DEPOSIT"} \subseteq PayStatus
    BY DEF PayStatus, Revoking, Revoked
  <1>4. ASSUME NEW k \in Keys, OpenWindow(k) PROVE IInv'
    BY <1>0, <1>2, <1>3, <1>4, FromVendor DEF OpenWindow, OutsideVendor
  <1>5. ASSUME NEW k \in Keys, Deposit(k) PROVE IInv'
    <2>1. Amount[KeyOrder[k]] \in Nat
      BY InstanceAssumption
    <2>2. pay' \in [Keys -> Payment]
      BY <1>1, <1>3, <1>5, <2>1 DEF Deposit
    <2>3. signals' \subseteq Signal
      BY <1>0, <1>5, NotifyOK DEF Deposit
    <2> QED
      BY <1>0, <1>5, <2>2, <2>3, FromVendor DEF Deposit, OutsideVendor
  <1>6. ASSUME NEW k \in Keys, VendorRevoke(k) PROVE IInv'
    <2>1. pay' \in [Keys -> Payment]
      BY <1>1, <1>3, <1>6 DEF VendorRevoke
    <2>2. signals' \subseteq Signal /\ faults' \in 0..MaxFaults
      BY <1>0, <1>6, NotifyOK, FaultOK DEF VendorRevoke
    <2> QED
      BY <1>6, <2>1, <2>2, FromVendor DEF VendorRevoke, OutsideVendor
  <1>7. ASSUME NEW k \in Keys, Expire(k) PROVE IInv'
    <2>1. pay' \in [Keys -> Payment]
      BY <1>2, <1>3, <1>7 DEF Expire
    <2>2. signals' \subseteq Signal
      BY <1>0, <1>7, NotifyOK DEF Expire
    <2> QED
      BY <1>0, <1>7, <2>1, <2>2, FromVendor DEF Expire, OutsideVendor
  <1>8. ASSUME NEW s \in Signal, LoseWebhook(s) PROVE IInv'
    <2>1. faults' \in 0..MaxFaults /\ signals' \subseteq Signal
      BY <1>0, <1>8, FaultOK DEF LoseWebhook
    <2> QED
      BY <1>0, <1>8, <2>1, FromVendor DEF LoseWebhook, OutsideVendor
  <1> QED
    BY <1>4, <1>5, <1>6, <1>7, <1>8 DEF PaymentStep

\* A crash forgets requests in progress and nothing else.
LEMMA CrashKeeps ==
  ASSUME IInv, Crash
  PROVE  IInv'
  <1>0. /\ TypeOK /\ faults' \in 0..MaxFaults
        /\ NoConfirm \in ConfirmJob /\ NoConfirm.pc = "idle"
        /\ NoRefund \in RefundJob /\ NoRefund.pc = "idle"
        /\ NoReconcile \in ReconcileJob
    BY FaultOK DEF IInv, Crash, NoConfirm, NoRefund, NoReconcile, ConfirmJob, RefundJob,
           ReconcileJob, Replies, NewOrder, OrderRow, OrderStatus, Found, Nothing, PayStatus
  <1>1. confirm' \in [Confirms -> ConfirmJob] /\ ConfirmKeyed'
    BY <1>0 DEF IInv, TypeOK, ConfirmKeyed, Crash
  <1>2. refund' \in [Refunds -> RefundJob] /\ RefundFits'
    BY <1>0 DEF IInv, TypeOK, RefundFits, Crash
  <1>3. reconcile' \in [Orders -> ReconcileJob]
    BY <1>0 DEF TypeOK, Crash
  <1> QED
    BY <1>0, <1>1, <1>2, <1>3 DEF IInv, TypeOK, RefundedWithinOrder, Crash, accounts, people, vendor

-----------------------------------------------------------------------------
(* The theorems.                                                           *)

\* Every step keeps the invariant.
LEMMA IInvNext == IInv /\ [Next]_vars => IInv'
  <1> SUFFICES ASSUME IInv, [Next]_vars PROVE IInv'
    OBVIOUS
  <1>1. CASE UNCHANGED vars
    BY <1>1 DEF IInv, TypeOK, ConfirmKeyed, RefundFits, RefundedWithinOrder, vars
  <1>2. CASE Next
    BY <1>2, ConfirmStepKeeps, RefundStepKeeps, ReconcileWorkKeeps, ReconcileStartKeeps,
       PeopleKeep, VendorKeeps, CrashKeeps DEF Next
  <1> QED
    BY <1>1, <1>2

\* The strengthened invariant holds in every reachable state.
THEOREM Invariance == Spec => []IInv
  BY IInvInit, IInvNext, PTL DEF Spec

\* Every handler leaves rows, balances, payments and requests well formed: a
\* balance never goes below zero, whatever is refunded, reverted or clawed back.
THEOREM TypeCorrect == Spec => []TypeOK
  <1>1. IInv => TypeOK
    BY DEF IInv
  <1> QED
    BY <1>1, Invariance, PTL

\* The refunds recorded on an order never exceed what was paid for it, however
\* refunds, their reverts and reconciliations of the order interleave.
THEOREM RefundsFit == Spec => []RefundedWithinOrder
  <1>1. IInv => RefundedWithinOrder
    BY DEF IInv
  <1> QED
    BY <1>1, Invariance, PTL

-----------------------------------------------------------------------------
(* The ledger explains the balance.                                        *)

\* A credit of any sign is entered in the balance and in the ledger alike.
LEMMA LedgerCredit ==
  ASSUME TypeOK, LedgerMatchesBalance, NEW o \in Orders, NEW n \in Int, Credit(o, n), used' = used
  PROVE  LedgerMatchesBalance'
  BY OwnerType DEF TypeOK, LedgerMatchesBalance, Credit

\* So a clawback, which is floored before it is entered, is too.
LEMMA LedgerClawback ==
  ASSUME TypeOK, LedgerMatchesBalance, NEW o \in Orders, NEW n \in Int, Clawback(o, n),
         used' = used
  PROVE  LedgerMatchesBalance'
  <1>1. -LeastOf(n, topup[Owner[o]]) \in Int
    BY OwnerType DEF TypeOK, LeastOf
  <1> QED
    BY <1>1, LedgerCredit DEF Clawback

\* Every step keeps the ledger in line with the balance.
LEMMA LedgerNext ==
  ASSUME IInv, LedgerMatchesBalance, [Next]_vars
  PROVE  LedgerMatchesBalance'
  <1>0. TypeOK /\ ConfirmKeyed /\ RefundFits
    BY DEF IInv
  <1>a. ASSUME UNCHANGED <<topup, used, ledger>> PROVE LedgerMatchesBalance'
    BY <1>a DEF LedgerMatchesBalance
  <1>1. ASSUME NEW c \in Confirms, ConfirmStep(c) PROVE LedgerMatchesBalance'
    <2>1. CASE ConfirmApply(c)
      <3> DEFINE k == confirm[c].key
                 o == KeyOrder[k]
      <3>1. o \in Orders
        BY <1>0, <2>1, InstanceAssumption DEF ConfirmKeyed, ConfirmApply
      <3>2. used' = used /\ ((UNCHANGED accounts) \/ Credit(o, Amount[o]))
        BY <2>1 DEF ConfirmApply, Grant, people
      <3> QED
        BY <1>0, <1>a, <3>1, <3>2, OwnerType, LedgerCredit DEF accounts
    <2> QED
      BY <1>1, <1>a, <2>1 DEF ConfirmStep, ConfirmBegin, ConfirmRejected, ConfirmUnknown,
         ConfirmResolve, ConfirmPending, VendorConfirm, accounts, people
  <1>2. ASSUME NEW r \in Refunds, RefundStep(r) PROVE LedgerMatchesBalance'
    <2> DEFINE o == refund[r].order
    <2>1. CASE RefundCommit(r) \/ RefundRevert(r)
      <3>1. o \in Orders /\ refund[r].want \in Int /\ -refund[r].want \in Int
        BY <1>0, <2>1 DEF RefundFits, RefundCommit, RefundRevert, TypeOK, RefundJob
      <3>2. /\ used' = used
            /\ \/ UNCHANGED accounts
               \/ Credit(o, refund[r].want)
               \/ Credit(o, -refund[r].want)
        BY <2>1 DEF RefundCommit, RefundRevert, people
      <3> QED
        BY <1>0, <1>a, <3>1, <3>2, LedgerCredit DEF accounts
    <2> QED
      BY <1>2, <1>a, <2>1 DEF RefundStep, RefundBegin, RefundDone, VendorCancel, accounts, people
  <1>3. ASSUME NEW o \in Orders, ReconcileWork(o) PROVE LedgerMatchesBalance'
    <2>1. CASE ReconcileClaw(o)
      <3>1. /\ ClawTarget(o, reconcile[o]) \in Int /\ used' = used
            /\ Clawback(o, ClawTarget(o, reconcile[o]))
        BY <1>0, <2>1, OwnerType DEF ReconcileClaw, Finish, people, ClawTarget, VendorRemaining,
           TypeOK, ReconcileJob, Found, OrderRow
      <3> QED
        BY <1>0, <3>1, LedgerClawback
    <2>2. CASE ReconcileGrant(o)
      <3>1. used' = used /\ ((UNCHANGED accounts) \/ Credit(o, Amount[o]))
        BY <2>2 DEF ReconcileGrant, Finish, Grant, people
      <3> QED
        BY <1>0, <1>a, <3>1, OwnerType, LedgerCredit DEF accounts
    <2> QED
      BY <1>3, <1>a, <2>1, <2>2 DEF ReconcileWork, ReconcileFetch, ReconcileConsistent, Finish,
         accounts, people
  <1>4. ASSUME NEW o \in Orders, ManualConfirm(o) PROVE LedgerMatchesBalance'
    BY <1>0, <1>4, OwnerType, LedgerCredit DEF ManualConfirm, Grant
  <1>5. ASSUME NEW u \in Users, Spend(u) PROVE LedgerMatchesBalance'
    BY <1>0, <1>5 DEF Spend, LedgerMatchesBalance, TypeOK
  <1>6. CASE \/ \E o \in Orders : AdminReconcile(o) \/ CancelOrder(o)
             \/ \E i \in Keys \cup Orders : SchedulerReconcile(i)
             \/ \E s \in Signal : WebhookReconcile(s) \/ LoseWebhook(s)
             \/ \E k \in Keys : PaymentStep(k)
             \/ \E u \in Users : Withdraw(u)
             \/ PurgeBuyers \/ Crash \/ UNCHANGED vars
    <2>1. UNCHANGED <<topup, used, ledger>>
      BY <1>6 DEF AdminReconcile, CancelOrder, SchedulerReconcile, WebhookReconcile, LoseWebhook,
         PaymentStep, OpenWindow, Deposit, VendorRevoke, Expire, Withdraw, PurgeBuyers, Crash,
         accounts, people, vars
    <2> QED
      BY <1>a, <2>1
  <1> QED
    BY <1>1, <1>2, <1>3, <1>4, <1>5, <1>6 DEF Next

\* The ledger explains every user's balance to the last won, for any number of
\* orders, payments and requests in progress: a clawback enters what it took.
THEOREM LedgerExplains == Spec => []LedgerMatchesBalance
  <1>1. Init => LedgerMatchesBalance
    BY DEF Init, LedgerMatchesBalance
  <1>2. IInv /\ LedgerMatchesBalance /\ [Next]_vars => LedgerMatchesBalance'
    BY LedgerNext
  <1> QED
    BY <1>1, <1>2, Invariance, PTL DEF Spec

-----------------------------------------------------------------------------
(* The buyer of a paid order is kept.                                      *)

\* The inductive form: a buyer is gone only from an order never paid whose
\* account is closed, and a closed account's order can not be paid any more.
BuyerGone == \A o \in Orders :
    ~order[o].buyer => ~order[o].paidAt /\ Owner[o] \in withdrawn

\* A grant needs an open account, so it finds the buyer still there.
LEMMA BuyerGrant ==
  ASSUME TypeOK, BuyerGone, NEW o \in Orders, NEW provider, NEW ref,
         Confirmable(o), Grant(o, provider, ref), withdrawn' = withdrawn
  PROVE  BuyerGone'
  BY DEF TypeOK, OrderRow, BuyerGone, Confirmable, Grant

\* A step that leaves these columns alone.
LEMMA BuyerFrame ==
  ASSUME BuyerGone, withdrawn \subseteq withdrawn',
         \A o \in Orders : /\ order'[o].buyer = order[o].buyer
                           /\ order'[o].paidAt = order[o].paidAt
  PROVE  BuyerGone'
  BY DEF BuyerGone

\* Every step keeps the buyer of a paid order.
LEMMA BuyerNext ==
  ASSUME IInv, BuyerGone, [Next]_vars
  PROVE  BuyerGone'
  <1>0. TypeOK /\ ConfirmKeyed /\ RefundFits /\ order \in [Orders -> OrderRow]
    BY DEF IInv, TypeOK
  <1>a. ASSUME order' = order, withdrawn \subseteq withdrawn' PROVE BuyerGone'
    BY <1>a, BuyerFrame
  <1>1. ASSUME NEW c \in Confirms, ConfirmStep(c) PROVE BuyerGone'
    <2>1. CASE ConfirmApply(c)
      <3>1. confirm[c].key \in Keys /\ KeyOrder[confirm[c].key] \in Orders
        BY <1>0, <2>1, InstanceAssumption DEF ConfirmKeyed, ConfirmApply
      <3> QED
        BY <1>0, <1>a, <2>1, <3>1, BuyerGrant DEF ConfirmApply, accounts, people
    <2> QED
      BY <1>1, <1>a, <2>1 DEF ConfirmStep, ConfirmBegin, ConfirmRejected, ConfirmUnknown,
         ConfirmResolve, ConfirmPending, VendorConfirm, accounts, people
  <1>2. ASSUME NEW r \in Refunds, RefundStep(r) PROVE BuyerGone'
    <2> DEFINE o == refund[r].order
    <2>1. CASE RefundCommit(r) \/ RefundRevert(r)
      <3>1. o \in Orders /\ withdrawn' = withdrawn
        BY <1>0, <2>1 DEF RefundFits, RefundCommit, RefundRevert, people
      <3>2. \/ order' = order
            \/ \E row : /\ order' = [order EXCEPT ![o] = row]
                        /\ row.buyer = order[o].buyer /\ row.paidAt = order[o].paidAt
        BY <1>0, <2>1, <3>1 DEF RefundCommit, RefundRevert, accounts, OrderRow
      <3> QED
        BY <1>0, <3>1, <3>2, BuyerFrame
    <2> QED
      BY <1>2, <1>a, <2>1 DEF RefundStep, RefundBegin, RefundDone, VendorCancel, accounts, people
  <1>3. ASSUME NEW o \in Orders, ReconcileWork(o) PROVE BuyerGone'
    <2>1. CASE ReconcileClaw(o)
      <3>1. /\ withdrawn' = withdrawn
            /\ order' = [order EXCEPT ![o] = [order[o] EXCEPT !.status = "pending"]]
        BY <1>0, <2>1 DEF ReconcileClaw, Finish, people
      <3> QED
        BY <1>0, <3>1, BuyerFrame DEF OrderRow
    <2>2. CASE ReconcileGrant(o)
      BY <1>0, <1>a, <2>2, BuyerGrant DEF ReconcileGrant, Finish, accounts, people
    <2> QED
      BY <1>3, <1>a, <2>1, <2>2 DEF ReconcileWork, ReconcileFetch, ReconcileConsistent, Finish,
         accounts, people
  <1>4. ASSUME NEW o \in Orders, ManualConfirm(o) PROVE BuyerGone'
    BY <1>0, <1>4, BuyerGrant DEF ManualConfirm
  <1>5. ASSUME NEW o \in Orders, CancelOrder(o) PROVE BuyerGone'
    <2>1. /\ withdrawn' = withdrawn
          /\ order' = [order EXCEPT ![o] = [order[o] EXCEPT !.status = "canceled"]]
      BY <1>0, <1>5 DEF CancelOrder, people
    <2> QED
      BY <1>0, <2>1, BuyerFrame DEF OrderRow
  <1>6. CASE PurgeBuyers
    <2>1. ASSUME NEW o \in Orders, ~order'[o].buyer
          PROVE  ~order'[o].paidAt /\ Owner[o] \in withdrawn'
      <3>1. CASE Purgeable(o)
        BY <1>0, <1>6, <3>1 DEF PurgeBuyers, Purgeable, OrderRow, people
      <3>2. CASE ~Purgeable(o)
        BY <1>6, <2>1, <3>2 DEF PurgeBuyers, BuyerGone, people
      <3> QED
        BY <3>1, <3>2
    <2> QED
      BY <2>1 DEF BuyerGone
  <1>7. CASE \/ \E o \in Orders : AdminReconcile(o)
             \/ \E i \in Keys \cup Orders : SchedulerReconcile(i)
             \/ \E s \in Signal : WebhookReconcile(s) \/ LoseWebhook(s)
             \/ \E k \in Keys : PaymentStep(k)
             \/ \E u \in Users : Spend(u) \/ Withdraw(u)
             \/ Crash \/ UNCHANGED vars
    <2>1. order' = order /\ withdrawn \subseteq withdrawn'
      BY <1>7 DEF AdminReconcile, SchedulerReconcile, WebhookReconcile, LoseWebhook,
         PaymentStep, OpenWindow, Deposit, VendorRevoke, Expire, Spend, Withdraw, Crash,
         accounts, people, vars
    <2> QED
      BY <1>a, <2>1
  <1> QED
    BY <1>1, <1>2, <1>3, <1>4, <1>5, <1>6, <1>7 DEF Next

\* No purge, whenever it runs, removes the buyer of an order that was ever
\* paid: accounts that close, payments that arrive late and orders that a
\* clawback made pending again included.
THEOREM BuyersKept == Spec => []PaidBuyerKept
  <1>1. Init => BuyerGone
    BY DEF Init, BuyerGone, NewOrder
  <1>2. IInv /\ BuyerGone /\ [Next]_vars => BuyerGone'
    BY BuyerNext
  <1>3. IInv /\ BuyerGone => PaidBuyerKept
    BY DEF BuyerGone, PaidBuyerKept
  <1> QED
    BY <1>1, <1>2, <1>3, Invariance, PTL DEF Spec

-----------------------------------------------------------------------------
(* Nobody has his money back and the coins too.                            *)

\* The vendor answers each call, answers it once and stands by the answer: without
\* these the properties do not hold (the README says how).
Dependable == "replay" \notin Events /\ Faults \cap {"unknown", "revoke"} = {}

\* What the vendor holds, as a function of the table, to compare two states.
HeldIn(payments, o) == SumFunctionOnSet([k \in Keys |-> payments[k].bal], KeysOf(o))

\* The payments an order can have been granted for, before and after refunds.
PaidFor == {"DONE", "PARTIAL_CANCELED", "CANCELED"}

\* A payment holds its order's amount until something is cancelled, then less,
\* and nothing unless it was captured.
BalanceFine(p, n) ==
    /\ p.st \notin Captured => p.bal = 0
    /\ p.st = "DONE" => p.bal = n
    /\ p.bal <= n
\* The vendor has one payment of an order at a time that holds or awaits money.
PaymentsFine ==
    /\ \A k \in Keys : BalanceFine(pay[k], Amount[KeyOrder[k]])
    /\ \A k, l \in Keys : Live(k) /\ Live(l) /\ KeyOrder[k] = KeyOrder[l] => k = l

\* An order's reference is a payment of that order that was captured, and an
\* order that is pending (again) has none that is still whole.
OrderFine(o) ==
    LET k == order[o].ref
    IN  /\ k # NoKey => KeyOrder[k] = o /\ pay[k].st \in PaidFor
        /\ k # NoKey /\ order[o].status = "pending" => pay[k].st # "DONE"

\* The lock keeps reconciliations away from a confirmation, and what was approved
\* for a pending order can not be refunded meanwhile.
ConfirmFine(c) ==
    LET k == confirm[c].key
        o == KeyOrder[k]
    IN  /\ confirm[c].pc # "resolving" /\ confirm[c].reply # "unknown"
        /\ confirm[c].pc # "idle" => reconcile[o].pc = "idle"
        /\ /\ confirm[c].pc = "answered" /\ confirm[c].reply = "DONE"
           /\ order[o].status = "pending"
           => pay[k].st = "DONE"

\* The reference a reconciliation has read is still the order's, unless a bank transfer
\* took its place.  What it was told of a payment that is whole is still true while the
\* order is pending, and if it was told of one that is not, neither is the order's own.
ReconcileFine(o) ==
    LET j == reconcile[o]
    IN  /\ j.pc # "idle" => /\ order[o].ref \in {j.row.ref, NoKey}
                            /\ j.row.ref # NoKey => KeyOrder[j.row.ref] = o
        /\ j.pc = "deciding" =>
             /\ j.got.key # NoKey => KeyOrder[j.got.key] = o
             /\ j.got.key # NoKey /\ j.got.st = "DONE" /\ order[o].status = "pending"
                  => pay[j.got.key].st = "DONE"
             /\ j.got.st \in Revoking /\ order[o].ref # NoKey => pay[order[o].ref].st # "DONE"

\* A refund is of a payment of its order, which is the order's reference at least until
\* some of it has gone back.
RefundFine(r) ==
    LET j == refund[r]
    IN  /\ j.reply # "unknown"
        /\ j.pc # "idle" => /\ KeyOrder[j.key] = j.order /\ pay[j.key].st \in PaidFor
                            /\ pay[j.key].st = "DONE" => order[j.order].ref = j.key

\* The coins of an order, with those a refund under way may give back, are covered by
\* what the vendor holds and the bank transfer, and by the transfer alone while there is
\* a payment the order may yet be granted for.  What went back, and what refunds
\* under way have taken, is in refunded_krw.
Grantable(l) == pay[l].st \in {"DONE", "WAITING_FOR_DEPOSIT"}
AccountFine(o) ==
    LET owed == OwedBy(refund, o)
        k == order[o].ref
    IN  /\ coins[o] + owed <= HeldIn(pay, o) + bank[o]
        /\ \A l \in KeysOf(o) : Grantable(l) /\ k # l => coins[o] + owed <= bank[o]
        /\ owed <= order[o].refunded
        /\ k # NoKey => Amount[o] - pay[k].bal + owed <= order[o].refunded

OrdersFine     == \A o \in Orders : OrderFine(o)
ConfirmsFine   == \A c \in Confirms : ConfirmFine(c)
ReconcilesFine == \A o \in Orders : ReconcileFine(o)
RefundsFine    == \A r \in Refunds : RefundFine(r)
AccountsFine   == \A o \in Orders : AccountFine(o)
MoneyInv ==
    /\ IInv /\ PaymentsFine
    /\ OrdersFine /\ ConfirmsFine /\ ReconcilesFine /\ RefundsFine /\ AccountsFine

\* Tables by type, and two tables that differ in one place only.
JobsTyped(jobs) == jobs \in [Refunds -> RefundJob]
PaysTyped(payments) == payments \in [Keys -> Payment]
OnlyAt(x, S, f, g) == \A y \in S : y # x => g[y] = f[y]
\* A sum in which one amount was replaced.
Replaced(new, old, out, in) == new = old - out + in

\* What refunds have taken is an amount.
LEMMA OwedType ==
  ASSUME NEW jobs, JobsTyped(jobs), NEW o
  PROVE  OwedBy(jobs, o) \in Nat
  <1>0. PICK f : f = [r \in Refunds |-> Share(jobs[r], o)]
    OBVIOUS
  <1>1. \A r \in Refunds : f[r] \in Nat
    BY <1>0 DEF Share, Outstanding, RefundJob, JobsTyped
  <1>2. OwedBy(jobs, o) = SumFunctionOnSet(f, Refunds)
    BY <1>0 DEF OwedBy
  <1>3. SumFunctionOnSet(f, Refunds) \in Nat
    BY <1>1, SumNat, InstanceAssumption
  <1> QED
    BY <1>2, <1>3

\* What refunds have taken changes by what one of them does.
LEMMA OwedChanges ==
  ASSUME NEW jobs, NEW more, JobsTyped(jobs), JobsTyped(more),
         NEW r \in Refunds, OnlyAt(r, Refunds, jobs, more), NEW o
  PROVE  Replaced(OwedBy(more, o), OwedBy(jobs, o), Share(jobs[r], o), Share(more[r], o))
  <1>0. PICK f, g : /\ f = [s \in Refunds |-> Share(jobs[s], o)]
                    /\ g = [s \in Refunds |-> Share(more[s], o)]
    OBVIOUS
  <1>1. \A s \in Refunds : f[s] \in Int /\ g[s] \in Int
    BY <1>0 DEF Share, Outstanding, RefundJob, JobsTyped
  <1>2. \A s \in Refunds : s # r => f[s] = g[s]
    BY <1>0 DEF OnlyAt
  <1>3. SumFunctionOnSet(g, Refunds) = SumFunctionOnSet(f, Refunds) - f[r] + g[r]
    BY <1>1, <1>2, SumChanges, InstanceAssumption
  <1>4. /\ OwedBy(jobs, o) = SumFunctionOnSet(f, Refunds) /\ f[r] = Share(jobs[r], o)
        /\ OwedBy(more, o) = SumFunctionOnSet(g, Refunds) /\ g[r] = Share(more[r], o)
    BY <1>0 DEF OwedBy
  <1> QED
    BY <1>3, <1>4 DEF Replaced

\* The payments of an order are finitely many.
LEMMA KeysFinite == \A o : IsFiniteSet(KeysOf(o)) /\ KeysOf(o) \subseteq Keys
  BY FS_Subset, InstanceAssumption DEF KeysOf

\* What the vendor holds for an order is an amount, no less than one payment, ...
LEMMA HeldType ==
  ASSUME NEW p, PaysTyped(p), NEW o
  PROVE  /\ HeldIn(p, o) \in Nat
         /\ \A k \in KeysOf(o) : p[k].bal <= HeldIn(p, o)
         /\ (\A k \in KeysOf(o) : p[k].bal = 0) => HeldIn(p, o) = 0
  <1>0. PICK f, K : f = [k \in Keys |-> p[k].bal] /\ K = KeysOf(o)
    OBVIOUS
  <1>1. (\A k \in K : f[k] \in Nat /\ f[k] = p[k].bal) /\ IsFiniteSet(K)
    BY <1>0, KeysFinite DEF Payment, PaysTyped
  <1>2. HeldIn(p, o) = SumFunctionOnSet(f, K)
    BY <1>0 DEF HeldIn
  <1>3. SumFunctionOnSet(f, K) \in Nat
    BY <1>1, SumNat
  <1>4. \A k \in K : f[k] <= SumFunctionOnSet(f, K)
    BY <1>1, SumIsAtLeast
  <1>5. (\A k \in K : f[k] = 0) => SumFunctionOnSet(f, K) = 0
    BY <1>1, SumOfZeros
  <1>6. K = KeysOf(o)
    BY <1>0
  <1> QED
    BY <1>1, <1>2, <1>3, <1>4, <1>5, <1>6

\* ... and changes by what one of the payments does.
LEMMA HeldChanges ==
  ASSUME NEW p, NEW q, PaysTyped(p), PaysTyped(q), NEW k \in Keys, OnlyAt(k, Keys, p, q), NEW o
  PROVE  /\ k \in KeysOf(o) => Replaced(HeldIn(q, o), HeldIn(p, o), p[k].bal, q[k].bal)
         /\ k \notin KeysOf(o) => HeldIn(q, o) = HeldIn(p, o)
  <1>0. PICK f, g, K : /\ f = [l \in Keys |-> p[l].bal] /\ g = [l \in Keys |-> q[l].bal]
                       /\ K = KeysOf(o)
    OBVIOUS
  <1>1. \A l \in K : f[l] \in Int /\ g[l] \in Int
    BY <1>0, KeysFinite DEF Payment, PaysTyped
  <1>a. IsFiniteSet(K)
    BY <1>0, KeysFinite
  <1>2. \A l \in K : l # k => f[l] = g[l]
    BY <1>0, KeysFinite DEF OnlyAt
  <1>3. /\ f[k] = p[k].bal /\ g[k] = q[k].bal
        /\ HeldIn(p, o) = SumFunctionOnSet(f, K) /\ HeldIn(q, o) = SumFunctionOnSet(g, K)
    BY <1>0 DEF HeldIn
  <1>3a. ASSUME NEW x, x \in K, \A l \in K : l # x => f[l] = g[l]
         PROVE  SumFunctionOnSet(g, K) = SumFunctionOnSet(f, K) - f[x] + g[x]
    BY <1>1, <1>a, <1>3a, SumChanges
  <1>4. ASSUME k \in K PROVE SumFunctionOnSet(g, K) = SumFunctionOnSet(f, K) - f[k] + g[k]
    BY <1>2, <1>3a, <1>4
  <1>5. ASSUME k \notin K PROVE SumFunctionOnSet(g, K) = SumFunctionOnSet(f, K)
    <2>1. \A l \in K : f[l] = g[l]
      BY <1>2, <1>5
    <2> QED
      BY <1>a, <2>1, SumOfSame
  <1>6. K = KeysOf(o)
    BY <1>0
  <1> QED
    BY <1>3, <1>4, <1>5, <1>6 DEF Replaced

\* The types of what the invariant speaks of, in both states of a step.
LEMMA MoneyTypes ==
  ASSUME IInv
  PROVE  /\ order \in [Orders -> OrderRow] /\ coins \in [Orders -> Int]
         /\ bank \in [Orders -> Nat] /\ pay \in [Keys -> Payment]
         /\ confirm \in [Confirms -> ConfirmJob] /\ refund \in [Refunds -> RefundJob]
         /\ reconcile \in [Orders -> ReconcileJob]
         /\ \A o \in Orders : /\ order[o].refunded \in Nat /\ order[o].ref \in Keys \cup {NoKey}
                              /\ order[o].status \in OrderStatus
                              /\ coins[o] \in Int /\ OwedBy(refund, o) \in Nat
                              /\ HeldIn(pay, o) \in Nat /\ Amount[o] \in Nat
         /\ \A k \in Keys : pay[k].bal \in Nat /\ KeyOrder[k] \in Orders
         /\ NoKey \notin Keys
  <1>1. JobsTyped(refund) /\ PaysTyped(pay)
    BY DEF IInv, TypeOK, JobsTyped, PaysTyped
  <1>2. \A o \in Orders : OwedBy(refund, o) \in Nat /\ HeldIn(pay, o) \in Nat
    BY <1>1, OwedType, HeldType
  <1> QED
    BY <1>2, OwnerType, InstanceAssumption DEF IInv, TypeOK, OrderRow, Payment

\* Those after a step that the sums need.
LEMMA TablesTyped ==
  ASSUME MoneyInv, IInv'
  PROVE  /\ JobsTyped(refund) /\ JobsTyped(refund') /\ PaysTyped(pay) /\ PaysTyped(pay')
         /\ coins' \in [Orders -> Int] /\ order' \in [Orders -> OrderRow]
         /\ \A o \in Orders : OwedBy(refund', o) \in Nat /\ HeldIn(pay', o) \in Nat
  <1>1. /\ JobsTyped(refund) /\ JobsTyped(refund') /\ PaysTyped(pay) /\ PaysTyped(pay')
        /\ coins' \in [Orders -> Int] /\ order' \in [Orders -> OrderRow]
    BY DEF MoneyInv, IInv, TypeOK, JobsTyped, PaysTyped
  <1> QED
    BY <1>1, OwedType, HeldType

\* What the steps of others do to an order and to a payment: only a reconciliation
\* makes an order pending again; what was captured stays captured, does not become
\* whole again, and is refunded only while its order is not pending.
Steady(o) == order'[o].status = "pending" => order[o].status = "pending"
SameRefs == \A o \in Orders : order'[o].ref = order[o].ref
PaidStays ==
    \A k \in Keys : pay[k].st \in PaidFor =>
        /\ pay'[k].st \in PaidFor
        /\ pay[k].st # "DONE" => pay'[k].st # "DONE"
        /\ pay'[k].st # "DONE" => pay[k].st # "DONE" \/ order[KeyOrder[k]].status # "pending"
        /\ pay'[k].st \in Captured => pay[k].st \in Captured

\* Nothing happens to captured payments when nothing happens to payments.
LEMMA PaySame == pay' = pay => PaidStays
  BY DEF PaidStays

\* A confirmation in progress is not touched by the steps of others.
LEMMA ConfirmKept ==
  ASSUME MoneyInv, NEW c \in Confirms, confirm'[c] = confirm[c], PaidStays,
         confirm[c].pc # "idle" => /\ reconcile'[KeyOrder[confirm[c].key]].pc = "idle"
                                   /\ Steady(KeyOrder[confirm[c].key])
  PROVE  ConfirmFine(c)'
  <1> DEFINE k == confirm[c].key
  <1>1. ConfirmFine(c) /\ (confirm[c].pc # "idle" => k \in Keys)
    BY DEF MoneyInv, IInv, ConfirmKeyed, ConfirmsFine
  <1>2. CASE confirm[c].pc = "idle"
    BY <1>1, <1>2 DEF ConfirmFine
  <1>3. CASE confirm[c].pc # "idle"
    BY <1>1, <1>3 DEF ConfirmFine, Steady, PaidStays, PaidFor
  <1> QED
    BY <1>2, <1>3

\* Nor is a reconciliation.
LEMMA ReconcileKept ==
  ASSUME MoneyInv, NEW o \in Orders, reconcile'[o] = reconcile[o], PaidStays,
         reconcile[o].pc # "idle" => order'[o].ref = order[o].ref /\ Steady(o)
  PROVE  ReconcileFine(o)'
  <1>1. ReconcileFine(o) /\ OrderFine(o) /\ reconcile[o] \in ReconcileJob
        /\ order[o].ref \in Keys \cup {NoKey} /\ NoKey \notin Keys
    BY MoneyTypes DEF MoneyInv, ReconcilesFine, OrdersFine
  <1>2. reconcile[o].got.key \in Keys \cup {NoKey}
    BY <1>1 DEF ReconcileJob, Found
  <1>3. CASE reconcile[o].pc = "idle"
    BY <1>3 DEF ReconcileFine
  <1>4. CASE reconcile[o].pc # "idle"
    BY <1>1, <1>2, <1>4 DEF ReconcileFine, OrderFine, Steady, PaidStays, PaidFor
  <1> QED
    BY <1>3, <1>4

\* Nor is a refund.
LEMMA RefundKept ==
  ASSUME MoneyInv, NEW r \in Refunds, PaidStays, refund'[r].reply # "unknown",
         refund'[r].pc # "idle" => /\ refund[r].pc # "idle"
                                   /\ refund'[r].key = refund[r].key
                                   /\ refund'[r].order = refund[r].order
                                   /\ order'[refund[r].order].ref = order[refund[r].order].ref
  PROVE  RefundFine(r)'
  <1>1. RefundFine(r) /\ (refund[r].pc # "idle" => refund[r].key \in Keys)
    BY DEF MoneyInv, IInv, RefundFits, RefundsFine
  <1>2. CASE refund'[r].pc = "idle"
    BY <1>2 DEF RefundFine
  <1>3. CASE refund'[r].pc # "idle"
    BY <1>1, <1>3 DEF RefundFine, PaidStays, PaidFor, Live, Captured
  <1> QED
    BY <1>2, <1>3

\* An order whose reference stays keeps a captured one.
LEMMA OrderKept ==
  ASSUME MoneyInv, NEW o \in Orders, bank' = bank, order'[o].ref = order[o].ref, Steady(o),
         PaidStays
  PROVE  OrderFine(o)'
  <1>1. OrderFine(o) /\ order[o].ref \in Keys \cup {NoKey}
    BY MoneyTypes DEF MoneyInv, OrdersFine
  <1> QED
    BY <1>1 DEF OrderFine, Steady, PaidStays, PaidFor

\* An account stays fine while no payment of its order changes and refunds take
\* back at most what they had taken.
LEMMA AccountKept ==
  ASSUME MoneyInv, IInv', NEW o \in Orders, coins'[o] <= coins[o],
         bank'[o] = bank[o],
         order'[o].ref = order[o].ref, order'[o].refunded = order[o].refunded,
         \A k \in KeysOf(o) : pay'[k] = pay[k], HeldIn(pay', o) = HeldIn(pay, o),
         OwedBy(refund', o) <= OwedBy(refund, o)
  PROVE  AccountFine(o)'
  <1>1. AccountFine(o) /\ OrderFine(o) /\ IInv
    BY DEF MoneyInv, AccountsFine, OrdersFine
  <1>2. PICK owed, less \in Nat : /\ owed = OwedBy(refund, o) /\ less = OwedBy(refund', o)
                                  /\ less <= owed
    BY <1>1, MoneyTypes, TablesTyped
  <1>3. /\ coins[o] \in Int /\ coins'[o] \in Int /\ order[o].refunded \in Nat
        /\ HeldIn(pay, o) \in Nat /\ Amount[o] \in Nat /\ bank[o] \in Nat
        /\ order[o].ref \in Keys \cup {NoKey}
        /\ \A k \in Keys : pay[k].bal \in Nat
    BY <1>1, MoneyTypes, TablesTyped
  <1>4. order[o].ref # NoKey => order[o].ref \in KeysOf(o)
    BY <1>1, <1>3 DEF OrderFine, KeysOf
  <1>5. coins'[o] + less <= HeldIn(pay', o) + bank'[o] /\ less <= order'[o].refunded
    <2>1. coins[o] + owed <= HeldIn(pay, o) + bank[o] /\ owed <= order[o].refunded
      BY <1>1, <1>2 DEF AccountFine
    <2> QED
      BY <1>2, <1>3, <2>1
  <1>6. ASSUME NEW l \in KeysOf(o), Grantable(l)', order'[o].ref # l
        PROVE  coins'[o] + less <= bank'[o]
    <2>1. Grantable(l) /\ order[o].ref # l
      BY <1>6 DEF Grantable
    <2>2. coins[o] + owed <= bank[o]
      BY <1>1, <1>2, <2>1 DEF AccountFine
    <2> QED
      BY <1>2, <1>3, <2>2
  <1>7. ASSUME order'[o].ref # NoKey
        PROVE  Amount[o] - pay'[order'[o].ref].bal + less <= order'[o].refunded
    <2>1. PICK b \in Nat : b = pay[order[o].ref].bal /\ b = pay'[order'[o].ref].bal
      BY <1>3, <1>4, <1>7
    <2>2. Amount[o] - b + owed <= order[o].refunded
      BY <1>1, <1>2, <1>7, <2>1 DEF AccountFine
    <2> QED
      BY <1>2, <1>3, <2>1, <2>2
  <1> QED
    BY <1>2, <1>5, <1>6, <1>7 DEF AccountFine

\* A step that leaves payments alone leaves them fine.
LEMMA PaymentsKept ==
  ASSUME PaymentsFine, pay' = pay
  PROVE  PaymentsFine'
  BY DEF PaymentsFine, Live

\* The parts of the invariant after a step.
LEMMA MoneyParts ==
  ASSUME IInv', PaymentsFine',
         \A o \in Orders : OrderFine(o)' /\ ReconcileFine(o)' /\ AccountFine(o)',
         \A c \in Confirms : ConfirmFine(c)', \A r \in Refunds : RefundFine(r)'
  PROVE  MoneyInv'
  BY DEF MoneyInv, OrdersFine, ReconcilesFine, AccountsFine, ConfirmsFine, RefundsFine

\* A step that moves no money, coins or status, and after which each request is as it
\* was or fine again.
Still ==
    /\ coins' = coins /\ bank' = bank /\ pay' = pay
    /\ \A o \in Orders : /\ order'[o].status = order[o].status
                         /\ order'[o].ref = order[o].ref
                         /\ order'[o].refunded = order[o].refunded

\* Such a step preserves the invariant.
LEMMA StillKeeps ==
  ASSUME MoneyInv, IInv', Still,
         \A c \in Confirms :
            \/ /\ confirm'[c] = confirm[c]
               /\ confirm[c].pc # "idle" =>
                    reconcile'[KeyOrder[confirm[c].key]].pc
                      = reconcile[KeyOrder[confirm[c].key]].pc
            \/ ConfirmFine(c)',
         \A o \in Orders : reconcile'[o] = reconcile[o] \/ ReconcileFine(o)',
         \A r \in Refunds : refund'[r] = refund[r] \/ RefundFine(r)',
         \A o \in Orders : OwedBy(refund', o) <= OwedBy(refund, o)
  PROVE  MoneyInv'
  <1>1. PaidStays /\ PaymentsFine' /\ (\A o \in Orders : Steady(o)) /\ SameRefs
    BY PaySame, PaymentsKept DEF Still, Steady, SameRefs, MoneyInv
  <1>2. ASSUME NEW c \in Confirms PROVE ConfirmFine(c)'
    <2>1. CASE ConfirmFine(c)'
      BY <2>1
    <2>2. CASE ~ConfirmFine(c)'
      <3>1. /\ confirm'[c] = confirm[c] /\ ConfirmFine(c)
            /\ confirm[c].pc # "idle" => confirm[c].key \in Keys
        BY <2>2 DEF MoneyInv, IInv, ConfirmKeyed, ConfirmsFine
      <3>2. confirm[c].pc # "idle" => /\ reconcile'[KeyOrder[confirm[c].key]].pc = "idle"
                                      /\ Steady(KeyOrder[confirm[c].key])
        BY <1>1, <2>2, <3>1, InstanceAssumption DEF ConfirmFine
      <3> QED
        BY <1>1, <3>1, <3>2, ConfirmKept
    <2> QED
      BY <2>1, <2>2
  <1>3. ASSUME NEW o \in Orders PROVE ReconcileFine(o)'
    BY <1>1, ReconcileKept DEF SameRefs
  <1>4. ASSUME NEW r \in Refunds PROVE RefundFine(r)'
    <2>1. CASE RefundFine(r)'
      BY <2>1
    <2>2. CASE ~RefundFine(r)'
      <3>1. refund'[r] = refund[r] /\ refund[r].reply # "unknown"
            /\ (refund[r].pc # "idle" => refund[r].order \in Orders)
        BY <2>2 DEF MoneyInv, RefundsFine, RefundFine, IInv, RefundFits
      <3> QED
        BY <1>1, <3>1, RefundKept DEF SameRefs
    <2> QED
      BY <2>1, <2>2
  <1>5. ASSUME NEW o \in Orders PROVE OrderFine(o)' /\ AccountFine(o)'
    <2>1. OrderFine(o)'
      BY <1>1, OrderKept DEF SameRefs, Still
    <2>2. /\ coins'[o] <= coins[o] /\ HeldIn(pay', o) = HeldIn(pay, o)
          /\ \A k \in KeysOf(o) : pay'[k] = pay[k]
      BY MoneyTypes DEF Still, MoneyInv
    <2>3. AccountFine(o)'
      BY <2>2, AccountKept DEF Still
    <2> QED
      BY <2>1, <2>3
  <1> QED
    BY <1>1, <1>2, <1>3, <1>4, <1>5, MoneyParts

\* The quiet steps of confirmations: nothing is known of the payment yet.
LEMMA ConfirmQuiet ==
  ASSUME MoneyInv, IInv', NEW c \in Confirms, Still, refund' = refund, reconcile' = reconcile,
         NEW job, confirm' = [confirm EXCEPT ![c] = job],
         job = NoConfirm \/ (/\ job.pc = "calling" /\ job.reply = "none"
                             /\ reconcile[KeyOrder[job.key]].pc = "idle")
  PROVE  MoneyInv'
  <1>1. \A d \in Confirms : d # c => confirm'[d] = confirm[d]
    BY MoneyTypes DEF MoneyInv
  <1>2. confirm'[c] = job
    BY MoneyTypes DEF MoneyInv
  <1>3. ConfirmFine(c)'
    BY <1>2 DEF ConfirmFine, NoConfirm
  <1>4. \A o \in Orders : OwedBy(refund', o) <= OwedBy(refund, o)
    BY MoneyTypes DEF MoneyInv
  <1> QED
    BY <1>1, <1>3, <1>4, StillKeeps

\* Those of refunds: the refund may give up what it has taken, never take more.
LEMMA RefundQuiet ==
  ASSUME MoneyInv, IInv', NEW r \in Refunds, Still, confirm' = confirm, reconcile' = reconcile,
         NEW job \in RefundJob, refund' = [refund EXCEPT ![r] = job], RefundFine(r)',
         Outstanding(job) = 0 \/ (/\ job.order = refund[r].order
                                  /\ Outstanding(job) = Outstanding(refund[r]))
  PROVE  MoneyInv'
  <1>0. refund \in [Refunds -> RefundJob] /\ refund'[r] = job
    BY MoneyTypes DEF MoneyInv
  <1>1. /\ \A s \in Refunds : s # r => refund'[s] = refund[s]
        /\ OnlyAt(r, Refunds, refund, refund')
    BY <1>0 DEF OnlyAt
  <1>2. ASSUME NEW o \in Orders PROVE OwedBy(refund', o) <= OwedBy(refund, o)
    <2>1. Replaced(OwedBy(refund', o), OwedBy(refund, o), Share(refund[r], o), Share(refund'[r], o))
      BY <1>1, TablesTyped, OwedChanges
    <2>2. /\ Share(refund[r], o) \in Nat /\ Share(refund'[r], o) \in Nat
          /\ Share(refund'[r], o) <= Share(refund[r], o)
      BY <1>0 DEF Share, Outstanding, RefundJob
    <2>3. OwedBy(refund, o) \in Nat
      BY MoneyTypes DEF MoneyInv
    <2> QED
      BY <2>1, <2>2, <2>3 DEF Replaced
  <1> QED
    BY <1>1, <1>2, StillKeeps

\* Those of reconciliations.
LEMMA ReconcileQuiet ==
  ASSUME MoneyInv, IInv', NEW o \in Orders, Still, confirm' = confirm, refund' = refund,
         NEW job, reconcile' = [reconcile EXCEPT ![o] = job], ReconcileFine(o)',
         \/ job.pc = "idle" \/ reconcile[o].pc # "idle"
         \/ \A c \in Confirms : confirm[c].key \notin KeysOf(o)
  PROVE  MoneyInv'
  <1>0. /\ reconcile \in [Orders -> ReconcileJob] /\ reconcile'[o] = job
        /\ \A q \in Orders : q # o => reconcile'[q] = reconcile[q]
    BY MoneyTypes DEF MoneyInv
  <1>1. ASSUME NEW c \in Confirms, confirm[c].pc # "idle"
        PROVE  reconcile'[KeyOrder[confirm[c].key]].pc = reconcile[KeyOrder[confirm[c].key]].pc
    <2>1. /\ confirm[c].key \in Keys /\ KeyOrder[confirm[c].key] \in Orders
          /\ reconcile[KeyOrder[confirm[c].key]].pc = "idle"
      BY <1>1, InstanceAssumption DEF MoneyInv, IInv, ConfirmKeyed, ConfirmsFine, ConfirmFine
    <2> QED
      BY <1>0, <2>1 DEF KeysOf
  <1>2. \A q \in Orders : OwedBy(refund', q) <= OwedBy(refund, q)
    BY MoneyTypes DEF MoneyInv
  <1> QED
    BY <1>0, <1>1, <1>2, StillKeeps

\* A payment no order was granted for changes: it may start to hold or to await money
\* if no other payment of its order does.
LEMMA PaymentMoves ==
  ASSUME MoneyInv, IInv', NEW k \in Keys, NEW p \in Payment, pay' = [pay EXCEPT ![k] = p],
         pay[k].st \notin PaidFor, BalanceFine(p, Amount[KeyOrder[k]]),
         Live(k)' => Live(k) \/ \A l \in KeysOf(KeyOrder[k]) : ~Live(l),
         order' = order, coins' = coins, bank' = bank, reconcile' = reconcile,
         refund' = refund, \A c \in Confirms : confirm'[c] = confirm[c] \/ ConfirmFine(c)'
  PROVE  MoneyInv'
  <1>0. /\ pay \in [Keys -> Payment] /\ pay'[k] = p /\ OnlyAt(k, Keys, pay, pay')
        /\ \A l \in Keys : l # k => pay'[l] = pay[l]
    BY MoneyTypes DEF MoneyInv, OnlyAt
  <1>1. PaidStays /\ (\A o \in Orders : Steady(o)) /\ SameRefs
    BY <1>0 DEF PaidStays, Steady, SameRefs
  <1>2. PaymentsFine'
    <2>1. ASSUME NEW l \in Keys PROVE BalanceFine(pay'[l], Amount[KeyOrder[l]])
      BY <1>0 DEF MoneyInv, PaymentsFine
    <2>2. ASSUME NEW l \in Keys, NEW m \in Keys, Live(l)', Live(m)',
                 KeyOrder[l] = KeyOrder[m], l # m
          PROVE  FALSE
      <3>1. ASSUME NEW n \in Keys, n # k, Live(n)' PROVE Live(n)
        BY <1>0, <3>1 DEF Live
      <3> QED
        BY <2>2, <3>1 DEF MoneyInv, PaymentsFine, KeysOf
    <2> QED
      BY <2>1, <2>2 DEF PaymentsFine
  <1>3. ASSUME NEW c \in Confirms PROVE ConfirmFine(c)'
    <2>1. /\ confirm[c].pc # "idle" => reconcile'[KeyOrder[confirm[c].key]].pc = "idle"
          /\ confirm[c].pc # "idle" => KeyOrder[confirm[c].key] \in Orders
      BY InstanceAssumption DEF MoneyInv, IInv, ConfirmKeyed, ConfirmsFine, ConfirmFine
    <2> QED
      BY <1>1, <2>1, ConfirmKept
  <1>4. ASSUME NEW o \in Orders PROVE ReconcileFine(o)' /\ OrderFine(o)'
    BY <1>1, ReconcileKept, OrderKept DEF SameRefs
  <1>5. ASSUME NEW r \in Refunds PROVE RefundFine(r)'
    <2>1. /\ refund[r].reply # "unknown"
          /\ refund[r].pc # "idle" => refund[r].order \in Orders
      BY DEF MoneyInv, RefundsFine, RefundFine, IInv, RefundFits
    <2> QED
      BY <1>1, <2>1, RefundKept DEF SameRefs
  <1>6. ASSUME NEW o \in Orders PROVE AccountFine(o)'
    <2>1. PICK owed, held, c : /\ owed = OwedBy(refund, o) /\ held = HeldIn(pay, o)
                               /\ c = coins[o]
      OBVIOUS
    <2>2. owed \in Nat /\ held \in Nat /\ c \in Int
      BY <2>1, MoneyTypes DEF MoneyInv
    <2>3. CASE k \notin KeysOf(o)
      <3>1. HeldIn(pay', o) = HeldIn(pay, o)
        BY <1>0, <2>3, TablesTyped, HeldChanges
      <3>2. \A l \in KeysOf(o) : pay'[l] = pay[l]
        BY <1>0, <2>3 DEF KeysOf
      <3>3. coins'[o] <= coins[o] /\ OwedBy(refund', o) <= OwedBy(refund, o)
        BY <2>1, <2>2
      <3> QED
        BY <3>1, <3>2, <3>3, AccountKept
    <2>4. CASE k \in KeysOf(o)
      <3>1. AccountFine(o) /\ OrderFine(o) /\ PaymentsFine /\ KeyOrder[k] = o
        BY <2>4 DEF MoneyInv, AccountsFine, OrdersFine, KeysOf
      <3>2. pay[k].bal = 0 /\ p.bal \in Nat
        BY <3>1 DEF PaymentsFine, BalanceFine, PaidFor, Captured, Payment
      <3>3. PICK more \in Nat : more = HeldIn(pay', o) /\ more >= held
        <4>1. Replaced(HeldIn(pay', o), HeldIn(pay, o), pay[k].bal, pay'[k].bal)
          BY <1>0, <2>4, TablesTyped, HeldChanges
        <4> QED
          BY <1>0, <2>1, <2>2, <3>2, <4>1 DEF Replaced
      <3>4. c + owed <= held + bank[o] /\ bank[o] \in Nat
        BY <2>1, <3>1, MoneyTypes DEF AccountFine, MoneyInv
      <3>5. ASSUME NEW l \in KeysOf(o), Grantable(l)', order[o].ref # l PROVE c + owed <= bank[o]
        <4>1. CASE Grantable(l)
          BY <2>1, <3>1, <3>5, <4>1 DEF AccountFine
        <4>2. CASE ~Grantable(l)
          <5>0. l = k /\ Live(k)' /\ ~Live(k)
            BY <1>0, <3>5, <4>2, KeysFinite DEF Live, Grantable, PaidFor, Captured
          <5>1. \A m \in KeysOf(o) : ~Live(m)
            BY <3>1, <5>0
          <5>2. \A m \in KeysOf(o) : pay[m].bal = 0
            BY <3>1, <5>1, KeysFinite DEF PaymentsFine, BalanceFine, Live
          <5>3. held = 0
            BY <2>1, <5>2, TablesTyped, HeldType
          <5> QED
            BY <2>2, <3>4, <5>3
        <4> QED
          BY <4>1, <4>2
      <3>6. order[o].ref # NoKey => pay'[order[o].ref] = pay[order[o].ref]
        <4>1. order[o].ref \in Keys \cup {NoKey}
          BY MoneyTypes DEF MoneyInv
        <4> QED
          BY <1>0, <3>1, <4>1 DEF OrderFine
      <3> QED
        <4>1. c + owed <= more + bank[o]
          BY <2>2, <3>3, <3>4
        <4>2. owed <= order[o].refunded
              /\ (order[o].ref # NoKey => Amount[o] - pay[order[o].ref].bal + owed <= order[o].refunded)
          BY <2>1, <3>1 DEF AccountFine
        <4> QED
          BY <2>1, <3>3, <3>5, <3>6, <4>1, <4>2 DEF AccountFine
    <2> QED
      BY <2>3, <2>4
  <1> QED
    BY <1>2, <1>3, <1>4, <1>5, <1>6, MoneyParts

\* An order is granted for a payment that is whole: it was not granted before, since a
\* pending order has no whole payment for reference, and what it was granted for is gone.
LEMMA GrantKeeps ==
  ASSUME MoneyInv, IInv', NEW k \in Keys, NEW o \in Orders, o = KeyOrder[k],
         pay[k].st = "DONE", order[o].status = "pending", Grant(o, "toss", k),
         bank' = bank, pay' = pay, refund' = refund, reconcile'[o].pc = "idle",
         \A q \in Orders : q # o => reconcile'[q] = reconcile[q],
         \A c \in Confirms : confirm'[c] = confirm[c] \/ ConfirmFine(c)'
  PROVE  MoneyInv'
  <1>0. /\ order'[o].status = "paid" /\ order'[o].ref = k
        /\ order'[o].refunded = order[o].refunded /\ coins'[o] = coins[o] + Amount[o]
        /\ \A q \in Orders : q # o => order'[q] = order[q] /\ coins'[q] = coins[q]
    BY MoneyTypes DEF MoneyInv, Grant, Credit, OrderRow
  <1>1. PaidStays /\ PaymentsFine' /\ PaymentsFine /\ \A q \in Orders : Steady(q)
    BY <1>0, PaySame, PaymentsKept DEF MoneyInv, Steady
  <1>2. OrderFine(o) /\ AccountFine(o) /\ Live(k) /\ k \in KeysOf(o)
    BY DEF MoneyInv, OrdersFine, AccountsFine, Live, Captured, KeysOf
  <1>3. order[o].ref # k /\ \A l \in KeysOf(o) : Live(l) => l = k
    BY <1>1, <1>2, MoneyTypes DEF MoneyInv, OrderFine, PaymentsFine, KeysOf
  <1>4. ASSUME NEW c \in Confirms PROVE ConfirmFine(c)'
    <2>1. confirm[c].pc # "idle" =>
            KeyOrder[confirm[c].key] \in Orders /\ reconcile'[KeyOrder[confirm[c].key]].pc = "idle"
      BY InstanceAssumption DEF MoneyInv, IInv, ConfirmKeyed, ConfirmsFine, ConfirmFine
    <2> QED
      BY <1>1, <2>1, ConfirmKept
  <1>5. ASSUME NEW q \in Orders PROVE ReconcileFine(q)' /\ OrderFine(q)'
    <2>1. CASE q = o
      BY <1>0, <1>1, <1>2, <2>1 DEF ReconcileFine, OrderFine, PaidFor, KeysOf
    <2>2. CASE q # o
      BY <1>0, <1>1, <2>2, ReconcileKept, OrderKept
    <2> QED
      BY <2>1, <2>2
  <1>6. ASSUME NEW r \in Refunds PROVE RefundFine(r)'
    <2>1. /\ RefundFine(r) /\ refund[r].reply # "unknown"
          /\ refund[r].pc # "idle" => refund[r].order \in Orders /\ refund[r].key \in Keys
      BY DEF MoneyInv, RefundsFine, RefundFine, IInv, RefundFits
    <2>2. CASE refund[r].pc # "idle" /\ refund[r].order = o
      <3>1. pay[refund[r].key].st # "DONE"
        BY <1>3, <2>1, <2>2 DEF RefundFine, KeysOf, Live, Captured
      <3> QED
        BY <2>1, <2>2, <3>1 DEF RefundFine
    <2>3. CASE ~(refund[r].pc # "idle" /\ refund[r].order = o)
      BY <1>0, <1>1, <2>1, <2>3, RefundKept
    <2> QED
      BY <2>2, <2>3
  <1>7. ASSUME NEW q \in Orders PROVE AccountFine(q)'
    <2>1. PICK owed, held, c, n :
             /\ owed = OwedBy(refund, o) /\ held = HeldIn(pay, o) /\ c = coins[o]
             /\ n = Amount[o]
      OBVIOUS
    <2>2. /\ owed \in Nat /\ held \in Nat /\ c \in Int /\ n \in Nat
          /\ pay[k].bal = n /\ n <= held /\ order[o].refunded \in Nat /\ bank[o] \in Nat
      <3>1. pay[k].bal = n
        BY <1>1, <2>1 DEF PaymentsFine, BalanceFine
      <3> QED
        BY <1>2, <2>1, <3>1, MoneyTypes, TablesTyped, HeldType DEF MoneyInv
    <2>3. c + owed <= bank[o] /\ owed <= order[o].refunded
      BY <1>2, <1>3, <2>1 DEF AccountFine, Grantable
    <2>4. CASE q = o
      <3>1. c + n + owed <= held + bank[o]
        BY <2>2, <2>3
      <3>2. \A l \in KeysOf(o) : Grantable(l)' => l = k
        BY <1>3 DEF Grantable, Live, Captured
      <3>3. n - pay'[k].bal + owed <= order'[o].refunded
        BY <1>0, <2>2, <2>3
      <3> QED
        BY <1>0, <2>1, <2>3, <2>4, <3>1, <3>2, <3>3 DEF AccountFine
    <2>5. CASE q # o
      <3>1. coins'[q] <= coins[q] /\ HeldIn(pay', q) = HeldIn(pay, q)
            /\ OwedBy(refund', q) <= OwedBy(refund, q)
            /\ order'[q] = order[q] /\ \A l \in KeysOf(q) : pay'[l] = pay[l]
        BY <1>0, <2>5, MoneyTypes DEF MoneyInv
      <3> QED
        BY <3>1, AccountKept
    <2> QED
      BY <2>4, <2>5
  <1> QED
    BY <1>1, <1>4, <1>5, <1>6, <1>7, MoneyParts

\* The steps of confirm_toss_payment.
LEMMA ConfirmMoney ==
  ASSUME Dependable, MoneyInv, IInv', NEW c \in Confirms, ConfirmStep(c)
  PROVE  MoneyInv'
  <1> PICK k, o : k = confirm[c].key /\ o = KeyOrder[k]
    OBVIOUS
  <1>0. /\ ConfirmFine(c) /\ confirm \in [Confirms -> ConfirmJob]
        /\ \A d \in Confirms : d # c /\ confirm' = [confirm EXCEPT ![c] = confirm'[c]]
                                          => confirm'[d] = confirm[d]
    BY MoneyTypes DEF MoneyInv, ConfirmsFine
  <1>1. ASSUME confirm[c].pc # "idle" PROVE k \in Keys /\ o \in Orders /\ reconcile[o].pc = "idle"
    BY <1>0, <1>1, InstanceAssumption DEF MoneyInv, IInv, ConfirmKeyed, ConfirmFine
  <1>2. ASSUME UNCHANGED <<accounts, people>>, pay' = pay PROVE Still
    BY <1>2 DEF accounts, people, Still
  <1>3. ASSUME NEW l \in Keys, ConfirmBegin(c, l) PROVE MoneyInv'
    <2> PICK job : job = [pc |-> "calling", key |-> l, reply |-> "none"]
      OBVIOUS
    <2>1. Still /\ refund' = refund /\ reconcile' = reconcile /\ confirm' = [confirm EXCEPT ![c] = job]
      BY <1>2, <1>3 DEF ConfirmBegin, vendor
    <2>2. job.pc = "calling" /\ job.reply = "none" /\ reconcile[KeyOrder[job.key]].pc = "idle"
      BY <1>3 DEF ConfirmBegin, LockFree
    <2> QED
      BY <2>1, <2>2, ConfirmQuiet
  <1>4. ASSUME confirm' = [confirm EXCEPT ![c] = NoConfirm],
               UNCHANGED <<accounts, people, vendor, reconcile, refund>>
        PROVE  MoneyInv'
    BY <1>2, <1>4, ConfirmQuiet DEF vendor
  <1>5. CASE ConfirmApply(c)
    <2>1. k \in Keys /\ o \in Orders /\ reconcile[o].pc = "idle"
      BY <1>1, <1>5 DEF ConfirmApply
    <2>2. CASE Confirmable(o) /\ Grant(o, "toss", k)
      <3>1. pay[k].st = "DONE" /\ order[o].status = "pending"
        BY <1>0, <1>5, <2>2 DEF ConfirmApply, Confirmable, ConfirmFine
      <3>2. /\ bank' = bank /\ pay' = pay /\ refund' = refund /\ reconcile' = reconcile
            /\ confirm' = [confirm EXCEPT ![c] = NoConfirm]
        BY <1>5 DEF ConfirmApply, people, vendor
      <3>3. ConfirmFine(c)' /\ \A d \in Confirms : d # c => confirm'[d] = confirm[d]
        BY <1>0, <3>2 DEF ConfirmFine, NoConfirm
      <3> QED
        BY <2>1, <2>2, <3>1, <3>2, <3>3, GrantKeeps
    <2>3. CASE UNCHANGED accounts
      BY <1>4, <1>5, <2>3 DEF ConfirmApply
    <2> QED
      BY <1>5, <2>2, <2>3 DEF ConfirmApply
  <1>6. CASE VendorConfirm(c)
    <2>1. k \in Keys /\ o \in Orders /\ reconcile[o].pc = "idle"
      BY <1>1, <1>6 DEF VendorConfirm
    <2>2. /\ order' = order /\ coins' = coins /\ bank' = bank /\ reconcile' = reconcile
          /\ refund' = refund /\ pay[k] \in Payment /\ pay \in [Keys -> Payment]
      BY <1>6, <2>1, MoneyTypes DEF VendorConfirm, accounts, people, MoneyInv
    <2>3. Amount[o] \in Nat
      BY <2>1, MoneyTypes DEF MoneyInv
    <2>4. ASSUME NEW reply, reply # "unknown", reply = "DONE" => pay'[k].st = "DONE",
                 confirm' = [confirm EXCEPT ![c].pc = "answered", ![c].reply = reply]
          PROVE  \A d \in Confirms : confirm'[d] = confirm[d] \/ ConfirmFine(d)'
      <3>1. /\ confirm'[c].pc = "answered" /\ confirm'[c].reply = reply /\ confirm'[c].key = k
            /\ \A d \in Confirms : d # c => confirm'[d] = confirm[d]
        BY <1>0, <2>1, <2>2, <2>4 DEF ConfirmJob
      <3>2. ConfirmFine(c)'
        BY <2>1, <2>2, <2>4, <3>1 DEF ConfirmFine
      <3> QED
        BY <3>1, <3>2
    <2>5. ASSUME NEW a \in ConfirmAnswers(k), pay' = [pay EXCEPT ![k] = a.pay],
                 confirm' = [confirm EXCEPT ![c].pc = "answered", ![c].reply = a.reply]
          PROVE  MoneyInv'
      <3>1. CASE a.pay = pay[k] /\ a.reply = "rejected"
        <4> PICK job : job = [confirm[c] EXCEPT !.pc = "answered", !.reply = "rejected"]
          OBVIOUS
        <4>1. confirm' = [confirm EXCEPT ![c] = job] /\ pay' = pay
          BY <1>0, <2>2, <2>5, <3>1
        <4>2. \A d \in Confirms : confirm'[d] = confirm[d] \/ ConfirmFine(d)'
          BY <2>4, <2>5, <3>1
        <4>3. Still
          BY <2>2, <4>1 DEF Still
        <4>4. \A q \in Orders : OwedBy(refund', q) <= OwedBy(refund, q)
          BY <2>2, MoneyTypes DEF MoneyInv
        <4> QED
          BY <2>2, <4>2, <4>3, <4>4, StillKeeps
      <3>2. CASE /\ pay[k].st = "IN_PROGRESS" /\ \A l \in KeysOf(o) : ~Live(l)
                 /\ \E s \in {"DONE", "WAITING_FOR_DEPOSIT"} : a = Approval(o, s)
        <4> PICK s \in {"DONE", "WAITING_FOR_DEPOSIT"} : a = Approval(o, s)
          BY <3>2
        <4> PICK p : p = a.pay
          OBVIOUS
        <4>1. p \in Payment /\ p.st = s /\ a.reply = s /\ BalanceFine(p, Amount[o])
          BY <2>3 DEF Approval, Payment, PayStatus, Revoking, Revoked, Replies, BalanceFine, Captured
        <4>2. pay[k].st \notin PaidFor /\ pay' = [pay EXCEPT ![k] = p] /\ pay'[k] = p
          BY <2>1, <2>2, <2>5, <3>2 DEF PaidFor
        <4>3. \A d \in Confirms : confirm'[d] = confirm[d] \/ ConfirmFine(d)'
          BY <2>4, <2>5, <4>1, <4>2
        <4> QED
          BY <2>1, <2>2, <3>2, <4>1, <4>2, <4>3, PaymentMoves
      <3> QED
        BY <3>1, <3>2 DEF ConfirmAnswers, Dependable
    <2>6. ASSUME pay[k].st = "IN_PROGRESS", Fault("reject"),
                 pay' = [pay EXCEPT ![k].st = "ABORTED", ![k].first = "rejected"],
                 confirm' = [confirm EXCEPT ![c].pc = "answered", ![c].reply = "rejected"]
          PROVE  MoneyInv'
      <3> PICK p : p = [pay[k] EXCEPT !.st = "ABORTED", !.first = "rejected"]
        OBVIOUS
      <3>1. p \in Payment /\ p.st = "ABORTED" /\ pay' = [pay EXCEPT ![k] = p] /\ p.bal = pay[k].bal
        BY <2>1, <2>2, <2>6 DEF Payment, PayStatus, Revoking, Revoked, Replies
      <3>2. p.bal = 0 /\ BalanceFine(p, Amount[o])
        BY <2>1, <2>3, <2>6, <3>1 DEF MoneyInv, PaymentsFine, BalanceFine, Captured
      <3>3. \A d \in Confirms : confirm'[d] = confirm[d] \/ ConfirmFine(d)'
        <4>1. /\ confirm'[c].pc = "answered" /\ confirm'[c].reply = "rejected"
              /\ confirm'[c].key = k /\ \A d \in Confirms : d # c => confirm'[d] = confirm[d]
          BY <1>0, <2>6 DEF ConfirmJob
        <4>2. ConfirmFine(c)'
          BY <2>1, <2>2, <4>1 DEF ConfirmFine
        <4> QED
          BY <4>1, <4>2
      <3>4. ~Live(k)'
        BY <2>1, <2>2, <3>1 DEF Live, Captured
      <3>5. pay[k].st \notin PaidFor
        BY <2>6 DEF PaidFor
      <3> QED
        BY <2>1, <2>2, <3>1, <3>2, <3>3, <3>4, <3>5, PaymentMoves
    <2>7. ~Fault("unknown")
      BY DEF Dependable, Fault
    <2> QED
      BY <1>6, <2>5, <2>6, <2>7 DEF VendorConfirm
  <1>7. ~ConfirmUnknown(c) /\ ~ConfirmResolve(c)
    BY <1>0 DEF ConfirmUnknown, ConfirmResolve, ConfirmFine
  <1> QED
    BY <1>3, <1>4, <1>5, <1>6, <1>7 DEF ConfirmStep, ConfirmRejected, ConfirmPending

\* The steps of payments at the vendor.
LEMMA PaymentMoney ==
  ASSUME Dependable, MoneyInv, IInv', NEW k \in Keys, PaymentStep(k)
  PROVE  MoneyInv'
  <1>0. /\ pay \in [Keys -> Payment] /\ pay[k] \in Payment /\ KeyOrder[k] \in Orders
        /\ Amount[KeyOrder[k]] \in Nat /\ BalanceFine(pay[k], Amount[KeyOrder[k]])
    BY MoneyTypes DEF MoneyInv, PaymentsFine
  <1>1. /\ order' = order /\ coins' = coins /\ bank' = bank /\ reconcile' = reconcile
        /\ refund' = refund /\ confirm' = confirm
    BY DEF PaymentStep, OpenWindow, Deposit, VendorRevoke, Expire, accounts, people
  <1>2. ASSUME NEW st \in {"IN_PROGRESS", "ABORTED"},
               pay[k].st \in {"NONE", "IN_PROGRESS", "WAITING_FOR_DEPOSIT"},
               pay' = [pay EXCEPT ![k].st = st]
        PROVE  MoneyInv'
    <2> PICK p : p = [pay[k] EXCEPT !.st = st]
      OBVIOUS
    <2>1. p \in Payment /\ p.st = st /\ p.bal = pay[k].bal /\ pay' = [pay EXCEPT ![k] = p]
      BY <1>0, <1>2 DEF Payment, PayStatus, Revoking, Revoked
    <2>2. BalanceFine(p, Amount[KeyOrder[k]]) /\ ~Live(k)' /\ pay[k].st \notin PaidFor
      BY <1>0, <1>2, <2>1 DEF BalanceFine, Captured, Live, PaidFor
    <2> QED
      BY <1>1, <2>1, <2>2, PaymentMoves
  <1>3. CASE Deposit(k)
    <2> PICK p : p = [pay[k] EXCEPT !.st = "DONE", !.bal = Amount[KeyOrder[k]]]
      OBVIOUS
    <2>1. p \in Payment /\ p.st = "DONE" /\ p.bal = Amount[KeyOrder[k]]
          /\ pay' = [pay EXCEPT ![k] = p]
      BY <1>0, <1>3 DEF Deposit, Payment, PayStatus
    <2>2. BalanceFine(p, Amount[KeyOrder[k]]) /\ Live(k) /\ pay[k].st \notin PaidFor
      BY <1>0, <1>3, <2>1 DEF Deposit, BalanceFine, Captured, Live, PaidFor
    <2> QED
      BY <1>1, <2>1, <2>2, PaymentMoves
  <1>4. ~VendorRevoke(k)
    BY DEF VendorRevoke, Fault, Dependable
  <1> QED
    BY <1>2, <1>3, <1>4 DEF PaymentStep, OpenWindow, Expire

\* An order's status changes and it may lose coins; only the reconciliation that holds
\* its lock makes it pending.
LEMMA StatusKeeps ==
  ASSUME MoneyInv, IInv', NEW o \in Orders, NEW row,
         order' = [order EXCEPT ![o] = row], row.ref = order[o].ref,
         row.refunded = order[o].refunded,
         coins'[o] <= coins[o], \A q \in Orders : q # o => coins'[q] = coins[q],
         bank' = bank, pay' = pay, confirm' = confirm, refund' = refund,
         \A q \in Orders : q # o => reconcile'[q] = reconcile[q],
         \/ row.status # "pending" /\ reconcile'[o] = reconcile[o]
         \/ /\ reconcile[o].pc # "idle" /\ reconcile'[o].pc = "idle"
            /\ order[o].ref # NoKey => pay[order[o].ref].st # "DONE"
  PROVE  MoneyInv'
  <1>0. /\ order'[o] = row /\ \A q \in Orders : q # o => order'[q] = order[q] /\ Steady(q)
        /\ PaidStays /\ PaymentsFine' /\ OrderFine(o)
    BY MoneyTypes, PaySame, PaymentsKept DEF MoneyInv, Steady, OrdersFine
  <1>1. reconcile'[o].pc # "idle" => Steady(o) /\ reconcile'[o] = reconcile[o]
    BY <1>0 DEF Steady
  <1>2. ASSUME NEW c \in Confirms PROVE ConfirmFine(c)'
    <2>1. confirm[c].pc # "idle" => /\ KeyOrder[confirm[c].key] \in Orders
                                    /\ reconcile[KeyOrder[confirm[c].key]].pc = "idle"
      BY InstanceAssumption DEF MoneyInv, IInv, ConfirmKeyed, ConfirmsFine, ConfirmFine
    <2>2. confirm[c].pc # "idle" => /\ reconcile'[KeyOrder[confirm[c].key]].pc = "idle"
                                    /\ Steady(KeyOrder[confirm[c].key])
      BY <1>0, <2>1 DEF Steady
    <2> QED
      BY <1>0, <2>2, ConfirmKept
  <1>3. ASSUME NEW q \in Orders PROVE ReconcileFine(q)' /\ OrderFine(q)'
    <2>1. CASE q # o
      BY <1>0, <2>1, ReconcileKept, OrderKept
    <2>2. ReconcileFine(o)'
      <3>1. CASE reconcile'[o].pc = "idle"
        BY <3>1 DEF ReconcileFine
      <3>2. CASE reconcile'[o].pc # "idle"
        BY <1>0, <1>1, <3>2, ReconcileKept
      <3> QED
        BY <3>1, <3>2
    <2>3. OrderFine(o)'
      <3>1. order[o].ref # NoKey /\ order'[o].status = "pending" => pay[order[o].ref].st # "DONE"
        BY <1>0
      <3> QED
        BY <1>0, <3>1 DEF OrderFine
    <2> QED
      BY <2>1, <2>2, <2>3
  <1>4. ASSUME NEW r \in Refunds PROVE RefundFine(r)'
    <2>1. /\ refund[r].reply # "unknown"
          /\ refund[r].pc # "idle" => refund[r].order \in Orders
      BY DEF MoneyInv, RefundsFine, RefundFine, IInv, RefundFits
    <2> QED
      BY <1>0, <2>1, RefundKept
  <1>5. ASSUME NEW q \in Orders PROVE AccountFine(q)'
    <2>1. /\ coins'[q] <= coins[q] /\ HeldIn(pay', q) = HeldIn(pay, q)
          /\ OwedBy(refund', q) <= OwedBy(refund, q) /\ order'[q].ref = order[q].ref
          /\ order'[q].refunded = order[q].refunded /\ \A l \in KeysOf(q) : pay'[l] = pay[l]
      BY <1>0, MoneyTypes DEF MoneyInv
    <2> QED
      BY <2>1, AccountKept
  <1> QED
    BY <1>0, <1>2, <1>3, <1>4, <1>5, MoneyParts

\* A reconciliation starts with the row as it is, when no confirmation has the lock.
LEMMA ReconcileBeginMoney ==
  ASSUME MoneyInv, IInv', NEW o \in Orders, NEW item, ReconcileBegin(o, item),
         UNCHANGED <<accounts, people, pay, confirm, refund>>
  PROVE  MoneyInv'
  <1> PICK job : job = [pc |-> "fetching", item |-> item, row |-> order[o], got |-> Nothing]
    OBVIOUS
  <1>1. reconcile' = [reconcile EXCEPT ![o] = job] /\ reconcile'[o] = job
    BY MoneyTypes DEF ReconcileBegin, MoneyInv
  <1>2. Still /\ confirm' = confirm /\ refund' = refund /\ order' = order
    BY DEF Still, accounts, people
  <1>3. OrderFine(o)
    BY DEF MoneyInv, OrdersFine
  <1>4. ReconcileFine(o)' /\ \A c \in Confirms : confirm[c].key \notin KeysOf(o)
    BY <1>1, <1>2, <1>3 DEF ReconcileFine, ReconcileBegin, LockFree, OrderFine
  <1> QED
    BY <1>1, <1>2, <1>4, ReconcileQuiet

\* What a lookup answers is a payment of the order, as it is; if the order's own is
\* whole, it is that one.
LEMMA LookupMoney ==
  ASSUME MoneyInv, NEW o \in Orders, NEW ref \in Keys \cup {NoKey},
         ref # NoKey => KeyOrder[ref] = o /\ order[o].ref \in {ref, NoKey},
         NEW k \in Lookup(o, ref)
  PROVE  /\ k \in Keys /\ KeyOrder[k] = o
         /\ order[o].ref # NoKey /\ pay[order[o].ref].st = "DONE" => k = order[o].ref
  <1>1. OrderFine(o) /\ PaymentsFine /\ order[o].ref \in Keys \cup {NoKey} /\ NoKey \notin Keys
    BY MoneyTypes DEF MoneyInv, OrdersFine
  <1>2. CASE ref \in Keys
    BY <1>1, <1>2 DEF Lookup
  <1>3. CASE ref \notin Keys
    <2>1. k \in Keys /\ KeyOrder[k] = o
      BY <1>3 DEF Lookup, KeysOf
    <2>2. ASSUME order[o].ref # NoKey, pay[order[o].ref].st = "DONE" PROVE k = order[o].ref
      <3>1. order[o].ref \in KeysOf(o) /\ Live(order[o].ref)
        BY <1>1, <2>2 DEF OrderFine, KeysOf, Live, Captured
      <3>2. Live(k)
        BY <1>3, <3>1 DEF Lookup
      <3> QED
        BY <1>1, <2>1, <3>1, <3>2 DEF PaymentsFine, KeysOf
    <2> QED
      BY <2>1, <2>2
  <1> QED
    BY <1>2, <1>3

\* The steps of reconcile_order.
LEMMA ReconcileMoney ==
  ASSUME Dependable, MoneyInv, IInv', NEW o \in Orders, ReconcileWork(o)
  PROVE  MoneyInv'
  <1> DEFINE j == reconcile[o]
  <1>0. /\ ReconcileFine(o) /\ OrderFine(o) /\ reconcile \in [Orders -> ReconcileJob]
        /\ j \in ReconcileJob /\ order[o].ref \in Keys \cup {NoKey} /\ NoKey \notin Keys
    BY MoneyTypes DEF MoneyInv, ReconcilesFine, OrdersFine
  <1>1. CASE ReconcileFetch(o)
    <2>1. Still /\ confirm' = confirm /\ refund' = refund /\ order' = order /\ pay' = pay
      BY <1>1 DEF ReconcileFetch, Still, accounts, people, vendor
    <2>2. ASSUME NEW f, reconcile' = [reconcile EXCEPT ![o].pc = "deciding", ![o].got = f],
                 f = Nothing \/ \E ref \in {j.row.ref, NoKey} : \E k \in Lookup(o, ref) :
                                  f = [key |-> k, st |-> pay[k].st, bal |-> pay[k].bal]
          PROVE  MoneyInv'
      <3> PICK job : job = [j EXCEPT !.pc = "deciding", !.got = f]
        OBVIOUS
      <3>1. /\ reconcile' = [reconcile EXCEPT ![o] = job] /\ reconcile'[o] = job
            /\ job.row = j.row /\ job.got = f
        BY <1>0, <2>2 DEF ReconcileJob
      <3>2. /\ j.pc # "idle" /\ order[o].ref \in {j.row.ref, NoKey}
            /\ j.row.ref # NoKey => KeyOrder[j.row.ref] = o
        BY <1>0, <1>1 DEF ReconcileFetch, ReconcileFine
      <3>3. /\ f.key # NoKey => KeyOrder[f.key] = o /\ f.st = pay[f.key].st
            /\ f.st \in Revoking /\ order[o].ref # NoKey => pay[order[o].ref].st # "DONE"
        <4>1. CASE f = Nothing
          BY <4>1 DEF Nothing, Revoking, Revoked
        <4>2. ASSUME NEW ref \in {j.row.ref, NoKey}, NEW k \in Lookup(o, ref),
                     f = [key |-> k, st |-> pay[k].st, bal |-> pay[k].bal]
              PROVE  /\ f.key # NoKey => KeyOrder[f.key] = o /\ f.st = pay[f.key].st
                     /\ f.st \in Revoking /\ order[o].ref # NoKey
                          => pay[order[o].ref].st # "DONE"
          <5>1. /\ k \in Keys /\ KeyOrder[k] = o
                /\ order[o].ref # NoKey /\ pay[order[o].ref].st = "DONE" => k = order[o].ref
            <6>1. ref \in Keys \cup {NoKey}
              BY <1>0 DEF ReconcileJob, OrderRow
            <6> QED
              BY <3>2, <4>2, <6>1, LookupMoney
          <5> QED
            BY <4>2, <5>1 DEF Revoking, Revoked
        <4> QED
          BY <2>2, <4>1, <4>2
      <3>4. ReconcileFine(o)'
        BY <2>1, <3>1, <3>2, <3>3 DEF ReconcileFine
      <3> QED
        BY <2>1, <3>1, <3>2, <3>4, ReconcileQuiet
    <2> QED
      BY <1>1, <2>2 DEF ReconcileFetch
  <1>2. ASSUME Finish(o), UNCHANGED accounts PROVE MoneyInv'
    <2>1. /\ reconcile' = [reconcile EXCEPT ![o] = NoReconcile] /\ reconcile'[o] = NoReconcile
          /\ Still /\ confirm' = confirm /\ refund' = refund
      BY <1>0, <1>2 DEF Finish, people, vendor, accounts, Still
    <2>2. NoReconcile.pc = "idle"
      BY DEF NoReconcile
    <2>3. ReconcileFine(o)'
      BY <2>1, <2>2 DEF ReconcileFine
    <2> QED
      BY <2>1, <2>2, <2>3, ReconcileQuiet
  <1>3. ASSUME Finish(o)
        PROVE  /\ bank' = bank /\ pay' = pay /\ confirm' = confirm /\ refund' = refund
               /\ j.pc = "deciding" /\ reconcile'[o].pc = "idle"
               /\ \A q \in Orders : q # o => reconcile'[q] = reconcile[q]
    BY <1>0, <1>3 DEF Finish, people, vendor, NoReconcile
  <1>4. CASE ReconcileGrant(o)
    <2>1. Finish(o) /\ j.got.key # NoKey /\ Unpaid(j)
      BY <1>4 DEF ReconcileGrant
    <2>2. CASE Confirmable(o) /\ Grant(o, "toss", j.got.key)
      <3>1. j.got.key \in Keys /\ KeyOrder[j.got.key] = o /\ order[o].status = "pending"
        BY <1>0, <1>3, <2>1, <2>2 DEF ReconcileFine, Confirmable, ReconcileJob, Found
      <3>2. pay[j.got.key].st = "DONE"
        BY <1>0, <1>3, <2>1, <3>1 DEF ReconcileFine, Unpaid
      <3> QED
        BY <1>3, <2>1, <2>2, <3>1, <3>2, GrantKeeps
    <2>3. CASE UNCHANGED accounts
      BY <1>2, <2>1, <2>3
    <2> QED
      BY <1>4, <2>2, <2>3 DEF ReconcileGrant
  <1>5. CASE ReconcileClaw(o)
    <2>1. Finish(o) /\ Clawback(o, ClawTarget(o, j)) /\ j.got.st \in Revoking
      BY <1>5 DEF ReconcileClaw, Overpaid
    <2> PICK row : row = [order[o] EXCEPT !.status = "pending"]
      OBVIOUS
    <2>2. /\ order' = [order EXCEPT ![o] = row] /\ row.ref = order[o].ref
          /\ row.refunded = order[o].refunded
      BY <1>5, MoneyTypes DEF ReconcileClaw, MoneyInv, OrderRow
    <2>3. coins'[o] <= coins[o] /\ \A q \in Orders : q # o => coins'[q] = coins[q]
      <3>1. PICK n : n = LeastOf(ClawTarget(o, j), topup[Owner[o]])
        OBVIOUS
      <3>2. n \in Int /\ n >= 0
        <4>1. ClawTarget(o, j) \in Int /\ ClawTarget(o, j) > 0
          <5>1. Amount[o] \in Nat /\ j.row.refunded \in Nat /\ VendorRemaining(j.got) \in Nat
            BY <1>0, MoneyTypes DEF MoneyInv, ReconcileJob, OrderRow, Found, VendorRemaining
          <5> QED
            BY <1>5, <5>1 DEF ReconcileClaw, Overpaid, ClawTarget
        <4>2. topup[Owner[o]] \in Nat
          BY OwnerType DEF MoneyInv, IInv, TypeOK
        <4> QED
          BY <3>1, <4>1, <4>2 DEF LeastOf
      <3>3. coins' = [coins EXCEPT ![o] = @ - n] /\ coins \in [Orders -> Int]
        BY <2>1, <3>1, <3>2, MoneyTypes DEF Clawback, Credit, MoneyInv
      <3> QED
        BY <3>2, <3>3
    <2>4. order[o].ref # NoKey => pay[order[o].ref].st # "DONE"
      BY <1>0, <1>3, <2>1 DEF ReconcileFine
    <2> QED
      BY <1>3, <2>1, <2>2, <2>3, <2>4, StatusKeeps
  <1>6. CASE ReconcileConsistent(o)
    BY <1>2, <1>6 DEF ReconcileConsistent
  <1> QED
    BY <1>1, <1>4, <1>5, <1>6 DEF ReconcileWork

\* A refund takes coins, or gives them back: what it owes and refunded_krw move with them.
LEMMA RefundMoves ==
  ASSUME MoneyInv, IInv', NEW r \in Refunds, NEW o \in Orders, NEW row, NEW job \in RefundJob,
         NEW d \in Int, order' = [order EXCEPT ![o] = row], row.ref = order[o].ref,
         row.status = "pending" => order[o].status = "pending",
         row.refunded \in Nat, order[o].refunded + d <= row.refunded,
         coins' = [coins EXCEPT ![o] = @ - d], refund[r].order = o,
         job.order = o \/ Outstanding(job) = 0,
         Outstanding(job) = Outstanding(refund[r]) + d,
         refund' = [refund EXCEPT ![r] = job], RefundFine(r)',
         bank' = bank, pay' = pay, confirm' = confirm, reconcile' = reconcile
  PROVE  MoneyInv'
  <1>0. /\ refund \in [Refunds -> RefundJob]
        /\ order \in [Orders -> OrderRow] /\ coins \in [Orders -> Int]
    BY MoneyTypes DEF MoneyInv
  <1>1. /\ order'[o] = row /\ coins'[o] = coins[o] - d /\ refund'[r] = job
        /\ \A q \in Orders : q # o => order'[q] = order[q] /\ coins'[q] = coins[q]
        /\ \A s \in Refunds : s # r => refund'[s] = refund[s]
        /\ OnlyAt(r, Refunds, refund, refund')
    BY <1>0 DEF OnlyAt
  <1>2. /\ PaidStays /\ PaymentsFine' /\ (\A q \in Orders : Steady(q)) /\ SameRefs
    BY <1>1, PaySame, PaymentsKept DEF MoneyInv, Steady, SameRefs
  <1>3. ASSUME NEW c \in Confirms PROVE ConfirmFine(c)'
    <2>1. confirm[c].pc # "idle" => /\ KeyOrder[confirm[c].key] \in Orders
                                    /\ reconcile'[KeyOrder[confirm[c].key]].pc = "idle"
      BY InstanceAssumption DEF MoneyInv, IInv, ConfirmKeyed, ConfirmsFine, ConfirmFine
    <2> QED
      BY <1>2, <2>1, ConfirmKept
  <1>4. ASSUME NEW q \in Orders PROVE ReconcileFine(q)' /\ OrderFine(q)'
    BY <1>2, ReconcileKept, OrderKept DEF SameRefs
  <1>5. ASSUME NEW s \in Refunds PROVE RefundFine(s)'
    <2>1. /\ refund[s].reply # "unknown"
          /\ refund[s].pc # "idle" => refund[s].order \in Orders
      BY DEF MoneyInv, RefundsFine, RefundFine, IInv, RefundFits
    <2> QED
      BY <1>1, <1>2, <2>1, RefundKept DEF SameRefs
  <1>6. ASSUME NEW q \in Orders PROVE AccountFine(q)'
    <2>1. Replaced(OwedBy(refund', q), OwedBy(refund, q), Share(refund[r], q), Share(refund'[r], q))
      BY <1>1, TablesTyped, OwedChanges
    <2>2. CASE q # o
      <3>1. /\ coins'[q] <= coins[q] /\ HeldIn(pay', q) = HeldIn(pay, q)
            /\ OwedBy(refund', q) <= OwedBy(refund, q) /\ order'[q] = order[q]
            /\ \A l \in KeysOf(q) : pay'[l] = pay[l]
        BY <1>1, <2>1, <2>2, MoneyTypes DEF Share, MoneyInv, Replaced
      <3> QED
        BY <3>1, AccountKept
    <2>3. CASE q = o
      <3>1. PICK owed, held, c, more :
               /\ owed = OwedBy(refund, o) /\ held = HeldIn(pay, o) /\ c = coins[o]
               /\ more = OwedBy(refund', o)
        OBVIOUS
      <3>2. /\ owed \in Nat /\ held \in Nat /\ c \in Int /\ order[o].refunded \in Nat
            /\ more \in Nat /\ more = owed + d
        <4>1. Outstanding(refund[r]) \in Nat /\ Outstanding(job) \in Nat
          BY <1>0 DEF Outstanding, RefundJob
        <4>2. more = owed - Outstanding(refund[r]) + Outstanding(job)
          BY <1>1, <2>1, <2>3, <3>1 DEF Share, Replaced
        <4>3. more \in Nat
          BY <3>1, TablesTyped
        <4> QED
          BY <3>1, <4>1, <4>2, <4>3, MoneyTypes DEF MoneyInv
      <3>3. AccountFine(o) /\ order[o].ref \in Keys \cup {NoKey} /\ Amount[o] \in Nat
            /\ bank[o] \in Nat
            /\ \A k \in Keys : pay[k].bal \in Nat
        BY MoneyTypes DEF MoneyInv, AccountsFine
      <3>4. coins'[o] + more <= held + bank[o] /\ more <= row.refunded
        <4>1. c + owed <= held + bank[o] /\ owed <= order[o].refunded
          BY <3>1, <3>3 DEF AccountFine
        <4> QED
          BY <1>1, <3>1, <3>2, <3>3, <4>1
      <3>5. ASSUME NEW l \in KeysOf(o), Grantable(l)', order'[o].ref # l
            PROVE  coins'[o] + more <= bank[o]
        <4>1. c + owed <= bank[o]
          BY <1>1, <3>1, <3>3, <3>5 DEF AccountFine, Grantable
        <4> QED
          BY <1>1, <3>1, <3>2, <3>3, <4>1
      <3>6. ASSUME order'[o].ref # NoKey
            PROVE  Amount[o] - pay'[order'[o].ref].bal + more <= row.refunded
        <4>1. PICK b \in Nat : b = pay[order[o].ref].bal /\ b = pay'[order'[o].ref].bal
          BY <1>1, <3>3, <3>6
        <4>2. Amount[o] - b + owed <= order[o].refunded
          BY <1>1, <3>1, <3>3, <3>6, <4>1 DEF AccountFine
        <4> QED
          BY <3>2, <3>3, <4>1, <4>2
      <3> QED
        BY <1>1, <2>3, <3>1, <3>4, <3>5, <3>6 DEF AccountFine
    <2> QED
      BY <2>2, <2>3
  <1> QED
    BY <1>2, <1>3, <1>4, <1>5, <1>6, MoneyParts

\* The vendor cancels: it gives back no more than the refund has taken, and what was
\* whole is the payment its order was granted for.
LEMMA VendorCancelsMoney ==
  ASSUME MoneyInv, IInv', NEW r \in Refunds, refund[r].pc = "calling", VendorCancels(r),
         Answered(r, "DONE"), UNCHANGED <<accounts, people, confirm, reconcile>>
  PROVE  MoneyInv'
  <1> DEFINE j == refund[r]
  <1> PICK k, o, n : k = j.key /\ o = j.order /\ n = CancelAmount(r)
    OBVIOUS
  <1> PICK p : p = [pay[k] EXCEPT !.bal = @ - n, !.st = IF n = pay[k].bal THEN "CANCELED"
                                                        ELSE "PARTIAL_CANCELED"]
    OBVIOUS
  <1> PICK job : job = [j EXCEPT !.pc = "answered", !.reply = "DONE"]
    OBVIOUS
  <1>0. /\ pay \in [Keys -> Payment] /\ refund \in [Refunds -> RefundJob] /\ j \in RefundJob
        /\ k \in Keys /\ o \in Orders /\ pay[k] \in Payment /\ Amount[o] \in Nat
        /\ RefundFine(r) /\ OrderFine(o) /\ AccountFine(o) /\ PaymentsFine
    BY MoneyTypes DEF MoneyInv, IInv, RefundFits, RefundsFine, OrdersFine, AccountsFine
  <1>1. /\ KeyOrder[k] = o /\ pay[k].st \in Captured /\ Live(k)
        /\ pay[k].st = "DONE" => order[o].ref = k
    BY <1>0 DEF VendorCancels, RefundFine, Live
  <1>2. /\ pay' = [pay EXCEPT ![k] = p] /\ refund' = [refund EXCEPT ![r] = job]
    BY <1>0 DEF VendorCancels, Answered
  <1>3. /\ pay'[k] = p /\ \A l \in Keys : l # k => pay'[l] = pay[l]
        /\ refund'[r] = job /\ \A s \in Refunds : s # r => refund'[s] = refund[s]
        /\ OnlyAt(k, Keys, pay, pay') /\ OnlyAt(r, Refunds, refund, refund')
    BY <1>0, <1>2 DEF OnlyAt
  <1>4. /\ p.st \in {"CANCELED", "PARTIAL_CANCELED"} /\ p.bal = pay[k].bal - n
        /\ (p.st = "CANCELED" => n = pay[k].bal)
        /\ n \in 1..pay[k].bal /\ n <= j.want /\ pay[k].bal <= Amount[o] /\ pay[k].bal \in Nat
    <2>1. pay[k].bal <= Amount[o] /\ pay[k].bal \in Nat /\ j.want \in Nat /\ j.prev \in Nat
      BY <1>0, <1>1 DEF PaymentsFine, BalanceFine, Payment, RefundJob
    <2>2. n <= j.want
      BY <1>0, <2>1 DEF CancelAmount
    <2> QED
      BY <1>0, <2>1, <2>2 DEF VendorCancels, Payment
  <1>5. /\ order' = order /\ coins' = coins /\ bank' = bank /\ confirm' = confirm
        /\ reconcile' = reconcile /\ SameRefs /\ \A q \in Orders : Steady(q)
    BY DEF accounts, people, SameRefs, Steady
  <1>6. PaidStays
    <2>1. pay[k].st = "DONE" => order[o].status # "pending"
      BY <1>0, <1>1, InstanceAssumption DEF OrderFine
    <2>2. /\ pay'[k].st \in PaidFor /\ pay'[k].st # "DONE"
          /\ pay[k].st = "DONE" => order[o].status # "pending"
      BY <1>3, <1>4, <2>1 DEF PaidFor
    <2> QED
      BY <1>1, <1>3, <2>2 DEF PaidStays
  <1>7. PaymentsFine'
    <2>1. BalanceFine(p, Amount[o])
      BY <1>0, <1>4 DEF BalanceFine, Captured
    <2>2. \A l \in Keys : BalanceFine(pay'[l], Amount[KeyOrder[l]])
      BY <1>0, <1>1, <1>3, <2>1 DEF PaymentsFine
    <2>3. \A l \in Keys : Live(l)' => Live(l)
      BY <1>1, <1>3 DEF Live
    <2> QED
      BY <1>0, <2>2, <2>3 DEF PaymentsFine
  <1>8. ASSUME NEW c \in Confirms PROVE ConfirmFine(c)'
    <2>1. confirm[c].pc # "idle" => /\ KeyOrder[confirm[c].key] \in Orders
                                    /\ reconcile'[KeyOrder[confirm[c].key]].pc = "idle"
      BY <1>5, InstanceAssumption DEF MoneyInv, IInv, ConfirmKeyed, ConfirmsFine, ConfirmFine
    <2> QED
      BY <1>5, <1>6, <2>1, ConfirmKept
  <1>9. ASSUME NEW q \in Orders PROVE ReconcileFine(q)' /\ OrderFine(q)'
    BY <1>5, <1>6, ReconcileKept, OrderKept DEF SameRefs
  <1>10. ASSUME NEW s \in Refunds PROVE RefundFine(s)'
    <2>1. /\ refund[s].reply # "unknown"
          /\ refund[s].pc # "idle" => refund[s].order \in Orders
      BY DEF MoneyInv, RefundsFine, RefundFine, IInv, RefundFits
    <2>2. job.reply = "DONE" /\ job.key = j.key /\ job.order = j.order
      BY <1>0 DEF RefundJob
    <2> QED
      BY <1>3, <1>5, <1>6, <2>1, <2>2, RefundKept DEF SameRefs
  <1>11. ASSUME NEW q \in Orders PROVE AccountFine(q)'
    <2>1. Replaced(OwedBy(refund', q), OwedBy(refund, q), Share(j, q), Share(refund'[r], q))
      BY <1>3, TablesTyped, OwedChanges
    <2>2. Share(j, o) = j.want /\ Share(job, o) = 0 /\ j.want \in Nat
          /\ (q # o => Share(j, q) = 0 /\ Share(job, q) = 0)
      BY <1>0 DEF Share, Outstanding, RefundJob
    <2>3. CASE q # o
      <3>1. k \notin KeysOf(q)
        BY <1>1, <2>3 DEF KeysOf
      <3>2. HeldIn(pay', q) = HeldIn(pay, q)
        BY <1>0, <1>3, <3>1, TablesTyped, HeldChanges
      <3>3. /\ coins'[q] <= coins[q] /\ OwedBy(refund', q) <= OwedBy(refund, q)
            /\ \A l \in KeysOf(q) : pay'[l] = pay[l]
        BY <1>3, <1>5, <2>1, <2>2, <2>3, <3>1, KeysFinite, MoneyTypes DEF MoneyInv, Replaced
      <3> QED
        BY <1>5, <3>2, <3>3, AccountKept
    <2>4. CASE q = o
      <3>1. PICK owed, held, c, less, kept, b :
               /\ owed = OwedBy(refund, o) /\ held = HeldIn(pay, o) /\ c = coins[o]
               /\ less = OwedBy(refund', o) /\ kept = HeldIn(pay', o) /\ b = pay[k].bal
        OBVIOUS
      <3>2. /\ owed \in Nat /\ held \in Nat /\ c \in Int /\ order[o].refunded \in Nat
            /\ less = owed - j.want /\ b \in Nat /\ n \in Nat /\ bank[o] \in Nat
            /\ order[o].ref \in Keys \cup {NoKey} /\ \A l \in Keys : pay[l].bal \in Nat
        BY <1>3, <1>4, <2>1, <2>2, <2>4, <3>1, MoneyTypes DEF MoneyInv, Replaced
      <3>3. kept = held - n
        <4>1. k \in KeysOf(o)
          BY <1>0, <1>1 DEF KeysOf
        <4>2. Replaced(HeldIn(pay', o), HeldIn(pay, o), pay[k].bal, pay'[k].bal)
          BY <1>0, <1>3, <4>1, TablesTyped, HeldChanges
        <4> QED
          BY <1>3, <1>4, <3>1, <3>2, <4>2 DEF Replaced
      <3>4. c + owed <= held + bank[o] /\ owed <= order[o].refunded
        BY <1>0, <3>1 DEF AccountFine
      <3>5. c + less <= kept + bank[o] /\ less <= order[o].refunded
        BY <1>4, <2>2, <3>2, <3>3, <3>4
      <3>6. ASSUME order[o].ref # NoKey
            PROVE  Amount[o] - pay'[order[o].ref].bal + less <= order[o].refunded
        <4>1. PICK old, new \in Nat : /\ old = pay[order[o].ref].bal
                                      /\ new = pay'[order[o].ref].bal /\ old - n <= new
          <5>1. CASE order[o].ref = k
            <6>1. pay'[order[o].ref].bal = p.bal /\ pay[order[o].ref].bal = b
              BY <1>3, <3>1, <5>1
            <6>2. p.bal \in Nat /\ b - n <= p.bal
              BY <1>4, <3>1, <3>2
            <6> QED
              BY <3>2, <6>1, <6>2
          <5>2. CASE order[o].ref # k
            BY <1>3, <1>4, <3>1, <3>2, <3>6, <5>2
          <5> QED
            BY <5>1, <5>2
        <4>2. Amount[o] - old + owed <= order[o].refunded
          BY <1>0, <3>1, <3>6, <4>1 DEF AccountFine
        <4> QED
          BY <1>0, <1>4, <2>2, <3>2, <4>1, <4>2
      <3>7. ASSUME NEW l \in KeysOf(o), Grantable(l)' PROVE FALSE
        <4>1. l \in Keys /\ KeyOrder[l] = o
          BY <3>7 DEF KeysOf
        <4>2. l # k
          BY <1>3, <1>4, <3>7 DEF Grantable
        <4>3. Live(l)
          BY <1>3, <3>7, <4>1, <4>2 DEF Grantable, Live, Captured
        <4> QED
          BY <1>0, <1>1, <4>1, <4>2, <4>3 DEF PaymentsFine
      <3> QED
        BY <1>5, <2>4, <3>1, <3>5, <3>6, <3>7 DEF AccountFine
    <2> QED
      BY <2>3, <2>4
  <1> QED
    BY <1>7, <1>8, <1>9, <1>10, <1>11, MoneyParts

\* The steps of refund_toss_payment.
LEMMA RefundMoney ==
  ASSUME Dependable, MoneyInv, IInv', NEW r \in Refunds, RefundStep(r)
  PROVE  MoneyInv'
  <1> PICK j, o, k : j = refund[r] /\ o = j.order /\ k = j.key
    OBVIOUS
  <1>0. /\ refund \in [Refunds -> RefundJob] /\ j \in RefundJob /\ RefundFine(r)
        /\ order \in [Orders -> OrderRow] /\ coins \in [Orders -> Int]
        /\ j.want \in Nat /\ j.prev \in Nat
    BY MoneyTypes DEF MoneyInv, RefundsFine, RefundJob
  <1>1. ASSUME j.pc # "idle" PROVE o \in Orders /\ k \in Keys /\ order[o].refunded \in Nat
    BY <1>0, <1>1 DEF MoneyInv, IInv, RefundFits, OrderRow
  <1>2. ASSUME UNCHANGED <<accounts, people>>, pay' = pay PROVE Still /\ order' = order
    BY <1>2 DEF accounts, people, Still
  <1>3. ASSUME refund' = [refund EXCEPT ![r] = NoRefund], pay' = pay,
               UNCHANGED <<accounts, people, confirm, reconcile>>
        PROVE  MoneyInv'
    <2>1. refund'[r] = NoRefund /\ NoRefund \in RefundJob
      BY <1>0, <1>3 DEF NoRefund, RefundJob, Replies
    <2>2. RefundFine(r)' /\ Outstanding(NoRefund) = 0
      BY <2>1 DEF RefundFine, NoRefund, Outstanding
    <2> QED
      BY <1>2, <1>3, <2>1, <2>2, RefundQuiet
  <1>4. ASSUME NEW q \in Orders, NEW want \in 1..Amount[q], RefundBegin(r, q, want)
        PROVE  MoneyInv'
    <2> PICK job : job = [pc |-> "read", order |-> q, key |-> order[q].ref, want |-> want,
                          prev |-> order[q].refunded, reply |-> "none"]
      OBVIOUS
    <2>1. /\ refund' = [refund EXCEPT ![r] = job] /\ refund'[r] = job /\ order[q].ref # NoKey
      BY <1>0, <1>4 DEF RefundBegin
    <2>2. Still /\ order' = order /\ pay' = pay /\ confirm' = confirm /\ reconcile' = reconcile
      BY <1>2, <1>4 DEF RefundBegin, vendor
    <2>3. job \in RefundJob /\ Outstanding(job) = 0
      <3>1. refund'[r] \in RefundJob
        BY DEF IInv, TypeOK
      <3> QED
        BY <2>1, <3>1 DEF Outstanding
    <2>4. RefundFine(r)'
      <3>1. OrderFine(q)
        BY DEF MoneyInv, OrdersFine
      <3>2. job.reply # "unknown" /\ job.key = order[q].ref /\ job.order = q
        OBVIOUS
      <3> QED
        BY <2>1, <2>2, <3>1, <3>2 DEF OrderFine, RefundFine
    <2> QED
      BY <2>1, <2>2, <2>3, <2>4, RefundQuiet
  <1>5. CASE RefundCommit(r)
    <2>1. CASE UNCHANGED accounts /\ refund' = [refund EXCEPT ![r] = NoRefund]
      BY <1>3, <1>5, <2>1 DEF RefundCommit, vendor
    <2>2. CASE /\ order[o].refunded = j.prev /\ Credit(o, -j.want)
               /\ order' = [order EXCEPT
                              ![o].refunded = j.prev + j.want,
                              ![o].status = IF j.prev + j.want >= Amount[o]
                                            THEN "refunded" ELSE @]
               /\ refund' = [refund EXCEPT ![r].pc = "calling"]
      <3>1. /\ o \in Orders /\ k \in Keys /\ j.pc = "read"
            /\ bank' = bank /\ pay' = pay /\ confirm' = confirm /\ reconcile' = reconcile
        BY <1>1, <1>5 DEF RefundCommit, people, vendor
      <3> PICK row : row = [order[o] EXCEPT !.refunded = j.prev + j.want,
                                            !.status = IF j.prev + j.want >= Amount[o]
                                                       THEN "refunded" ELSE @]
        OBVIOUS
      <3> PICK job : job = [j EXCEPT !.pc = "calling"]
        OBVIOUS
      <3>2. order' = [order EXCEPT ![o] = row] /\ refund' = [refund EXCEPT ![r] = job]
        BY <1>0, <2>2
      <3>3. /\ row.ref = order[o].ref /\ row.refunded = j.prev + j.want
            /\ (row.status = "pending" => order[o].status = "pending")
        BY <1>0, <3>1 DEF OrderRow
      <3>4. /\ job \in RefundJob /\ job.order = o /\ job.key = k /\ job.reply = j.reply
            /\ Outstanding(job) = j.want /\ Outstanding(j) = 0
        BY <1>0, <3>1 DEF RefundJob, Outstanding
      <3>5. refund'[r] = job /\ order'[o] = row
        BY <1>0, <3>1, <3>2
      <3>6. RefundFine(r)'
        <4>1. refund[r].pc # "idle" /\ order'[refund[r].order].ref = order[refund[r].order].ref
          BY <3>1, <3>3, <3>5
        <4>2. /\ refund'[r].key = refund[r].key /\ refund'[r].order = refund[r].order
              /\ refund'[r].reply # "unknown"
          BY <1>0, <3>4, <3>5 DEF RefundFine
        <4> QED
          BY <3>1, <4>1, <4>2, RefundKept, PaySame
      <3> PICK d \in Int : d = j.want
        BY <1>0
      <3>7. coins' = [coins EXCEPT ![o] = @ - d]
        BY <1>0, <2>2 DEF Credit
      <3>8. /\ row.refunded \in Nat /\ order[o].refunded + d <= row.refunded
            /\ Outstanding(job) = Outstanding(refund[r]) + d
        BY <1>0, <2>2, <3>3, <3>4
      <3> QED
        BY <3>1, <3>2, <3>3, <3>4, <3>6, <3>7, <3>8, RefundMoves
    <2> QED
      BY <1>5, <2>1, <2>2 DEF RefundCommit
  <1>6. CASE RefundDone(r)
    BY <1>3, <1>6 DEF RefundDone, vendor
  <1>7. CASE RefundRevert(r)
    <2>1. /\ o \in Orders /\ k \in Keys /\ j.pc = "answered" /\ j.reply \in {"rejected", "unknown"}
          /\ bank' = bank /\ pay' = pay /\ confirm' = confirm /\ reconcile' = reconcile
          /\ refund' = [refund EXCEPT ![r] = NoRefund] /\ Credit(o, j.want)
          /\ order[o].refunded \in Nat
      BY <1>1, <1>7 DEF RefundRevert, people, vendor
    <2> PICK job : job = NoRefund
      OBVIOUS
    <2> PICK d \in Int : d = -j.want
      BY <1>0
    <2> PICK row : row = order'[o]
      OBVIOUS
    <2>2. /\ order' = [order EXCEPT ![o] = row] /\ row.ref = order[o].ref
          /\ row.status = "pending" => order[o].status = "pending"
          /\ row.refunded \in Nat /\ order[o].refunded + d <= row.refunded
      <3>1. CASE order' = order
        BY <1>0, <2>1, <3>1
      <3>2. CASE /\ RefundUntouched(o, j)
                 /\ order' = [order EXCEPT ![o].refunded = j.prev,
                                           ![o].status = IF j.prev <= 0 THEN "paid" ELSE @]
        <4>1. /\ row.ref = order[o].ref /\ row.refunded = j.prev
              /\ row.status = "pending" => order[o].status = "pending"
          BY <1>0, <2>1, <3>2 DEF OrderRow
        <4>2. order' = [order EXCEPT ![o] = row]
          BY <1>0, <2>1, <3>2
        <4> QED
          BY <1>0, <2>1, <3>2, <4>1, <4>2 DEF RefundUntouched
      <3> QED
        BY <1>7, <3>1, <3>2 DEF RefundRevert
    <2>3. coins' = [coins EXCEPT ![o] = @ - d]
      <3>1. coins[o] \in Int /\ coins[o] + j.want = coins[o] - d
        BY <1>0, <2>1
      <3> QED
        BY <1>0, <2>1, <3>1 DEF Credit
    <2>4. /\ job \in RefundJob /\ refund' = [refund EXCEPT ![r] = job] /\ RefundFine(r)'
          /\ Outstanding(job) = 0 /\ Outstanding(job) = Outstanding(refund[r]) + d
      <3>1. job \in RefundJob /\ job.pc = "idle" /\ job.reply = "none" /\ refund'[r] = job
        BY <1>0, <2>1 DEF NoRefund, RefundJob, Replies
      <3> QED
        BY <1>0, <2>1, <3>1 DEF Outstanding, RefundFine
    <2>5. /\ o \in Orders /\ refund[r].order = o
          /\ bank' = bank /\ pay' = pay /\ confirm' = confirm /\ reconcile' = reconcile
      BY <2>1
    <2> QED
      BY <2>2, <2>3, <2>4, <2>5, RefundMoves
  <1>8. CASE VendorCancel(r)
    <2>1. /\ o \in Orders /\ k \in Keys /\ j.pc = "calling"
          /\ UNCHANGED <<accounts, people, confirm, reconcile>>
          /\ confirm' = confirm /\ reconcile' = reconcile
      BY <1>1, <1>8 DEF VendorCancel
    <2>2. ASSUME NEW reply, reply \in {"DONE", "rejected"}, Answered(r, reply), pay' = pay
          PROVE  MoneyInv'
      <3> PICK job : job = [j EXCEPT !.pc = "answered", !.reply = reply]
        OBVIOUS
      <3>1. /\ refund' = [refund EXCEPT ![r] = job] /\ refund'[r] = job /\ job \in RefundJob
            /\ job.reply = reply /\ job.key = k /\ job.order = o /\ job.pc = "answered"
        BY <1>0, <2>2 DEF Answered, RefundJob, Replies
      <3>2. Still /\ order' = order
        BY <1>2, <2>1, <2>2
      <3>3. RefundFine(r)'
        BY <1>0, <2>1, <2>2, <3>1, <3>2 DEF RefundFine, Live
      <3>4. Outstanding(job) = 0 \/ Outstanding(job) = Outstanding(j)
        BY <1>0, <2>1, <3>1 DEF Outstanding, RefundJob
      <3> QED
        BY <2>1, <3>1, <3>2, <3>3, <3>4, RefundQuiet
    <2>3. CASE cancels[CancelId(r)] # "none"
      <3> PICK reply : reply = cancels[CancelId(r)]
        OBVIOUS
      <3>1. Answered(r, reply) /\ pay' = pay
        BY <1>8, <2>3 DEF VendorCancel, vendor
      <3>2. reply \in {"DONE", "rejected"}
        <4>1. CancelId(r) \in CancelKeys
          <5>1. j.prev + j.want \in 1..Amount[o]
            BY <1>0, <2>1, OwnerType DEF MoneyInv, IInv, RefundFits
          <5> QED
            BY <2>1, <5>1 DEF CancelId, CancelKeys
        <4> QED
          BY <2>3, <4>1 DEF MoneyInv, IInv, TypeOK
      <3> QED
        BY <2>2, <3>1, <3>2
    <2>4. CASE cancels[CancelId(r)] = "none"
      <3>1. CASE VendorCancels(r) /\ Answered(r, "DONE")
        BY <2>1, <3>1, VendorCancelsMoney
      <3>2. CASE Answered(r, "rejected") /\ UNCHANGED <<pay, signals>>
        <4> PICK reply : reply = "rejected"
          OBVIOUS
        <4>1. Answered(r, reply) /\ pay' = pay /\ reply \in {"DONE", "rejected"}
          BY <3>2
        <4> QED
          BY <2>2, <4>1
      <3>3. ~Fault("unknown")
        BY DEF Dependable, Fault
      <3> QED
        BY <1>8, <2>4, <3>1, <3>2, <3>3 DEF VendorCancel
    <2> QED
      BY <2>3, <2>4
  <1> QED
    BY <1>4, <1>5, <1>6, <1>7, <1>8 DEF RefundStep

\* A bank transfer grants an order that is pending: its payment, if it had one, is not
\* whole, so no refund under way rests on it.
LEMMA TransferKeeps ==
  ASSUME MoneyInv, IInv', NEW o \in Orders, ManualConfirm(o)
  PROVE  MoneyInv'
  <1>0. /\ order[o].status = "pending" /\ order'[o].status = "paid" /\ order'[o].ref = NoKey
        /\ order'[o].refunded = order[o].refunded /\ coins'[o] = coins[o] + Amount[o]
        /\ bank[o] = 0 /\ bank'[o] = Amount[o]
        /\ \A q \in Orders : q # o => /\ order'[q] = order[q] /\ coins'[q] = coins[q]
                                      /\ bank'[q] = bank[q]
    BY MoneyTypes DEF MoneyInv, ManualConfirm, Confirmable, Grant, Credit, OrderRow
  <1>1. pay' = pay /\ confirm' = confirm /\ reconcile' = reconcile /\ refund' = refund
    BY DEF ManualConfirm, vendor
  <1>2. PaidStays /\ PaymentsFine' /\ \A q \in Orders : Steady(q)
    BY <1>0, <1>1, PaySame, PaymentsKept DEF MoneyInv, Steady
  <1>3. /\ OrderFine(o) /\ AccountFine(o) /\ ReconcileFine(o)
        /\ order[o].ref \in Keys \cup {NoKey} /\ NoKey \notin Keys
    BY MoneyTypes DEF MoneyInv, OrdersFine, AccountsFine, ReconcilesFine
  <1>4. ASSUME NEW c \in Confirms PROVE ConfirmFine(c)'
    <2>1. confirm[c].pc # "idle" => /\ KeyOrder[confirm[c].key] \in Orders
                                    /\ reconcile'[KeyOrder[confirm[c].key]].pc = "idle"
      BY <1>1, InstanceAssumption DEF MoneyInv, IInv, ConfirmKeyed, ConfirmsFine, ConfirmFine
    <2> QED
      BY <1>1, <1>2, <2>1, ConfirmKept
  <1>5. ASSUME NEW q \in Orders PROVE ReconcileFine(q)' /\ OrderFine(q)'
    <2>1. CASE q = o
      BY <1>0, <1>1, <1>3, <2>1 DEF ReconcileFine, OrderFine
    <2>2. CASE q # o
      <3>1. order'[q] = order[q] /\ Steady(q) /\ OrderFine(q)
        BY <1>0, <1>2, <2>2 DEF MoneyInv, OrdersFine
      <3> QED
        BY <1>1, <1>2, <3>1, ReconcileKept DEF OrderFine
    <2> QED
      BY <2>1, <2>2
  <1>6. ASSUME NEW r \in Refunds PROVE RefundFine(r)'
    <2>1. /\ RefundFine(r) /\ refund[r].reply # "unknown"
          /\ refund[r].pc # "idle" => refund[r].order \in Orders /\ refund[r].key \in Keys
      BY DEF MoneyInv, RefundsFine, RefundFine, IInv, RefundFits
    <2>2. CASE refund[r].pc # "idle" /\ refund[r].order = o
      <3>1. pay[refund[r].key].st # "DONE"
        BY <1>0, <1>3, <2>1, <2>2 DEF RefundFine, OrderFine
      <3> QED
        BY <1>1, <2>1, <2>2, <3>1 DEF RefundFine
    <2>3. CASE ~(refund[r].pc # "idle" /\ refund[r].order = o)
      BY <1>0, <1>1, <1>2, <2>1, <2>3, RefundKept
    <2> QED
      BY <2>2, <2>3
  <1>7. ASSUME NEW q \in Orders PROVE AccountFine(q)'
    <2>1. CASE q = o
      <3>1. PICK owed, held, c, n :
               /\ owed = OwedBy(refund, o) /\ held = HeldIn(pay, o) /\ c = coins[o]
               /\ n = Amount[o]
        OBVIOUS
      <3>2. owed \in Nat /\ held \in Nat /\ c \in Int /\ n \in Nat
        BY <3>1, MoneyTypes DEF MoneyInv
      <3>3. c + owed <= held + bank[o] /\ owed <= order[o].refunded
        BY <1>3, <3>1 DEF AccountFine
      <3>4. c + n + owed <= held + n
        BY <1>0, <3>2, <3>3
      <3>5. ASSUME NEW l \in KeysOf(o), Grantable(l)' PROVE c + n + owed <= n
        <4>1. Grantable(l) /\ order[o].ref # l
          BY <1>0, <1>1, <1>3, <3>5, KeysFinite DEF Grantable, OrderFine, PaidFor
        <4>2. c + owed <= bank[o]
          BY <1>3, <3>1, <4>1 DEF AccountFine
        <4> QED
          BY <1>0, <3>2, <4>2
      <3> QED
        BY <1>0, <1>1, <2>1, <3>1, <3>3, <3>4, <3>5 DEF AccountFine
    <2>2. CASE q # o
      <3>1. /\ coins'[q] <= coins[q] /\ HeldIn(pay', q) = HeldIn(pay, q) /\ bank'[q] = bank[q]
            /\ OwedBy(refund', q) <= OwedBy(refund, q) /\ order'[q] = order[q]
            /\ \A l \in KeysOf(q) : pay'[l] = pay[l]
        BY <1>0, <1>1, <2>2, MoneyTypes DEF MoneyInv
      <3> QED
        BY <3>1, AccountKept
    <2> QED
      BY <2>1, <2>2
  <1> QED
    BY <1>2, <1>4, <1>5, <1>6, <1>7, MoneyParts

\* The other steps of customers and staff leave payments and requests alone.
LEMMA PeopleMoney ==
  ASSUME Dependable, MoneyInv, IInv',
         \/ \E o \in Orders : CancelOrder(o) \/ ManualConfirm(o)
         \/ \E u \in Users : Spend(u) \/ Withdraw(u)
         \/ PurgeBuyers
         \/ \E s \in Signal : LoseWebhook(s)
  PROVE  MoneyInv'
  <1>0. \A o \in Orders : OwedBy(refund, o) <= OwedBy(refund, o)
    BY MoneyTypes DEF MoneyInv
  <1>1. ASSUME Still, confirm' = confirm, reconcile' = reconcile, refund' = refund
        PROVE  MoneyInv'
    BY <1>0, <1>1, StillKeeps
  <1>2. ASSUME NEW o \in Orders, CancelOrder(o) PROVE MoneyInv'
    <2> PICK row : row = [order[o] EXCEPT !.status = "canceled"]
      OBVIOUS
    <2>1. /\ order' = [order EXCEPT ![o] = row] /\ row.ref = order[o].ref
          /\ row.refunded = order[o].refunded /\ row.status # "pending"
      BY <1>2, MoneyTypes DEF CancelOrder, MoneyInv, OrderRow
    <2>2. /\ coins' = coins /\ bank' = bank /\ pay' = pay /\ confirm' = confirm
          /\ refund' = refund /\ reconcile' = reconcile
      BY <1>2 DEF CancelOrder, people, vendor
    <2>3. coins'[o] <= coins[o]
      BY <2>2, MoneyTypes DEF MoneyInv
    <2> QED
      BY <2>1, <2>2, <2>3, StatusKeeps
  <1>3. ASSUME NEW o \in Orders, ManualConfirm(o) PROVE MoneyInv'
    BY <1>3, TransferKeeps
  <1>4. ASSUME NEW u \in Users, Spend(u) PROVE MoneyInv'
    BY <1>1, <1>4 DEF Spend, Still, vendor
  <1>5. ASSUME NEW u \in Users, Withdraw(u) PROVE MoneyInv'
    BY <1>1, <1>5 DEF Withdraw, Still, vendor, accounts
  <1>6. CASE PurgeBuyers
    <2>1. \A o \in Orders : /\ order'[o].status = order[o].status
                            /\ order'[o].ref = order[o].ref
                            /\ order'[o].refunded = order[o].refunded
      BY <1>6, MoneyTypes DEF PurgeBuyers, MoneyInv, OrderRow
    <2> QED
      BY <1>1, <1>6, <2>1 DEF PurgeBuyers, Still, people, vendor
  <1>7. ASSUME NEW s \in Signal, LoseWebhook(s) PROVE MoneyInv'
    BY <1>1, <1>7 DEF LoseWebhook, Still, accounts, people
  <1> QED
    BY <1>2, <1>3, <1>4, <1>5, <1>6, <1>7

\* Reconciliations start.
LEMMA StartMoney ==
  ASSUME MoneyInv, IInv',
         \/ \E o \in Orders : AdminReconcile(o)
         \/ \E i \in Keys \cup Orders : SchedulerReconcile(i)
         \/ \E s \in Signal : WebhookReconcile(s)
  PROVE  MoneyInv'
  <1>1. ASSUME NEW o \in Orders, AdminReconcile(o) PROVE MoneyInv'
    BY <1>1, ReconcileBeginMoney DEF AdminReconcile, vendor
  <1>2. ASSUME NEW i \in Keys \cup Orders, SchedulerReconcile(i) PROVE MoneyInv'
    <2> PICK o : o = IF i \in Keys THEN KeyOrder[i] ELSE i
      OBVIOUS
    <2>1. o \in Orders /\ ReconcileBegin(o, i)
      BY <1>2, InstanceAssumption DEF SchedulerReconcile
    <2> QED
      BY <1>2, <2>1, ReconcileBeginMoney DEF SchedulerReconcile, vendor
  <1>3. ASSUME NEW s \in Signal, WebhookReconcile(s) PROVE MoneyInv'
    <2> PICK o : o = s.order
      OBVIOUS
    <2>1. o \in Orders /\ ReconcileBegin(o, NoKey)
      BY <1>3 DEF WebhookReconcile, Signal
    <2> QED
      BY <1>3, <2>1, ReconcileBeginMoney DEF WebhookReconcile
  <1> QED
    BY <1>1, <1>2, <1>3

\* A crash: what a refund has taken by then is taken, and no longer given back.
LEMMA CrashMoney ==
  ASSUME MoneyInv, IInv', Crash
  PROVE  MoneyInv'
  <1>1. Still /\ order' = order /\ pay' = pay
    BY DEF Crash, Still, accounts, people, vendor
  <1>2. ASSUME NEW c \in Confirms, confirm' = [confirm EXCEPT ![c] = NoConfirm],
               reconcile' = reconcile, refund' = refund
        PROVE  MoneyInv'
    BY <1>1, <1>2, ConfirmQuiet
  <1>3. ASSUME NEW o \in Orders, reconcile' = [reconcile EXCEPT ![o] = NoReconcile],
               confirm' = confirm, refund' = refund
        PROVE  MoneyInv'
    <2> PICK job : job = NoReconcile
      OBVIOUS
    <2>1. reconcile' = [reconcile EXCEPT ![o] = job] /\ reconcile'[o] = job /\ job.pc = "idle"
      BY <1>3, MoneyTypes DEF MoneyInv, NoReconcile
    <2>2. ReconcileFine(o)'
      BY <2>1 DEF ReconcileFine
    <2> QED
      BY <1>1, <1>3, <2>1, <2>2, ReconcileQuiet
  <1>4. ASSUME NEW r \in Refunds, refund' = [refund EXCEPT ![r] = NoRefund],
               confirm' = confirm, reconcile' = reconcile
        PROVE  MoneyInv'
    <2> PICK job : job = NoRefund
      OBVIOUS
    <2>1. /\ refund' = [refund EXCEPT ![r] = job] /\ refund'[r] = job /\ job \in RefundJob
          /\ job.pc = "idle" /\ job.reply = "none"
      BY <1>4, MoneyTypes DEF MoneyInv, NoRefund, RefundJob, Replies
    <2>2. RefundFine(r)' /\ Outstanding(job) = 0
      BY <2>1 DEF RefundFine, Outstanding
    <2> QED
      BY <1>1, <1>4, <2>1, <2>2, RefundQuiet
  <1> QED
    BY <1>2, <1>3, <1>4 DEF Crash

\* Every step keeps the invariant.
LEMMA MoneyNext ==
  ASSUME Dependable, MoneyInv, [Next]_vars
  PROVE  MoneyInv'
  <1>1. IInv'
    BY IInvNext DEF MoneyInv
  <1>2. CASE UNCHANGED vars
    <2>1. /\ Still /\ confirm' = confirm /\ reconcile' = reconcile /\ refund' = refund
      BY <1>2 DEF vars, Still
    <2>2. \A o \in Orders : OwedBy(refund', o) <= OwedBy(refund, o)
      BY <2>1, MoneyTypes DEF MoneyInv
    <2> QED
      BY <1>1, <2>1, <2>2, StillKeeps
  <1>3. CASE Next
    BY <1>1, <1>3, ConfirmMoney, RefundMoney, ReconcileMoney, StartMoney, PeopleMoney,
       PaymentMoney, CrashMoney DEF Next
  <1> QED
    BY <1>2, <1>3

\* Nothing is paid, granted or refunded at first.
LEMMA MoneyInit == Init => MoneyInv
  <1> SUFFICES ASSUME Init PROVE MoneyInv
    OBVIOUS
  <1>1. IInv
    BY IInvInit
  <1>2. /\ \A k \in Keys : pay[k].st = "NONE" /\ pay[k].bal = 0
        /\ \A o \in Orders : /\ order[o].ref = NoKey /\ order[o].refunded = 0
                             /\ coins[o] = 0 /\ bank[o] = 0 /\ reconcile[o].pc = "idle"
        /\ \A c \in Confirms : confirm[c].pc = "idle" /\ confirm[c].reply = "none"
        /\ \A r \in Refunds : refund[r].pc = "idle" /\ refund[r].reply = "none"
    BY DEF Init, NewOrder, NoConfirm, NoReconcile, NoRefund
  <1>3. PaymentsFine
    BY <1>2, InstanceAssumption DEF PaymentsFine, BalanceFine, Live, Captured
  <1>4. OrdersFine /\ ConfirmsFine /\ ReconcilesFine /\ RefundsFine
    BY <1>2 DEF OrdersFine, OrderFine, ConfirmsFine, ConfirmFine, ReconcilesFine, ReconcileFine,
                RefundsFine, RefundFine
  <1>5. ASSUME NEW o \in Orders PROVE AccountFine(o)
    <2>1. OwedBy(refund, o) = 0
      <3>0. PICK f : f = [r \in Refunds |-> Share(refund[r], o)]
        OBVIOUS
      <3>1. \A r \in Refunds : f[r] = 0
        BY <1>2, <3>0 DEF Share, Outstanding
      <3>2. OwedBy(refund, o) = SumFunctionOnSet(f, Refunds)
        BY <3>0 DEF OwedBy
      <3>3. SumFunctionOnSet(f, Refunds) = 0
        BY <3>1, SumOfZeros, InstanceAssumption
      <3> QED
        BY <3>2, <3>3
    <2>2. HeldIn(pay, o) \in Nat
      BY <1>1, MoneyTypes
    <2> QED
      BY <1>2, <2>1, <2>2 DEF AccountFine
  <1> QED
    BY <1>1, <1>3, <1>4, <1>5 DEF MoneyInv, AccountsFine

\* The invariant, where the vendor and its answers can be relied on.
THEOREM MoneyInvariance == ASSUME Dependable PROVE Spec => []MoneyInv
  <1>1. MoneyInv /\ [Next]_vars => MoneyInv'
    BY MoneyNext
  <1> QED
    BY <1>1, MoneyInit, PTL DEF Spec

\* NeverBoth: whatever requests, reconciliations and crashes do to each other, an order
\* never has more coins than the money the vendor holds for it.
THEOREM NobodyHasBoth == ASSUME Dependable PROVE Spec => []NeverBoth
  <1>1. MoneyInv => NeverBoth
    <2> SUFFICES ASSUME MoneyInv, NEW o \in Orders PROVE coins[o] <= Money(o)
      BY DEF NeverBoth
    <2>1. AccountFine(o)
      BY DEF MoneyInv, AccountsFine
    <2>2. Money(o) = bank[o] + HeldIn(pay, o)
      BY DEF Money, HeldIn
    <2>3. coins[o] \in Int /\ OwedBy(refund, o) \in Nat /\ HeldIn(pay, o) \in Nat
      BY MoneyTypes DEF MoneyInv
    <2>4. bank[o] \in Nat /\ coins[o] + OwedBy(refund, o) <= HeldIn(pay, o) + bank[o]
      BY <2>1, MoneyTypes DEF AccountFine, MoneyInv
    <2> QED
      BY <2>2, <2>3, <2>4
  <1> QED
    BY <1>1, MoneyInvariance, PTL

\* ReturnedIsRecorded: refunded_krw never forgets what went back, though requests that
\* were refused restore it while others are under way.
THEOREM ReturnsAreRecorded == ASSUME Dependable PROVE Spec => []ReturnedIsRecorded
  <1>1. MoneyInv => ReturnedIsRecorded
    <2> SUFFICES ASSUME MoneyInv, NEW o \in Orders, order[o].ref # NoKey
                 PROVE  Amount[o] - pay[order[o].ref].bal <= order[o].refunded
      BY DEF ReturnedIsRecorded
    <2>1. PICK b \in Nat : b = pay[order[o].ref].bal
      BY MoneyTypes DEF MoneyInv
    <2>2. Amount[o] - b + OwedBy(refund, o) <= order[o].refunded
      BY <2>1 DEF AccountFine, MoneyInv, AccountsFine
    <2>3. /\ OwedBy(refund, o) \in Nat /\ Amount[o] \in Nat /\ order[o].refunded \in Nat
      BY MoneyTypes DEF MoneyInv
    <2> QED
      BY <2>1, <2>2, <2>3
  <1> QED
    BY <1>1, MoneyInvariance, PTL

-----------------------------------------------------------------------------
(* A canceled order stays canceled.                                        *)

\* While a reconciliation that read a paid order holds the lock, the order is paid or
\* refunded: nobody can have made it pending, and so nobody can have canceled it.
LockedPaid ==
    \A o \in Orders : reconcile[o].pc # "idle" /\ reconcile[o].row.status = "paid"
                        => order[o].status \in {"paid", "refunded"}

\* How the status of an order changes, and what a reconciliation remembers of the row.
StatusMoves(o) ==
    \/ order'[o].status = order[o].status
    \/ order[o].status = "pending" /\ order'[o].status \in {"paid", "canceled"}
    \/ /\ order'[o].status \in {"paid", "refunded"}
       /\ \E r \in Refunds : RefundCommit(r) \/ RefundRevert(r)
    \/ ReconcileClaw(o)
RowMoves(o) ==
    \/ reconcile'[o].pc = "idle"
    \/ reconcile[o].pc # "idle" /\ reconcile'[o].row = reconcile[o].row
    \/ reconcile'[o].row = order[o] /\ order' = order

\* A grant pays a pending order, and changes no other.
LEMMA GrantMoves ==
  ASSUME TypeOK, NEW q \in Orders, NEW provider, NEW ref, Confirmable(q),
         Grant(q, provider, ref), NEW o \in Orders
  PROVE  \/ order'[o].status = order[o].status
         \/ order[o].status = "pending" /\ order'[o].status = "paid"
  BY DEF TypeOK, OrderRow, Confirmable, Grant

\* The status of an order changes in no other way.
LEMMA EveryStatusMove ==
  ASSUME IInv, Next, NEW o \in Orders
  PROVE  StatusMoves(o)
  <1>0. TypeOK /\ ConfirmKeyed /\ RefundFits /\ order \in [Orders -> OrderRow]
    BY DEF IInv, TypeOK
  <1>a. ASSUME order' = order PROVE StatusMoves(o)
    BY <1>a DEF StatusMoves
  <1>1. ASSUME NEW c \in Confirms, ConfirmStep(c) PROVE StatusMoves(o)
    <2>1. CASE ConfirmApply(c)
      <3>1. confirm[c].key \in Keys /\ KeyOrder[confirm[c].key] \in Orders
        BY <1>0, <2>1, InstanceAssumption DEF ConfirmKeyed, ConfirmApply
      <3> QED
        BY <1>0, <1>a, <2>1, <3>1, GrantMoves DEF ConfirmApply, StatusMoves, accounts
    <2> QED
      BY <1>1, <1>a, <2>1 DEF ConfirmStep, ConfirmBegin, ConfirmRejected, ConfirmUnknown,
         ConfirmResolve, ConfirmPending, VendorConfirm, accounts
  <1>2. ASSUME NEW r \in Refunds, RefundStep(r) PROVE StatusMoves(o)
    <2> PICK q : q = refund[r].order
      OBVIOUS
    <2>1. CASE RefundCommit(r)
      <3>1. \/ order' = order
            \/ order'[o].status \in {order[o].status, "refunded"}
        BY <1>0, <2>1 DEF RefundCommit, accounts, OrderRow
      <3> QED
        BY <1>a, <2>1, <3>1 DEF StatusMoves
    <2>2. CASE RefundRevert(r)
      <3>1. \/ order' = order
            \/ order'[o].status \in {order[o].status, "paid"}
        BY <1>0, <2>2 DEF RefundRevert, OrderRow
      <3> QED
        BY <1>a, <2>2, <3>1 DEF StatusMoves
    <2> QED
      BY <1>2, <1>a, <2>1, <2>2 DEF RefundStep, RefundBegin, RefundDone, VendorCancel, accounts
  <1>3. ASSUME NEW q \in Orders, ReconcileWork(q) PROVE StatusMoves(o)
    <2>1. CASE ReconcileClaw(q)
      <3>1. q # o => order'[o] = order[o]
        BY <1>0, <2>1 DEF ReconcileClaw
      <3> QED
        BY <2>1, <3>1 DEF StatusMoves
    <2>2. CASE ReconcileGrant(q)
      BY <1>0, <1>a, <2>2, GrantMoves DEF ReconcileGrant, StatusMoves, accounts
    <2> QED
      BY <1>3, <1>a, <2>1, <2>2 DEF ReconcileWork, ReconcileFetch, ReconcileConsistent, accounts
  <1>4. ASSUME NEW q \in Orders, ManualConfirm(q) PROVE StatusMoves(o)
    BY <1>0, <1>4, GrantMoves DEF ManualConfirm, StatusMoves
  <1>5. ASSUME NEW q \in Orders, CancelOrder(q) PROVE StatusMoves(o)
    BY <1>0, <1>5 DEF CancelOrder, StatusMoves, OrderRow
  <1>6. CASE PurgeBuyers
    <2>1. order'[o] = order[o] \/ order'[o] = [order[o] EXCEPT !.buyer = FALSE]
      BY <1>6 DEF PurgeBuyers
    <2> QED
      BY <1>0, <2>1 DEF StatusMoves, OrderRow
  <1>7. CASE \/ \E q \in Orders : AdminReconcile(q)
             \/ \E i \in Keys \cup Orders : SchedulerReconcile(i)
             \/ \E s \in Signal : WebhookReconcile(s) \/ LoseWebhook(s)
             \/ \E k \in Keys : PaymentStep(k)
             \/ \E u \in Users : Spend(u) \/ Withdraw(u)
             \/ Crash
    <2>1. order' = order
      BY <1>7 DEF AdminReconcile, SchedulerReconcile, WebhookReconcile, LoseWebhook,
         PaymentStep, OpenWindow, Deposit, VendorRevoke, Expire, Spend, Withdraw, Crash,
         accounts
    <2> QED
      BY <1>a, <2>1
  <1> QED
    BY <1>1, <1>2, <1>3, <1>4, <1>5, <1>6, <1>7 DEF Next

\* The row a reconciliation decides on is the one it read when it took the lock.
LEMMA BeginMoves ==
  ASSUME TypeOK, NEW q \in Orders, NEW item, ReconcileBegin(q, item), order' = order,
         NEW o \in Orders
  PROVE  RowMoves(o)
  <1>1. reconcile \in [Orders -> ReconcileJob]
    BY DEF TypeOK
  <1> QED
    BY <1>1 DEF ReconcileBegin, RowMoves

\* A reconciliation's row is the one it began with, in every step.
LEMMA EveryRowMove ==
  ASSUME IInv, Next, NEW o \in Orders
  PROVE  RowMoves(o)
  <1>0. TypeOK /\ reconcile \in [Orders -> ReconcileJob]
    BY DEF IInv, TypeOK
  <1>a. ASSUME reconcile' = reconcile PROVE RowMoves(o)
    BY <1>a DEF RowMoves
  <1>1. ASSUME NEW q \in Orders, ReconcileWork(q) PROVE RowMoves(o)
    <2>1. CASE reconcile' = [reconcile EXCEPT ![q] = NoReconcile]
      BY <1>0, <2>1 DEF RowMoves, NoReconcile
    <2>2. CASE ReconcileFetch(q)
      <3>1. /\ reconcile[q].pc = "fetching"
            /\ \E f : reconcile' = [reconcile EXCEPT ![q].pc = "deciding", ![q].got = f]
        BY <2>2 DEF ReconcileFetch
      <3> QED
        BY <1>0, <3>1 DEF RowMoves, ReconcileJob
    <2> QED
      BY <1>1, <2>1, <2>2 DEF ReconcileWork, ReconcileGrant, ReconcileClaw,
         ReconcileConsistent, Finish
  <1>2. ASSUME NEW q \in Orders, AdminReconcile(q) PROVE RowMoves(o)
    BY <1>0, <1>2, BeginMoves DEF AdminReconcile, accounts
  <1>3. ASSUME NEW i \in Keys \cup Orders, SchedulerReconcile(i) PROVE RowMoves(o)
    <2>1. \E q \in Orders : ReconcileBegin(q, i)
      BY <1>3, InstanceAssumption DEF SchedulerReconcile
    <2> QED
      BY <1>0, <1>3, <2>1, BeginMoves DEF SchedulerReconcile, accounts
  <1>4. ASSUME NEW s \in Signal, WebhookReconcile(s) PROVE RowMoves(o)
    <2>1. s.order \in Orders
      BY DEF Signal
    <2> QED
      BY <1>0, <1>4, <2>1, BeginMoves DEF WebhookReconcile, accounts
  <1>5. CASE Crash
    BY <1>0, <1>5 DEF Crash, RowMoves, NoReconcile
  <1>6. CASE \/ \E c \in Confirms : ConfirmStep(c)
             \/ \E r \in Refunds : RefundStep(r)
             \/ \E q \in Orders : CancelOrder(q) \/ ManualConfirm(q)
             \/ \E s \in Signal : LoseWebhook(s)
             \/ \E k \in Keys : PaymentStep(k)
             \/ \E u \in Users : Spend(u) \/ Withdraw(u)
             \/ PurgeBuyers
    <2>1. reconcile' = reconcile
      <3>1. CASE \E c \in Confirms : ConfirmStep(c)
        BY <3>1 DEF ConfirmStep, ConfirmBegin, ConfirmRejected, ConfirmUnknown,
           ConfirmResolve, ConfirmPending, ConfirmApply, VendorConfirm
      <3>2. CASE \E r \in Refunds : RefundStep(r)
        BY <3>2 DEF RefundStep, RefundBegin, RefundCommit, RefundDone, RefundRevert,
           VendorCancel
      <3> QED
        BY <1>6, <3>1, <3>2 DEF CancelOrder, ManualConfirm, LoseWebhook, PaymentStep,
           OpenWindow, Deposit, VendorRevoke, Expire, Spend, Withdraw, PurgeBuyers
    <2> QED
      BY <1>a, <2>1
  <1> QED
    BY <1>1, <1>2, <1>3, <1>4, <1>5, <1>6 DEF Next

\* Every step keeps what a reconciliation may rely on.
LEMMA LockedPaidNext ==
  ASSUME IInv, LockedPaid, [Next]_vars
  PROVE  LockedPaid'
  <1> SUFFICES ASSUME NEW o \in Orders, reconcile'[o].pc # "idle",
                      reconcile'[o].row.status = "paid"
               PROVE  order'[o].status \in {"paid", "refunded"}
    BY DEF LockedPaid
  <1>1. CASE UNCHANGED vars
    BY <1>1 DEF LockedPaid, vars
  <1>2. CASE Next
    <2>1. StatusMoves(o) /\ RowMoves(o)
      BY <1>2, EveryStatusMove, EveryRowMove
    <2>2. ~ReconcileClaw(o)
      BY DEF ReconcileClaw, Finish, NoReconcile, IInv, TypeOK
    <2> QED
      BY <2>1, <2>2 DEF StatusMoves, RowMoves, LockedPaid
  <1> QED
    BY <1>1, <1>2

\* No order that a reconciliation has read as paid is made pending or canceled meanwhile.
LEMMA Locked == Spec => []LockedPaid
  <1>1. Init => LockedPaid
    BY DEF Init, LockedPaid, NoReconcile
  <1>2. IInv /\ LockedPaid /\ [Next]_vars => LockedPaid'
    BY LockedPaidNext
  <1> QED
    BY <1>1, <1>2, Invariance, PTL DEF Spec

\* A canceled order changes its status by a refund only, one that began before a clawback
\* made the order pending: no confirmation, reconciliation or bank transfer reopens it.
ByRefundsOnly ==
    [][\A o \in Orders : order[o].status = "canceled" /\ order'[o].status # "canceled"
         => \E r \in Refunds : RefundCommit(r) \/ RefundRevert(r)]_vars

\* ByRefundsOnly: whatever is confirmed, transferred, clawed back or crashes.
THEOREM CanceledButForRefunds == Spec => ByRefundsOnly
  <1>1. ASSUME IInv, LockedPaid, Next, NEW o \in Orders,
               order[o].status = "canceled", order'[o].status # "canceled"
        PROVE  \E r \in Refunds : RefundCommit(r) \/ RefundRevert(r)
    <2>1. StatusMoves(o)
      BY <1>1, EveryStatusMove
    <2>2. ~ReconcileClaw(o)
      BY <1>1 DEF ReconcileClaw, Finish, Overpaid, LockedPaid
    <2> QED
      BY <1>1, <2>1, <2>2 DEF StatusMoves
  <1>2. IInv /\ LockedPaid /\ [Next]_vars =>
           [\A o \in Orders : order[o].status = "canceled" /\ order'[o].status # "canceled"
               => \E r \in Refunds : RefundCommit(r) \/ RefundRevert(r)]_vars
    BY <1>1
  <1> QED
    BY <1>2, Invariance, Locked, PTL DEF Spec, ByRefundsOnly

\* CanceledIsFinal: where nobody asks for refunds, a canceled order stays canceled, though
\* its confirmation may be at the vendor when the customer cancels it.
THEOREM CanceledStays == ASSUME Refunds = {} PROVE Spec => CanceledIsFinal
  <1>1. ASSUME [\A o \in Orders : order[o].status = "canceled" /\ order'[o].status # "canceled"
                  => \E r \in Refunds : RefundCommit(r) \/ RefundRevert(r)]_vars
        PROVE  [\A o \in Orders : order[o].status = "canceled"
                                    => order'[o].status = "canceled"]_vars
    BY <1>1
  <1> QED
    BY <1>1, CanceledButForRefunds, PTL DEF ByRefundsOnly, CanceledIsFinal

-----------------------------------------------------------------------------
(* Money without coins is listed.                                          *)

\* What the list relies on: nobody cancels orders, there are no virtual accounts, no
\* process dies, no receipt is lost and a reconciliation gets an answer.
Findable ==
    /\ Events \cap {"cancel", "account"} = {}
    /\ Faults \cap {"crash", "receipt", "outage"} = {}

\* An order that was never paid is pending and names no payment.
UnpaidRow(row) == ~row.paidAt => row.status = "pending" /\ row.ref = NoKey
RowsPaid ==
    \A o \in Orders : /\ UnpaidRow(order[o])
                      /\ order[o].ref # NoKey => KeyOrder[order[o].ref] = o
BanksPaid == \A o \in Orders : bank[o] > 0 => order[o].paidAt

\* Without virtual accounts the vendor holds money for captured payments only, for one
\* of an order at a time, and cancels some of it for paid orders only.
PaymentFound(k) ==
    /\ pay[k].st # "WAITING_FOR_DEPOSIT" /\ pay[k].first # "WAITING_FOR_DEPOSIT"
    /\ pay[k].bal > 0 => pay[k].st \in Captured
    /\ pay[k].st = "PARTIAL_CANCELED" => order[KeyOrder[k]].paidAt
OneLive ==
    /\ \A k \in Keys : PaymentFound(k)
    /\ \A k, l \in Keys : Live(k) /\ Live(l) /\ KeyOrder[k] = KeyOrder[l] => k = l

\* The lock keeps confirmations and reconciliations of an order apart; refunds are of
\* orders that were paid.
ConfirmApart(c) ==
    confirm[c].pc # "idle" => reconcile[KeyOrder[confirm[c].key]].pc = "idle"
RefundPaid(r) ==
    refund[r].pc # "idle" => /\ KeyOrder[refund[r].key] = refund[r].order
                             /\ order[refund[r].order].paidAt

\* A reconciliation of an order that was never paid has been told of the money there is.
ReconcileKnows(o) ==
    LET j == reconcile[o]
    IN  /\ j.pc # "idle" => /\ j.item \in Keys => KeyOrder[j.item] = o
                            /\ j.row.ref # NoKey => KeyOrder[j.row.ref] = o
                            /\ ~order[o].paidAt => ~j.row.paidAt
                            /\ UnpaidRow(j.row)
        /\ j.pc = "deciding" =>
             /\ j.got.key # NoKey => KeyOrder[j.got.key] = o
             /\ ~order[o].paidAt =>
                  \A l \in KeysOf(o) : pay[l].bal > 0 => j.got.key = l /\ j.got.st = "DONE"

\* The money of an order that was never paid is listed, or in the hands of a
\* confirmation that has still to pay the coins out or to list it.
Applying(k) ==
    \E c \in Confirms : /\ confirm[c].key = k /\ confirm[c].pc = "answered"
                        /\ confirm[c].reply \in {"DONE", "unknown"}
Covered(k) == pay[k].bal > 0 /\ ~order[KeyOrder[k]].paidAt => k \in listed \/ Applying(k)

ListInv ==
    /\ IInv /\ RowsPaid /\ BanksPaid /\ OneLive
    /\ \A c \in Confirms : ConfirmApart(c)
    /\ \A r \in Refunds : RefundPaid(r)
    /\ \A o \in Orders : ReconcileKnows(o)
    /\ \A k \in Keys : Covered(k)

\* The rows: once paid, always paid.
RowKept(o) == /\ order[o].paidAt => order'[o].paidAt
              /\ UnpaidRow(order'[o])
              /\ order'[o].ref # NoKey => KeyOrder[order'[o].ref] = o

\* A grant makes its order paid and names a payment of it, and changes no other row.
LEMMA GrantRow ==
  ASSUME TypeOK, RowsPaid, NEW q \in Orders, NEW provider, NEW ref,
         ref # NoKey => KeyOrder[ref] = q, Grant(q, provider, ref), NEW o \in Orders
  PROVE  RowKept(o) /\ order'[q].paidAt
  <1>1. order \in [Orders -> OrderRow]
    BY DEF TypeOK
  <1>2. o # q => order'[o] = order[o]
    BY <1>1 DEF Grant
  <1>3. order'[q].paidAt /\ order'[q].ref = ref
    BY <1>1 DEF Grant, OrderRow
  <1> QED
    BY <1>2, <1>3 DEF RowKept, RowsPaid, UnpaidRow

\* In every step what was paid stays paid, and an unpaid row stays pending without a payment.
LEMMA RowsKept ==
  ASSUME Findable, ListInv, Next, NEW o \in Orders
  PROVE  RowKept(o)
  <1>0. TypeOK /\ ConfirmKeyed /\ RefundFits /\ RowsPaid /\ order \in [Orders -> OrderRow]
    BY DEF ListInv, IInv, TypeOK
  <1>a. ASSUME order'[o] = order[o] PROVE RowKept(o)
    BY <1>0, <1>a DEF RowKept, RowsPaid
  <1>1. ASSUME NEW c \in Confirms, ConfirmStep(c) PROVE RowKept(o)
    <2>1. CASE ConfirmApply(c)
      <3>1. confirm[c].key \in Keys /\ KeyOrder[confirm[c].key] \in Orders
        BY <1>0, <2>1, InstanceAssumption DEF ConfirmKeyed, ConfirmApply
      <3> QED
        BY <1>0, <1>a, <2>1, <3>1, GrantRow DEF ConfirmApply, accounts
    <2> QED
      BY <1>1, <1>a, <2>1 DEF ConfirmStep, ConfirmBegin, ConfirmRejected, ConfirmUnknown,
         ConfirmResolve, ConfirmPending, VendorConfirm, accounts
  <1>2. ASSUME NEW r \in Refunds, RefundStep(r) PROVE RowKept(o)
    <2>1. CASE RefundCommit(r) \/ RefundRevert(r)
      <3>1. refund[r].order \in Orders /\ order[refund[r].order].paidAt
        BY <1>0, <2>1 DEF RefundFits, RefundCommit, RefundRevert, ListInv, RefundPaid
      <3>2. \/ order'[o] = order[o]
            \/ /\ o = refund[r].order
               /\ order'[o].paidAt = order[o].paidAt /\ order'[o].ref = order[o].ref
        BY <1>0, <2>1, <3>1 DEF RefundCommit, RefundRevert, accounts, OrderRow
      <3> QED
        BY <1>0, <1>a, <3>1, <3>2 DEF RowKept, RowsPaid, UnpaidRow
    <2> QED
      BY <1>2, <1>a, <2>1 DEF RefundStep, RefundBegin, RefundDone, VendorCancel, accounts
  <1>3. ASSUME NEW q \in Orders, ReconcileWork(q) PROVE RowKept(o)
    <2>1. CASE ReconcileClaw(q)
      <3>1. order[q].paidAt
        BY <1>0, <2>1 DEF ReconcileClaw, Finish, Overpaid, ListInv, ReconcileKnows, UnpaidRow
      <3>2. \/ order'[o] = order[o]
            \/ o = q /\ order'[o].paidAt = order[o].paidAt /\ order'[o].ref = order[o].ref
        BY <1>0, <2>1 DEF ReconcileClaw, OrderRow
      <3> QED
        BY <1>0, <1>a, <3>1, <3>2 DEF RowKept, RowsPaid, UnpaidRow
    <2>2. CASE ReconcileGrant(q)
      <3>1. KeyOrder[reconcile[q].got.key] = q
        BY <2>2 DEF ReconcileGrant, Finish, ListInv, ReconcileKnows
      <3> QED
        BY <1>0, <1>a, <2>2, <3>1, GrantRow DEF ReconcileGrant, accounts
    <2> QED
      BY <1>3, <1>a, <2>1, <2>2 DEF ReconcileWork, ReconcileFetch, ReconcileConsistent, accounts
  <1>4. ASSUME NEW q \in Orders, ManualConfirm(q) PROVE RowKept(o)
    BY <1>0, <1>4, GrantRow DEF ManualConfirm
  <1>5. ASSUME NEW q \in Orders, CancelOrder(q) PROVE RowKept(o)
    BY <1>5 DEF CancelOrder, Findable
  <1>6. CASE PurgeBuyers
    <2>1. order'[o] = order[o] \/ order'[o] = [order[o] EXCEPT !.buyer = FALSE]
      BY <1>6 DEF PurgeBuyers
    <2> QED
      BY <1>0, <2>1 DEF RowKept, RowsPaid, UnpaidRow, OrderRow
  <1>7. CASE \/ \E q \in Orders : AdminReconcile(q)
             \/ \E i \in Keys \cup Orders : SchedulerReconcile(i)
             \/ \E s \in Signal : WebhookReconcile(s) \/ LoseWebhook(s)
             \/ \E k \in Keys : PaymentStep(k)
             \/ \E u \in Users : Spend(u) \/ Withdraw(u)
             \/ Crash
    <2>1. order' = order
      BY <1>7 DEF AdminReconcile, SchedulerReconcile, WebhookReconcile, LoseWebhook,
         PaymentStep, OpenWindow, Deposit, VendorRevoke, Expire, Spend, Withdraw, Crash,
         accounts
    <2> QED
      BY <1>a, <2>1
  <1> QED
    BY <1>1, <1>2, <1>3, <1>4, <1>5, <1>6, <1>7 DEF Next

\* The payments: an approval answers a confirmation, and only when the order has no other;
\* what the vendor cancels belongs to an order that was paid; all else holds nothing.
Approves(k) ==
    \E c \in Confirms :
       /\ confirm[c].pc = "calling" /\ confirm[c].key = k
       /\ confirm'[c].pc = "answered" /\ confirm'[c].key = k
       /\ confirm'[c].reply \in {"DONE", "unknown"}
PayMoves(k) ==
    \/ pay'[k] = pay[k]
    \/ /\ pay'[k].bal = 0 /\ pay'[k].st \in {"IN_PROGRESS", "ABORTED", "CANCELED"}
       /\ pay'[k].first \in {pay[k].first, "rejected"}
    \/ /\ pay'[k].st = "DONE" /\ pay'[k].first = "DONE" /\ Approves(k)
       /\ \A l \in KeysOf(KeyOrder[k]) : ~Live(l) /\ (l # k => pay'[l] = pay[l])
    \/ /\ order[KeyOrder[k]].paidAt /\ Live(k) /\ pay'[k].first = pay[k].first
       /\ pay'[k].st = "PARTIAL_CANCELED"

\* A confirmation moves money by an approval that answers it.
LEMMA ConfirmPays ==
  ASSUME Findable, ListInv, NEW c \in Confirms, VendorConfirm(c), NEW k \in Keys
  PROVE  PayMoves(k)
  <1> PICK m : m = confirm[c].key
    OBVIOUS
  <1>0. /\ pay \in [Keys -> Payment] /\ confirm \in [Confirms -> ConfirmJob] /\ m \in Keys
        /\ PaymentFound(m)
    BY DEF ListInv, IInv, TypeOK, ConfirmKeyed, VendorConfirm, OneLive
  <1>1. PICK a \in ConfirmAnswers(m) :
          \/ /\ pay' = [pay EXCEPT ![m] = a.pay]
             /\ confirm' = [confirm EXCEPT ![c].pc = "answered", ![c].reply = a.reply]
          \/ /\ pay' \in {pay, [pay EXCEPT ![m] = a.pay]}
             /\ confirm' = [confirm EXCEPT ![c].pc = "answered", ![c].reply = "unknown"]
          \/ /\ pay[m].st = "IN_PROGRESS"
             /\ pay' = [pay EXCEPT ![m].st = "ABORTED", ![m].first = "rejected"]
    BY DEF VendorConfirm
  <1>2. CASE pay[m].st = "IN_PROGRESS" /\
             pay' = [pay EXCEPT ![m].st = "ABORTED", ![m].first = "rejected"]
    <2>1. pay[m].bal = 0
      BY <1>0, <1>2 DEF PaymentFound, Captured, Payment
    <2> QED
      BY <1>0, <1>2, <2>1 DEF PayMoves, Payment
  <1>3. CASE a.pay = pay[m]
    BY <1>0, <1>1, <1>2, <1>3 DEF PayMoves
  <1>4. CASE a.pay # pay[m]
    <2>1. /\ \A l \in KeysOf(KeyOrder[m]) : ~Live(l)
          /\ a = Approval(KeyOrder[m], "DONE")
      BY <1>4 DEF ConfirmAnswers, Findable
    <2>2. a.pay.st = "DONE" /\ a.pay.first = "DONE" /\ a.reply = "DONE"
      BY <2>1 DEF Approval
    <2>3. CASE pay' = [pay EXCEPT ![m] = a.pay] /\
               \E reply \in {a.reply, "unknown"} :
                  confirm' = [confirm EXCEPT ![c].pc = "answered", ![c].reply = reply]
      <3>1. k # m => pay'[k] = pay[k]
        BY <1>0, <2>3
      <3>2. pay'[m] = a.pay /\ \A l \in KeysOf(KeyOrder[m]) : l # m => pay'[l] = pay[l]
        BY <1>0, <2>3 DEF KeysOf
      <3>3. /\ confirm[c].pc = "calling" /\ confirm[c].key = m
            /\ confirm'[c].pc = "answered" /\ confirm'[c].key = m
            /\ confirm'[c].reply \in {"DONE", "unknown"}
        BY <1>0, <2>2, <2>3 DEF VendorConfirm, ConfirmJob
      <3>4. PayMoves(m)
        BY <2>1, <2>2, <3>2, <3>3 DEF PayMoves, Approves
      <3> QED
        BY <3>1, <3>4 DEF PayMoves
    <2> QED
      BY <1>1, <1>2, <2>3 DEF PayMoves
  <1> QED
    BY <1>3, <1>4

\* A refund moves money of an order that was paid.
LEMMA RefundPays ==
  ASSUME ListInv, NEW r \in Refunds, VendorCancel(r), NEW k \in Keys
  PROVE  PayMoves(k)
  <1> PICK m : m = refund[r].key
    OBVIOUS
  <1>0. /\ pay \in [Keys -> Payment] /\ m \in Keys /\ order[KeyOrder[m]].paidAt
    BY DEF ListInv, IInv, TypeOK, RefundFits, RefundPaid, VendorCancel
  <1>1. CASE VendorCancels(r)
    <2> PICK n : n = CancelAmount(r)
      OBVIOUS
    <2>1. /\ pay[m].st \in Captured /\ n \in 1..pay[m].bal
          /\ pay' = [pay EXCEPT ![m].bal = @ - n,
                        ![m].st = IF n = pay[m].bal THEN "CANCELED" ELSE "PARTIAL_CANCELED"]
      BY <1>1 DEF VendorCancels
    <2>2. /\ k # m => pay'[k] = pay[k]
          /\ pay'[m].first = pay[m].first /\ pay'[m].bal = pay[m].bal - n
          /\ pay'[m].st = IF n = pay[m].bal THEN "CANCELED" ELSE "PARTIAL_CANCELED"
      BY <1>0, <2>1 DEF Payment
    <2>3. n = pay[m].bal => pay'[m].bal = 0
      BY <1>0, <2>2 DEF Payment
    <2> QED
      BY <1>0, <2>1, <2>2, <2>3 DEF PayMoves, Live
  <1>2. CASE pay' = pay
    BY <1>2 DEF PayMoves
  <1> QED
    BY <1>1, <1>2 DEF VendorCancel, vendor

\* The vendor's own steps leave a payment with nothing.
LEMMA PaymentPays ==
  ASSUME Findable, ListInv, NEW m \in Keys, PaymentStep(m), NEW k \in Keys
  PROVE  PayMoves(k)
  <1>0. pay \in [Keys -> Payment] /\ PaymentFound(m)
    BY DEF ListInv, IInv, TypeOK, OneLive
  <1>1. k # m => pay'[k] = pay[k]
    BY <1>0 DEF PaymentStep, OpenWindow, Deposit, VendorRevoke, Expire
  <1>2. CASE OpenWindow(m)
    BY <1>0, <1>1, <1>2 DEF OpenWindow, PayMoves, PaymentFound, Captured, Payment
  <1>3. CASE Expire(m)
    BY <1>0, <1>1, <1>3 DEF Expire, PayMoves, PaymentFound, Captured, Payment
  <1>4. CASE VendorRevoke(m)
    BY <1>0, <1>1, <1>4 DEF VendorRevoke, PayMoves, Findable, Payment
  <1>5. CASE Deposit(m)
    BY <1>0, <1>5 DEF Deposit, PaymentFound
  <1> QED
    BY <1>2, <1>3, <1>4, <1>5 DEF PaymentStep

\* Every step moves the payments like that.
LEMMA EveryPayMove ==
  ASSUME Findable, ListInv, Next, NEW k \in Keys
  PROVE  PayMoves(k)
  <1>a. ASSUME pay' = pay PROVE PayMoves(k)
    BY <1>a DEF PayMoves
  <1>1. ASSUME NEW c \in Confirms, ConfirmStep(c) PROVE PayMoves(k)
    BY <1>1, <1>a, ConfirmPays DEF ConfirmStep, ConfirmBegin, ConfirmRejected, ConfirmUnknown,
       ConfirmResolve, ConfirmPending, ConfirmApply, vendor
  <1>2. ASSUME NEW r \in Refunds, RefundStep(r) PROVE PayMoves(k)
    BY <1>2, <1>a, RefundPays DEF RefundStep, RefundBegin, RefundCommit, RefundDone,
       RefundRevert, vendor
  <1>3. ASSUME NEW q \in Orders, ReconcileWork(q) PROVE PayMoves(k)
    BY <1>3, <1>a DEF ReconcileWork, ReconcileFetch, ReconcileGrant, ReconcileClaw,
       ReconcileConsistent, Finish, vendor
  <1>4. CASE \/ \E q \in Orders : AdminReconcile(q) \/ CancelOrder(q) \/ ManualConfirm(q)
             \/ \E i \in Keys \cup Orders : SchedulerReconcile(i)
             \/ \E s \in Signal : WebhookReconcile(s) \/ LoseWebhook(s)
             \/ \E u \in Users : Spend(u) \/ Withdraw(u)
             \/ PurgeBuyers \/ Crash
    <2>1. pay' = pay
      BY <1>4 DEF AdminReconcile, CancelOrder, ManualConfirm, SchedulerReconcile,
         WebhookReconcile, LoseWebhook, Spend, Withdraw, PurgeBuyers, Crash, vendor
    <2> QED
      BY <1>a, <2>1
  <1> QED
    BY <1>1, <1>2, <1>3, <1>4, PaymentPays DEF Next

\* An order keeps one payment with money at a time.
LEMMA OneLiveKept ==
  ASSUME Findable, ListInv, Next
  PROVE  OneLive'
  <1>0. KeyOrder \in [Keys -> Orders] /\ OneLive
    BY InstanceAssumption DEF ListInv
  <1>1. ASSUME NEW k \in Keys PROVE PaymentFound(k)'
    <2>1. PayMoves(k) /\ RowKept(KeyOrder[k]) /\ PaymentFound(k)
      BY <1>0, EveryPayMove, RowsKept DEF OneLive
    <2>2. CASE pay'[k] = pay[k]
      BY <2>1, <2>2 DEF PaymentFound, RowKept
    <2>3. CASE pay'[k] # pay[k]
      BY <2>1, <2>3 DEF PayMoves, PaymentFound, RowKept, Captured
    <2> QED
      BY <2>2, <2>3
  <1>2. ASSUME NEW k \in Keys, NEW l \in Keys, Live(k)', Live(l)', KeyOrder[k] = KeyOrder[l]
        PROVE  k = l
    <2>1. PayMoves(k) /\ PayMoves(l)
      BY EveryPayMove
    <2>2. CASE Live(k) /\ Live(l)
      BY <1>0, <1>2, <2>2 DEF OneLive
    <2>3. CASE ~Live(k)
      <3>1. \A m \in KeysOf(KeyOrder[k]) : ~Live(m) /\ (m # k => pay'[m] = pay[m])
        BY <1>2, <2>1, <2>3 DEF PayMoves, Live, Captured
      <3> QED
        BY <1>2, <3>1 DEF KeysOf, Live
    <2>4. CASE ~Live(l)
      <3>1. \A m \in KeysOf(KeyOrder[l]) : ~Live(m) /\ (m # l => pay'[m] = pay[m])
        BY <1>2, <2>1, <2>4 DEF PayMoves, Live, Captured
      <3> QED
        BY <1>2, <3>1 DEF KeysOf, Live
    <2> QED
      BY <2>2, <2>3, <2>4
  <1> QED
    BY <1>1, <1>2 DEF OneLive

\* A reconciliation that runs began with the row as it was, when no confirmation ran, or
\* goes on with what it had, and with an answer of the vendor.
Begins(o, item) ==
    /\ \A c \in Confirms : confirm[c].key \notin KeysOf(o)
    /\ reconcile[o].pc = "idle" /\ reconcile'[o].pc = "fetching" /\ reconcile'[o].item = item
    /\ item \in Keys => KeyOrder[item] = o
    /\ reconcile'[o].row = order[o] /\ order' = order /\ confirm' = confirm
Hears(o) ==
    LET found == Lookup(o, reconcile[o].row.ref)
    IN  /\ reconcile[o].pc = "fetching" /\ reconcile'[o].pc = "deciding"
        /\ reconcile'[o].item = reconcile[o].item /\ reconcile'[o].row = reconcile[o].row
        /\ \/ found = {} /\ reconcile'[o].got.key = NoKey
           \/ \E k \in found : /\ reconcile'[o].got.key = k
                               /\ reconcile'[o].got.st = pay[k].st
        /\ pay' = pay /\ order' = order
JobMoves(o) ==
    \/ reconcile'[o].pc = "idle"
    \/ reconcile'[o] = reconcile[o]
    \/ \E item : Begins(o, item)
    \/ Hears(o)

\* A reconciliation that begins remembers the row as it is.
LEMMA BeginJob ==
  ASSUME TypeOK, NEW q \in Orders, NEW item, ReconcileBegin(q, item), order' = order,
         confirm' = confirm, item \in Keys => KeyOrder[item] = q, NEW o \in Orders
  PROVE  JobMoves(o)
  <1>1. reconcile \in [Orders -> ReconcileJob]
    BY DEF TypeOK
  <1>2. o # q => reconcile'[o] = reconcile[o]
    BY <1>1 DEF ReconcileBegin
  <1>3. Begins(q, item)
    BY <1>1 DEF ReconcileBegin, LockFree, Begins
  <1> QED
    BY <1>2, <1>3 DEF JobMoves

\* One that is answered has heard of a payment of its order, or that there is none.
LEMMA FetchJob ==
  ASSUME "outage" \notin Faults, TypeOK, NEW q \in Orders, ReconcileFetch(q), NEW o \in Orders
  PROVE  JobMoves(o)
  <1>0. reconcile \in [Orders -> ReconcileJob]
    BY DEF TypeOK
  <1> PICK found : found = Lookup(q, reconcile[q].row.ref)
    OBVIOUS
  <1>1. /\ reconcile[q].pc = "fetching" /\ pay' = pay /\ order' = order
        /\ ~Fault("outage")
    BY DEF ReconcileFetch, vendor, accounts, Fault
  <1>2. \E f : /\ reconcile' = [reconcile EXCEPT ![q].pc = "deciding", ![q].got = f]
               /\ \/ found = {} /\ f.key = NoKey
                  \/ \E k \in found : f.key = k /\ f.st = pay[k].st
    <2>1. ASSUME NEW k \in found, NEW f, f = [key |-> k, st |-> pay[k].st, bal |-> pay[k].bal]
          PROVE  f.key = k /\ f.st = pay[k].st
      BY <2>1
    <2>2. \/ found = {} /\ \E f : /\ f.key = NoKey
                                 /\ reconcile' = [reconcile EXCEPT ![q].pc = "deciding",
                                                                 ![q].got = f]
          \/ \E k \in found : \E f :
                /\ f = [key |-> k, st |-> pay[k].st, bal |-> pay[k].bal]
                /\ reconcile' = [reconcile EXCEPT ![q].pc = "deciding", ![q].got = f]
      BY <1>1, Zenon DEF ReconcileFetch, Nothing
    <2> QED
      BY <2>1, <2>2
  <1>3. o # q => reconcile'[o] = reconcile[o]
    BY <1>0, <1>2
  <1>4. Hears(q)
    BY <1>0, <1>1, <1>2 DEF Hears, ReconcileJob
  <1> QED
    BY <1>3, <1>4 DEF JobMoves

\* Reconciliations move like that in every step.
LEMMA EveryJobMove ==
  ASSUME "outage" \notin Faults, IInv, Next, NEW o \in Orders
  PROVE  JobMoves(o)
  <1>0. TypeOK /\ reconcile \in [Orders -> ReconcileJob]
    BY DEF IInv, TypeOK
  <1>a. ASSUME reconcile' = reconcile PROVE JobMoves(o)
    BY <1>a DEF JobMoves
  <1>1. ASSUME NEW q \in Orders, ReconcileWork(q) PROVE JobMoves(o)
    <2>1. CASE reconcile' = [reconcile EXCEPT ![q] = NoReconcile]
      BY <1>0, <2>1 DEF JobMoves, NoReconcile
    <2> QED
      BY <1>0, <1>1, <2>1, FetchJob DEF ReconcileWork, ReconcileGrant, ReconcileClaw,
         ReconcileConsistent, Finish
  <1>2. ASSUME NEW q \in Orders, AdminReconcile(q) PROVE JobMoves(o)
    BY <1>0, <1>2, BeginJob, InstanceAssumption DEF AdminReconcile, accounts
  <1>3. ASSUME NEW i \in Keys \cup Orders, SchedulerReconcile(i) PROVE JobMoves(o)
    <2>1. \E q \in Orders : ReconcileBegin(q, i) /\ (i \in Keys => KeyOrder[i] = q)
      BY <1>3, InstanceAssumption DEF SchedulerReconcile
    <2> QED
      BY <1>0, <1>3, <2>1, BeginJob DEF SchedulerReconcile, accounts
  <1>4. ASSUME NEW s \in Signal, WebhookReconcile(s) PROVE JobMoves(o)
    <2>1. s.order \in Orders
      BY DEF Signal
    <2> QED
      BY <1>0, <1>4, <2>1, BeginJob, InstanceAssumption DEF WebhookReconcile, accounts
  <1>5. CASE Crash
    BY <1>0, <1>5 DEF Crash, JobMoves, NoReconcile
  <1>6. CASE \/ \E c \in Confirms : ConfirmStep(c)
             \/ \E r \in Refunds : RefundStep(r)
             \/ \E q \in Orders : CancelOrder(q) \/ ManualConfirm(q)
             \/ \E s \in Signal : LoseWebhook(s)
             \/ \E k \in Keys : PaymentStep(k)
             \/ \E u \in Users : Spend(u) \/ Withdraw(u)
             \/ PurgeBuyers
    <2>1. reconcile' = reconcile
      <3>1. CASE \E c \in Confirms : ConfirmStep(c)
        BY <3>1 DEF ConfirmStep, ConfirmBegin, ConfirmRejected, ConfirmUnknown,
           ConfirmResolve, ConfirmPending, ConfirmApply, VendorConfirm
      <3>2. CASE \E r \in Refunds : RefundStep(r)
        BY <3>2 DEF RefundStep, RefundBegin, RefundCommit, RefundDone, RefundRevert,
           VendorCancel
      <3> QED
        BY <1>6, <3>1, <3>2 DEF CancelOrder, ManualConfirm, LoseWebhook, PaymentStep,
           OpenWindow, Deposit, VendorRevoke, Expire, Spend, Withdraw, PurgeBuyers
    <2> QED
      BY <1>a, <2>1
  <1> QED
    BY <1>1, <1>2, <1>3, <1>4, <1>5, <1>6 DEF Next

\* Whoever asks for an order without coins hears of the one payment that holds its money.
LEMMA JobsKnow ==
  ASSUME Findable, ListInv, Next, NEW o \in Orders
  PROVE  ReconcileKnows(o)'
  <1>0. /\ JobMoves(o) /\ RowKept(o) /\ ReconcileKnows(o) /\ RowsPaid
        /\ KeyOrder \in [Keys -> Orders]
    BY EveryJobMove, RowsKept, InstanceAssumption DEF ListInv, Findable
  <1>1. CASE reconcile'[o].pc = "idle"
    BY <1>1 DEF ReconcileKnows
  <1>2. CASE reconcile'[o] = reconcile[o]
    <2>1. ASSUME reconcile[o].pc = "deciding", NEW l \in KeysOf(o), pay'[l].bal > 0,
                 ~order[o].paidAt
          PROVE  pay[l].bal > 0
      <3>1. l \in Keys /\ KeyOrder[l] = o /\ PayMoves(l)
        BY <2>1, EveryPayMove DEF KeysOf
      <3>2. ~Approves(l)
        BY <2>1, <3>1 DEF Approves, ListInv, ConfirmApart
      <3> QED
        BY <2>1, <3>1, <3>2 DEF PayMoves
    <2>2. ~order'[o].paidAt => ~order[o].paidAt
      BY <1>0 DEF RowKept
    <2>3. KeysOf(o)' = KeysOf(o)
      BY DEF KeysOf
    <2> QED
      BY <1>0, <1>2, <2>1, <2>2, <2>3 DEF ReconcileKnows
  <1>3. ASSUME NEW item, Begins(o, item) PROVE ReconcileKnows(o)'
    BY <1>0, <1>3 DEF Begins, ReconcileKnows, RowsPaid
  <1>4. CASE Hears(o)
    <2> PICK found, ref : ref = reconcile[o].row.ref /\ found = Lookup(o, ref)
      OBVIOUS
    <2>1. /\ found = {} /\ reconcile'[o].got.key = NoKey
          \/ \E k \in found : reconcile'[o].got.key = k /\ reconcile'[o].got.st = pay[k].st
      BY <1>4 DEF Hears
    <2>2. \A k \in found : KeyOrder[k] = o
      BY <1>0, <1>4, InstanceAssumption DEF Hears, Lookup, KeysOf, ReconcileKnows
    <2>3. ASSUME ~order[o].paidAt, NEW l \in KeysOf(o), pay[l].bal > 0
          PROVE  found = {l} /\ pay[l].st = "DONE"
      <3>1. l \in Keys /\ KeyOrder[l] = o /\ PaymentFound(l)
        BY DEF KeysOf, ListInv, OneLive
      <3>2. Live(l) /\ pay[l].st = "DONE"
        BY <2>3, <3>1 DEF PaymentFound, Live, Captured
      <3>3. ref \notin Keys
        BY <1>0, <1>4, <2>3, InstanceAssumption DEF Hears, ReconcileKnows, UnpaidRow
      <3>4. {k \in KeysOf(o) : Live(k)} = {l}
        BY <3>1, <3>2 DEF KeysOf, ListInv, OneLive
      <3> QED
        BY <3>2, <3>3, <3>4 DEF Lookup
    <2>4. KeysOf(o)' = KeysOf(o) /\ pay' = pay /\ order' = order
      BY <1>4 DEF KeysOf, Hears
    <2> QED
      BY <1>0, <1>4, <2>1, <2>2, <2>3, <2>4 DEF Hears, ReconcileKnows
  <1> QED
    BY <1>0, <1>1, <1>2, <1>3, <1>4 DEF JobMoves

\* A confirmation that runs began when the lock was free, or goes on with its payment.
CallMoves(c) ==
    \/ confirm'[c].pc = "idle"
    \/ confirm'[c] = confirm[c]
    \/ confirm[c].pc # "idle" /\ confirm'[c].key = confirm[c].key
    \/ LockFree(KeyOrder[confirm'[c].key]) /\ reconcile' = reconcile

\* Confirmations move like that in every step.
LEMMA EveryCallMove ==
  ASSUME IInv, Next, NEW c \in Confirms
  PROVE  CallMoves(c)
  <1>0. confirm \in [Confirms -> ConfirmJob]
    BY DEF IInv, TypeOK
  <1>a. ASSUME confirm' = confirm PROVE CallMoves(c)
    BY <1>a DEF CallMoves
  <1>1. ASSUME NEW d \in Confirms, ConfirmStep(d) PROVE CallMoves(c)
    <2>1. d # c => confirm'[c] = confirm[c]
      BY <1>0, <1>1 DEF ConfirmStep, ConfirmBegin, ConfirmRejected, ConfirmUnknown,
         ConfirmResolve, ConfirmPending, ConfirmApply, VendorConfirm
    <2>2. CASE \E k \in Keys : ConfirmBegin(d, k)
      <3>1. CallMoves(d)
        BY <1>0, <2>2 DEF ConfirmBegin, CallMoves
      <3> QED
        BY <2>1, <3>1 DEF CallMoves
    <2>3. CASE confirm' = [confirm EXCEPT ![d] = NoConfirm]
      BY <1>0, <2>3 DEF CallMoves, NoConfirm
    <2>4. CASE confirm[d].pc # "idle" /\ confirm'[d].key = confirm[d].key
      BY <2>1, <2>4 DEF CallMoves
    <2>5. CASE \/ ConfirmUnknown(d)
               \/ VendorConfirm(d)
               \/ ConfirmResolve(d) /\ confirm' # [confirm EXCEPT ![d] = NoConfirm]
      <3>1. confirm[d].pc # "idle" /\ confirm'[d].key = confirm[d].key
        BY <1>0, <2>5 DEF ConfirmUnknown, ConfirmResolve, VendorConfirm, ConfirmJob
      <3> QED
        BY <2>4, <3>1
    <2> QED
      BY <1>1, <2>2, <2>3, <2>5 DEF ConfirmStep, ConfirmRejected, ConfirmPending, ConfirmApply
  <1>2. ASSUME NEW r \in Refunds, RefundStep(r) PROVE CallMoves(c)
    BY <1>2, <1>a DEF RefundStep, RefundBegin, RefundCommit, RefundDone, RefundRevert,
       VendorCancel
  <1>3. ASSUME NEW o \in Orders, ReconcileWork(o) PROVE CallMoves(c)
    BY <1>3, <1>a DEF ReconcileWork, ReconcileFetch, ReconcileGrant, ReconcileClaw,
       ReconcileConsistent, Finish
  <1>4. CASE Crash
    BY <1>0, <1>4 DEF Crash, CallMoves, NoConfirm
  <1>5. CASE \/ \E o \in Orders : AdminReconcile(o) \/ CancelOrder(o) \/ ManualConfirm(o)
             \/ \E i \in Keys \cup Orders : SchedulerReconcile(i)
             \/ \E s \in Signal : WebhookReconcile(s) \/ LoseWebhook(s)
             \/ \E k \in Keys : PaymentStep(k)
             \/ \E u \in Users : Spend(u) \/ Withdraw(u)
             \/ PurgeBuyers
    <2>1. confirm' = confirm
      BY <1>5 DEF AdminReconcile, CancelOrder, ManualConfirm, SchedulerReconcile,
         WebhookReconcile, LoseWebhook, PaymentStep, OpenWindow, Deposit, VendorRevoke, Expire,
         Spend, Withdraw, PurgeBuyers
    <2> QED
      BY <1>a, <2>1
  <1> QED
    BY <1>1, <1>2, <1>3, <1>4, <1>5 DEF Next

\* Confirmations and reconciliations of an order stay apart.
LEMMA LocksKept ==
  ASSUME "outage" \notin Faults, IInv, Next, NEW c \in Confirms, ConfirmApart(c)
  PROVE  ConfirmApart(c)'
  <1> SUFFICES ASSUME confirm'[c].pc # "idle"
               PROVE  reconcile'[KeyOrder[confirm'[c].key]].pc = "idle"
    BY DEF ConfirmApart
  <1> PICK o : o = KeyOrder[confirm'[c].key]
    OBVIOUS
  <1>1. IInv' /\ confirm'[c].key \in Keys /\ o \in Orders
    <2>1. IInv'
      BY IInvNext
    <2> QED
      BY <2>1, InstanceAssumption DEF IInv, ConfirmKeyed
  <1>2. CallMoves(c) /\ JobMoves(o) /\ ConfirmApart(c)
    BY <1>1, EveryCallMove, EveryJobMove
  <1>3. CASE confirm[c].pc # "idle" /\ confirm'[c].key = confirm[c].key
    <2>1. reconcile[o].pc = "idle"
      BY <1>2, <1>3 DEF ConfirmApart
    <2>2. confirm[c].key \in KeysOf(o)
      BY <1>1, <1>3 DEF KeysOf
    <2> QED
      BY <1>2, <2>1, <2>2 DEF JobMoves, Begins, Hears
  <1>4. CASE LockFree(o) /\ reconcile' = reconcile
    BY <1>4 DEF LockFree
  <1> QED
    BY <1>2, <1>3, <1>4 DEF CallMoves

\* A refund is of the payment its order named when it began.
LEMMA RefundsStayPaid ==
  ASSUME Findable, ListInv, Next, NEW r \in Refunds
  PROVE  RefundPaid(r)'
  <1>0. /\ refund \in [Refunds -> RefundJob] /\ RefundFits /\ RefundPaid(r) /\ RowsPaid
        /\ \A o \in Orders : RowKept(o)
    BY RowsKept DEF ListInv, IInv, TypeOK
  <1>a. ASSUME \/ refund'[r].pc = "idle"
               \/ /\ refund[r].pc # "idle"
                  /\ refund'[r].key = refund[r].key /\ refund'[r].order = refund[r].order
        PROVE  RefundPaid(r)'
    BY <1>0, <1>a DEF RefundPaid, RefundFits, RowKept
  <1>b. ASSUME refund'[r] = refund[r] PROVE RefundPaid(r)'
    BY <1>a, <1>b
  <1>1. ASSUME NEW q \in Refunds, RefundStep(q) PROVE RefundPaid(r)'
    <2>1. CASE q # r
      <3>1. refund'[r] = refund[r]
        BY <1>0, <1>1, <2>1 DEF RefundStep, RefundBegin, RefundCommit, RefundDone,
           RefundRevert, VendorCancel, Answered
      <3> QED
        BY <1>b, <3>1
    <2>2. ASSUME q = r, NEW o \in Orders, NEW want \in 1..Amount[o], RefundBegin(r, o, want)
          PROVE  RefundPaid(r)'
      <3>1. /\ refund'[r].key = order[o].ref /\ refund'[r].order = o /\ order' = order
            /\ order[o].status = "paid" /\ order[o].ref # NoKey
        BY <1>0, <2>2 DEF RefundBegin, accounts
      <3> QED
        BY <1>0, <3>1 DEF RefundPaid, RowsPaid, UnpaidRow
    <2>3. CASE refund' = [refund EXCEPT ![r] = NoRefund]
      BY <1>0, <1>a, <2>3 DEF NoRefund
    <2>4. CASE q = r /\ (RefundCommit(r) \/ VendorCancel(r))
      <3>1. refund[r].pc # "idle"
        BY <2>4 DEF RefundCommit, VendorCancel
      <3>2. CASE \E pc, reply : refund' = [refund EXCEPT ![r].pc = pc, ![r].reply = reply]
        BY <1>0, <1>a, <3>1, <3>2 DEF RefundJob
      <3>3. CASE \E pc : refund' = [refund EXCEPT ![r].pc = pc]
        BY <1>0, <1>a, <3>1, <3>3 DEF RefundJob
      <3>4. \/ \E reply : Answered(r, reply)
            \/ refund' = [refund EXCEPT ![r].pc = "calling"]
            \/ refund' = [refund EXCEPT ![r] = NoRefund]
        BY <2>4 DEF RefundCommit, VendorCancel
      <3> QED
        BY <2>3, <3>2, <3>3, <3>4 DEF Answered
    <2> QED
      BY <1>1, <2>1, <2>2, <2>3, <2>4 DEF RefundStep, RefundDone, RefundRevert
  <1>2. CASE Crash
    BY <1>2 DEF Crash, Fault, Findable
  <1>3. ASSUME NEW c \in Confirms, ConfirmStep(c) PROVE RefundPaid(r)'
    BY <1>3, <1>b DEF ConfirmStep, ConfirmBegin, ConfirmRejected, ConfirmUnknown,
       ConfirmResolve, ConfirmPending, ConfirmApply, VendorConfirm
  <1>4. ASSUME NEW o \in Orders, ReconcileWork(o) PROVE RefundPaid(r)'
    BY <1>4, <1>b DEF ReconcileWork, ReconcileFetch, ReconcileGrant, ReconcileClaw,
       ReconcileConsistent, Finish
  <1>5. CASE \/ \E o \in Orders : AdminReconcile(o) \/ CancelOrder(o) \/ ManualConfirm(o)
             \/ \E i \in Keys \cup Orders : SchedulerReconcile(i)
             \/ \E s \in Signal : WebhookReconcile(s) \/ LoseWebhook(s)
             \/ \E k \in Keys : PaymentStep(k)
             \/ \E u \in Users : Spend(u) \/ Withdraw(u)
             \/ PurgeBuyers
    <2>1. refund' = refund
      BY <1>5 DEF AdminReconcile, CancelOrder, ManualConfirm, SchedulerReconcile,
         WebhookReconcile, LoseWebhook, PaymentStep, OpenWindow, Deposit, VendorRevoke, Expire,
         Spend, Withdraw, PurgeBuyers
    <2> QED
      BY <1>b, <2>1
  <1> QED
    BY <1>1, <1>2, <1>3, <1>4, <1>5 DEF Next

\* A bank transfer pays its order at once.
LEMMA BanksStayPaid ==
  ASSUME Findable, ListInv, Next
  PROVE  BanksPaid'
  <1>0. TypeOK /\ RowsPaid /\ BanksPaid /\ bank \in [Orders -> Nat] /\ \A o \in Orders : RowKept(o)
    BY RowsKept DEF ListInv, IInv, TypeOK
  <1>1. ASSUME NEW q \in Orders, ManualConfirm(q) PROVE BanksPaid'
    <2>1. order'[q].paidAt
      BY <1>0, <1>1, GrantRow DEF ManualConfirm
    <2>2. \A o \in Orders : o # q => bank'[o] = bank[o]
      BY <1>0, <1>1 DEF ManualConfirm
    <2> QED
      BY <1>0, <2>1, <2>2 DEF BanksPaid, RowKept
  <1>2. ASSUME bank' = bank PROVE BanksPaid'
    BY <1>0, <1>2 DEF BanksPaid, RowKept
  <1>3. CASE \/ \E c \in Confirms : ConfirmStep(c)
             \/ \E r \in Refunds : RefundStep(r)
             \/ \E o \in Orders : ReconcileWork(o)
    <2>1. bank' = bank
      <3>1. CASE \E c \in Confirms : ConfirmStep(c)
        BY <3>1 DEF ConfirmStep, ConfirmBegin, ConfirmRejected, ConfirmUnknown,
           ConfirmResolve, ConfirmPending, ConfirmApply, VendorConfirm, people
      <3>2. CASE \E r \in Refunds : RefundStep(r)
        BY <3>2 DEF RefundStep, RefundBegin, RefundCommit, RefundDone, RefundRevert,
           VendorCancel, people
      <3>3. CASE \E o \in Orders : ReconcileWork(o)
        BY <3>3 DEF ReconcileWork, ReconcileFetch, ReconcileGrant, ReconcileClaw,
           ReconcileConsistent, Finish, people
      <3> QED
        BY <1>3, <3>1, <3>2, <3>3
    <2> QED
      BY <1>2, <2>1
  <1>4. CASE \/ \E o \in Orders : AdminReconcile(o) \/ CancelOrder(o)
             \/ \E i \in Keys \cup Orders : SchedulerReconcile(i)
             \/ \E s \in Signal : WebhookReconcile(s) \/ LoseWebhook(s)
             \/ \E k \in Keys : PaymentStep(k)
             \/ \E u \in Users : Spend(u) \/ Withdraw(u)
             \/ PurgeBuyers \/ Crash
    <2>1. bank' = bank
      BY <1>4 DEF AdminReconcile, CancelOrder, SchedulerReconcile, WebhookReconcile,
         LoseWebhook, PaymentStep, OpenWindow, Deposit, VendorRevoke, Expire, Spend, Withdraw,
         PurgeBuyers, Crash, people
    <2> QED
      BY <1>2, <2>1
  <1> QED
    BY <1>1, <1>3, <1>4 DEF Next

\* Where no receipt is lost, each changes the list as it says.
LEMMA Filed ==
  ASSUME Findable, NEW add, NEW rem, File(add, rem)
  PROVE  listed' = (listed \ rem) \cup add
  BY DEF File, Fault, Findable

\* Money on the list, or in the hands of a confirmation, stays there until coins are paid
\* out for it.
Kept(k) == k \in listed \/ Applying(k) => k \in listed' \/ Applying(k)'

\* A confirmation pays the money out, or lists it.
LEMMA KeptByConfirm ==
  ASSUME Findable, ListInv, NEW c \in Confirms, ConfirmStep(c), NEW k \in Keys,
         ~order'[KeyOrder[k]].paidAt
  PROVE  Kept(k)
  <1>0. /\ TypeOK /\ RowsPaid /\ confirm \in [Confirms -> ConfirmJob]
        /\ order \in [Orders -> OrderRow]
    BY DEF ListInv, IInv, TypeOK
  <1>1. \A d \in Confirms : d # c => confirm'[d] = confirm[d]
    BY <1>0 DEF ConfirmStep, ConfirmBegin, ConfirmRejected, ConfirmUnknown,
       ConfirmResolve, ConfirmPending, ConfirmApply, VendorConfirm
  <1>2. ASSUME listed \subseteq listed',
               confirm[c].key = k /\ confirm[c].pc = "answered"
                 /\ confirm[c].reply \in {"DONE", "unknown"} => k \in listed'
        PROVE  Kept(k)
    BY <1>1, <1>2 DEF Kept, Applying
  <1>3. CASE (\E l \in Keys : ConfirmBegin(c, l)) \/ ConfirmRejected(c) \/ VendorConfirm(c)
    <2>1. listed' = listed /\ ~(confirm[c].pc = "answered" /\ confirm[c].reply \in {"DONE", "unknown"})
      BY <1>3 DEF ConfirmBegin, ConfirmRejected, VendorConfirm
    <2> QED
      BY <1>2, <2>1
  <1>4. CASE ConfirmUnknown(c) \/ ConfirmPending(c)
    <2>1. listed' = listed \cup {confirm[c].key}
      BY <1>4, Filed DEF ConfirmUnknown, ConfirmPending
    <2> QED
      BY <1>2, <2>1
  <1>5. CASE ConfirmResolve(c)
    <2>1. CASE File({}, {confirm[c].key}) /\
               confirm' = [confirm EXCEPT ![c].pc = "answered", ![c].reply = "DONE"]
      <3>1. listed' = listed \ {confirm[c].key}
        BY <2>1, Filed
      <3>2. /\ confirm'[c].pc = "answered" /\ confirm'[c].reply = "DONE"
            /\ confirm'[c].key = confirm[c].key /\ confirm[c].pc = "resolving"
        BY <1>0, <1>5, <2>1 DEF ConfirmJob, ConfirmResolve
      <3>3. CASE k = confirm[c].key
        BY <3>2, <3>3 DEF Kept, Applying
      <3>4. CASE k # confirm[c].key
        BY <1>1, <3>1, <3>2, <3>4 DEF Kept, Applying
      <3> QED
        BY <3>3, <3>4
    <2>2. CASE listed' = listed
      BY <1>2, <1>5, <2>2 DEF ConfirmResolve
    <2> QED
      BY <1>5, <2>1, <2>2 DEF ConfirmResolve
  <1>6. CASE ConfirmApply(c)
    <2> PICK m, o : m = confirm[c].key /\ o = KeyOrder[m]
      OBVIOUS
    <2>1. m \in Keys /\ o \in Orders
      BY <1>6, InstanceAssumption DEF ConfirmApply, ListInv, IInv, ConfirmKeyed
    <2>2. CASE Grant(o, "toss", m) /\ File({}, {m})
      <3>1. order'[o].paidAt
        BY <1>0, <2>1, <2>2, GrantRow
      <3>2. k # m /\ listed' = listed \ {m}
        BY <2>2, <3>1, Filed
      <3> QED
        BY <1>1, <3>2 DEF Kept, Applying
    <2>3. CASE File({m}, {})
      BY <1>2, <2>3, Filed
    <2> QED
      BY <1>6, <2>2, <2>3 DEF ConfirmApply
  <1> QED
    BY <1>3, <1>4, <1>5, <1>6 DEF ConfirmStep

\* A reconciliation takes an entry off the list only if its order has coins, or no money.
LEMMA KeptByReconcile ==
  ASSUME Findable, ListInv, NEW o \in Orders, ReconcileWork(o), NEW k \in Keys,
         ~order[KeyOrder[k]].paidAt, ~order'[KeyOrder[k]].paidAt, pay[k].bal > 0
  PROVE  Kept(k)
  <1>0. TypeOK /\ RowsPaid /\ ReconcileKnows(o)
    BY DEF ListInv, IInv
  <1>1. confirm' = confirm
    BY DEF ReconcileWork, ReconcileFetch, ReconcileGrant, ReconcileClaw, ReconcileConsistent,
           Finish
  <1>2. ASSUME k \in listed => k \in listed' PROVE Kept(k)
    BY <1>1, <1>2 DEF Kept, Applying
  <1> PICK j : j = reconcile[o]
    OBVIOUS
  <1>3. CASE ReconcileFetch(o)
    BY <1>2, <1>3 DEF ReconcileFetch
  <1>4. CASE ReconcileGrant(o)
    <2>1. CASE Grant(o, "toss", j.got.key) /\ File({}, {j.got.key})
      <3>1. KeyOrder[j.got.key] = o
        BY <1>0, <1>4 DEF ReconcileGrant, Finish, ReconcileKnows
      <3>2. order'[o].paidAt
        BY <1>0, <2>1, <3>1, GrantRow
      <3>3. k # j.got.key /\ listed' = listed \ {j.got.key}
        BY <2>1, <3>1, <3>2, Filed
      <3> QED
        BY <1>2, <3>3
    <2> QED
      BY <1>2, <1>4, <2>1 DEF ReconcileGrant
  <1>5. CASE ReconcileClaw(o)
    <2>1. /\ j.pc = "deciding" /\ j.row.status = "paid" /\ j.got.key # NoKey
          /\ File({}, {j.got.key})
      BY <1>5 DEF ReconcileClaw, Finish, Overpaid
    <2>2. KeyOrder[j.got.key] = o /\ order[o].paidAt
      BY <1>0, <2>1 DEF ReconcileKnows, UnpaidRow
    <2>3. k # j.got.key /\ listed' = listed \ {j.got.key}
      BY <2>1, <2>2, Filed
    <2> QED
      BY <1>2, <2>3
  <1>6. CASE ReconcileConsistent(o)
    <2>1. j.pc = "deciding" /\ (j.got.key = NoKey \/ ~Unpaid(j))
      BY <1>6 DEF ReconcileConsistent, Finish
    <2>2. k # j.item
      <3>1. SUFFICES ASSUME k = j.item PROVE FALSE
        OBVIOUS
      <3>2. k \in KeysOf(o) /\ KeyOrder[k] = o
        BY <1>0, <2>1, <3>1 DEF ReconcileKnows, KeysOf
      <3>3. j.got.key = k /\ j.got.st = "DONE" /\ j.row.status = "pending"
        BY <1>0, <2>1, <3>2 DEF ReconcileKnows, UnpaidRow
      <3> QED
        BY <2>1, <3>3, InstanceAssumption DEF Unpaid
    <2>3. k \notin Orders
      BY InstanceAssumption
    <2>4. listed' = listed \ (IF j.item \in Orders THEN Orders ELSE {j.item})
      BY <1>6, Filed DEF ReconcileConsistent
    <2> QED
      BY <1>2, <2>2, <2>3, <2>4
  <1> QED
    BY <1>3, <1>4, <1>5, <1>6 DEF ReconcileWork

\* Money of an order without coins stays listed or in hand, and what is approved is in hand.
LEMMA CoveredKept ==
  ASSUME Findable, ListInv, Next, NEW k \in Keys
  PROVE  Covered(k)'
  <1> SUFFICES ASSUME pay'[k].bal > 0, ~order'[KeyOrder[k]].paidAt
               PROVE  k \in listed' \/ Applying(k)'
    BY DEF Covered
  <1>1. KeyOrder[k] \in Orders /\ PayMoves(k) /\ ~order[KeyOrder[k]].paidAt /\ Covered(k)
    BY EveryPayMove, RowsKept, InstanceAssumption DEF RowKept, ListInv
  <1>2. CASE Approves(k)
    BY <1>2 DEF Approves, Applying
  <1>3. CASE pay'[k] = pay[k]
    <2>1. pay[k].bal > 0 /\ (k \in listed \/ Applying(k))
      BY <1>1, <1>3 DEF Covered
    <2>2. ASSUME confirm' = confirm, listed' = listed \/ listed \subseteq listed'
          PROVE  Kept(k)
      BY <2>2 DEF Kept, Applying
    <2>3. ASSUME NEW r \in Refunds, RefundStep(r) PROVE Kept(k)
      <3>1. ASSUME NEW o, File({o}, {}) PROVE listed \subseteq listed'
        BY <3>1, Filed
      <3>2. confirm' = confirm /\ listed \subseteq listed'
        BY <2>3, <3>1 DEF RefundStep, RefundBegin, RefundCommit, RefundDone, RefundRevert,
           VendorCancel
      <3> QED
        BY <2>2, <3>2
    <2>4. ASSUME NEW s \in Signal, WebhookReconcile(s) PROVE Kept(k)
      <3>1. listed' = listed \ WebhookResolves(s) /\ confirm' = confirm
        BY <2>4, Filed DEF WebhookReconcile
      <3>2. k \notin WebhookResolves(s)
        BY InstanceAssumption DEF WebhookResolves
      <3> QED
        BY <3>1, <3>2 DEF Kept, Applying
    <2>5. ASSUME Crash PROVE Kept(k)
      BY <2>5 DEF Crash, Fault, Findable
    <2>6. ASSUME \/ \E o \in Orders : AdminReconcile(o) \/ CancelOrder(o) \/ ManualConfirm(o)
                 \/ \E i \in Keys \cup Orders : SchedulerReconcile(i)
                 \/ \E s \in Signal : LoseWebhook(s)
                 \/ \E l \in Keys : PaymentStep(l)
                 \/ \E u \in Users : Spend(u) \/ Withdraw(u)
                 \/ PurgeBuyers
          PROVE  Kept(k)
      <3>1. confirm' = confirm /\ listed' = listed
        BY <2>6 DEF AdminReconcile, CancelOrder, ManualConfirm, SchedulerReconcile,
           LoseWebhook, PaymentStep, OpenWindow, Deposit, VendorRevoke, Expire,
           Spend, Withdraw, PurgeBuyers
      <3> QED
        BY <2>2, <3>1
    <2>7. Kept(k)
      BY <1>1, <2>1, <2>3, <2>4, <2>5, <2>6, KeptByConfirm, KeptByReconcile DEF Next
    <2> QED
      BY <2>1, <2>7 DEF Kept
  <1> QED
    BY <1>1, <1>2, <1>3 DEF PayMoves

\* The invariant is preserved.
LEMMA ListNext ==
  ASSUME Findable, ListInv, [Next]_vars
  PROVE  ListInv'
  <1>1. CASE UNCHANGED vars
    BY <1>1 DEF vars, ListInv, IInv, TypeOK, ConfirmKeyed, RefundFits, RefundedWithinOrder,
       RowsPaid, BanksPaid, OneLive, PaymentFound, Live, ConfirmApart, RefundPaid,
       ReconcileKnows, KeysOf, Covered, Applying
  <1>2. CASE Next
    <2>1. IInv'
      BY <1>2, IInvNext DEF ListInv
    <2>2. RowsPaid'
      BY <1>2, RowsKept DEF RowsPaid, RowKept
    <2> QED
      BY <1>2, <2>1, <2>2, OneLiveKept, JobsKnow, LocksKept, RefundsStayPaid, BanksStayPaid,
         CoveredKept DEF ListInv, Findable
  <1> QED
    BY <1>1, <1>2

\* The invariant holds at first.
LEMMA ListInit == Init => ListInv
  <1> SUFFICES ASSUME Init PROVE ListInv
    OBVIOUS
  <1>1. IInv
    BY IInvInit
  <1>2. /\ \A k \in Keys : pay[k].st = "NONE" /\ pay[k].bal = 0 /\ pay[k].first = "none"
        /\ \A o \in Orders : order[o].ref = NoKey /\ order[o].status = "pending" /\ bank[o] = 0
        /\ \A o \in Orders : reconcile[o].pc = "idle"
        /\ \A c \in Confirms : confirm[c].pc = "idle"
        /\ \A r \in Refunds : refund[r].pc = "idle"
    BY DEF Init, NewOrder, NoConfirm, NoReconcile, NoRefund
  <1>3. RowsPaid /\ BanksPaid /\ OneLive
    BY <1>2 DEF RowsPaid, UnpaidRow, BanksPaid, OneLive, PaymentFound, Live, Captured
  <1> QED
    BY <1>1, <1>2, <1>3 DEF ListInv, ConfirmApart, RefundPaid, ReconcileKnows, Covered

\* StrandedIsListed: whatever the vendor leaves unanswered, refuses or takes back, and
\* however often a confirmation is repeated, money taken for an order that was never paid
\* is on the unresolved list once nothing is under way for the order.
THEOREM StrandedAreListed == ASSUME Findable PROVE Spec => []StrandedIsListed
  <1>1. ListInv /\ [Next]_vars => ListInv'
    BY ListNext
  <1>2. ListInv => StrandedIsListed
    <2> SUFFICES ASSUME ListInv, NEW o \in Orders, Stranded(o) PROVE OnList(o)
      BY DEF StrandedIsListed
    <2>1. PICK k \in KeysOf(o) : pay[k].bal > 0
      <3>1. bank[o] = 0 /\ bank[o] + HeldIn(pay, o) > 0
        BY DEF Stranded, Money, HeldIn, ListInv, BanksPaid, IInv, TypeOK
      <3>2. SUFFICES ASSUME \A k \in KeysOf(o) : ~(pay[k].bal > 0) PROVE HeldIn(pay, o) = 0
        BY <3>1
      <3>3. PICK f : f = [k \in Keys |-> pay[k].bal]
        OBVIOUS
      <3>4. \A k \in KeysOf(o) : f[k] = 0
        BY <3>2, <3>3 DEF KeysOf, ListInv, IInv, TypeOK, Payment
      <3>5. HeldIn(pay, o) = SumFunctionOnSet(f, KeysOf(o))
        BY <3>3 DEF HeldIn
      <3> QED
        BY <3>4, <3>5, SumOfZeros, KeysFinite
    <2>2. k \in Keys /\ KeyOrder[k] = o /\ Covered(k)
      BY DEF KeysOf, ListInv
    <2>3. ~Applying(k)
      BY DEF Stranded, AtRest, LockFree, Applying
    <2> QED
      BY <2>1, <2>2, <2>3 DEF Covered, Stranded, OnList
  <1> QED
    BY <1>1, <1>2, ListInit, PTL DEF Spec

-----------------------------------------------------------------------------
(* Coins are backed by money.                                              *)

\* What a clawback relies on: the vendor's webhooks arrive, requests and lookups are
\* answered, no old answer is given again, no process dies.  Refunds have theorems of
\* their own above.
Watched ==
    /\ Refunds = {} /\ "webhook" \in Events /\ "replay" \notin Events
    /\ Faults \cap {"unknown", "crash", "outage", "webhook"} = {}

\* A webhook about the order is on its way, or a reconciliation that will claw back has
\* begun.
SignalFor(o) == \E s \in signals : s.order = o
Alerted(o) ==
    LET j == reconcile[o]
    IN  \/ SignalFor(o)
        \/ j.pc = "fetching" /\ j.row.status = "paid" /\ j.row.ref = order[o].ref
        \/ /\ j.pc = "deciding" /\ j.row.status = "paid"
           /\ j.got.key # NoKey /\ j.got.st \in Revoked

\* A payment that is whole holds its order's amount; without refunds none is in part.
PaymentWhole(k) == /\ pay[k].st = "DONE" => pay[k].bal = Amount[KeyOrder[k]]
                   /\ pay[k].st # "PARTIAL_CANCELED"
\* Approved, and if it was taken back since, a webhook is on its way that nobody can
\* receive while the order is locked.
ApprovedAt(k) == pay[k].st = "DONE" \/ (pay[k].st \in Revoked /\ SignalFor(KeyOrder[k]))

\* A paid order has its money, or somebody is about to find out that it has not.
Backed(o) ==
    LET k == order[o].ref
    IN  \/ k = NoKey /\ bank[o] = Amount[o]
        \/ k # NoKey /\ (pay[k].st = "DONE" \/ (pay[k].st \in Revoked /\ Alerted(o)))
OrderBacked(o) ==
    /\ order[o].refunded = 0
    /\ order[o].ref # NoKey => KeyOrder[order[o].ref] = o
    /\ order[o].status = "paid" => Backed(o)
JobWatched(o) ==
    LET j == reconcile[o]
    IN  /\ j.pc # "idle" => /\ j.row.refunded = 0
                            /\ j.row.ref # NoKey => KeyOrder[j.row.ref] = o
        /\ j.pc = "deciding" /\ j.got.key # NoKey =>
             /\ KeyOrder[j.got.key] = o /\ j.got.st # "PARTIAL_CANCELED"
             /\ j.got.st = "DONE" => ApprovedAt(j.got.key)
ConfirmWatched(c) ==
    /\ confirm[c].pc # "resolving" /\ confirm[c].reply # "unknown"
    /\ ConfirmApart(c)
    /\ confirm[c].pc = "answered" /\ confirm[c].reply = "DONE" => ApprovedAt(confirm[c].key)

\* A user has no more coins than his paid orders are worth.
Claim(row, o) == IF row.status = "paid" THEN Amount[o] ELSE 0
OrdersOf(u) == {o \in Orders : Owner[o] = u}
ClaimsOn(table, u) == SumFunctionOnSet([o \in Orders |-> Claim(table[o], o)], OrdersOf(u))
CoinsCovered == \A u \in Users : topup[u] <= ClaimsOn(order, u)

BackInv ==
    /\ IInv
    /\ \A k \in Keys : PaymentWhole(k)
    /\ \A o \in Orders : OrderBacked(o)
    /\ \A o \in Orders : JobWatched(o)
    /\ \A c \in Confirms : ConfirmWatched(c)
    /\ CoinsCovered

\* Without refunds and crashes the steps are these.
LEMMA WatchedSteps ==
  ASSUME Watched, Next
  PROVE  \/ \E c \in Confirms : ConfirmStep(c)
         \/ \E o \in Orders : ReconcileWork(o) \/ AdminReconcile(o)
         \/ \E o \in Orders : CancelOrder(o) \/ ManualConfirm(o)
         \/ \E i \in Keys \cup Orders : SchedulerReconcile(i)
         \/ \E s \in Signal : WebhookReconcile(s)
         \/ \E k \in Keys : PaymentStep(k)
         \/ \E u \in Users : Spend(u) \/ Withdraw(u)
         \/ PurgeBuyers
  BY DEF Watched, Next, Crash, LoseWebhook, Fault

\* What the vendor takes back or lets expire, it reports.
VendorMoves(k) ==
    \/ pay'[k] = pay[k]
    \/ pay'[k].st = "DONE" /\ pay'[k].bal = Amount[KeyOrder[k]]
    \/ /\ pay[k].st \in {"NONE", "IN_PROGRESS"}
       /\ pay'[k].st \in {"IN_PROGRESS", "ABORTED", "WAITING_FOR_DEPOSIT"}
    \/ pay'[k].st \in Revoked /\ SignalFor(KeyOrder[k])'
SignalsMove ==
    \/ signals \subseteq signals'
    \/ pay' = pay /\ \E s \in Signal : WebhookReconcile(s)

\* The vendor's answer to a confirmation moves its payment like that.
LEMMA VendorAnswers ==
  ASSUME Watched, IInv, NEW c \in Confirms, VendorConfirm(c), NEW k \in Keys
  PROVE  VendorMoves(k)
  <1> PICK m : m = confirm[c].key
    OBVIOUS
  <1>0. /\ pay \in [Keys -> Payment] /\ m \in Keys
    BY DEF IInv, TypeOK, ConfirmKeyed, VendorConfirm
  <1>1. PICK a \in ConfirmAnswers(m) :
          \/ pay' = [pay EXCEPT ![m] = a.pay]
          \/ /\ pay[m].st = "IN_PROGRESS"
             /\ pay' = [pay EXCEPT ![m].st = "ABORTED", ![m].first = "rejected"]
    BY DEF VendorConfirm, Fault, Watched
  <1>2. CASE pay' = [pay EXCEPT ![m] = a.pay]
    <2>1. k # m => pay'[k] = pay[k]
      BY <1>0, <1>2
    <2>2. pay'[m] = a.pay
      BY <1>0, <1>2
    <2>3. \/ a.pay = pay[m]
          \/ /\ pay[m].st = "IN_PROGRESS"
             /\ \E s \in {"DONE", "WAITING_FOR_DEPOSIT"} : a = Approval(KeyOrder[m], s)
      BY DEF ConfirmAnswers, Watched
    <2>4. ASSUME NEW s \in {"DONE", "WAITING_FOR_DEPOSIT"}, a = Approval(KeyOrder[m], s)
          PROVE  a.pay.st = s /\ (s = "DONE" => a.pay.bal = Amount[KeyOrder[m]])
      BY <2>4 DEF Approval
    <2>5. VendorMoves(m)
      BY <2>2, <2>3, <2>4 DEF VendorMoves
    <2> QED
      BY <2>1, <2>5 DEF VendorMoves
  <1>3. CASE pay[m].st = "IN_PROGRESS" /\
             pay' = [pay EXCEPT ![m].st = "ABORTED", ![m].first = "rejected"]
    BY <1>0, <1>3 DEF VendorMoves, Payment
  <1> QED
    BY <1>1, <1>2, <1>3

\* So do the steps the vendor takes by itself.
LEMMA VendorReports ==
  ASSUME Watched, IInv, NEW m \in Keys, PaymentStep(m), NEW k \in Keys
  PROVE  VendorMoves(k)
  <1>0. pay \in [Keys -> Payment]
    BY DEF IInv, TypeOK
  <1>1. k # m => pay'[k] = pay[k]
    BY <1>0 DEF PaymentStep, OpenWindow, Deposit, VendorRevoke, Expire
  <1>2. CASE OpenWindow(m)
    BY <1>0, <1>1, <1>2 DEF OpenWindow, VendorMoves, Payment
  <1>3. CASE Deposit(m)
    BY <1>0, <1>1, <1>3 DEF Deposit, VendorMoves, Payment
  <1>4. ASSUME Notify(m, {"status"}) PROVE SignalFor(KeyOrder[m])'
    <2>1. PICK s : s = [order |-> KeyOrder[m], kind |-> "status"]
      OBVIOUS
    <2>2. s \in signals' /\ s.order = KeyOrder[m]
      BY <1>4, <2>1 DEF Notify, Watched
    <2> QED
      BY <2>2 DEF SignalFor
  <1>5. CASE VendorRevoke(m) \/ Expire(m)
    <2>1. pay'[m].st \in Revoked /\ Notify(m, {"status"})
      BY <1>0, <1>5 DEF VendorRevoke, Expire, Revoked, Payment
    <2> QED
      BY <1>1, <1>4, <2>1 DEF VendorMoves
  <1> QED
    BY <1>2, <1>3, <1>5 DEF PaymentStep

\* So does every step, and a signal is lost by being received only.
LEMMA EveryVendorMove ==
  ASSUME Watched, IInv, Next
  PROVE  SignalsMove /\ \A k \in Keys : VendorMoves(k)
  <1>a. ASSUME pay' = pay PROVE \A k \in Keys : VendorMoves(k)
    BY <1>a DEF VendorMoves
  <1>1. ASSUME NEW c \in Confirms, ConfirmStep(c)
        PROVE  SignalsMove /\ \A k \in Keys : VendorMoves(k)
    <2>1. CASE VendorConfirm(c)
      BY <2>1, VendorAnswers DEF VendorConfirm, SignalsMove, Notify
    <2> QED
      BY <1>1, <1>a, <2>1 DEF ConfirmStep, ConfirmBegin, ConfirmRejected, ConfirmUnknown,
         ConfirmResolve, ConfirmPending, ConfirmApply, SignalsMove, vendor
  <1>2. ASSUME NEW k \in Keys, PaymentStep(k)
        PROVE  SignalsMove /\ \A l \in Keys : VendorMoves(l)
    BY <1>2, VendorReports DEF PaymentStep, OpenWindow, Deposit, VendorRevoke, Expire,
       SignalsMove, Notify
  <1>3. ASSUME NEW s \in Signal, WebhookReconcile(s)
        PROVE  SignalsMove /\ \A k \in Keys : VendorMoves(k)
    BY <1>3, <1>a DEF WebhookReconcile, SignalsMove
  <1>4. ASSUME NEW o \in Orders, ReconcileWork(o)
        PROVE  SignalsMove /\ \A k \in Keys : VendorMoves(k)
    BY <1>4, <1>a DEF ReconcileWork, ReconcileFetch, ReconcileGrant, ReconcileClaw,
       ReconcileConsistent, Finish, SignalsMove, vendor
  <1>5. CASE \/ \E o \in Orders : AdminReconcile(o) \/ CancelOrder(o) \/ ManualConfirm(o)
             \/ \E i \in Keys \cup Orders : SchedulerReconcile(i)
             \/ \E u \in Users : Spend(u) \/ Withdraw(u)
             \/ PurgeBuyers
    <2>1. pay' = pay /\ signals' = signals
      BY <1>5 DEF AdminReconcile, CancelOrder, ManualConfirm, SchedulerReconcile, Spend,
         Withdraw, PurgeBuyers, vendor
    <2> QED
      BY <1>a, <2>1 DEF SignalsMove
  <1> QED
    BY <1>1, <1>2, <1>3, <1>4, <1>5, WatchedSteps

\* A signal is received by a reconciliation that begins.
LEMMA SignalKept ==
  ASSUME Watched, IInv, Next, NEW o \in Orders, SignalFor(o)
  PROVE  SignalFor(o)' \/ (pay' = pay /\ Begins(o, NoKey))
  <1>1. CASE signals \subseteq signals'
    BY <1>1 DEF SignalFor
  <1>2. ASSUME pay' = pay, NEW s \in Signal, WebhookReconcile(s)
        PROVE  SignalFor(o)' \/ (pay' = pay /\ Begins(o, NoKey))
    <2>1. CASE s.order # o
      BY <1>2, <2>1 DEF SignalFor, WebhookReconcile
    <2>2. CASE s.order = o
      <3>1. ReconcileBegin(o, NoKey) /\ order' = order /\ confirm' = confirm
        BY <1>2, <2>2 DEF WebhookReconcile, accounts
      <3> QED
        BY <1>2, <3>1, InstanceAssumption DEF ReconcileBegin, LockFree, Begins, IInv, TypeOK
    <2> QED
      BY <2>1, <2>2
  <1> QED
    BY <1>1, <1>2, EveryVendorMove DEF SignalsMove

\* What was approved stays so while the order is locked.
LEMMA ApprovedKept ==
  ASSUME Watched, IInv, Next, NEW k \in Keys, ApprovedAt(k)
  PROVE  ApprovedAt(k)' \/ Begins(KeyOrder[k], NoKey)
  <1>1. VendorMoves(k) /\ KeyOrder[k] \in Orders
    BY EveryVendorMove, InstanceAssumption
  <1>2. SignalFor(KeyOrder[k]) => SignalFor(KeyOrder[k])' \/
                                  (pay' = pay /\ Begins(KeyOrder[k], NoKey))
    BY <1>1, SignalKept
  <1> QED
    BY <1>1, <1>2 DEF ApprovedAt, VendorMoves, Revoked

\* A payment that is whole holds its order's amount, and none is in part.
LEMMA PaymentsStayWhole ==
  ASSUME Watched, BackInv, Next, NEW k \in Keys
  PROVE  PaymentWhole(k)'
  <1>1. VendorMoves(k) /\ PaymentWhole(k)
    BY EveryVendorMove DEF BackInv
  <1> QED
    BY <1>1 DEF VendorMoves, PaymentWhole, Revoked

\* What a reconciliation has heard stays true until it ends.
LEMMA JobsStayWatched ==
  ASSUME Watched, BackInv, Next, NEW o \in Orders
  PROVE  JobWatched(o)'
  <1>0. JobMoves(o) /\ JobWatched(o) /\ OrderBacked(o)
    BY EveryJobMove DEF BackInv, Watched
  <1>1. CASE reconcile'[o].pc = "idle"
    BY <1>1 DEF JobWatched
  <1>2. CASE reconcile'[o] = reconcile[o]
    <2> PICK k : k = reconcile[o].got.key
      OBVIOUS
    <2>1. ASSUME reconcile[o].pc = "deciding", k # NoKey, KeyOrder[k] = o, ApprovedAt(k)
          PROVE  ApprovedAt(k)'
      <3>1. k \in Keys
        BY <2>1 DEF BackInv, IInv, TypeOK, ReconcileJob, Found
      <3> QED
        BY <2>1, <3>1, ApprovedKept DEF Begins, BackInv
    <2> QED
      BY <1>0, <1>2, <2>1 DEF JobWatched
  <1>3. ASSUME NEW item, Begins(o, item) PROVE JobWatched(o)'
    BY <1>0, <1>3 DEF Begins, JobWatched, OrderBacked
  <1>4. CASE Hears(o)
    <2> PICK found : found = Lookup(o, reconcile[o].row.ref)
      OBVIOUS
    <2>1. \A k \in found : k \in Keys /\ KeyOrder[k] = o /\ PaymentWhole(k)
      BY <1>0, <1>4, InstanceAssumption DEF Hears, Lookup, KeysOf, JobWatched, BackInv
    <2>2. \A k \in found : pay[k].st = "DONE" => ApprovedAt(k)'
      BY <1>4 DEF Hears, ApprovedAt
    <2>3. \/ reconcile'[o].got.key = NoKey
          \/ \E k \in found : reconcile'[o].got.key = k /\ reconcile'[o].got.st = pay[k].st
      BY <1>4 DEF Hears
    <2> QED
      BY <1>0, <1>4, <2>1, <2>2, <2>3 DEF Hears, JobWatched, PaymentWhole
  <1> QED
    BY <1>0, <1>1, <1>2, <1>3, <1>4 DEF JobMoves

\* How a confirmation moves: it is answered what the payment then is.
AnswerMoves(c) ==
    \/ confirm'[c] = confirm[c]
    \/ confirm'[c].pc # "resolving" /\ confirm'[c].reply \in {"none", "rejected", "WAITING_FOR_DEPOSIT"}
    \/ /\ confirm'[c].pc = "answered" /\ confirm'[c].reply = "DONE"
       /\ pay'[confirm'[c].key].st = "DONE"

\* The vendor's answer is what the payment then is.
LEMMA VendorTells ==
  ASSUME Watched, BackInv, NEW c \in Confirms, VendorConfirm(c)
  PROVE  AnswerMoves(c)
  <1> PICK m : m = confirm[c].key
    OBVIOUS
  <1>0. /\ pay \in [Keys -> Payment] /\ m \in Keys /\ confirm \in [Confirms -> ConfirmJob]
    BY DEF BackInv, IInv, TypeOK, ConfirmKeyed, VendorConfirm
  <1>1. PICK a \in ConfirmAnswers(m) :
          \/ /\ pay' = [pay EXCEPT ![m] = a.pay]
             /\ confirm' = [confirm EXCEPT ![c].pc = "answered", ![c].reply = a.reply]
          \/ confirm' = [confirm EXCEPT ![c].pc = "answered", ![c].reply = "rejected"]
    BY DEF VendorConfirm, Fault, Watched
  <1>2. \/ a.reply = "rejected"
        \/ \E s \in {"DONE", "WAITING_FOR_DEPOSIT"} : a = Approval(KeyOrder[m], s)
    BY DEF ConfirmAnswers, Watched
  <1>3. a.reply \in {"rejected", "WAITING_FOR_DEPOSIT"} \/ (a.reply = "DONE" /\ a.pay.st = "DONE")
    BY <1>2 DEF Approval
  <1>4. ASSUME NEW reply,
               confirm' = [confirm EXCEPT ![c].pc = "answered", ![c].reply = reply]
        PROVE  confirm'[c].pc = "answered" /\ confirm'[c].reply = reply /\ confirm'[c].key = m
    BY <1>0, <1>4 DEF ConfirmJob
  <1>5. CASE confirm' = [confirm EXCEPT ![c].pc = "answered", ![c].reply = "rejected"]
    BY <1>4, <1>5 DEF AnswerMoves
  <1>6. CASE /\ pay' = [pay EXCEPT ![m] = a.pay]
             /\ confirm' = [confirm EXCEPT ![c].pc = "answered", ![c].reply = a.reply]
    <2>1. pay'[m] = a.pay
      BY <1>0, <1>6
    <2> QED
      BY <1>3, <1>4, <1>6, <2>1 DEF AnswerMoves
  <1> QED
    BY <1>1, <1>5, <1>6

\* Confirmations move like that in every step.
LEMMA EveryAnswerMove ==
  ASSUME Watched, BackInv, Next, NEW c \in Confirms
  PROVE  AnswerMoves(c)
  <1>0. confirm \in [Confirms -> ConfirmJob] /\ ConfirmWatched(c)
    BY DEF BackInv, IInv, TypeOK
  <1>a. ASSUME confirm' = confirm PROVE AnswerMoves(c)
    BY <1>a DEF AnswerMoves
  <1>1. ASSUME NEW d \in Confirms, ConfirmStep(d) PROVE AnswerMoves(c)
    <2>1. d # c => confirm'[c] = confirm[c]
      BY <1>0, <1>1 DEF ConfirmStep, ConfirmBegin, ConfirmRejected, ConfirmUnknown,
         ConfirmResolve, ConfirmPending, ConfirmApply, VendorConfirm
    <2>2. CASE d = c /\ \E k \in Keys : ConfirmBegin(c, k)
      BY <1>0, <2>2 DEF ConfirmBegin, AnswerMoves
    <2>3. CASE confirm' = [confirm EXCEPT ![c] = NoConfirm]
      BY <1>0, <2>3 DEF NoConfirm, AnswerMoves
    <2>4. CASE d = c /\ (ConfirmUnknown(c) \/ ConfirmResolve(c))
      BY <1>0, <2>4 DEF ConfirmUnknown, ConfirmResolve, ConfirmWatched
    <2> QED
      BY <1>1, <2>1, <2>2, <2>3, <2>4, VendorTells DEF ConfirmStep, ConfirmRejected,
         ConfirmPending, ConfirmApply, AnswerMoves
  <1>2. ASSUME NEW o \in Orders, ReconcileWork(o) PROVE AnswerMoves(c)
    BY <1>2, <1>a DEF ReconcileWork, ReconcileFetch, ReconcileGrant, ReconcileClaw,
       ReconcileConsistent, Finish
  <1>3. CASE \/ \E o \in Orders : AdminReconcile(o) \/ CancelOrder(o) \/ ManualConfirm(o)
             \/ \E i \in Keys \cup Orders : SchedulerReconcile(i)
             \/ \E s \in Signal : WebhookReconcile(s)
             \/ \E k \in Keys : PaymentStep(k)
             \/ \E u \in Users : Spend(u) \/ Withdraw(u)
             \/ PurgeBuyers
    <2>1. confirm' = confirm
      BY <1>3 DEF AdminReconcile, CancelOrder, ManualConfirm, SchedulerReconcile,
         WebhookReconcile, PaymentStep, OpenWindow, Deposit, VendorRevoke, Expire,
         Spend, Withdraw, PurgeBuyers
    <2> QED
      BY <1>a, <2>1
  <1> QED
    BY <1>1, <1>2, <1>3, WatchedSteps

\* What a confirmation has been told stays true until it ends.
LEMMA ConfirmsStayWatched ==
  ASSUME Watched, BackInv, Next, NEW c \in Confirms
  PROVE  ConfirmWatched(c)'
  <1>1. ConfirmWatched(c) /\ AnswerMoves(c)
    BY EveryAnswerMove DEF BackInv
  <1>2. ConfirmApart(c)'
    BY <1>1, LocksKept DEF ConfirmWatched, BackInv, Watched
  <1>3. CASE confirm'[c] = confirm[c]
    <2> PICK k : k = confirm[c].key
      OBVIOUS
    <2>1. ASSUME confirm[c].pc = "answered", ApprovedAt(k) PROVE ApprovedAt(k)'
      <3>1. k \in Keys
        BY <2>1 DEF BackInv, IInv, ConfirmKeyed
      <3>2. ~Begins(KeyOrder[k], NoKey)
        BY <3>1 DEF Begins, KeysOf
      <3> QED
        BY <2>1, <3>1, <3>2, ApprovedKept DEF BackInv
    <2> QED
      BY <1>1, <1>2, <1>3, <2>1 DEF ConfirmWatched
  <1>4. CASE confirm'[c] # confirm[c]
    BY <1>1, <1>2, <1>4 DEF AnswerMoves, ConfirmWatched, ApprovedAt
  <1> QED
    BY <1>3, <1>4

\* What becomes of an order: it stays, is canceled while it is pending, is clawed back, or
\* is granted for a bank transfer or an approved payment.
SameRow(o) == /\ order'[o].status = order[o].status /\ order'[o].ref = order[o].ref
              /\ order'[o].refunded = order[o].refunded
GrantedFor(o, k) ==
    /\ order[o].status = "pending" /\ order'[o].status = "paid"
    /\ order'[o].ref = k /\ order'[o].refunded = order[o].refunded
    /\ \/ k = NoKey /\ bank'[o] = Amount[o]
       \/ /\ k \in Keys /\ KeyOrder[k] = o /\ ApprovedAt(k)
          /\ pay' = pay /\ signals' = signals
Unpays(o, status) ==
    /\ order'[o].status = status
    /\ order'[o].ref = order[o].ref /\ order'[o].refunded = order[o].refunded
Fate(o) ==
    \/ SameRow(o)
    \/ order[o].status = "pending" /\ Unpays(o, "canceled")
    \/ ReconcileClaw(o) /\ Unpays(o, "pending")
    \/ \E k : GrantedFor(o, k)

\* A grant pays its order, which was pending, and leaves the others.
LEMMA GrantFate ==
  ASSUME IInv, NEW q \in Orders, NEW provider, NEW ref, Confirmable(q),
         Grant(q, provider, ref), NEW o \in Orders
  PROVE  /\ o # q => SameRow(o)
         /\ order[q].status = "pending" /\ order'[q].status = "paid"
         /\ order'[q].ref = ref /\ order'[q].refunded = order[q].refunded
  BY DEF IInv, TypeOK, OrderRow, Confirmable, Grant, SameRow

\* That is all that can become of an order.
LEMMA EveryFate ==
  ASSUME Watched, BackInv, Next, NEW o \in Orders
  PROVE  Fate(o)
  <1>0. IInv /\ order \in [Orders -> OrderRow] /\ bank \in [Orders -> Nat]
    BY DEF BackInv, IInv, TypeOK
  <1>a. ASSUME order' = order PROVE Fate(o)
    BY <1>a DEF Fate, SameRow
  <1>1. ASSUME NEW c \in Confirms, ConfirmStep(c) PROVE Fate(o)
    <2>1. CASE ConfirmApply(c) /\ order' # order
      <3> PICK k, q : k = confirm[c].key /\ q = KeyOrder[k]
        OBVIOUS
      <3>1. /\ k \in Keys /\ q \in Orders /\ ApprovedAt(k)
            /\ Confirmable(q) /\ Grant(q, "toss", k)
        BY <1>0, <2>1, InstanceAssumption DEF ConfirmApply, accounts, IInv, ConfirmKeyed,
           BackInv, ConfirmWatched
      <3>2. pay' = pay /\ signals' = signals
        BY <2>1 DEF ConfirmApply, vendor
      <3>3. GrantedFor(q, k) /\ (o # q => SameRow(o))
        BY <1>0, <3>1, <3>2, GrantFate DEF GrantedFor
      <3> QED
        BY <3>3 DEF Fate
    <2> QED
      BY <1>1, <1>a, <2>1 DEF ConfirmStep, ConfirmBegin, ConfirmRejected, ConfirmUnknown,
         ConfirmResolve, ConfirmPending, VendorConfirm, accounts
  <1>2. ASSUME NEW q \in Orders, ReconcileWork(q) PROVE Fate(o)
    <2> PICK k : k = reconcile[q].got.key
      OBVIOUS
    <2>1. CASE ReconcileGrant(q) /\ order' # order
      <3>1. /\ reconcile[q].pc = "deciding" /\ k # NoKey /\ reconcile[q].got.st = "DONE"
            /\ Confirmable(q) /\ Grant(q, "toss", k) /\ pay' = pay /\ signals' = signals
        BY <2>1 DEF ReconcileGrant, Finish, Unpaid, accounts, vendor
      <3>2. k \in Keys /\ KeyOrder[k] = q /\ ApprovedAt(k)
        BY <1>0, <3>1 DEF BackInv, JobWatched, IInv, TypeOK, ReconcileJob, Found
      <3>3. GrantedFor(q, k) /\ (o # q => SameRow(o))
        BY <1>0, <3>1, <3>2, GrantFate DEF GrantedFor
      <3> QED
        BY <3>3 DEF Fate
    <2>2. CASE ReconcileClaw(q)
      <3>1. /\ o # q => SameRow(o)
            /\ Unpays(q, "pending")
        BY <1>0, <2>2 DEF ReconcileClaw, SameRow, Unpays, OrderRow
      <3> QED
        BY <2>2, <3>1 DEF Fate
    <2> QED
      BY <1>2, <1>a, <2>1, <2>2 DEF ReconcileWork, ReconcileFetch, ReconcileConsistent, accounts
  <1>3. ASSUME NEW q \in Orders, ManualConfirm(q) PROVE Fate(o)
    <2>1. bank'[q] = Amount[q]
      BY <1>0, <1>3 DEF ManualConfirm
    <2>2. GrantedFor(q, NoKey) /\ (o # q => SameRow(o))
      BY <1>0, <1>3, <2>1, GrantFate DEF GrantedFor, ManualConfirm
    <2> QED
      BY <2>2 DEF Fate
  <1>4. ASSUME NEW q \in Orders, CancelOrder(q) PROVE Fate(o)
    <2>1. /\ o # q => SameRow(o)
          /\ order[q].status = "pending" /\ Unpays(q, "canceled")
      BY <1>0, <1>4 DEF CancelOrder, SameRow, Unpays, OrderRow
    <2> QED
      BY <2>1 DEF Fate
  <1>5. CASE PurgeBuyers
    <2>1. order'[o] = order[o] \/ order'[o] = [order[o] EXCEPT !.buyer = FALSE]
      BY <1>5 DEF PurgeBuyers
    <2> QED
      BY <1>0, <2>1 DEF Fate, SameRow, OrderRow
  <1>6. CASE \/ \E q \in Orders : AdminReconcile(q)
             \/ \E i \in Keys \cup Orders : SchedulerReconcile(i)
             \/ \E s \in Signal : WebhookReconcile(s)
             \/ \E k \in Keys : PaymentStep(k)
             \/ \E u \in Users : Spend(u) \/ Withdraw(u)
    <2>1. order' = order
      BY <1>6 DEF AdminReconcile, SchedulerReconcile, WebhookReconcile, PaymentStep,
         OpenWindow, Deposit, VendorRevoke, Expire, Spend, Withdraw, accounts
    <2> QED
      BY <1>a, <2>1
  <1> QED
    BY <1>1, <1>2, <1>3, <1>4, <1>5, <1>6, WatchedSteps

\* A bank transfer is not taken back.
LEMMA BankKept ==
  ASSUME Watched, IInv, Next, NEW o \in Orders
  PROVE  bank'[o] \in {bank[o], Amount[o]}
  <1>0. bank \in [Orders -> Nat]
    BY DEF IInv, TypeOK
  <1>1. ASSUME NEW q \in Orders, ManualConfirm(q) PROVE bank'[o] \in {bank[o], Amount[o]}
    BY <1>0, <1>1 DEF ManualConfirm
  <1>2. CASE \/ \E c \in Confirms : ConfirmStep(c)
             \/ \E q \in Orders : ReconcileWork(q) \/ AdminReconcile(q) \/ CancelOrder(q)
             \/ \E i \in Keys \cup Orders : SchedulerReconcile(i)
             \/ \E s \in Signal : WebhookReconcile(s)
             \/ \E k \in Keys : PaymentStep(k)
             \/ \E u \in Users : Spend(u) \/ Withdraw(u)
             \/ PurgeBuyers
    <2>1. bank' = bank
      <3>1. CASE \E c \in Confirms : ConfirmStep(c)
        BY <3>1 DEF ConfirmStep, ConfirmBegin, ConfirmRejected, ConfirmUnknown,
           ConfirmResolve, ConfirmPending, ConfirmApply, VendorConfirm, people
      <3>2. CASE \E q \in Orders : ReconcileWork(q)
        BY <3>2 DEF ReconcileWork, ReconcileFetch, ReconcileGrant, ReconcileClaw,
           ReconcileConsistent, Finish, people
      <3> QED
        BY <1>2, <3>1, <3>2 DEF AdminReconcile, CancelOrder, SchedulerReconcile,
           WebhookReconcile, PaymentStep, OpenWindow, Deposit, VendorRevoke, Expire, Spend,
           Withdraw, PurgeBuyers, people
    <2> QED
      BY <2>1
  <1> QED
    BY <1>1, <1>2, WatchedSteps

\* A reconciliation ends by what it decides.
LEMMA JobEnds ==
  ASSUME Watched, IInv, Next, NEW o \in Orders, reconcile[o].pc # "idle",
         reconcile'[o].pc = "idle"
  PROVE  ReconcileGrant(o) \/ ReconcileClaw(o) \/ ReconcileConsistent(o)
  <1>0. reconcile \in [Orders -> ReconcileJob]
    BY DEF IInv, TypeOK
  <1>1. reconcile'[o] # reconcile[o]
    OBVIOUS
  <1>2. ASSUME NEW q \in Orders, ReconcileWork(q)
        PROVE  ReconcileGrant(o) \/ ReconcileClaw(o) \/ ReconcileConsistent(o)
    <2>1. q = o
      BY <1>0, <1>1, <1>2 DEF ReconcileWork, ReconcileFetch, ReconcileGrant, ReconcileClaw,
         ReconcileConsistent, Finish
    <2>2. ~ReconcileFetch(o)
      <3>1. SUFFICES ASSUME NEW f,
                     reconcile' = [reconcile EXCEPT ![o].pc = "deciding", ![o].got = f]
                     PROVE FALSE
        BY Zenon DEF ReconcileFetch
      <3> QED
        BY <1>0, <3>1 DEF ReconcileJob
    <2> QED
      BY <1>2, <2>1, <2>2 DEF ReconcileWork
  <1>3. ASSUME NEW q \in Orders, NEW item, ReconcileBegin(q, item) PROVE FALSE
    BY <1>0, <1>3 DEF ReconcileBegin
  <1>4. CASE \/ \E q \in Orders : AdminReconcile(q)
             \/ \E i \in Keys \cup Orders : SchedulerReconcile(i)
             \/ \E s \in Signal : WebhookReconcile(s)
    BY <1>3, <1>4, InstanceAssumption DEF AdminReconcile, SchedulerReconcile, WebhookReconcile,
       Signal
  <1>5. CASE \/ \E c \in Confirms : ConfirmStep(c)
             \/ \E q \in Orders : CancelOrder(q) \/ ManualConfirm(q)
             \/ \E k \in Keys : PaymentStep(k)
             \/ \E u \in Users : Spend(u) \/ Withdraw(u)
             \/ PurgeBuyers
    <2>1. reconcile' = reconcile
      BY <1>5 DEF ConfirmStep, ConfirmBegin, ConfirmRejected, ConfirmUnknown, ConfirmResolve,
         ConfirmPending, ConfirmApply, VendorConfirm, CancelOrder, ManualConfirm, PaymentStep,
         OpenWindow, Deposit, VendorRevoke, Expire, Spend, Withdraw, PurgeBuyers
    <2> QED
      BY <1>1, <2>1
  <1> QED
    BY <1>2, <1>4, <1>5, WatchedSteps

\* The alarm about a payment that was taken back ends with the clawback.
LEMMA AlertKept ==
  ASSUME Watched, BackInv, Next, NEW o \in Orders, Alerted(o), SameRow(o),
         order[o].status = "paid", order[o].ref \in Keys,
         pay[order[o].ref].st \in Revoked, pay'[order[o].ref] = pay[order[o].ref]
  PROVE  Alerted(o)'
  <1> PICK k, j : k = order[o].ref /\ j = reconcile[o]
    OBVIOUS
  <1>0. /\ IInv /\ JobMoves(o) /\ JobWatched(o)
        /\ order'[o].ref = k /\ order'[o].status = "paid" /\ NoKey \notin Keys
    BY EveryJobMove, InstanceAssumption DEF BackInv, Watched, SameRow
  <1>1. CASE SignalFor(o)
    <2>1. CASE SignalFor(o)'
      BY <2>1 DEF Alerted
    <2>2. CASE Begins(o, NoKey)
      BY <1>0, <2>2 DEF Begins, Alerted
    <2> QED
      BY <1>0, <1>1, <2>1, <2>2, SignalKept
  <1>2. ASSUME reconcile'[o].pc = "idle", j.pc # "idle"
        PROVE  j.pc = "deciding" /\ ~(j.row.status = "paid" /\ j.got.key # NoKey /\ j.got.st \in Revoked)
    <2>1. ReconcileGrant(o) \/ ReconcileClaw(o) \/ ReconcileConsistent(o)
      BY <1>0, <1>2, JobEnds
    <2>2. j.pc = "deciding"
      BY <2>1 DEF ReconcileGrant, ReconcileClaw, ReconcileConsistent, Finish
    <2>3. ASSUME j.row.status = "paid", j.got.key # NoKey, j.got.st \in Revoked PROVE FALSE
      <3>1. ClawTarget(o, j) = Amount[o] /\ Amount[o] > 0
        BY <1>0, <2>2, <2>3, InstanceAssumption DEF ClawTarget, VendorRemaining, JobWatched
      <3>2. Overpaid(o, j)
        BY <2>3, <3>1 DEF Overpaid, Revoking
      <3>3. ~ReconcileConsistent(o)
        BY <2>3, <3>2 DEF ReconcileConsistent
      <3>4. ~ReconcileGrant(o)
        BY <2>3 DEF ReconcileGrant, Unpaid
      <3>5. ~ReconcileClaw(o)
        BY <1>0 DEF ReconcileClaw, IInv, TypeOK, OrderRow
      <3> QED
        BY <2>1, <3>3, <3>4, <3>5
    <2> QED
      BY <2>2, <2>3
  <1>3. CASE /\ ~SignalFor(o)
             /\ j.pc = "fetching" /\ j.row.status = "paid" /\ j.row.ref = k
    <2>1. CASE reconcile'[o] = reconcile[o]
      BY <1>0, <1>3, <2>1 DEF Alerted
    <2>2. CASE Hears(o)
      <3>1. Lookup(o, k) = {k}
        BY DEF Lookup
      <3>2. reconcile'[o].got.key = k /\ reconcile'[o].got.st = pay[k].st
        BY <1>3, <2>2, <3>1 DEF Hears
      <3> QED
        BY <1>0, <1>3, <2>2, <3>2 DEF Hears, Alerted
    <2> QED
      BY <1>0, <1>2, <1>3, <2>1, <2>2 DEF JobMoves, Begins
  <1>4. CASE j.pc = "deciding" /\ j.row.status = "paid" /\ j.got.key # NoKey /\ j.got.st \in Revoked
    <2>1. reconcile'[o] = reconcile[o]
      BY <1>0, <1>2, <1>4 DEF JobMoves, Begins, Hears
    <2> QED
      BY <1>4, <2>1 DEF Alerted
  <1> QED
    BY <1>1, <1>3, <1>4 DEF Alerted

\* A paid order stays backed, or somebody is told.
LEMMA OrdersStayBacked ==
  ASSUME Watched, BackInv, Next, NEW o \in Orders
  PROVE  OrderBacked(o)'
  <1> PICK k : k = order[o].ref
    OBVIOUS
  <1>0. /\ IInv /\ Fate(o) /\ OrderBacked(o) /\ NoKey \notin Keys
        /\ k \in Keys \cup {NoKey} /\ bank'[o] \in {bank[o], Amount[o]}
    BY EveryFate, BankKept, InstanceAssumption DEF BackInv, IInv, TypeOK, OrderRow
  <1>1. CASE SameRow(o) /\ order[o].status = "paid"
    <2>1. CASE k = NoKey
      BY <1>0, <1>1, <2>1 DEF SameRow, OrderBacked, Backed
    <2>2. CASE k \in Keys
      <3>1. VendorMoves(k) /\ KeyOrder[k] = o
        BY <1>0, <2>2, EveryVendorMove DEF OrderBacked
      <3>2. pay[k].st = "DONE" \/ (pay[k].st \in Revoked /\ Alerted(o))
        BY <1>0, <1>1, <2>2 DEF OrderBacked, Backed
      <3>3. ASSUME SignalFor(o)' PROVE Alerted(o)'
        BY <3>3 DEF Alerted
      <3>4. pay'[k].st = "DONE" \/ (pay'[k].st \in Revoked /\ Alerted(o)')
        <4>1. CASE pay'[k] = pay[k]
          BY <1>1, <2>2, <3>2, <4>1, AlertKept
        <4>2. CASE pay'[k] # pay[k]
          BY <3>1, <3>2, <3>3, <4>2 DEF VendorMoves, Revoked
        <4> QED
          BY <4>1, <4>2
      <3>5. order'[o].ref = k /\ k # NoKey
        BY <1>0, <1>1, <2>2 DEF SameRow
      <3>6. Backed(o)'
        BY <3>4, <3>5 DEF Backed
      <3> QED
        BY <1>0, <1>1, <3>1, <3>5, <3>6 DEF OrderBacked, SameRow
    <2> QED
      BY <1>0, <2>1, <2>2
  <1>2. ASSUME NEW l, GrantedFor(o, l) PROVE OrderBacked(o)'
    <2>1. CASE l = NoKey /\ bank'[o] = Amount[o]
      BY <1>0, <1>2, <2>1 DEF GrantedFor, OrderBacked, Backed
    <2>2. CASE /\ l \in Keys /\ KeyOrder[l] = o /\ ApprovedAt(l)
               /\ pay' = pay /\ signals' = signals
      <3>1. pay'[l].st = "DONE" \/ (pay'[l].st \in Revoked /\ Alerted(o)')
        BY <2>2 DEF ApprovedAt, Alerted, SignalFor
      <3> QED
        BY <1>0, <1>2, <2>2, <3>1 DEF GrantedFor, OrderBacked, Backed
    <2> QED
      BY <1>2, <2>1, <2>2 DEF GrantedFor
  <1>3. CASE Unpays(o, "pending") \/ Unpays(o, "canceled")
    BY <1>0, <1>3 DEF Unpays, OrderBacked
  <1>4. CASE SameRow(o) /\ order[o].status # "paid"
    BY <1>0, <1>4 DEF SameRow, OrderBacked
  <1> QED
    BY <1>0, <1>1, <1>2, <1>3, <1>4 DEF Fate

\* What a user's orders are worth is an amount, and changes by what one of them does.
LEMMA ClaimsType ==
  ASSUME NEW table, NEW u
  PROVE  ClaimsOn(table, u) \in Nat /\ IsFiniteSet(OrdersOf(u))
  <1>0. PICK f, S : f = [o \in Orders |-> Claim(table[o], o)] /\ S = OrdersOf(u)
    OBVIOUS
  <1>1. \A o \in S : f[o] \in Nat
    BY <1>0, InstanceAssumption DEF Claim, OrdersOf
  <1>2. IsFiniteSet(S)
    BY <1>0, FS_Subset, InstanceAssumption DEF OrdersOf
  <1>3. SumFunctionOnSet(f, S) \in Nat
    BY <1>1, <1>2, SumNat
  <1> QED
    BY <1>0, <1>2, <1>3 DEF ClaimsOn

\* What a user's orders are worth is the same if each is worth the same.
LEMMA ClaimsSame ==
  ASSUME NEW table, NEW new, \A o \in Orders : Claim(new[o], o) = Claim(table[o], o), NEW u
  PROVE  ClaimsOn(new, u) = ClaimsOn(table, u)
  <1>0. PICK f, g, S : /\ f = [o \in Orders |-> Claim(table[o], o)]
                       /\ g = [o \in Orders |-> Claim(new[o], o)] /\ S = OrdersOf(u)
    OBVIOUS
  <1>1. (\A o \in S : f[o] = g[o]) /\ IsFiniteSet(S)
    BY <1>0, ClaimsType DEF OrdersOf
  <1>2. SumFunctionOnSet(f, S) = SumFunctionOnSet(g, S)
    BY <1>1, SumOfSame
  <1> QED
    BY <1>0, <1>2 DEF ClaimsOn

\* It changes by what one of the orders does.
LEMMA ClaimsChange ==
  ASSUME NEW table, NEW new, NEW q \in Orders,
         \A o \in Orders : o # q => Claim(new[o], o) = Claim(table[o], o), NEW u
  PROVE  /\ Owner[q] = u => Replaced(ClaimsOn(new, u), ClaimsOn(table, u),
                                     Claim(table[q], q), Claim(new[q], q))
         /\ Owner[q] # u => ClaimsOn(new, u) = ClaimsOn(table, u)
  <1>0. PICK f, g, S : /\ f = [o \in Orders |-> Claim(table[o], o)]
                       /\ g = [o \in Orders |-> Claim(new[o], o)] /\ S = OrdersOf(u)
    OBVIOUS
  <1>1. \A o \in S : f[o] \in Int /\ g[o] \in Int
    BY <1>0, InstanceAssumption DEF Claim, OrdersOf
  <1>2. IsFiniteSet(S) /\ (\A o \in S : o # q => f[o] = g[o])
    BY <1>0, ClaimsType DEF OrdersOf
  <1>3. /\ f[q] = Claim(table[q], q) /\ g[q] = Claim(new[q], q)
        /\ ClaimsOn(table, u) = SumFunctionOnSet(f, S)
        /\ ClaimsOn(new, u) = SumFunctionOnSet(g, S)
        /\ Owner[q] = u <=> q \in S
    BY <1>0 DEF ClaimsOn, OrdersOf
  <1>a. ASSUME NEW x, x \in S, \A o \in S : o # x => f[o] = g[o]
        PROVE  SumFunctionOnSet(g, S) = SumFunctionOnSet(f, S) - f[x] + g[x]
    BY <1>1, <1>2, <1>a, SumChanges
  <1>4. ASSUME q \in S PROVE SumFunctionOnSet(g, S) = SumFunctionOnSet(f, S) - f[q] + g[q]
    BY <1>2, <1>4, <1>a
  <1>5. ASSUME q \notin S PROVE SumFunctionOnSet(g, S) = SumFunctionOnSet(f, S)
    <2>1. \A o \in S : f[o] = g[o]
      BY <1>2, <1>5
    <2> QED
      BY <1>2, <2>1, SumOfSame
  <1> QED
    BY <1>3, <1>4, <1>5 DEF Replaced

\* A grant adds the coins of the order, a clawback takes them away or all there are.
LEMMA GrantCovers ==
  ASSUME IInv, CoinsCovered, NEW q \in Orders, NEW provider, NEW ref,
         Confirmable(q), Grant(q, provider, ref)
  PROVE  CoinsCovered'
  <1> SUFFICES ASSUME NEW u \in Users PROVE topup'[u] <= ClaimsOn(order', u)
    BY DEF CoinsCovered
  <1>0. /\ order \in [Orders -> OrderRow] /\ topup \in [Users -> Nat] /\ Amount[q] \in Nat
        /\ Owner[q] \in Users
    BY InstanceAssumption DEF IInv, TypeOK
  <1>1. /\ Claim(order[q], q) = 0 /\ Claim(order'[q], q) = Amount[q]
        /\ \A o \in Orders : o # q => Claim(order'[o], o) = Claim(order[o], o)
    BY <1>0 DEF Confirmable, Grant, Claim, OrderRow
  <1>2. topup'[u] = IF u = Owner[q] THEN topup[u] + Amount[q] ELSE topup[u]
    BY <1>0 DEF Grant, Credit
  <1>3. /\ Owner[q] = u => ClaimsOn(order', u) = ClaimsOn(order, u) + Amount[q]
        /\ Owner[q] # u => ClaimsOn(order', u) = ClaimsOn(order, u)
    <2>1. ClaimsOn(order, u) \in Nat
      BY ClaimsType
    <2> QED
      BY <1>0, <1>1, <2>1, ClaimsChange DEF Replaced
  <1>4. topup[u] <= ClaimsOn(order, u) /\ topup[u] \in Nat /\ ClaimsOn(order, u) \in Nat
    BY <1>0, ClaimsType DEF CoinsCovered
  <1> QED
    BY <1>0, <1>2, <1>3, <1>4

\* A clawback takes the coins of a whole order, or all the user has.
LEMMA ClawCovers ==
  ASSUME BackInv, NEW q \in Orders, ReconcileClaw(q)
  PROVE  CoinsCovered'
  <1> SUFFICES ASSUME NEW u \in Users PROVE topup'[u] <= ClaimsOn(order', u)
    BY DEF CoinsCovered
  <1> PICK n, w : n = ClawTarget(q, reconcile[q]) /\ w = Owner[q]
    OBVIOUS
  <1>0. /\ order \in [Orders -> OrderRow] /\ topup \in [Users -> Nat] /\ Amount[q] \in Nat
        /\ w \in Users
    BY InstanceAssumption DEF BackInv, IInv, TypeOK
  <1>1. /\ Claim(order[q], q) \in {0, Amount[q]} /\ Claim(order'[q], q) = 0
        /\ \A o \in Orders : o # q => Claim(order'[o], o) = Claim(order[o], o)
    BY <1>0 DEF ReconcileClaw, Claim, OrderRow
  <1>2. n = Amount[q]
    BY <1>0 DEF ReconcileClaw, Finish, BackInv, JobWatched, Overpaid, ClawTarget,
       VendorRemaining, Revoking
  <1>3. topup' = [topup EXCEPT ![w] = @ + (-LeastOf(n, topup[w]))]
    BY DEF ReconcileClaw, Clawback, Credit
  <1>4. topup'[u] = IF u = w THEN topup[u] - LeastOf(Amount[q], topup[u]) ELSE topup[u]
    BY <1>0, <1>2, <1>3 DEF LeastOf
  <1>5. /\ w = u => ClaimsOn(order', u) = ClaimsOn(order, u) - Claim(order[q], q)
        /\ w # u => ClaimsOn(order', u) = ClaimsOn(order, u)
    <2>1. ClaimsOn(order, u) \in Nat /\ ClaimsOn(order', u) \in Nat
      BY ClaimsType
    <2> QED
      BY <1>0, <1>1, <2>1, ClaimsChange DEF Replaced
  <1>6. /\ topup[u] <= ClaimsOn(order, u) /\ topup[u] \in Nat
        /\ ClaimsOn(order, u) \in Nat /\ ClaimsOn(order', u) \in Nat
    BY <1>0, ClaimsType DEF BackInv, CoinsCovered
  <1> QED
    BY <1>0, <1>1, <1>4, <1>5, <1>6 DEF LeastOf

\* A step that neither pays an order nor takes it back may only lower the balance.
LEMMA QuietCovers ==
  ASSUME IInv, CoinsCovered, IInv', \A u \in Users : topup'[u] <= topup[u],
         \A o \in Orders : order'[o].status = "paid" <=> order[o].status = "paid"
  PROVE  CoinsCovered'
  <1> SUFFICES ASSUME NEW u \in Users PROVE topup'[u] <= ClaimsOn(order', u)
    BY DEF CoinsCovered
  <1>1. ClaimsOn(order', u) = ClaimsOn(order, u)
    BY ClaimsSame DEF Claim
  <1>2. /\ topup[u] <= ClaimsOn(order, u) /\ topup'[u] <= topup[u]
        /\ topup[u] \in Nat /\ topup'[u] \in Nat /\ ClaimsOn(order, u) \in Nat
    BY ClaimsType DEF CoinsCovered, IInv, TypeOK
  <1> QED
    BY <1>1, <1>2

\* Coins stay covered by paid orders in every step.
LEMMA CoinsStayCovered ==
  ASSUME Watched, BackInv, Next
  PROVE  CoinsCovered'
  <1>0. /\ IInv /\ IInv' /\ CoinsCovered
        /\ order \in [Orders -> OrderRow] /\ topup \in [Users -> Nat]
    BY IInvNext DEF BackInv, IInv, TypeOK
  <1>a. ASSUME order' = order, topup' = topup PROVE CoinsCovered'
    BY <1>0, <1>a, QuietCovers DEF TypeOK, IInv
  <1>1. ASSUME NEW c \in Confirms, ConfirmStep(c) PROVE CoinsCovered'
    <2>1. CASE ConfirmApply(c)
      <3> PICK k, q : k = confirm[c].key /\ q = KeyOrder[k]
        OBVIOUS
      <3>1. /\ q \in Orders
            /\ (Confirmable(q) /\ Grant(q, "toss", k)) \/ (order' = order /\ topup' = topup)
        BY <1>0, <2>1, InstanceAssumption DEF ConfirmApply, accounts, IInv, ConfirmKeyed
      <3> QED
        BY <1>0, <1>a, <3>1, GrantCovers
    <2> QED
      BY <1>1, <1>a, <2>1 DEF ConfirmStep, ConfirmBegin, ConfirmRejected, ConfirmUnknown,
         ConfirmResolve, ConfirmPending, VendorConfirm, accounts
  <1>2. ASSUME NEW q \in Orders, ReconcileWork(q) PROVE CoinsCovered'
    <2>1. CASE ReconcileGrant(q)
      <3> PICK k : k = reconcile[q].got.key
        OBVIOUS
      <3>1. (Confirmable(q) /\ Grant(q, "toss", k)) \/ (order' = order /\ topup' = topup)
        BY <2>1 DEF ReconcileGrant, accounts
      <3> QED
        BY <1>0, <1>a, <3>1, GrantCovers
    <2> QED
      BY <1>2, <1>a, <2>1, ClawCovers DEF ReconcileWork, ReconcileFetch, ReconcileConsistent,
         accounts
  <1>3. ASSUME NEW q \in Orders, ManualConfirm(q) PROVE CoinsCovered'
    BY <1>0, <1>3, GrantCovers DEF ManualConfirm
  <1>4. ASSUME NEW q \in Orders, CancelOrder(q) PROVE CoinsCovered'
    <2>1. \A o \in Orders : order'[o].status = "paid" <=> order[o].status = "paid"
      BY <1>0, <1>4 DEF CancelOrder, OrderRow
    <2> QED
      BY <1>0, <1>4, <2>1, QuietCovers DEF CancelOrder
  <1>5. ASSUME NEW w \in Users, Spend(w) PROVE CoinsCovered'
    <2>1. \A u \in Users : topup'[u] <= topup[u]
      BY <1>0, <1>5 DEF Spend
    <2> QED
      BY <1>0, <1>5, <2>1, QuietCovers DEF Spend
  <1>6. CASE PurgeBuyers
    <2>1. \A o \in Orders : order'[o] = order[o] \/ order'[o] = [order[o] EXCEPT !.buyer = FALSE]
      BY <1>6 DEF PurgeBuyers
    <2>2. \A o \in Orders : order'[o].status = order[o].status
      BY <1>0, <2>1 DEF OrderRow
    <2> QED
      BY <1>0, <1>6, <2>2, QuietCovers DEF PurgeBuyers
  <1>7. CASE \/ \E q \in Orders : AdminReconcile(q)
             \/ \E i \in Keys \cup Orders : SchedulerReconcile(i)
             \/ \E s \in Signal : WebhookReconcile(s)
             \/ \E k \in Keys : PaymentStep(k)
             \/ \E u \in Users : Withdraw(u)
    <2>1. order' = order /\ topup' = topup
      BY <1>7 DEF AdminReconcile, SchedulerReconcile, WebhookReconcile, PaymentStep,
         OpenWindow, Deposit, VendorRevoke, Expire, Withdraw, accounts
    <2> QED
      BY <1>a, <2>1
  <1> QED
    BY <1>1, <1>2, <1>3, <1>4, <1>5, <1>6, <1>7, WatchedSteps

\* The invariant is preserved.
LEMMA BackNext == ASSUME Watched PROVE BackInv /\ [Next]_vars => BackInv'
  <1>1. ASSUME BackInv, Next PROVE BackInv'
    <2>1. IInv'
      BY <1>1, IInvNext DEF BackInv
    <2> QED
      BY <1>1, <2>1, PaymentsStayWhole, OrdersStayBacked, JobsStayWatched, ConfirmsStayWatched,
         CoinsStayCovered DEF BackInv
  <1>2. ASSUME BackInv, UNCHANGED vars PROVE BackInv'
    <2>1. IInv'
      BY <1>2, IInvNext DEF BackInv
    <2> QED
      BY <1>2, <2>1 DEF BackInv, vars, PaymentWhole, OrderBacked, Backed, Alerted, SignalFor,
         JobWatched, ConfirmWatched, ApprovedAt, ConfirmApart, CoinsCovered, KeysOf
  <1> QED
    BY <1>1, <1>2

\* The invariant holds at first.
LEMMA BackInit == Init => BackInv
  <1> SUFFICES ASSUME Init PROVE BackInv
    OBVIOUS
  <1>1. IInv
    BY IInvInit
  <1>2. /\ \A k \in Keys : pay[k].st = "NONE"
        /\ \A o \in Orders : order[o].ref = NoKey /\ order[o].status = "pending"
                             /\ order[o].refunded = 0
        /\ \A o \in Orders : reconcile[o].pc = "idle"
        /\ \A c \in Confirms : confirm[c].pc = "idle" /\ confirm[c].reply = "none"
        /\ \A u \in Users : topup[u] = 0
    BY DEF Init, NewOrder, NoConfirm, NoReconcile
  <1>3. CoinsCovered
    <2>1. \A u \in Users : ClaimsOn(order, u) \in Nat
      BY ClaimsType
    <2> QED
      BY <1>2, <2>1 DEF CoinsCovered
  <1> QED
    BY <1>1, <1>2, <1>3 DEF BackInv, PaymentWhole, OrderBacked, JobWatched, ConfirmWatched,
       ConfirmApart

\* NoFreeCoins: when the vendor's webhooks arrive and nothing is lost, repeated or refunded,
\* no user whose orders are at rest has more coins than the money behind them, though the
\* vendor takes approvals back at any time, and users spend, cancel, transfer and leave.
THEOREM CoinsAreBacked == ASSUME Watched PROVE Spec => []NoFreeCoins
  <1>1. BackInv /\ [Next]_vars => BackInv'
    BY BackNext
  <1>2. BackInv => NoFreeCoins
    <2> SUFFICES ASSUME BackInv, NEW u \in Users, \A o \in OrdersOf(u) : AtRest(o)
                 PROVE  topup[u] <= SumFunctionOnSet([o \in Orders |-> Money(o)], OrdersOf(u))
      BY DEF NoFreeCoins, OrdersOf
    <2>0. PICK f, g, S : /\ f = [o \in Orders |-> Claim(order[o], o)]
                         /\ g = [o \in Orders |-> Money(o)] /\ S = OrdersOf(u)
      OBVIOUS
    <2>1. ASSUME NEW o \in S PROVE f[o] \in Int /\ g[o] \in Int /\ f[o] <= g[o]
      <3>0. /\ o \in Orders /\ f[o] = Claim(order[o], o) /\ g[o] = Money(o) /\ AtRest(o)
            /\ OrderBacked(o) /\ PaysTyped(pay) /\ bank[o] \in Nat /\ NoKey \notin Keys
            /\ order[o].ref \in Keys \cup {NoKey}
        BY <2>0, InstanceAssumption DEF OrdersOf, BackInv, IInv, TypeOK, PaysTyped, OrderRow
      <3>1. Money(o) = bank[o] + HeldIn(pay, o) /\ HeldIn(pay, o) \in Nat
        BY <3>0, HeldType DEF Money, HeldIn
      <3>2. ~Alerted(o)
        BY <3>0 DEF AtRest, LockFree, Alerted, SignalFor
      <3>3. ASSUME order[o].status = "paid", order[o].ref # NoKey
            PROVE  Amount[o] <= HeldIn(pay, o)
        <4> PICK k : k = order[o].ref
          OBVIOUS
        <4>1. k \in KeysOf(o) /\ pay[k].bal = Amount[o]
          BY <3>0, <3>2, <3>3 DEF OrderBacked, Backed, BackInv, PaymentWhole, KeysOf
        <4> QED
          BY <3>0, <4>1, HeldType
      <3>4. ASSUME order[o].status = "paid", order[o].ref = NoKey PROVE Amount[o] = bank[o]
        BY <3>0, <3>4 DEF OrderBacked, Backed
      <3> QED
        BY <3>0, <3>1, <3>3, <3>4, InstanceAssumption DEF Claim
    <2>2. SumFunctionOnSet(f, S) <= SumFunctionOnSet(g, S)
      BY <2>0, <2>1, ClaimsType, SumAtMost
    <2>3. topup[u] <= SumFunctionOnSet(f, S) /\ topup[u] \in Nat
      BY <2>0 DEF BackInv, CoinsCovered, ClaimsOn, IInv, TypeOK
    <2>4. SumFunctionOnSet(f, S) \in Int /\ SumFunctionOnSet(g, S) \in Int
      BY <2>0, <2>1, ClaimsType, SumInt
    <2> QED
      BY <2>0, <2>2, <2>3, <2>4
  <1> QED
    BY <1>1, <1>2, BackInit, PTL DEF Spec

-----------------------------------------------------------------------------
(* A clawback on current data takes what the vendor took back.             *)

\* The vendor has nothing of a payment that is not captured, and says so.
HoldsFor(p) == p.st \notin Captured => p.bal = 0
VendorTrue == /\ \A k \in Keys : HoldsFor(pay[k])
              /\ \A o \in Orders : HoldsFor(reconcile[o].got)

\* A refund that will be reverted was refused, and the refusal is on record.
RefusalNoted(r) ==
    LET q == refund[r].order
    IN  /\ refund[r].reply # "unknown"
        /\ refund[r].reply = "rejected" => q \in Orders /\ Refused(q)
RefusalsNoted == \A r \in Refunds : RefusalNoted(r)

\* Unless a refund of it was refused, an order that is paid, or that a reconciliation has
\* read as paid, still has the coins that were not refunded: only what other orders lose
\* can be taken from it, and that it never is more than once.
ReadPaid(o) == reconcile[o].pc # "idle" /\ reconcile[o].row.status = "paid"
CoinsKept(o) ==
    ~Refused(o) =>
        /\ coins[o] + order[o].refunded >= 0
        /\ order[o].status = "paid" \/ ReadPaid(o) => coins[o] + order[o].refunded >= Amount[o]

ClawInv == IInv /\ VendorTrue /\ RefusalsNoted /\ \A o \in Orders : CoinsKept(o)

\* How the coins of an order change along with its row.
CoinMoves(o) ==
    \/ /\ coins'[o] = coins[o] /\ order'[o].refunded = order[o].refunded
       /\ order'[o].status = "paid" => order[o].status = "paid"
    \/ coins'[o] = coins[o] + Amount[o] /\ order'[o].refunded = order[o].refunded
    \/ /\ \E n \in Nat : /\ coins'[o] = coins[o] - n
                         /\ order'[o].refunded = order[o].refunded + n
       /\ order'[o].status = "paid" => order[o].status = "paid"
    \/ Refused(o)
    \/ ReconcileClaw(o)

\* A grant adds the order's coins, and changes no other order.
LEMMA GrantCoins ==
  ASSUME IInv, NEW q \in Orders, NEW provider, NEW ref, Grant(q, provider, ref), NEW o \in Orders
  PROVE  CoinMoves(o)
  <1>1. order \in [Orders -> OrderRow] /\ coins \in [Orders -> Int]
    BY DEF IInv, TypeOK
  <1>2. q # o => order'[o] = order[o] /\ coins'[o] = coins[o]
    BY <1>1 DEF Grant, Credit
  <1>3. order'[q].refunded = order[q].refunded /\ coins'[q] = coins[q] + Amount[q]
    BY <1>1 DEF Grant, Credit, OrderRow
  <1> QED
    BY <1>2, <1>3 DEF CoinMoves

\* A refund takes its coins into refunded_krw; only a refused one gives them back.
LEMMA RefundCoins ==
  ASSUME IInv, RefusalsNoted, NEW r \in Refunds, RefundStep(r), NEW o \in Orders
  PROVE  CoinMoves(o)
  <1>0. order \in [Orders -> OrderRow] /\ coins \in [Orders -> Int] /\ RefundFits
        /\ refund \in [Refunds -> RefundJob]
    BY DEF IInv, TypeOK
  <1> PICK q, n, prev : q = refund[r].order /\ n = refund[r].want /\ prev = refund[r].prev
    OBVIOUS
  <1>a. ASSUME order' = order, coins' = coins PROVE CoinMoves(o)
    BY <1>a DEF CoinMoves
  <1>1. CASE RefundCommit(r) /\ ~UNCHANGED accounts
    <2>1. /\ q \in Orders /\ n \in Nat /\ order[q].refunded = prev /\ Credit(q, -n)
          /\ order' = [order EXCEPT ![q].refunded = prev + n,
                          ![q].status = IF prev + n >= Amount[q] THEN "refunded" ELSE @]
      BY <1>0, <1>1 DEF RefundCommit, RefundFits, RefundJob
    <2>2. q # o => order'[o] = order[o] /\ coins'[o] = coins[o]
      BY <1>0, <2>1 DEF Credit
    <2>3. /\ coins'[q] = coins[q] - n /\ order'[q].refunded = order[q].refunded + n
          /\ order'[q].status \in {order[q].status, "refunded"}
      BY <1>0, <2>1 DEF Credit, OrderRow
    <2> QED
      BY <2>1, <2>2, <2>3 DEF CoinMoves
  <1>2. CASE RefundRevert(r)
    <2>1. q \in Orders /\ Refused(q)
      BY <1>0, <1>2 DEF RefundRevert, RefundFits, RefusalsNoted, RefusalNoted
    <2>2. q # o => order'[o] = order[o] /\ coins'[o] = coins[o]
      BY <1>0, <1>2 DEF RefundRevert, Credit
    <2> QED
      BY <2>1, <2>2 DEF CoinMoves
  <1> QED
    BY <1>1, <1>2, <1>a DEF RefundStep, RefundBegin, RefundDone, VendorCancel, accounts

\* The coins of an order change in no other way.
LEMMA EveryCoinMove ==
  ASSUME IInv, RefusalsNoted, Next, NEW o \in Orders
  PROVE  CoinMoves(o)
  <1>0. order \in [Orders -> OrderRow] /\ coins \in [Orders -> Int] /\ ConfirmKeyed
    BY DEF IInv, TypeOK
  <1>a. ASSUME order' = order, coins' = coins PROVE CoinMoves(o)
    BY <1>a DEF CoinMoves
  <1>1. ASSUME NEW c \in Confirms, ConfirmStep(c) PROVE CoinMoves(o)
    <2>1. CASE ConfirmApply(c)
      <3>1. confirm[c].key \in Keys /\ KeyOrder[confirm[c].key] \in Orders
        BY <1>0, <2>1, InstanceAssumption DEF ConfirmKeyed, ConfirmApply
      <3> QED
        BY <1>a, <2>1, <3>1, GrantCoins DEF ConfirmApply, accounts
    <2> QED
      BY <1>1, <1>a, <2>1 DEF ConfirmStep, ConfirmBegin, ConfirmRejected, ConfirmUnknown,
         ConfirmResolve, ConfirmPending, VendorConfirm, accounts
  <1>2. ASSUME NEW r \in Refunds, RefundStep(r) PROVE CoinMoves(o)
    BY <1>2, RefundCoins
  <1>3. ASSUME NEW q \in Orders, ReconcileWork(q) PROVE CoinMoves(o)
    <2>1. CASE ReconcileClaw(q)
      <3>1. q # o => order'[o] = order[o] /\ coins'[o] = coins[o]
        BY <1>0, <2>1 DEF ReconcileClaw, Clawback, Credit
      <3> QED
        BY <2>1, <3>1 DEF CoinMoves
    <2> QED
      BY <1>3, <1>a, <2>1, GrantCoins DEF ReconcileWork, ReconcileFetch, ReconcileGrant,
         ReconcileConsistent, accounts
  <1>4. ASSUME NEW q \in Orders, ManualConfirm(q) PROVE CoinMoves(o)
    BY <1>4, GrantCoins DEF ManualConfirm
  <1>5. ASSUME NEW q \in Orders, CancelOrder(q) PROVE CoinMoves(o)
    <2>1. /\ coins' = coins /\ order'[o].refunded = order[o].refunded
          /\ order'[o].status \in {order[o].status, "canceled"}
      BY <1>0, <1>5 DEF CancelOrder, OrderRow
    <2> QED
      BY <2>1 DEF CoinMoves
  <1>6. CASE PurgeBuyers
    <2>1. order'[o] = order[o] \/ order'[o] = [order[o] EXCEPT !.buyer = FALSE]
      BY <1>6 DEF PurgeBuyers
    <2> QED
      BY <1>0, <1>6, <2>1 DEF CoinMoves, OrderRow, PurgeBuyers
  <1>7. CASE \/ \E q \in Orders : AdminReconcile(q)
             \/ \E i \in Keys \cup Orders : SchedulerReconcile(i)
             \/ \E s \in Signal : WebhookReconcile(s) \/ LoseWebhook(s)
             \/ \E k \in Keys : PaymentStep(k)
             \/ \E u \in Users : Spend(u) \/ Withdraw(u)
             \/ Crash
    <2>1. order' = order /\ coins' = coins
      BY <1>7 DEF AdminReconcile, SchedulerReconcile, WebhookReconcile, LoseWebhook,
         PaymentStep, OpenWindow, Deposit, VendorRevoke, Expire, Spend, Withdraw, Crash,
         accounts
    <2> QED
      BY <1>a, <2>1
  <1> QED
    BY <1>1, <1>2, <1>3, <1>4, <1>5, <1>6, <1>7 DEF Next

\* What the vendor has of a payment that is not captured is nothing, in every step.
LEMMA HoldsKept ==
  ASSUME IInv, VendorTrue, Next, NEW k \in Keys
  PROVE  HoldsFor(pay'[k])
  <1>0. pay \in [Keys -> Payment] /\ ConfirmKeyed /\ RefundFits /\ HoldsFor(pay[k])
    BY DEF IInv, TypeOK, VendorTrue
  <1>a. ASSUME pay' = pay PROVE HoldsFor(pay'[k])
    BY <1>0, <1>a
  <1>1. ASSUME NEW c \in Confirms, VendorConfirm(c) PROVE HoldsFor(pay'[k])
    <2> PICK m : m = confirm[c].key
      OBVIOUS
    <2>1. m \in Keys /\ HoldsFor(pay[m])
      BY <1>0, <1>1 DEF ConfirmKeyed, VendorConfirm, VendorTrue
    <2>2. ASSUME NEW a \in ConfirmAnswers(m) PROVE HoldsFor(a.pay)
      BY <2>1, <2>2 DEF ConfirmAnswers, Approval, HoldsFor, Captured
    <2>3. \/ pay' = pay
          \/ \E a \in ConfirmAnswers(m) : pay' = [pay EXCEPT ![m] = a.pay]
          \/ /\ pay[m].st = "IN_PROGRESS"
             /\ pay' = [pay EXCEPT ![m].st = "ABORTED", ![m].first = "rejected"]
      BY <1>1 DEF VendorConfirm
    <2> QED
      BY <1>0, <2>1, <2>2, <2>3 DEF HoldsFor, Captured, Payment
  <1>2. ASSUME NEW r \in Refunds, VendorCancel(r) PROVE HoldsFor(pay'[k])
    <2> PICK m, n : m = refund[r].key /\ n = CancelAmount(r)
      OBVIOUS
    <2>1. m \in Keys /\ pay[m].bal \in Nat
      BY <1>0, <1>2 DEF RefundFits, VendorCancel, Payment
    <2>2. \/ pay' = pay
          \/ /\ n \in 1..pay[m].bal
             /\ pay' = [pay EXCEPT ![m].bal = @ - n,
                          ![m].st = IF n = pay[m].bal THEN "CANCELED" ELSE "PARTIAL_CANCELED"]
      BY <1>2 DEF VendorCancel, VendorCancels, vendor
    <2> QED
      BY <1>0, <2>1, <2>2 DEF HoldsFor, Captured, Payment
  <1>3. ASSUME NEW m \in Keys, PaymentStep(m) PROVE HoldsFor(pay'[k])
    BY <1>0, <1>3 DEF PaymentStep, OpenWindow, Deposit, VendorRevoke, Expire, HoldsFor, Captured,
       Payment
  <1>4. CASE \/ \E c \in Confirms : ConfirmStep(c) /\ ~VendorConfirm(c)
             \/ \E r \in Refunds : RefundStep(r) /\ ~VendorCancel(r)
             \/ \E q \in Orders : ReconcileWork(q) \/ AdminReconcile(q)
             \/ \E q \in Orders : CancelOrder(q) \/ ManualConfirm(q)
             \/ \E i \in Keys \cup Orders : SchedulerReconcile(i)
             \/ \E s \in Signal : WebhookReconcile(s) \/ LoseWebhook(s)
             \/ \E u \in Users : Spend(u) \/ Withdraw(u)
             \/ PurgeBuyers \/ Crash
    <2>1. pay' = pay
      <3>1. ASSUME NEW c \in Confirms, ConfirmStep(c), ~VendorConfirm(c) PROVE pay' = pay
        BY <3>1 DEF ConfirmStep, ConfirmBegin, ConfirmRejected, ConfirmUnknown,
           ConfirmResolve, ConfirmPending, ConfirmApply, vendor
      <3>2. ASSUME NEW r \in Refunds, RefundStep(r), ~VendorCancel(r) PROVE pay' = pay
        BY <3>2 DEF RefundStep, RefundBegin, RefundCommit, RefundDone, RefundRevert, vendor
      <3>3. ASSUME NEW q \in Orders, ReconcileWork(q) PROVE pay' = pay
        BY <3>3 DEF ReconcileWork, ReconcileFetch, ReconcileGrant, ReconcileClaw,
           ReconcileConsistent, Finish, vendor
      <3> QED
        BY <1>4, <3>1, <3>2, <3>3 DEF AdminReconcile, CancelOrder, ManualConfirm,
           SchedulerReconcile, WebhookReconcile, LoseWebhook, Spend, Withdraw, PurgeBuyers,
           Crash, vendor
    <2> QED
      BY <1>a, <2>1
  <1> QED
    BY <1>1, <1>2, <1>3, <1>4 DEF Next, ConfirmStep, RefundStep

\* A reconciliation is told what the vendor has at the time, or that there is nothing.
LEMMA ToldKept ==
  ASSUME IInv, VendorTrue, Next, NEW o \in Orders
  PROVE  HoldsFor(reconcile'[o].got)
  <1>0. /\ reconcile \in [Orders -> ReconcileJob] /\ HoldsFor(reconcile[o].got)
        /\ \A k \in Keys : HoldsFor(pay[k])
    BY DEF IInv, TypeOK, VendorTrue
  <1>a. ASSUME reconcile' = reconcile PROVE HoldsFor(reconcile'[o].got)
    BY <1>0, <1>a
  <1>b. HoldsFor(Nothing) /\ NoReconcile.got = Nothing
    BY DEF HoldsFor, Nothing, NoReconcile
  <1>c. ASSUME NEW q \in Orders, NEW item, ReconcileBegin(q, item)
        PROVE  HoldsFor(reconcile'[o].got)
    BY <1>0, <1>b, <1>c DEF ReconcileBegin
  <1>1. ASSUME NEW q \in Orders, ReconcileWork(q) PROVE HoldsFor(reconcile'[o].got)
    <2>1. CASE reconcile' = [reconcile EXCEPT ![q] = NoReconcile]
      BY <1>0, <1>b, <2>1
    <2>2. CASE ReconcileFetch(q)
      <3>1. \A ref : Lookup(q, ref) \subseteq Keys
        BY DEF Lookup, KeysOf
      <3>2. ASSUME NEW k \in Keys, NEW f, f = [key |-> k, st |-> pay[k].st, bal |-> pay[k].bal]
            PROVE  HoldsFor(f)
        BY <1>0, <3>2 DEF HoldsFor
      <3>3. \E f : /\ HoldsFor(f)
                   /\ reconcile' = [reconcile EXCEPT ![q].pc = "deciding", ![q].got = f]
        BY <1>b, <2>2, <3>1, <3>2 DEF ReconcileFetch
      <3> QED
        BY <1>0, <3>3 DEF ReconcileJob
    <2> QED
      BY <1>1, <2>1, <2>2 DEF ReconcileWork, ReconcileGrant, ReconcileClaw,
         ReconcileConsistent, Finish
  <1>2. CASE \/ \E q \in Orders : AdminReconcile(q)
             \/ \E i \in Keys \cup Orders : SchedulerReconcile(i)
             \/ \E s \in Signal : WebhookReconcile(s)
    <2>1. \E q \in Orders : \E item : ReconcileBegin(q, item)
      BY <1>2, InstanceAssumption DEF AdminReconcile, SchedulerReconcile, WebhookReconcile,
         Signal
    <2> QED
      BY <1>c, <2>1
  <1>3. CASE Crash
    BY <1>0, <1>b, <1>3 DEF Crash
  <1>4. CASE \/ \E c \in Confirms : ConfirmStep(c)
             \/ \E r \in Refunds : RefundStep(r)
             \/ \E q \in Orders : CancelOrder(q) \/ ManualConfirm(q)
             \/ \E s \in Signal : LoseWebhook(s)
             \/ \E k \in Keys : PaymentStep(k)
             \/ \E u \in Users : Spend(u) \/ Withdraw(u)
             \/ PurgeBuyers
    <2>1. reconcile' = reconcile
      <3>1. CASE \E c \in Confirms : ConfirmStep(c)
        BY <3>1 DEF ConfirmStep, ConfirmBegin, ConfirmRejected, ConfirmUnknown,
           ConfirmResolve, ConfirmPending, ConfirmApply, VendorConfirm
      <3>2. CASE \E r \in Refunds : RefundStep(r)
        BY <3>2 DEF RefundStep, RefundBegin, RefundCommit, RefundDone, RefundRevert,
           VendorCancel
      <3> QED
        BY <1>4, <3>1, <3>2 DEF CancelOrder, ManualConfirm, LoseWebhook, PaymentStep,
           OpenWindow, Deposit, VendorRevoke, Expire, Spend, Withdraw, PurgeBuyers
    <2> QED
      BY <1>a, <2>1
  <1> QED
    BY <1>1, <1>2, <1>3, <1>4 DEF Next

\* A refusal stays on record: the vendor gives its first answer again.
LEMMA RefusedStays ==
  ASSUME IInv, Next, NEW o \in Orders, Refused(o)
  PROVE  Refused(o)'
  <1>0. cancels \in [CancelKeys -> {"none", "DONE", "rejected"}]
    BY DEF IInv, TypeOK
  <1>1. PICK n \in 1..Amount[o] : cancels[<<o, n>>] = "rejected"
    BY DEF Refused
  <1>2. \/ cancels' = cancels
        \/ \E r \in Refunds : \E reply : /\ cancels[CancelId(r)] = "none"
                                         /\ cancels' = [cancels EXCEPT ![CancelId(r)] = reply]
    <2>1. ASSUME NEW r \in Refunds, VendorCancel(r)
          PROVE  \/ cancels' = cancels
                 \/ /\ cancels[CancelId(r)] = "none"
                    /\ \E reply : cancels' = [cancels EXCEPT ![CancelId(r)] = reply]
      BY <2>1 DEF VendorCancel, VendorCancels, Recorded, vendor
    <2>2. ASSUME NEW c \in Confirms, ConfirmStep(c) PROVE cancels' = cancels
      BY <2>2 DEF ConfirmStep, ConfirmBegin, ConfirmRejected, ConfirmUnknown,
         ConfirmResolve, ConfirmPending, ConfirmApply, VendorConfirm, vendor
    <2>3. ASSUME NEW r \in Refunds, RefundStep(r), ~VendorCancel(r) PROVE cancels' = cancels
      BY <2>3 DEF RefundStep, RefundBegin, RefundCommit, RefundDone, RefundRevert, vendor
    <2>4. ASSUME NEW q \in Orders, ReconcileWork(q) PROVE cancels' = cancels
      BY <2>4 DEF ReconcileWork, ReconcileFetch, ReconcileGrant, ReconcileClaw,
         ReconcileConsistent, Finish, vendor
    <2>5. CASE \/ \E q \in Orders : AdminReconcile(q) \/ CancelOrder(q) \/ ManualConfirm(q)
               \/ \E i \in Keys \cup Orders : SchedulerReconcile(i)
               \/ \E s \in Signal : WebhookReconcile(s) \/ LoseWebhook(s)
               \/ \E k \in Keys : PaymentStep(k)
               \/ \E u \in Users : Spend(u) \/ Withdraw(u)
               \/ PurgeBuyers \/ Crash
      BY <2>5 DEF AdminReconcile, CancelOrder, ManualConfirm, SchedulerReconcile,
         WebhookReconcile, LoseWebhook, PaymentStep, OpenWindow, Deposit, VendorRevoke,
         Expire, Spend, Withdraw, PurgeBuyers, Crash, vendor
    <2> QED
      BY <2>1, <2>2, <2>3, <2>4, <2>5 DEF Next, RefundStep
  <1>3. cancels'[<<o, n>>] = "rejected"
    <2>1. <<o, n>> \in CancelKeys
      BY DEF CancelKeys
    <2> QED
      BY <1>0, <1>1, <1>2, <2>1
  <1> QED
    BY <1>1, <1>3 DEF Refused

\* A refund that was refused is of an order one of whose refunds was.
LEMMA RefusalsStayNoted ==
  ASSUME "unknown" \notin Faults, IInv, RefusalsNoted, Next
  PROVE  RefusalsNoted'
  <1>0. /\ refund \in [Refunds -> RefundJob] /\ RefundFits
        /\ cancels \in [CancelKeys -> {"none", "DONE", "rejected"}]
        /\ refund' \in [Refunds -> RefundJob]
    BY IInvNext DEF IInv, TypeOK
  <1> SUFFICES ASSUME NEW s \in Refunds PROVE RefusalNoted(s)'
    BY DEF RefusalsNoted
  <1>a. ASSUME \/ refund'[s] = refund[s]
               \/ refund'[s].reply \in {"none", "DONE"}
               \/ refund'[s].reply = refund[s].reply /\ refund'[s].order = refund[s].order
        PROVE  RefusalNoted(s)'
    <2>1. CASE refund'[s].reply \in {"none", "DONE"}
      BY <2>1 DEF RefusalNoted
    <2>2. CASE refund'[s].reply = refund[s].reply /\ refund'[s].order = refund[s].order
      <3> PICK q : q = refund[s].order
        OBVIOUS
      <3>1. RefusalNoted(s)
        BY DEF RefusalsNoted
      <3>2. ASSUME q \in Orders, Refused(q) PROVE Refused(q)'
        BY <3>2, RefusedStays
      <3> QED
        BY <2>2, <3>1, <3>2 DEF RefusalNoted, Refused
    <2> QED
      BY <1>a, <2>1, <2>2
  <1>1. ASSUME NEW r \in Refunds, VendorCancel(r)
        PROVE  RefusalNoted(s)'
    <2> PICK q, n : q = refund[r].order /\ n = refund[r].prev + refund[r].want
      OBVIOUS
    <2>1. q \in Orders /\ n \in 1..Amount[q] /\ <<q, n>> \in CancelKeys /\ CancelId(r) = <<q, n>>
      BY <1>0, <1>1, OwnerType DEF RefundFits, VendorCancel, RefundJob, CancelKeys, CancelId
    <2>2. ~Fault("unknown")
      BY DEF Fault
    <2>3. \/ Answered(r, "DONE")
          \/ Answered(r, "rejected") /\ cancels'[CancelId(r)] = "rejected"
      BY <1>0, <1>1, <2>1, <2>2 DEF VendorCancel, Recorded, vendor
    <2>4. \/ refund'[s] = refund[s]
          \/ s = r /\ refund'[s].order = q /\ refund'[s].reply = "DONE"
          \/ s = r /\ refund'[s].order = q /\ cancels'[<<q, n>>] = "rejected"
             /\ refund'[s].reply = "rejected"
      BY <1>0, <2>1, <2>3 DEF Answered, RefundJob
    <2> QED
      BY <1>a, <2>1, <2>4 DEF Refused, RefusalNoted
  <1>2. ASSUME NEW r \in Refunds, RefundStep(r), ~VendorCancel(r)
        PROVE  \/ refund'[s] = refund[s]
               \/ refund'[s].reply = "none"
               \/ refund'[s].reply = refund[s].reply /\ refund'[s].order = refund[s].order
    BY <1>0, <1>2 DEF RefundStep, RefundBegin, RefundCommit, RefundDone, RefundRevert,
       NoRefund, RefundJob
  <1>3. CASE Crash
    BY <1>0, <1>3, <1>a DEF Crash, NoRefund
  <1>4. CASE \/ \E c \in Confirms : ConfirmStep(c)
             \/ \E q \in Orders : ReconcileWork(q) \/ AdminReconcile(q)
             \/ \E q \in Orders : CancelOrder(q) \/ ManualConfirm(q)
             \/ \E i \in Keys \cup Orders : SchedulerReconcile(i)
             \/ \E t \in Signal : WebhookReconcile(t) \/ LoseWebhook(t)
             \/ \E k \in Keys : PaymentStep(k)
             \/ \E u \in Users : Spend(u) \/ Withdraw(u)
             \/ PurgeBuyers
    <2>1. refund' = refund
      <3>1. CASE \E c \in Confirms : ConfirmStep(c)
        BY <3>1 DEF ConfirmStep, ConfirmBegin, ConfirmRejected, ConfirmUnknown,
           ConfirmResolve, ConfirmPending, ConfirmApply, VendorConfirm
      <3>2. CASE \E q \in Orders : ReconcileWork(q)
        BY <3>2 DEF ReconcileWork, ReconcileFetch, ReconcileGrant, ReconcileClaw,
           ReconcileConsistent, Finish
      <3> QED
        BY <1>4, <3>1, <3>2 DEF AdminReconcile, CancelOrder, ManualConfirm,
           SchedulerReconcile, WebhookReconcile, LoseWebhook, PaymentStep, OpenWindow,
           Deposit, VendorRevoke, Expire, Spend, Withdraw, PurgeBuyers
    <2> QED
      BY <1>a, <2>1
  <1> QED
    BY <1>1, <1>2, <1>3, <1>4, <1>a DEF Next, RefundStep

\* What a clawback takes is at most what the row and the answer leave to take.
LEMMA ClawTakes ==
  ASSUME IInv, VendorTrue, NEW o \in Orders, ReconcileClaw(o)
  PROVE  LET j == reconcile[o]
         IN  /\ coins'[o] + Amount[o] >= coins[o] + j.row.refunded + j.got.bal
             /\ ReadPaid(o) /\ j.row.refunded \in Nat /\ j.got.bal \in Nat
             /\ order'[o].refunded = order[o].refunded /\ order'[o].status = "pending"
             /\ reconcile'[o].pc = "idle"
  <1> PICK j, n : j = reconcile[o] /\ n = ClawTarget(o, j)
    OBVIOUS
  <1>0. /\ order \in [Orders -> OrderRow] /\ coins \in [Orders -> Int]
        /\ reconcile \in [Orders -> ReconcileJob] /\ topup[Owner[o]] \in Nat
        /\ Amount[o] \in Nat /\ HoldsFor(j.got)
    BY OwnerType DEF IInv, TypeOK, VendorTrue
  <1>1. j.row.refunded \in Nat /\ j.got.bal \in Nat
    BY <1>0 DEF ReconcileJob, OrderRow, Found
  <1>2. n = Amount[o] - j.row.refunded - j.got.bal
    BY <1>0, <1>1 DEF ClawTarget, VendorRemaining, HoldsFor, Revoked, Captured
  <1>3. /\ coins' = [coins EXCEPT ![o] = @ + (-LeastOf(n, topup[Owner[o]]))]
        /\ order' = [order EXCEPT ![o].status = "pending"]
        /\ reconcile' = [reconcile EXCEPT ![o] = NoReconcile]
        /\ j.pc = "deciding" /\ j.row.status = "paid"
    BY DEF ReconcileClaw, Finish, Overpaid, Clawback, Credit
  <1>4. LeastOf(n, topup[Owner[o]]) \in Int /\ LeastOf(n, topup[Owner[o]]) <= n
    BY <1>0, <1>1, <1>2 DEF LeastOf
  <1>5. coins'[o] >= coins[o] - n /\ coins'[o] \in Int /\ coins[o] \in Int
    BY <1>0, <1>1, <1>2, <1>3, <1>4
  <1> QED
    BY <1>0, <1>1, <1>2, <1>3, <1>5 DEF ReadPaid, NoReconcile, OrderRow

\* The coins that were not refunded stay, in every step.
LEMMA CoinsStay ==
  ASSUME ClawInv, IInv', Next, NEW o \in Orders
  PROVE  CoinsKept(o)'
  <1>0. /\ IInv /\ VendorTrue /\ RefusalsNoted /\ CoinsKept(o)
        /\ coins[o] \in Int /\ coins'[o] \in Int /\ Amount[o] \in Nat
        /\ order[o].refunded \in Nat /\ order'[o].refunded \in Nat
    BY OwnerType DEF ClawInv, IInv, TypeOK, OrderRow
  <1> SUFFICES ASSUME ~Refused(o)'
               PROVE  /\ coins'[o] + order'[o].refunded >= 0
                      /\ order'[o].status = "paid" \/ ReadPaid(o)'
                           => coins'[o] + order'[o].refunded >= Amount[o]
    BY DEF CoinsKept
  <1>1. ~Refused(o) /\ CoinMoves(o) /\ RowMoves(o)
    BY <1>0, RefusedStays, EveryCoinMove, EveryRowMove
  <1>2. /\ coins[o] + order[o].refunded >= 0
        /\ order[o].status = "paid" \/ ReadPaid(o)
             => coins[o] + order[o].refunded >= Amount[o]
    BY <1>0, <1>1 DEF CoinsKept
  <1>3. ReadPaid(o)' => ReadPaid(o) \/ (order[o].status = "paid" /\ order' = order)
    BY <1>1 DEF RowMoves, ReadPaid
  <1>4. CASE ReconcileClaw(o)
    BY <1>0, <1>2, <1>4, ClawTakes DEF ReadPaid
  <1>5. CASE coins'[o] = coins[o] + Amount[o] /\ order'[o].refunded = order[o].refunded
    BY <1>0, <1>2, <1>5
  <1>6. CASE /\ coins'[o] + order'[o].refunded = coins[o] + order[o].refunded
             /\ order'[o].status = "paid" => order[o].status = "paid"
    BY <1>2, <1>3, <1>6
  <1> QED
    BY <1>0, <1>1, <1>4, <1>5, <1>6 DEF CoinMoves

\* FreshClawIsExact: while every refund and confirmation is answered, a clawback decided
\* on the row as it is, told what the vendor still holds, leaves the coins for that, for any
\* number of orders that share a balance, with crashes, outages, transfers and repeats.
THEOREM ClawsAreExact == ASSUME "unknown" \notin Faults PROVE Spec => FreshClawIsExact
  <1>1. Init => ClawInv
    <2> SUFFICES ASSUME Init PROVE ClawInv
      OBVIOUS
    <2>1. IInv
      BY IInvInit
    <2>2. /\ \A o \in Orders : /\ order[o].refunded = 0 /\ order[o].status = "pending"
                               /\ reconcile[o].pc = "idle" /\ coins[o] = 0
                               /\ reconcile[o].got.bal = 0
          /\ \A r \in Refunds : refund[r].reply = "none"
          /\ \A k \in Keys : pay[k].bal = 0
      BY DEF Init, NewOrder, NoReconcile, Nothing, NoRefund
    <2> QED
      BY <2>1, <2>2 DEF ClawInv, VendorTrue, HoldsFor, RefusalsNoted, RefusalNoted, CoinsKept,
         ReadPaid
  <1>2. ClawInv /\ [Next]_vars => ClawInv'
    <2>1. ASSUME ClawInv, Next PROVE ClawInv'
      <3>1. IInv'
        BY <2>1, IInvNext DEF ClawInv
      <3>2. VendorTrue' /\ RefusalsNoted'
        BY <2>1, HoldsKept, ToldKept, RefusalsStayNoted DEF ClawInv, VendorTrue
      <3> QED
        BY <2>1, <3>1, <3>2, CoinsStay DEF ClawInv
    <2>2. ASSUME ClawInv, UNCHANGED vars PROVE ClawInv'
      <3>1. IInv'
        BY <2>2, IInvNext DEF ClawInv
      <3> QED
        BY <2>2, <3>1 DEF ClawInv, vars, VendorTrue, HoldsFor, RefusalsNoted, RefusalNoted,
           CoinsKept, ReadPaid, Refused
    <2> QED
      BY <2>1, <2>2
  <1>3. ASSUME ClawInv, ClawInv', NEW o \in Orders, ReconcileClaw(o), ~Refused(o),
               reconcile[o].row = order[o], reconcile[o].got.bal = Money(o)
        PROVE  coins'[o] >= Money(o)
    <2>1. coins[o] + order[o].refunded >= Amount[o]
      BY <1>3, ClawTakes DEF ClawInv, CoinsKept, ReadPaid
    <2>2. /\ coins[o] \in Int /\ coins'[o] \in Int /\ Amount[o] \in Nat
          /\ order[o].refunded \in Nat
      BY <1>3, OwnerType DEF ClawInv, IInv, TypeOK, OrderRow
    <2> QED
      BY <1>3, <2>1, <2>2, ClawTakes DEF ClawInv
  <1>4. ClawInv /\ ClawInv' /\ [Next]_vars =>
          [\A o \in Orders :
             LET j == reconcile[o]
                 fresh == j.row = order[o] /\ j.got.bal = Money(o)
             IN  ReconcileClaw(o) /\ fresh /\ ~Refused(o) => coins'[o] >= Money(o)]_vars
    BY <1>3
  <1> QED
    BY <1>1, <1>2, <1>4, PTL DEF Spec, FreshClawIsExact

-----------------------------------------------------------------------------
(* Refunds settle.                                                         *)

\* What it rests on: a customer pays for an order once, and nobody by bank transfer; the
\* vendor answers each call and stands by it, and no process dies.
OnePayment == \A k, l \in Keys : KeyOrder[k] = KeyOrder[l] => k = l
Settling == Dependable /\ OnePayment /\ "manual" \notin Events /\ "crash" \notin Faults

\* An order that has no payment yet has nothing else; refunds and reconciliations that
\* have read a paid order know its payment.
Fresh(o) ==
    order[o].ref = NoKey =>
        /\ coins[o] = 0 /\ order[o].refunded = 0 /\ order[o].status \in {"pending", "canceled"}
RefundNamed(r) == refund[r].pc # "idle" => order[refund[r].order].ref # NoKey
JobNamed(o) ==
    LET j == reconcile[o]
    IN  j.pc # "idle" => /\ j.row.status = "paid" => j.row.ref # NoKey
                         /\ j.row.ref # NoKey => order[o].ref # NoKey

\* A payment of which something was cancelled is not whole any more.
Parted(k) == pay[k].st = "PARTIAL_CANCELED" => pay[k].bal < Amount[KeyOrder[k]]

\* A refund under way has taken the part of the order between prev and Upto.  The parts
\* that refunds have taken, or that the vendor has cancelled, do not overlap, and all lie
\* in refunded_krw: an idempotency key of the vendor stands for one refund that was done.
Taken(j) == j.pc # "idle" /\ Outstanding(j) > 0
Upto(j)  == j.prev + j.want
Apart(r, s) ==
    /\ Taken(refund[r]) => Upto(refund[r]) <= order[refund[r].order].refunded
    /\ /\ r # s /\ refund[r].order = refund[s].order
       /\ Taken(refund[r]) /\ Taken(refund[s])
       => Upto(refund[r]) <= refund[s].prev \/ Upto(refund[s]) <= refund[r].prev
Canceled(o, n) == cancels[<<o, n>>] = "DONE"
CancelsApart(o) ==
    \A n \in 1..Amount[o] : Canceled(o, n) =>
        /\ n <= order[o].refunded
        /\ \A r \in Refunds : refund[r].order = o /\ Taken(refund[r]) =>
              n <= refund[r].prev \/ Upto(refund[r]) < n
PartsApart == /\ \A r, s \in Refunds : Apart(r, s)
              /\ \A o \in Orders : CancelsApart(o)

\* The account of an order that is paid, or whose payment is whole, balances: its coins
\* and those that refunds under way may give back are what the vendor holds.  (A clawback
\* decided on a row of before a refund ends that for good: the payment is not whole.)
Whole(o) == order[o].status = "paid" \/ (order[o].ref # NoKey /\ pay[order[o].ref].st = "DONE")
Balanced(o) == coins[o] + OwedBy(refund, o) = HeldIn(pay, o)
Settled(o) == order[o].ref # NoKey /\ Whole(o) => Balanced(o)

SettleInv ==
    /\ MoneyInv /\ PartsApart
    /\ \A o \in Orders : bank[o] = 0 /\ Fresh(o) /\ JobNamed(o) /\ Settled(o)
    /\ \A r \in Refunds : RefundNamed(r)
    /\ \A k \in Keys : Parted(k)

\* The vendor holds for an order what it holds of its only payment.
LEMMA OneHeld ==
  ASSUME OnePayment, NEW p, PaysTyped(p), NEW o, NEW k \in KeysOf(o)
  PROVE  HeldIn(p, o) = p[k].bal
  <1>0. PICK f : f = [l \in Keys |-> p[l].bal]
    OBVIOUS
  <1>1. KeysOf(o) = {} \cup {k} /\ k \in Keys
    BY DEF KeysOf, OnePayment
  <1>2. f[k] = p[k].bal /\ f[k] \in Int
    BY <1>0, <1>1 DEF PaysTyped, Payment
  <1>3. SumFunctionOnSet(f, {} \cup {k}) = SumFunctionOnSet(f, {}) + f[k]
    BY <1>2, FS_EmptySet, SumWith
  <1>4. SumFunctionOnSet(f, KeysOf(o)) = f[k]
    BY <1>1, <1>2, <1>3, SumOfNone
  <1> QED
    BY <1>0, <1>2, <1>4 DEF HeldIn

\* What refunds have taken of an order changes by what one of them takes.
LEMMA OwedMoves ==
  ASSUME JobsTyped(refund), JobsTyped(refund'), NEW r \in Refunds, NEW job,
         refund' = [refund EXCEPT ![r] = job], NEW q
  PROVE  Replaced(OwedBy(refund', q), OwedBy(refund, q), Share(refund[r], q), Share(job, q))
  <1>1. refund'[r] = job /\ OnlyAt(r, Refunds, refund, refund')
    BY DEF JobsTyped, OnlyAt
  <1>2. Replaced(OwedBy(refund', q), OwedBy(refund, q), Share(refund[r], q), Share(refund'[r], q))
    BY <1>1, OwedChanges
  <1> QED
    BY <1>1, <1>2

\* How the account of an order can change: not at all; in balance; by its one grant; or
\* out of balance, and then it is neither paid nor its payment whole.
BalanceKept(o) ==
    coins'[o] + OwedBy(refund', o) + HeldIn(pay, o) = coins[o] + OwedBy(refund, o) + HeldIn(pay', o)
Untouched(o) ==
    /\ order[o].ref = NoKey /\ order'[o].ref = NoKey
    /\ coins'[o] = coins[o] /\ order'[o].refunded = order[o].refunded
    /\ order'[o].status \in {order[o].status, "canceled"}
InBalance(o) ==
    /\ order[o].ref # NoKey /\ order'[o].ref = order[o].ref
    /\ BalanceKept(o) /\ (Whole(o)' => Whole(o))
PaidOnce(o, k) ==
    /\ k \in KeysOf(o) /\ pay[k].st = "DONE" /\ order[o].status = "pending"
    /\ order'[o].ref = k /\ coins'[o] = coins[o] + Amount[o]
    /\ pay' = pay /\ OwedBy(refund', o) = OwedBy(refund, o)
OutOfBalance(o) == order[o].ref # NoKey /\ order'[o].ref = order[o].ref /\ ~Whole(o)'
SettleMoves(o) == \/ Untouched(o) \/ InBalance(o) \/ OutOfBalance(o)
                  \/ \E k \in Keys : PaidOnce(o, k)

\* An order nothing happens to, other than being canceled or losing its buyer.
LEMMA QuietSettles ==
  ASSUME MoneyInv, IInv', NEW o \in Orders, coins'[o] = coins[o],
         order'[o].ref = order[o].ref, order'[o].refunded = order[o].refunded,
         order'[o].status \in {order[o].status, "canceled"},
         OwedBy(refund', o) = OwedBy(refund, o),
         order[o].ref # NoKey => /\ HeldIn(pay', o) = HeldIn(pay, o)
                                 /\ pay'[order[o].ref].st = "DONE" => pay[order[o].ref].st = "DONE"
  PROVE  SettleMoves(o)
  <1>1. coins[o] \in Int /\ OwedBy(refund, o) \in Nat /\ HeldIn(pay, o) \in Nat
    BY MoneyTypes DEF MoneyInv
  <1>2. CASE order[o].ref = NoKey
    BY <1>2 DEF SettleMoves, Untouched
  <1>3. CASE order[o].ref # NoKey
    BY <1>1, <1>3 DEF SettleMoves, InBalance, BalanceKept, Whole
  <1> QED
    BY <1>2, <1>3

\* After such a change the account is settled, if it was before.
LEMMA SettlesAfter ==
  ASSUME OnePayment, SettleInv, IInv', NEW o \in Orders, SettleMoves(o)
  PROVE  Settled(o)' /\ Fresh(o)' /\ (order[o].ref # NoKey => order'[o].ref # NoKey)
  <1>0. /\ Settled(o) /\ Fresh(o) /\ OrderFine(o) /\ AccountFine(o) /\ PaymentsFine
        /\ coins[o] \in Int /\ OwedBy(refund, o) \in Nat /\ HeldIn(pay, o) \in Nat
        /\ order[o].refunded \in Nat /\ Amount[o] \in Nat
        /\ order[o].ref \in Keys \cup {NoKey} /\ NoKey \notin Keys
        /\ \A k \in Keys : pay[k].bal \in Nat
    BY MoneyTypes DEF SettleInv, MoneyInv, OrdersFine, AccountsFine
  <1>t. /\ coins'[o] \in Int /\ OwedBy(refund', o) \in Nat /\ HeldIn(pay', o) \in Nat
        /\ PaysTyped(pay)
    BY TablesTyped DEF SettleInv
  <1>1. CASE Untouched(o)
    BY <1>0, <1>1 DEF Untouched, Fresh, Settled
  <1>2. CASE InBalance(o)
    <2>1. Whole(o) => Balanced(o)
      BY <1>0, <1>2 DEF InBalance, Settled
    <2>2. Balanced(o) => Balanced(o)'
      BY <1>0, <1>2, <1>t DEF InBalance, BalanceKept, Balanced
    <2> QED
      BY <1>2, <2>1, <2>2 DEF InBalance, Settled, Fresh
  <1>3. CASE OutOfBalance(o)
    BY <1>3 DEF OutOfBalance, Settled, Fresh
  <1>4. ASSUME NEW k \in Keys, PaidOnce(o, k)
        PROVE  Settled(o)' /\ Fresh(o)' /\ order'[o].ref # NoKey
    <2>1. order[o].ref = NoKey
      BY <1>0, <1>4 DEF PaidOnce, OrderFine, OnePayment, KeysOf
    <2>2. coins[o] = 0 /\ OwedBy(refund, o) = 0
      BY <1>0, <2>1 DEF Fresh, AccountFine
    <2>3. HeldIn(pay, o) = Amount[o]
      BY <1>0, <1>4, <1>t, OneHeld DEF PaidOnce, PaymentsFine, BalanceFine, KeysOf
    <2>4. coins'[o] = Amount[o] /\ OwedBy(refund', o) = 0 /\ HeldIn(pay', o) = Amount[o]
      BY <1>0, <1>4, <2>2, <2>3 DEF PaidOnce
    <2>5. order'[o].ref = k
      BY <1>4 DEF PaidOnce
    <2> QED
      BY <1>0, <2>4, <2>5 DEF Settled, Balanced, Fresh
  <1> QED
    BY <1>1, <1>2, <1>3, <1>4 DEF SettleMoves, Untouched, InBalance, OutOfBalance

\* A payment that no order was granted for changes: the orders that have theirs do not.
LEMMA UnpaidSettles ==
  ASSUME OnePayment, SettleInv, IInv', NEW k \in Keys, pay[k].st \notin PaidFor,
         \A l \in Keys : l # k => pay'[l] = pay[l],
         order' = order, coins' = coins, refund' = refund, NEW o \in Orders
  PROVE  SettleMoves(o)
  <1>0. /\ MoneyInv /\ OrderFine(o) /\ order[o].ref \in Keys \cup {NoKey}
        /\ PaysTyped(pay) /\ PaysTyped(pay')
    BY MoneyTypes, TablesTyped DEF SettleInv, MoneyInv, OrdersFine
  <1>1. ASSUME order[o].ref # NoKey
        PROVE  pay'[order[o].ref] = pay[order[o].ref] /\ HeldIn(pay', o) = HeldIn(pay, o)
    <2>1. order[o].ref # k /\ order[o].ref \in KeysOf(o)
      BY <1>0, <1>1 DEF OrderFine, KeysOf
    <2>2. pay'[order[o].ref] = pay[order[o].ref]
      BY <1>0, <1>1, <2>1
    <2> QED
      BY <1>0, <2>1, <2>2, OneHeld
  <1> QED
    BY <1>0, <1>1, QuietSettles

\* A grant pays an order that has no other payment, for one that is whole.
LEMMA GrantSettles ==
  ASSUME SettleInv, IInv', NEW q \in Orders, NEW k \in Keys, KeyOrder[k] = q,
         pay[k].st = "DONE", Confirmable(q), Grant(q, "toss", k), pay' = pay, refund' = refund,
         NEW o \in Orders
  PROVE  SettleMoves(o)
  <1>0. MoneyInv /\ order \in [Orders -> OrderRow] /\ coins \in [Orders -> Int]
    BY MoneyTypes DEF SettleInv, MoneyInv
  <1>1. /\ order'[q].ref = k /\ coins'[q] = coins[q] + Amount[q]
        /\ o # q => order'[o] = order[o] /\ coins'[o] = coins[o]
    BY <1>0 DEF Grant, Credit, OrderRow
  <1>2. CASE o = q
    BY <1>1, <1>2 DEF SettleMoves, PaidOnce, KeysOf, Confirmable
  <1>3. CASE o # q
    BY <1>0, <1>1, <1>3, QuietSettles
  <1> QED
    BY <1>2, <1>3

\* A step that changes no account, no payment and no refund.
LEMMA StillSettles ==
  ASSUME SettleInv, IInv', order' = order, coins' = coins, pay' = pay,
         \A q : OwedBy(refund', q) = OwedBy(refund, q), NEW o \in Orders
  PROVE  SettleMoves(o)
  BY QuietSettles DEF SettleInv

\* The steps of confirmations.
LEMMA ConfirmSettles ==
  ASSUME Settling, SettleInv, IInv', NEW c \in Confirms, ConfirmStep(c), NEW o \in Orders
  PROVE  SettleMoves(o)
  <1> PICK k : k = confirm[c].key
    OBVIOUS
  <1>0. /\ confirm[c].pc # "idle" => k \in Keys /\ KeyOrder[k] \in Orders
        /\ ConfirmFine(c) /\ pay \in [Keys -> Payment]
    BY InstanceAssumption, MoneyTypes DEF SettleInv, MoneyInv, IInv, ConfirmKeyed, ConfirmsFine
  <1>a. ASSUME UNCHANGED accounts, pay' = pay, refund' = refund PROVE SettleMoves(o)
    BY <1>a, StillSettles DEF accounts
  <1>1. CASE ConfirmApply(c)
    <2>1. /\ k \in Keys /\ KeyOrder[k] \in Orders /\ pay' = pay /\ refund' = refund
      BY <1>0, <1>1 DEF ConfirmApply, vendor
    <2>2. CASE UNCHANGED accounts
      BY <1>a, <2>1, <2>2
    <2>3. CASE Confirmable(KeyOrder[k]) /\ Grant(KeyOrder[k], "toss", k)
      <3>1. pay[k].st = "DONE"
        BY <1>0, <1>1, <2>3 DEF ConfirmApply, ConfirmFine, Confirmable
      <3> QED
        BY <2>1, <2>3, <3>1, GrantSettles
    <2> QED
      BY <1>1, <2>2, <2>3 DEF ConfirmApply
  <1>2. CASE VendorConfirm(c)
    <2>1. k \in Keys /\ order' = order /\ coins' = coins /\ refund' = refund
      BY <1>0, <1>2 DEF VendorConfirm, accounts
    <2>2. CASE pay' = pay
      BY <1>2, <2>2, <1>a DEF VendorConfirm
    <2>3. CASE pay' # pay
      <3>1. ASSUME NEW a \in ConfirmAnswers(k), a.pay # pay[k]
            PROVE  pay[k].st = "IN_PROGRESS"
        BY <3>1 DEF ConfirmAnswers, Settling, Dependable
      <3>2. \E p : pay' = [pay EXCEPT ![k] = p] /\ (p # pay[k] => pay[k].st = "IN_PROGRESS")
        <4>1. \/ pay' = pay
              \/ \E a \in ConfirmAnswers(k) : pay' = [pay EXCEPT ![k] = a.pay]
              \/ /\ pay[k].st = "IN_PROGRESS"
                 /\ pay' = [pay EXCEPT ![k].st = "ABORTED", ![k].first = "rejected"]
          BY <1>2 DEF VendorConfirm
        <4>2. ASSUME pay[k].st = "IN_PROGRESS",
                     pay' = [pay EXCEPT ![k].st = "ABORTED", ![k].first = "rejected"]
              PROVE  \E p : pay' = [pay EXCEPT ![k] = p] /\ pay[k].st = "IN_PROGRESS"
          BY <1>0, <2>1, <4>2
        <4> QED
          BY <2>3, <3>1, <4>1, <4>2
      <3>3. pay[k].st \notin PaidFor /\ \A l \in Keys : l # k => pay'[l] = pay[l]
        BY <1>0, <2>1, <2>3, <3>2 DEF PaidFor
      <3> QED
        BY <2>1, <3>3, UnpaidSettles DEF Settling
    <2> QED
      BY <2>2, <2>3
  <1> QED
    BY <1>1, <1>2, <1>a DEF ConfirmStep, ConfirmBegin, ConfirmRejected, ConfirmUnknown,
       ConfirmResolve, ConfirmPending, vendor

\* The steps of reconciliations: a clawback is from an order whose payment is not whole.
LEMMA ReconcileSettles ==
  ASSUME Settling, SettleInv, IInv', NEW q \in Orders, ReconcileWork(q), NEW o \in Orders
  PROVE  SettleMoves(o)
  <1> PICK k : k = reconcile[q].got.key
    OBVIOUS
  <1>0. /\ order \in [Orders -> OrderRow] /\ coins \in [Orders -> Int] /\ MoneyInv
        /\ reconcile \in [Orders -> ReconcileJob] /\ ReconcileFine(q) /\ JobNamed(q)
    BY MoneyTypes DEF SettleInv, MoneyInv, ReconcilesFine
  <1>1. pay' = pay /\ refund' = refund
    BY DEF ReconcileWork, ReconcileFetch, ReconcileGrant, ReconcileClaw, ReconcileConsistent,
       Finish, vendor
  <1>a. ASSUME UNCHANGED accounts PROVE SettleMoves(o)
    BY <1>1, <1>a, StillSettles DEF accounts
  <1>2. CASE ReconcileGrant(q) /\ ~UNCHANGED accounts
    <2>1. /\ reconcile[q].pc = "deciding" /\ k # NoKey /\ reconcile[q].got.st = "DONE"
          /\ Confirmable(q) /\ Grant(q, "toss", k)
      BY <1>2 DEF ReconcileGrant, Finish, Unpaid, accounts
    <2>2. k \in Keys /\ KeyOrder[k] = q /\ pay[k].st = "DONE"
      BY <1>0, <2>1 DEF ReconcileFine, ReconcileJob, Found, Confirmable
    <2> QED
      BY <1>1, <2>1, <2>2, GrantSettles
  <1>3. CASE ReconcileClaw(q)
    <2>1. /\ order'[q].ref = order[q].ref /\ order'[q].status = "pending"
          /\ o # q => order'[o] = order[o] /\ coins'[o] = coins[o]
      BY <1>0, <1>3 DEF ReconcileClaw, Clawback, Credit, OrderRow
    <2>2. order[q].ref # NoKey /\ pay[order[q].ref].st # "DONE"
      BY <1>0, <1>3 DEF ReconcileClaw, Finish, Overpaid, JobNamed, ReconcileFine
    <2>3. CASE o = q
      BY <1>1, <2>1, <2>2, <2>3 DEF SettleMoves, OutOfBalance, Whole
    <2>4. CASE o # q
      BY <1>0, <1>1, <2>1, <2>4, QuietSettles
    <2> QED
      BY <2>3, <2>4
  <1> QED
    BY <1>2, <1>3, <1>a DEF ReconcileWork, ReconcileFetch, ReconcileConsistent

\* The other ways an order or a payment changes.
LEMMA OthersSettle ==
  ASSUME Settling, SettleInv, IInv', NEW o \in Orders,
         \/ \E q \in Orders : AdminReconcile(q) \/ CancelOrder(q)
         \/ \E i \in Keys \cup Orders : SchedulerReconcile(i)
         \/ \E s \in Signal : WebhookReconcile(s) \/ LoseWebhook(s)
         \/ \E k \in Keys : PaymentStep(k)
         \/ \E u \in Users : Spend(u) \/ Withdraw(u)
         \/ PurgeBuyers
  PROVE  SettleMoves(o)
  <1>0. /\ order \in [Orders -> OrderRow] /\ pay \in [Keys -> Payment] /\ MoneyInv
    BY MoneyTypes DEF SettleInv, MoneyInv
  <1>1. ASSUME NEW q \in Orders, CancelOrder(q) PROVE SettleMoves(o)
    <2>1. /\ coins' = coins /\ pay' = pay /\ refund' = refund
          /\ order'[o].ref = order[o].ref /\ order'[o].refunded = order[o].refunded
          /\ order'[o].status \in {order[o].status, "canceled"}
      BY <1>0, <1>1 DEF CancelOrder, OrderRow, vendor
    <2> QED
      BY <1>0, <2>1, QuietSettles
  <1>2. CASE PurgeBuyers
    <2>1. order'[o] = order[o] \/ order'[o] = [order[o] EXCEPT !.buyer = FALSE]
      BY <1>2 DEF PurgeBuyers
    <2>2. /\ coins' = coins /\ pay' = pay /\ refund' = refund
          /\ order'[o].ref = order[o].ref /\ order'[o].refunded = order[o].refunded
          /\ order'[o].status \in {order[o].status, "canceled"}
      BY <1>0, <1>2, <2>1 DEF PurgeBuyers, OrderRow, vendor
    <2> QED
      BY <1>0, <2>2, QuietSettles
  <1>3. ASSUME NEW k \in Keys, PaymentStep(k) PROVE SettleMoves(o)
    <2>1. ~VendorRevoke(k)
      BY DEF VendorRevoke, Fault, Settling, Dependable
    <2>2. /\ order' = order /\ coins' = coins /\ refund' = refund /\ pay[k].st \notin PaidFor
          /\ \A l \in Keys : l # k => pay'[l] = pay[l]
      BY <1>0, <1>3, <2>1 DEF PaymentStep, OpenWindow, Deposit, Expire, PaidFor, accounts
    <2> QED
      BY <2>2, UnpaidSettles DEF Settling
  <1>4. CASE \/ \E q \in Orders : AdminReconcile(q)
             \/ \E i \in Keys \cup Orders : SchedulerReconcile(i)
             \/ \E s \in Signal : WebhookReconcile(s) \/ LoseWebhook(s)
             \/ \E u \in Users : Spend(u) \/ Withdraw(u)
    <2>1. order' = order /\ coins' = coins /\ pay' = pay /\ refund' = refund
      BY <1>4 DEF AdminReconcile, SchedulerReconcile, WebhookReconcile, LoseWebhook, Spend,
         Withdraw, accounts, vendor
    <2> QED
      BY <2>1, StillSettles
  <1> QED
    BY <1>1, <1>2, <1>3, <1>4

\* A refund is refused, or the vendor gives back what it has taken: its idempotency key
\* was not used for another, and a full refund finds the payment whole.
LEMMA CancelIsExact ==
  ASSUME Settling, SettleInv, NEW r \in Refunds, VendorCancel(r)
  PROVE  \/ Answered(r, "rejected") /\ pay' = pay
         \/ Answered(r, "DONE") /\ VendorCancels(r) /\ CancelAmount(r) = refund[r].want
  <1> PICK j, o, k, n : j = refund[r] /\ o = j.order /\ k = j.key /\ n = Upto(j)
    OBVIOUS
  <1>0. /\ j \in RefundJob /\ o \in Orders /\ k \in Keys /\ j.pc = "calling" /\ j.want > 0
        /\ n <= Amount[o] /\ MoneyInv /\ RefundFine(r) /\ AccountFine(o) /\ PaymentsFine
        /\ order[o].refunded <= Amount[o]
    BY MoneyTypes DEF VendorCancel, SettleInv, MoneyInv, IInv, RefundFits, RefundsFine,
       AccountsFine, Upto, RefundedWithinOrder
  <1>1. /\ j.want \in Nat /\ j.prev \in Nat /\ Outstanding(j) = j.want /\ Taken(j)
    BY <1>0 DEF RefundJob, Outstanding, Taken
  <1>2. /\ n \in 1..Amount[o] /\ CancelId(r) = <<o, n>> /\ CancelId(r) \in CancelKeys
    BY <1>0, <1>1, OwnerType DEF Upto, CancelId, CancelKeys
  <1>3. ~Canceled(o, n)
    <2>1. ~(n <= j.prev) /\ ~(n < n)
      BY <1>0, <1>1, <1>2 DEF Upto
    <2> QED
      BY <1>0, <1>1, <1>2, <2>1 DEF SettleInv, PartsApart, CancelsApart
  <1>4. ~Fault("unknown")
    BY DEF Settling, Dependable, Fault
  <1>5. CASE cancels[CancelId(r)] # "none"
    <2>1. cancels[CancelId(r)] = "rejected"
      BY <1>0, <1>2, <1>3, <1>5 DEF Canceled, MoneyInv, IInv, TypeOK
    <2> QED
      BY <1>5, <2>1 DEF VendorCancel, vendor
  <1>6. ASSUME VendorCancels(r) PROVE CancelAmount(r) = j.want
    <2>1. CASE ~(j.prev = 0 /\ j.want = Amount[o])
      BY <1>0, <2>1 DEF CancelAmount
    <2>2. CASE j.prev = 0 /\ j.want = Amount[o]
      <3> PICK b, owed : b = pay[k].bal /\ owed = OwedBy(refund, o)
        OBVIOUS
      <3>1. /\ b \in Nat /\ owed \in Nat /\ b <= Amount[o] /\ KeyOrder[k] = o /\ Amount[o] \in Nat
            /\ order[o].refunded \in Nat /\ order[o].ref \in Keys \cup {NoKey}
        BY <1>0, MoneyTypes DEF PaymentsFine, BalanceFine, RefundFine, MoneyInv
      <3>2. order[o].ref = k
        <4>1. order[o].ref # NoKey /\ OrderFine(o)
          BY <1>0 DEF SettleInv, RefundNamed, MoneyInv, OrdersFine
        <4> QED
          BY <1>0, <3>1, <4>1 DEF OrderFine, Settling, OnePayment
      <3>3. Amount[o] - b + owed <= order[o].refunded
        BY <1>0, <3>1, <3>2, InstanceAssumption DEF AccountFine
      <3>4. owed >= j.want
        <4>0. PICK f : f = [s \in Refunds |-> Share(refund[s], o)]
          OBVIOUS
        <4>1. \A s \in Refunds : f[s] \in Nat
          BY <4>0, MoneyTypes, <1>0 DEF Share, Outstanding, RefundJob, MoneyInv
        <4>2. f[r] <= SumFunctionOnSet(f, Refunds)
          BY <4>1, SumIsAtLeast, InstanceAssumption
        <4> QED
          BY <1>0, <1>1, <3>1, <4>0, <4>2 DEF OwedBy, Share
      <3>5. order[o].refunded <= j.want /\ j.want = Amount[o]
        BY <1>0, <2>2
      <3>6. b = j.want
        BY <1>1, <3>1, <3>3, <3>4, <3>5
      <3> QED
        BY <1>0, <2>2, <3>6 DEF CancelAmount
    <2> QED
      BY <2>1, <2>2
  <1> QED
    BY <1>0, <1>4, <1>5, <1>6 DEF VendorCancel

\* The vendor cancels: it holds less by what the refund owes less.
LEMMA CancelSettles ==
  ASSUME Settling, SettleInv, IInv', NEW r \in Refunds, refund[r].pc = "calling",
         VendorCancels(r), CancelAmount(r) = refund[r].want, Answered(r, "DONE"),
         order' = order, coins' = coins, NEW o \in Orders
  PROVE  SettleMoves(o)
  <1> PICK j, q, k : j = refund[r] /\ q = j.order /\ k = j.key
    OBVIOUS
  <1> PICK job : job = [j EXCEPT !.pc = "answered", !.reply = "DONE"]
    OBVIOUS
  <1>0. /\ MoneyInv /\ j \in RefundJob /\ q \in Orders /\ k \in Keys /\ KeyOrder[k] = q
        /\ pay \in [Keys -> Payment] /\ refund \in [Refunds -> RefundJob]
        /\ pay[k] \in Payment /\ OrderFine(o) /\ order[o].ref \in Keys \cup {NoKey}
        /\ order[q].ref # NoKey /\ NoKey \notin Keys
        /\ coins[o] \in Int /\ OwedBy(refund, o) \in Nat /\ HeldIn(pay, o) \in Nat
    BY MoneyTypes DEF SettleInv, MoneyInv, IInv, RefundFits, RefundsFine, RefundFine, OrdersFine,
       RefundNamed
  <1>1. /\ JobsTyped(refund) /\ JobsTyped(refund') /\ PaysTyped(pay) /\ PaysTyped(pay')
    BY <1>0, TablesTyped
  <1>2. /\ refund' = [refund EXCEPT ![r] = job] /\ job.order = q
        /\ Outstanding(job) = 0 /\ Outstanding(j) = j.want /\ j.want \in Nat
    BY <1>0 DEF Answered, RefundJob, Outstanding
  <1>3. OwedBy(refund', o) = OwedBy(refund, o) + (IF o = q THEN -j.want ELSE 0)
    <2>1. Replaced(OwedBy(refund', o), OwedBy(refund, o), Share(j, o), Share(job, o))
      BY <1>1, <1>2, OwedMoves
    <2>2. Share(j, o) = (IF o = q THEN j.want ELSE 0) /\ Share(job, o) = 0
      BY <1>2 DEF Share
    <2> QED
      BY <1>0, <1>2, <2>1, <2>2 DEF Replaced
  <1>4. /\ pay'[k].bal = pay[k].bal - j.want /\ pay[k].bal \in Nat
        /\ pay'[k].st \in {"CANCELED", "PARTIAL_CANCELED"}
        /\ \A l \in Keys : l # k => pay'[l] = pay[l]
        /\ OnlyAt(k, Keys, pay, pay')
    BY <1>0 DEF VendorCancels, Payment, OnlyAt
  <1>5. CASE o # q
    <2>1. HeldIn(pay', o) = HeldIn(pay, o)
      BY <1>0, <1>1, <1>4, <1>5, HeldChanges DEF KeysOf
    <2>2. order[o].ref # NoKey => pay'[order[o].ref] = pay[order[o].ref]
      BY <1>0, <1>4, <1>5 DEF OrderFine
    <2>3. OwedBy(refund', o) = OwedBy(refund, o)
      BY <1>0, <1>3, <1>5
    <2> QED
      BY <1>0, <2>1, <2>2, <2>3, QuietSettles
  <1>6. CASE o = q
    <2>1. k \in KeysOf(o)
      BY <1>0, <1>6 DEF KeysOf
    <2>2. Replaced(HeldIn(pay', o), HeldIn(pay, o), pay[k].bal, pay'[k].bal)
      BY <1>0, <1>1, <1>4, <2>1, HeldChanges
    <2>3. HeldIn(pay', o) = HeldIn(pay, o) - j.want
      BY <1>0, <1>2, <1>4, <2>2 DEF Replaced
    <2>4. BalanceKept(o)
      BY <1>0, <1>2, <1>3, <1>6, <2>3 DEF BalanceKept
    <2>5. Whole(o)' => Whole(o)
      <3>1. order[o].ref = k
        BY <1>0, <1>6 DEF OrderFine, Settling, OnePayment
      <3> QED
        BY <1>4, <3>1 DEF Whole
    <2> QED
      BY <1>0, <1>6, <2>4, <2>5 DEF SettleMoves, InBalance
  <1> QED
    BY <1>5, <1>6

\* A refund takes coins or gives them back, and owes as much.
LEMMA TakingSettles ==
  ASSUME SettleInv, IInv', NEW r \in Refunds, NEW q \in Orders, refund[r].order = q,
         order[q].ref # NoKey, NEW job, refund' = [refund EXCEPT ![r] = job],
         job.order = q \/ Outstanding(job) = 0, NEW d \in Int,
         Outstanding(job) = Outstanding(refund[r]) + d,
         coins'[q] = coins[q] - d, order'[q].ref = order[q].ref, pay' = pay,
         order'[q].status = "paid" => Whole(q), NEW o \in Orders,
         o # q => order'[o] = order[o] /\ coins'[o] = coins[o]
  PROVE  SettleMoves(o)
  <1>0. /\ MoneyInv /\ coins[o] \in Int /\ OwedBy(refund, o) \in Nat /\ HeldIn(pay, o) \in Nat
        /\ JobsTyped(refund) /\ JobsTyped(refund')
    BY MoneyTypes, TablesTyped DEF SettleInv, MoneyInv
  <1>1. OwedBy(refund', o) = OwedBy(refund, o) + (IF o = q THEN d ELSE 0)
    <2>1. Replaced(OwedBy(refund', o), OwedBy(refund, o), Share(refund[r], o), Share(job, o))
      BY <1>0, OwedMoves
    <2>2. Outstanding(refund[r]) \in Nat
      BY <1>0 DEF JobsTyped, Outstanding, RefundJob
    <2>3. /\ Share(refund[r], o) = (IF o = q THEN Outstanding(refund[r]) ELSE 0)
          /\ Share(job, o) = (IF o = q THEN Outstanding(refund[r]) + d ELSE 0)
      BY DEF Share
    <2> QED
      BY <1>0, <2>1, <2>2, <2>3 DEF Replaced
  <1>2. CASE o = q
    <2>1. BalanceKept(o)
      BY <1>0, <1>1, <1>2 DEF BalanceKept
    <2>2. Whole(o)' => Whole(o)
      BY <1>2 DEF Whole
    <2> QED
      BY <1>2, <2>1, <2>2 DEF SettleMoves, InBalance
  <1>3. CASE o # q
    <2>1. OwedBy(refund', o) = OwedBy(refund, o)
      BY <1>0, <1>1, <1>3
    <2> QED
      BY <1>0, <1>3, <2>1, QuietSettles
  <1> QED
    BY <1>2, <1>3

\* A refund that makes its order paid again had taken all there was to take, so the
\* payment is whole.
LEMMA RevertedIsWhole ==
  ASSUME SettleInv, OnePayment, NEW r \in Refunds, refund[r].pc = "answered",
         refund[r].reply # "DONE", NEW o \in Orders, refund[r].order = o,
         order[o].refunded = refund[r].prev + refund[r].want, refund[r].prev <= 0
  PROVE  Whole(o)
  <1> PICK j, k : j = refund[r] /\ k = order[o].ref
    OBVIOUS
  <1>0. /\ j \in RefundJob /\ MoneyInv /\ AccountFine(o) /\ PaymentsFine /\ OrderFine(o)
        /\ k \in Keys /\ Parted(k) /\ KeyOrder[k] = o /\ order[o].refunded <= Amount[o]
    BY MoneyTypes DEF SettleInv, MoneyInv, AccountsFine, OrdersFine, RefundNamed, OrderFine,
       IInv, RefundedWithinOrder
  <1> PICK b, owed : b = pay[k].bal /\ owed = OwedBy(refund, o)
    OBVIOUS
  <1>1. /\ b \in Nat /\ owed \in Nat /\ Amount[o] \in Nat \ {0} /\ j.prev = 0 /\ j.want \in Nat
        /\ b <= Amount[o] /\ order[o].refunded = j.want
    BY <1>0, MoneyTypes, OwnerType, InstanceAssumption DEF MoneyInv, RefundJob, PaymentsFine,
       BalanceFine
  <1>2. Amount[o] - b + owed <= order[o].refunded
    BY <1>0, InstanceAssumption DEF AccountFine
  <1>3. owed >= j.want
    <2>0. PICK f : f = [s \in Refunds |-> Share(refund[s], o)]
      OBVIOUS
    <2>1. \A s \in Refunds : f[s] \in Nat
      BY <2>0, MoneyTypes, <1>0 DEF Share, Outstanding, RefundJob, MoneyInv
    <2>2. f[r] <= SumFunctionOnSet(f, Refunds)
      BY <2>1, SumIsAtLeast, InstanceAssumption
    <2>3. f[r] = j.want
      BY <2>0 DEF Share, Outstanding
    <2> QED
      BY <2>0, <2>2, <2>3 DEF OwedBy
  <1>4. b = Amount[o]
    BY <1>1, <1>2, <1>3
  <1>5. pay[k].st = "DONE"
    <2>1. BalanceFine(pay[k], Amount[o]) /\ Parted(k) /\ KeyOrder[k] = o
      BY <1>0 DEF PaymentsFine
    <2>2. pay[k].st \in Captured
      BY <1>1, <1>4, <2>1 DEF BalanceFine
    <2>3. pay[k].st # "PARTIAL_CANCELED"
      BY <1>1, <1>4, <2>1 DEF Parted
    <2> QED
      BY <2>2, <2>3 DEF Captured
  <1> QED
    BY <1>0, <1>5, InstanceAssumption DEF Whole

\* The steps of refunds.
LEMMA RefundSettles ==
  ASSUME Settling, SettleInv, IInv', NEW r \in Refunds, RefundStep(r), NEW o \in Orders
  PROVE  SettleMoves(o)
  <1> PICK j, q : j = refund[r] /\ q = j.order
    OBVIOUS
  <1>0. /\ MoneyInv /\ order \in [Orders -> OrderRow] /\ coins \in [Orders -> Int]
        /\ refund \in [Refunds -> RefundJob] /\ j \in RefundJob /\ RefundNamed(r)
        /\ j.pc # "idle" => q \in Orders
        /\ JobsTyped(refund) /\ JobsTyped(refund')
    BY MoneyTypes, TablesTyped DEF SettleInv, MoneyInv, IInv, RefundFits
  <1>n. Outstanding(NoRefund) = 0 /\ \A p : Share(NoRefund, p) = 0
    BY DEF Outstanding, NoRefund, Share
  <1>a. ASSUME NEW job, refund' = [refund EXCEPT ![r] = job],
               \A p : Share(job, p) = Share(j, p),
               order' = order, coins' = coins, pay' = pay
        PROVE  SettleMoves(o)
    <2>1. ASSUME NEW p PROVE OwedBy(refund', p) = OwedBy(refund, p)
      <3>1. Replaced(OwedBy(refund', p), OwedBy(refund, p), Share(j, p), Share(job, p))
        BY <1>0, <1>a, OwedMoves
      <3>2. OwedBy(refund, p) \in Nat /\ Share(j, p) \in Nat
        BY <1>0, OwedType DEF Share, Outstanding, RefundJob
      <3> QED
        BY <1>a, <3>1, <3>2 DEF Replaced
    <2> QED
      BY <1>a, <2>1, StillSettles
  <1>b. ASSUME NEW job, refund' = [refund EXCEPT ![r] = job], NEW d \in Int, j.pc # "idle",
               job.order = q \/ Outstanding(job) = 0, Outstanding(job) = Outstanding(j) + d,
               Credit(q, -d), pay' = pay, order'[q].ref = order[q].ref,
               order'[q].status = "paid" => Whole(q), o # q => order'[o] = order[o]
        PROVE  SettleMoves(o)
    <2>1. q \in Orders /\ order[q].ref # NoKey /\ refund[r].order = q
      BY <1>0, <1>b DEF RefundNamed
    <2>2. coins'[q] = coins[q] - d /\ (o # q => coins'[o] = coins[o])
      BY <1>0, <1>b, <2>1 DEF Credit
    <2> QED
      BY <1>b, <2>1, <2>2, TakingSettles
  <1>1. ASSUME NEW p \in Orders, NEW want \in 1..Amount[p], RefundBegin(r, p, want)
        PROVE  SettleMoves(o)
    <2>1. PICK job : /\ job = [pc |-> "read", order |-> p, key |-> order[p].ref, want |-> want,
                               prev |-> order[p].refunded, reply |-> "none"]
                     /\ refund' = [refund EXCEPT ![r] = job]
      BY <1>1 DEF RefundBegin
    <2>2. \A x : Share(job, x) = Share(j, x)
      BY <1>1, <2>1 DEF Share, Outstanding, RefundBegin
    <2> QED
      BY <1>1, <1>a, <2>1, <2>2 DEF RefundBegin, accounts, vendor
  <1>2. CASE RefundCommit(r)
    <2>0. j.pc = "read" /\ \A x : Share(j, x) = 0
      BY <1>2 DEF RefundCommit, Share, Outstanding
    <2>1. CASE refund' = [refund EXCEPT ![r] = NoRefund] /\ UNCHANGED accounts
      BY <1>2, <1>a, <1>n, <2>0, <2>1 DEF RefundCommit, accounts, vendor
    <2>2. CASE /\ Credit(q, -j.want)
               /\ order' = [order EXCEPT
                              ![q].refunded = j.prev + j.want,
                              ![q].status = IF j.prev + j.want >= Amount[q]
                                            THEN "refunded" ELSE @]
               /\ refund' = [refund EXCEPT ![r].pc = "calling"]
      <3>1. PICK job : job = [j EXCEPT !.pc = "calling"]
        OBVIOUS
      <3>2. /\ refund' = [refund EXCEPT ![r] = job] /\ job.order = q
            /\ Outstanding(j) = 0 /\ Outstanding(job) = j.want /\ j.want \in Int
        BY <1>0, <2>0, <2>2, <3>1 DEF RefundJob, Outstanding
      <3>3. /\ order'[q].ref = order[q].ref /\ (o # q => order'[o] = order[o])
            /\ order'[q].status = "paid" => order[q].status = "paid"
        BY <1>0, <2>0, <2>2 DEF OrderRow
      <3>4. pay' = pay
        BY <1>2 DEF RefundCommit, vendor
      <3>5. Outstanding(job) = Outstanding(j) + j.want
        BY <3>2
      <3> QED
        BY <1>b, <2>0, <2>2, <3>2, <3>3, <3>4, <3>5 DEF Whole
    <2> QED
      BY <1>2, <2>1, <2>2 DEF RefundCommit
  <1>3. CASE RefundDone(r)
    <2>1. \A x : Share(j, x) = 0
      BY <1>3 DEF RefundDone, Share, Outstanding
    <2> QED
      BY <1>3, <1>a, <1>n, <2>1 DEF RefundDone, accounts, vendor
  <1>4. CASE RefundRevert(r)
    <2>1. /\ j.pc = "answered" /\ j.reply # "DONE" /\ q \in Orders
          /\ refund' = [refund EXCEPT ![r] = NoRefund] /\ Credit(q, j.want) /\ pay' = pay
      BY <1>0, <1>4 DEF RefundRevert, vendor, people
    <2>2. PICK d \in Int : d = -j.want
      BY <1>0 DEF RefundJob
    <2>3. Outstanding(NoRefund) = Outstanding(j) + d /\ Credit(q, -d)
      <3>1. Outstanding(j) = j.want /\ j.want \in Int /\ -d = j.want
        BY <1>0, <2>1, <2>2 DEF Outstanding, RefundJob
      <3> QED
        BY <1>n, <2>1, <2>2, <3>1
    <2>4. /\ order'[q].ref = order[q].ref /\ (o # q => order'[o] = order[o])
          /\ order'[q].status = "paid" => Whole(q)
      <3>1. CASE order' = order
        BY <3>1 DEF Whole
      <3>2. CASE /\ order[q].refunded = j.prev + j.want
                 /\ order' = [order EXCEPT ![q].refunded = j.prev,
                                           ![q].status = IF j.prev <= 0 THEN "paid" ELSE @]
        <4>1. j.prev <= 0 => Whole(q)
          BY <2>1, <3>2, RevertedIsWhole DEF Settling
        <4> QED
          BY <1>0, <2>1, <3>2, <4>1 DEF OrderRow, Whole
      <3> QED
        BY <1>4, <3>1, <3>2 DEF RefundRevert, RefundUntouched
    <2> QED
      BY <1>b, <1>n, <2>1, <2>3, <2>4
  <1>5. CASE VendorCancel(r)
    <2>0. j.pc = "calling" /\ order' = order /\ coins' = coins
      BY <1>5 DEF VendorCancel, accounts
    <2>1. CASE Answered(r, "rejected") /\ pay' = pay
      <3>1. PICK job : job = [j EXCEPT !.pc = "answered", !.reply = "rejected"]
        OBVIOUS
      <3>2. refund' = [refund EXCEPT ![r] = job] /\ \A x : Share(job, x) = Share(j, x)
        BY <1>0, <2>0, <2>1, <3>1 DEF Answered, Share, Outstanding, RefundJob
      <3> QED
        BY <1>a, <2>0, <2>1, <3>2
    <2>2. CASE Answered(r, "DONE") /\ VendorCancels(r) /\ CancelAmount(r) = refund[r].want
      BY <2>0, <2>2, CancelSettles
    <2> QED
      BY <1>5, <2>1, <2>2, CancelIsExact
  <1> QED
    BY <1>1, <1>2, <1>3, <1>4, <1>5 DEF RefundStep

\* Every step, when nobody pays by bank transfer and no process dies.
LEMMA EverySettles ==
  ASSUME Settling, SettleInv, IInv', [Next]_vars, NEW o \in Orders
  PROVE  SettleMoves(o)
  <1>1. CASE UNCHANGED vars
    BY <1>1, StillSettles DEF vars
  <1>2. ~Crash /\ \A q \in Orders : ~ManualConfirm(q)
    BY DEF Crash, Fault, ManualConfirm, Settling
  <1>3. CASE Next
    BY <1>2, <1>3, ConfirmSettles, RefundSettles, ReconcileSettles, OthersSettle DEF Next
  <1> QED
    BY <1>1, <1>3

\* Nobody but a refund takes a part of an order or has one cancelled.
NothingTaken ==
    refund' = refund /\ cancels' = cancels
    /\ \A o \in Orders : order'[o].refunded = order[o].refunded
LEMMA OthersTakeNothing ==
  ASSUME Settling, IInv, [Next]_vars, \A r \in Refunds : ~RefundStep(r)
  PROVE  NothingTaken
  <1>0. order \in [Orders -> OrderRow]
    BY DEF IInv, TypeOK
  <1>a. ASSUME NEW q \in Orders, NEW provider, NEW ref, Grant(q, provider, ref), NEW o \in Orders
        PROVE  order'[o].refunded = order[o].refunded
    BY <1>0, <1>a DEF Grant, OrderRow
  <1>1. CASE UNCHANGED vars
    BY <1>1 DEF vars, NothingTaken
  <1>2. ASSUME NEW c \in Confirms, ConfirmStep(c) PROVE NothingTaken
    <2>1. refund' = refund /\ cancels' = cancels
      BY <1>2 DEF ConfirmStep, ConfirmBegin, ConfirmRejected, ConfirmUnknown, ConfirmResolve,
         ConfirmPending, ConfirmApply, VendorConfirm, vendor
    <2>2. CASE ConfirmApply(c)
      <3>1. confirm[c].key \in Keys => KeyOrder[confirm[c].key] \in Orders
        BY InstanceAssumption
      <3> QED
        BY <1>a, <2>1, <2>2, <3>1 DEF ConfirmApply, NothingTaken, IInv, ConfirmKeyed, accounts
    <2> QED
      BY <1>2, <2>1, <2>2 DEF ConfirmStep, ConfirmBegin, ConfirmRejected, ConfirmUnknown,
         ConfirmResolve, ConfirmPending, VendorConfirm, accounts, NothingTaken
  <1>3. ASSUME NEW q \in Orders, ReconcileWork(q) PROVE NothingTaken
    <2>1. refund' = refund /\ cancels' = cancels
      BY <1>3 DEF ReconcileWork, ReconcileFetch, ReconcileGrant, ReconcileClaw,
         ReconcileConsistent, Finish, vendor
    <2>2. CASE ReconcileGrant(q)
      BY <1>a, <2>1, <2>2 DEF ReconcileGrant, NothingTaken, accounts
    <2>3. CASE ReconcileClaw(q)
      BY <1>0, <2>1, <2>3 DEF ReconcileClaw, NothingTaken, OrderRow
    <2> QED
      BY <1>3, <2>1, <2>2, <2>3 DEF ReconcileWork, ReconcileFetch, ReconcileConsistent,
         accounts, NothingTaken
  <1>4. ASSUME NEW q \in Orders, CancelOrder(q) PROVE NothingTaken
    BY <1>0, <1>4 DEF CancelOrder, NothingTaken, OrderRow, vendor
  <1>5. CASE PurgeBuyers
    <2>1. \A o \in Orders : order'[o] = order[o] \/ order'[o] = [order[o] EXCEPT !.buyer = FALSE]
      BY <1>5 DEF PurgeBuyers
    <2> QED
      BY <1>0, <1>5, <2>1 DEF PurgeBuyers, NothingTaken, OrderRow, vendor
  <1>6. CASE \/ \E q \in Orders : AdminReconcile(q)
             \/ \E i \in Keys \cup Orders : SchedulerReconcile(i)
             \/ \E s \in Signal : WebhookReconcile(s) \/ LoseWebhook(s)
             \/ \E k \in Keys : PaymentStep(k)
             \/ \E u \in Users : Spend(u) \/ Withdraw(u)
    <2>1. order' = order /\ refund' = refund /\ cancels' = cancels
      BY <1>6 DEF AdminReconcile, SchedulerReconcile, WebhookReconcile, LoseWebhook,
         PaymentStep, OpenWindow, Deposit, VendorRevoke, Expire, Spend, Withdraw, accounts, vendor
    <2> QED
      BY <2>1 DEF NothingTaken
  <1>7. ~Crash /\ \A q \in Orders : ~ManualConfirm(q)
    BY DEF Crash, Fault, ManualConfirm, Settling
  <1> QED
    BY <1>1, <1>2, <1>3, <1>4, <1>5, <1>6, <1>7 DEF Next

\* What the parts are made of.
LEMMA PartTypes ==
  ASSUME IInv, NEW r \in Refunds
  PROVE  /\ refund[r].prev \in Nat /\ refund[r].want \in Nat /\ Upto(refund[r]) \in Nat
         /\ Taken(refund[r]) => /\ refund[r].order \in Orders
                                /\ refund[r].prev < Upto(refund[r])
         /\ \A o \in Orders : order[o].refunded \in Nat
  <1>1. refund[r] \in RefundJob /\ order \in [Orders -> OrderRow]
    BY DEF IInv, TypeOK
  <1>2. refund[r].pc # "idle" => refund[r].order \in Orders /\ refund[r].want > 0
    BY DEF IInv, RefundFits
  <1> QED
    BY <1>1, <1>2 DEF RefundJob, Upto, Taken, OrderRow

\* A refund that is over, or answered, holds no part any more: what the vendor cancelled
\* is that part, and what is given back is the last part of the order.
LEMMA PartDropped ==
  ASSUME IInv, PartsApart, NEW r \in Refunds, OnlyAt(r, Refunds, refund, refund'),
         ~Taken(refund'[r]),
         \A o \in Orders : \A n \in 1..Amount[o] :
            Canceled(o, n)' => \/ Canceled(o, n)
                               \/ /\ o = refund[r].order /\ n = Upto(refund[r])
                                  /\ Taken(refund[r]) /\ order' = order,
         \A o \in Orders :
            \/ order'[o].refunded = order[o].refunded
            \/ /\ o = refund[r].order /\ Taken(refund[r])
               /\ order[o].refunded = Upto(refund[r]) /\ order'[o].refunded = refund[r].prev
  PROVE  PartsApart'
  <1>0. \A s, t \in Refunds : Apart(s, t)
    BY DEF PartsApart
  <1>1. ASSUME NEW s \in Refunds, NEW t \in Refunds PROVE Apart(s, t)'
    <2>1. CASE s = r
      BY <2>1 DEF Apart
    <2>2. CASE s # r
      <3>1. refund'[s] = refund[s] /\ (t # r => refund'[t] = refund[t])
        BY <2>2 DEF OnlyAt
      <3>2. Taken(refund[s]) => Upto(refund[s]) <= order'[refund[s].order].refunded
        <4> SUFFICES ASSUME Taken(refund[s])
                     PROVE  Upto(refund[s]) <= order'[refund[s].order].refunded
          OBVIOUS
        <4>1. Apart(s, s) /\ Apart(s, r) /\ Apart(r, s)
          BY <1>0
        <4>2. /\ refund[s].order \in Orders
              /\ refund[s].prev \in Nat /\ Upto(refund[s]) \in Nat
              /\ refund[s].prev < Upto(refund[s])
              /\ refund[r].prev \in Nat /\ Upto(refund[r]) \in Nat
          BY PartTypes
        <4> QED
          BY <2>2, <4>1, <4>2 DEF Apart
      <3>3. /\ t # s /\ refund'[s].order = refund'[t].order
            /\ Taken(refund'[s]) /\ Taken(refund'[t])
            => Upto(refund'[s]) <= refund'[t].prev \/ Upto(refund'[t]) <= refund'[s].prev
        BY <1>0, <3>1 DEF Apart
      <3> QED
        BY <3>1, <3>2, <3>3 DEF Apart
    <2> QED
      BY <2>1, <2>2
  <1>2. ASSUME NEW o \in Orders PROVE CancelsApart(o)'
    <2> SUFFICES ASSUME NEW n \in 1..Amount[o], Canceled(o, n)'
                 PROVE  /\ n <= order'[o].refunded
                        /\ \A s \in Refunds : refund'[s].order = o /\ Taken(refund'[s]) =>
                              n <= refund'[s].prev \/ Upto(refund'[s]) < n
      BY DEF CancelsApart
    <2>0. /\ n \in Nat /\ CancelsApart(o) /\ order[o].refunded \in Nat
          /\ refund[r].prev \in Nat /\ Upto(refund[r]) \in Nat
      BY PartTypes, OwnerType DEF PartsApart
    <2>1. CASE Canceled(o, n)
      <3>1. n <= order'[o].refunded
        BY <2>0, <2>1 DEF CancelsApart
      <3>2. ASSUME NEW s \in Refunds, refund'[s].order = o, Taken(refund'[s])
            PROVE  n <= refund'[s].prev \/ Upto(refund'[s]) < n
        <4>1. refund'[s] = refund[s]
          BY <3>2 DEF OnlyAt
        <4> QED
          BY <2>0, <2>1, <3>2, <4>1 DEF CancelsApart
      <3> QED
        BY <3>1, <3>2
    <2>2. CASE /\ o = refund[r].order /\ n = Upto(refund[r])
               /\ Taken(refund[r]) /\ order' = order
      <3>1. n <= order'[o].refunded
        BY <1>0, <2>2 DEF Apart
      <3>2. ASSUME NEW s \in Refunds, refund'[s].order = o, Taken(refund'[s])
            PROVE  n <= refund'[s].prev \/ Upto(refund'[s]) < n
        <4>1. s # r /\ refund'[s] = refund[s]
          BY <3>2 DEF OnlyAt
        <4>2. Upto(refund[r]) <= refund[s].prev \/ Upto(refund[s]) <= refund[r].prev
          BY <1>0, <2>2, <3>2, <4>1 DEF Apart
        <4>3. refund[r].prev < n /\ Upto(refund[s]) \in Nat
          BY <2>2, PartTypes
        <4> QED
          BY <2>0, <2>2, <4>1, <4>2, <4>3
      <3> QED
        BY <3>1, <3>2
    <2> QED
      BY <2>1, <2>2
  <1> QED
    BY <1>1, <1>2 DEF PartsApart

\* A refund takes the next part of its order.
LEMMA PartTaken ==
  ASSUME IInv, PartsApart, NEW r \in Refunds, OnlyAt(r, Refunds, refund, refund'),
         NEW q \in Orders, refund'[r].order = q, refund'[r].prev = order[q].refunded,
         Upto(refund'[r]) = order'[q].refunded, order'[q].refunded \in Nat,
         order[q].refunded <= order'[q].refunded,
         \A o \in Orders : o # q => order'[o].refunded = order[o].refunded,
         cancels' = cancels
  PROVE  PartsApart'
  <1>0. /\ \A s, t \in Refunds : Apart(s, t)
        /\ \A o \in Orders : order[o].refunded \in Nat
        /\ \A s \in Refunds : s # r => refund'[s] = refund[s]
    BY PartTypes DEF PartsApart, OnlyAt
  <1>1. ASSUME NEW s \in Refunds, s # r, Taken(refund[s])
        PROVE  /\ refund[s].order \in Orders /\ Upto(refund[s]) \in Nat
               /\ Upto(refund[s]) <= order[refund[s].order].refunded
               /\ Upto(refund[s]) <= order'[refund[s].order].refunded
    <2>1. Apart(s, s) /\ refund[s].order \in Orders /\ Upto(refund[s]) \in Nat
      BY <1>0, <1>1, PartTypes
    <2>2. Upto(refund[s]) <= order[refund[s].order].refunded
      BY <1>1, <2>1 DEF Apart
    <2> QED
      BY <1>0, <2>1, <2>2
  <1>2. ASSUME NEW s \in Refunds, NEW t \in Refunds PROVE Apart(s, t)'
    <2>1. Taken(refund'[s]) => Upto(refund'[s]) <= order'[refund'[s].order].refunded
      BY <1>0, <1>1
    <2>2. /\ t # s /\ refund'[s].order = refund'[t].order
          /\ Taken(refund'[s]) /\ Taken(refund'[t])
          => Upto(refund'[s]) <= refund'[t].prev \/ Upto(refund'[t]) <= refund'[s].prev
      <3>1. CASE s # r /\ t # r
        BY <1>0, <3>1 DEF Apart
      <3>2. CASE s = r /\ t # r
        BY <1>0, <1>1, <3>2
      <3>3. CASE s # r /\ t = r
        BY <1>0, <1>1, <3>3
      <3> QED
        BY <3>1, <3>2, <3>3
    <2> QED
      BY <2>1, <2>2 DEF Apart
  <1>3. ASSUME NEW o \in Orders PROVE CancelsApart(o)'
    <2> SUFFICES ASSUME NEW n \in 1..Amount[o], Canceled(o, n)
                 PROVE  /\ n <= order'[o].refunded
                        /\ \A s \in Refunds : refund'[s].order = o /\ Taken(refund'[s]) =>
                              n <= refund'[s].prev \/ Upto(refund'[s]) < n
      BY DEF CancelsApart, Canceled
    <2>0. /\ n \in Nat /\ CancelsApart(o) /\ n <= order[o].refunded
      BY OwnerType DEF PartsApart, CancelsApart
    <2>1. n <= order'[o].refunded
      BY <1>0, <2>0
    <2>2. ASSUME NEW s \in Refunds, refund'[s].order = o, Taken(refund'[s])
          PROVE  n <= refund'[s].prev \/ Upto(refund'[s]) < n
      <3>1. CASE s = r
        BY <2>0, <2>2, <3>1
      <3>2. CASE s # r
        BY <1>0, <2>0, <2>2, <3>2 DEF CancelsApart
      <3> QED
        BY <3>1, <3>2
    <2> QED
      BY <2>1, <2>2
  <1> QED
    BY <1>2, <1>3 DEF PartsApart

\* A refund keeps the part it has, and no other is cancelled.
SamePart(j, l) == j.order = l.order /\ j.prev = l.prev /\ j.want = l.want
LEMMA PartKept ==
  ASSUME IInv, PartsApart,
         \A r \in Refunds : Taken(refund'[r]) => Taken(refund[r]) /\ SamePart(refund'[r], refund[r]),
         \A o \in Orders : order'[o].refunded = order[o].refunded,
         \A o \in Orders : \A n \in 1..Amount[o] : Canceled(o, n)' => Canceled(o, n)
  PROVE  PartsApart'
  <1>1. ASSUME NEW s \in Refunds, NEW t \in Refunds PROVE Apart(s, t)'
    <2>1. Apart(s, t) /\ (Taken(refund[s]) => refund[s].order \in Orders)
      BY PartTypes DEF PartsApart
    <2> QED
      BY <2>1 DEF Apart, SamePart, Upto
  <1>2. ASSUME NEW o \in Orders PROVE CancelsApart(o)'
    <2>1. CancelsApart(o)
      BY DEF PartsApart
    <2> QED
      BY <2>1 DEF CancelsApart, SamePart, Upto
  <1> QED
    BY <1>1, <1>2 DEF PartsApart

\* The steps of refunds keep the parts apart.
LEMMA RefundParts ==
  ASSUME Settling, SettleInv, IInv', NEW r \in Refunds, RefundStep(r)
  PROVE  PartsApart'
  <1> PICK j, q : j = refund[r] /\ q = j.order
    OBVIOUS
  <1>0. /\ IInv /\ PartsApart /\ order \in [Orders -> OrderRow] /\ j \in RefundJob
        /\ refund \in [Refunds -> RefundJob]
        /\ cancels \in [CancelKeys -> {"none", "DONE", "rejected"}]
        /\ j.pc # "idle" => /\ q \in Orders /\ j.want > 0 /\ j.prev + j.want <= Amount[q]
                            /\ j.key \in Keys
        /\ order' \in [Orders -> OrderRow] /\ pay \in [Keys -> Payment]
    BY DEF SettleInv, MoneyInv, IInv, TypeOK, RefundFits
  <1>a. ASSUME NEW job, refund' = [refund EXCEPT ![r] = job]
        PROVE  OnlyAt(r, Refunds, refund, refund') /\ refund'[r] = job
    BY <1>0, <1>a DEF OnlyAt
  <1>b. ASSUME NEW job, refund' = [refund EXCEPT ![r] = job], ~Taken(job),
               order' = order, cancels' = cancels
        PROVE  PartsApart'
    <2>1. \A o \in Orders : \A n \in 1..Amount[o] : Canceled(o, n)' => Canceled(o, n)
      BY <1>b DEF Canceled
    <2> QED
      BY <1>0, <1>a, <1>b, <2>1, PartDropped
  <1>n. ~Taken(NoRefund)
    BY DEF Taken, NoRefund
  <1>1. ASSUME NEW p \in Orders, NEW want \in 1..Amount[p], RefundBegin(r, p, want)
        PROVE  PartsApart'
    <2>1. PICK job : /\ job = [pc |-> "read", order |-> p, key |-> order[p].ref, want |-> want,
                               prev |-> order[p].refunded, reply |-> "none"]
                     /\ refund' = [refund EXCEPT ![r] = job]
      BY <1>1 DEF RefundBegin
    <2>2. ~Taken(job)
      BY <2>1 DEF Taken, Outstanding
    <2> QED
      BY <1>1, <1>b, <2>1, <2>2 DEF RefundBegin, accounts, vendor
  <1>2. CASE RefundCommit(r)
    <2>1. CASE refund' = [refund EXCEPT ![r] = NoRefund] /\ UNCHANGED accounts
      BY <1>2, <1>b, <1>n, <2>1 DEF RefundCommit, accounts, vendor
    <2>2. CASE /\ order[q].refunded = j.prev
               /\ order' = [order EXCEPT
                              ![q].refunded = j.prev + j.want,
                              ![q].status = IF j.prev + j.want >= Amount[q]
                                            THEN "refunded" ELSE @]
               /\ refund' = [refund EXCEPT ![r].pc = "calling"]
      <3>1. PICK job : job = [j EXCEPT !.pc = "calling"]
        OBVIOUS
      <3>2. /\ refund' = [refund EXCEPT ![r] = job] /\ job.order = q /\ q \in Orders
            /\ job.prev = j.prev /\ job.want = j.want /\ j.want \in Nat /\ j.prev \in Nat
        BY <1>0, <1>2, <2>2, <3>1 DEF RefundJob, RefundCommit
      <3>3. /\ order'[q].refunded = j.prev + j.want
            /\ \A o \in Orders : o # q => order'[o].refunded = order[o].refunded
        BY <1>0, <2>2, <3>2 DEF OrderRow
      <3>4. Upto(job) = order'[q].refunded /\ order'[q].refunded \in Nat
            /\ order[q].refunded <= order'[q].refunded
        BY <2>2, <3>2, <3>3 DEF Upto
      <3>5. cancels' = cancels
        BY <1>2 DEF RefundCommit, vendor
      <3>6. refund'[r] = job /\ OnlyAt(r, Refunds, refund, refund')
        BY <1>a, <3>2
      <3> QED
        <4>1. refund'[r].order = q /\ refund'[r].prev = order[q].refunded
              /\ Upto(refund'[r]) = order'[q].refunded
          BY <2>2, <3>2, <3>4, <3>6
        <4> QED
          BY <1>0, <3>2, <3>3, <3>4, <3>5, <3>6, <4>1, PartTaken
    <2> QED
      BY <1>2, <2>1, <2>2 DEF RefundCommit
  <1>3. CASE RefundDone(r)
    BY <1>3, <1>b, <1>n DEF RefundDone, accounts, vendor
  <1>4. CASE RefundRevert(r)
    <2>1. /\ j.pc = "answered" /\ j.reply # "DONE" /\ q \in Orders /\ j.want > 0
          /\ refund' = [refund EXCEPT ![r] = NoRefund] /\ cancels' = cancels
      BY <1>0, <1>4 DEF RefundRevert, vendor, people
    <2>2. Taken(j)
      BY <2>1 DEF Taken, Outstanding
    <2>3. CASE order' = order
      BY <1>b, <1>n, <2>1, <2>3
    <2>4. CASE /\ order[q].refunded = j.prev + j.want
               /\ order' = [order EXCEPT ![q].refunded = j.prev,
                                         ![q].status = IF j.prev <= 0 THEN "paid" ELSE @]
      <3>1. \A o \in Orders :
               \/ order'[o].refunded = order[o].refunded
               \/ /\ o = q /\ order[o].refunded = Upto(j) /\ order'[o].refunded = j.prev
        BY <1>0, <2>4 DEF OrderRow, Upto
      <3>2. \A o \in Orders : \A n \in 1..Amount[o] : Canceled(o, n)' => Canceled(o, n)
        BY <2>1 DEF Canceled
      <3>3. refund'[r] = NoRefund /\ OnlyAt(r, Refunds, refund, refund')
        BY <1>a, <2>1
      <3> QED
        BY <1>0, <1>n, <2>2, <3>1, <3>2, <3>3, PartDropped
    <2> QED
      BY <1>4, <2>3, <2>4 DEF RefundRevert, RefundUntouched
  <1>5. CASE VendorCancel(r)
    <2>0. /\ j.pc = "calling" /\ order' = order /\ q \in Orders /\ Taken(j)
          /\ CancelId(r) = <<q, Upto(j)>>
      BY <1>0, <1>5 DEF VendorCancel, accounts, Taken, Outstanding, CancelId, Upto
    <2>c. ASSUME NEW reply, Recorded(r, reply) \/ cancels' = cancels,
                 NEW o \in Orders, NEW n \in 1..Amount[o], Canceled(o, n)'
          PROVE  Canceled(o, n) \/ (o = q /\ n = Upto(j) /\ reply = "DONE")
      <3>1. <<o, n>> \in CancelKeys
        BY DEF CancelKeys
      <3>2. CASE <<o, n>> = <<q, Upto(j)>>
        BY <1>0, <2>0, <2>c, <3>1, <3>2 DEF Recorded, Canceled
      <3>3. CASE <<o, n>> # <<q, Upto(j)>>
        BY <1>0, <2>0, <2>c, <3>1, <3>3 DEF Recorded, Canceled
      <3> QED
        BY <3>2, <3>3
    <2>1. CASE Answered(r, "rejected") /\ pay' = pay
      <3>1. PICK job : job = [j EXCEPT !.pc = "answered", !.reply = "rejected"]
        OBVIOUS
      <3>2. refund' = [refund EXCEPT ![r] = job] /\ SamePart(job, j)
        BY <1>0, <2>1, <3>1 DEF Answered, RefundJob, SamePart
      <3>3. \A s \in Refunds :
               Taken(refund'[s]) => Taken(refund[s]) /\ SamePart(refund'[s], refund[s])
        <4>1. refund'[r] = job /\ \A s \in Refunds : s # r => refund'[s] = refund[s]
          BY <1>a, <3>2 DEF OnlyAt
        <4> QED
          BY <2>0, <3>2, <4>1 DEF SamePart
      <3>4. Recorded(r, "rejected") \/ cancels' = cancels
        <4>1. "rejected" # "DONE" /\ refund'[r].reply = "rejected"
          BY <1>a, <1>0, <3>1, <3>2 DEF RefundJob
        <4>2. ~Fault("unknown")
          BY DEF Settling, Dependable, Fault
        <4>3. ~VendorCancels(r)
          <5>1. PICK k, n : k = j.key /\ n = CancelAmount(r)
            OBVIOUS
          <5>2. k \in Keys /\ pay \in [Keys -> Payment]
            BY <1>0, <2>0, <5>1
          <5> QED
            BY <2>1, <5>1, <5>2 DEF VendorCancels, Payment
        <4> QED
          BY <1>5, <4>2, <4>3 DEF VendorCancel, vendor
      <3>5. \A o \in Orders : \A n \in 1..Amount[o] : Canceled(o, n)' => Canceled(o, n)
        BY <2>c, <3>4
      <3> QED
        BY <1>0, <2>0, <3>3, <3>5, PartKept
    <2>2. CASE Answered(r, "DONE") /\ VendorCancels(r)
      <3>1. PICK job : job = [j EXCEPT !.pc = "answered", !.reply = "DONE"]
        OBVIOUS
      <3>2. refund' = [refund EXCEPT ![r] = job] /\ job.pc = "answered" /\ job.reply = "DONE"
        BY <1>0, <2>2, <3>1 DEF Answered, RefundJob
      <3>5. ~Taken(job)
        BY <3>2 DEF Taken, Outstanding
      <3>3. refund'[r] = job /\ OnlyAt(r, Refunds, refund, refund')
        BY <1>a, <3>2
      <3>4. \A o \in Orders : \A n \in 1..Amount[o] :
               Canceled(o, n)' => Canceled(o, n) \/ (o = q /\ n = Upto(j))
        BY <2>2, <2>c DEF VendorCancels
      <3> QED
        BY <1>0, <2>0, <3>3, <3>4, <3>5, PartDropped
    <2> QED
      BY <1>5, <2>1, <2>2, CancelIsExact
  <1> QED
    BY <1>1, <1>2, <1>3, <1>4, <1>5 DEF RefundStep

\* Refunds under way are of orders that have their payment, and keep their order.
LEMMA RefundsStayNamed ==
  ASSUME Settling, SettleInv, [Next]_vars,
         \A o \in Orders : order[o].ref # NoKey => order'[o].ref # NoKey, NEW s \in Refunds
  PROVE  RefundNamed(s)'
  <1>0. /\ RefundNamed(s) /\ refund \in [Refunds -> RefundJob]
        /\ refund[s].pc # "idle" => refund[s].order \in Orders
    BY DEF SettleInv, MoneyInv, IInv, TypeOK, RefundFits
  <1>a. ASSUME refund'[s].pc # "idle" => /\ refund[s].pc # "idle"
                                         /\ refund'[s].order = refund[s].order
        PROVE  RefundNamed(s)'
    BY <1>0, <1>a DEF RefundNamed
  <1>1. CASE \A r \in Refunds : ~RefundStep(r)
    BY <1>1, <1>a, OthersTakeNothing DEF NothingTaken, SettleInv, MoneyInv
  <1>2. ASSUME NEW r \in Refunds, RefundStep(r) PROVE RefundNamed(s)'
    <2>1. ASSUME NEW p \in Orders, NEW want \in 1..Amount[p], RefundBegin(r, p, want)
          PROVE  RefundNamed(s)'
      <3>1. order[p].ref # NoKey /\ order' = order
        BY <2>1 DEF RefundBegin, accounts
      <3>2. s # r => refund'[s] = refund[s]
        BY <1>0, <2>1 DEF RefundBegin
      <3>3. refund'[r].order = p
        BY <1>0, <2>1 DEF RefundBegin
      <3> QED
        BY <1>a, <3>1, <3>2, <3>3 DEF RefundNamed
    <2>2. CASE RefundCommit(r) \/ RefundDone(r) \/ RefundRevert(r) \/ VendorCancel(r)
      <3>1. s # r => refund'[s] = refund[s]
        BY <1>0, <2>2 DEF RefundCommit, RefundDone, RefundRevert, VendorCancel, Answered
      <3>2. refund[r].pc # "idle"
        BY <2>2 DEF RefundCommit, RefundDone, RefundRevert, VendorCancel
      <3>3. refund'[r] = NoRefund \/ refund'[r].order = refund[r].order
        BY <1>0, <2>2 DEF RefundCommit, RefundDone, RefundRevert, VendorCancel, Answered, RefundJob
      <3> QED
        BY <1>a, <3>1, <3>2, <3>3 DEF NoRefund
    <2> QED
      BY <1>2, <2>1, <2>2 DEF RefundStep
  <1> QED
    BY <1>1, <1>2

\* A payment of which something is cancelled is not whole.
LEMMA PaymentsStayParted ==
  ASSUME Settling, SettleInv, [Next]_vars, NEW k \in Keys
  PROVE  Parted(k)'
  <1>0. /\ pay \in [Keys -> Payment] /\ Parted(k) /\ MoneyInv
        /\ \A l \in Keys : /\ BalanceFine(pay[l], Amount[KeyOrder[l]])
                           /\ pay[l].bal \in Nat /\ Amount[KeyOrder[l]] \in Nat
    BY MoneyTypes, OwnerType DEF SettleInv, MoneyInv, PaymentsFine
  <1>a. ASSUME pay'[k] = pay[k] \/ pay'[k].st # "PARTIAL_CANCELED" PROVE Parted(k)'
    BY <1>0, <1>a DEF Parted
  <1>1. ASSUME NEW c \in Confirms, VendorConfirm(c) PROVE Parted(k)'
    <2> PICK m : m = confirm[c].key
      OBVIOUS
    <2>1. ASSUME NEW a \in ConfirmAnswers(m)
          PROVE  a.pay = pay[m] \/ a.pay.st # "PARTIAL_CANCELED"
      BY <2>1 DEF ConfirmAnswers, Approval, Settling, Dependable
    <2>2. \/ pay' = pay
          \/ \E a \in ConfirmAnswers(m) : pay' = [pay EXCEPT ![m] = a.pay]
          \/ pay' = [pay EXCEPT ![m].st = "ABORTED", ![m].first = "rejected"]
      BY <1>1 DEF VendorConfirm
    <2>3. ASSUME pay' = [pay EXCEPT ![m].st = "ABORTED", ![m].first = "rejected"]
          PROVE  pay'[k] = pay[k] \/ pay'[k].st # "PARTIAL_CANCELED"
      BY <1>0, <2>3 DEF Payment
    <2>4. ASSUME NEW a \in ConfirmAnswers(m), pay' = [pay EXCEPT ![m] = a.pay]
          PROVE  pay'[k] = pay[k] \/ pay'[k].st # "PARTIAL_CANCELED"
      BY <1>0, <2>1, <2>4
    <2> QED
      BY <1>a, <2>2, <2>3, <2>4
  <1>2. ASSUME NEW r \in Refunds, VendorCancel(r) PROVE Parted(k)'
    <2>1. CASE pay' = pay
      BY <1>a, <2>1
    <2>2. CASE VendorCancels(r)
      <3> PICK m, n : m = refund[r].key /\ n = CancelAmount(r)
        OBVIOUS
      <3>1. /\ n \in 1..pay[m].bal
            /\ pay' = [pay EXCEPT ![m].bal = @ - n,
                          ![m].st = IF n = pay[m].bal THEN "CANCELED" ELSE "PARTIAL_CANCELED"]
        BY <2>2 DEF VendorCancels
      <3>2. CASE k # m
        BY <1>0, <1>a, <3>1, <3>2
      <3>3. CASE k = m
        <4>1. pay'[k].bal = pay[k].bal - n
          BY <1>0, <3>1, <3>3 DEF Payment
        <4>2. pay[k].bal <= Amount[KeyOrder[k]] /\ n >= 1 /\ n \in Int
          BY <1>0, <3>1, <3>3 DEF BalanceFine
        <4>3. pay'[k].bal < Amount[KeyOrder[k]]
          BY <1>0, <4>1, <4>2
        <4> QED
          BY <4>3 DEF Parted
      <3> QED
        BY <3>2, <3>3
    <2> QED
      BY <1>2, <2>1, <2>2 DEF VendorCancel, vendor
  <1>3. ASSUME NEW m \in Keys, PaymentStep(m) PROVE Parted(k)'
    <2>1. pay'[k] = pay[k] \/ pay'[k].st # "PARTIAL_CANCELED"
      BY <1>0, <1>3 DEF PaymentStep, OpenWindow, Deposit, VendorRevoke, Expire, Payment
    <2> QED
      BY <1>a, <2>1
  <1>4. CASE pay' = pay
    BY <1>a, <1>4
  <1>5. \/ pay' = pay
        \/ \E c \in Confirms : VendorConfirm(c)
        \/ \E r \in Refunds : VendorCancel(r)
        \/ \E m \in Keys : PaymentStep(m)
    <2>1. CASE UNCHANGED vars
      BY <2>1 DEF vars
    <2>2. ASSUME NEW c \in Confirms, ConfirmStep(c) PROVE pay' = pay \/ VendorConfirm(c)
      BY <2>2 DEF ConfirmStep, ConfirmBegin, ConfirmRejected, ConfirmUnknown, ConfirmResolve,
         ConfirmPending, ConfirmApply, vendor
    <2>3. ASSUME NEW r \in Refunds, RefundStep(r) PROVE pay' = pay \/ VendorCancel(r)
      BY <2>3 DEF RefundStep, RefundBegin, RefundCommit, RefundDone, RefundRevert, vendor
    <2>4. CASE \/ \E q \in Orders : \/ ReconcileWork(q) \/ AdminReconcile(q)
                                    \/ CancelOrder(q) \/ ManualConfirm(q)
               \/ \E i \in Keys \cup Orders : SchedulerReconcile(i)
               \/ \E x \in Signal : WebhookReconcile(x) \/ LoseWebhook(x)
               \/ \E u \in Users : Spend(u) \/ Withdraw(u)
               \/ PurgeBuyers \/ Crash
      BY <2>4 DEF ReconcileWork, ReconcileFetch, ReconcileGrant, ReconcileClaw,
         ReconcileConsistent, Finish, AdminReconcile, CancelOrder, ManualConfirm,
         SchedulerReconcile, WebhookReconcile, LoseWebhook, Spend, Withdraw, PurgeBuyers,
         Crash, vendor
    <2> QED
      BY <2>1, <2>2, <2>3, <2>4 DEF Next
  <1> QED
    BY <1>1, <1>2, <1>3, <1>4, <1>5

\* Nobody pays by bank transfer.
LEMMA NoTransfers ==
  ASSUME Settling, [Next]_vars
  PROVE  bank' = bank
  <1>1. CASE UNCHANGED vars
    BY <1>1 DEF vars
  <1>2. \A q \in Orders : ~ManualConfirm(q)
    BY DEF ManualConfirm, Settling
  <1>3. ASSUME NEW c \in Confirms, ConfirmStep(c) PROVE bank' = bank
    BY <1>3 DEF ConfirmStep, ConfirmBegin, ConfirmRejected, ConfirmUnknown, ConfirmResolve,
       ConfirmPending, ConfirmApply, VendorConfirm, people
  <1>4. ASSUME NEW r \in Refunds, RefundStep(r) PROVE bank' = bank
    BY <1>4 DEF RefundStep, RefundBegin, RefundCommit, RefundDone, RefundRevert, VendorCancel,
       people
  <1>5. CASE \/ \E q \in Orders : ReconcileWork(q) \/ AdminReconcile(q) \/ CancelOrder(q)
             \/ \E i \in Keys \cup Orders : SchedulerReconcile(i)
             \/ \E x \in Signal : WebhookReconcile(x) \/ LoseWebhook(x)
             \/ \E k \in Keys : PaymentStep(k)
             \/ \E u \in Users : Spend(u) \/ Withdraw(u)
             \/ PurgeBuyers \/ Crash
    BY <1>5 DEF ReconcileWork, ReconcileFetch, ReconcileGrant, ReconcileClaw,
       ReconcileConsistent, Finish, AdminReconcile, CancelOrder, SchedulerReconcile,
       WebhookReconcile, LoseWebhook, PaymentStep, OpenWindow, Deposit, VendorRevoke, Expire,
       Spend, Withdraw, PurgeBuyers, Crash, people
  <1> QED
    BY <1>1, <1>2, <1>3, <1>4, <1>5 DEF Next

\* Every step keeps the invariant.
LEMMA SettleNext ==
  ASSUME Settling, SettleInv, [Next]_vars
  PROVE  SettleInv'
  <1>1. MoneyInv'
    BY MoneyNext DEF SettleInv, Settling
  <1>2. IInv' /\ IInv /\ PartsApart
    BY <1>1 DEF MoneyInv, SettleInv
  <1>3. ASSUME NEW o \in Orders
        PROVE  Settled(o)' /\ Fresh(o)' /\ (order[o].ref # NoKey => order'[o].ref # NoKey)
    BY <1>2, <1>3, EverySettles, SettlesAfter DEF Settling
  <1>4. \A r \in Refunds : RefundNamed(r)'
    BY <1>3, RefundsStayNamed
  <1>5. PartsApart'
    <2>1. ASSUME NothingTaken PROVE PartsApart'
      BY <1>2, <2>1, PartKept DEF NothingTaken, SamePart, Canceled
    <2> QED
      BY <1>2, <2>1, RefundParts, OthersTakeNothing
  <1>6. ASSUME NEW o \in Orders PROVE JobNamed(o)' /\ bank'[o] = 0
    <2>1. bank'[o] = 0 /\ JobNamed(o) /\ Fresh(o)
      BY <1>6, NoTransfers DEF SettleInv
    <2>2. CASE UNCHANGED vars
      BY <2>1, <2>2 DEF vars, JobNamed
    <2>3. CASE Next
      <3>1. RowMoves(o)
        BY <1>2, <2>3, EveryRowMove
      <3> QED
        BY <1>3, <2>1, <3>1 DEF RowMoves, JobNamed, Fresh
    <2> QED
      BY <2>1, <2>2, <2>3
  <1> QED
    BY <1>1, <1>3, <1>4, <1>5, <1>6, PaymentsStayParted DEF SettleInv

LEMMA SettleInit == Init => SettleInv
  <1> SUFFICES ASSUME Init PROVE SettleInv
    OBVIOUS
  <1>1. MoneyInv
    BY MoneyInit
  <1>2. /\ \A k \in Keys : pay[k].st = "NONE"
        /\ \A o \in Orders : /\ order[o].ref = NoKey /\ order[o].refunded = 0
                             /\ order[o].status = "pending"
                             /\ coins[o] = 0 /\ bank[o] = 0 /\ reconcile[o].pc = "idle"
        /\ \A r \in Refunds : refund[r].pc = "idle"
        /\ \A i \in CancelKeys : cancels[i] = "none"
    BY DEF Init, NewOrder, NoReconcile, NoRefund
  <1>3. PartsApart
    <2>1. \A o \in Orders : \A n \in 1..Amount[o] : ~Canceled(o, n)
      BY <1>2 DEF Canceled, CancelKeys
    <2> QED
      BY <1>2, <2>1 DEF PartsApart, Apart, CancelsApart, Taken
  <1> QED
    BY <1>1, <1>2, <1>3 DEF SettleInv, Fresh, JobNamed, Settled, RefundNamed, Parted

\* When every customer pays for an order once and by card or virtual account, the vendor
\* answers each call and stands by its answer, and no process dies: an order that counts
\* as paid and has nothing under way has the coins of what the vendor still holds for it,
\* to the last won, whichever refunds crossed, were refused or were reverted.
THEOREM RefundsAreSettled == ASSUME Settling PROVE Spec => []RefundsSettle
  <1>1. SettleInv => RefundsSettle
    <2> SUFFICES ASSUME SettleInv, NEW o \in Orders, AtRest(o), order[o].status = "paid"
                 PROVE  coins[o] = Money(o)
      BY DEF RefundsSettle
    <2>1. /\ bank[o] = 0 /\ Fresh(o) /\ Settled(o) /\ MoneyInv
          /\ coins[o] \in Int /\ HeldIn(pay, o) \in Nat
      BY MoneyTypes DEF SettleInv, MoneyInv
    <2>2. OwedBy(refund, o) = 0
      <3>0. PICK f : f = [r \in Refunds |-> Share(refund[r], o)]
        OBVIOUS
      <3>1. \A r \in Refunds : f[r] = 0
        BY <3>0 DEF Share, AtRest
      <3>2. SumFunctionOnSet(f, Refunds) = 0
        BY <3>1, SumOfZeros, InstanceAssumption
      <3> QED
        BY <3>0, <3>2 DEF OwedBy
    <2>3. coins[o] + 0 = HeldIn(pay, o)
      BY <2>1, <2>2 DEF Fresh, Settled, Whole, Balanced
    <2>4. Money(o) = bank[o] + HeldIn(pay, o)
      BY DEF Money, HeldIn
    <2> QED
      BY <2>1, <2>3, <2>4
  <1>2. SettleInv /\ [Next]_vars => SettleInv'
    BY SettleNext
  <1> QED
    BY <1>1, <1>2, SettleInit, PTL DEF Spec


-----------------------------------------------------------------------------
(* Coins and money are exchanged fairly.                                   *)

\* A step of the program as one of the exchange, or as none.
FairStep == [Fair!Exchange]_<<coins, [o \in Orders |-> OwedBy(refund, o)],
                              [o \in Orders |-> Money(o)]>>

\* What the exchange keeps of one order changes, and of no other.
OnlyMoves(o, c, t, m) ==
    /\ coins'[o] = coins[o] + c
    /\ OwedBy(refund', o) = OwedBy(refund, o) + t
    /\ Money(o)' = Money(o) + m
    /\ \A q \in Orders : q # o => /\ coins'[q] = coins[q]
                                  /\ OwedBy(refund', q) = OwedBy(refund, q)
                                  /\ Money(q)' = Money(q)

\* That is a change as the exchange knows it.
LEMMA MovesAreChanges ==
  ASSUME IInv, IInv', NEW o \in Orders, NEW c, NEW t, NEW m, OnlyMoves(o, c, t, m)
  PROVE  Fair!Changes(o, c, t, m)
  <1>1. coins \in [Orders -> Int] /\ coins' \in [Orders -> Int]
    BY DEF IInv, TypeOK
  <1>2. coins' = [coins EXCEPT ![o] = @ + c]
    BY <1>1 DEF OnlyMoves
  <1>3. [q \in Orders |-> OwedBy(refund', q)]
          = [[q \in Orders |-> OwedBy(refund, q)] EXCEPT ![o] = @ + t]
    BY DEF OnlyMoves
  <1>4. [q \in Orders |-> Money(q)'] = [[q \in Orders |-> Money(q)] EXCEPT ![o] = @ + m]
    BY DEF OnlyMoves
  <1> QED
    BY <1>2, <1>3, <1>4 DEF Fair!Changes

\* Nothing that the exchange keeps changes.
LEMMA NothingMoves ==
  ASSUME coins' = coins,
         \A q \in Orders : OwedBy(refund', q) = OwedBy(refund, q) /\ Money(q)' = Money(q)
  PROVE  FairStep
  <1>1. [q \in Orders |-> OwedBy(refund', q)] = [q \in Orders |-> OwedBy(refund, q)]
    OBVIOUS
  <1>2. [q \in Orders |-> Money(q)'] = [q \in Orders |-> Money(q)]
    OBVIOUS
  <1> QED
    BY <1>1, <1>2 DEF FairStep

\* The money of an order is what came by bank transfer and what the vendor holds.
LEMMA MoneyIs ==
  ASSUME IInv, NEW o \in Orders
  PROVE  /\ Money(o) = bank[o] + HeldIn(pay, o) /\ Money(o)' = bank'[o] + HeldIn(pay', o)
         /\ Money(o) \in Nat /\ bank[o] \in Nat /\ HeldIn(pay, o) \in Nat
         /\ coins[o] \in Int /\ OwedBy(refund, o) \in Nat /\ Amount[o] \in Nat \ {0}
  <1>1. Money(o) = bank[o] + HeldIn(pay, o) /\ Money(o)' = bank'[o] + HeldIn(pay', o)
    BY DEF Money, HeldIn
  <1>2. /\ bank[o] \in Nat /\ HeldIn(pay, o) \in Nat /\ coins[o] \in Int
        /\ OwedBy(refund, o) \in Nat /\ Amount[o] \in Nat \ {0}
    BY MoneyTypes, InstanceAssumption
  <1> QED
    BY <1>1, <1>2

\* Steps that touch no account, no payment and no refund.
LEMMA StillIsFair ==
  ASSUME coins' = coins, bank' = bank, pay' = pay, refund' = refund
  PROVE  FairStep
  BY NothingMoves DEF Money

\* A grant for a payment that is whole: no coins were given for it.
LEMMA GrantIsFair ==
  ASSUME MoneyInv, IInv', NEW k \in Keys, NEW o \in Orders, o = KeyOrder[k],
         pay[k].st = "DONE", order[o].status = "pending", Grant(o, "toss", k),
         bank' = bank, pay' = pay, refund' = refund
  PROVE  FairStep
  <1>0. /\ IInv /\ AccountFine(o) /\ OrderFine(o) /\ PaymentsFine /\ k \in KeysOf(o)
        /\ order[o].ref \in Keys \cup {NoKey} /\ NoKey \notin Keys /\ PaysTyped(pay)
    BY MoneyTypes, TablesTyped DEF MoneyInv, AccountsFine, OrdersFine, KeysOf
  <1> PICK owed, held, n : owed = OwedBy(refund, o) /\ held = HeldIn(pay, o) /\ n = Amount[o]
    OBVIOUS
  <1>1. /\ owed \in Nat /\ held \in Nat /\ n \in Nat \ {0} /\ coins[o] \in Int
        /\ bank[o] \in Nat /\ Money(o) = bank[o] + held
    BY <1>0, MoneyIs
  <1>2. coins[o] + owed <= bank[o]
    <2>1. order[o].ref # k
      BY <1>0 DEF OrderFine
    <2> QED
      BY <1>0, <2>1 DEF AccountFine, Grantable
  <1>3. n <= held
    <2>1. pay[k].bal = n
      BY <1>0 DEF PaymentsFine, BalanceFine
    <2> QED
      BY <1>0, <2>1, HeldType
  <1>4. OnlyMoves(o, n, 0, 0)
    <2>1. /\ coins'[o] = coins[o] + n
          /\ \A q \in Orders : q # o => coins'[q] = coins[q]
      BY <1>0, MoneyTypes DEF Grant, Credit
    <2>2. \A q \in Orders : Money(q)' = Money(q)
      BY DEF Money
    <2> QED
      BY <1>1, <2>1, <2>2 DEF OnlyMoves
  <1>5. Fair!Receives(o)
    <2>1. coins[o] + owed + n <= Money(o)
      BY <1>1, <1>2, <1>3
    <2> QED
      BY <1>0, <1>4, <2>1, MovesAreChanges DEF Fair!Receives
  <1> QED
    BY <1>5 DEF FairStep, Fair!Exchange

\* A bank transfer, entered as the coins are given.
LEMMA TransferIsFair ==
  ASSUME IInv, IInv', NEW o \in Orders, ManualConfirm(o)
  PROVE  FairStep
  <1>1. /\ coins'[o] = coins[o] + Amount[o] /\ bank[o] = 0 /\ bank'[o] = Amount[o]
        /\ \A q \in Orders : q # o => coins'[q] = coins[q] /\ bank'[q] = bank[q]
        /\ pay' = pay /\ refund' = refund
    BY MoneyTypes DEF ManualConfirm, Grant, Credit, vendor
  <1>2. Money(o)' = Money(o) + Amount[o]
    BY <1>1, MoneyIs
  <1>3. \A q \in Orders : q # o => Money(q)' = Money(q)
    BY <1>1, MoneyIs
  <1>4. OnlyMoves(o, Amount[o], 0, Amount[o])
    BY <1>1, <1>2, <1>3, MoneyIs DEF OnlyMoves
  <1> QED
    BY <1>4, MovesAreChanges DEF FairStep, Fair!Exchange, Fair!Buys

\* A payment that held nothing holds the amount of its order, or still nothing.
LEMMA PaymentIsFair ==
  ASSUME MoneyInv, IInv', NEW k \in Keys, NEW p \in Payment, pay' = [pay EXCEPT ![k] = p],
         pay[k].bal = 0, p.bal \in {0, Amount[KeyOrder[k]]},
         coins' = coins, bank' = bank, refund' = refund
  PROVE  FairStep
  <1> PICK o : o = KeyOrder[k]
    OBVIOUS
  <1>0. /\ IInv /\ o \in Orders /\ k \in KeysOf(o) /\ pay \in [Keys -> Payment]
        /\ PaysTyped(pay) /\ PaysTyped(pay') /\ pay'[k] = p /\ OnlyAt(k, Keys, pay, pay')
    BY MoneyTypes, TablesTyped DEF MoneyInv, KeysOf, OnlyAt
  <1>1. \A q \in Orders : q # o => Money(q)' = Money(q)
    <2>1. ASSUME NEW q \in Orders, q # o PROVE HeldIn(pay', q) = HeldIn(pay, q)
      BY <1>0, <2>1, HeldChanges DEF KeysOf
    <2> QED
      BY <1>0, <2>1, MoneyIs
  <1>2. Money(o)' = Money(o) + p.bal
    <2>1. Replaced(HeldIn(pay', o), HeldIn(pay, o), pay[k].bal, pay'[k].bal)
      BY <1>0, HeldChanges
    <2>2. PICK n, held, more, in :
             n = p.bal /\ held = HeldIn(pay, o) /\ more = HeldIn(pay', o) /\ in = bank[o]
      OBVIOUS
    <2>3. n \in Nat /\ held \in Nat /\ in \in Nat /\ more = held - 0 + n
      BY <1>0, <2>1, <2>2, MoneyIs DEF Replaced, Payment
    <2>4. Money(o) = in + held /\ Money(o)' = in + more
      BY <1>0, <2>2, MoneyIs
    <2> QED
      BY <2>2, <2>3, <2>4
  <1>3. CASE p.bal = 0
    <2>1. \A q \in Orders : Money(q)' = Money(q)
      BY <1>0, <1>1, <1>2, <1>3, MoneyIs
    <2> QED
      BY <2>1, NothingMoves
  <1>4. CASE p.bal = Amount[o]
    <2>1. OnlyMoves(o, 0, 0, Amount[o])
      BY <1>0, <1>1, <1>2, <1>4, MoneyIs DEF OnlyMoves
    <2> QED
      BY <1>0, <2>1, MovesAreChanges DEF FairStep, Fair!Exchange, Fair!Pays
  <1> QED
    BY <1>3, <1>4

\* What a refund has taken is part of what is owed.
LEMMA RefundIsOwed ==
  ASSUME IInv, NEW r \in Refunds
  PROVE  /\ Outstanding(refund[r]) \in Nat
         /\ Outstanding(refund[r]) > 0 =>
              /\ refund[r].order \in Orders
              /\ Outstanding(refund[r]) <= Amount[refund[r].order]
              /\ Outstanding(refund[r]) <= OwedBy(refund, refund[r].order)
  <1> PICK j, o, n : j = refund[r] /\ o = j.order /\ n = Outstanding(j)
    OBVIOUS
  <1>1. j \in RefundJob /\ n \in Nat /\ JobsTyped(refund)
    BY DEF IInv, TypeOK, RefundJob, Outstanding, JobsTyped
  <1>2. ASSUME n > 0 PROVE o \in Orders /\ n <= Amount[o]
    <2>1. j.pc # "idle" /\ n = j.want /\ j.prev \in Nat
      BY <1>1, <1>2 DEF Outstanding, RefundJob
    <2>2. o \in Orders /\ j.prev + j.want <= Amount[o]
      BY <2>1 DEF IInv, RefundFits
    <2> QED
      BY <1>1, <2>1, <2>2, OwnerType
  <1>3. n <= OwedBy(refund, o)
    <2>1. PICK f : f = [s \in Refunds |-> Share(refund[s], o)]
      OBVIOUS
    <2>2. \A s \in Refunds : f[s] \in Nat
      BY <1>1, <2>1 DEF JobsTyped, Share, Outstanding, RefundJob
    <2>3. f[r] <= SumFunctionOnSet(f, Refunds)
      BY <2>2, SumIsAtLeast, InstanceAssumption
    <2>4. f[r] = n
      BY <2>1 DEF Share
    <2> QED
      BY <2>1, <2>3, <2>4 DEF OwedBy
  <1> QED
    BY <1>1, <1>2, <1>3

\* One refund goes on: what is owed of its order changes by what it has taken.
LEMMA RefundOwes ==
  ASSUME MoneyInv, IInv', NEW r \in Refunds, NEW job, refund' = [refund EXCEPT ![r] = job],
         job.order = refund[r].order \/ Outstanding(job) = 0, NEW d \in Int,
         Outstanding(job) = Outstanding(refund[r]) + d, NEW q
  PROVE  OwedBy(refund', q) = OwedBy(refund, q) + (IF q = refund[r].order THEN d ELSE 0)
  <1>0. JobsTyped(refund) /\ JobsTyped(refund') /\ OwedBy(refund, q) \in Nat
    BY TablesTyped, OwedType
  <1>1. Outstanding(refund[r]) \in Nat
    BY RefundIsOwed DEF MoneyInv
  <1>2. Replaced(OwedBy(refund', q), OwedBy(refund, q), Share(refund[r], q), Share(job, q))
    BY <1>0, OwedMoves
  <1>3. CASE q = refund[r].order
    <2>1. Share(refund[r], q) = Outstanding(refund[r]) /\ Share(job, q) = Outstanding(job)
      BY <1>3 DEF Share
    <2> QED
      BY <1>0, <1>1, <1>2, <1>3, <2>1 DEF Replaced
  <1>4. CASE q # refund[r].order
    <2>1. Share(refund[r], q) = 0 /\ Share(job, q) = 0
      BY <1>4 DEF Share
    <2> QED
      BY <1>0, <1>2, <1>4, <2>1 DEF Replaced
  <1> QED
    BY <1>3, <1>4

\* The same of what it has taken after a step.
LEMMA JobFitsAfter ==
  ASSUME IInv', NEW r \in Refunds, Outstanding(refund'[r]) > 0
  PROVE  Outstanding(refund'[r]) <= Amount[refund'[r].order]
  <1> PICK j, o : j = refund'[r] /\ o = j.order
    OBVIOUS
  <1>1. j \in RefundJob /\ j.want \in Nat /\ j.prev \in Nat
    BY DEF IInv, TypeOK, RefundJob
  <1>2. j.pc # "idle" /\ Outstanding(j) = j.want
    BY DEF Outstanding
  <1>3. o \in Orders /\ j.prev + j.want <= Amount[o]
    BY <1>2 DEF IInv, RefundFits
  <1> QED
    BY <1>1, <1>2, <1>3, OwnerType

\* A refund takes its coins, or gives them back.
LEMMA TakingIsFair ==
  ASSUME MoneyInv, IInv', NEW r \in Refunds, NEW job, refund' = [refund EXCEPT ![r] = job],
         job.order = refund[r].order \/ Outstanding(job) = 0, NEW d \in Int,
         Outstanding(job) = Outstanding(refund[r]) + d,
         NEW o \in Orders, o = refund[r].order, coins' = [coins EXCEPT ![o] = @ - d],
         bank' = bank, pay' = pay
  PROVE  FairStep
  <1>0. /\ IInv /\ coins \in [Orders -> Int] /\ refund'[r] = job
        /\ Outstanding(refund[r]) \in Nat /\ Outstanding(job) \in Nat
    <2>1. refund \in [Refunds -> RefundJob] /\ refund' \in [Refunds -> RefundJob] /\ IInv
      BY DEF MoneyInv, IInv, TypeOK
    <2>2. refund'[r] = job /\ job \in RefundJob
      BY <2>1
    <2> QED
      BY <2>1, <2>2, MoneyTypes DEF RefundJob, Outstanding
  <1>1. \A q \in Orders : Money(q)' = Money(q)
    BY DEF Money
  <1>2. ASSUME NEW q \in Orders
        PROVE  /\ q = o => OwedBy(refund', q) = OwedBy(refund, q) + d
               /\ q # o \/ d = 0 => OwedBy(refund', q) = OwedBy(refund, q)
               /\ q = o => coins'[q] = coins[q] + (-d) /\ Money(q)' = Money(q) + 0
               /\ q # o => coins'[q] = coins[q]
    <2>1. OwedBy(refund', q) = OwedBy(refund, q) + (IF q = o THEN d ELSE 0)
      BY RefundOwes
    <2>2. OwedBy(refund, q) \in Nat /\ Money(q) \in Nat /\ coins[q] \in Int
      BY <1>0, MoneyIs
    <2> QED
      BY <1>0, <1>1, <2>1, <2>2
  <1>3. OnlyMoves(o, -d, d, 0)
    BY <1>1, <1>2 DEF OnlyMoves
  <1>4. CASE d = 0
    <2>1. coins' = coins
      BY <1>0, <1>4
    <2> QED
      BY <1>1, <1>2, <1>4, <2>1, NothingMoves
  <1>5. CASE d > 0
    <2>1. Outstanding(job) <= Amount[o] /\ Amount[o] \in Nat
      <3>1. job.order = o /\ Outstanding(job) > 0
        BY <1>0, <1>5
      <3> QED
        BY <1>0, <3>1, JobFitsAfter, OwnerType
    <2>2. d \in 1..Amount[o]
      BY <1>0, <1>5, <2>1
    <2>3. Fair!GivesIn(o, d)
      BY <1>0, <1>3, MovesAreChanges DEF Fair!GivesIn
    <2> QED
      BY <2>2, <2>3 DEF FairStep, Fair!Exchange
  <1>6. CASE d < 0
    <2> PICK n \in Int : n = -d
      OBVIOUS
    <2>1. /\ Outstanding(refund[r]) <= Amount[o] /\ Outstanding(refund[r]) <= OwedBy(refund, o)
          /\ n > 0 /\ n <= Outstanding(refund[r])
      BY <1>0, <1>6, RefundIsOwed
    <2>2. n \in 1..Amount[o] /\ n <= OwedBy(refund, o)
      BY <1>0, <2>1, MoneyIs
    <2>3. OnlyMoves(o, n, -n, 0)
      BY <1>3
    <2>4. Fair!IsRefused(o, n)
      BY <1>0, <2>2, <2>3, MovesAreChanges DEF Fair!IsRefused
    <2> QED
      BY <2>2, <2>4 DEF FairStep, Fair!Exchange
  <1> QED
    BY <1>4, <1>5, <1>6

\* A refund goes on without taking or giving back.
LEMMA WaitingIsFair ==
  ASSUME MoneyInv, IInv', NEW r \in Refunds, NEW job, refund' = [refund EXCEPT ![r] = job],
         job.order = refund[r].order \/ Outstanding(job) = 0,
         Outstanding(job) = Outstanding(refund[r]), coins' = coins, bank' = bank, pay' = pay
  PROVE  FairStep
  <1>1. \A q \in Orders : Money(q)' = Money(q)
    BY DEF Money
  <1>2. PICK d \in Int : d = 0
    OBVIOUS
  <1>3. Outstanding(job) = Outstanding(refund[r]) + d
    BY <1>2, RefundIsOwed DEF MoneyInv
  <1>4. ASSUME NEW q \in Orders PROVE OwedBy(refund', q) = OwedBy(refund, q)
    <2>1. OwedBy(refund', q) = OwedBy(refund, q) + (IF q = refund[r].order THEN d ELSE 0)
      BY <1>3, RefundOwes
    <2>2. OwedBy(refund, q) \in Nat
      BY MoneyIs DEF MoneyInv
    <2> QED
      BY <1>2, <2>1, <2>2
  <1> QED
    BY <1>1, <1>4, NothingMoves

\* A refund ends, or its request dies: its coins are gone, for as much money at most.
LEMMA PayingIsFair ==
  ASSUME MoneyInv, IInv', NEW r \in Refunds, NEW job, refund' = [refund EXCEPT ![r] = job],
         Outstanding(job) = 0, coins' = coins, NEW m \in Nat, m <= Outstanding(refund[r]),
         \A q \in Orders : Money(q)' = Money(q) - (IF q = refund[r].order THEN m ELSE 0)
  PROVE  FairStep
  <1> PICK n, o : n = Outstanding(refund[r]) /\ o = refund[r].order
    OBVIOUS
  <1>0. IInv /\ n \in Nat
    BY RefundIsOwed DEF MoneyInv
  <1> PICK d \in Int : d = -n
    BY <1>0
  <1>1. ASSUME NEW q \in Orders
        PROVE  /\ q = o => OwedBy(refund', q) = OwedBy(refund, q) + d
               /\ q # o \/ n = 0 => OwedBy(refund', q) = OwedBy(refund, q)
               /\ q = o => Money(q)' = Money(q) + (-m)
               /\ q # o \/ n = 0 => Money(q)' = Money(q)
    <2>1. Outstanding(job) = Outstanding(refund[r]) + d
      BY <1>0
    <2>2. OwedBy(refund', q) = OwedBy(refund, q) + (IF q = o THEN d ELSE 0)
      BY <2>1, RefundOwes
    <2>3. OwedBy(refund, q) \in Nat /\ Money(q) \in Nat
      BY <1>0, MoneyIs
    <2>4. Money(q)' = Money(q) - (IF q = o THEN m ELSE 0)
      OBVIOUS
    <2> QED
      BY <1>0, <2>2, <2>3, <2>4
  <1>2. CASE n = 0
    BY <1>1, <1>2, NothingMoves
  <1>3. CASE n > 0
    <2>1. o \in Orders /\ n \in 1..Amount[o] /\ n <= OwedBy(refund, o) /\ m \in 0..n
      BY <1>0, <1>3, RefundIsOwed, OwnerType
    <2>2. OnlyMoves(o, 0, -n, -m)
      <3>1. coins'[o] = coins[o] + 0
        BY <1>0, <2>1, MoneyIs
      <3>2. \A q \in Orders : q # o => coins'[q] = coins[q]
        OBVIOUS
      <3> QED
        BY <1>1, <2>1, <3>1, <3>2 DEF OnlyMoves
    <2>3. Fair!IsPaid(o, n, m)
      BY <1>0, <2>1, <2>2, MovesAreChanges DEF Fair!IsPaid
    <2> QED
      BY <2>1, <2>3 DEF FairStep, Fair!Exchange
  <1> QED
    BY <1>0, <1>2, <1>3

\* A clawback: the owner loses coins of the order, at most all it was worth.
LEMMA ClawIsFair ==
  ASSUME IInv, IInv', NEW o \in Orders, ReconcileClaw(o)
  PROVE  FairStep
  <1> PICK n : n = LeastOf(ClawTarget(o, reconcile[o]), topup[Owner[o]])
    OBVIOUS
  <1>0. coins \in [Orders -> Int] /\ Amount[o] \in Nat
    BY MoneyTypes
  <1>1. n \in 0..Amount[o]
    <2>1. ClawTarget(o, reconcile[o]) \in 1..Amount[o]
      <3>1. /\ reconcile[o].row.refunded \in Nat /\ VendorRemaining(reconcile[o].got) \in Nat
        BY MoneyTypes DEF ReconcileJob, OrderRow, Found, VendorRemaining
      <3> QED
        BY <1>0, <3>1 DEF ReconcileClaw, Overpaid, ClawTarget
    <2>2. topup[Owner[o]] \in Nat
      BY OwnerType DEF IInv, TypeOK
    <2> QED
      BY <1>0, <2>1, <2>2 DEF LeastOf
  <1>2. /\ coins'[o] = coins[o] + (-n) /\ \A q \in Orders : q # o => coins'[q] = coins[q]
        /\ bank' = bank /\ pay' = pay /\ refund' = refund
    BY <1>0 DEF ReconcileClaw, Clawback, Credit, Finish, people, vendor
  <1>3. \A q \in Orders : Money(q)' = Money(q)
    BY <1>2 DEF Money
  <1>4. CASE n = 0
    <2>1. coins' = coins
      BY <1>0, <1>2, <1>4, <1>1 DEF IInv, TypeOK
    <2> QED
      BY <1>2, <2>1, StillIsFair
  <1>5. CASE n # 0
    <2>1. OnlyMoves(o, -n, 0, 0)
      BY <1>2, <1>3, MoneyIs DEF OnlyMoves
    <2>2. Fair!Loses(o, n)
      BY <2>1, MovesAreChanges DEF Fair!Loses
    <2>3. n \in 1..Amount[o]
      BY <1>0, <1>1, <1>5
    <2> QED
      BY <2>2, <2>3 DEF FairStep, Fair!Exchange
  <1> QED
    BY <1>4, <1>5

\* The steps of confirmations.
LEMMA ConfirmIsFair ==
  ASSUME Dependable, MoneyInv, IInv', NEW c \in Confirms, ConfirmStep(c)
  PROVE  FairStep
  <1> PICK k, o : k = confirm[c].key /\ o = KeyOrder[k]
    OBVIOUS
  <1>0. ConfirmFine(c) /\ pay \in [Keys -> Payment]
    BY MoneyTypes DEF MoneyInv, ConfirmsFine
  <1>1. ASSUME confirm[c].pc # "idle"
        PROVE  k \in Keys /\ o \in Orders /\ PaymentsFine /\ Amount[o] \in Nat
    BY <1>1, InstanceAssumption DEF MoneyInv, IInv, ConfirmKeyed
  <1>2. ASSUME UNCHANGED <<accounts, people, vendor, refund>> PROVE FairStep
    BY <1>2, StillIsFair DEF accounts, people, vendor
  <1>3. CASE ConfirmApply(c)
    <2>1. CASE Confirmable(o) /\ Grant(o, "toss", k)
      <3>1. k \in Keys /\ o \in Orders
        BY <1>1, <1>3 DEF ConfirmApply
      <3>2. pay[k].st = "DONE" /\ order[o].status = "pending"
        BY <1>0, <1>3, <2>1 DEF ConfirmApply, Confirmable, ConfirmFine
      <3>3. bank' = bank /\ pay' = pay /\ refund' = refund
        BY <1>3 DEF ConfirmApply, people, vendor
      <3> QED
        BY <2>1, <3>1, <3>2, <3>3, GrantIsFair
    <2>2. CASE UNCHANGED accounts
      BY <1>2, <1>3, <2>2 DEF ConfirmApply
    <2> QED
      BY <1>3, <2>1, <2>2 DEF ConfirmApply
  <1>4. CASE VendorConfirm(c)
    <2>1. /\ k \in Keys /\ o \in Orders /\ PaymentsFine /\ pay[k] \in Payment
          /\ Amount[o] \in Nat /\ coins' = coins /\ bank' = bank /\ refund' = refund
      BY <1>0, <1>1, <1>4 DEF VendorConfirm, accounts, people
    <2>2. ASSUME NEW p \in Payment, pay' = [pay EXCEPT ![k] = p], pay[k].st = "IN_PROGRESS",
                 p.bal \in {0, Amount[o]}
          PROVE  FairStep
      <3>1. pay[k].bal = 0
        BY <2>1, <2>2 DEF PaymentsFine, BalanceFine, Captured
      <3> QED
        BY <2>1, <2>2, <3>1, PaymentIsFair
    <2>3. ASSUME NEW a \in ConfirmAnswers(k), pay' = [pay EXCEPT ![k] = a.pay]
          PROVE  FairStep
      <3>1. CASE a.pay = pay[k]
        <4>1. pay' = pay
          BY <1>0, <2>3, <3>1
        <4> QED
          BY <2>1, <4>1, StillIsFair
      <3>2. CASE /\ pay[k].st = "IN_PROGRESS"
                 /\ \E s \in {"DONE", "WAITING_FOR_DEPOSIT"} : a = Approval(o, s)
        <4> PICK p : p = a.pay
          OBVIOUS
        <4>1. p \in Payment /\ p.bal \in {0, Amount[o]}
          BY <2>1, <3>2 DEF Approval, Payment, PayStatus, Revoking, Revoked, Replies
        <4> QED
          BY <2>2, <2>3, <3>2, <4>1
      <3> QED
        BY <3>1, <3>2 DEF ConfirmAnswers, Dependable
    <2>4. ASSUME pay[k].st = "IN_PROGRESS",
                 pay' = [pay EXCEPT ![k].st = "ABORTED", ![k].first = "rejected"]
          PROVE  FairStep
      <3> PICK p : p = [pay[k] EXCEPT !.st = "ABORTED", !.first = "rejected"]
        OBVIOUS
      <3>1. p \in Payment /\ pay' = [pay EXCEPT ![k] = p] /\ p.bal = 0
        BY <1>0, <2>1, <2>4 DEF PaymentsFine, BalanceFine, Captured, Payment, PayStatus,
           Revoking, Revoked, Replies
      <3> QED
        BY <2>2, <2>4, <3>1
    <2>5. ~Fault("unknown")
      BY DEF Dependable, Fault
    <2> QED
      BY <1>4, <2>3, <2>4, <2>5 DEF VendorConfirm
  <1> QED
    BY <1>2, <1>3, <1>4 DEF ConfirmStep, ConfirmBegin, ConfirmRejected, ConfirmUnknown,
       ConfirmResolve, ConfirmPending

\* The vendor answers a refund: it gives back at most what the refund has taken.
LEMMA CancelIsFair ==
  ASSUME Dependable, MoneyInv, IInv', NEW r \in Refunds, VendorCancel(r)
  PROVE  FairStep
  <1> PICK j, o, k, n : j = refund[r] /\ o = j.order /\ k = j.key /\ n = CancelAmount(r)
    OBVIOUS
  <1>0. /\ j \in RefundJob /\ j.pc = "calling" /\ o \in Orders /\ k \in Keys
        /\ KeyOrder[k] = o /\ PaymentsFine /\ IInv /\ Outstanding(j) = j.want /\ j.want \in Nat
        /\ pay \in [Keys -> Payment] /\ refund \in [Refunds -> RefundJob] /\ pay[k] \in Payment
    BY MoneyTypes DEF VendorCancel, MoneyInv, RefundsFine, RefundFine, IInv, RefundFits,
       Outstanding, RefundJob
  <1>1. coins' = coins /\ bank' = bank
    BY DEF VendorCancel, accounts, people
  <1>2. ASSUME NEW reply, reply \in {"DONE", "rejected"}, Answered(r, reply)
        PROVE  \E job : /\ refund' = [refund EXCEPT ![r] = job] /\ job.order = o
                        /\ Outstanding(job) = IF reply = "DONE" THEN 0 ELSE j.want
    <2> PICK job : job = [j EXCEPT !.pc = "answered", !.reply = reply]
      OBVIOUS
    <2>1. /\ refund' = [refund EXCEPT ![r] = job] /\ job.order = o
          /\ job.pc = "answered" /\ job.reply = reply /\ job.want = j.want
      BY <1>0, <1>2 DEF Answered, RefundJob
    <2> QED
      BY <1>2, <2>1 DEF Outstanding
  <1>3. ASSUME NEW reply, reply \in {"DONE", "rejected"}, Answered(r, reply), pay' = pay
        PROVE  FairStep
    <2> PICK job : /\ refund' = [refund EXCEPT ![r] = job] /\ job.order = o
                   /\ Outstanding(job) = IF reply = "DONE" THEN 0 ELSE j.want
      BY <1>2, <1>3
    <2>1. CASE reply = "rejected"
      BY <1>0, <1>1, <1>3, <2>1, WaitingIsFair
    <2>2. CASE reply = "DONE"
      <3> PICK m \in Nat : m = 0
        OBVIOUS
      <3>1. \A q \in Orders : Money(q)' = Money(q) - (IF q = o THEN m ELSE 0)
        BY <1>0, <1>1, <1>3, MoneyIs
      <3>2. m <= Outstanding(refund[r]) /\ Outstanding(job) = 0
        BY <1>0, <2>2
      <3> QED
        BY <1>0, <1>1, <3>1, <3>2, PayingIsFair
    <2> QED
      BY <1>3, <2>1, <2>2
  <1>4. CASE VendorCancels(r) /\ Answered(r, "DONE")
    <2> PICK job : refund' = [refund EXCEPT ![r] = job] /\ Outstanding(job) = 0
      BY <1>2, <1>4
    <2> PICK b : b = pay[k].bal
      OBVIOUS
    <2>1. /\ b \in Nat /\ n \in 1..b /\ n <= j.want /\ n \in Nat
          /\ pay'[k].bal = b - n /\ OnlyAt(k, Keys, pay, pay')
      <3>1. b \in Nat /\ b <= Amount[o] /\ n \in 1..b
        BY <1>0, <1>4 DEF PaymentsFine, BalanceFine, Payment, VendorCancels
      <3>2. n <= j.want
        BY <1>0, <3>1 DEF CancelAmount
      <3>3. pay'[k].bal = b - n /\ OnlyAt(k, Keys, pay, pay')
        BY <1>0, <1>4 DEF VendorCancels, Payment, OnlyAt
      <3> QED
        BY <3>1, <3>2, <3>3
    <2>2. ASSUME NEW q \in Orders PROVE Money(q)' = Money(q) - (IF q = o THEN n ELSE 0)
      <3> PICK held, more, in : held = HeldIn(pay, q) /\ more = HeldIn(pay', q) /\ in = bank[q]
        OBVIOUS
      <3>1. held \in Nat /\ more \in Nat /\ in \in Nat
        BY <1>0, MoneyIs, TablesTyped
      <3>2. Money(q) = in + held /\ Money(q)' = in + more
        BY <1>0, <1>1, MoneyIs
      <3>3. more = held - (IF q = o THEN n ELSE 0)
        <4>1. CASE q = o
          <5>1. Replaced(more, held, pay[k].bal, pay'[k].bal)
            BY <1>0, <2>1, <4>1, TablesTyped, HeldChanges DEF KeysOf
          <5> QED
            BY <2>1, <3>1, <4>1, <5>1 DEF Replaced
        <4>2. CASE q # o
          <5>1. more = held
            BY <1>0, <2>1, <4>2, TablesTyped, HeldChanges DEF KeysOf
          <5> QED
            BY <3>1, <4>2, <5>1
        <4> QED
          BY <4>1, <4>2
      <3> QED
        BY <2>1, <3>1, <3>2, <3>3
    <2>3. n <= Outstanding(refund[r])
      BY <1>0, <2>1
    <2> QED
      BY <1>0, <1>1, <2>1, <2>2, <2>3, PayingIsFair
  <1>5. CASE cancels[CancelId(r)] # "none"
    <2> PICK reply : reply = cancels[CancelId(r)]
      OBVIOUS
    <2>1. Answered(r, reply) /\ pay' = pay
      BY <1>5 DEF VendorCancel, vendor
    <2>2. CancelId(r) \in CancelKeys
      <3>1. j.prev + j.want \in 1..Amount[o]
        BY <1>0, OwnerType DEF IInv, RefundFits, RefundJob
      <3> QED
        BY <1>0, <3>1 DEF CancelId, CancelKeys
    <2>3. reply \in {"DONE", "rejected"}
      BY <1>0, <1>5, <2>2 DEF IInv, TypeOK
    <2> QED
      BY <1>3, <2>1, <2>3
  <1>6. CASE Answered(r, "rejected") /\ UNCHANGED <<pay, signals>>
    <2> PICK reply : reply = "rejected"
      OBVIOUS
    <2>1. Answered(r, reply) /\ pay' = pay /\ reply \in {"DONE", "rejected"}
      BY <1>6
    <2> QED
      BY <1>3, <2>1
  <1>7. ~Fault("unknown")
    BY DEF Dependable, Fault
  <1> QED
    BY <1>4, <1>5, <1>6, <1>7 DEF VendorCancel

\* The steps of refunds.
LEMMA RefundIsFair ==
  ASSUME Dependable, MoneyInv, IInv', NEW r \in Refunds, RefundStep(r)
  PROVE  FairStep
  <1> PICK j, o : j = refund[r] /\ o = j.order
    OBVIOUS
  <1>0. /\ j \in RefundJob /\ refund \in [Refunds -> RefundJob] /\ coins \in [Orders -> Int]
        /\ (j.pc # "idle" => o \in Orders) /\ j.want \in Nat
    BY MoneyTypes DEF MoneyInv, IInv, RefundFits, RefundJob
  <1>n. Outstanding(NoRefund) = 0
    BY DEF Outstanding, NoRefund
  <1>1. ASSUME NEW q \in Orders, NEW want \in 1..Amount[q], RefundBegin(r, q, want)
        PROVE  FairStep
    <2>1. PICK job : /\ job = [pc |-> "read", order |-> q, key |-> order[q].ref, want |-> want,
                               prev |-> order[q].refunded, reply |-> "none"]
                     /\ refund' = [refund EXCEPT ![r] = job]
      BY <1>1 DEF RefundBegin
    <2>2. Outstanding(job) = 0 /\ Outstanding(j) = 0
      BY <1>1, <2>1 DEF Outstanding, RefundBegin
    <2>3. coins' = coins /\ bank' = bank /\ pay' = pay
      BY <1>1 DEF RefundBegin, accounts, people, vendor
    <2> QED
      BY <2>1, <2>2, <2>3, WaitingIsFair
  <1>2. CASE RefundCommit(r)
    <2>0. j.pc = "read" /\ Outstanding(j) = 0 /\ o \in Orders /\ bank' = bank /\ pay' = pay
      BY <1>0, <1>2 DEF RefundCommit, Outstanding, people, vendor
    <2>1. CASE refund' = [refund EXCEPT ![r] = NoRefund] /\ UNCHANGED accounts
      BY <1>n, <2>0, <2>1, WaitingIsFair DEF accounts
    <2>2. CASE Credit(o, -j.want) /\ refund' = [refund EXCEPT ![r].pc = "calling"]
      <3> PICK job : job = [j EXCEPT !.pc = "calling"]
        OBVIOUS
      <3> PICK d \in Int : d = j.want
        BY <1>0
      <3>1. /\ refund' = [refund EXCEPT ![r] = job] /\ job.order = o
            /\ Outstanding(job) = Outstanding(refund[r]) + d
        BY <1>0, <2>0, <2>2 DEF RefundJob, Outstanding
      <3>2. coins' = [coins EXCEPT ![o] = @ - d]
        BY <1>0, <2>2 DEF Credit
      <3> QED
        BY <2>0, <3>1, <3>2, TakingIsFair
    <2> QED
      BY <1>2, <2>1, <2>2 DEF RefundCommit
  <1>3. CASE RefundDone(r)
    <2>1. /\ refund' = [refund EXCEPT ![r] = NoRefund] /\ Outstanding(j) = 0
          /\ coins' = coins /\ bank' = bank /\ pay' = pay
      BY <1>3 DEF RefundDone, Outstanding, accounts, people, vendor
    <2> QED
      BY <1>n, <2>1, WaitingIsFair
  <1>4. CASE RefundRevert(r)
    <2>1. /\ o \in Orders /\ j.pc = "answered" /\ j.reply # "DONE" /\ Credit(o, j.want)
          /\ refund' = [refund EXCEPT ![r] = NoRefund] /\ bank' = bank /\ pay' = pay
      BY <1>0, <1>4 DEF RefundRevert, people, vendor
    <2> PICK d \in Int : d = -j.want
      BY <1>0
    <2>2. Outstanding(NoRefund) = Outstanding(refund[r]) + d
      BY <1>0, <1>n, <2>1 DEF Outstanding
    <2>3. coins' = [coins EXCEPT ![o] = @ - d]
      <3>1. coins[o] \in Int /\ coins[o] + j.want = coins[o] - d
        BY <1>0, <2>1
      <3> QED
        BY <1>0, <2>1, <3>1 DEF Credit
    <2> QED
      BY <1>n, <2>1, <2>2, <2>3, TakingIsFair
  <1>5. CASE VendorCancel(r)
    BY <1>5, CancelIsFair
  <1> QED
    BY <1>1, <1>2, <1>3, <1>4, <1>5 DEF RefundStep

\* The steps of reconciliations.
LEMMA ReconcileIsFair ==
  ASSUME Dependable, MoneyInv, IInv', NEW o \in Orders, ReconcileWork(o)
  PROVE  FairStep
  <1> PICK j : j = reconcile[o]
    OBVIOUS
  <1>0. ReconcileFine(o) /\ j \in ReconcileJob /\ IInv
    BY MoneyTypes DEF MoneyInv, ReconcilesFine
  <1>1. ASSUME UNCHANGED <<accounts, people, vendor, refund>> PROVE FairStep
    BY <1>1, StillIsFair DEF accounts, people, vendor
  <1>2. CASE ReconcileGrant(o)
    <2>1. CASE Confirmable(o) /\ Grant(o, "toss", j.got.key)
      <3>1. j.got.key \in Keys /\ KeyOrder[j.got.key] = o /\ order[o].status = "pending"
        BY <1>0, <1>2, <2>1 DEF ReconcileGrant, Finish, ReconcileFine, Confirmable,
           ReconcileJob, Found
      <3>2. pay[j.got.key].st = "DONE"
        BY <1>0, <1>2, <3>1 DEF ReconcileGrant, Finish, ReconcileFine, Unpaid
      <3>3. bank' = bank /\ pay' = pay /\ refund' = refund
        BY <1>2 DEF ReconcileGrant, Finish, people, vendor
      <3> QED
        BY <2>1, <3>1, <3>2, <3>3, GrantIsFair
    <2>2. CASE UNCHANGED accounts
      BY <1>1, <1>2, <2>2 DEF ReconcileGrant, Finish
    <2> QED
      BY <1>2, <2>1, <2>2 DEF ReconcileGrant
  <1>3. CASE ReconcileClaw(o)
    BY <1>0, <1>3, ClawIsFair
  <1> QED
    BY <1>1, <1>2, <1>3 DEF ReconcileWork, ReconcileFetch, ReconcileConsistent, Finish

\* The steps of payments: without a revocation a payment only comes in.
LEMMA DepositIsFair ==
  ASSUME Dependable, MoneyInv, IInv', NEW k \in Keys, PaymentStep(k)
  PROVE  FairStep
  <1>0. /\ pay \in [Keys -> Payment] /\ pay[k] \in Payment /\ KeyOrder[k] \in Orders
        /\ Amount[KeyOrder[k]] \in Nat /\ BalanceFine(pay[k], Amount[KeyOrder[k]])
    BY MoneyTypes DEF MoneyInv, PaymentsFine
  <1>1. coins' = coins /\ bank' = bank /\ refund' = refund
    BY DEF PaymentStep, OpenWindow, Deposit, VendorRevoke, Expire, accounts, people
  <1>2. ~VendorRevoke(k)
    BY DEF VendorRevoke, Fault, Dependable
  <1> PICK p : p = pay'[k]
    OBVIOUS
  <1>3. /\ pay' = [pay EXCEPT ![k] = p] /\ pay[k].st \notin Captured
        /\ p.bal \in {pay[k].bal, Amount[KeyOrder[k]]}
    BY <1>0, <1>2 DEF PaymentStep, OpenWindow, Deposit, Expire, Captured, Payment
  <1>4. p \in Payment
    BY <1>0 DEF IInv, TypeOK
  <1> QED
    BY <1>0, <1>1, <1>3, <1>4, PaymentIsFair DEF BalanceFine

\* A request dies: what a refund had taken is gone.
LEMMA CrashIsFair ==
  ASSUME MoneyInv, IInv', Crash
  PROVE  FairStep
  <1>1. coins' = coins /\ bank' = bank /\ pay' = pay
    BY DEF Crash, accounts, people, vendor
  <1>2. ASSUME NEW r \in Refunds, refund' = [refund EXCEPT ![r] = NoRefund] PROVE FairStep
    <2> PICK m \in Nat : m = 0
      OBVIOUS
    <2>1. Outstanding(NoRefund) = 0 /\ m <= Outstanding(refund[r])
      BY RefundIsOwed DEF Outstanding, NoRefund, MoneyInv
    <2>2. \A q \in Orders : Money(q)' = Money(q) - (IF q = refund[r].order THEN m ELSE 0)
      BY <1>1, MoneyIs DEF MoneyInv
    <2> QED
      BY <1>1, <1>2, <2>1, <2>2, PayingIsFair
  <1>3. CASE refund' = refund
    BY <1>1, <1>3, StillIsFair
  <1> QED
    BY <1>2, <1>3 DEF Crash

\* Every step is one of the exchange, or none.
LEMMA EveryStepIsFair ==
  ASSUME Dependable, MoneyInv, IInv', [Next]_vars
  PROVE  FairStep
  <1>1. CASE UNCHANGED vars
    BY <1>1, StillIsFair DEF vars
  <1>2. ASSUME NEW o \in Orders, CancelOrder(o) \/ ManualConfirm(o) PROVE FairStep
    BY <1>2, TransferIsFair, StillIsFair DEF MoneyInv, CancelOrder, people, vendor
  <1>3. CASE \/ \E o \in Orders : AdminReconcile(o)
             \/ \E i \in Keys \cup Orders : SchedulerReconcile(i)
             \/ \E s \in Signal : WebhookReconcile(s) \/ LoseWebhook(s)
             \/ \E u \in Users : Spend(u) \/ Withdraw(u)
             \/ PurgeBuyers
    <2>1. coins' = coins /\ bank' = bank /\ pay' = pay /\ refund' = refund
      BY <1>3 DEF AdminReconcile, SchedulerReconcile, WebhookReconcile, ReconcileBegin,
         LoseWebhook, Spend, Withdraw, PurgeBuyers, accounts, people, vendor
    <2> QED
      BY <2>1, StillIsFair
  <1>4. CASE Next
    BY <1>2, <1>3, <1>4, ConfirmIsFair, RefundIsFair, ReconcileIsFair, DepositIsFair,
       CrashIsFair DEF Next
  <1> QED
    BY <1>1, <1>4

\* ExchangeIsFair: charging coins implements the exchange it promises, for any orders,
\* payments and requests under way together.  Through confirmations, refunds that cross or
\* are reverted, reconciliations and crashes, coins are given only for money that has
\* brought none, and money goes back only for coins that were taken.
THEOREM FairExchange == ASSUME Dependable PROVE Spec => ExchangeIsFair
  <1>1. Init => Fair!AbstractInit
    <2> SUFFICES ASSUME Init PROVE Fair!AbstractInit
      OBVIOUS
    <2>1. MoneyInv /\ PaysTyped(pay)
      BY MoneyInit, MoneyTypes DEF MoneyInv, PaysTyped
    <2>2. ASSUME NEW o \in Orders PROVE OwedBy(refund, o) = 0 /\ Money(o) = 0
      <3>1. order[o].refunded = 0 /\ bank[o] = 0
        BY DEF Init, NewOrder
      <3>2. OwedBy(refund, o) = 0
        BY <2>1, <3>1, MoneyTypes DEF MoneyInv, AccountsFine, AccountFine
      <3>3. \A k \in KeysOf(o) : pay[k].bal = 0
        BY DEF Init, KeysOf
      <3> QED
        BY <2>1, <3>1, <3>2, <3>3, HeldType, MoneyIs DEF MoneyInv
    <2>3. coins = [o \in Orders |-> 0]
      BY DEF Init
    <2> QED
      BY <2>2, <2>3 DEF Fair!AbstractInit
  <1>2. MoneyInv /\ MoneyInv' /\ [Next]_vars
        => [Fair!Exchange]_<<coins, [o \in Orders |-> OwedBy(refund, o)],
                             [o \in Orders |-> Money(o)]>>
    BY EveryStepIsFair DEF FairStep, MoneyInv
  <1> QED
    BY <1>1, <1>2, MoneyInvariance, PTL DEF Spec, ExchangeIsFair, Fair!AbstractSpec

\* What the exchange comes to: the coins of an order, with those its owner has given
\* in and was not paid for yet, are covered by its money.
Exchanged ==
    /\ coins \in [Orders -> Int]
    /\ \A o \in Orders : /\ OwedBy(refund, o) \in Nat /\ Money(o) \in Int
                         /\ coins[o] + OwedBy(refund, o) <= Money(o)

\* A change of one order that leaves it so.
LEMMA ChangeKeeps ==
  ASSUME Exchanged, NEW o \in Orders, NEW c \in Int, NEW t \in Int, NEW m \in Int,
         Fair!Changes(o, c, t, m), OwedBy(refund, o) + t >= 0,
         coins[o] + c + OwedBy(refund, o) + t <= Money(o) + m
  PROVE  Exchanged'
  <1> PICK T, U, M, N : /\ T = [q \in Orders |-> OwedBy(refund, q)]
                        /\ U = [q \in Orders |-> OwedBy(refund', q)]
                        /\ M = [q \in Orders |-> Money(q)] /\ N = [q \in Orders |-> Money(q)']
    OBVIOUS
  <1>1. /\ coins' = [coins EXCEPT ![o] = @ + c]
        /\ U = [T EXCEPT ![o] = @ + t] /\ N = [M EXCEPT ![o] = @ + m]
    BY DEF Fair!Changes
  <1>2. /\ T \in [Orders -> Nat] /\ M \in [Orders -> Int] /\ coins \in [Orders -> Int]
        /\ \A q \in Orders : coins[q] + T[q] <= M[q]
    BY DEF Exchanged
  <1>3. T[o] + t \in Nat /\ coins[o] + c + T[o] + t <= M[o] + m
    BY <1>2
  <1>4. /\ coins' \in [Orders -> Int] /\ U \in [Orders -> Nat] /\ N \in [Orders -> Int]
        /\ \A q \in Orders : coins'[q] + U[q] <= N[q]
    BY <1>1, <1>2, <1>3
  <1>5. \A q \in Orders : U[q] = OwedBy(refund', q) /\ N[q] = Money(q)'
    OBVIOUS
  <1> QED
    BY <1>4, <1>5 DEF Exchanged

\* Every step of the exchange does.
LEMMA ExchangeKeeps ==
  ASSUME Exchanged, Fair!Exchange
  PROVE  Exchanged'
  <1> PICK o \in Orders :
         \/ Fair!Pays(o) \/ Fair!Receives(o) \/ Fair!Buys(o)
         \/ \E n \in 1..Amount[o] :
               \/ Fair!GivesIn(o, n) \/ Fair!IsRefused(o, n) \/ Fair!Loses(o, n)
               \/ \E m \in 0..n : Fair!IsPaid(o, n, m)
    BY DEF Fair!Exchange
  <1> PICK a, c, t, m : /\ a = Amount[o] /\ c = coins[o]
                        /\ t = OwedBy(refund, o) /\ m = Money(o)
    OBVIOUS
  <1>0. /\ a \in Nat \ {0} /\ c \in Int /\ t \in Nat /\ m \in Int /\ c + t <= m
    BY InstanceAssumption DEF Exchanged
  <1>1. CASE Fair!Pays(o)
    BY <1>0, <1>1, ChangeKeeps DEF Fair!Pays
  <1>2. CASE Fair!Receives(o)
    BY <1>0, <1>2, ChangeKeeps DEF Fair!Receives
  <1>3. CASE Fair!Buys(o)
    <2>1. Fair!Changes(o, a, 0, a)
      BY <1>3 DEF Fair!Buys
    <2>2. c + a + t + 0 <= m + a /\ t + 0 >= 0 /\ a \in Int
      BY <1>0
    <2> QED
      BY <2>1, <2>2, ChangeKeeps
  <1>4. ASSUME NEW n \in 1..Amount[o],
               \/ Fair!GivesIn(o, n) \/ Fair!IsRefused(o, n) \/ Fair!Loses(o, n)
               \/ \E p \in 0..n : Fair!IsPaid(o, n, p)
        PROVE  Exchanged'
    <2>0. n \in Int /\ n > 0 /\ -n \in Int
      BY <1>0
    <2>1. CASE Fair!GivesIn(o, n)
      BY <1>0, <2>0, <2>1, ChangeKeeps DEF Fair!GivesIn
    <2>2. CASE Fair!IsRefused(o, n)
      BY <1>0, <2>0, <2>2, ChangeKeeps DEF Fair!IsRefused
    <2>3. CASE Fair!Loses(o, n)
      BY <1>0, <2>0, <2>3, ChangeKeeps DEF Fair!Loses
    <2>4. ASSUME NEW p \in 0..n, Fair!IsPaid(o, n, p) PROVE Exchanged'
      <3>1. n <= OwedBy(refund, o) /\ Fair!Changes(o, 0, -n, -p)
        BY <2>4 DEF Fair!IsPaid
      <3>2. /\ p \in Int /\ -p \in Int /\ t + (-n) >= 0 /\ c + 0 + t + (-n) <= m + (-p)
        BY <1>0, <2>0, <3>1
      <3> QED
        BY <2>0, <3>1, <3>2, ChangeKeeps
    <2> QED
      BY <1>4, <2>1, <2>2, <2>3, <2>4
  <1> QED
    BY <1>1, <1>2, <1>3, <1>4

\* NeverBoth is a matter of the exchange alone: whatever charges coins by its steps gives
\* nobody his money back and the coins too.
THEOREM ExchangeGivesNoBoth == ExchangeIsFair => []NeverBoth
  <1>1. Fair!AbstractInit => Exchanged
    <2> SUFFICES ASSUME Fair!AbstractInit PROVE Exchanged
      OBVIOUS
    <2>1. /\ coins = [o \in Orders |-> 0]
          /\ [o \in Orders |-> OwedBy(refund, o)] = [o \in Orders |-> 0]
          /\ [o \in Orders |-> Money(o)] = [o \in Orders |-> 0]
      BY DEF Fair!AbstractInit
    <2>2. \A o \in Orders : coins[o] = 0 /\ OwedBy(refund, o) = 0 /\ Money(o) = 0
      BY <2>1
    <2> QED
      BY <2>1, <2>2 DEF Exchanged
  <1>2. Exchanged /\ FairStep => Exchanged'
    <2> SUFFICES ASSUME Exchanged, FairStep PROVE Exchanged'
      OBVIOUS
    <2>1. CASE UNCHANGED <<coins, [o \in Orders |-> OwedBy(refund, o)],
                           [o \in Orders |-> Money(o)]>>
      <3>1. /\ coins' = coins
            /\ [o \in Orders |-> OwedBy(refund', o)] = [o \in Orders |-> OwedBy(refund, o)]
            /\ [o \in Orders |-> Money(o)'] = [o \in Orders |-> Money(o)]
        BY <2>1
      <3>2. \A o \in Orders : OwedBy(refund', o) = OwedBy(refund, o) /\ Money(o)' = Money(o)
        BY <3>1
      <3> QED
        BY <3>1, <3>2 DEF Exchanged
    <2> QED
      BY <2>1, ExchangeKeeps DEF FairStep
  <1>3. Exchanged => NeverBoth
    BY DEF Exchanged, NeverBoth
  <1> QED
    BY <1>1, <1>2, <1>3, PTL DEF ExchangeIsFair, Fair!AbstractSpec, FairStep
=============================================================================
