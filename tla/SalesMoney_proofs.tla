--------------------------- MODULE SalesMoney_proofs ---------------------------
(***************************************************************************)
(* Proofs about the money of a sale: that the books of a contract are      *)
(* true, that no more commission arises than the pool has, and that a      *)
(* split is not paid twice.                                                *)
(***************************************************************************)
EXTENDS MCSales, SalesUnits_proofs, SumTheorems

-----------------------------------------------------------------------------
(* SalesPayments: the invariant.                                           *)

\* The unique index on raw_ref.
NoRefTwice ==
    \A r, s \in Recorded :
       payments[r].ref = payments[s].ref =>
          r = s \/ payments[r].ref = [of |-> NoRef, reason |-> NoReason]

\* Only a reversal appends a reason.
ReasonsAreOfReversals ==
    \A r \in Recorded :
       payments[r].status # "REVERSED" => payments[r].ref.reason = NoReason

\* A loan that was given has its row, which no one reverses.
LoanRow == [of |-> LoanRef, reason |-> NoReason]
LoanHasRow ==
    \/ loan.status = "APPLIED" /\ loan.repaid = 0
    \/ \E r \in Recorded : payments[r].ref = LoanRow

BooksInv ==
    PayTypeOK /\ PaidIsExplained /\ NoRefTwice /\ ReasonsAreOfReversals /\ LoanHasRow

\* The rows, and what each of them is.
LEMMA Rows ==
  ASSUME PayTypeOK
  PROVE  /\ IsFiniteSet(Recorded)
         /\ \A r \in Recorded : /\ payments[r] \in Payments
                                 /\ payments[r].ref \in RawRefs
                                 /\ payments[r].amount \in Int /\ payments[r].fills \in Filled
                                 /\ Received(payments[r])
  <1>1. IsFiniteSet(Recorded)
    BY FS_Interval DEF PayTypeOK, Recorded
  <1>2. \A r \in Recorded : payments[r] \in Payments
    BY DEF PayTypeOK, Recorded
  <1>3. \A p \in Payments : p.ref \in RawRefs /\ p.amount \in Int /\ p.fills \in Filled
    BY DEF Payments
  <1>4. \A r \in Recorded : Received(payments[r])
    BY DEF PayTypeOK, Recorded
  <1> QED
    BY <1>1, <1>2, <1>3, <1>4

\* The invariant has what is claimed of the deposits: two live rows of one deposit have
\* the same raw_ref, and so has one that was reversed without a reason.
LEMMA BooksInvIsEnough ==
  ASSUME BooksInv
  PROVE  BooksAreTrue
  <1>1. ASSUME NEW n \in Deposits
        PROVE  LET mine == {r \in Recorded : payments[r].ref.of = n}
                   live == {r \in mine : payments[r].status # "REVERSED"}
               IN  /\ \A r, s \in live : r = s
                   /\ (\E r \in mine \ live : payments[r].ref.reason = NoReason) => live = {}
    <2>1. ASSUME NEW r \in Recorded, NEW s \in Recorded,
                 payments[r].ref.of = n, payments[s].ref.of = n,
                 payments[r].ref.reason = NoReason, payments[s].ref.reason = NoReason
          PROVE  r = s
      <3>1. payments[r].ref \in RawRefs /\ payments[s].ref \in RawRefs
        BY Rows DEF BooksInv
      <3>2. payments[r].ref = payments[s].ref
            /\ payments[r].ref # [of |-> NoRef, reason |-> NoReason]
        BY <2>1, <3>1, PaymentAssumption DEF RawRefs
      <3> QED
        BY <3>2 DEF BooksInv, NoRefTwice
    <2> QED
      BY <2>1 DEF BooksInv, ReasonsAreOfReversals
  <1> QED
    BY <1>1 DEF BooksAreTrue, AppliedOnce, BooksInv

-----------------------------------------------------------------------------
(* The rows of sales_payments.                                             *)

\* What a row brings an installment is an amount, of either sign.
LEMMA BroughtByIsInt ==
  ASSUME NEW p \in Payments, NEW i \in Rounds
  PROVE  BroughtBy(p, i) \in Int
  BY DEF BroughtBy, Payments, Filled

\* So is what they bring together; and where none has taken back, no row brings more.
LEMMA BroughtIsInt ==
  ASSUME PayTypeOK, NEW i \in Rounds
  PROVE  /\ Brought(i) \in Int
         /\ ~TakenBack(i) =>
               \A r \in Recorded : BroughtBy(payments[r], i) <= Brought(i)
  <1>1. PICK f : f = [r \in Recorded |-> BroughtBy(payments[r], i)]
    OBVIOUS
  <1>2. \A r \in Recorded : f[r] = BroughtBy(payments[r], i) /\ f[r] \in Int
    BY <1>1, BroughtByIsInt, Rows
  <1>3. IsFiniteSet(Recorded)
    BY Rows
  <1>4. Brought(i) = SumFunctionOnSet(f, Recorded)
    BY <1>1 DEF Brought
  <1>5. SumFunctionOnSet(f, Recorded) \in Int
    BY <1>2, <1>3, SumInt
  <1>6. ASSUME ~TakenBack(i)
        PROVE  \A r \in Recorded : f[r] <= SumFunctionOnSet(f, Recorded)
    <2>1. \A r \in Recorded : f[r] \in Nat
      BY <1>2, <1>6 DEF TakenBack
    <2> QED
      BY <2>1, <1>3, SumIsAtLeast
  <1> QED
    BY <1>2, <1>4, <1>5, <1>6

\* A row that is added brings what is filled in.
LEMMA BroughtByMore ==
  ASSUME PayTypeOK, NEW p \in Payments, payments' = Append(payments, p), NEW i \in Rounds
  PROVE  Brought(i)' = Brought(i) + BroughtBy(p, i)
  <1>1. PICK f : f = [r \in Recorded |-> BroughtBy(payments[r], i)]
    OBVIOUS
  <1>2. PICK g : g = [r \in Recorded' |-> BroughtBy(payments'[r], i)]
    OBVIOUS
  <1>3. PICK n \in Nat : n = Len(payments)
    BY DEF PayTypeOK
  <1>4. /\ Recorded = 1..n /\ n + 1 \notin Recorded
        /\ Recorded' = Recorded \cup {n + 1}
        /\ payments'[n + 1] = p
        /\ \A r \in Recorded : payments'[r] = payments[r]
    BY <1>3 DEF PayTypeOK, Recorded
  <1>5. /\ \A r \in Recorded : f[r] = g[r] /\ f[r] \in Int /\ g[r] \in Int
        /\ g[n + 1] = BroughtBy(p, i) /\ g[n + 1] \in Int
    <2>1. \A r \in Recorded : payments[r] \in Payments
      BY Rows
    <2>2. \A r \in Recorded : f[r] = BroughtBy(payments[r], i) /\ g[r] = f[r]
      BY <1>1, <1>2, <1>4
    <2>3. g[n + 1] = BroughtBy(p, i)
      BY <1>2, <1>4
    <2> QED
      BY <2>1, <2>2, <2>3, BroughtByIsInt
  <1>6. IsFiniteSet(Recorded)
    BY Rows
  <1>7. SumFunctionOnSet(f, Recorded) = SumFunctionOnSet(g, Recorded)
    BY <1>5, <1>6, SumOfSame
  <1>8. SumFunctionOnSet(g, Recorded \cup {n + 1}) = SumFunctionOnSet(g, Recorded) + g[n + 1]
    BY <1>4, <1>5, <1>6, SumWith
  <1>9. Brought(i) = SumFunctionOnSet(f, Recorded)
        /\ Brought(i)' = SumFunctionOnSet(g, Recorded \cup {n + 1})
    BY <1>1, <1>2, <1>4 DEF Brought
  <1> QED
    BY <1>5, <1>7, <1>8, <1>9

\* A row that changes brings the difference.
LEMMA BroughtByChange ==
  ASSUME PayTypeOK, NEW r \in Recorded, NEW p \in Payments,
         payments' = [payments EXCEPT ![r] = p], NEW i \in Rounds
  PROVE  Brought(i)' = Brought(i) - BroughtBy(payments[r], i) + BroughtBy(p, i)
  <1>1. PICK f : f = [q \in Recorded |-> BroughtBy(payments[q], i)]
    OBVIOUS
  <1>2. PICK g : g = [q \in Recorded' |-> BroughtBy(payments'[q], i)]
    OBVIOUS
  <1>3. /\ Recorded' = Recorded /\ payments'[r] = p
        /\ \A q \in Recorded : payments[q] \in Payments /\ payments'[q] \in Payments
        /\ \A q \in Recorded : q # r => payments'[q] = payments[q]
    BY DEF PayTypeOK, Recorded
  <1>4. \A q \in Recorded : f[q] \in Int /\ g[q] \in Int
    BY <1>1, <1>2, <1>3, BroughtByIsInt
  <1>5. \A q \in Recorded : q # r => f[q] = g[q]
    BY <1>1, <1>2, <1>3
  <1>6. f[r] = BroughtBy(payments[r], i) /\ g[r] = BroughtBy(p, i)
    BY <1>1, <1>2, <1>3
  <1>7. IsFiniteSet(Recorded)
    BY Rows
  <1>8. SumFunctionOnSet(g, Recorded) = SumFunctionOnSet(f, Recorded) - f[r] + g[r]
    <2>1. r \in Recorded
      OBVIOUS
    <2> QED
      BY <2>1, <1>4, <1>5, <1>7, SumChanges
  <1>9. Brought(i) = SumFunctionOnSet(f, Recorded)
        /\ Brought(i)' = SumFunctionOnSet(g, Recorded)
    BY <1>1, <1>2, <1>3 DEF Brought
  <1> QED
    BY <1>6, <1>8, <1>9

\* Rows that stay bring what they brought.
LEMMA BroughtStays ==
  ASSUME UNCHANGED payments, NEW i \in Rounds
  PROVE  Brought(i)' = Brought(i) /\ (TakenBack(i)' <=> TakenBack(i))
  BY DEF Brought, BroughtBy, TakenBack, Recorded

\* What Adds does to the rows: they keep their types, the index and the reasons.
LEMMA AddsKeeps ==
  ASSUME BooksInv,
         NEW status \in {"UNMATCHED", "SURPLUS", "MATCHED"}, NEW of \in Deposits \cup {NoRef, LoanRef},
         NEW amount \in Int, NEW fills \in Filled, Adds(status, of, amount, fills),
         of # LoanRef => amount \in Nat /\ fills \in [Rounds -> Nat]
  PROVE  /\ payments' \in Seq(Payments) /\ Len(payments') <= MaxPayments
         /\ \A r \in DOMAIN payments' : Received(payments'[r])
         /\ NoRefTwice' /\ ReasonsAreOfReversals'
         /\ UNCHANGED loan \/ of = LoanRef => LoanHasRow'
         /\ \A i \in Rounds :
               /\ Brought(i)' = Brought(i) + (IF status = "MATCHED" THEN fills[i] ELSE 0)
               /\ TakenBack(i)' <=> TakenBack(i) \/ (status = "MATCHED" /\ fills[i] < 0)
  <1>1. PICK p : p = [status |-> status, ref |-> [of |-> of, reason |-> NoReason],
                      amount |-> amount, fills |-> fills]
    OBVIOUS
  <1>2. p \in Payments
    BY <1>1 DEF Payments, RawRefs
  <1>3. /\ payments' = Append(payments, p) /\ Len(payments) < MaxPayments
        /\ NewRef(p.ref)
    BY <1>1 DEF Adds
  <1>4. PICK n \in Nat : n = Len(payments)
    BY DEF BooksInv, PayTypeOK
  <1>5. /\ Recorded = 1..n /\ Recorded' = Recorded \cup {n + 1}
        /\ payments'[n + 1] = p
        /\ \A r \in Recorded : payments'[r] = payments[r]
    BY <1>3, <1>4 DEF BooksInv, PayTypeOK, Recorded
  <1>6. payments' \in Seq(Payments) /\ Len(payments') <= MaxPayments
    BY <1>2, <1>3, <1>4, PaymentAssumption DEF BooksInv, PayTypeOK
  <1>7. NoRefTwice'
    <2> DEFINE plain == [of |-> NoRef, reason |-> NoReason]
    <2>1. ASSUME NEW r \in Recorded, NEW s \in Recorded,
                 payments[r].ref = payments[s].ref
          PROVE  r = s \/ payments[r].ref = plain
      BY <2>1 DEF BooksInv, NoRefTwice
    <2>2. p.ref = plain \/ \A r \in Recorded : payments[r].ref # p.ref
      BY <1>3 DEF NewRef
    <2> HIDE DEF plain
    <2>3. \A r, s \in Recorded' :
             payments'[r].ref = payments'[s].ref => r = s \/ payments'[r].ref = plain
      BY <1>5, <2>1, <2>2
    <2> QED
      BY <2>3 DEF NoRefTwice, plain
  <1>8. ReasonsAreOfReversals'
    BY <1>1, <1>5 DEF BooksInv, ReasonsAreOfReversals
  <1>9. ASSUME NEW i \in Rounds
        PROVE  Brought(i)' = Brought(i) + (IF status = "MATCHED" THEN fills[i] ELSE 0)
    <2>1. Brought(i)' = Brought(i) + BroughtBy(p, i)
      BY <1>2, <1>3, BroughtByMore DEF BooksInv
    <2> QED
      BY <1>1, <2>1 DEF BroughtBy
  <1>10. ASSUME NEW i \in Rounds
         PROVE  TakenBack(i)' <=> TakenBack(i) \/ (status = "MATCHED" /\ fills[i] < 0)
    <2>1. BroughtBy(p, i) < 0 <=> status = "MATCHED" /\ fills[i] < 0
      BY <1>1 DEF BroughtBy
    <2>2. TakenBack(i)' <=> TakenBack(i) \/ BroughtBy(p, i) < 0
      BY <1>4, <1>5 DEF TakenBack, BroughtBy
    <2> QED
      BY <2>1, <2>2
  <1>11. \A r \in DOMAIN payments' : Received(payments'[r])
    <2>1. Received(p)
      BY <1>1 DEF Received
    <2>2. \A r \in Recorded : Received(payments[r])
      BY Rows DEF BooksInv
    <2> QED
      BY <1>5, <2>1, <2>2 DEF Recorded, Received
  <1>12. UNCHANGED loan \/ of = LoanRef => LoanHasRow'
    <2>1. of = LoanRef => payments'[n + 1].ref = LoanRow /\ n + 1 \in Recorded'
      BY <1>1, <1>4, <1>5 DEF LoanRow
    <2> QED
      BY <1>5, <2>1 DEF BooksInv, LoanHasRow
  <1> QED
    BY <1>6, <1>7, <1>8, <1>9, <1>10, <1>11, <1>12

-----------------------------------------------------------------------------
(* SalesPayments: the operations.                                          *)

\* An installment gets no more than it lacks.
LEMMA AllocatedFits ==
  ASSUME PayTypeOK, NEW amount \in Nat, NEW pref
  PROVE  /\ Allocated(amount, pref) \in [Rounds -> Nat]
         /\ \A i \in Rounds : /\ Due(i) \in Nat
                              /\ Allocated(amount, pref)[i] <= Due(i)
                              /\ paid[i] + Due(i) >= RoundAmount
                              /\ Due(i) = 0 \/ paid[i] + Due(i) = RoundAmount
  <1>1. PICK due : due = [j \in Rounds |-> Due(j)]
    OBVIOUS
  <1>2. \A j \in Rounds : /\ due[j] = Due(j) /\ due[j] \in Nat
                          /\ paid[j] + Due(j) >= RoundAmount
                          /\ Due(j) = 0 \/ paid[j] + Due(j) = RoundAmount
    BY <1>1, PaymentAssumption DEF PayTypeOK, Filled, Due
  <1>3. ASSUME NEW i \in Rounds
        PROVE  Allocated(amount, pref)[i] \in Nat /\ Allocated(amount, pref)[i] <= Due(i)
    <2>1. PICK sum : sum = SumFunctionOnSet(due, Before(pref, i))
      OBVIOUS
    <2>2. Before(pref, i) \subseteq Rounds
      BY DEF Before
    <2>3. IsFiniteSet(Before(pref, i))
      BY <2>2, PaymentAssumption, FS_Subset
    <2>4. \A j \in Before(pref, i) : due[j] \in Int
      BY <1>2, <2>2
    <2>5. sum \in Int
      BY <2>1, <2>3, <2>4, SumInt
    <2>6. Allocated(amount, pref)[i] =
            IF amount - sum <= 0 THEN 0 ELSE Lesser(amount - sum, Due(i))
      BY <1>1, <2>1 DEF Allocated
    <2> QED
      BY <1>2, <2>5, <2>6 DEF Lesser
  <1>4. Allocated(amount, pref) = [i \in Rounds |-> Allocated(amount, pref)[i]]
    BY DEF Allocated
  <1> QED
    BY <1>2, <1>3, <1>4

\* ingest_payment keeps the invariant: what it fills in is what the new row has brought.
LEMMA IngestKeeps ==
  ASSUME BooksInv, NEW of \in Deposits \cup {NoRef}, NEW amount \in Nat, NEW pref,
         IngestPayment(of, amount, pref), UNCHANGED <<loan, disbursing, overwritten>>
  PROVE  BooksInv'
  <1>0. PayTypeOK /\ PaidIsExplained
    BY DEF BooksInv
  <1>1. CASE Adds("UNMATCHED", of, amount, NoFills) /\ UNCHANGED <<paid, dated>>
    <2>1. NoFills \in Filled /\ NoFills \in [Rounds -> Nat]
      BY DEF NoFills, Filled
    <2>2. /\ payments' \in Seq(Payments) /\ Len(payments') <= MaxPayments
          /\ \A r \in DOMAIN payments' : Received(payments'[r])
          /\ NoRefTwice' /\ ReasonsAreOfReversals' /\ LoanHasRow'
          /\ \A i \in Rounds : Brought(i)' = Brought(i) + 0 /\ (TakenBack(i)' <=> TakenBack(i))
      BY <1>1, <2>1, AddsKeeps
    <2>3. PayTypeOK'
      BY <1>0, <1>1, <2>2 DEF PayTypeOK
    <2>4. \A i \in Rounds : Brought(i)' = Brought(i) /\ (TakenBack(i)' <=> TakenBack(i))
      BY <1>0, <2>2, BroughtIsInt
    <2>5. PaidIsExplained'
      BY <1>0, <1>1, <2>4 DEF PaidIsExplained
    <2> QED
      BY <2>2, <2>3, <2>5 DEF BooksInv
  <1>2. ASSUME NEW fills, fills = Allocated(amount, pref),
               Adds(IF fills = NoFills THEN "SURPLUS" ELSE "MATCHED", of, amount, fills),
               paid' = [i \in Rounds |-> paid[i] + fills[i]],
               dated' = dated \cup {i \in Rounds : fills[i] > 0 /\ fills[i] = Due(i)}
        PROVE  BooksInv'
    <2>1. /\ fills \in [Rounds -> Nat] /\ fills \in Filled
          /\ \A i \in Rounds : /\ Due(i) \in Nat /\ fills[i] <= Due(i)
                               /\ paid[i] + Due(i) >= RoundAmount
                               /\ Due(i) = 0 \/ paid[i] + Due(i) = RoundAmount
      BY <1>0, <1>2, AllocatedFits DEF Filled
    <2>2. PICK status \in {"SURPLUS", "MATCHED"} :
             /\ status = IF fills = NoFills THEN "SURPLUS" ELSE "MATCHED"
             /\ Adds(status, of, amount, fills)
      BY <1>2
    <2>3. /\ payments' \in Seq(Payments) /\ Len(payments') <= MaxPayments
          /\ \A r \in DOMAIN payments' : Received(payments'[r])
          /\ NoRefTwice' /\ ReasonsAreOfReversals' /\ LoanHasRow'
          /\ \A i \in Rounds :
                /\ Brought(i)' = Brought(i) + (IF status = "MATCHED" THEN fills[i] ELSE 0)
                /\ TakenBack(i)' <=> TakenBack(i) \/ (status = "MATCHED" /\ fills[i] < 0)
      <3>1. /\ status \in {"UNMATCHED", "SURPLUS", "MATCHED"}
            /\ of \in Deposits \cup {NoRef, LoanRef} /\ amount \in Int
        BY <2>2
      <3>2. UNCHANGED loan
        OBVIOUS
      <3> QED
        BY <2>1, <2>2, <3>1, <3>2, AddsKeeps
    <2>4. paid' \in Filled /\ dated' \subseteq Rounds
      BY <1>0, <1>2, <2>1 DEF PayTypeOK, Filled
    <2>5. PayTypeOK'
      BY <1>0, <2>3, <2>4 DEF PayTypeOK
    <2>6. ASSUME NEW i \in Rounds
          PROVE  /\ i \notin overwritten' => paid'[i] >= Brought(i)'
                 /\ i \notin overwritten' /\ ~TakenBack(i)' => paid'[i] = Brought(i)'
                 /\ paid'[i] >= RoundAmount => i \in dated'
      <3>1. /\ paid'[i] = paid[i] + fills[i]
            /\ paid[i] \in Int /\ fills[i] \in Nat /\ RoundAmount \in Nat /\ Brought(i) \in Int
        BY <1>0, <1>2, <2>1, BroughtIsInt, PaymentAssumption DEF PayTypeOK, Filled
      <3>2. status # "MATCHED" => fills[i] = 0
        BY <2>2 DEF NoFills
      <3>3. Brought(i)' = Brought(i) + fills[i]
        BY <2>3, <3>1, <3>2
      <3>4. /\ i \notin overwritten => paid[i] >= Brought(i)
            /\ i \notin overwritten /\ ~TakenBack(i)' => paid[i] = Brought(i)
        BY <1>0, <2>3 DEF PaidIsExplained
      <3>5. CASE fills[i] = 0
        BY <1>0, <1>2, <3>1, <3>3, <3>4, <3>5 DEF PaidIsExplained
      <3>6. CASE fills[i] > 0
        <4>1. paid'[i] >= RoundAmount => fills[i] = Due(i)
          BY <2>1, <3>1, <3>6
        <4> QED
          BY <1>2, <3>1, <3>3, <3>4, <3>6, <4>1
      <3> QED
        BY <3>1, <3>5, <3>6
    <2>7. PaidIsExplained'
      BY <2>6 DEF PaidIsExplained
    <2> QED
      BY <2>3, <2>5, <2>7 DEF BooksInv
  <1> QED
    BY <1>1, <1>2 DEF IngestPayment

\* What is the same of a row that is changed but for its raw_ref: the index and the
\* reasons stay as they are.
LEMMA SameRefs ==
  ASSUME BooksInv, NEW r \in Recorded, NEW p \in Payments,
         payments' = [payments EXCEPT ![r] = p],
         p.ref = payments[r].ref \/ NewRef(p.ref),
         p.status = "REVERSED" \/ p.ref.reason = NoReason, Received(p),
         p.ref = payments[r].ref \/ payments[r].ref.of # LoanRef, UNCHANGED loan
  PROVE  /\ payments' \in Seq(Payments) /\ Len(payments') <= MaxPayments
         /\ \A q \in DOMAIN payments' : Received(payments'[q])
         /\ NoRefTwice' /\ ReasonsAreOfReversals' /\ LoanHasRow'
  <1>1. payments' \in Seq(Payments) /\ Len(payments') <= MaxPayments
    BY DEF BooksInv, PayTypeOK, Recorded
  <1>2. /\ Recorded' = Recorded /\ payments'[r] = p
        /\ \A q \in Recorded : q # r => payments'[q] = payments[q]
    BY DEF BooksInv, PayTypeOK, Recorded
  <1>3. NoRefTwice'
    <2> DEFINE plain == [of |-> NoRef, reason |-> NoReason]
    <2>1. \A q, s \in Recorded : payments[q].ref = payments[s].ref
                                   => q = s \/ payments[q].ref = plain
      BY DEF BooksInv, NoRefTwice
    <2>2. \/ p.ref = payments[r].ref
          \/ p.ref = plain
          \/ \A q \in Recorded : payments[q].ref # p.ref
      BY DEF NewRef
    <2> HIDE DEF plain
    <2>3. \A q, s \in Recorded' :
             payments'[q].ref = payments'[s].ref => q = s \/ payments'[q].ref = plain
      BY <1>2, <2>1, <2>2
    <2> QED
      BY <2>3 DEF NoRefTwice, plain
  <1>4. ReasonsAreOfReversals'
    BY <1>2 DEF BooksInv, ReasonsAreOfReversals
  <1>5. \A q \in DOMAIN payments' : Received(payments'[q])
    BY <1>2, Rows DEF BooksInv, Recorded
  <1>6. LoanHasRow'
    <2>1. payments[r].ref = LoanRow => p.ref = LoanRow
      BY DEF LoanRow
    <2> QED
      BY <1>2, <2>1 DEF BooksInv, LoanHasRow
  <1> QED
    BY <1>1, <1>3, <1>4, <1>5, <1>6

\* A row that changes takes back what it brings less than nothing.
LEMMA TakenBackByChange ==
  ASSUME PayTypeOK, NEW r \in Recorded, NEW p \in Payments,
         payments' = [payments EXCEPT ![r] = p], NEW i \in Rounds,
         BroughtBy(payments[r], i) >= 0 \/ BroughtBy(p, i) < 0
  PROVE  TakenBack(i) => TakenBack(i)'
  <1>1. /\ Recorded' = Recorded /\ payments'[r] = p
        /\ \A q \in Recorded : q # r => payments'[q] = payments[q]
    BY DEF PayTypeOK, Recorded
  <1>2. BroughtBy(payments[r], i) \in Int
    BY Rows, BroughtByIsInt
  <1> QED
    BY <1>1, <1>2 DEF TakenBack, BroughtBy

\* manual_match keeps the invariant: only a row that has brought nothing is matched.
LEMMA ManualMatchKeeps ==
  ASSUME BooksInv, NEW r \in Recorded, NEW i \in Rounds, ManualMatch(r, i),
         UNCHANGED <<loan, disbursing, overwritten>>
  PROVE  BooksInv'
  <1>0. PayTypeOK /\ PaidIsExplained
    BY DEF BooksInv
  <1>1. PICK x \in Int : x = payments[r].amount
    BY <1>0, Rows
  <1>2. PICK fills : fills = [NoFills EXCEPT ![i] = x]
    OBVIOUS
  <1>3. fills \in Filled /\ fills[i] = x /\ \A j \in Rounds : j # i => fills[j] = 0
    BY <1>2 DEF NoFills, Filled
  <1>4. PICK p : p = [payments[r] EXCEPT !.status = "MATCHED", !.fills = fills]
    OBVIOUS
  <1>5. /\ payments[r] \in Payments
        /\ payments[r].status \notin {"MATCHED", "REVERSED"}
    BY <1>0, Rows DEF ManualMatch, Matchable
  <1>6. /\ p \in Payments /\ p.status = "MATCHED" /\ p.fills = fills
        /\ p.ref = payments[r].ref /\ p.amount = x
    BY <1>1, <1>3, <1>4, <1>5 DEF Payments
  <1>60. Received(p)
    <2>1. Received(payments[r])
      BY <1>0, Rows
    <2>2. x \in Nat => fills \in [Rounds -> Nat]
      BY <1>2 DEF NoFills
    <2> QED
      BY <1>1, <1>6, <2>1, <2>2 DEF Received
  <1>7. payments' = [payments EXCEPT ![r] = p]
    BY <1>1, <1>2, <1>4 DEF ManualMatch
  <1>8. payments[r].ref.reason = NoReason
    BY <1>5 DEF BooksInv, ReasonsAreOfReversals
  <1>9. /\ payments' \in Seq(Payments) /\ Len(payments') <= MaxPayments
        /\ \A q \in DOMAIN payments' : Received(payments'[q])
        /\ NoRefTwice' /\ ReasonsAreOfReversals' /\ LoanHasRow'
    BY <1>6, <1>60, <1>7, <1>8, SameRefs
  <1>10. /\ paid' = [paid EXCEPT ![i] = @ + x] /\ dated' = dated \cup {i}
    BY <1>1 DEF ManualMatch
  <1>11. PayTypeOK'
    BY <1>0, <1>9, <1>10 DEF PayTypeOK, Filled
  <1>12. ASSUME NEW j \in Rounds
         PROVE  /\ j \notin overwritten' => paid'[j] >= Brought(j)'
                /\ j \notin overwritten' /\ ~TakenBack(j)' => paid'[j] = Brought(j)'
                /\ paid'[j] >= RoundAmount => j \in dated'
    <2>1. Brought(j)' = Brought(j) - BroughtBy(payments[r], j) + BroughtBy(p, j)
      BY <1>0, <1>6, <1>7, BroughtByChange
    <2>2. BroughtBy(payments[r], j) = 0 /\ BroughtBy(p, j) = fills[j]
      BY <1>5, <1>6 DEF BroughtBy
    <2>3. Brought(j) \in Int /\ paid[j] \in Int /\ fills[j] \in Int
      BY <1>0, <1>3, BroughtIsInt DEF PayTypeOK, Filled
    <2>4. Brought(j)' = Brought(j) + fills[j]
      BY <2>1, <2>2, <2>3
    <2>5. paid'[j] = paid[j] + fills[j]
      BY <1>0, <1>3, <1>10, <2>3 DEF PayTypeOK, Filled
    <2>60. BroughtBy(payments[r], j) >= 0
      BY <2>2
    <2>6. TakenBack(j) => TakenBack(j)'
      BY <1>0, <1>6, <1>7, <2>60, TakenBackByChange
    <2>7. /\ j \notin overwritten => paid[j] >= Brought(j)
          /\ j \notin overwritten /\ ~TakenBack(j) => paid[j] = Brought(j)
          /\ paid[j] >= RoundAmount => j \in dated
      BY <1>0 DEF PaidIsExplained
    <2> QED
      BY <1>3, <1>10, <2>3, <2>4, <2>5, <2>6, <2>7
  <1>13. PaidIsExplained'
    BY <1>12 DEF PaidIsExplained
  <1> QED
    BY <1>9, <1>11, <1>13 DEF BooksInv

\* reverse_payment keeps the invariant: an installment that was not written over has what
\* is taken from it.
LEMMA ReverseKeeps ==
  ASSUME BooksInv, NEW r \in Recorded, NEW reason \in Reasons \cup {NoReason},
         ReversePayment(r, reason), UNCHANGED <<loan, disbursing, overwritten>>
  PROVE  BooksInv'
  <1>0. PayTypeOK /\ PaidIsExplained
    BY DEF BooksInv
  <1>1. PICK ref : ref = IF reason = NoReason THEN payments[r].ref
                         ELSE [payments[r].ref EXCEPT !.reason = reason]
    OBVIOUS
  <1>2. PICK p : p = [payments[r] EXCEPT !.status = "REVERSED", !.ref = ref]
    OBVIOUS
  <1>3. payments[r] \in Payments /\ payments[r].ref \in RawRefs
    BY <1>0, Rows
  <1>4. ref \in RawRefs
    BY <1>1, <1>3 DEF RawRefs
  <1>5. p \in Payments /\ p.status = "REVERSED" /\ p.ref = ref
    BY <1>2, <1>3, <1>4 DEF Payments
  <1>6. /\ payments' = [payments EXCEPT ![r] = p]
        /\ ref = payments[r].ref \/ NewRef(ref)
    BY <1>1, <1>2 DEF ReversePayment
  <1>60. Received(payments[r]) /\ payments[r].ref.of # LoanRef
    BY <1>0, Rows DEF ReversePayment
  <1>61. Received(p)
    BY <1>2, <1>3, <1>60 DEF Received, Payments
  <1>7. /\ payments' \in Seq(Payments) /\ Len(payments') <= MaxPayments
        /\ \A q \in DOMAIN payments' : Received(payments'[q])
        /\ NoRefTwice' /\ ReasonsAreOfReversals' /\ LoanHasRow'
    <2>1. p.ref = payments[r].ref \/ NewRef(p.ref)
      BY <1>5, <1>6
    <2>2. UNCHANGED loan
      OBVIOUS
    <2> QED
      BY <1>5, <1>6, <1>60, <1>61, <2>1, <2>2, SameRefs
  <1>8. PICK taken : taken = Taken(payments[r])
    OBVIOUS
  <1>9. taken \in [Rounds -> Nat] /\ \A j \in Rounds : BroughtBy(payments[r], j) = taken[j]
    BY <1>60, <1>8 DEF Received, Taken, BroughtBy, NoFills
  <1>10. /\ paid' = PaidLess(taken)
         /\ dated' = dated \ {j \in Rounds : taken[j] > 0 /\ paid'[j] < RoundAmount}
    BY <1>8 DEF ReversePayment
  <1>11. \A j \in Rounds : /\ paid[j] \in Int /\ taken[j] \in Nat
                           /\ paid'[j] = IF taken[j] > 0 /\ taken[j] > paid[j] THEN 0
                                         ELSE paid[j] - taken[j]
    BY <1>0, <1>9, <1>10 DEF PaidLess, PayTypeOK, Filled
  <1>12. paid' \in Filled
    <2>1. \A j \in Rounds : paid'[j] \in Int
      BY <1>11
    <2> QED
      BY <1>10, <2>1 DEF PaidLess, Filled
  <1>13. PayTypeOK'
    BY <1>0, <1>7, <1>10, <1>12 DEF PayTypeOK
  <1>14. ASSUME NEW j \in Rounds
         PROVE  /\ j \notin overwritten' => paid'[j] >= Brought(j)'
                /\ j \notin overwritten' /\ ~TakenBack(j)' => paid'[j] = Brought(j)'
                /\ paid'[j] >= RoundAmount => j \in dated'
    <2>1. Brought(j)' = Brought(j) - BroughtBy(payments[r], j) + BroughtBy(p, j)
      BY <1>0, <1>5, <1>6, BroughtByChange
    <2>2. BroughtBy(payments[r], j) = taken[j] /\ BroughtBy(p, j) = 0
      BY <1>5, <1>9 DEF BroughtBy
    <2>3. Brought(j) \in Int /\ (~TakenBack(j) => taken[j] <= Brought(j))
      BY <1>0, <2>2, BroughtIsInt
    <2>4. Brought(j)' = Brought(j) - taken[j]
      BY <1>11, <2>1, <2>2, <2>3
    <2>5. /\ j \notin overwritten => paid[j] >= Brought(j)
          /\ j \notin overwritten /\ ~TakenBack(j) => paid[j] = Brought(j)
          /\ paid[j] >= RoundAmount => j \in dated
      BY <1>0 DEF PaidIsExplained
    <2>6. RoundAmount \in Nat \ {0}
      BY PaymentAssumption
    <2>61. BroughtBy(payments[r], j) >= 0
      BY <1>11, <2>2
    <2>60. TakenBack(j) => TakenBack(j)'
      BY <1>0, <1>5, <1>6, <2>61, TakenBackByChange
    <2>7. /\ j \notin overwritten' => paid'[j] >= Brought(j)'
          /\ j \notin overwritten' /\ ~TakenBack(j)' => paid'[j] = Brought(j)'
      BY <1>11, <2>3, <2>4, <2>5, <2>60
    <2>8. paid'[j] >= RoundAmount => paid[j] >= RoundAmount
      BY <1>11, <2>6
    <2>9. paid'[j] >= RoundAmount => ~ (paid'[j] < RoundAmount)
      BY <1>11, <2>6
    <2> QED
      BY <1>10, <2>5, <2>7, <2>8, <2>9
  <1>15. PaidIsExplained'
    BY <1>14 DEF PaidIsExplained
  <1> QED
    BY <1>7, <1>13, <1>15 DEF BooksInv

\* What leaves the rows and the installments alone.
LEMMA LoanKeeps ==
  ASSUME BooksInv, PayTypeOK', UNCHANGED <<paid, dated, payments, overwritten>>,
         UNCHANGED loan \/ loan.status # "APPLIED"
  PROVE  BooksInv'
  <1>1. PaidIsExplained'
    <2>1. \A i \in Rounds : Brought(i)' = Brought(i) /\ (TakenBack(i)' <=> TakenBack(i))
      BY BroughtStays
    <2> QED
      BY <2>1 DEF BooksInv, PaidIsExplained
  <1>2. NoRefTwice' /\ ReasonsAreOfReversals' /\ LoanHasRow'
    BY DEF BooksInv, LoanHasRow, NoRefTwice, ReasonsAreOfReversals, Recorded
  <1> QED
    BY <1>1, <1>2 DEF BooksInv

\* The first half of execute_disbursement keeps the invariant.
LEMMA DisburseReadKeeps ==
  ASSUME BooksInv, NEW i \in Rounds, NEW amount \in Lent, DisburseRead(i, amount),
         UNCHANGED <<paid, dated, payments, loan, overwritten>>
  PROVE  BooksInv'
  <1>1. disbursing' \in Disbursements
    BY DEF BooksInv, PayTypeOK, DisburseRead, Disbursements, Filled
  <1>2. PayTypeOK'
    BY <1>1 DEF BooksInv, PayTypeOK
  <1> QED
    BY <1>2, LoanKeeps

\* repay_loan keeps the invariant.
LEMMA RepayKeeps ==
  ASSUME BooksInv, NEW amount \in Entered, RepayLoan(amount),
         UNCHANGED <<paid, dated, payments, disbursing, overwritten>>
  PROVE  BooksInv'
  <1>0. amount \in Nat
    BY PaymentAssumption
  <1>1. PICK repaid : repaid = Lesser(loan.lent, loan.repaid + amount)
    OBVIOUS
  <1>2. loan \in Loans /\ loan.lent \in Nat /\ loan.repaid \in Nat
    BY DEF BooksInv, PayTypeOK, Loans, RepayLoan
  <1>3. repaid \in Nat /\ repaid <= loan.lent
    BY <1>0, <1>1, <1>2 DEF Lesser
  <1>4. loan' = [loan EXCEPT !.repaid = repaid,
                             !.status = IF repaid = loan.lent THEN "REPAID" ELSE @]
    BY <1>1 DEF RepayLoan
  <1>5. loan' \in Loans /\ loan'.repaid <= loan'.lent
    BY <1>2, <1>3, <1>4 DEF Loans
  <1>6. PayTypeOK'
    BY <1>5 DEF BooksInv, PayTypeOK
  <1>7. loan.status # "APPLIED"
    BY DEF RepayLoan
  <1> QED
    BY <1>6, <1>7, LoanKeeps

\* The second half of execute_disbursement keeps the invariant: the sum that is written
\* has what was paid when it was read, and if that has changed, the installment is one
\* that was written over.
LEMMA DisburseWriteKeeps ==
  ASSUME BooksInv, DisburseWrite
  PROVE  BooksInv'
  <1>0. PayTypeOK /\ PaidIsExplained
    BY DEF BooksInv
  <1>1. PICK i, x, old : /\ i = disbursing.round /\ x = disbursing.amount
                         /\ old = disbursing.read
    OBVIOUS
  <1>2. i \in Rounds /\ x \in Int /\ old \in Int
    BY <1>0, <1>1, PaymentAssumption
       DEF PayTypeOK, DisburseWrite, Disbursements, NoDisbursement
  <1>3. disbursing' = NoDisbursement
    BY DEF DisburseWrite
  <1>4. CASE UNCHANGED <<paid, dated, payments, loan, overwritten>>
    <2>1. PayTypeOK'
      BY <1>0, <1>3, <1>4 DEF PayTypeOK, Disbursements
    <2> QED
      BY <1>4, <2>1, LoanKeeps
  <1>5. CASE ~ UNCHANGED <<paid, dated, payments, loan, overwritten>>
    <2>0. PICK sum \in Int : sum = IF x = 0 THEN paid[i] ELSE old + x
      BY <1>0, <1>2 DEF PayTypeOK, Filled
    <2>1. PICK fills : fills = [NoFills EXCEPT ![i] = x]
      OBVIOUS
    <2>2. fills \in Filled /\ fills[i] = x /\ \A j \in Rounds : j # i => fills[j] = 0
      BY <1>2, <2>1 DEF NoFills, Filled
    <2>3. /\ Adds("MATCHED", LoanRef, x, fills)
          /\ paid' = [paid EXCEPT ![i] = sum]
          /\ dated' = dated \cup {i}
          /\ loan' = [loan EXCEPT !.status = "EXECUTED", !.lent = @ + x]
          /\ overwritten' = overwritten \cup {j \in {i} : sum # paid[i] + x}
      BY <1>1, <1>5, <2>0, <2>1 DEF DisburseWrite
    <2>4. /\ payments' \in Seq(Payments) /\ Len(payments') <= MaxPayments
          /\ \A r \in DOMAIN payments' : Received(payments'[r])
          /\ NoRefTwice' /\ ReasonsAreOfReversals' /\ LoanHasRow'
          /\ \A j \in Rounds : /\ Brought(j)' = Brought(j) + fills[j]
                               /\ TakenBack(j)' <=> TakenBack(j) \/ fills[j] < 0
      BY <1>2, <2>2, <2>3, AddsKeeps
    <2>5. loan' \in Loans /\ (loan'.repaid <= loan'.lent \/ loan'.repaid = 0)
      <3>1. /\ loan \in Loans /\ loan.lent \in Int /\ loan.repaid \in Nat
            /\ loan.repaid <= loan.lent \/ loan.repaid = 0
        BY <1>0 DEF PayTypeOK, Loans
      <3>0. loan.repaid = 0
        <4>1. \A r \in Recorded : payments[r].ref # LoanRow
          BY <2>3, PaymentAssumption DEF Adds, NewRef, LoanRow
        <4> QED
          BY <4>1 DEF BooksInv, LoanHasRow
      <3>2. PICK lent : lent = loan.lent + x
        OBVIOUS
      <3>3. lent \in Int /\ (loan.repaid <= lent \/ loan.repaid = 0)
        BY <1>2, <3>0, <3>1, <3>2
      <3>4. loan' = [loan EXCEPT !.status = "EXECUTED", !.lent = lent]
        BY <2>3, <3>2
      <3> QED
        BY <3>1, <3>3, <3>4 DEF Loans
    <2>6. paid' \in Filled /\ dated' \subseteq Rounds /\ overwritten' \subseteq Rounds
      BY <1>0, <1>2, <2>3 DEF PayTypeOK, Filled
    <2>7. PayTypeOK'
      BY <1>3, <2>4, <2>5, <2>6 DEF PayTypeOK, Disbursements
    <2>8. ASSUME NEW j \in Rounds
          PROVE  /\ j \notin overwritten' => paid'[j] >= Brought(j)'
                 /\ j \notin overwritten' /\ ~TakenBack(j)' => paid'[j] = Brought(j)'
                 /\ paid'[j] >= RoundAmount => j \in dated'
      <3>1. paid[j] \in Int /\ Brought(j) \in Int /\ (TakenBack(j) => TakenBack(j)')
        BY <1>0, <2>4, BroughtIsInt DEF PayTypeOK, Filled
      <3>2. /\ j \notin overwritten => paid[j] >= Brought(j)
            /\ j \notin overwritten /\ ~TakenBack(j) => paid[j] = Brought(j)
            /\ paid[j] >= RoundAmount => j \in dated
        BY <1>0 DEF PaidIsExplained
      <3>3. CASE j = i
        <4>1. paid'[j] = sum /\ j \in dated'
          BY <1>0, <2>3, <3>3 DEF PayTypeOK, Filled
        <4>2. j \notin overwritten' => j \notin overwritten /\ sum = paid[j] + x
          BY <2>3, <3>3
        <4>3. Brought(j)' = Brought(j) + x
          BY <2>2, <2>4, <3>3
        <4> QED
          BY <1>2, <3>1, <3>2, <4>1, <4>2, <4>3
      <3>4. CASE j # i
        <4>1. paid'[j] = paid[j] /\ Brought(j)' = Brought(j)
          BY <1>0, <2>2, <2>3, <2>4, <3>1, <3>4 DEF PayTypeOK, Filled
        <4> QED
          BY <2>3, <3>1, <3>2, <4>1
      <3> QED
        BY <3>3, <3>4
    <2>9. PaidIsExplained'
      BY <2>8 DEF PaidIsExplained
    <2> QED
      BY <2>4, <2>7, <2>9 DEF BooksInv
  <1> QED
    BY <1>4, <1>5

-----------------------------------------------------------------------------
(* SalesPayments: the theorems.                                            *)

\* The invariant holds at the start.
LEMMA BooksInitHolds ==
  ASSUME PayInit
  PROVE  BooksInv
  <1>1. Recorded = {} /\ payments \in Seq(Payments) /\ Len(payments) = 0
    BY DEF PayInit, Recorded
  <1>2. PayTypeOK
    BY <1>1, PaymentAssumption
       DEF PayInit, PayTypeOK, NoFills, Filled, Loans, Disbursements
  <1>3. \A i \in Rounds : Brought(i) = 0
    BY <1>1, SumOfNone DEF Brought
  <1>4. PaidIsExplained
    BY <1>3, PaymentAssumption DEF PayInit, PaidIsExplained, NoFills
  <1>5. NoRefTwice /\ ReasonsAreOfReversals /\ LoanHasRow
    BY <1>1 DEF PayInit, LoanHasRow, NoRefTwice, ReasonsAreOfReversals
  <1> QED
    BY <1>2, <1>4, <1>5 DEF BooksInv

\* Every step keeps it.
LEMMA BooksStep ==
  ASSUME BooksInv, [PayNext]_payVars
  PROVE  BooksInv'
  <1>1. CASE BankStep
    <2>1. \A n \in Deposits : Worth[n] \in Nat
      BY PaymentAssumption
    <2>2. Entered \subseteq Nat
      BY PaymentAssumption
    <2>3. ASSUME NEW pref, NEW n \in Deposits, IngestPayment(n, Worth[n], pref)
          PROVE  BooksInv'
      BY <1>1, <2>1, <2>3, IngestKeeps DEF BankStep
    <2>4. ASSUME NEW pref, NEW amount \in Entered, IngestPayment(NoRef, amount, pref)
          PROVE  BooksInv'
      BY <1>1, <2>2, <2>4, IngestKeeps DEF BankStep
    <2> QED
      BY <1>1, <2>3, <2>4 DEF BankStep
  <1>2. CASE DeskStep
    BY <1>2, ManualMatchKeeps, ReverseKeeps DEF DeskStep
  <1>3. CASE LoanStep
    BY <1>3, DisburseReadKeeps, DisburseWriteKeeps, RepayKeeps DEF LoanStep
  <1>4. CASE UNCHANGED payVars
    <2>1. PayTypeOK'
      BY <1>4 DEF BooksInv, PayTypeOK, payVars
    <2> QED
      BY <1>4, <2>1, LoanKeeps DEF payVars
  <1> QED
    BY <1>1, <1>2, <1>3, <1>4 DEF PayNext

\* Every reachable state of a contract's payments has the invariant.
THEOREM BooksInvariance == PaySpec => []BooksInv
  <1>1. PayInit => BooksInv
    BY BooksInitHolds
  <1>2. BooksInv /\ [PayNext]_payVars => BooksInv'
    BY BooksStep
  <1> QED
    BY <1>1, <1>2, PTL DEF PaySpec

\* The types are those of the tables, for all contracts.
THEOREM PayTypesHold == PaySpec => []PayTypeOK
  <1>1. BooksInv => PayTypeOK
    BY DEF BooksInv
  <1> QED
    BY <1>1, BooksInvariance, PTL

\* The books of a contract are true: an installment has what the payments matched to it
\* brought unless a disbursement wrote over it, and a deposit is in the books once at a
\* time, however the bank, the desk and the lender interleave.
THEOREM BooksHold == PaySpec => []BooksAreTrue
  <1>1. BooksInv => BooksAreTrue
    BY BooksInvIsEnough
  <1> QED
    BY <1>1, BooksInvariance, PTL

-----------------------------------------------------------------------------
(* SalesCommission: the invariant.                                         *)

\* While signatures under two versions have not met, one signature at a time is behind the
\* lock of the master, and what it adds fits in the pool.
PoolFits ==
    ~mixed =>
       /\ Arisen <= Pool
       /\ \A d \in Deals : signing[d].at = "locked" =>
             /\ Arisen + signing[d].base <= Pool
             /\ \A e \in Deals : signing[e].at = "locked" => d = e

\* A contract is split once: only while it is reserved can it be signed.
SplitOnce ==
    \A d \in Deals :
       /\ signing[d].at # "no" => deal[d] = "RESERVED"
       /\ deal[d] = "RESERVED" => event[d] = NoEvent

\* A milestone is of a split that is there.
PlansHaveSplits == \A p \in Plans : plan[p] # NoPlan => Amount(plan[p].of) > 0

\* A milestone that is selected is not paid yet and selected by one run, unless two
\* selected it.
SelectedOnce ==
    \A r \in Runs : \A p \in run[r] :
       /\ plan[p] # NoPlan
       /\ p \notin doubled => plan[p].status = "PLANNED" /\ \A q \in Runs : p \in run[q] => q = r

\* A milestone is paid its part of the split, rounded up by half a unit at most, unless
\* that part is negative or less than nothing was held back.
PaidByHalves ==
    \A p \in Plans :
       plan[p] # NoPlan =>
          /\ plan[p].status = "PLANNED" => plan[p].gross = 0
          /\ p \notin doubled /\ plan[p].of \notin raised /\ plan[p].half >= 0
             => 2 * plan[p].gross <= Amount(plan[p].of) * plan[p].half + 1

\* One call plans both halves at most.
HalvesOf(s) == SumFunctionOnSet([p \in Plans |-> plan[p].half], PlansOf(s))
PlannedOnce ==
    \A s \in Planned :
       /\ planned[s] = 0 => PlansOf(s) = {}
       /\ planned[s] <= 1 => HalvesOf(s) <= 2

ComInv ==
    /\ ComTypeOK /\ PoolFits /\ SplitOnce
    /\ PlansHaveSplits /\ SelectedOnce /\ PaidByHalves /\ PlannedOnce

\* Amounts of an event and of a signature.
LEMMA BasesAreNat ==
  /\ \A e \in EventRows : e.base \in Nat /\ \A n \in Nodes : e.split[n] \in Nat
  /\ \A s \in Signings : s.base \in Nat /\ s.base \in Bases \cup {0}
  <1>1. \A b \in Bases \cup {0} : b \in Nat
    BY CommissionAssumption
  <1>2. \A e \in EventRows : e.base \in Bases \cup {0} /\ e.split \in [Nodes -> Nat]
    BY DEF EventRows
  <1>3. \A s \in Signings : s.base \in Bases \cup {0}
    BY DEF Signings
  <1> QED
    BY <1>1, <1>2, <1>3

\* The types of the rows, one by one.
LEMMA ComTypes ==
  ASSUME ComTypeOK
  PROVE  /\ \A d \in Deals : /\ event[d] \in EventRows /\ event[d].base \in Nat
                             /\ signing[d] \in Signings /\ signing[d].base \in Nat
                             /\ signing[d].base \in Bases \cup {0}
                             /\ \A n \in Nodes : event[d].split[n] \in Nat
         /\ \A p \in Plans : plan[p] # NoPlan => /\ plan[p] \in PlanRows
                                                 /\ plan[p].of \in Planned
                                                 /\ plan[p].half \in Halves
                                                 /\ plan[p].gross \in Nat
         /\ \A s \in Planned : /\ s[1] \in Deals /\ s[2] \in Nodes
                               /\ Amount(s) \in Nat /\ holdback[s] \in Int /\ planned[s] \in Nat
  <1>1. \A d \in Deals : event[d] \in EventRows /\ signing[d] \in Signings
    BY DEF ComTypeOK
  <1>2. \A e \in EventRows : e.base \in Nat /\ \A n \in Nodes : e.split[n] \in Nat
    BY BasesAreNat
  <1>3. \A s \in Signings : s.base \in Nat /\ s.base \in Bases \cup {0}
    BY BasesAreNat
  <1>4. \A p \in Plans : plan[p] # NoPlan => plan[p] \in PlanRows
    BY DEF ComTypeOK
  <1>5. \A p \in PlanRows : p.of \in Planned /\ p.half \in Halves /\ p.gross \in Nat
    BY DEF PlanRows
  <1>6. \A s \in Planned : s[1] \in Deals /\ s[2] \in Nodes
    BY CommissionAssumption DEF Nodes
  <1>7. \A s \in Planned : holdback[s] \in Int /\ planned[s] \in Nat
    BY CommissionAssumption DEF ComTypeOK
  <1>8. \A s \in Planned : Amount(s) \in Nat
    BY <1>1, <1>2, <1>6 DEF Amount
  <1> QED
    BY <1>1, <1>2, <1>3, <1>4, <1>5, <1>6, <1>7, <1>8

\* A row is not NoPlan.
LEMMA RowsAreThere == NoPlan \notin PlanRows
  BY CommissionAssumption DEF NoPlan, PlanRows

-----------------------------------------------------------------------------
(* SalesCommission: what has arisen.                                       *)

\* What has arisen is an amount.
LEMMA ArisenIsNat ==
  ASSUME ComTypeOK
  PROVE  /\ \A d \in Deals : arising[d] \in Nat
         /\ Arisen \in Nat
  <1>1. \A d \in Deals : arising[d] \in Nat
    BY ComTypes DEF arising
  <1> QED
    BY <1>1, SumNat, CommissionAssumption DEF Arisen

\* The event of one contract changes, and what has arisen by as much.
LEMMA ArisenChanges ==
  ASSUME ComTypeOK, ComTypeOK', NEW d \in Deals,
         \A e \in Deals : e # d => event'[e] = event[e]
  PROVE  Arisen' = Arisen - arising[d] + arising'[d]
  <1>1. PICK f, g : f = arising /\ g = arising'
    OBVIOUS
  <1>2. \A e \in Deals : f[e] \in Int /\ g[e] \in Int
    <2>1. \A e \in Deals : f[e] \in Int
      BY <1>1, ArisenIsNat
    <2>2. \A e \in Deals : event'[e] \in EventRows
      BY DEF ComTypeOK
    <2>3. \A e \in Deals : g[e] \in Nat
      BY <1>1, <2>2, BasesAreNat DEF arising
    <2> QED
      BY <2>1, <2>3
  <1>3. \A e \in Deals : e # d => f[e] = g[e]
    BY <1>1 DEF arising
  <1>4. IsFiniteSet(Deals) /\ d \in Deals
    BY CommissionAssumption
  <1>5. SumFunctionOnSet(g, Deals) = SumFunctionOnSet(f, Deals) - f[d] + g[d]
    BY <1>2, <1>3, <1>4, SumChanges
  <1> QED
    BY <1>1, <1>5 DEF Arisen

-----------------------------------------------------------------------------
(* SalesCommission: signatures and cancellations.                          *)

\* What changes neither the milestones nor the split of one that is planned leaves the rest
\* of the invariant as it is.
LEMMA SignaturesLeave ==
  ASSUME ComInv, UNCHANGED schedule, ComTypeOK', PoolFits', SplitOnce',
         \A s \in Planned : PlansOf(s) # {} => Amount(s)' = Amount(s)
  PROVE  ComInv'
  <1>1. UNCHANGED <<plan, planned, holdback, run, doubled, raised>>
    BY DEF schedule
  <1>2. \A p \in Plans : plan[p] # NoPlan =>
           plan[p].of \in Planned /\ Amount(plan[p].of)' = Amount(plan[p].of)
    BY <1>1, ComTypes DEF ComInv, PlansOf
  <1>3. PlansHaveSplits'
    <2> SUFFICES ASSUME NEW p \in Plans, plan'[p] # NoPlan PROVE Amount(plan[p].of)' > 0
      BY <1>1 DEF PlansHaveSplits
    <2> QED
      BY <1>1, <1>2 DEF ComInv, PlansHaveSplits
  <1>4. SelectedOnce'
    BY <1>1 DEF ComInv, SelectedOnce
  <1>5. PaidByHalves'
    BY <1>1, <1>2 DEF ComInv, PaidByHalves
  <1>6. PlannedOnce'
    BY <1>1 DEF ComInv, PlannedOnce, HalvesOf, PlansOf
  <1> QED
    BY <1>3, <1>4, <1>5, <1>6 DEF ComInv

\* A split that has milestones is of a contract that is not reserved any more.
LEMMA PlannedIsSplit ==
  ASSUME ComInv, NEW s \in Planned, PlansOf(s) # {}
  PROVE  /\ deal[s[1]] # "RESERVED" /\ signing[s[1]].at = "no"
         /\ s[1] \in Deals /\ s[2] \in Nodes
  <1>1. Amount(s) > 0
    BY DEF ComInv, PlansOf, PlansHaveSplits
  <1>2. s[1] \in Deals /\ s[2] \in Nodes
    BY ComTypes DEF ComInv
  <1>3. event[s[1]] # NoEvent
    BY <1>1, <1>2 DEF Amount, NoEvent, NoSplit
  <1> QED
    BY <1>2, <1>3 DEF ComInv, SplitOnce

\* A new version of the master keeps the invariant.
LEMMA NewMasterKeeps ==
  ASSUME ComInv, NewMaster
  PROVE  ComInv'
  <1>1. UNCHANGED <<deal, signing, event, schedule, mixed>> /\ master' \in Versions
    BY DEF NewMaster
  <1>2. ComTypeOK'
    BY <1>1 DEF ComInv, ComTypeOK, schedule
  <1>3. PoolFits'
    BY <1>1 DEF ComInv, PoolFits, Arisen, arising
  <1>4. SplitOnce'
    BY <1>1 DEF ComInv, SplitOnce
  <1>5. \A s \in Planned : Amount(s)' = Amount(s)
    BY <1>1 DEF Amount
  <1> QED
    BY <1>1, <1>2, <1>3, <1>4, <1>5, SignaturesLeave

\* The first part of a signature keeps the invariant.
LEMMA SignReadKeeps ==
  ASSUME ComInv, NEW d \in Deals, SignRead(d)
  PROVE  ComInv'
  <1>1. UNCHANGED <<deal, master, event, schedule, mixed>> /\ deal[d] = "RESERVED"
    BY DEF SignRead
  <1>2. PICK b \in Bases : signing' = [signing EXCEPT ![d] = [at |-> "read", version |-> master,
                                                             base |-> b]]
    BY DEF SignRead
  <1>3. ComTypeOK'
    BY <1>1, <1>2 DEF ComInv, ComTypeOK, Signings, schedule
  <1>4. \A e \in Deals : signing'[e].at = "locked" => signing'[e] = signing[e]
    BY <1>2 DEF ComInv, ComTypeOK
  <1>5. PoolFits'
    BY <1>1, <1>4 DEF ComInv, PoolFits, Arisen, arising
  <1>6. \A e \in Deals : e # d => signing'[e] = signing[e]
    BY <1>2 DEF ComInv, ComTypeOK
  <1>7. SplitOnce'
    BY <1>1, <1>6 DEF ComInv, SplitOnce
  <1>8. \A s \in Planned : Amount(s)' = Amount(s)
    BY <1>1 DEF Amount
  <1> QED
    BY <1>1, <1>3, <1>5, <1>7, <1>8, SignaturesLeave

\* The check of the pool keeps the invariant: behind the lock of the version it read a
\* signature is alone, and if another holds that of another version, the two have met.
LEMMA SignLockKeeps ==
  ASSUME ComInv, NEW d \in Deals, SignLock(d)
  PROVE  ComInv'
  <1>1. /\ UNCHANGED <<deal, master, event, schedule>>
        /\ signing[d].at = "read" /\ MasterFree(d)
        /\ mixed' = (mixed \/ \E e \in Deals : signing[e].at = "locked"
                                               /\ signing[e].version # signing[d].version)
    BY DEF SignLock
  <1>2. PICK row : /\ row = IF Arisen + signing[d].base > Pool THEN NotSigning
                            ELSE [signing[d] EXCEPT !.at = "locked"]
                   /\ signing' = [signing EXCEPT ![d] = row]
    BY DEF SignLock
  <1>3. signing[d] \in Signings
    BY DEF ComInv, ComTypeOK
  <1>4. NotSigning \in Signings
    BY DEF NotSigning, Signings
  <1>5. row \in Signings
    BY <1>2, <1>3, <1>4 DEF Signings
  <1>6. signing'[d] = row /\ \A e \in Deals : e # d => signing'[e] = signing[e]
    BY <1>2 DEF ComInv, ComTypeOK
  <1>7. ComTypeOK'
    BY <1>1, <1>2, <1>5 DEF ComInv, ComTypeOK, schedule
  <1>8. PoolFits'
    <2> SUFFICES ASSUME ~mixed'
                 PROVE  /\ Arisen <= Pool
                        /\ \A c \in Deals : signing'[c].at = "locked" =>
                              /\ Arisen + signing'[c].base <= Pool
                              /\ \A e \in Deals : signing'[e].at = "locked" => c = e
      BY <1>1 DEF PoolFits, Arisen, arising
    <2>1. ~mixed /\ \A e \in Deals : signing[e].at # "locked"
      BY <1>1 DEF MasterFree, ComInv, ComTypeOK
    <2>2. \A c \in Deals : signing'[c].at = "locked" => c = d
      BY <1>6, <2>1
    <2>3. Arisen \in Nat /\ Pool \in Nat /\ signing[d].base \in Nat
      BY ArisenIsNat, ComTypes, CommissionAssumption DEF ComInv
    <2>4. row.at = "locked" => Arisen + signing[d].base <= Pool /\ row.base = signing[d].base
      BY <1>2, <1>3, <2>3 DEF NotSigning, Signings
    <2>5. Arisen <= Pool
      BY <2>1 DEF ComInv, PoolFits
    <2> QED
      BY <1>6, <2>2, <2>4, <2>5
  <1>9. SplitOnce'
    BY <1>1, <1>6 DEF ComInv, SplitOnce
  <1>10. \A s \in Planned : Amount(s)' = Amount(s)
    BY <1>1 DEF Amount
  <1> QED
    BY <1>1, <1>7, <1>8, <1>9, <1>10, SignaturesLeave

\* The shares of a split are amounts.
LEMMA SharesAreAmounts ==
  ASSUME NEW total \in Nat, NEW split \in Shares(total)
  PROVE  split \in [Nodes -> Nat]
  <1>1. NoSplit \in [Nodes -> Nat]
    BY DEF NoSplit
  <1>2. ASSUME NEW share \in 0..total
        PROVE  [n \in Nodes |-> IF n = "member" THEN share ELSE total - share] \in [Nodes -> Nat]
    OBVIOUS
  <1> QED
    BY <1>1, <1>2 DEF Shares

\* The end of a signature keeps the invariant: what it adds was counted when it got the lock.
LEMMA SignCommitKeeps ==
  ASSUME ComInv, NEW d \in Deals, SignCommit(d)
  PROVE  ComInv'
  <1>1. /\ UNCHANGED <<master, schedule, mixed>>
        /\ signing[d].at = "locked"
        /\ signing' = [signing EXCEPT ![d] = NotSigning]
    BY DEF SignCommit
  <1>2. /\ signing' \in [Deals -> Signings]
        /\ signing'[d].at = "no"
        /\ \A e \in Deals : e # d => signing'[e] = signing[e]
    BY <1>1 DEF ComInv, ComTypeOK, NotSigning, Signings
  <1>3. deal[d] = "RESERVED"
    BY <1>1 DEF ComInv, SplitOnce
  <1>4. PICK b : b = signing[d].base
    OBVIOUS
  <1>5. b \in Nat /\ b \in Bases \cup {0}
    BY <1>4, ComTypes DEF ComInv
  <1>6. CASE UNCHANGED <<event, deal>>
    <2>1. ComTypeOK'
      BY <1>1, <1>2, <1>6 DEF ComInv, ComTypeOK, schedule
    <2>2. \A e \in Deals : signing'[e].at = "locked" => signing'[e] = signing[e]
      BY <1>2
    <2>3. PoolFits'
      BY <1>1, <1>6, <2>2 DEF ComInv, PoolFits, Arisen, arising
    <2>4. SplitOnce'
      BY <1>2, <1>6 DEF ComInv, SplitOnce
    <2>5. \A s \in Planned : Amount(s)' = Amount(s)
      BY <1>6 DEF Amount
    <2> QED
      BY <1>1, <2>1, <2>3, <2>4, <2>5, SignaturesLeave
  <1>7. ASSUME NEW split \in Shares(b),
               event' = [event EXCEPT ![d] = [status |-> "SPLIT", base |-> b, split |-> split]],
               deal' = [deal EXCEPT ![d] = "SIGNED"]
        PROVE  ComInv'
    <2>1. [status |-> "SPLIT", base |-> b, split |-> split] \in EventRows
      BY <1>5, SharesAreAmounts DEF EventRows
    <2>2. ComTypeOK'
      BY <1>1, <1>2, <1>7, <2>1 DEF ComInv, ComTypeOK, schedule
    <2>3. /\ event'[d].status = "SPLIT" /\ event'[d].base = b /\ deal'[d] = "SIGNED"
          /\ \A e \in Deals : e # d => event'[e] = event[e] /\ deal'[e] = deal[e]
      BY <1>7 DEF ComInv, ComTypeOK
    <2>4. Arisen' = Arisen - arising[d] + b
      <3>1. Arisen' = Arisen - arising[d] + arising'[d]
        BY <2>2, <2>3, ArisenChanges DEF ComInv
      <3>2. arising'[d] = b
        BY <2>3 DEF arising
      <3> QED
        BY <3>1, <3>2
    <2>5. Arisen \in Nat /\ arising[d] \in Nat /\ Pool \in Nat
      BY ArisenIsNat, CommissionAssumption DEF ComInv
    <2>6. PoolFits'
      <3> SUFFICES ASSUME ~mixed
                   PROVE  Arisen' <= Pool /\ \A e \in Deals : signing'[e].at # "locked"
        BY <1>1 DEF PoolFits
      <3>1. /\ Arisen + b <= Pool
            /\ \A e \in Deals : signing[e].at = "locked" => d = e
        BY <1>1, <1>4 DEF ComInv, PoolFits
      <3> QED
        BY <1>2, <1>5, <2>4, <2>5, <3>1
    <2>7. SplitOnce'
      BY <1>2, <2>3 DEF ComInv, SplitOnce
    <2>8. \A s \in Planned : PlansOf(s) # {} => Amount(s)' = Amount(s)
      BY <1>3, <2>3, PlannedIsSplit DEF Amount
    <2> QED
      BY <1>1, <2>2, <2>6, <2>7, <2>8, SignaturesLeave
  <1> QED
    BY <1>4, <1>6, <1>7 DEF SignCommit

\* A cancellation keeps the invariant: it takes from what has arisen.
LEMMA CancelKeeps ==
  ASSUME ComInv, NEW d \in Deals, CancelDeal(d)
  PROVE  ComInv'
  <1>1. /\ UNCHANGED <<master, signing, schedule, mixed>>
        /\ signing[d].at = "no"
        /\ deal' = [deal EXCEPT ![d] = "CANCELLED"]
    BY DEF CancelDeal
  <1>2. PICK status : status = IF event[d].status = "SPLIT" THEN "REVERSED" ELSE event[d].status
    OBVIOUS
  <1>3. event' = [event EXCEPT ![d].status = status]
    BY <1>2 DEF CancelDeal
  <1>4. event[d] \in EventRows
    BY DEF ComInv, ComTypeOK
  <1>5. status \in {"none", "REVERSED"}
    BY <1>2, <1>4 DEF EventRows
  <1>6. [event[d] EXCEPT !.status = status] \in EventRows
    BY <1>4, <1>5 DEF EventRows
  <1>7. ComTypeOK'
    BY <1>1, <1>3, <1>6 DEF ComInv, ComTypeOK, schedule
  <1>8. /\ event'[d].status = status /\ event'[d].split = event[d].split
        /\ deal'[d] = "CANCELLED"
        /\ \A e \in Deals : e # d => event'[e] = event[e] /\ deal'[e] = deal[e]
    BY <1>1, <1>3, <1>4 DEF ComInv, ComTypeOK, EventRows
  <1>9. Arisen' <= Arisen
    <2>1. Arisen' = Arisen - arising[d] + arising'[d]
      BY <1>7, <1>8, ArisenChanges DEF ComInv
    <2>2. arising'[d] = 0
      BY <1>5, <1>8 DEF arising
    <2> QED
      BY <2>1, <2>2, ArisenIsNat DEF ComInv
  <1>10. PoolFits'
    <2>1. Arisen' \in Int /\ Arisen \in Nat /\ Pool \in Nat
      <3>1. Arisen' = Arisen - arising[d] + arising'[d]
        BY <1>7, <1>8, ArisenChanges DEF ComInv
      <3>2. arising'[d] = 0
        BY <1>5, <1>8 DEF arising
      <3> QED
        BY <3>1, <3>2, ArisenIsNat, CommissionAssumption DEF ComInv
    <2>2. \A e \in Deals : signing[e].base \in Nat
      BY ComTypes DEF ComInv
    <2> SUFFICES ASSUME ~mixed
                 PROVE  /\ Arisen' <= Pool
                        /\ \A c \in Deals : signing[c].at = "locked" =>
                              /\ Arisen' + signing[c].base <= Pool
                              /\ \A e \in Deals : signing[e].at = "locked" => c = e
      BY <1>1 DEF PoolFits
    <2> QED
      BY <1>9, <2>1, <2>2 DEF ComInv, PoolFits
  <1>11. SplitOnce'
    BY <1>1, <1>8 DEF ComInv, SplitOnce
  <1>12. \A s \in Planned : Amount(s)' = Amount(s)
    BY <1>8, ComTypes DEF ComInv, Amount
  <1> QED
    BY <1>1, <1>7, <1>10, <1>11, <1>12, SignaturesLeave

-----------------------------------------------------------------------------
(* SalesCommission: milestones and payouts.                                *)

\* What leaves contracts, signatures and events alone leaves the first half of the invariant
\* as it is.
LEMMA ScheduleLeaves ==
  ASSUME ComInv, UNCHANGED <<deal, master, signing, event, mixed>>, ComTypeOK',
         PlansHaveSplits', SelectedOnce', PaidByHalves', PlannedOnce'
  PROVE  ComInv'
  <1>1. PoolFits'
    BY DEF ComInv, PoolFits, Arisen, arising
  <1>2. SplitOnce'
    BY DEF ComInv, SplitOnce
  <1> QED
    BY <1>1, <1>2 DEF ComInv

\* What is held back changes nothing that is claimed.
LEMMA HoldbackKeeps ==
  ASSUME ComInv, NEW s \in Planned, Holdback(s)
  PROVE  ComInv'
  <1>1. UNCHANGED <<deal, master, signing, event, plan, planned, run, doubled, raised, mixed>>
    BY DEF Holdback
  <1>2. PICK h \in -MaxHeld..MaxHeld : holdback' = [holdback EXCEPT ![s] = h]
    BY DEF Holdback
  <1>3. ComTypeOK'
    BY <1>1, <1>2 DEF ComInv, ComTypeOK
  <1>4. PlansHaveSplits' /\ PaidByHalves'
    BY <1>1 DEF ComInv, PlansHaveSplits, PaidByHalves, Amount
  <1>5. SelectedOnce' /\ PlannedOnce'
    BY <1>1 DEF ComInv, SelectedOnce, PlannedOnce, HalvesOf, PlansOf
  <1> QED
    BY <1>1, <1>3, <1>4, <1>5, ScheduleLeaves

\* create_schedule keeps the invariant: the first call for a split plans two halves at
\* most, and the milestones of others are as before.
LEMMA CreateScheduleKeeps ==
  ASSUME ComInv, NEW s \in Planned, CreateSchedule(s)
  PROVE  ComInv'
  <1>1. /\ UNCHANGED <<deal, master, signing, event, holdback, run, doubled, raised, mixed>>
        /\ planned' = [planned EXCEPT ![s] = @ + 1] /\ Amount(s) > 0
    BY DEF CreateSchedule
  <1>2. PICK P \in SUBSET Unused \ {{}} : \E half \in [P -> Halves] :
           /\ SumFunctionOnSet(half, P) <= 2
           /\ plan' = [p \in Plans |->
                 IF p \in P THEN [of |-> s, half |-> half[p], status |-> "PLANNED", gross |-> 0]
                 ELSE plan[p]]
    BY DEF CreateSchedule
  <1>3. PICK half \in [P -> Halves] :
           /\ SumFunctionOnSet(half, P) <= 2
           /\ plan' = [p \in Plans |->
                 IF p \in P THEN [of |-> s, half |-> half[p], status |-> "PLANNED", gross |-> 0]
                 ELSE plan[p]]
    BY <1>2
  <1>4. P \subseteq Plans /\ \A p \in P : plan[p] = NoPlan
    BY <1>2 DEF Unused
  <1>5. /\ \A p \in P : /\ plan'[p] \in PlanRows /\ plan'[p] # NoPlan
                        /\ plan'[p].of = s /\ plan'[p].half = half[p] /\ plan'[p].half \in Halves
                        /\ plan'[p].status = "PLANNED" /\ plan'[p].gross = 0
        /\ \A p \in Plans : p \notin P => plan'[p] = plan[p]
    BY <1>3, <1>4, RowsAreThere DEF PlanRows
  <1>6. ComTypeOK'
    <2>1. plan' \in [Plans -> PlanRows \cup {NoPlan}]
      BY <1>3, <1>5 DEF ComInv, ComTypeOK
    <2>2. planned' \in [Planned -> Nat]
      BY <1>1 DEF ComInv, ComTypeOK
    <2> QED
      BY <1>1, <2>1, <2>2 DEF ComInv, ComTypeOK
  <1>7. \A q \in Planned : Amount(q)' = Amount(q) /\ Amount(q) \in Nat
    BY <1>1, ComTypes DEF ComInv, Amount
  <1>8. \A p \in Plans : p \notin P /\ plan[p] # NoPlan => plan[p].of \in Planned
    BY ComTypes DEF ComInv
  <1>9. PlansHaveSplits'
    <2> SUFFICES ASSUME NEW p \in Plans, plan'[p] # NoPlan PROVE Amount(plan'[p].of) > 0
      BY <1>1 DEF PlansHaveSplits, Amount
    <2>1. CASE p \in P
      BY <1>1, <1>5, <1>7, <2>1
    <2>2. CASE p \notin P
      BY <1>5, <1>7, <1>8, <2>2 DEF ComInv, PlansHaveSplits
    <2> QED
      BY <2>1, <2>2
  <1>10. SelectedOnce'
    <2>1. \A r \in Runs : \A p \in run[r] : p \in Plans /\ p \notin P
      BY <1>4 DEF ComInv, ComTypeOK, SelectedOnce
    <2> QED
      BY <1>1, <1>5, <2>1 DEF ComInv, SelectedOnce
  <1>11. PaidByHalves'
    <2> SUFFICES ASSUME NEW p \in Plans, plan'[p] # NoPlan
                 PROVE  /\ plan'[p].status = "PLANNED" => plan'[p].gross = 0
                        /\ p \notin doubled /\ plan'[p].of \notin raised /\ plan'[p].half >= 0
                           => 2 * plan'[p].gross <= Amount(plan'[p].of) * plan'[p].half + 1
      BY <1>1 DEF PaidByHalves, Amount
    <2>1. CASE p \in P
      <3>1. PICK n \in Nat, h \in Int : n = Amount(s) /\ h = half[p]
        BY <1>5, <1>7, <2>1, CommissionAssumption
      <3>2. h >= 0 => n * h \in Nat
        OBVIOUS
      <3>3. h >= 0 => 0 <= n * h + 1
        BY <3>2
      <3> QED
        BY <1>5, <1>7, <2>1, <3>1, <3>3
    <2>2. CASE p \notin P
      BY <1>5, <1>7, <1>8, <2>2 DEF ComInv, PaidByHalves
    <2> QED
      BY <2>1, <2>2
  <1>12. PlannedOnce'
    <2> SUFFICES ASSUME NEW q \in Planned
                 PROVE  /\ planned'[q] = 0 => PlansOf(q)' = {}
                        /\ planned'[q] <= 1 => HalvesOf(q)' <= 2
      BY DEF PlannedOnce
    <2>1. PICK was, is : was = [p \in Plans |-> plan[p].half] /\ is = [p \in Plans |-> plan'[p].half]
      OBVIOUS
    <2>2. CASE q = s
      <3>1. planned[s] \in Nat /\ planned'[s] = planned[s] + 1
        BY <1>1 DEF ComInv, ComTypeOK
      <3>2. ASSUME planned'[s] <= 1
            PROVE  HalvesOf(s)' <= 2
        <4>1. PlansOf(s) = {}
          BY <3>1, <3>2 DEF ComInv, PlannedOnce
        <4>2. PlansOf(s)' = P
          BY <1>4, <1>5, <4>1 DEF PlansOf
        <4>3. IsFiniteSet(P)
          BY <1>4, FS_Subset, CommissionAssumption
        <4>4. \A p \in P : half[p] = is[p]
          BY <1>4, <1>5, <2>1
        <4>5. SumFunctionOnSet(half, P) = SumFunctionOnSet(is, P)
          BY <4>3, <4>4, SumOfSame
        <4>6. HalvesOf(s)' = SumFunctionOnSet(is, P)
          BY <2>1, <4>2 DEF HalvesOf
        <4> QED
          BY <1>3, <4>5, <4>6
      <3> QED
        BY <2>2, <3>1, <3>2
    <2>3. CASE q # s
      <3>1. planned'[q] = planned[q]
        BY <1>1, <2>3 DEF ComInv, ComTypeOK
      <3>2. PlansOf(q)' = PlansOf(q) /\ \A p \in PlansOf(q) : was[p] = is[p]
        BY <1>4, <1>5, <2>1, <2>3 DEF PlansOf
      <3>3. PICK Q : Q = PlansOf(q)
        OBVIOUS
      <3>4. IsFiniteSet(Q)
        BY <3>3, FS_Subset, CommissionAssumption DEF PlansOf
      <3>5. SumFunctionOnSet(was, Q) = SumFunctionOnSet(is, Q)
        BY <3>2, <3>3, <3>4, SumOfSame
      <3>6. HalvesOf(q)' = HalvesOf(q)
        BY <2>1, <3>2, <3>3, <3>5 DEF HalvesOf
      <3> QED
        BY <3>1, <3>2, <3>6 DEF ComInv, PlannedOnce
    <2> QED
      BY <2>2, <2>3
  <1> QED
    BY <1>1, <1>6, <1>9, <1>10, <1>11, <1>12, ScheduleLeaves

\* A payout run that selects milestones keeps the invariant: what another run has selected
\* already is selected by two.
LEMMA RunSelectKeeps ==
  ASSUME ComInv, NEW r \in Runs, RunSelect(r)
  PROVE  ComInv'
  <1>1. UNCHANGED <<deal, master, signing, event, plan, planned, holdback, raised, mixed>>
    BY DEF RunSelect
  <1>2. PICK S \in SUBSET {p \in Plans : Selectable(p)} :
           /\ run' = [run EXCEPT ![r] = S]
           /\ doubled' = doubled \cup (S \cap UNION {run[q] : q \in Runs})
    BY DEF RunSelect
  <1>3. S \subseteq Plans /\ \A p \in S : plan[p].status = "PLANNED" /\ plan[p] # NoPlan
    BY DEF Selectable, NoPlan
  <1>4. /\ run'[r] = S /\ \A q \in Runs : q # r => run'[q] = run[q]
        /\ doubled \subseteq doubled'
        /\ \A p \in S, q \in Runs : p \in run[q] => p \in doubled'
    BY <1>2 DEF ComInv, ComTypeOK
  <1>5. ComTypeOK'
    <2>1. run' \in [Runs -> SUBSET Plans] /\ doubled' \subseteq Plans
      BY <1>2, <1>3 DEF ComInv, ComTypeOK
    <2> QED
      BY <1>1, <2>1 DEF ComInv, ComTypeOK
  <1>6. SelectedOnce'
    <2> SUFFICES ASSUME NEW q \in Runs, NEW p \in run'[q]
                 PROVE  /\ plan[p] # NoPlan
                        /\ p \notin doubled' =>
                              /\ plan[p].status = "PLANNED"
                              /\ \A o \in Runs : p \in run'[o] => o = q
      BY <1>1 DEF SelectedOnce
    <2>1. CASE q = r
      BY <1>3, <1>4, <2>1
    <2>2. CASE q # r
      BY <1>4, <2>2 DEF ComInv, SelectedOnce
    <2> QED
      BY <2>1, <2>2
  <1>7. PlansHaveSplits' /\ PlannedOnce'
    BY <1>1 DEF ComInv, PlansHaveSplits, PlannedOnce, HalvesOf, PlansOf, Amount
  <1>8. PaidByHalves'
    <2>1. \A p \in Plans : Amount(plan[p].of)' = Amount(plan[p].of)
      BY <1>1 DEF Amount
    <2> QED
      BY <1>1, <1>4, <2>1 DEF ComInv, PaidByHalves
  <1> QED
    BY <1>1, <1>5, <1>6, <1>7, <1>8, ScheduleLeaves

\* Half of an amount is rounded up by half a unit at most.
LEMMA HalfEvenFits ==
  ASSUME NEW n \in Int
  PROVE  HalfEven(n) \in Int /\ 2 * HalfEven(n) <= n + 1
  BY DEF HalfEven

\* What a milestone is paid at once: where nothing or more is held back, no more than its
\* part.
LEMMA GrossFits ==
  ASSUME ComTypeOK, NEW p \in Plans, plan[p] # NoPlan
  PROVE  /\ Gross(p) \in Nat
         /\ holdback[plan[p].of] >= 0 /\ plan[p].half >= 0
            => 2 * Gross(p) <= Amount(plan[p].of) * plan[p].half + 1
  <1>1. PICK n \in Nat, h \in Int, back \in Int :
           n = Amount(plan[p].of) /\ h = plan[p].half /\ back = holdback[plan[p].of]
    BY ComTypes, CommissionAssumption
  <1>2. PICK m \in Int : m = n * h
    OBVIOUS
  <1>3. h >= 0 => m >= 0
    BY <1>2
  <1>4. PICK whole \in Int : whole = HalfEven(m) /\ 2 * whole <= m + 1
    BY HalfEvenFits
  <1>5. Gross(p) = IF whole - back > 0 THEN whole - back ELSE 0
    BY <1>1, <1>2, <1>4 DEF Gross
  <1>6. Gross(p) \in Nat /\ (back >= 0 /\ h >= 0 => 2 * Gross(p) <= m + 1)
    BY <1>3, <1>4, <1>5
  <1> QED
    BY <1>1, <1>2, <1>6

\* A payout run that pays keeps the invariant: what only it has selected had been paid
\* nothing, and no other run will pay it.
LEMMA RunPayKeeps ==
  ASSUME ComInv, NEW r \in Runs, RunPay(r)
  PROVE  ComInv'
  <1>1. /\ UNCHANGED <<deal, master, signing, event, planned, holdback, doubled, mixed>>
        /\ run' = [run EXCEPT ![r] = {}]
        /\ raised' = raised \cup {s \in Planned : holdback[s] < 0
                                                /\ \E p \in run[r] : plan[p].of = s}
    BY DEF RunPay
  <1>2. plan' = [p \in Plans |->
           IF p \in run[r] THEN [plan[p] EXCEPT !.status = "PAID", !.gross = @ + Gross(p)]
           ELSE plan[p]]
    BY DEF RunPay
  <1>3. run[r] \subseteq Plans /\ \A p \in run[r] : plan[p] # NoPlan
    BY DEF ComInv, ComTypeOK, SelectedOnce
  <1>4. \A p \in run[r] : /\ plan'[p] \in PlanRows /\ plan'[p] # NoPlan
                          /\ plan'[p].of = plan[p].of /\ plan'[p].half = plan[p].half
                          /\ plan'[p].status = "PAID"
                          /\ plan'[p].gross = plan[p].gross + Gross(p)
    <2> SUFFICES ASSUME NEW p \in run[r]
                 PROVE  /\ plan'[p] \in PlanRows /\ plan'[p] # NoPlan
                        /\ plan'[p].of = plan[p].of /\ plan'[p].half = plan[p].half
                        /\ plan'[p].status = "PAID"
                        /\ plan'[p].gross = plan[p].gross + Gross(p)
      OBVIOUS
    <2>1. plan[p] \in PlanRows /\ plan[p].gross \in Nat /\ Gross(p) \in Nat
      BY <1>3, ComTypes, GrossFits DEF ComInv
    <2>2. PICK g \in Nat : g = plan[p].gross + Gross(p)
      BY <2>1
    <2>3. plan'[p] = [plan[p] EXCEPT !.status = "PAID", !.gross = g]
      BY <1>2, <1>3, <2>2
    <2>4. plan'[p] \in PlanRows
      BY <2>1, <2>2, <2>3 DEF PlanRows
    <2> QED
      BY <2>1, <2>2, <2>3, <2>4, RowsAreThere DEF PlanRows
  <1>5. \A p \in Plans : p \notin run[r] => plan'[p] = plan[p]
    BY <1>2
  <1>6. ComTypeOK'
    <2>1. plan' \in [Plans -> PlanRows \cup {NoPlan}]
      BY <1>2, <1>4, <1>5 DEF ComInv, ComTypeOK
    <2>2. run' \in [Runs -> SUBSET Plans]
      BY <1>1 DEF ComInv, ComTypeOK
    <2> QED
      BY <1>1, <2>1, <2>2 DEF ComInv, ComTypeOK
  <1>7. \A p \in Plans : /\ plan'[p].of = plan[p].of /\ plan'[p].half = plan[p].half
                         /\ plan'[p] # NoPlan <=> plan[p] # NoPlan
    BY <1>3, <1>4, <1>5
  <1>8. PlansHaveSplits'
    <2> SUFFICES ASSUME NEW p \in Plans, plan'[p] # NoPlan PROVE Amount(plan'[p].of) > 0
      BY <1>1 DEF PlansHaveSplits, Amount
    <2> QED
      BY <1>7 DEF ComInv, PlansHaveSplits
  <1>9. SelectedOnce'
    <2>1. run'[r] = {} /\ \A q \in Runs : q # r => run'[q] = run[q]
      BY <1>1 DEF ComInv, ComTypeOK
    <2> SUFFICES ASSUME NEW q \in Runs, q # r, NEW p \in run[q]
                 PROVE  /\ plan'[p] # NoPlan
                        /\ p \notin doubled =>
                              /\ plan'[p].status = "PLANNED"
                              /\ \A o \in Runs : p \in run[o] => o = q
      BY <1>1, <2>1 DEF SelectedOnce
    <2>2. p \in Plans /\ plan[p] # NoPlan
      BY DEF ComInv, ComTypeOK, SelectedOnce
    <2>3. plan'[p] # NoPlan
      BY <1>7, <2>2
    <2>4. ASSUME p \notin doubled
          PROVE  /\ plan'[p].status = "PLANNED"
                 /\ \A o \in Runs : p \in run[o] => o = q
      <3>1. plan[p].status = "PLANNED" /\ \A o \in Runs : p \in run[o] => o = q
        BY <2>4 DEF ComInv, SelectedOnce
      <3>2. p \notin run[r]
        BY <3>1
      <3> QED
        BY <1>5, <2>2, <3>1, <3>2
    <2> QED
      BY <2>3, <2>4
  <1>10. PaidByHalves'
    <2> SUFFICES ASSUME NEW p \in Plans, plan'[p] # NoPlan
                 PROVE  /\ plan'[p].status = "PLANNED" => plan'[p].gross = 0
                        /\ p \notin doubled /\ plan'[p].of \notin raised' /\ plan'[p].half >= 0
                           => 2 * plan'[p].gross <= Amount(plan'[p].of) * plan'[p].half + 1
      BY <1>1 DEF PaidByHalves, Amount
    <2>1. CASE p \notin run[r]
      <3>1. plan'[p] = plan[p] /\ plan[p] # NoPlan /\ raised \subseteq raised'
        BY <1>1, <1>5, <2>1
      <3> QED
        BY <3>1 DEF ComInv, PaidByHalves
    <2>2. CASE p \in run[r]
      <3>1. plan'[p].status = "PAID"
        BY <1>4, <2>2
      <3>2. ASSUME p \notin doubled, plan'[p].of \notin raised', plan'[p].half >= 0
            PROVE  2 * plan'[p].gross <= Amount(plan'[p].of) * plan'[p].half + 1
        <4>1. plan[p] # NoPlan /\ plan[p].gross = 0
          BY <2>2, <3>2 DEF ComInv, SelectedOnce, PaidByHalves
        <4>20. plan[p].of \in Planned /\ holdback[plan[p].of] \in Int
          BY <4>1, ComTypes DEF ComInv
        <4>21. holdback[plan[p].of] >= 0 /\ plan[p].half >= 0
          BY <1>1, <1>7, <2>2, <3>2, <4>20
        <4>2. Gross(p) \in Nat /\ 2 * Gross(p) <= Amount(plan[p].of) * plan[p].half + 1
          BY <4>1, <4>21, GrossFits DEF ComInv
        <4>3. plan'[p].gross = Gross(p)
          BY <1>4, <2>2, <4>1, <4>2
        <4> QED
          BY <1>7, <4>2, <4>3
      <3> QED
        BY <3>1, <3>2
    <2> QED
      BY <2>1, <2>2
  <1>11. PlannedOnce'
    <2>1. PICK was, is : was = [p \in Plans |-> plan[p].half] /\ is = [p \in Plans |-> plan'[p].half]
      OBVIOUS
    <2>2. was = is
      BY <1>7, <2>1
    <2>3. \A s \in Planned : PlansOf(s)' = PlansOf(s)
      BY <1>7 DEF PlansOf
    <2>4. \A s \in Planned : HalvesOf(s)' = HalvesOf(s)
      BY <2>1, <2>2, <2>3 DEF HalvesOf
    <2> QED
      BY <1>1, <2>3, <2>4 DEF ComInv, PlannedOnce
  <1> QED
    BY <1>1, <1>6, <1>8, <1>9, <1>10, <1>11, ScheduleLeaves

-----------------------------------------------------------------------------
(* SalesCommission: the theorems.                                          *)

\* The invariant holds at the start.
LEMMA ComInitHolds ==
  ASSUME ComInit
  PROVE  ComInv
  <1>1. NotSigning \in Signings /\ NoEvent \in EventRows
    BY DEF NotSigning, Signings, NoEvent, NoSplit, EventRows
  <1>2. ComTypeOK
    <2>1. 0 \in -MaxHeld..MaxHeld /\ 1 \in Versions
      BY CommissionAssumption
    <2>2. /\ deal \in [Deals -> {"RESERVED", "SIGNED", "CANCELLED"}]
          /\ signing \in [Deals -> Signings] /\ event \in [Deals -> EventRows]
      BY <1>1 DEF ComInit
    <2>3. /\ plan \in [Plans -> PlanRows \cup {NoPlan}]
          /\ planned \in [Planned -> Nat] /\ holdback \in [Planned -> -MaxHeld..MaxHeld]
      BY <2>1 DEF ComInit
    <2>4. run \in [Runs -> SUBSET Plans]
      BY DEF ComInit
    <2> QED
      BY <2>1, <2>2, <2>3, <2>4 DEF ComInit, ComTypeOK
  <1>3. \A d \in Deals : arising[d] = 0
    BY DEF ComInit, arising, NoEvent
  <1>4. Arisen = 0
    BY <1>3, SumOfZeros, CommissionAssumption DEF Arisen
  <1>5. PoolFits
    BY <1>4, CommissionAssumption DEF ComInit, PoolFits, NotSigning
  <1>6. SplitOnce
    BY DEF ComInit, SplitOnce, NotSigning
  <1>7. PlansHaveSplits /\ SelectedOnce /\ PaidByHalves
    BY DEF ComInit, PlansHaveSplits, SelectedOnce, PaidByHalves
  <1>8. \A s \in Planned : PlansOf(s) = {}
    BY DEF ComInit, PlansOf
  <1>9. PlannedOnce
    BY <1>8, SumOfNone DEF PlannedOnce, HalvesOf
  <1> QED
    BY <1>2, <1>5, <1>6, <1>7, <1>9 DEF ComInv

\* Every step keeps it.
LEMMA ComStep ==
  ASSUME ComInv, [ComNext]_comVars
  PROVE  ComInv'
  <1>1. CASE ComNext
    BY <1>1, NewMasterKeeps, SignReadKeeps, SignLockKeeps, SignCommitKeeps, CancelKeeps,
       CreateScheduleKeeps, HoldbackKeeps, RunSelectKeeps, RunPayKeeps DEF ComNext
  <1>2. CASE UNCHANGED comVars
    <2>1. UNCHANGED <<deal, master, signing, event, plan, planned, holdback, run, doubled, raised,
                   mixed>>
      BY <1>2 DEF comVars
    <2>2. ComTypeOK'
      BY <2>1 DEF ComInv, ComTypeOK
    <2>3. PlansHaveSplits' /\ PaidByHalves'
      BY <2>1 DEF ComInv, PlansHaveSplits, PaidByHalves, Amount
    <2>4. SelectedOnce' /\ PlannedOnce'
      BY <2>1 DEF ComInv, SelectedOnce, PlannedOnce, HalvesOf, PlansOf
    <2> QED
      BY <2>1, <2>2, <2>3, <2>4, ScheduleLeaves
  <1> QED
    BY <1>1, <1>2

\* What the milestones of a split are paid: their halves of it, which are two at most, and
\* half a unit each.
LEMMA SplitIsEnough ==
  ASSUME ComInv
  PROVE  PaidWithinSplit
  <1> SUFFICES ASSUME NEW s \in Planned, planned[s] <= 1, \A p \in PlansOf(s) : plan[p].half >= 0,
                      PlansOf(s) \cap doubled = {}, s \notin raised
               PROVE  2 * SumFunctionOnSet([p \in Plans |-> plan[p].gross], PlansOf(s))
                         <= 2 * Amount(s) + Cardinality(PlansOf(s))
    BY DEF PaidWithinSplit
  <1>1. PICK Q, n, gross, half : /\ Q = PlansOf(s) /\ n = Amount(s)
                                 /\ gross = [p \in Plans |-> plan[p].gross]
                                 /\ half = [p \in Plans |-> plan[p].half]
    OBVIOUS
  <1>2. Q \subseteq Plans /\ IsFiniteSet(Q) /\ n \in Nat
    BY <1>1, FS_Subset, CommissionAssumption, ComTypes DEF PlansOf, ComInv
  <1>3. \A p \in Q : /\ gross[p] \in Nat /\ half[p] \in Nat
                     /\ 2 * gross[p] <= n * half[p] + 1
    <2> SUFFICES ASSUME NEW p \in Q
                 PROVE  /\ gross[p] \in Nat /\ half[p] \in Nat
                        /\ 2 * gross[p] <= n * half[p] + 1
      OBVIOUS
    <2>1. p \in Plans /\ plan[p] # NoPlan /\ plan[p].of = s /\ p \notin doubled
      BY <1>1 DEF PlansOf
    <2>2. gross[p] = plan[p].gross /\ half[p] = plan[p].half
      BY <1>1, <2>1
    <2>3. plan[p].gross \in Nat /\ plan[p].half \in Nat
      <3>1. plan[p].gross \in Nat /\ plan[p].half \in Int
        BY <2>1, ComTypes, CommissionAssumption DEF ComInv
      <3>2. plan[p].half >= 0
        BY <1>1
      <3> QED
        BY <3>1, <3>2
    <2>4. 2 * plan[p].gross <= n * plan[p].half + 1
      BY <1>1, <2>1, <2>3 DEF ComInv, PaidByHalves
    <2> QED
      BY <2>2, <2>3, <2>4
  <1>4. PICK H \in Nat, G \in Nat :
           H = SumFunctionOnSet(half, Q) /\ G = SumFunctionOnSet(gross, Q)
    BY <1>2, <1>3, SumNat
  <1>5. H <= 2
    BY <1>1, <1>4 DEF ComInv, PlannedOnce, HalvesOf
  <1>6. PICK twice, times, one, most :
           /\ twice = [p \in Q |-> gross[p] * 2] /\ times = [p \in Q |-> half[p] * n]
           /\ one = [p \in Q |-> IF p \in Q THEN 1 ELSE 0]
           /\ most = [p \in Q |-> times[p] + one[p]]
    OBVIOUS
  <1>7. \A p \in Q : /\ twice[p] = gross[p] * 2 /\ times[p] = half[p] * n /\ one[p] = 1
                     /\ most[p] = times[p] + one[p]
    BY <1>6
  <1>8. \A p \in Q : /\ twice[p] \in Int /\ times[p] \in Int /\ one[p] \in Int /\ most[p] \in Int
                     /\ twice[p] <= most[p]
    <2> SUFFICES ASSUME NEW p \in Q
                 PROVE  /\ twice[p] \in Int /\ times[p] \in Int /\ one[p] \in Int
                        /\ most[p] \in Int /\ twice[p] <= most[p]
      OBVIOUS
    <2>1. PICK g \in Nat, h \in Nat : g = gross[p] /\ h = half[p] /\ 2 * g <= n * h + 1
      BY <1>3
    <2>2. h * n \in Nat /\ h * n = n * h
      BY <1>2
    <2> QED
      BY <1>7, <2>1, <2>2
  <1>9. SumFunctionOnSet(twice, Q) = G * 2
    BY <1>2, <1>3, <1>4, <1>7, SumTimes
  <1>10. SumFunctionOnSet(times, Q) = H * n
    BY <1>2, <1>3, <1>4, <1>7, SumTimes
  <1>11. SumFunctionOnSet(one, Q) = Cardinality(Q) /\ Cardinality(Q) \in Nat
    <2>1. SumFunctionOnSet(one, Q) = Cardinality(Q) * 1
      BY <1>2, <1>6, SumOfSome
    <2> QED
      BY <1>2, <2>1, FS_CardinalityType
  <1>12. SumFunctionOnSet(most, Q) = SumFunctionOnSet(times, Q) + SumFunctionOnSet(one, Q)
    BY <1>2, <1>7, <1>8, SumOfBoth
  <1>13. SumFunctionOnSet(twice, Q) <= SumFunctionOnSet(most, Q)
    BY <1>2, <1>8, SumAtMost
  <1>14. H * n \in Nat /\ H * n <= 2 * n
    BY <1>2, <1>5
  <1>15. 2 * G <= 2 * n + Cardinality(Q)
    BY <1>2, <1>9, <1>10, <1>11, <1>12, <1>13, <1>14
  <1> QED
    BY <1>1, <1>4, <1>15

\* Every reachable state of a site's commission has the invariant.
THEOREM ComInvariance == ComSpec => []ComInv
  <1>1. ComInit => ComInv
    BY ComInitHolds
  <1>2. ComInv /\ [ComNext]_comVars => ComInv'
    BY ComStep
  <1> QED
    BY <1>1, <1>2, PTL DEF ComSpec

\* The types are those of the tables, for all sites.
THEOREM ComTypesHold == ComSpec => []ComTypeOK
  <1>1. ComInv => ComTypeOK
    BY DEF ComInv
  <1> QED
    BY <1>1, ComInvariance, PTL

\* However many signatures are in progress, no more arises than the pool has, unless
\* signatures under two versions of the master met.
THEOREM PoolIsKept == ComSpec => []PoolKept
  <1>1. ComInv => PoolKept
    BY DEF ComInv, PoolFits, PoolKept
  <1> QED
    BY <1>1, ComInvariance, PTL

\* A node is paid no more than its split and the rounding, unless it was planned twice or
\* two runs selected the same milestone.
THEOREM SplitsArePaidOnce == ComSpec => []PaidWithinSplit
  <1>1. ComInv => PaidWithinSplit
    BY SplitIsEnough
  <1> QED
    BY <1>1, ComInvariance, PTL

-----------------------------------------------------------------------------
(* The three parts beside each other (MCSales): a step is one of one part, *)
(* and what a part keeps, it keeps there.                                  *)

\* Only the part that was chosen takes steps.
LEMMA SalesPartsApart ==
  ASSUME [SalesNext]_<<part, vars, payVars, comVars>>
  PROVE  [Next]_vars /\ [PayNext]_payVars /\ [ComNext]_comVars
  BY DEF SalesNext

\* No statement writes a value that its column does not take, in any of the tables of a
\* sale: the units, the payments of a contract, the commission.
THEOREM SalesTypesHold == SalesSpec => []SalesTypesOK
  <1>1. SalesInit => Init /\ PayInit /\ ComInit
    BY DEF SalesInit
  <1>2. [SalesNext]_<<part, vars, payVars, comVars>>
        => [Next]_vars /\ [PayNext]_payVars /\ [ComNext]_comVars
    BY SalesPartsApart
  <1>3. SalesSpec => Spec /\ PaySpec /\ ComSpec
    BY <1>1, <1>2, PTL DEF SalesSpec, Spec, PaySpec, ComSpec
  <1>4. TypeOK /\ PayTypeOK /\ ComTypeOK => SalesTypesOK
    BY DEF SalesTypesOK
  <1> QED
    BY <1>3, <1>4, UnitsTyped, PayTypesHold, ComTypesHold, PTL

=============================================================================
