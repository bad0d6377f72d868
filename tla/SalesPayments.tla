---------------------------- MODULE SalesPayments ----------------------------
(***************************************************************************)
(* What the buyer of one contract has paid: its installments, the payments *)
(* that were filled into them, and the loan that pays some of them.        *)
(* ingest_payment and reverse_payment of services/sales/payment/service.py,*)
(* manual_match of endpoints/sales/lifecycle_p5.py, execute_disbursement   *)
(* and repay_loan of services/sales/loan/service.py.                       *)
(*                                                                         *)
(* A handler is one transaction.  Those that lock the installments they    *)
(* change are one step; execute_disbursement reads one without a lock and  *)
(* later writes what it computed, so it takes two.                         *)
(*                                                                         *)
(* What is received and what is repaid is refused unless it is positive.   *)
(* What is lent is not: a disbursement may be of nothing or of less, and   *)
(* take from the installment.                                              *)
(***************************************************************************)
EXTENDS Integers, Sequences, FiniteSets, Functions

CONSTANTS
    Rounds,      \* seq of the installments
    RoundAmount, \* sales_contract_installments.amount, of each
    Deposits,    \* money received that comes with a raw_ref
    Worth,       \* what a deposit is worth
    Entered,     \* amounts entered by hand: without a raw_ref, repaid
    Lent,        \* amounts execute_disbursement is given, which nothing checks
    NoRef,       \* a payment entered without a raw_ref
    LoanRef,     \* "loan:{agreement_id}" of the contract's one loan agreement
    Reasons,     \* reasons given for a reversal
    NoReason,    \* none given
    NoRound,     \* NULL: no preferred installment
    MaxPayments  \* bound: the rows of sales_payments

ASSUME PaymentAssumption ==
    /\ Rounds \subseteq Nat /\ IsFiniteSet(Rounds) /\ NoRound \notin Rounds
    /\ RoundAmount \in Nat \ {0}
    /\ Worth \in [Deposits -> Nat \ {0}] /\ Entered \subseteq Nat \ {0}
    /\ Lent \subseteq Int
    /\ NoRef # LoanRef /\ NoRef \notin Deposits /\ LoanRef \notin Deposits
    /\ NoReason \notin Reasons
    /\ MaxPayments \in Nat

VARIABLES
    paid,        \* paid_amount of an installment
    dated,       \* the installments with a paid_at
    payments,    \* sales_payments, in the order of their creation
    loan,        \* the agreement and its disbursements
    disbursing,  \* the disbursement in progress
    overwritten  \* history: installments whose paid_amount a disbursement wrote over

payVars == <<paid, dated, payments, loan, disbursing, overwritten>>

-----------------------------------------------------------------------------
(* Types *)

Filled  == [Rounds -> Int]
NoFills == [i \in Rounds |-> 0]

\* raw_ref: what it names, and the reason a reversal has appended.
RawRefs  == [of : Deposits \cup {NoRef, LoanRef}, reason : Reasons \cup {NoReason}]
Payments == [status : {"UNMATCHED", "SURPLUS", "MATCHED", "REVERSED"}, ref : RawRefs,
             amount : Int, fills : Filled]
Loans    == [status : {"APPLIED", "EXECUTED", "REPAID"}, lent : Int, repaid : Nat]
NoDisbursement == [round |-> NoRound, amount |-> 0, read |-> 0]
Disbursements  == {NoDisbursement} \cup [round : Rounds, amount : Lent, read : Int]

\* Only what is lent can take from an installment.
Received(p) == p.ref.of # LoanRef => p.amount \in Nat /\ p.fills \in [Rounds -> Nat]

PayTypeOK ==
    /\ paid \in Filled /\ dated \subseteq Rounds
    /\ payments \in Seq(Payments) /\ Len(payments) <= MaxPayments
    /\ \A r \in DOMAIN payments : Received(payments[r])
    /\ loan \in Loans
    /\ loan.repaid <= loan.lent \/ loan.repaid = 0
    /\ disbursing \in Disbursements
    /\ overwritten \subseteq Rounds

PayInit ==
    /\ paid = NoFills /\ dated = {}
    /\ payments = <<>>
    /\ loan = [status |-> "APPLIED", lent |-> 0, repaid |-> 0]
    /\ disbursing = NoDisbursement
    /\ overwritten = {}

-----------------------------------------------------------------------------
(* The rows of sales_payments *)

Recorded == DOMAIN payments

\* uq_pay_site_raw_ref, the unique index where raw_ref is not NULL.
NewRef(ref) == ref = [of |-> NoRef, reason |-> NoReason] \/ \A r \in Recorded : payments[r].ref # ref

\* A row is added; a raw_ref that is there already fails the transaction, or was
\* seen before anything was done and is answered as a duplicate.
Adds(status, of, amount, fills) ==
    LET ref == [of |-> of, reason |-> NoReason]
    IN  /\ Len(payments) < MaxPayments
        /\ NewRef(ref)
        /\ payments' = Append(payments, [status |-> status, ref |-> ref,
                                         amount |-> amount, fills |-> fills])

-----------------------------------------------------------------------------
(* ingest_payment *)

Lesser(m, n) == IF m <= n THEN m ELSE n

Due(i) == IF paid[i] < RoundAmount THEN RoundAmount - paid[i] ELSE 0

\* _order_installments: the preferred installment first, the others by seq.
Before(pref, i) ==
    IF i = pref THEN {} ELSE {j \in Rounds : j < i} \cup ({pref} \cap Rounds)

\* What is left of an amount when the installments before i are filled goes to i.
Allocated(amount, pref) ==
    [i \in Rounds |->
        LET left == amount - SumFunctionOnSet([j \in Rounds |-> Due(j)], Before(pref, i))
        IN  IF left <= 0 THEN 0 ELSE Lesser(left, Due(i))]

\* A deposit to an unknown virtual account waits to be matched by hand; one that
\* finds all installments paid is surplus.
IngestPayment(of, amount, pref) ==
    LET fills == Allocated(amount, pref)
    IN  \/ /\ Adds("UNMATCHED", of, amount, NoFills)
           /\ UNCHANGED <<paid, dated>>
        \/ /\ Adds(IF fills = NoFills THEN "SURPLUS" ELSE "MATCHED", of, amount, fills)
           /\ paid' = [i \in Rounds |-> paid[i] + fills[i]]
           /\ dated' = dated \cup {i \in Rounds : fills[i] > 0 /\ fills[i] = Due(i)}

-----------------------------------------------------------------------------
(* manual_match, reverse_payment *)

\* (mutant: a reversed payment can be matched again)
MatchableAgain(p) == p.status # "MATCHED"
Matchable(p) == p.status \notin {"MATCHED", "REVERSED"}

\* All of it goes to one installment, whatever that lacks.
ManualMatch(r, i) ==
    /\ Matchable(payments[r])
    /\ payments' = [payments EXCEPT ![r].status = "MATCHED",
                                    ![r].fills = [NoFills EXCEPT ![i] = payments[r].amount]]
    /\ paid' = [paid EXCEPT ![i] = @ + payments[r].amount]
    /\ dated' = dated \cup {i}

\* (mutant: all of it is taken from the first installment it went to, as before
\* the allocations were recorded)
TakenFromFirst(p) ==
    [i \in Rounds |-> IF p.fills[i] > 0 /\ \A j \in Rounds : j < i => p.fills[j] = 0
                      THEN p.amount ELSE 0]
Taken(p) == IF p.status = "MATCHED" THEN p.fills ELSE NoFills

\* max(paid_amount - amount, 0), where something is taken.
PaidLess(taken) ==
    [i \in Rounds |-> IF taken[i] > 0 /\ taken[i] > paid[i] THEN 0 ELSE paid[i] - taken[i]]

\* What the loan has paid is not reversed here.  A reason is appended to raw_ref,
\* and what the index then has already makes the reversal fail.
ReversePayment(r, reason) ==
    LET p     == payments[r]
        ref   == IF reason = NoReason THEN p.ref ELSE [p.ref EXCEPT !.reason = reason]
        less  == PaidLess(Taken(p))
    IN  /\ p.status # "REVERSED"
        /\ p.ref.of # LoanRef
        /\ ref = p.ref \/ NewRef(ref)
        /\ payments' = [payments EXCEPT ![r].status = "REVERSED", ![r].ref = ref]
        /\ paid' = less
        /\ dated' = dated \ {i \in Rounds : Taken(p)[i] > 0 /\ less[i] < RoundAmount}

-----------------------------------------------------------------------------
(* The loan *)

DisburseRead(i, amount) ==
    /\ disbursing = NoDisbursement
    /\ disbursing' = [round |-> i, amount |-> amount, read |-> paid[i]]

\* Any amount is accepted; one of 0 leaves the column paid_amount out of the UPDATE.  The
\* second disbursement of an agreement has the raw_ref of the first and fails.
DisburseWrite ==
    LET i    == disbursing.round
        sum  == IF disbursing.amount = 0 THEN paid[i] ELSE disbursing.read + disbursing.amount
        lost == sum # paid[i] + disbursing.amount
    IN  /\ i # NoRound
        /\ \/ /\ Adds("MATCHED", LoanRef, disbursing.amount, [NoFills EXCEPT ![i] = disbursing.amount])
              /\ paid' = [paid EXCEPT ![i] = sum]
              /\ dated' = dated \cup {i}
              /\ loan' = [loan EXCEPT !.status = "EXECUTED", !.lent = @ + disbursing.amount]
              /\ overwritten' = overwritten \cup {j \in {i} : lost}
           \/ /\ ~NewRef([of |-> LoanRef, reason |-> NoReason])
              /\ UNCHANGED <<paid, dated, payments, loan, overwritten>>
        /\ disbursing' = NoDisbursement

\* What exceeds the debt is not counted, and where nothing is owed nothing is repaid.
RepayLoan(amount) ==
    /\ loan.status = "EXECUTED" /\ loan.lent > 0
    /\ LET repaid == Lesser(loan.lent, loan.repaid + amount)
       IN  loan' = [loan EXCEPT !.repaid = repaid,
                                !.status = IF repaid = loan.lent THEN "REPAID" ELSE @]

-----------------------------------------------------------------------------

BankStep ==
    /\ \E pref \in Rounds \cup {NoRound} :
          \/ \E n \in Deposits : IngestPayment(n, Worth[n], pref)
          \/ \E amount \in Entered : IngestPayment(NoRef, amount, pref)
    /\ UNCHANGED <<loan, disbursing, overwritten>>

DeskStep ==
    /\ \E r \in Recorded :
          \/ \E i \in Rounds : ManualMatch(r, i)
          \/ \E reason \in Reasons \cup {NoReason} : ReversePayment(r, reason)
    /\ UNCHANGED <<loan, disbursing, overwritten>>

LoanStep ==
    \/ /\ \E i \in Rounds, amount \in Lent : DisburseRead(i, amount)
       /\ UNCHANGED <<paid, dated, payments, loan, overwritten>>
    \/ DisburseWrite
    \/ /\ \E amount \in Entered : RepayLoan(amount)
       /\ UNCHANGED <<paid, dated, payments, disbursing, overwritten>>

PayNext == BankStep \/ DeskStep \/ LoanStep

PaySpec == PayInit /\ [][PayNext]_payVars

-----------------------------------------------------------------------------
(* Properties *)

\* What the payments that are matched have brought an installment.
BroughtBy(p, i) == IF p.status = "MATCHED" THEN p.fills[i] ELSE 0
Brought(i) == SumFunctionOnSet([r \in Recorded |-> BroughtBy(payments[r], i)], Recorded)

\* A disbursement of a negative amount took from it.
TakenBack(i) == \E r \in Recorded : BroughtBy(payments[r], i) < 0

\* An installment is paid what the payments matched to it brought, through partial
\* fills over several installments, matching by hand and reversals in any order,
\* unless a disbursement wrote over it; and one that is paid has a date of payment.
\* Where a disbursement took from an installment, a reversal that stops at zero may leave
\* more than that, never less.
PaidIsExplained ==
    \A i \in Rounds :
       /\ i \notin overwritten => paid[i] >= Brought(i)
       /\ i \notin overwritten /\ ~TakenBack(i) => paid[i] = Brought(i)
       /\ paid[i] >= RoundAmount => i \in dated

\* However often a deposit is reported, it is in the books once at a time; and
\* one that was reversed with its raw_ref left as it was does not come back.
AppliedOnce ==
    \A n \in Deposits :
       LET mine == {r \in Recorded : payments[r].ref.of = n}
           live == {r \in mine : payments[r].status # "REVERSED"}
       IN  /\ \A r, s \in live : r = s
           /\ (\E r \in mine \ live : payments[r].ref.reason = NoReason) => live = {}

\* The books of the contract are true: both of the above.
BooksAreTrue == PaidIsExplained /\ AppliedOnce
==============================================================================
