------------------------- MODULE SubcontractPayment -------------------------
(***************************************************************************)
(* The contract SubcontractPayment: an owner pays subcontractors directly  *)
(* and keeps a part of each payment back.  Each function is one step, also *)
(* those that transfer: they write first and read nothing afterwards that  *)
(* a function called back could change, so that a call from a recipient is *)
(* the same as the call after the return, and a recipient that fails makes *)
(* the transaction one that did not happen.  The contract ends every call  *)
(* with the balance it had, since what is paid out came with the call.     *)
(* Who calls is left to the guards that name the functions: the owner, the *)
(* contractor or the subcontractor of the entry.                           *)
(***************************************************************************)
EXTENDS Naturals, FiniteSets, Functions

CONSTANTS
    SubIds,             \* subcontractId: 0 to a bound
    Claims,             \* claimId: 0 to a bound
    NoSub,              \* the subcontract of no claim
    MaxSubAmount,       \* bound: the largest total of a subcontract
    MAX_RETENTION_RATE,
    BPS                 \* BPS_DENOMINATOR

ASSUME SubcontractAssumption ==
    /\ SubIds \subseteq Nat /\ Claims \subseteq Nat /\ IsFiniteSet(Claims)
    /\ NoSub \notin SubIds
    /\ MaxSubAmount \in Nat
    /\ MAX_RETENTION_RATE \in Nat /\ BPS \in Nat \ {0}
    /\ MAX_RETENTION_RATE <= BPS

VARIABLES
    subcontracts,
    claims,
    retentionBalance,
    received,          \* what the subcontractor of an entry was sent
    subPaused          \* Pausable

subVars == <<subcontracts, claims, retentionBalance, received, subPaused>>

-----------------------------------------------------------------------------

SubcontractStatus == {"None", "Registered", "Approved", "Active", "Completed", "Disputed"}
ClaimStatus == {"None", "Pending", "Rejected", "Paid"}
Subcontract == [totalAmount : Nat, paidAmount : Nat, retentionRate : Nat,
                status : SubcontractStatus]
PaymentClaim == [of : SubIds \cup {NoSub}, amount : Nat, status : ClaimStatus]

NoSubcontract == [totalAmount |-> 0, paidAmount |-> 0, retentionRate |-> 0,
                  status |-> "None"]
NoClaim == [of |-> NoSub, amount |-> 0, status |-> "None"]

SubInit ==
    /\ subcontracts = [i \in SubIds |-> NoSubcontract]
    /\ claims = [c \in Claims |-> NoClaim]
    /\ retentionBalance = [i \in SubIds |-> 0]
    /\ received = [i \in SubIds |-> 0]
    /\ subPaused = FALSE

-----------------------------------------------------------------------------
(* Registration and claims.                                                *)

Registered(i) == subcontracts[i].status # "None"
\* nextSubcontractId, nextClaimId
NextSub(i) == ~Registered(i) /\ \A j \in SubIds : j < i => Registered(j)
NextClaim(c) == claims[c] = NoClaim /\ \A d \in Claims : d < c => claims[d] # NoClaim
SetStatus(i, status) == subcontracts' = [subcontracts EXCEPT ![i].status = status]

registerSubcontract(i, total, rate) ==
    /\ ~subPaused /\ NextSub(i)
    /\ total > 0 /\ rate <= MAX_RETENTION_RATE
    /\ subcontracts' = [subcontracts EXCEPT ![i] =
            [totalAmount |-> total, paidAmount |-> 0, retentionRate |-> rate,
             status |-> "Registered"]]
    /\ UNCHANGED <<claims, retentionBalance, received, subPaused>>

approveSubcontract(i) ==
    /\ subcontracts[i].status = "Registered"
    /\ SetStatus(i, "Approved")
    /\ UNCHANGED <<claims, retentionBalance, received, subPaused>>

\* A claim beyond what is not paid reverts, and so does every claim, on the
\* subtraction, once more is paid than the total.
withinRemaining(i, amount) ==
    subcontracts[i].paidAmount + amount <= subcontracts[i].totalAmount

claimPayment(i, c, amount) ==
    /\ ~subPaused
    /\ subcontracts[i].status \in {"Approved", "Active"}
    /\ withinRemaining(i, amount)
    /\ NextClaim(c)
    /\ claims' = [claims EXCEPT ![c] = [of |-> i, amount |-> amount, status |-> "Pending"]]
    /\ SetStatus(i, "Active")
    /\ UNCHANGED <<retentionBalance, received, subPaused>>

\* (mutant: a claim is decided again)
decidableAgain(c) == claims[c].status \in {"Pending", "Paid"}
decidable(c) == claims[c].status = "Pending"

rejectClaim(c) ==
    /\ decidable(c)
    /\ claims' = [claims EXCEPT ![c].status = "Rejected"]
    /\ UNCHANGED <<subcontracts, retentionBalance, received, subPaused>>

-----------------------------------------------------------------------------
(* Payments.                                                               *)

retentionOf(i, amount) == (amount * subcontracts[i].retentionRate) \div BPS

\* The net amount goes out; a surplus goes back to the owner.
releaseDirectPayment(c) ==
    LET i == claims[c].of
        retention == retentionOf(i, claims[c].amount)
    IN /\ ~subPaused /\ decidable(c)
       /\ claims' = [claims EXCEPT ![c].status = "Paid"]
       /\ subcontracts' = [subcontracts EXCEPT ![i].paidAmount = @ + claims[c].amount]
       /\ retentionBalance' = [retentionBalance EXCEPT ![i] = @ + retention]
       /\ received' = [received EXCEPT ![i] = @ + (claims[c].amount - retention)]
       /\ UNCHANGED subPaused

releaseRetention(i) ==
    /\ Registered(i) /\ retentionBalance[i] > 0
    /\ retentionBalance' = [retentionBalance EXCEPT ![i] = 0]
    /\ received' = [received EXCEPT ![i] = @ + retentionBalance[i]]
    /\ UNCHANGED <<subcontracts, claims, subPaused>>

completeSubcontract(i) ==
    /\ subcontracts[i].status = "Active"
    /\ SetStatus(i, "Completed")
    /\ UNCHANGED <<claims, retentionBalance, received, subPaused>>

disputeSubcontract(i) ==
    /\ Registered(i)
    /\ SetStatus(i, "Disputed")
    /\ UNCHANGED <<claims, retentionBalance, received, subPaused>>

pauseSubcontracts ==
    /\ subPaused' = ~subPaused
    /\ UNCHANGED <<subcontracts, claims, retentionBalance, received>>

SubNext ==
    \/ \E i \in SubIds, total \in 1..MaxSubAmount, rate \in 0..MAX_RETENTION_RATE :
          registerSubcontract(i, total, rate)
    \/ \E i \in SubIds : \/ approveSubcontract(i) \/ completeSubcontract(i)
                         \/ disputeSubcontract(i) \/ releaseRetention(i)
    \/ \E i \in SubIds, c \in Claims, amount \in 0..MaxSubAmount : claimPayment(i, c, amount)
    \/ \E c \in Claims : releaseDirectPayment(c) \/ rejectClaim(c)
    \/ pauseSubcontracts

SubSpec == SubInit /\ [][SubNext]_subVars

-----------------------------------------------------------------------------
(* Properties.                                                             *)

\* Entries, claims and amounts are well formed; the retention is not negative.
SubTypeOK ==
    /\ subcontracts \in [SubIds -> Subcontract]
    /\ claims \in [Claims -> PaymentClaim]
    /\ retentionBalance \in [SubIds -> Nat] /\ received \in [SubIds -> Nat]
    /\ subPaused \in BOOLEAN

PaidClaims(i) == {c \in Claims : claims[c].of = i /\ claims[c].status = "Paid"}

\* Each paid claim counts once and a rejected one never; what counts as paid has
\* gone out or is kept back, whatever was released between two payments; and what
\* is kept back stays within the rate, also when claims come in slices
\* (releaseDirectPayment, releaseRetention).
PaidIsAccounted ==
    \A i \in SubIds :
       LET paid == subcontracts[i].paidAmount
       IN  /\ paid = SumFunctionOnSet([c \in Claims |-> claims[c].amount], PaidClaims(i))
           /\ paid = received[i] + retentionBalance[i]
           /\ retentionBalance[i] * BPS <= paid * subcontracts[i].retentionRate
=============================================================================
