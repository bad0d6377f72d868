------------------------------- MODULE Escrow -------------------------------
(***************************************************************************)
(* The escrow contract PropAIEscrow.  A transaction runs alone, but not in *)
(* one step: each transfer hands control to its recipient, who may be a    *)
(* contract and call back before the function goes on, or fail and so undo *)
(* the whole transaction.  The functions that transfer hold one lock       *)
(* (nonReentrant); the others can run in the middle of them.  Ownable and  *)
(* Pausable are external.                                                  *)
(***************************************************************************)
EXTENDS Naturals, FiniteSets, Functions

CONSTANTS
    Ids,          \* escrow ids
    Parties,      \* accounts that call the contract
    Nobody,       \* address(0)
    MaxValue,     \* bound: the largest deposit
    FEE_BPS,
    BPS_DENOMINATOR

ASSUME InstanceAssumption ==
    /\ IsFiniteSet(Ids)
    /\ Nobody \notin Parties \cup Ids
    /\ MaxValue \in Nat
    /\ FEE_BPS \in Nat /\ BPS_DENOMINATOR \in Nat \ {0}
    /\ FEE_BPS <= BPS_DENOMINATOR

VARIABLES
    escrow,    \* the records of escrows
    out,       \* what left the contract for an escrow, by purpose
    held,      \* the contract's balance
    owner,     \* Ownable
    paused,    \* Pausable
    expired,   \* escrows with block.timestamp > expiresAt
    call,      \* the function that holds the lock, and the payout it still owes
    before     \* the state a failure would restore

vars == <<escrow, out, held, owner, paused, expired, call, before>>

-----------------------------------------------------------------------------
(* Types.                                                                  *)

EscrowStatus == {"PendingFunding", "Funded", "Disputed", "Released", "Refunded"}
Address   == Parties \cup {Nobody}
EscrowRow == [payer : Address, payee : Address, subcontractor : Address,
              totalAmount : Nat, remainingAmount : Nat, status : EscrowStatus]
Outflow   == [fee : Nat, pay : Nat, refund : Nat]
Frame     == [id : Ids \cup {Nobody}, due : Nat]
State     == [escrow : [Ids -> EscrowRow], out : [Ids -> Outflow], held : Nat,
              owner : Address, paused : BOOLEAN]

\* A row nobody has created reads as zeros.
NoEscrow == [payer |-> Nobody, payee |-> Nobody, subcontractor |-> Nobody,
             totalAmount |-> 0, remainingAmount |-> 0, status |-> "PendingFunding"]
NoOutflow == [fee |-> 0, pay |-> 0, refund |-> 0]
NoCall    == [id |-> Nobody, due |-> 0]
Snapshot  == [escrow |-> escrow, out |-> out, held |-> held, owner |-> owner,
              paused |-> paused]

\* The contract as it is when nothing has happened; before, when no function runs.
Blank == [escrow |-> [e \in Ids |-> NoEscrow], out |-> [e \in Ids |-> NoOutflow],
          held |-> 0, owner |-> Nobody, paused |-> FALSE]

Init ==
    /\ escrow = [e \in Ids |-> NoEscrow]
    /\ out = [e \in Ids |-> NoOutflow]
    /\ held = 0
    /\ owner \in Parties
    /\ paused = FALSE
    /\ expired = {}
    /\ call = NoCall
    /\ before = Blank

-----------------------------------------------------------------------------
(* Transfers and the lock.                                                 *)

Exists(e)   == escrow[e].payer # Nobody
Unlocked    == call.id = Nobody
PayerOrOwner(p, e) == p \in {escrow[e].payer, owner}

\* (mutant: rounded up)
calculateFeeUp(gross) == (gross * FEE_BPS + BPS_DENOMINATOR - 1) \div BPS_DENOMINATOR
calculateFee(gross) == (gross * FEE_BPS) \div BPS_DENOMINATOR

Locked(e, due) ==
    /\ call' = [id |-> e, due |-> due]
    /\ before' = Snapshot
    /\ UNCHANGED <<owner, paused, expired>>

\* _safeTransferETH
Send(e, purpose, amount) ==
    /\ amount <= held
    /\ held' = held - amount
    /\ out' = [out EXCEPT ![e][purpose] = @ + amount]

\* _distribute: the fee if there is one, then the payout.
\* (mutant: the fee comes on top of the payout)
distributeGross(e, gross) ==
    IF calculateFee(gross) > 0
    THEN Send(e, "fee", calculateFee(gross)) /\ Locked(e, gross)
    ELSE Send(e, "pay", gross) /\ Locked(e, 0)
distribute(e, gross) ==
    IF calculateFee(gross) > 0
    THEN Send(e, "fee", calculateFee(gross)) /\ Locked(e, gross - calculateFee(gross))
    ELSE Send(e, "pay", gross) /\ Locked(e, 0)

refund(e, amount) == Send(e, "refund", amount) /\ Locked(e, 0)

\* The recipient of the fee has returned: the payout follows.
PayOut ==
    /\ ~Unlocked /\ call.due > 0
    /\ Send(call.id, "pay", call.due)
    /\ call' = [call EXCEPT !.due = 0]
    /\ UNCHANGED <<escrow, owner, paused, expired, before>>

\* The last recipient has returned.
Return ==
    /\ ~Unlocked /\ call.due = 0
    /\ call' = NoCall /\ before' = Blank
    /\ UNCHANGED <<escrow, out, held, owner, paused, expired>>

\* A recipient fails: TransferFailed undoes all that happened since the call.
\* (mutant: nobody looks at success, and what was still due is not sent)
RevertUnseen ==
    /\ ~Unlocked
    /\ call' = NoCall /\ before' = Blank
    /\ UNCHANGED <<escrow, out, held, owner, paused, expired>>
Revert ==
    /\ ~Unlocked
    /\ escrow' = before.escrow /\ out' = before.out /\ held' = before.held
    /\ owner' = before.owner /\ paused' = before.paused
    /\ call' = NoCall /\ before' = Blank
    /\ UNCHANGED expired

-----------------------------------------------------------------------------
(* The functions without the lock.                                         *)

createEscrow(p, payee, subcontractor, e) ==
    /\ ~paused
    /\ escrow[e] = NoEscrow
    /\ escrow' = [escrow EXCEPT ![e] =
                    [NoEscrow EXCEPT !.payer = p, !.payee = payee,
                                     !.subcontractor = subcontractor]]
    /\ UNCHANGED <<out, held, owner, paused, expired, call, before>>

fundEscrow(p, e, value) ==
    /\ ~paused /\ Exists(e)
    /\ p = escrow[e].payer
    /\ escrow[e].status = "PendingFunding" /\ e \notin expired
    /\ escrow' = [escrow EXCEPT ![e] =
                    [@ EXCEPT !.totalAmount = value, !.remainingAmount = value,
                              !.status = "Funded"]]
    /\ held' = held + value
    /\ UNCHANGED <<out, owner, paused, expired, call, before>>

initiateDispute(p, e) ==
    /\ ~paused /\ Exists(e)
    /\ PayerOrOwner(p, e) \/ p = escrow[e].payee
    /\ escrow[e].status = "Funded"
    /\ escrow' = [escrow EXCEPT ![e].status = "Disputed"]
    /\ UNCHANGED <<out, held, owner, paused, expired, call, before>>

pause(p) ==
    /\ p = owner
    /\ paused' = ~paused
    /\ UNCHANGED <<escrow, out, held, owner, expired, call, before>>

\* transferOwnership and renounceOwnership of Ownable
SetOwner(p, q) ==
    /\ p = owner
    /\ owner' = q
    /\ UNCHANGED <<escrow, out, held, paused, expired, call, before>>

-----------------------------------------------------------------------------
(* The functions with the lock.                                            *)

Emptied(e, status) ==
    escrow' = [escrow EXCEPT ![e].remainingAmount = 0, ![e].status = status]

releaseEscrow(p, e) ==
    /\ Unlocked /\ ~paused /\ Exists(e)
    /\ PayerOrOwner(p, e)
    /\ escrow[e].status = "Funded" /\ e \notin expired
    /\ escrow[e].remainingAmount > 0
    /\ Emptied(e, "Released")
    /\ distribute(e, escrow[e].remainingAmount)

\* What an escrow is after a direct payment of gross.
\* (mutants: the escrow stays funded; the balance is not compared)
PaidDirectlyStill(row, subcontractor, gross) ==
    [row EXCEPT !.subcontractor = subcontractor, !.remainingAmount = @ - gross]
PaidDirectly(row, subcontractor, gross) ==
    [row EXCEPT !.subcontractor = subcontractor, !.remainingAmount = @ - gross,
                !.status = IF row.remainingAmount = gross THEN "Released" ELSE @]
PayableUnchecked(e, gross) == gross > 0
Payable(e, gross) == gross > 0 /\ gross <= escrow[e].remainingAmount

directPaymentToSubcontractor(p, e, subcontractor, gross) ==
    /\ Unlocked /\ ~paused /\ Exists(e)
    /\ PayerOrOwner(p, e)
    /\ escrow[e].status = "Funded" /\ e \notin expired
    /\ Payable(e, gross)
    /\ escrow[e].subcontractor \in {Nobody, subcontractor}
    /\ escrow' = [escrow EXCEPT ![e] = PaidDirectly(escrow[e], subcontractor, gross)]
    /\ distribute(e, gross)

\* (mutant: a settled escrow is refunded once more)
RefundableAtExpiryAny(e) == escrow[e].status # "PendingFunding"
RefundableAtExpiry(e) == escrow[e].status \in {"Funded", "Disputed"}

autoRefundOnExpiry(e) ==
    /\ Unlocked /\ ~paused /\ Exists(e)
    /\ RefundableAtExpiry(e) /\ e \in expired
    /\ Emptied(e, "Refunded")
    /\ refund(e, escrow[e].remainingAmount)

\* (mutant: the amount stays with the escrow)
DecidedKeeping(e, status) == escrow' = [escrow EXCEPT ![e].status = status]
Decided(e, status) == Emptied(e, status)

resolveDispute(p, e, releaseToPayee) ==
    /\ p = owner
    /\ Unlocked /\ Exists(e)
    /\ escrow[e].status = "Disputed"
    /\ \/ /\ releaseToPayee
          /\ Decided(e, "Released") /\ distribute(e, escrow[e].remainingAmount)
       \/ /\ ~releaseToPayee
          /\ Decided(e, "Refunded") /\ refund(e, escrow[e].remainingAmount)

\* Time passes between transactions.
Expire(e) ==
    /\ Unlocked /\ Exists(e) /\ e \notin expired
    /\ expired' = expired \cup {e}
    /\ UNCHANGED <<escrow, out, held, owner, paused, call, before>>

-----------------------------------------------------------------------------

CallOf(p, e) ==
    \/ \E q \in Parties, s \in Address : createEscrow(p, q, s, e)
    \/ \E value \in 1..MaxValue : fundEscrow(p, e, value)
    \/ initiateDispute(p, e)
    \/ releaseEscrow(p, e)
    \/ \E s \in Parties, gross \in 1..MaxValue : directPaymentToSubcontractor(p, e, s, gross)
    \/ \E b \in BOOLEAN : resolveDispute(p, e, b)

Next ==
    \/ \E p \in Parties, e \in Ids : CallOf(p, e)
    \/ \E e \in Ids : autoRefundOnExpiry(e) \/ Expire(e)
    \/ \E p \in Parties : pause(p) \/ \E q \in Address : SetOwner(p, q)
    \/ PayOut \/ Return \/ Revert

Spec == Init /\ [][Next]_vars

-----------------------------------------------------------------------------
(* Properties.                                                             *)

\* Records, amounts and the snapshot of a call are well formed; no amount is
\* negative (checked arithmetic of the language).
TypeOK ==
    /\ Snapshot \in State /\ before \in State
    /\ expired \subseteq Ids
    /\ call \in Frame

\* The balance is what the open escrows add up to and what a running function
\* still owes, also while recipients call back (_distribute, nonReentrant).
Solvent ==
    held = call.due + SumFunctionOnSet([e \in Ids |-> escrow[e].remainingAmount], Ids)

Owed(e) == IF call.id = e THEN call.due ELSE 0

\* Paid in slices an escrow bears no more fees than the rate of what was paid.
FeesWithinRate ==
    \A e \in Ids :
       out[e].fee * BPS_DENOMINATOR <= (out[e].fee + out[e].pay + Owed(e)) * FEE_BPS

\* An escrow is open exactly while it has money, so that none is stuck in a
\* state from which every function reverts (directPaymentToSubcontractor).
OpenHasMoney ==
    \A e \in Ids :
       escrow[e].status \in {"Funded", "Disputed"} <=> escrow[e].remainingAmount > 0

\* Every unit of a deposit is accounted for: it remains, in an escrow that is
\* open, is owed by a running function or went out once, through partial
\* payments, disputes and failures, and no more of it as fees than the rate allows.
Accounted ==
    /\ \A e \in Ids :
          escrow[e].totalAmount = escrow[e].remainingAmount + Owed(e)
                                  + out[e].fee + out[e].pay + out[e].refund
    /\ OpenHasMoney /\ FeesWithinRate

\* A settled escrow is never changed and never paid from again.
SettledIsFinal ==
    [][\A e \in Ids :
          Unlocked /\ escrow[e].status \in {"Released", "Refunded"} =>
             escrow'[e] = escrow[e] /\ out'[e] = out[e]]_vars

AccountOf(row, o, due) ==
    [status |-> row.status, deposit |-> row.totalAmount, left |-> row.remainingAmount,
     fee |-> o.fee, pay |-> o.pay + due, refund |-> o.refund]

\* A deposit as its owners know it: while a function runs, what a failure of it
\* would restore.
Standing(e) ==
    IF Unlocked THEN AccountOf(escrow[e], out[e], 0)
                ELSE AccountOf(before.escrow[e], before.out[e], 0)

\* Whatever recipients do in the middle of a function, it takes effect as one step
\* or not at all, and pays from one deposit only, as the promise says.
Atomic == INSTANCE Deposits WITH
    RATE <- FEE_BPS, WHOLE <- BPS_DENOMINATOR, account <- [e \in Ids |-> Standing(e)]
DepositsAreAtomic == Atomic!AbstractSpec

=============================================================================
