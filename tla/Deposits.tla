------------------------------ MODULE Deposits ------------------------------
(* What the escrow contract promises to whoever deposits with it: that a     *)
(* transaction is one step, of however many transfers and callbacks it is    *)
(* made.  It pays from at most one deposit, and then the fee and the payout  *)
(* together; it may open and dispute others; a settled one stays as it is.   *)
EXTENDS Naturals

CONSTANTS
    Ids,
    RATE, WHOLE      \* the fee is RATE parts of WHOLE, rounded down

VARIABLE account     \* of every deposit: what it was, what is left, where the rest went

Fresh == [status |-> "PendingFunding", deposit |-> 0, left |-> 0,
          fee |-> 0, pay |-> 0, refund |-> 0]

IsFee(fee, gross) == fee * WHOLE <= gross * RATE /\ gross * RATE < (fee + 1) * WHOLE

-----------------------------------------------------------------------------
(* What a transaction makes of one deposit: was becomes is.                *)

\* Nothing, or a dispute.
Still(was, is) ==
    \/ is = was
    \/ was.status = "Funded" /\ is = [was EXCEPT !.status = "Disputed"]

\* It is put in, once.
Opened(was, is) ==
    /\ was = Fresh
    /\ is.status \in {"Funded", "Disputed"} /\ is.deposit > 0
    /\ is = [status |-> is.status, deposit |-> is.deposit, left |-> is.deposit,
             fee |-> 0, pay |-> 0, refund |-> 0]

\* A part of it, or all, is paid out less the fee; a disputed one only as a whole.
Distributed(was, is) ==
    /\ was.status \in {"Funded", "Disputed"} /\ is.left < was.left
    /\ \/ is.left = 0 /\ is.status = "Released"
       \/ is.left > 0 /\ was.status = "Funded" /\ is.status \in {"Funded", "Disputed"}
    /\ is.deposit = was.deposit /\ is.refund = was.refund
    /\ is.left + is.fee + is.pay = was.left + was.fee + was.pay
    /\ was.fee <= is.fee /\ IsFee(is.fee - was.fee, was.left - is.left)

\* All of it goes back.
Returned(was, is) ==
    /\ was.status \in {"Funded", "Disputed"} /\ was.left > 0
    /\ is = [was EXCEPT !.status = "Refunded", !.left = 0, !.refund = @ + was.left]

Touched(was, is) == Still(was, is) \/ Opened(was, is)
Paid(was, is)    == Distributed(was, is) \/ Returned(was, is)

-----------------------------------------------------------------------------

AbstractInit == account = [i \in Ids |-> Fresh]

Transaction ==
    \E i \in Ids :
        /\ Touched(account[i], account'[i]) \/ Paid(account[i], account'[i])
        /\ \A j \in Ids \ {i} : Touched(account[j], account'[j])

AbstractSpec == AbstractInit /\ [][Transaction]_account
=============================================================================
