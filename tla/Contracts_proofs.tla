--------------------------- MODULE Contracts_proofs ---------------------------
(***************************************************************************)
(* Proofs about four contracts: the escrow (Escrow), the subcontract       *)
(* payments (SubcontractPayment), the token and its dividends              *)
(* (PropAIToken) and the votes (PropAIGovernance).  The four parts share   *)
(* nothing but the facts about sums.                                       *)
(***************************************************************************)
EXTENDS Escrow, SubcontractPayment, PropAIToken, PropAIGovernance, SumTheorems

-----------------------------------------------------------------------------
(***************************************************************************)
(* Proofs about Escrow, for any number of escrows and accounts, any        *)
(* deposits and any rate.  The inductive invariant says of each record     *)
(* that it is accounted for, open exactly while it has money, and charged  *)
(* within the rate; of the balance that it is what the records and the     *)
(* running function are owed; and the same of what a failure would restore.*)
(***************************************************************************)

Open(status) == status \in {"Funded", "Disputed"}

RowFine(row, o, due) ==
    /\ row.totalAmount = row.remainingAmount + due + o.fee + o.pay + o.refund
    /\ Open(row.status) <=> row.remainingAmount > 0
    /\ o.fee * BPS_DENOMINATOR <= (o.fee + o.pay + due) * FEE_BPS
    /\ row.status = "PendingFunding" => row.totalAmount = 0

RowsFine   == \A e \in Ids : RowFine(escrow[e], out[e], Owed(e))
BeforeFine == \A e \in Ids : RowFine(before.escrow[e], before.out[e], 0)
EscrowInv == TypeOK /\ RowsFine /\ BeforeFine

-----------------------------------------------------------------------------
(* Arithmetic of the fee, and what types mean.                             *)

\* The fee is a part of the gross amount and within the rate.
LEMMA FeeFits ==
  ASSUME NEW g \in Nat
  PROVE  /\ calculateFee(g) \in Nat /\ calculateFee(g) <= g
         /\ calculateFee(g) * BPS_DENOMINATOR <= g * FEE_BPS
  <1> DEFINE f == calculateFee(g)
  <1>1. FEE_BPS \in Nat /\ BPS_DENOMINATOR \in Nat /\ BPS_DENOMINATOR > 0
        /\ FEE_BPS <= BPS_DENOMINATOR
    BY InstanceAssumption
  <1>2. g * FEE_BPS \in Nat
    BY <1>1
  <1>3. f \in Nat /\ f * BPS_DENOMINATOR <= g * FEE_BPS
    BY <1>1, <1>2 DEF calculateFee
  <1>4. g * FEE_BPS <= g * BPS_DENOMINATOR
    BY <1>1
  <1>5. f <= g
    BY <1>1, <1>3, <1>4
  <1> QED
    BY <1>3, <1>5

\* What adds up to zero is zero in each part.
LEMMA NoPartOfZero ==
  ASSUME NEW a \in Nat, NEW b \in Nat, NEW c \in Nat, NEW d \in Nat, NEW f \in Nat,
         0 = a + b + c + d + f
  PROVE  b = 0 /\ c = 0 /\ d = 0 /\ f = 0
  OBVIOUS

\* A record stays one through a payment.
LEMMA RowPaid ==
  ASSUME NEW row \in EscrowRow, NEW s \in Address, NEW n \in Nat, NEW st \in EscrowStatus
  PROVE  [row EXCEPT !.subcontractor = s, !.remainingAmount = n, !.status = st] \in EscrowRow
  BY DEF EscrowRow

\* The parts of the type invariant.
LEMMA EscrowParts ==
  TypeOK <=> /\ escrow \in [Ids -> EscrowRow] /\ out \in [Ids -> Outflow]
             /\ held \in Nat /\ owner \in Address /\ paused \in BOOLEAN
             /\ before \in State /\ expired \subseteq Ids /\ call \in Frame
  BY Zenon DEF TypeOK, Snapshot, State

\* Nothing is owed for an escrow when no function runs.
LEMMA NothingOwed ==
  ASSUME NEW e \in Ids, Unlocked
  PROVE  Owed(e) = 0
  BY InstanceAssumption DEF Owed, Unlocked

-----------------------------------------------------------------------------
(* What a step has to show: the record it changes is fine.                 *)

\* One record and its outflow change, and the new ones are fine.
LEMMA RowsKept ==
  ASSUME EscrowInv, NEW e \in Ids, NEW row \in EscrowRow, NEW o \in Outflow,
         escrow' = [escrow EXCEPT ![e] = row], out' = [out EXCEPT ![e] = o],
         \A f \in Ids \ {e} : Owed(f)' = Owed(f),
         RowFine(row, o, Owed(e)')
  PROVE  RowsFine' /\ escrow' \in [Ids -> EscrowRow] /\ out' \in [Ids -> Outflow]
  <1>1. escrow \in [Ids -> EscrowRow] /\ out \in [Ids -> Outflow]
    BY EscrowParts DEF EscrowInv
  <1>2. escrow' \in [Ids -> EscrowRow] /\ out' \in [Ids -> Outflow]
    BY <1>1
  <1>3. RowFine(escrow'[e], out'[e], Owed(e)')
    BY <1>1
  <1>4. ASSUME NEW f \in Ids, f # e
        PROVE  RowFine(escrow'[f], out'[f], Owed(f)')
    <2>1. escrow'[f] = escrow[f] /\ out'[f] = out[f] /\ Owed(f)' = Owed(f)
      BY <1>1, <1>4
    <2>2. RowFine(escrow[f], out[f], Owed(f))
      BY DEF EscrowInv, RowsFine
    <2> QED
      BY <2>1, <2>2
  <1> QED
    BY <1>2, <1>3, <1>4 DEF RowsFine

\* The state at the start of a function is one it may go back to.
LEMMA SnapshotFine ==
  ASSUME EscrowInv, Unlocked, before' = Snapshot
  PROVE  BeforeFine' /\ before' \in State
  <1>1. before' \in State
    BY DEF EscrowInv, TypeOK
  <1>2. ASSUME NEW e \in Ids
        PROVE  RowFine(before'.escrow[e], before'.out[e], 0)
    <2>1. RowFine(escrow[e], out[e], 0)
      BY NothingOwed DEF EscrowInv, RowsFine
    <2> QED
      BY <2>1 DEF Snapshot
  <1> QED
    BY <1>1, <1>2 DEF BeforeFine

\* The contract with which nothing has happened is fine.
LEMMA BlankFine == Blank \in State /\ \A e \in Ids : RowFine(Blank.escrow[e], Blank.out[e], 0)
  <1>1. NoEscrow \in EscrowRow /\ NoOutflow \in Outflow /\ RowFine(NoEscrow, NoOutflow, 0)
    BY InstanceAssumption DEF NoEscrow, EscrowRow, Address, EscrowStatus, NoOutflow, Outflow, RowFine, Open
  <1> QED
    BY <1>1 DEF Blank, State, Address

\* More leaves for an escrow.
LEMMA MoreLeft ==
  ASSUME EscrowInv, NEW e \in Ids, NEW purpose \in {"fee", "pay", "refund"}, NEW amount \in Nat,
         Send(e, purpose, amount)
  PROVE  /\ held' \in Nat
         /\ [out[e] EXCEPT ![purpose] = @ + amount] \in Outflow
         /\ out' = [out EXCEPT ![e] = [out[e] EXCEPT ![purpose] = @ + amount]]
  <1>1. out \in [Ids -> Outflow] /\ held \in Nat
    BY EscrowParts DEF EscrowInv
  <1>2. held' \in Nat
    BY <1>1 DEF Send
  <1>3. out[e] \in Outflow
    BY <1>1
  <1>4. [out[e] EXCEPT ![purpose] = @ + amount] \in Outflow
    BY <1>3 DEF Outflow
  <1> QED
    BY <1>1, <1>2, <1>4 DEF Send

\* The parts of the type invariant after a step.
LEMMA EscrowPartsNext ==
  ASSUME escrow' \in [Ids -> EscrowRow], out' \in [Ids -> Outflow], held' \in Nat,
         owner' \in Address, paused' \in BOOLEAN, before' \in State,
         expired' \subseteq Ids, call' \in Frame
  PROVE  TypeOK'
  BY Zenon DEF TypeOK, Snapshot, State

\* A function that takes the lock, and leaves due to be paid from a fine record.
LEMMA LockedFine ==
  ASSUME EscrowInv, Unlocked, NEW e \in Ids, NEW row \in EscrowRow, NEW p \in Outflow,
         NEW due \in Nat, held' \in Nat, Locked(e, due), RowFine(row, p, due),
         escrow' = [escrow EXCEPT ![e] = row], out' = [out EXCEPT ![e] = p]
  PROVE  EscrowInv'
  <1>1. call' = [id |-> e, due |-> due] /\ call' \in Frame
    BY DEF Locked, Frame
  <1>2. Owed(e)' = due /\ \A i \in Ids \ {e} : Owed(i)' = Owed(i)
    BY <1>1, NothingOwed DEF Owed
  <1>3. RowsFine' /\ escrow' \in [Ids -> EscrowRow] /\ out' \in [Ids -> Outflow]
    BY <1>2, RowsKept
  <1>4. BeforeFine' /\ before' \in State
    BY SnapshotFine DEF Locked
  <1>5. owner' \in Address /\ paused' \in BOOLEAN /\ expired' \subseteq Ids
    BY EscrowParts DEF Locked, EscrowInv
  <1>6. TypeOK'
    BY <1>1, <1>3, <1>4, <1>5, EscrowPartsNext
  <1> QED
    BY <1>3, <1>4, <1>6 DEF EscrowInv

\* A function that takes g out of a record and distributes it keeps the invariant.
LEMMA Distributed ==
  ASSUME EscrowInv, Unlocked, NEW e \in Ids, NEW row \in EscrowRow, NEW g \in Nat,
         RowFine(row, out[e], g), escrow' = [escrow EXCEPT ![e] = row], distribute(e, g)
  PROVE  EscrowInv'
  <1> DEFINE f == calculateFee(g)
             o == out[e]
  <1>0. /\ f \in Nat /\ f <= g /\ f * BPS_DENOMINATOR <= g * FEE_BPS
        /\ FEE_BPS \in Nat /\ BPS_DENOMINATOR \in Nat
    BY FeeFits, InstanceAssumption
  <1>1. o \in Outflow
    BY EscrowParts DEF EscrowInv
  <1>2. /\ o.fee \in Nat /\ o.pay \in Nat /\ o.refund \in Nat
        /\ row.totalAmount \in Nat /\ row.remainingAmount \in Nat
    BY <1>1 DEF Outflow, EscrowRow
  <1>3. o.fee * BPS_DENOMINATOR <= (o.fee + o.pay) * FEE_BPS
    BY NothingOwed, <1>2 DEF EscrowInv, RowsFine, RowFine
  <1>4. CASE f > 0
    <2> DEFINE p == [o EXCEPT !.fee = @ + f]
    <2>1. Send(e, "fee", f) /\ Locked(e, g - f)
      BY <1>4 DEF distribute
    <2>2. held' \in Nat /\ p \in Outflow /\ out' = [out EXCEPT ![e] = p] /\ g - f \in Nat
      BY <1>0, <2>1, MoreLeft
    <2>3. p.fee = o.fee + f /\ p.pay = o.pay /\ p.refund = o.refund
      BY <1>1 DEF Outflow
    <2>4. row.totalAmount = row.remainingAmount + (g - f) + p.fee + p.pay + p.refund
      BY <1>0, <1>2, <2>3 DEF RowFine
    <2>5. p.fee * BPS_DENOMINATOR <= (p.fee + p.pay + (g - f)) * FEE_BPS
      <3>1. p.fee * BPS_DENOMINATOR = o.fee * BPS_DENOMINATOR + f * BPS_DENOMINATOR
        BY <1>0, <1>2, <2>3
      <3>2. (p.fee + p.pay + (g - f)) * FEE_BPS = (o.fee + o.pay) * FEE_BPS + g * FEE_BPS
        BY <1>0, <1>2, <2>3
      <3>3. /\ o.fee * BPS_DENOMINATOR \in Nat /\ f * BPS_DENOMINATOR \in Nat
            /\ (o.fee + o.pay) * FEE_BPS \in Nat /\ g * FEE_BPS \in Nat
        BY <1>0, <1>2
      <3> HIDE DEF o, p, f
      <3> QED
        BY <1>0, <1>3, <3>1, <3>2, <3>3
    <2>6. RowFine(row, p, g - f)
      BY <2>4, <2>5 DEF RowFine
    <2> HIDE DEF o, p, f
    <2> QED
      BY <2>1, <2>2, <2>6, LockedFine
  <1>5. CASE f = 0
    <2> DEFINE p == [o EXCEPT !.pay = @ + g]
    <2>1. Send(e, "pay", g) /\ Locked(e, 0)
      BY <1>5 DEF distribute
    <2>2. held' \in Nat /\ p \in Outflow /\ out' = [out EXCEPT ![e] = p]
      BY <2>1, MoreLeft
    <2>3. p.fee = o.fee /\ p.pay = o.pay + g /\ p.refund = o.refund
      BY <1>1 DEF Outflow
    <2>4. row.totalAmount = row.remainingAmount + 0 + p.fee + p.pay + p.refund
      BY <1>2, <2>3 DEF RowFine
    <2>5. p.fee * BPS_DENOMINATOR <= (p.fee + p.pay + 0) * FEE_BPS
      <3>1. (p.fee + p.pay + 0) * FEE_BPS = (o.fee + o.pay) * FEE_BPS + g * FEE_BPS
        BY <1>0, <1>2, <2>3
      <3>2. g * FEE_BPS \in Nat /\ (o.fee + o.pay) * FEE_BPS \in Nat
            /\ o.fee * BPS_DENOMINATOR \in Nat
        BY <1>0, <1>2
      <3> HIDE DEF o, p, f
      <3> QED
        BY <1>3, <2>3, <3>1, <3>2
    <2>6. RowFine(row, p, 0)
      BY <2>4, <2>5 DEF RowFine
    <2> HIDE DEF o, p, f
    <2> QED
      BY <2>1, <2>2, <2>6, LockedFine
  <1> QED
    BY <1>0, <1>4, <1>5

\* A function that takes g out of a record and refunds it keeps the invariant.
LEMMA Refunded ==
  ASSUME EscrowInv, Unlocked, NEW e \in Ids, NEW row \in EscrowRow, NEW g \in Nat,
         RowFine(row, out[e], g), escrow' = [escrow EXCEPT ![e] = row], refund(e, g)
  PROVE  EscrowInv'
  <1> DEFINE o == out[e]
             p == [o EXCEPT !.refund = @ + g]
  <1>1. o \in Outflow
    BY EscrowParts DEF EscrowInv
  <1>2. held' \in Nat /\ p \in Outflow /\ out' = [out EXCEPT ![e] = p] /\ Locked(e, 0)
    BY MoreLeft DEF refund
  <1>3. /\ o.fee \in Nat /\ o.pay \in Nat /\ o.refund \in Nat
        /\ row.totalAmount \in Nat /\ row.remainingAmount \in Nat
    BY <1>1 DEF Outflow, EscrowRow
  <1>4. p.fee = o.fee /\ p.pay = o.pay /\ p.refund = o.refund + g
    BY <1>1 DEF Outflow
  <1>5. RowFine(escrow[e], o, 0)
    BY NothingOwed DEF EscrowInv, RowsFine
  <1>6. row.totalAmount = row.remainingAmount + 0 + p.fee + p.pay + p.refund
    BY <1>3, <1>4 DEF RowFine
  <1>7. RowFine(row, p, 0)
    BY <1>4, <1>5, <1>6 DEF RowFine
  <1> HIDE DEF o, p
  <1> QED
    BY <1>2, <1>7, LockedFine

-----------------------------------------------------------------------------
(* What the functions make of a record.                                    *)

\* A record that lost g is fine with g owed for it.
LEMMA TakenFine ==
  ASSUME EscrowInv, Unlocked, NEW e \in Ids, NEW row \in EscrowRow, NEW g \in Nat,
         row.totalAmount = escrow[e].totalAmount,
         row.remainingAmount + g = escrow[e].remainingAmount,
         Open(row.status) <=> row.remainingAmount > 0, row.status # "PendingFunding"
  PROVE  RowFine(row, out[e], g)
  <1> DEFINE o == out[e]
  <1>1. /\ o.fee \in Nat /\ o.pay \in Nat /\ o.refund \in Nat
        /\ row.totalAmount \in Nat /\ row.remainingAmount \in Nat
        /\ FEE_BPS \in Nat /\ BPS_DENOMINATOR \in Nat
    BY EscrowParts, InstanceAssumption DEF EscrowInv, Outflow, EscrowRow
  <1>2. RowFine(escrow[e], o, 0)
    BY NothingOwed DEF EscrowInv, RowsFine
  <1>3. row.totalAmount = row.remainingAmount + g + o.fee + o.pay + o.refund
    BY <1>1, <1>2 DEF RowFine
  <1>4. o.fee * BPS_DENOMINATOR <= (o.fee + o.pay + g) * FEE_BPS
    <2>1. (o.fee + o.pay + g) * FEE_BPS = (o.fee + o.pay + 0) * FEE_BPS + g * FEE_BPS
      BY <1>1
    <2>2. g * FEE_BPS \in Nat /\ (o.fee + o.pay + 0) * FEE_BPS \in Nat
          /\ o.fee * BPS_DENOMINATOR \in Nat
      BY <1>1
    <2>3. o.fee * BPS_DENOMINATOR <= (o.fee + o.pay + 0) * FEE_BPS
      BY <1>2 DEF RowFine
    <2> HIDE DEF o
    <2> QED
      BY <2>1, <2>2, <2>3
  <1> QED
    BY <1>3, <1>4 DEF RowFine

\* An emptied record is settled, and what it held is a natural number.
LEMMA EmptiedFine ==
  ASSUME EscrowInv, Unlocked, NEW e \in Ids, NEW status \in {"Released", "Refunded"},
         Emptied(e, status)
  PROVE  \E row \in EscrowRow : /\ escrow' = [escrow EXCEPT ![e] = row]
                                /\ RowFine(row, out[e], escrow[e].remainingAmount)
                                /\ escrow[e].remainingAmount \in Nat
  <1> DEFINE row == [escrow[e] EXCEPT !.remainingAmount = 0, !.status = status]
  <1>1. escrow \in [Ids -> EscrowRow] /\ escrow[e] \in EscrowRow
    BY EscrowParts DEF EscrowInv
  <1>2. row \in EscrowRow /\ escrow[e].remainingAmount \in Nat
    BY <1>1 DEF EscrowRow, EscrowStatus
  <1>3. /\ row.totalAmount = escrow[e].totalAmount /\ row.remainingAmount = 0
        /\ row.status = status
    BY <1>1 DEF EscrowRow
  <1>4. RowFine(row, out[e], escrow[e].remainingAmount)
    <2> HIDE DEF row
    <2> QED
      BY <1>2, <1>3, TakenFine DEF Open
  <1>5. escrow' = [escrow EXCEPT ![e] = row]
    BY <1>1 DEF Emptied
  <1> HIDE DEF row
  <1> QED
    BY <1>2, <1>4, <1>5

\* A function without the lock, that writes one record and moves no money out.
LEMMA Written ==
  ASSUME EscrowInv, NEW e \in Ids, NEW row \in EscrowRow, RowFine(row, out[e], Owed(e)),
         escrow' = [escrow EXCEPT ![e] = row], held' \in Nat,
         UNCHANGED <<out, owner, paused, expired, call, before>>
  PROVE  EscrowInv'
  <1>1. out[e] \in Outflow /\ out' = [out EXCEPT ![e] = out[e]]
    BY EscrowParts DEF EscrowInv
  <1>2. \A f \in Ids : Owed(f)' = Owed(f)
    BY DEF Owed
  <1>3. RowFine(row, out[e], Owed(e)')
    BY <1>2
  <1>4. RowsFine' /\ escrow' \in [Ids -> EscrowRow] /\ out' \in [Ids -> Outflow]
    BY <1>1, <1>2, <1>3, RowsKept
  <1>5. TypeOK'
    BY <1>4, EscrowParts, EscrowPartsNext DEF EscrowInv
  <1>6. BeforeFine'
    BY DEF EscrowInv, BeforeFine
  <1> QED
    BY <1>4, <1>5, <1>6 DEF EscrowInv

\* A step that touches no record, no balance and no call.
LEMMA Aside ==
  ASSUME EscrowInv, owner' \in Address, paused' \in BOOLEAN, expired' \subseteq Ids,
         UNCHANGED <<escrow, out, held, call, before>>
  PROVE  EscrowInv'
  <1>1. TypeOK'
    BY EscrowParts, EscrowPartsNext DEF EscrowInv
  <1>2. RowsFine' /\ BeforeFine'
    BY DEF EscrowInv, RowsFine, BeforeFine, Owed
  <1> QED
    BY <1>1, <1>2 DEF EscrowInv

-----------------------------------------------------------------------------
(* Every step keeps the invariant.                                         *)

\* createEscrow keeps the invariant.
LEMMA CreateFine ==
  ASSUME EscrowInv, NEW p \in Parties, NEW payee \in Parties, NEW s \in Address, NEW e \in Ids,
         createEscrow(p, payee, s, e)
  PROVE  EscrowInv'
  <1> DEFINE row == [NoEscrow EXCEPT !.payer = p, !.payee = payee, !.subcontractor = s]
  <1>1. row \in EscrowRow
    BY DEF NoEscrow, EscrowRow, Address, EscrowStatus
  <1>2. /\ row.totalAmount = NoEscrow.totalAmount /\ row.status = NoEscrow.status
        /\ row.remainingAmount = NoEscrow.remainingAmount
    BY DEF NoEscrow
  <1>3. RowFine(NoEscrow, out[e], Owed(e))
    BY DEF createEscrow, EscrowInv, RowsFine
  <1>4. RowFine(row, out[e], Owed(e))
    BY <1>2, <1>3 DEF RowFine
  <1>5. held' \in Nat
    BY EscrowParts DEF createEscrow, EscrowInv
  <1>6. escrow' = [escrow EXCEPT ![e] = row]
    BY DEF createEscrow
  <1> HIDE DEF row
  <1> QED
    BY <1>1, <1>4, <1>5, <1>6, Written DEF createEscrow

\* fundEscrow keeps the invariant.
LEMMA FundFine ==
  ASSUME EscrowInv, NEW p \in Parties, NEW e \in Ids, NEW value \in 1..MaxValue,
         fundEscrow(p, e, value)
  PROVE  EscrowInv'
  <1> DEFINE row == [escrow[e] EXCEPT !.totalAmount = value, !.remainingAmount = value,
                                      !.status = "Funded"]
             o == out[e]
  <1>1. /\ escrow \in [Ids -> EscrowRow] /\ escrow[e] \in EscrowRow /\ o \in Outflow
        /\ held \in Nat /\ value \in Nat /\ value > 0
    BY EscrowParts, InstanceAssumption DEF EscrowInv
  <1>2. row \in EscrowRow
    BY <1>1 DEF EscrowRow, EscrowStatus
  <1>3. row.totalAmount = value /\ row.remainingAmount = value /\ row.status = "Funded"
    BY <1>1 DEF EscrowRow
  <1>4. RowFine(escrow[e], o, Owed(e)) /\ escrow[e].status = "PendingFunding"
    BY DEF EscrowInv, RowsFine, fundEscrow
  <1>5. Owed(e) = 0 /\ o.fee = 0 /\ o.pay = 0 /\ o.refund = 0
    <2>1. /\ Owed(e) \in Nat /\ o.fee \in Nat /\ o.pay \in Nat /\ o.refund \in Nat
          /\ escrow[e].remainingAmount \in Nat
      BY <1>1, EscrowParts DEF EscrowInv, Owed, Frame, Outflow, EscrowRow
    <2>2. 0 = escrow[e].remainingAmount + Owed(e) + o.fee + o.pay + o.refund
      BY <1>4 DEF RowFine
    <2> QED
      BY <2>1, <2>2, NoPartOfZero
  <1>6. RowFine(row, o, Owed(e))
    BY <1>1, <1>3, <1>5, InstanceAssumption DEF RowFine, Open
  <1>7. escrow' = [escrow EXCEPT ![e] = row] /\ held' \in Nat
    BY <1>1 DEF fundEscrow
  <1> HIDE DEF row
  <1> QED
    BY <1>2, <1>6, <1>7, Written DEF fundEscrow

\* initiateDispute keeps the invariant.
LEMMA DisputeFine ==
  ASSUME EscrowInv, NEW p \in Parties, NEW e \in Ids, initiateDispute(p, e)
  PROVE  EscrowInv'
  <1> DEFINE row == [escrow[e] EXCEPT !.status = "Disputed"]
  <1>1. escrow \in [Ids -> EscrowRow] /\ escrow[e] \in EscrowRow /\ held \in Nat
    BY EscrowParts DEF EscrowInv
  <1>2. row \in EscrowRow
    BY <1>1 DEF EscrowRow, EscrowStatus
  <1>3. /\ row.totalAmount = escrow[e].totalAmount /\ row.status = "Disputed"
        /\ row.remainingAmount = escrow[e].remainingAmount
    BY <1>1 DEF EscrowRow
  <1>4. RowFine(escrow[e], out[e], Owed(e)) /\ escrow[e].status = "Funded"
    BY DEF EscrowInv, RowsFine, initiateDispute
  <1>5. RowFine(row, out[e], Owed(e))
    BY <1>3, <1>4 DEF RowFine, Open
  <1>6. escrow' = [escrow EXCEPT ![e] = row] /\ held' \in Nat
    BY <1>1 DEF initiateDispute
  <1> HIDE DEF row
  <1> QED
    BY <1>2, <1>5, <1>6, Written DEF initiateDispute

\* releaseEscrow keeps the invariant.
LEMMA ReleaseFine ==
  ASSUME EscrowInv, NEW p \in Parties, NEW e \in Ids, releaseEscrow(p, e)
  PROVE  EscrowInv'
  <1>1. Unlocked /\ Emptied(e, "Released") /\ distribute(e, escrow[e].remainingAmount)
    BY DEF releaseEscrow
  <1>2. PICK row \in EscrowRow : /\ escrow' = [escrow EXCEPT ![e] = row]
                                 /\ RowFine(row, out[e], escrow[e].remainingAmount)
                                 /\ escrow[e].remainingAmount \in Nat
    BY <1>1, EmptiedFine
  <1> QED
    BY <1>1, <1>2, Distributed

\* directPaymentToSubcontractor keeps the invariant.
LEMMA DirectFine ==
  ASSUME EscrowInv, NEW p \in Parties, NEW e \in Ids, NEW s \in Parties, NEW gross \in 1..MaxValue,
         directPaymentToSubcontractor(p, e, s, gross)
  PROVE  EscrowInv'
  <1> DEFINE old == escrow[e]
             row == PaidDirectly(old, s, gross)
  <1>1. /\ escrow \in [Ids -> EscrowRow] /\ old \in EscrowRow
        /\ gross \in Nat /\ gross <= old.remainingAmount /\ old.status = "Funded"
    BY EscrowParts, InstanceAssumption DEF EscrowInv, directPaymentToSubcontractor, Payable
  <1>2. row \in EscrowRow
    <2> DEFINE st == IF old.remainingAmount = gross THEN "Released" ELSE old.status
    <2>1. old.remainingAmount \in Nat /\ st \in EscrowStatus /\ s \in Address
      BY <1>1 DEF EscrowRow, EscrowStatus, Address
    <2>2. old.remainingAmount - gross \in Nat
      BY <1>1, <2>1
    <2>3. row = [old EXCEPT !.subcontractor = s,
                            !.remainingAmount = old.remainingAmount - gross, !.status = st]
      BY DEF PaidDirectly
    <2> HIDE DEF st, row, old
    <2> QED
      BY <1>1, <2>1, <2>2, <2>3, RowPaid
  <1>3. /\ row.totalAmount = old.totalAmount
        /\ row.remainingAmount = old.remainingAmount - gross
        /\ row.status = IF old.remainingAmount = gross THEN "Released" ELSE "Funded"
    BY <1>1 DEF PaidDirectly, EscrowRow
  <1>4. old.remainingAmount \in Nat /\ row.remainingAmount \in Nat
    BY <1>1, <1>2 DEF EscrowRow
  <1>5. /\ row.remainingAmount + gross = old.remainingAmount
        /\ Open(row.status) <=> row.remainingAmount > 0
        /\ row.status # "PendingFunding"
    BY <1>1, <1>3, <1>4 DEF Open
  <1>6. escrow' = [escrow EXCEPT ![e] = row] /\ distribute(e, gross) /\ Unlocked
    BY DEF directPaymentToSubcontractor
  <1>7. RowFine(row, out[e], gross)
    <2> HIDE DEF row
    <2> QED
      BY <1>1, <1>2, <1>3, <1>5, <1>6, TakenFine
  <1> HIDE DEF row
  <1> QED
    BY <1>1, <1>2, <1>6, <1>7, Distributed

\* resolveDispute keeps the invariant.
LEMMA ResolveFine ==
  ASSUME EscrowInv, NEW p \in Parties, NEW e \in Ids, NEW b \in BOOLEAN, resolveDispute(p, e, b)
  PROVE  EscrowInv'
  <1>1. PICK status \in {"Released", "Refunded"} :
           /\ Unlocked /\ Emptied(e, status)
           /\ distribute(e, escrow[e].remainingAmount) \/ refund(e, escrow[e].remainingAmount)
    BY DEF resolveDispute, Decided
  <1>2. PICK row \in EscrowRow : /\ escrow' = [escrow EXCEPT ![e] = row]
                                 /\ RowFine(row, out[e], escrow[e].remainingAmount)
                                 /\ escrow[e].remainingAmount \in Nat
    BY <1>1, EmptiedFine
  <1> QED
    BY <1>1, <1>2, Distributed, Refunded

\* autoRefundOnExpiry keeps the invariant.
LEMMA AutoRefundFine ==
  ASSUME EscrowInv, NEW e \in Ids, autoRefundOnExpiry(e)
  PROVE  EscrowInv'
  <1>1. Unlocked /\ Emptied(e, "Refunded") /\ refund(e, escrow[e].remainingAmount)
    BY DEF autoRefundOnExpiry
  <1>2. PICK row \in EscrowRow : /\ escrow' = [escrow EXCEPT ![e] = row]
                                 /\ RowFine(row, out[e], escrow[e].remainingAmount)
                                 /\ escrow[e].remainingAmount \in Nat
    BY <1>1, EmptiedFine
  <1> QED
    BY <1>1, <1>2, Refunded

\* The payout after the fee keeps the invariant.
LEMMA PayOutFine == ASSUME EscrowInv, PayOut PROVE EscrowInv'
  <1>0. PICK e \in Ids : e = call.id
    BY EscrowParts DEF EscrowInv, PayOut, Unlocked, Frame
  <1> DEFINE o == out[e]
             p == [o EXCEPT !.pay = @ + call.due]
  <1>1. /\ call.due \in Nat
        /\ escrow[e] \in EscrowRow /\ escrow' = [escrow EXCEPT ![e] = escrow[e]]
        /\ o \in Outflow
    BY EscrowParts DEF EscrowInv, PayOut, Frame
  <1>2. held' \in Nat /\ p \in Outflow /\ out' = [out EXCEPT ![e] = p]
    BY <1>0, <1>1, MoreLeft DEF PayOut
  <1>3. call' = [call EXCEPT !.due = 0] /\ call' \in Frame /\ call'.id = e /\ call'.due = 0
    BY <1>0, EscrowParts DEF EscrowInv, PayOut, Frame
  <1>4. Owed(e) = call.due /\ Owed(e)' = 0 /\ \A f \in Ids \ {e} : Owed(f)' = Owed(f)
    BY <1>0, <1>3 DEF Owed
  <1>5. p.fee = o.fee /\ p.pay = o.pay + call.due /\ p.refund = o.refund
    BY <1>1 DEF Outflow
  <1>6. /\ o.fee \in Nat /\ o.pay \in Nat /\ o.refund \in Nat
        /\ escrow[e].totalAmount \in Nat /\ escrow[e].remainingAmount \in Nat
    BY <1>1 DEF Outflow, EscrowRow
  <1>7. RowFine(escrow[e], o, call.due)
    BY <1>1, <1>4 DEF EscrowInv, RowsFine
  <1>8. o.fee + o.pay + call.due = p.fee + p.pay + 0
    BY <1>1, <1>5, <1>6
  <1>9. RowFine(escrow[e], p, 0)
    <2>1. escrow[e].totalAmount = escrow[e].remainingAmount + 0 + p.fee + p.pay + p.refund
      BY <1>1, <1>5, <1>6, <1>7 DEF RowFine
    <2>2. p.fee * BPS_DENOMINATOR <= (p.fee + p.pay + 0) * FEE_BPS
      BY <1>5, <1>7, <1>8 DEF RowFine
    <2> QED
      BY <1>7, <2>1, <2>2 DEF RowFine
  <1>10. RowsFine' /\ escrow' \in [Ids -> EscrowRow] /\ out' \in [Ids -> Outflow]
    <2> HIDE DEF p
    <2> QED
      BY <1>1, <1>2, <1>4, <1>9, RowsKept
  <1>11. TypeOK'
    BY <1>2, <1>3, <1>10, EscrowParts, EscrowPartsNext DEF PayOut, EscrowInv
  <1>12. BeforeFine'
    BY DEF PayOut, EscrowInv, BeforeFine
  <1> QED
    BY <1>10, <1>11, <1>12 DEF EscrowInv

\* The end of a function keeps the invariant.
LEMMA ReturnFine == ASSUME EscrowInv, Return PROVE EscrowInv'
  <1>1. call' = NoCall /\ before' = Blank /\ UNCHANGED <<escrow, out, held, owner, paused, expired>>
    BY DEF Return
  <1>2. call' \in Frame
    BY <1>1 DEF NoCall, Frame
  <1>3. \A e \in Ids : Owed(e) = 0 /\ Owed(e)' = 0
    BY <1>1, InstanceAssumption DEF Return, NoCall, Owed
  <1>4. RowsFine'
    BY <1>1, <1>3 DEF EscrowInv, RowsFine
  <1>5. BeforeFine'
    BY <1>1, BlankFine DEF BeforeFine
  <1>6. TypeOK'
    BY <1>1, <1>2, BlankFine, EscrowParts, EscrowPartsNext DEF EscrowInv
  <1> QED
    BY <1>4, <1>5, <1>6 DEF EscrowInv

\* A failed transfer keeps the invariant.
LEMMA RevertFine == ASSUME EscrowInv, Revert PROVE EscrowInv'
  <1>1. /\ escrow' = before.escrow /\ out' = before.out /\ held' = before.held
        /\ owner' = before.owner /\ paused' = before.paused /\ expired' = expired
        /\ call' = NoCall /\ before' = Blank
    BY DEF Revert
  <1>2. call' \in Frame
    BY <1>1 DEF NoCall, Frame
  <1>3. \A e \in Ids : Owed(e)' = 0
    BY <1>1, InstanceAssumption DEF NoCall, Owed
  <1>4. RowsFine'
    BY <1>1, <1>3 DEF EscrowInv, RowsFine, BeforeFine
  <1>5. BeforeFine'
    BY <1>1, BlankFine DEF BeforeFine
  <1>6. /\ escrow' \in [Ids -> EscrowRow] /\ out' \in [Ids -> Outflow] /\ held' \in Nat
        /\ owner' \in Address /\ paused' \in BOOLEAN
    BY <1>1, EscrowParts DEF EscrowInv, State
  <1>7. TypeOK'
    BY <1>1, <1>2, <1>6, BlankFine, EscrowParts, EscrowPartsNext DEF EscrowInv
  <1> QED
    BY <1>4, <1>5, <1>7 DEF EscrowInv

\* The invariant holds at the start.
LEMMA EscrowInvInit == Init => EscrowInv
  <1> SUFFICES ASSUME Init PROVE EscrowInv
    OBVIOUS
  <1>1. NoEscrow \in EscrowRow /\ NoOutflow \in Outflow /\ RowFine(NoEscrow, NoOutflow, 0)
    BY InstanceAssumption DEF NoEscrow, EscrowRow, Address, EscrowStatus, NoOutflow, Outflow, RowFine, Open
  <1>2. call \in Frame /\ \A e \in Ids : Owed(e) = 0
    BY InstanceAssumption DEF Init, NoCall, Frame, Owed
  <1>3. RowsFine
    BY <1>1, <1>2 DEF Init, RowsFine
  <1>4. BeforeFine
    BY BlankFine DEF Init, BeforeFine
  <1>5. TypeOK
    BY <1>1, <1>2, BlankFine, EscrowParts DEF Init, Address
  <1> QED
    BY <1>3, <1>4, <1>5 DEF EscrowInv

\* Every step keeps the invariant.
LEMMA EscrowInvStep == ASSUME EscrowInv, [Next]_vars PROVE EscrowInv'
  <1>0. owner \in Address /\ paused \in BOOLEAN /\ expired \subseteq Ids
    BY EscrowParts DEF EscrowInv
  <1>1. CASE UNCHANGED vars
    BY <1>0, <1>1, Aside DEF vars
  <1>2. ASSUME NEW p \in Parties, NEW e \in Ids, CallOf(p, e)
        PROVE  EscrowInv'
    BY <1>2, CreateFine, FundFine, DisputeFine, ReleaseFine, DirectFine, ResolveFine DEF CallOf
  <1>3. ASSUME NEW e \in Ids, autoRefundOnExpiry(e)
        PROVE  EscrowInv'
    BY <1>3, AutoRefundFine
  <1>4. ASSUME NEW e \in Ids, Expire(e)
        PROVE  EscrowInv'
    BY <1>0, <1>4, Aside DEF Expire
  <1>5. ASSUME NEW p \in Parties, pause(p)
        PROVE  EscrowInv'
    BY <1>0, <1>5, Aside DEF pause
  <1>6. ASSUME NEW p \in Parties, NEW q \in Address, SetOwner(p, q)
        PROVE  EscrowInv'
    BY <1>0, <1>6, Aside DEF SetOwner
  <1>7. CASE PayOut \/ Return \/ Revert
    BY <1>7, PayOutFine, ReturnFine, RevertFine
  <1> QED
    BY <1>1, <1>2, <1>3, <1>4, <1>5, <1>6, <1>7 DEF Next

-----------------------------------------------------------------------------
(* The balance.                                                            *)

\* What some records have left.
Left(rows) == SumFunctionOnSet([e \in Ids |-> rows[e].remainingAmount], Ids)

Balanced ==
    /\ Solvent
    /\ before.held = Left(before.escrow)
    /\ Unlocked => call.due = 0

\* A record changes, and what is left by as much.
LEMMA LeftChanges ==
  ASSUME NEW rows \in [Ids -> EscrowRow], NEW e \in Ids, NEW row \in EscrowRow
  PROVE  /\ Left(rows) \in Nat
         /\ Left([rows EXCEPT ![e] = row]) =
               Left(rows) - rows[e].remainingAmount + row.remainingAmount
  <1> DEFINE new == [rows EXCEPT ![e] = row]
             f == [i \in Ids |-> rows[i].remainingAmount]
             g == [i \in Ids |-> new[i].remainingAmount]
  <1>1. /\ \A i \in Ids : f[i] \in Nat
        /\ \A i \in Ids : f[i] \in Int /\ g[i] \in Int
    BY DEF EscrowRow
  <1>2. \A i \in Ids : i # e => f[i] = g[i]
    OBVIOUS
  <1>3. f[e] = rows[e].remainingAmount /\ g[e] = row.remainingAmount
    OBVIOUS
  <1>4. Left(rows) = SumFunctionOnSet(f, Ids) /\ Left(new) = SumFunctionOnSet(g, Ids)
    BY DEF Left
  <1>5. IsFiniteSet(Ids)
    BY InstanceAssumption
  <1> HIDE DEF f, g, new
  <1>6. SumFunctionOnSet(f, Ids) \in Nat
    BY <1>1, <1>5, SumNat
  <1>7. SumFunctionOnSet(g, Ids) = SumFunctionOnSet(f, Ids) - f[e] + g[e]
    BY <1>1, <1>2, <1>5, SumChanges
  <1> QED
    BY <1>3, <1>4, <1>6, <1>7 DEF new

\* Nothing is left of records nobody has written.
LEMMA NothingLeft == Left([e \in Ids |-> NoEscrow]) = 0
  <1> DEFINE f == [e \in Ids |-> [i \in Ids |-> NoEscrow][e].remainingAmount]
  <1>1. \A e \in Ids : f[e] = 0
    BY DEF NoEscrow
  <1>2. SumFunctionOnSet(f, Ids) = 0
    <2> HIDE DEF f
    <2> QED
      BY <1>1, SumOfZeros, InstanceAssumption
  <1> QED
    BY <1>2 DEF Left

\* The balance of the contract with which nothing has happened is right.
LEMMA BlankBalanced == Blank.held = Left(Blank.escrow)
  BY NothingLeft DEF Blank

\* What is known of the balance, as a number.
LEMMA BalanceParts ==
  ASSUME EscrowInv, Balanced
  PROVE  /\ held = call.due + Left(escrow) /\ Left(escrow) \in Nat
         /\ held \in Nat /\ call.due \in Nat
  <1>1. escrow \in [Ids -> EscrowRow] /\ held \in Nat /\ call.due \in Nat
    BY EscrowParts DEF EscrowInv, Frame
  <1>2. Left(escrow) \in Nat
    <2> DEFINE f == [i \in Ids |-> escrow[i].remainingAmount]
    <2>1. \A i \in Ids : f[i] \in Nat
      BY <1>1 DEF EscrowRow
    <2>2. SumFunctionOnSet(f, Ids) \in Nat
      <3> HIDE DEF f
      <3> QED
        BY <2>1, SumNat, InstanceAssumption
    <2> QED
      BY <2>2 DEF Left
  <1> QED
    BY <1>1, <1>2 DEF Balanced, Solvent, Left

\* A function that takes g out of a record and pays or owes it keeps the balance right.
LEMMA PaidBalanced ==
  ASSUME EscrowInv, Balanced, Unlocked, NEW e \in Ids, NEW row \in EscrowRow, NEW g \in Nat,
         row.remainingAmount + g = escrow[e].remainingAmount,
         escrow' = [escrow EXCEPT ![e] = row], distribute(e, g) \/ refund(e, g)
  PROVE  Balanced'
  <1>1. /\ escrow \in [Ids -> EscrowRow] /\ escrow[e].remainingAmount \in Nat
        /\ row.remainingAmount \in Nat
    BY EscrowParts DEF EscrowInv, EscrowRow
  <1>2. held = Left(escrow) /\ Left(escrow) \in Nat /\ held \in Nat
    BY BalanceParts DEF Balanced
  <1>3. Left(escrow') = Left(escrow) - g
    <2>1. Left(escrow') = Left(escrow) - escrow[e].remainingAmount + row.remainingAmount
      BY <1>1, LeftChanges
    <2> QED
      BY <1>1, <1>2, <2>1
  <1>4. PICK sent \in Nat, due \in Nat : /\ sent + due = g
                                         /\ held' = held - sent
                                         /\ Locked(e, due)
    <2>1. calculateFee(g) \in Nat /\ calculateFee(g) <= g
      BY FeeFits
    <2>2. CASE distribute(e, g) /\ calculateFee(g) > 0
      <3>1. /\ g - calculateFee(g) \in Nat /\ calculateFee(g) + (g - calculateFee(g)) = g
            /\ held' = held - calculateFee(g) /\ Locked(e, g - calculateFee(g))
        BY <2>1, <2>2 DEF distribute, Send
      <3> QED
        BY <2>1, <3>1
    <2>3. CASE refund(e, g) \/ (distribute(e, g) /\ ~(calculateFee(g) > 0))
      <3>1. g + 0 = g /\ held' = held - g /\ Locked(e, 0)
        BY <2>3 DEF distribute, refund, Send
      <3> QED
        BY <3>1
    <2> QED
      BY <2>2, <2>3
  <1>5. call'.due = due /\ call'.id = e /\ before' = Snapshot
    BY <1>4 DEF Locked
  <1>6. held' = call'.due + Left(escrow')
    BY <1>2, <1>3, <1>4, <1>5
  <1>7. before'.held = held /\ before'.escrow = escrow
    BY <1>5 DEF Snapshot
  <1>8. ~Unlocked'
    BY <1>5, InstanceAssumption DEF Unlocked
  <1> QED
    BY <1>2, <1>6, <1>7, <1>8 DEF Balanced, Solvent, Left

\* A function that settles an escrow keeps the balance right.
LEMMA SettledBalanced ==
  ASSUME EscrowInv, Balanced, Unlocked, NEW e \in Ids, NEW status \in {"Released", "Refunded"},
         Emptied(e, status),
         \/ distribute(e, escrow[e].remainingAmount)
         \/ refund(e, escrow[e].remainingAmount)
  PROVE  Balanced'
  <1> DEFINE row == [escrow[e] EXCEPT !.remainingAmount = 0, !.status = status]
  <1>1. escrow \in [Ids -> EscrowRow] /\ escrow[e] \in EscrowRow
    BY EscrowParts DEF EscrowInv
  <1>2. /\ row \in EscrowRow /\ escrow[e].remainingAmount \in Nat
        /\ row.remainingAmount + escrow[e].remainingAmount = escrow[e].remainingAmount
    <2>1. row \in EscrowRow /\ escrow[e].remainingAmount \in Nat
      BY <1>1 DEF EscrowRow, EscrowStatus
    <2>2. row.remainingAmount = 0
      BY <1>1 DEF EscrowRow
    <2> QED
      BY <2>1, <2>2
  <1>3. escrow' = [escrow EXCEPT ![e] = row]
    BY <1>1 DEF Emptied
  <1> HIDE DEF row
  <1> QED
    BY <1>2, <1>3, PaidBalanced

\* A function that writes a record without moving money keeps the balance right.
LEMMA WrittenBalanced ==
  ASSUME EscrowInv, Balanced, NEW e \in Ids, NEW row \in EscrowRow, NEW value \in Nat,
         row.remainingAmount = escrow[e].remainingAmount + value,
         escrow' = [escrow EXCEPT ![e] = row], held' = held + value,
         UNCHANGED <<call, before>>
  PROVE  Balanced'
  <1>1. /\ escrow \in [Ids -> EscrowRow] /\ escrow[e].remainingAmount \in Nat
        /\ row.remainingAmount \in Nat
    BY EscrowParts DEF EscrowInv, EscrowRow
  <1>2. Left(escrow') = Left(escrow) - escrow[e].remainingAmount + row.remainingAmount
    BY <1>1, LeftChanges
  <1>3. held' = call'.due + Left(escrow')
    BY <1>1, <1>2, BalanceParts
  <1> QED
    BY <1>3 DEF Balanced, Solvent, Left, Unlocked

\* Every step keeps the balance right.
LEMMA BalanceKept == ASSUME EscrowInv, Balanced, [Next]_vars PROVE Balanced'
  <1>0. escrow \in [Ids -> EscrowRow] /\ held \in Nat
    BY EscrowParts DEF EscrowInv
  <1>1. ASSUME UNCHANGED <<escrow, held, call, before>>
        PROVE  Balanced'
    BY <1>1 DEF Balanced, Solvent, Unlocked
  <1>2. ASSUME NEW p \in Parties, NEW q \in Parties, NEW s \in Address, NEW e \in Ids,
               createEscrow(p, q, s, e)
        PROVE  Balanced'
    <2> DEFINE row == [NoEscrow EXCEPT !.payer = p, !.payee = q, !.subcontractor = s]
    <2>1. row \in EscrowRow /\ row.remainingAmount = escrow[e].remainingAmount + 0
      <3>1. row \in EscrowRow
        BY DEF NoEscrow, EscrowRow, Address, EscrowStatus
      <3>2. row.remainingAmount = 0 /\ escrow[e].remainingAmount = 0
        BY <1>2 DEF createEscrow, NoEscrow
      <3> QED
        BY <3>1, <3>2
    <2>2. held' = held + 0
      BY <1>0, <1>2 DEF createEscrow
    <2>3. escrow' = [escrow EXCEPT ![e] = row] /\ UNCHANGED <<call, before>>
      BY <1>2 DEF createEscrow
    <2> HIDE DEF row
    <2> QED
      BY <2>1, <2>2, <2>3, WrittenBalanced
  <1>3. ASSUME NEW p \in Parties, NEW e \in Ids, NEW value \in 1..MaxValue,
               fundEscrow(p, e, value)
        PROVE  Balanced'
    <2> DEFINE row == [escrow[e] EXCEPT !.totalAmount = value, !.remainingAmount = value,
                                        !.status = "Funded"]
    <2>1. escrow[e] \in EscrowRow /\ value \in Nat
      BY <1>0, InstanceAssumption
    <2>2. escrow[e].remainingAmount = 0
      <3>1. escrow[e].status = "PendingFunding"
        BY <1>3 DEF fundEscrow
      <3>2. ~(escrow[e].remainingAmount > 0)
        BY <3>1 DEF EscrowInv, RowsFine, RowFine, Open
      <3> QED
        BY <2>1, <3>2 DEF EscrowRow
    <2>3. row \in EscrowRow /\ row.remainingAmount = escrow[e].remainingAmount + value
      <3>1. row \in EscrowRow
        BY <2>1 DEF EscrowRow, EscrowStatus
      <3>2. row.remainingAmount = value
        BY <2>1 DEF EscrowRow
      <3> QED
        BY <2>1, <2>2, <3>2, <3>1
    <2>4. /\ escrow' = [escrow EXCEPT ![e] = row] /\ held' = held + value
          /\ UNCHANGED <<call, before>>
      BY <1>0, <1>3 DEF fundEscrow
    <2> HIDE DEF row
    <2> QED
      BY <2>1, <2>3, <2>4, WrittenBalanced
  <1>4. ASSUME NEW p \in Parties, NEW e \in Ids, initiateDispute(p, e)
        PROVE  Balanced'
    <2> DEFINE row == [escrow[e] EXCEPT !.status = "Disputed"]
    <2>1. row \in EscrowRow /\ row.remainingAmount = escrow[e].remainingAmount + 0
      BY <1>0 DEF EscrowRow, EscrowStatus
    <2>2. /\ escrow' = [escrow EXCEPT ![e] = row] /\ held' = held + 0
          /\ UNCHANGED <<call, before>>
      BY <1>0, <1>4 DEF initiateDispute
    <2> HIDE DEF row
    <2> QED
      BY <2>1, <2>2, WrittenBalanced
  <1>5. ASSUME NEW p \in Parties, NEW e \in Ids, releaseEscrow(p, e)
        PROVE  Balanced'
    BY <1>5, SettledBalanced DEF releaseEscrow
  <1>6. ASSUME NEW p \in Parties, NEW e \in Ids, NEW s \in Parties, NEW gross \in 1..MaxValue,
               directPaymentToSubcontractor(p, e, s, gross)
        PROVE  Balanced'
    <2> DEFINE row == PaidDirectly(escrow[e], s, gross)
    <2>1. escrow[e] \in EscrowRow /\ gross \in Nat /\ gross <= escrow[e].remainingAmount
      BY <1>0, <1>6, InstanceAssumption DEF directPaymentToSubcontractor, Payable
    <2>2. row.remainingAmount + gross = escrow[e].remainingAmount
      BY <2>1 DEF PaidDirectly, EscrowRow
    <2>3. row \in EscrowRow
      <3>1. escrow[e].remainingAmount - gross \in Nat
        BY <2>1 DEF EscrowRow
      <3> QED
        BY <2>1, <3>1 DEF PaidDirectly, EscrowRow, EscrowStatus, Address
    <2>4. escrow' = [escrow EXCEPT ![e] = row] /\ distribute(e, gross) /\ Unlocked
      BY <1>6 DEF directPaymentToSubcontractor
    <2> HIDE DEF row
    <2> QED
      BY <2>1, <2>2, <2>3, <2>4, PaidBalanced
  <1>7. ASSUME NEW p \in Parties, NEW e \in Ids, NEW b \in BOOLEAN, resolveDispute(p, e, b)
        PROVE  Balanced'
    BY <1>7, SettledBalanced DEF resolveDispute, Decided
  <1>8. ASSUME NEW e \in Ids, autoRefundOnExpiry(e)
        PROVE  Balanced'
    BY <1>8, SettledBalanced DEF autoRefundOnExpiry
  <1>9. ASSUME PayOut
        PROVE  Balanced'
    <2>1. /\ held' = held - call.due /\ call'.due = 0 /\ call'.id = call.id
          /\ UNCHANGED <<escrow, before>>
      BY <1>9, EscrowParts DEF PayOut, Send, EscrowInv, Frame
    <2>2. held' = call'.due + Left(escrow')
      BY <2>1, BalanceParts
    <2> QED
      BY <2>1, <2>2 DEF Balanced, Solvent, Left, Unlocked
  <1>10. ASSUME Return
         PROVE  Balanced'
    BY <1>10, BlankBalanced DEF Return, NoCall, Balanced, Solvent, Unlocked
  <1>11. ASSUME Revert
         PROVE  Balanced'
    <2>1. /\ held' = before.held /\ escrow' = before.escrow /\ before' = Blank
          /\ call'.due = 0
      BY <1>11 DEF Revert, NoCall
    <2>2. before.held \in Nat
      BY EscrowParts DEF EscrowInv, State
    <2>3. held' = call'.due + Left(escrow')
      BY <2>1, <2>2 DEF Balanced
    <2> QED
      BY <2>1, <2>3, BlankBalanced DEF Balanced, Solvent, Left
  <1>12. CASE UNCHANGED vars
    BY <1>1, <1>12 DEF vars
  <1>13. ASSUME NEW p \in Parties, NEW e \in Ids, CallOf(p, e)
         PROVE  Balanced'
    BY <1>2, <1>3, <1>4, <1>5, <1>6, <1>7, <1>13 DEF CallOf
  <1>14. CASE \/ \E e \in Ids : Expire(e)
              \/ \E p \in Parties : pause(p) \/ \E q \in Address : SetOwner(p, q)
    BY <1>1, <1>14 DEF Expire, pause, SetOwner
  <1> QED
    BY <1>8, <1>9, <1>10, <1>11, <1>12, <1>13, <1>14 DEF Next

-----------------------------------------------------------------------------
(* The theorems.                                                           *)

\* The inductive invariant holds in every state: Spec => []EscrowInv.
THEOREM EscrowInvariance == Spec => []EscrowInv
  BY EscrowInvInit, EscrowInvStep, PTL DEF Spec

\* Records, amounts and the snapshot of a running function stay well formed, and no
\* balance becomes negative: Spec => []TypeOK.
THEOREM EscrowTypesHold == Spec => []TypeOK
  <1>1. EscrowInv => TypeOK
    BY DEF EscrowInv
  <1> QED
    BY <1>1, EscrowInvariance, PTL

\* Whatever recipients do while they are paid, every deposit is accounted for to the
\* last unit, at every moment, and open exactly while some of it is left:
\* Spec => []Accounted.
THEOREM DepositsAccounted == Spec => []Accounted
  <1>1. EscrowInv => Accounted
    BY DEF EscrowInv, RowsFine, RowFine, Open, Accounted, OpenHasMoney, FeesWithinRate
  <1> QED
    BY <1>1, EscrowInvariance, PTL

\* The balance is what the open escrows have left and what a running function still owes,
\* at every moment of a call, and after any failure: Spec => []Solvent.
THEOREM EscrowSolvent == Spec => []Solvent
  <1>1. Init => Balanced
    <2> SUFFICES ASSUME Init PROVE Balanced
      OBVIOUS
    <2>1. held = 0 /\ call.due = 0 /\ Left(escrow) = 0 /\ before = Blank
      BY NothingLeft DEF Init, NoCall
    <2> QED
      BY <2>1, BlankBalanced DEF Balanced, Solvent, Left
  <1>2. EscrowInv /\ Balanced /\ [Next]_vars => Balanced'
    BY BalanceKept
  <1>3. Balanced => Solvent
    BY DEF Balanced
  <1> QED
    BY <1>1, <1>2, <1>3, EscrowInvariance, PTL DEF Spec

\* However a deposit is cut into payments, rounding never costs the payees more
\* than the rate: Spec => []FeesWithinRate.
THEOREM FeesBounded == Spec => []FeesWithinRate
  <1>1. EscrowInv => FeesWithinRate
    BY DEF EscrowInv, RowsFine, RowFine, FeesWithinRate
  <1> QED
    BY <1>1, EscrowInvariance, PTL

\* A settled escrow stays as it is and is never paid from again, by any function and
\* any failure of another one: Spec => SettledIsFinal.
THEOREM SettledStays == Spec => SettledIsFinal
  <1> DEFINE Kept(e) == escrow'[e] = escrow[e] /\ out'[e] = out[e]
  <1>1. ASSUME TypeOK, [Next]_vars, NEW e \in Ids, Unlocked,
               escrow[e].status \in {"Released", "Refunded"}
        PROVE  Kept(e)
    <2>0. escrow \in [Ids -> EscrowRow] /\ out \in [Ids -> Outflow]
      BY <1>1, EscrowParts
    <2>1. CASE UNCHANGED vars
      BY <2>1 DEF vars
    <2>2. ASSUME NEW p \in Parties, NEW i \in Ids, CallOf(p, i)
          PROVE  Kept(e)
      <3>1. escrow[i].status \in {"PendingFunding", "Funded", "Disputed"}
        <4>1. ASSUME NEW q \in Parties, NEW s \in Address, createEscrow(p, q, s, i)
              PROVE  escrow[i].status = "PendingFunding"
          BY <4>1 DEF createEscrow, NoEscrow
        <4> QED
          BY <2>2, <4>1 DEF CallOf, fundEscrow, initiateDispute, releaseEscrow,
             directPaymentToSubcontractor, resolveDispute
      <3>2. i # e
        BY <1>1, <3>1
      <3>3. escrow'[e] = escrow[e]
        BY <2>0, <2>2, <3>2 DEF CallOf, createEscrow, fundEscrow, initiateDispute,
           releaseEscrow, directPaymentToSubcontractor, resolveDispute, Emptied, Decided
      <3>4. out'[e] = out[e]
        BY <2>0, <2>2, <3>2 DEF CallOf, createEscrow, fundEscrow, initiateDispute,
           releaseEscrow, directPaymentToSubcontractor, resolveDispute, distribute, refund, Send
      <3> QED
        BY <3>3, <3>4
    <2>3. ASSUME NEW i \in Ids, autoRefundOnExpiry(i)
          PROVE  Kept(e)
      BY <1>1, <2>0, <2>3 DEF autoRefundOnExpiry, RefundableAtExpiry, Emptied, refund, Send
    <2>4. CASE \/ \E i \in Ids : Expire(i)
               \/ \E p \in Parties : pause(p) \/ \E q \in Address : SetOwner(p, q)
      BY <2>4 DEF Expire, pause, SetOwner
    <2>5. ~(PayOut \/ Return \/ Revert)
      BY <1>1 DEF PayOut, Return, Revert
    <2> QED
      BY <1>1, <2>1, <2>2, <2>3, <2>4, <2>5 DEF Next
  <1>2. TypeOK /\ [Next]_vars =>
           [\A e \in Ids : Unlocked /\ escrow[e].status \in {"Released", "Refunded"} =>
               escrow'[e] = escrow[e] /\ out'[e] = out[e]]_vars
    BY <1>1
  <1> QED
    BY <1>2, EscrowTypesHold, PTL DEF Spec, SettledIsFinal

-----------------------------------------------------------------------------
(* A function is one step.  While it runs, what the records will be once   *)
(* it is through is what the transaction makes of those it found: that is  *)
(* the invariant which lets every step but the last be a stuttering one.   *)

\* What an escrow is when the running function is through, and what it was before.
Through(e) == AccountOf(escrow[e], out[e], Owed(e))
Was(e)     == AccountOf(before.escrow[e], before.out[e], 0)

Underway ==
    ~Unlocked => /\ Atomic!Paid(Was(call.id), Through(call.id))
                 /\ \A e \in Ids \ {call.id} : Atomic!Touched(Was(e), Through(e))

\* What is to be shown of a step.
IsOneStep == Underway' /\ [Atomic!Transaction]_[e \in Ids |-> Standing(e)]

Account == [status : EscrowStatus, deposit : Nat, left : Nat, fee : Nat, pay : Nat, refund : Nat]

\* What the account of a record is.
LEMMA AccountTyped ==
  ASSUME NEW row \in EscrowRow, NEW o \in Outflow, NEW due \in Nat
  PROVE  /\ AccountOf(row, o, due) \in Account
         /\ AccountOf(row, o, due).status = row.status
         /\ AccountOf(row, o, due).deposit = row.totalAmount
         /\ AccountOf(row, o, due).left = row.remainingAmount
         /\ AccountOf(row, o, due).fee = o.fee
         /\ AccountOf(row, o, due).pay = o.pay + due
         /\ AccountOf(row, o, due).refund = o.refund
  <1>1. /\ row.status \in EscrowStatus /\ row.totalAmount \in Nat /\ row.remainingAmount \in Nat
        /\ o.fee \in Nat /\ o.refund \in Nat /\ o.pay + due \in Nat
    BY DEF EscrowRow, Outflow
  <1> QED
    BY <1>1 DEF AccountOf, Account

\* A record that waits for its deposit is a fresh account.
LEMMA PendingIsFresh ==
  ASSUME NEW row \in EscrowRow, NEW o \in Outflow, NEW due \in Nat, RowFine(row, o, due),
         row.status = "PendingFunding"
  PROVE  AccountOf(row, o, due) = Atomic!Fresh
  <1>1. row.remainingAmount \in Nat /\ o.fee \in Nat /\ o.pay \in Nat /\ o.refund \in Nat
    BY DEF EscrowRow, Outflow
  <1>2. row.totalAmount = 0 /\ 0 = row.remainingAmount + due + o.fee + o.pay + o.refund
    BY DEF RowFine
  <1>3. PICK l \in Nat, f \in Nat, p \in Nat, r \in Nat :
           l = row.remainingAmount /\ f = o.fee /\ p = o.pay /\ r = o.refund
    BY <1>1
  <1>4. 0 = l + due + f + p + r
    BY <1>2, <1>3
  <1>5. l = 0 /\ due = 0 /\ f = 0 /\ p = 0 /\ r = 0
    BY <1>4
  <1>6. o.pay + due = 0
    BY <1>3, <1>5
  <1> QED
    BY <1>2, <1>3, <1>5, <1>6 DEF AccountOf, Atomic!Fresh

\* What a transaction may do to a deposit it does not pay from, it may do in two parts.
LEMMA TouchedTwice ==
  ASSUME NEW was \in Account, NEW a \in Account, NEW b \in Account,
         Atomic!Touched(was, a), Atomic!Touched(a, b)
  PROVE  Atomic!Touched(was, b)
  <1>1. CASE a = was \/ b = a
    BY <1>1
  <1>2. CASE Atomic!Still(was, a) /\ was.status = "Funded" /\ a # was
    <2>1. a = [was EXCEPT !.status = "Disputed"] /\ a.status = "Disputed"
      BY <1>2 DEF Atomic!Still, Account
    <2>2. b = a
      BY <2>1 DEF Atomic!Touched, Atomic!Still, Atomic!Opened, Atomic!Fresh
    <2> QED
      BY <1>1, <2>2
  <1>3. CASE Atomic!Opened(was, a)
    <2>1. /\ was = Atomic!Fresh /\ a.deposit > 0
          /\ a = [status |-> a.status, deposit |-> a.deposit, left |-> a.deposit,
                  fee |-> 0, pay |-> 0, refund |-> 0]
      BY <1>3 DEF Atomic!Opened
    <2>2. ~Atomic!Opened(a, b)
      BY <2>1 DEF Atomic!Opened, Atomic!Fresh
    <2>3. CASE b = [a EXCEPT !.status = "Disputed"]
      <3>1. b.status = "Disputed" /\ b.deposit = a.deposit
        BY <2>3 DEF Account
      <3>2. b = [status |-> "Disputed", deposit |-> a.deposit, left |-> a.deposit,
                 fee |-> 0, pay |-> 0, refund |-> 0]
        BY <2>1, <2>3
      <3> QED
        BY <2>1, <3>1, <3>2 DEF Atomic!Touched, Atomic!Opened
    <2> QED
      BY <1>1, <2>2, <2>3 DEF Atomic!Touched, Atomic!Still
  <1> QED
    BY <1>1, <1>2, <1>3 DEF Atomic!Touched, Atomic!Still

\* What is paid from may be disputed in the same transaction.
LEMMA PaidThenTouched ==
  ASSUME NEW was \in Account, NEW a \in Account, NEW b \in Account,
         Atomic!Paid(was, a), Atomic!Touched(a, b)
  PROVE  Atomic!Paid(was, b)
  <1>1. a.status # "PendingFunding"
    BY DEF Atomic!Paid, Atomic!Distributed, Atomic!Returned, Account
  <1>2. ~Atomic!Opened(a, b)
    BY <1>1 DEF Atomic!Opened, Atomic!Fresh
  <1>3. CASE a.status = "Funded" /\ b = [a EXCEPT !.status = "Disputed"]
    <2>1. /\ b.status = "Disputed" /\ b.deposit = a.deposit /\ b.left = a.left
          /\ b.fee = a.fee /\ b.pay = a.pay /\ b.refund = a.refund
      BY <1>3 DEF Account
    <2>2. Atomic!Distributed(was, a)
      BY <1>3 DEF Atomic!Paid, Atomic!Returned, Account
    <2>3. a.left > 0 /\ was.status = "Funded"
      BY <1>3, <2>2 DEF Atomic!Distributed
    <2> QED
      BY <2>1, <2>2, <2>3 DEF Atomic!Paid, Atomic!Distributed
  <1> QED
    BY <1>2, <1>3 DEF Atomic!Touched, Atomic!Still

\* What has to be shown of a step that is not a stuttering one.
LEMMA AtOnce ==
  ASSUME NEW e \in Ids,
         Atomic!Touched(Standing(e), Standing(e)') \/ Atomic!Paid(Standing(e), Standing(e)'),
         \A i \in Ids \ {e} : Atomic!Touched(Standing(i), Standing(i)')
  PROVE  Atomic!Transaction
  BY DEF Atomic!Transaction

\* A step that leaves every deposit as its owners know it.
LEMMA Unseen ==
  ASSUME \A e \in Ids : Standing(e)' = Standing(e), Underway'
  PROVE  IsOneStep
  <1>1. [e \in Ids |-> Standing(e)]' = [e \in Ids |-> Standing(e)]
    OBVIOUS
  <1> QED
    BY <1>1 DEF IsOneStep

\* The accounts of the records, now and as they were.
LEMMA AccountsTyped ==
  ASSUME EscrowInv, NEW e \in Ids
  PROVE  Through(e) \in Account /\ Was(e) \in Account
  <1>1. /\ escrow[e] \in EscrowRow /\ out[e] \in Outflow /\ Owed(e) \in Nat
        /\ before.escrow[e] \in EscrowRow /\ before.out[e] \in Outflow
    BY EscrowParts DEF EscrowInv, State, Owed, Frame
  <1> QED
    BY <1>1, AccountTyped DEF Through, Was

\* Between functions an escrow is what it is.
LEMMA StandingWhenUnlocked ==
  ASSUME Unlocked, NEW e \in Ids
  PROVE  Standing(e) = Through(e)
  BY NothingOwed DEF Standing, Through

\* In the middle of a function it is what it was.
LEMMA StandingWhenLocked ==
  ASSUME ~Unlocked, NEW e \in Ids
  PROVE  Standing(e) = Was(e)
  BY DEF Standing, Was

\* A function without the lock, that opens or disputes one deposit: by itself one step,
\* and part of the transaction when it is called back.
LEMMA WrittenAtOnce ==
  ASSUME EscrowInv, EscrowInv', Underway, NEW e \in Ids, UNCHANGED <<call, before>>,
         \A i \in Ids \ {e} : escrow'[i] = escrow[i] /\ out'[i] = out[i],
         Atomic!Touched(Through(e), Through(e)')
  PROVE  IsOneStep
  <1>1. \A i \in Ids : /\ Through(i) \in Account /\ Through(i)' \in Account
                       /\ Was(i) \in Account /\ Was(i)' = Was(i)
    <2>1. \A i \in Ids : Through(i) \in Account /\ Was(i) \in Account
      BY AccountsTyped
    <2>2. \A i \in Ids : Through(i)' \in Account
      <3>1. ASSUME NEW i \in Ids PROVE Through(i)' \in Account
        <4>1. escrow'[i] \in EscrowRow /\ out'[i] \in Outflow /\ Owed(i)' \in Nat
          BY DEF EscrowInv, TypeOK, Snapshot, State, Owed, Frame
        <4> QED
          BY <4>1, AccountTyped DEF Through
      <3> QED
        BY <3>1
    <2> QED
      BY <2>1, <2>2 DEF Was
  <1>2. \A i \in Ids \ {e} : Through(i)' = Through(i)
    BY DEF Through, Owed
  <1>3. \A i \in Ids : Atomic!Touched(Through(i), Through(i)')
    BY <1>2 DEF Atomic!Touched, Atomic!Still
  <1>4. CASE Unlocked
    <2>1. Unlocked' /\ Underway'
      BY <1>4 DEF Unlocked, Underway
    <2>2. ASSUME NEW i \in Ids PROVE Standing(i) = Through(i) /\ Standing(i)' = Through(i)'
      <3>1. Owed(i)' = 0
        BY <1>4, NothingOwed DEF Owed
      <3> QED
        BY <1>4, <2>1, <3>1, StandingWhenUnlocked DEF Standing, Through
    <2>3. Atomic!Transaction
      BY <1>3, <2>2, AtOnce
    <2> QED
      BY <2>1, <2>3 DEF IsOneStep
  <1>5. CASE ~Unlocked
    <2>1. ~Unlocked' /\ call.id \in Ids /\ call' = call
      BY <1>5, EscrowParts DEF EscrowInv, Unlocked, Frame
    <2>2. Atomic!Paid(Was(call.id), Through(call.id)')
      BY <1>1, <1>3, <1>5, <2>1, PaidThenTouched DEF Underway
    <2>3. \A i \in Ids \ {call.id} : Atomic!Touched(Was(i), Through(i)')
      BY <1>1, <1>3, <1>5, TouchedTwice DEF Underway
    <2>4. Underway'
      BY <1>1, <2>1, <2>2, <2>3 DEF Underway, Through
    <2>5. \A i \in Ids : Standing(i)' = Standing(i)
      BY <1>5, <2>1 DEF Standing
    <2> QED
      BY <2>4, <2>5, Unseen
  <1> QED
    BY <1>4, <1>5

\* A function that takes the lock and will have paid from one deposit.
LEMMA LockTaken ==
  ASSUME EscrowInv, Unlocked, NEW e \in Ids, NEW due \in Nat, Locked(e, due),
         \A i \in Ids \ {e} : escrow'[i] = escrow[i] /\ out'[i] = out[i],
         Atomic!Paid(AccountOf(escrow[e], out[e], 0), AccountOf(escrow'[e], out'[e], due))
  PROVE  IsOneStep
  <1>1. call' = [id |-> e, due |-> due] /\ before' = Snapshot /\ ~Unlocked'
    BY InstanceAssumption DEF Locked, Unlocked
  <1>2. \A i \in Ids : /\ before'.escrow[i] = escrow[i] /\ before'.out[i] = out[i]
                       /\ Owed(i)' = IF i = e THEN due ELSE 0
    BY <1>1 DEF Snapshot, Owed
  <1>3. \A i \in Ids : Was(i)' = AccountOf(escrow[i], out[i], 0)
    BY <1>2 DEF Was
  <1>4. \A i \in Ids : Standing(i)' = Standing(i)
    BY <1>1, <1>2 DEF Standing
  <1>5. Through(e)' = AccountOf(escrow'[e], out'[e], due)
    BY <1>2 DEF Through
  <1>6. \A i \in Ids \ {e} : Through(i)' = Was(i)'
    BY <1>2, <1>3 DEF Through
  <1>7. Atomic!Paid(Was(e)', Through(e)')
    BY <1>3, <1>5
  <1>8. \A i \in Ids \ {e} : Atomic!Touched(Was(i)', Through(i)')
    BY <1>6 DEF Atomic!Touched, Atomic!Still
  <1>9. Underway'
    BY <1>1, <1>7, <1>8 DEF Underway
  <1> QED
    BY <1>4, <1>9, Unseen

\* The fee is what the rate says, rounded down.
LEMMA FeeIsFloor == ASSUME NEW g \in Nat PROVE Atomic!IsFee(calculateFee(g), g)
  <1> DEFINE f == calculateFee(g)
             n == g * FEE_BPS
  <1>1. FEE_BPS \in Nat /\ BPS_DENOMINATOR \in Nat /\ BPS_DENOMINATOR > 0 /\ n \in Nat
    BY InstanceAssumption
  <1>2. f = n \div BPS_DENOMINATOR /\ f \in Nat
    BY FeeFits DEF calculateFee
  <1>3. f * BPS_DENOMINATOR <= n /\ n < (f + 1) * BPS_DENOMINATOR
    <2> HIDE DEF f, n
    <2> QED
      BY <1>1, <1>2
  <1> QED
    BY <1>3 DEF Atomic!IsFee

\* What a function takes out of a deposit and distributes is, once it is through, paid
\* out less the fee.
LEMMA DistributedAtOnce ==
  ASSUME EscrowInv, Unlocked, NEW e \in Ids, NEW row \in EscrowRow, NEW g \in Nat, g > 0,
         escrow[e].status \in {"Funded", "Disputed"},
         row.totalAmount = escrow[e].totalAmount,
         row.remainingAmount + g = escrow[e].remainingAmount,
         \/ row.remainingAmount = 0 /\ row.status = "Released"
         \/ row.remainingAmount > 0 /\ escrow[e].status = "Funded" /\ row.status = "Funded",
         escrow' = [escrow EXCEPT ![e] = row], distribute(e, g)
  PROVE  IsOneStep
  <1> DEFINE f == calculateFee(g)
             o == out[e]
  <1>1. f \in Nat /\ f <= g /\ Atomic!IsFee(f, g)
    BY FeeFits, FeeIsFloor
  <1>2. /\ escrow \in [Ids -> EscrowRow] /\ out \in [Ids -> Outflow]
        /\ escrow[e] \in EscrowRow /\ o \in Outflow
    BY EscrowParts DEF EscrowInv
  <1>3. PICK due \in Nat, p \in Outflow :
           /\ Locked(e, due) /\ out' = [out EXCEPT ![e] = p]
           /\ p.fee = o.fee + f /\ p.pay + due = o.pay + (g - f) /\ p.refund = o.refund
    <2>1. o.fee \in Nat /\ o.pay \in Nat /\ g - f \in Nat
      BY <1>1, <1>2 DEF Outflow
    <2>2. CASE f > 0
      <3> DEFINE p == [o EXCEPT !.fee = @ + f]
      <3>1. Send(e, "fee", f) /\ Locked(e, g - f)
        BY <2>2 DEF distribute
      <3>2. p \in Outflow /\ out' = [out EXCEPT ![e] = p]
        BY <1>1, <3>1, MoreLeft
      <3>3. p.fee = o.fee + f /\ p.pay + (g - f) = o.pay + (g - f) /\ p.refund = o.refund
        BY <1>2 DEF Outflow
      <3> HIDE DEF p, o, f
      <3> QED
        BY <2>1, <3>1, <3>2, <3>3
    <2>3. CASE f = 0
      <3> DEFINE p == [o EXCEPT !.pay = @ + g]
      <3>1. Send(e, "pay", g) /\ Locked(e, 0)
        BY <2>3 DEF distribute
      <3>2. p \in Outflow /\ out' = [out EXCEPT ![e] = p]
        BY <3>1, MoreLeft
      <3>3. p.fee = o.fee + f /\ p.pay + 0 = o.pay + (g - f) /\ p.refund = o.refund
        <4>1. p.fee = o.fee /\ p.pay = o.pay + g /\ p.refund = o.refund
          BY <1>2 DEF Outflow
        <4> HIDE DEF p, o, f
        <4> QED
          BY <2>1, <2>3, <4>1
      <3> HIDE DEF p, o, f
      <3> QED
        BY <3>1, <3>2, <3>3
    <2> QED
      BY <1>1, <2>2, <2>3
  <1>4. escrow'[e] = row /\ out'[e] = p
    BY <1>2, <1>3
  <1> DEFINE was == AccountOf(escrow[e], o, 0)
             is == AccountOf(row, p, due)
  <1>5. Atomic!Paid(was, is)
    <2>1. /\ was \in Account /\ is \in Account
          /\ was.status = escrow[e].status /\ is.status = row.status
          /\ was.deposit = escrow[e].totalAmount /\ is.deposit = row.totalAmount
          /\ was.left = escrow[e].remainingAmount /\ is.left = row.remainingAmount
          /\ was.fee = o.fee /\ is.fee = p.fee
          /\ was.pay = o.pay + 0 /\ is.pay = p.pay + due
          /\ was.refund = o.refund /\ is.refund = p.refund
      BY <1>2, AccountTyped
    <2>2. /\ was.left \in Nat /\ was.fee \in Nat /\ was.pay \in Nat /\ is.left \in Nat
          /\ was.pay = o.pay
      <3>1. o.pay \in Nat
        BY <1>2 DEF Outflow
      <3> HIDE DEF was, is
      <3> QED
        BY <2>1, <3>1 DEF Account
    <2> HIDE DEF was, is
    <2>3. is.left + g = was.left /\ is.fee = was.fee + f /\ is.pay = was.pay + (g - f)
      BY <1>3, <2>1, <2>2
    <2>4. /\ is.left < was.left /\ was.fee <= is.fee
          /\ is.fee - was.fee = f /\ was.left - is.left = g
          /\ is.left + is.fee + is.pay = was.left + was.fee + was.pay
      <3> HIDE DEF f
      <3> QED
        BY <1>1, <2>2, <2>3
    <2>5. Atomic!IsFee(is.fee - was.fee, was.left - is.left)
      BY <1>1, <2>4
    <2> QED
      BY <1>3, <2>1, <2>4, <2>5 DEF Atomic!Paid, Atomic!Distributed
  <1> QED
    <2>1. Atomic!Paid(AccountOf(escrow[e], out[e], 0), AccountOf(escrow'[e], out'[e], due))
      BY <1>4, <1>5
    <2>2. \A i \in Ids \ {e} : escrow'[i] = escrow[i] /\ out'[i] = out[i]
      BY <1>2, <1>3
    <2> QED
      BY <1>3, <2>1, <2>2, LockTaken

\* An account all of which went back.
LEMMA AllReturned ==
  ASSUME NEW was \in Account, NEW is \in Account, was.status \in {"Funded", "Disputed"},
         was.left > 0, is.status = "Refunded", is.left = 0, is.refund = was.refund + was.left,
         is.deposit = was.deposit, is.fee = was.fee, is.pay = was.pay
  PROVE  Atomic!Paid(was, is)
  <1>1. is = [status |-> "Refunded", deposit |-> was.deposit, left |-> 0, fee |-> was.fee,
              pay |-> was.pay, refund |-> was.refund + was.left]
    BY DEF Account
  <1>2. [was EXCEPT !.status = "Refunded", !.left = 0, !.refund = @ + was.left]
           = [status |-> "Refunded", deposit |-> was.deposit, left |-> 0, fee |-> was.fee,
              pay |-> was.pay, refund |-> was.refund + was.left]
    BY DEF Account
  <1> QED
    BY <1>1, <1>2 DEF Atomic!Paid, Atomic!Returned

\* What a function refunds goes back whole.
LEMMA RefundedAtOnce ==
  ASSUME EscrowInv, Unlocked, NEW e \in Ids, escrow[e].status \in {"Funded", "Disputed"},
         Emptied(e, "Refunded"), refund(e, escrow[e].remainingAmount)
  PROVE  IsOneStep
  <1>1. /\ escrow \in [Ids -> EscrowRow] /\ out \in [Ids -> Outflow]
        /\ escrow[e] \in EscrowRow /\ out[e] \in Outflow /\ escrow[e].remainingAmount \in Nat
    BY EscrowParts DEF EscrowInv, EscrowRow
  <1>2. escrow[e].remainingAmount > 0
    BY DEF EscrowInv, RowsFine, RowFine, Open
  <1>3. PICK p \in Outflow :
           /\ out' = [out EXCEPT ![e] = p] /\ Locked(e, 0)
           /\ p.fee = out[e].fee /\ p.pay = out[e].pay
           /\ p.refund = out[e].refund + escrow[e].remainingAmount
    <2> DEFINE p == [out[e] EXCEPT !.refund = @ + escrow[e].remainingAmount]
    <2>1. p \in Outflow /\ out' = [out EXCEPT ![e] = p] /\ Locked(e, 0)
      BY <1>1, MoreLeft DEF refund
    <2>2. /\ p.fee = out[e].fee /\ p.pay = out[e].pay
          /\ p.refund = out[e].refund + escrow[e].remainingAmount
      BY <1>1 DEF Outflow
    <2> HIDE DEF p
    <2> QED
      BY <2>1, <2>2
  <1>4. PICK row \in EscrowRow :
           /\ escrow' = [escrow EXCEPT ![e] = row]
           /\ row.totalAmount = escrow[e].totalAmount
           /\ row.remainingAmount = 0 /\ row.status = "Refunded"
    <2> DEFINE row == [escrow[e] EXCEPT !.remainingAmount = 0, !.status = "Refunded"]
    <2>1. row \in EscrowRow /\ escrow' = [escrow EXCEPT ![e] = row]
      BY <1>1 DEF Emptied, EscrowRow, EscrowStatus
    <2>2. /\ row.totalAmount = escrow[e].totalAmount
          /\ row.remainingAmount = 0 /\ row.status = "Refunded"
      BY <1>1 DEF EscrowRow
    <2> HIDE DEF row
    <2> QED
      BY <2>1, <2>2
  <1> DEFINE was == AccountOf(escrow[e], out[e], 0)
             is == AccountOf(row, p, 0)
  <1>5. /\ was \in Account /\ is \in Account
        /\ was.status = escrow[e].status /\ is.status = row.status
        /\ was.deposit = escrow[e].totalAmount /\ is.deposit = row.totalAmount
        /\ was.left = escrow[e].remainingAmount /\ is.left = row.remainingAmount
        /\ was.fee = out[e].fee /\ is.fee = p.fee
        /\ was.pay = out[e].pay + 0 /\ is.pay = p.pay + 0
        /\ was.refund = out[e].refund /\ is.refund = p.refund
    BY <1>1, AccountTyped
  <1>6. Atomic!Paid(was, is)
    <2> HIDE DEF was, is
    <2> QED
      BY <1>2, <1>3, <1>4, <1>5, AllReturned
  <1>7. escrow'[e] = row /\ out'[e] = p
    BY <1>1, <1>3, <1>4
  <1>8. \A i \in Ids \ {e} : escrow'[i] = escrow[i] /\ out'[i] = out[i]
    BY <1>1, <1>3, <1>4
  <1> QED
    BY <1>3, <1>6, <1>7, <1>8, LockTaken

-----------------------------------------------------------------------------
(* Every step is one step of the promise, or none.                         *)

\* createEscrow changes no account.
LEMMA CreateAtOnce ==
  ASSUME EscrowInv, EscrowInv', Underway, NEW p \in Parties, NEW payee \in Parties,
         NEW s \in Address, NEW e \in Ids, createEscrow(p, payee, s, e)
  PROVE  IsOneStep
  <1>1. /\ escrow[e] = NoEscrow /\ UNCHANGED <<out, call, before>>
        /\ escrow' = [escrow EXCEPT ![e] = [NoEscrow EXCEPT !.payer = p, !.payee = payee,
                                                            !.subcontractor = s]]
    BY DEF createEscrow
  <1>2. escrow \in [Ids -> EscrowRow]
    BY EscrowParts DEF EscrowInv
  <1>3. /\ escrow'[e].status = escrow[e].status
        /\ escrow'[e].totalAmount = escrow[e].totalAmount
        /\ escrow'[e].remainingAmount = escrow[e].remainingAmount
    BY <1>1, <1>2 DEF NoEscrow
  <1>4. Through(e)' = Through(e)
    BY <1>1, <1>3 DEF Through, AccountOf, Owed
  <1>5. Atomic!Touched(Through(e), Through(e)')
    BY <1>4 DEF Atomic!Touched, Atomic!Still
  <1>6. \A i \in Ids \ {e} : escrow'[i] = escrow[i] /\ out'[i] = out[i]
    BY <1>1, <1>2
  <1> QED
    BY <1>1, <1>5, <1>6, WrittenAtOnce

\* fundEscrow opens a deposit.
LEMMA FundAtOnce ==
  ASSUME EscrowInv, EscrowInv', Underway, NEW p \in Parties, NEW e \in Ids,
         NEW value \in 1..MaxValue, fundEscrow(p, e, value)
  PROVE  IsOneStep
  <1>1. /\ escrow \in [Ids -> EscrowRow] /\ escrow[e] \in EscrowRow /\ out[e] \in Outflow
        /\ Owed(e) \in Nat /\ value \in Nat /\ value > 0
    BY EscrowParts, InstanceAssumption DEF EscrowInv, Owed, Frame
  <1>2. /\ UNCHANGED <<out, call, before>> /\ escrow[e].status = "PendingFunding"
        /\ escrow' = [escrow EXCEPT ![e] = [@ EXCEPT !.totalAmount = value,
                                     !.remainingAmount = value, !.status = "Funded"]]
    BY DEF fundEscrow
  <1>3. /\ escrow'[e].status = "Funded" /\ escrow'[e].totalAmount = value
        /\ escrow'[e].remainingAmount = value
    BY <1>1, <1>2 DEF EscrowRow
  <1>4. RowFine(escrow[e], out[e], Owed(e))
    BY DEF EscrowInv, RowsFine
  <1>5. Through(e) = Atomic!Fresh
    BY <1>1, <1>2, <1>4, PendingIsFresh DEF Through
  <1>6. Through(e)' = [status |-> "Funded", deposit |-> value, left |-> value,
                       fee |-> 0, pay |-> 0, refund |-> 0]
    <2>1. out[e].fee = 0 /\ out[e].pay + Owed(e) = 0 /\ out[e].refund = 0
      BY <1>5 DEF Through, AccountOf, Atomic!Fresh
    <2>2. out'[e].fee = 0 /\ out'[e].pay + Owed(e)' = 0 /\ out'[e].refund = 0
      BY <1>2, <2>1 DEF Owed
    <2> QED
      BY <1>3, <2>2 DEF Through, AccountOf
  <1>7. Atomic!Opened(Through(e), Through(e)')
    BY <1>1, <1>5, <1>6 DEF Atomic!Opened, Atomic!Fresh
  <1>8. \A i \in Ids \ {e} : escrow'[i] = escrow[i] /\ out'[i] = out[i]
    BY <1>1, <1>2
  <1>9. Atomic!Touched(Through(e), Through(e)')
    BY <1>7 DEF Atomic!Touched
  <1> QED
    BY <1>2, <1>8, <1>9, WrittenAtOnce

\* initiateDispute marks one.
LEMMA DisputeAtOnce ==
  ASSUME EscrowInv, EscrowInv', Underway, NEW p \in Parties, NEW e \in Ids,
         initiateDispute(p, e)
  PROVE  IsOneStep
  <1>1. escrow \in [Ids -> EscrowRow] /\ escrow[e] \in EscrowRow
    BY EscrowParts DEF EscrowInv
  <1>2. /\ UNCHANGED <<out, call, before>> /\ escrow[e].status = "Funded"
        /\ escrow' = [escrow EXCEPT ![e].status = "Disputed"]
    BY DEF initiateDispute
  <1>3. /\ escrow'[e].status = "Disputed" /\ escrow'[e].totalAmount = escrow[e].totalAmount
        /\ escrow'[e].remainingAmount = escrow[e].remainingAmount
    BY <1>1, <1>2 DEF EscrowRow
  <1>4. Through(e).status = "Funded" /\ Through(e)' = [Through(e) EXCEPT !.status = "Disputed"]
    BY <1>2, <1>3 DEF Through, AccountOf, Owed
  <1>5. Atomic!Touched(Through(e), Through(e)')
    BY <1>4 DEF Atomic!Touched, Atomic!Still
  <1>6. \A i \in Ids \ {e} : escrow'[i] = escrow[i] /\ out'[i] = out[i]
    BY <1>1, <1>2
  <1> QED
    BY <1>2, <1>5, <1>6, WrittenAtOnce

\* An open escrow that is emptied and distributed.
LEMMA ReleasedAtOnce ==
  ASSUME EscrowInv, Unlocked, NEW e \in Ids, escrow[e].status \in {"Funded", "Disputed"},
         Emptied(e, "Released"), distribute(e, escrow[e].remainingAmount)
  PROVE  IsOneStep
  <1>1. /\ escrow \in [Ids -> EscrowRow] /\ escrow[e] \in EscrowRow
        /\ escrow[e].remainingAmount \in Nat
    BY EscrowParts DEF EscrowInv, EscrowRow
  <1>2. escrow[e].remainingAmount > 0
    BY DEF EscrowInv, RowsFine, RowFine, Open
  <1> DEFINE row == [escrow[e] EXCEPT !.remainingAmount = 0, !.status = "Released"]
  <1>3. row \in EscrowRow /\ escrow' = [escrow EXCEPT ![e] = row]
    BY <1>1 DEF Emptied, EscrowRow, EscrowStatus
  <1>4. /\ row.totalAmount = escrow[e].totalAmount
        /\ row.remainingAmount = 0 /\ row.status = "Released"
    BY <1>1 DEF EscrowRow
  <1> HIDE DEF row
  <1>5. row.remainingAmount + escrow[e].remainingAmount = escrow[e].remainingAmount
    BY <1>1, <1>4
  <1> QED
    BY <1>1, <1>2, <1>3, <1>4, <1>5, DistributedAtOnce

\* directPaymentToSubcontractor distributes a part, or all.
LEMMA DirectAtOnce ==
  ASSUME EscrowInv, NEW p \in Parties, NEW e \in Ids, NEW s \in Parties, NEW gross \in 1..MaxValue,
         directPaymentToSubcontractor(p, e, s, gross)
  PROVE  IsOneStep
  <1> DEFINE old == escrow[e]
             row == PaidDirectly(old, s, gross)
  <1>1. /\ escrow \in [Ids -> EscrowRow] /\ old \in EscrowRow /\ old.remainingAmount \in Nat
        /\ gross \in Nat /\ gross > 0 /\ gross <= old.remainingAmount /\ old.status = "Funded"
    BY EscrowParts, InstanceAssumption DEF EscrowInv, EscrowRow, directPaymentToSubcontractor, Payable
  <1>2. row \in EscrowRow
    <2> DEFINE st == IF old.remainingAmount = gross THEN "Released" ELSE old.status
    <2>1. st \in EscrowStatus /\ s \in Address /\ old.remainingAmount - gross \in Nat
      BY <1>1 DEF EscrowStatus, Address
    <2>2. row = [old EXCEPT !.subcontractor = s,
                            !.remainingAmount = old.remainingAmount - gross, !.status = st]
      BY DEF PaidDirectly
    <2> HIDE DEF st, row
    <2>3. PICK n \in Nat, to \in EscrowStatus : n = old.remainingAmount - gross /\ to = st
      BY <2>1
    <2>4. row = [old EXCEPT !.subcontractor = s, !.remainingAmount = n, !.status = to]
      BY <2>2, <2>3
    <2> HIDE DEF old
    <2>5. [old EXCEPT !.subcontractor = s, !.remainingAmount = n, !.status = to] \in EscrowRow
      BY <1>1, <2>1, RowPaid
    <2> QED
      BY <2>4, <2>5
  <1>3. /\ row.totalAmount = old.totalAmount
        /\ row.remainingAmount = old.remainingAmount - gross
        /\ row.status = IF old.remainingAmount = gross THEN "Released" ELSE "Funded"
    BY <1>1 DEF PaidDirectly, EscrowRow
  <1>4. /\ row.remainingAmount + gross = old.remainingAmount
        /\ \/ row.remainingAmount = 0 /\ row.status = "Released"
           \/ row.remainingAmount > 0 /\ old.status = "Funded" /\ row.status = "Funded"
    <2> HIDE DEF row, old
    <2> QED
      BY <1>1, <1>3
  <1>5. escrow' = [escrow EXCEPT ![e] = row] /\ distribute(e, gross) /\ Unlocked
    BY DEF directPaymentToSubcontractor
  <1> HIDE DEF row
  <1> QED
    BY <1>1, <1>2, <1>3, <1>4, <1>5, DistributedAtOnce

\* The payout after the fee: the transaction still makes of the deposit what it did.
LEMMA PayOutAtOnce == ASSUME EscrowInv, Underway, PayOut PROVE IsOneStep
  <1>0. PICK i \in Ids : i = call.id
    BY EscrowParts DEF EscrowInv, PayOut, Unlocked, Frame
  <1>1. /\ escrow' = escrow /\ before' = before /\ ~Unlocked
        /\ call.due \in Nat /\ call'.id = i /\ call'.due = 0
        /\ out \in [Ids -> Outflow] /\ out[i] \in Outflow
    BY <1>0, EscrowParts DEF EscrowInv, PayOut, Frame
  <1> DEFINE p == [out[i] EXCEPT !.pay = @ + call.due]
  <1>2. out' = [out EXCEPT ![i] = p] /\ p \in Outflow
    BY <1>0, <1>1, MoreLeft DEF PayOut
  <1>3. p.fee = out[i].fee /\ p.pay = out[i].pay + call.due /\ p.refund = out[i].refund
    BY <1>1 DEF Outflow
  <1> HIDE DEF p
  <1>4. p.pay + 0 = out[i].pay + call.due
    BY <1>1, <1>2, <1>3 DEF Outflow
  <1>5. Through(i)' = Through(i)
    <2>1. Owed(i) = call.due /\ Owed(i)' = 0 /\ out'[i] = p
      BY <1>0, <1>1, <1>2 DEF Owed
    <2> QED
      BY <1>1, <1>3, <1>4, <2>1 DEF Through, AccountOf
  <1>6. \A e \in Ids \ {i} : Through(e)' = Through(e)
    BY <1>0, <1>1, <1>2 DEF Through, Owed
  <1>7. ~Unlocked' /\ \A e \in Ids : Was(e)' = Was(e) /\ Standing(e)' = Standing(e)
    BY <1>0, <1>1 DEF Unlocked, Was, Standing
  <1>8. Underway'
    BY <1>0, <1>1, <1>5, <1>6, <1>7 DEF Underway, Was
  <1> QED
    BY <1>7, <1>8, Unseen

\* The end of a function: the step of the promise.
LEMMA ReturnAtOnce == ASSUME EscrowInv, Underway, Return PROVE IsOneStep
  <1>0. PICK i \in Ids : i = call.id
    BY EscrowParts DEF EscrowInv, Return, Unlocked, Frame
  <1>1. /\ ~Unlocked /\ Unlocked' /\ escrow' = escrow /\ out' = out /\ call.due = 0
    BY DEF Return, NoCall, Unlocked
  <1>2. \A e \in Ids : Standing(e) = Was(e) /\ Standing(e)' = Through(e)
    BY <1>1 DEF Standing, Was, Through, Owed
  <1>3. Atomic!Transaction
    BY <1>0, <1>1, <1>2, AtOnce DEF Underway
  <1>4. Underway'
    BY <1>1 DEF Underway
  <1> QED
    BY <1>3, <1>4 DEF IsOneStep

\* A failure: everybody's deposit is what it was.
LEMMA RevertAtOnce == ASSUME Revert PROVE IsOneStep
  <1>1. /\ ~Unlocked /\ Unlocked' /\ escrow' = before.escrow /\ out' = before.out
    BY DEF Revert, NoCall, Unlocked
  <1>2. \A e \in Ids : Standing(e)' = Standing(e)
    BY <1>1 DEF Standing
  <1> QED
    BY <1>1, <1>2, Unseen DEF Underway

\* What touches no record and no call.
LEMMA AsideAtOnce ==
  ASSUME Underway, UNCHANGED <<escrow, out, call, before>>
  PROVE  IsOneStep
  <1>1. \A e \in Ids : Standing(e)' = Standing(e)
    BY DEF Standing, Unlocked
  <1>2. Underway'
    BY DEF Underway, Was, Through, Owed, Unlocked
  <1> QED
    BY <1>1, <1>2, Unseen

\* A step of the contract is a step of the promise, or none.
LEMMA StepAtOnce == ASSUME EscrowInv, EscrowInv', Underway, [Next]_vars PROVE IsOneStep
  <1>1. CASE UNCHANGED vars
    BY <1>1, AsideAtOnce DEF vars
  <1>2. ASSUME NEW p \in Parties, NEW e \in Ids, releaseEscrow(p, e)
        PROVE  IsOneStep
    BY <1>2, ReleasedAtOnce DEF releaseEscrow
  <1>3. ASSUME NEW p \in Parties, NEW e \in Ids, NEW b \in BOOLEAN, resolveDispute(p, e, b)
        PROVE  IsOneStep
    BY <1>3, ReleasedAtOnce, RefundedAtOnce DEF resolveDispute, Decided
  <1>4. ASSUME NEW p \in Parties, NEW e \in Ids, CallOf(p, e)
        PROVE  IsOneStep
    BY <1>2, <1>3, <1>4, CreateAtOnce, FundAtOnce, DisputeAtOnce, DirectAtOnce DEF CallOf
  <1>5. ASSUME NEW e \in Ids, autoRefundOnExpiry(e)
        PROVE  IsOneStep
    BY <1>5, RefundedAtOnce DEF autoRefundOnExpiry, RefundableAtExpiry
  <1>6. CASE \/ \E e \in Ids : Expire(e)
             \/ \E p \in Parties : pause(p) \/ \E q \in Address : SetOwner(p, q)
    BY <1>6, AsideAtOnce DEF Expire, pause, SetOwner
  <1>7. CASE PayOut \/ Return \/ Revert
    BY <1>7, PayOutAtOnce, ReturnAtOnce, RevertAtOnce
  <1> QED
    BY <1>1, <1>4, <1>5, <1>6, <1>7 DEF Next

\* The contract implements the promise: whatever recipients do in the middle of a
\* function, and whenever one fails, it takes effect as one step or not at all, and
\* pays the fee and the payout of one deposit together: Spec => DepositsAreAtomic.
THEOREM AtomicDeposits == Spec => DepositsAreAtomic
  <1>1. Init => Underway /\ Atomic!AbstractInit
    <2> SUFFICES ASSUME Init PROVE Underway /\ Atomic!AbstractInit
      OBVIOUS
    <2>1. Unlocked /\ \A e \in Ids : escrow[e] = NoEscrow /\ out[e] = NoOutflow
      BY DEF Init, NoCall, Unlocked
    <2>2. \A e \in Ids : Standing(e) = Atomic!Fresh
      BY <2>1 DEF Standing, AccountOf, NoEscrow, NoOutflow, Atomic!Fresh
    <2> QED
      BY <2>1, <2>2 DEF Underway, Atomic!AbstractInit
  <1>2. EscrowInv /\ EscrowInv' /\ Underway /\ [Next]_vars
        => Underway' /\ [Atomic!Transaction]_[e \in Ids |-> Standing(e)]
    BY StepAtOnce DEF IsOneStep
  <1> QED
    BY <1>1, <1>2, EscrowInvariance, PTL DEF Spec, DepositsAreAtomic, Atomic!AbstractSpec

-----------------------------------------------------------------------------
(***************************************************************************)
(* Proofs about SubcontractPayment, for any entries, any finite set of     *)
(* claims, any amounts and rates.  Beside what is claimed of the amounts,  *)
(* the inductive invariant says that an entry not registered is blank, a   *)
(* claim that can be decided has an entry, and no rate exceeds the unit.   *)
(***************************************************************************)

UnregisteredBlank == \A i \in SubIds : ~Registered(i) => subcontracts[i] = NoSubcontract
ClaimsHaveEntry   ==
    \A c \in Claims : claims[c].status # "None" =>
                         claims[c].of \in SubIds /\ Registered(claims[c].of)
RatesFit          == \A i \in SubIds : subcontracts[i].retentionRate <= BPS
SubInv == SubTypeOK /\ PaidIsAccounted /\ UnregisteredBlank /\ ClaimsHaveEntry /\ RatesFit

\* What the paid claims of an entry add up to, and the amounts of one entry.
PaidSum(i) == SumFunctionOnSet([c \in Claims |-> claims[c].amount], PaidClaims(i))
EntryFine(row, paid, got, kept) ==
    /\ row.paidAmount = paid
    /\ paid = got + kept
    /\ kept * BPS <= paid * row.retentionRate

\* The amounts of all entries, before a step and after.
LEMMA EntriesFine ==
  PaidIsAccounted <=>
     \A i \in SubIds :
        EntryFine(subcontracts[i], PaidSum(i), received[i], retentionBalance[i])
  BY DEF PaidIsAccounted, EntryFine, PaidSum

\* The same after a step.
LEMMA EntriesFineNext ==
  ASSUME \A i \in SubIds :
            EntryFine(subcontracts'[i], PaidSum(i)', received'[i], retentionBalance'[i])
  PROVE  PaidIsAccounted'
  BY DEF PaidIsAccounted, EntryFine, PaidSum

\* The retention is a part of the amount and within the rate.
LEMMA RetentionFits ==
  ASSUME NEW amount \in Nat, NEW rate \in Nat, rate <= BPS
  PROVE  LET r == (amount * rate) \div BPS
         IN  r \in Nat /\ r <= amount /\ r * BPS <= amount * rate
  <1> DEFINE r == (amount * rate) \div BPS
  <1>1. BPS \in Nat /\ BPS > 0 /\ amount * rate \in Nat
    BY SubcontractAssumption
  <1>2. r \in Nat /\ r * BPS <= amount * rate
    BY <1>1
  <1>3. amount * rate <= amount * BPS
    BY <1>1
  <1>4. r <= amount
    BY <1>1, <1>2, <1>3
  <1> QED
    BY <1>2, <1>4

\* The sum of an entry stays while its paid claims and their amounts do.
LEMMA PaidSumStays ==
  ASSUME NEW i \in SubIds, PaidClaims(i)' = PaidClaims(i),
         \A c \in PaidClaims(i) : claims'[c].amount = claims[c].amount
  PROVE  PaidSum(i)' = PaidSum(i)
  <1> DEFINE f == [c \in Claims |-> claims[c].amount]
             g == [c \in Claims |-> claims'[c].amount]
             P == PaidClaims(i)
  <1>1. IsFiniteSet(P)
    BY FS_Subset, SubcontractAssumption DEF PaidClaims
  <1>2. \A c \in P : f[c] = g[c]
    BY DEF PaidClaims
  <1>3. SumFunctionOnSet(f, P) = SumFunctionOnSet(g, P)
    <2> HIDE DEF f, g, P
    <2> QED
      BY <1>1, <1>2, SumOfSame
  <1>4. PaidSum(i) = SumFunctionOnSet(f, P) /\ PaidSum(i)' = SumFunctionOnSet(g, P)
    BY DEF PaidSum
  <1> QED
    BY <1>3, <1>4

\* A claim that is paid joins the sum of its entry.
LEMMA PaidSumGrows ==
  ASSUME SubTypeOK, NEW c \in Claims, NEW i \in SubIds, claims[c].of = i,
         claims[c].status # "Paid", claims' = [claims EXCEPT ![c].status = "Paid"]
  PROVE  /\ PaidSum(i)' = PaidSum(i) + claims[c].amount
         /\ \A j \in SubIds : j # i => PaidSum(j)' = PaidSum(j)
  <1>1. claims \in [Claims -> PaymentClaim]
    BY DEF SubTypeOK
  <1>2. /\ claims'[c].amount = claims[c].amount /\ claims'[c].of = i /\ claims'[c].status = "Paid"
        /\ \A d \in Claims : d # c => claims'[d] = claims[d]
    BY <1>1 DEF PaymentClaim
  <1>3. ASSUME NEW j \in SubIds, j # i
        PROVE  PaidSum(j)' = PaidSum(j)
    <2>1. PaidClaims(j)' = PaidClaims(j)
      BY <1>2, <1>3 DEF PaidClaims
    <2>2. \A d \in PaidClaims(j) : claims'[d].amount = claims[d].amount
      BY <1>2 DEF PaidClaims
    <2> QED
      BY <2>1, <2>2, PaidSumStays
  <1>4. PaidSum(i)' = PaidSum(i) + claims[c].amount
    <2> DEFINE f == [d \in Claims |-> claims[d].amount]
               g == [d \in Claims |-> claims'[d].amount]
               P == PaidClaims(i)
    <2>1. PaidClaims(i)' = P \cup {c} /\ c \notin P /\ P \subseteq Claims
      BY <1>2 DEF PaidClaims
    <2>2. IsFiniteSet(P)
      BY <2>1, FS_Subset, SubcontractAssumption
    <2>3. f = g
      BY <1>2
    <2>4. \A d \in Claims : f[d] \in Int
      BY <1>1 DEF PaymentClaim
    <2>5. \A d \in P \cup {c} : f[d] \in Int
      BY <2>1, <2>4
    <2>6. SumFunctionOnSet(f, P \cup {c}) = SumFunctionOnSet(f, P) + f[c]
      <3> HIDE DEF f, P
      <3> QED
        BY <2>1, <2>2, <2>5, SumWith
    <2>7. PaidSum(i) = SumFunctionOnSet(f, P) /\ PaidSum(i)' = SumFunctionOnSet(g, P \cup {c})
      BY <2>1 DEF PaidSum
    <2> QED
      BY <2>3, <2>6, <2>7
  <1> QED
    BY <1>3, <1>4

\* A step that changes neither the paid claims nor the amounts of an entry.
LEMMA AmountsKept ==
  ASSUME SubInv, SubTypeOK',
         \A i \in SubIds : PaidClaims(i)' = PaidClaims(i),
         \A c \in Claims : claims[c].status = "Paid" => claims'[c] = claims[c],
         \A i \in SubIds : /\ subcontracts'[i].paidAmount = subcontracts[i].paidAmount
                           /\ \/ subcontracts'[i].retentionRate = subcontracts[i].retentionRate
                              \/ retentionBalance[i] = 0,
         UNCHANGED <<received, retentionBalance>>
  PROVE  PaidIsAccounted'
  <1> SUFFICES ASSUME NEW i \in SubIds
               PROVE  EntryFine(subcontracts'[i], PaidSum(i)', received'[i], retentionBalance'[i])
    BY EntriesFineNext
  <1>1. EntryFine(subcontracts[i], PaidSum(i), received[i], retentionBalance[i])
    BY EntriesFine DEF SubInv
  <1>2. PaidSum(i)' = PaidSum(i)
    BY PaidSumStays DEF PaidClaims
  <1>3. /\ subcontracts'[i].paidAmount \in Nat /\ subcontracts'[i].retentionRate \in Nat
        /\ BPS \in Nat
    BY SubcontractAssumption DEF SubTypeOK, Subcontract
  <1>4. retentionBalance'[i] * BPS <= PaidSum(i)' * subcontracts'[i].retentionRate
    <2>1. CASE subcontracts'[i].retentionRate = subcontracts[i].retentionRate
      BY <1>1, <1>2, <2>1 DEF EntryFine
    <2>2. CASE retentionBalance[i] = 0
      <3>1. PaidSum(i)' = subcontracts'[i].paidAmount
        BY <1>1, <1>2 DEF EntryFine
      <3>2. PaidSum(i)' * subcontracts'[i].retentionRate \in Nat
        BY <1>3, <3>1
      <3> QED
        BY <1>3, <2>2, <3>2
    <2> QED
      BY <2>1, <2>2
  <1> QED
    BY <1>1, <1>2, <1>4 DEF EntryFine

\* registerSubcontract keeps the invariant: the entry it writes had no amounts.
LEMMA RegisterKeeps ==
  ASSUME SubInv, NEW i \in SubIds, NEW total \in 1..MaxSubAmount, NEW rate \in 0..MAX_RETENTION_RATE,
         registerSubcontract(i, total, rate)
  PROVE  SubInv'
  <1>1. total \in Nat /\ rate \in Nat /\ rate <= BPS
    BY SubcontractAssumption
  <1>2. subcontracts[i] = NoSubcontract /\ subcontracts \in [SubIds -> Subcontract]
    BY DEF registerSubcontract, NextSub, SubInv, UnregisteredBlank, SubTypeOK
  <1>3. /\ subcontracts'[i] = [totalAmount |-> total, paidAmount |-> 0, retentionRate |-> rate,
                               status |-> "Registered"]
        /\ \A j \in SubIds : j # i => subcontracts'[j] = subcontracts[j]
        /\ subcontracts' \in [SubIds -> Subcontract]
    BY <1>1, <1>2 DEF registerSubcontract, Subcontract, SubcontractStatus
  <1>4. SubTypeOK'
    BY <1>3 DEF SubInv, SubTypeOK, registerSubcontract
  <1>5. retentionBalance[i] = 0
    <2>1. received[i] \in Nat /\ retentionBalance[i] \in Nat
      BY DEF SubInv, SubTypeOK
    <2>2. subcontracts[i].paidAmount = received[i] + retentionBalance[i]
      BY DEF SubInv, PaidIsAccounted
    <2> QED
      BY <1>2, <2>1, <2>2 DEF NoSubcontract
  <1>6. PaidIsAccounted'
    <2>1. \A j \in SubIds : /\ subcontracts'[j].paidAmount = subcontracts[j].paidAmount
                            /\ \/ subcontracts'[j].retentionRate = subcontracts[j].retentionRate
                               \/ retentionBalance[j] = 0
      BY <1>2, <1>3, <1>5 DEF NoSubcontract
    <2> QED
      BY <1>4, <2>1, AmountsKept DEF registerSubcontract, PaidClaims
  <1>7. UnregisteredBlank' /\ ClaimsHaveEntry' /\ RatesFit'
    BY <1>1, <1>3 DEF SubInv, UnregisteredBlank, Registered, ClaimsHaveEntry, RatesFit,
       registerSubcontract
  <1> QED
    BY <1>4, <1>6, <1>7 DEF SubInv

\* A change of an entry's status, with or without a claim that was none or not decided.
LEMMA SubStatusKeeps ==
  ASSUME SubInv, NEW i \in SubIds, NEW status \in SubcontractStatus \ {"None"}, Registered(i),
         SetStatus(i, status), UNCHANGED <<received, retentionBalance, subPaused>>,
         claims' \in [Claims -> PaymentClaim],
         \A c \in Claims : /\ claims'[c].status = "Paid" <=> claims[c].status = "Paid"
                           /\ claims[c].status = "Paid" => claims'[c] = claims[c]
                           /\ claims'[c].status # "None" =>
                                 claims'[c].of \in SubIds /\ Registered(claims'[c].of)
  PROVE  SubInv'
  <1>1. subcontracts \in [SubIds -> Subcontract]
    BY DEF SubInv, SubTypeOK
  <1>2. /\ subcontracts' \in [SubIds -> Subcontract]
        /\ \A j \in SubIds : /\ subcontracts'[j].paidAmount = subcontracts[j].paidAmount
                             /\ subcontracts'[j].retentionRate = subcontracts[j].retentionRate
        /\ \A j \in SubIds : j # i => subcontracts'[j] = subcontracts[j]
        /\ subcontracts'[i].status = status
    BY <1>1 DEF SetStatus, Subcontract
  <1>3. SubTypeOK'
    BY <1>2 DEF SubInv, SubTypeOK
  <1>4. \A j \in SubIds : PaidClaims(j)' = PaidClaims(j)
    BY DEF PaidClaims
  <1>5. PaidIsAccounted'
    BY <1>2, <1>3, <1>4, AmountsKept
  <1>6. UnregisteredBlank' /\ ClaimsHaveEntry' /\ RatesFit'
    BY <1>2 DEF SubInv, UnregisteredBlank, Registered, ClaimsHaveEntry, RatesFit
  <1> QED
    BY <1>3, <1>5, <1>6 DEF SubInv

\* claimPayment keeps the invariant.
LEMMA ClaimKeeps ==
  ASSUME SubInv, NEW i \in SubIds, NEW c \in Claims, NEW amount \in 0..MaxSubAmount,
         claimPayment(i, c, amount)
  PROVE  SubInv'
  <1>1. claims \in [Claims -> PaymentClaim] /\ claims[c] = NoClaim /\ amount \in Nat
    BY SubcontractAssumption DEF SubInv, SubTypeOK, claimPayment, NextClaim
  <1>2. /\ claims' \in [Claims -> PaymentClaim]
        /\ claims'[c].of = i /\ claims'[c].status = "Pending"
        /\ \A d \in Claims : d # c => claims'[d] = claims[d]
    BY <1>1 DEF claimPayment, PaymentClaim, ClaimStatus
  <1>3. Registered(i) /\ SetStatus(i, "Active")
    BY DEF claimPayment, Registered
  <1>4. \A d \in Claims : /\ claims'[d].status = "Paid" <=> claims[d].status = "Paid"
                          /\ claims[d].status = "Paid" => claims'[d] = claims[d]
                          /\ claims'[d].status # "None" =>
                                claims'[d].of \in SubIds /\ Registered(claims'[d].of)
    BY <1>1, <1>2, <1>3 DEF NoClaim, SubInv, ClaimsHaveEntry
  <1> QED
    BY <1>2, <1>3, <1>4, SubStatusKeeps DEF claimPayment, SubcontractStatus

\* releaseRetention keeps the invariant: what was kept goes out.
LEMMA RetentionReleased ==
  ASSUME SubInv, NEW i \in SubIds, releaseRetention(i)
  PROVE  SubInv'
  <1>1. received \in [SubIds -> Nat] /\ retentionBalance \in [SubIds -> Nat]
    BY DEF SubInv, SubTypeOK
  <1>2. /\ received'[i] = received[i] + retentionBalance[i] /\ retentionBalance'[i] = 0
        /\ \A j \in SubIds : j # i => /\ retentionBalance'[j] = retentionBalance[j]
                                      /\ received'[j] = received[j]
        /\ retentionBalance' \in [SubIds -> Nat] /\ received' \in [SubIds -> Nat]
    BY <1>1 DEF releaseRetention
  <1>3. SubTypeOK'
    BY <1>2 DEF SubInv, SubTypeOK, releaseRetention
  <1>4. ASSUME NEW j \in SubIds
        PROVE  EntryFine(subcontracts'[j], PaidSum(j)', received'[j], retentionBalance'[j])
    <2>1. EntryFine(subcontracts[j], PaidSum(j), received[j], retentionBalance[j])
      BY EntriesFine DEF SubInv
    <2>2. PaidSum(j)' = PaidSum(j) /\ subcontracts' = subcontracts
      BY PaidSumStays DEF releaseRetention, PaidClaims
    <2>3. CASE j # i
      BY <1>2, <2>1, <2>2, <2>3 DEF EntryFine
    <2>4. CASE j = i
      <3>1. /\ PaidSum(i) \in Nat /\ subcontracts[i].retentionRate \in Nat /\ BPS \in Nat
            /\ received[i] \in Nat /\ retentionBalance[i] \in Nat
        BY <2>1, <2>4, SubcontractAssumption DEF EntryFine, SubInv, SubTypeOK, Subcontract
      <3>2. PaidSum(i) * subcontracts[i].retentionRate \in Nat /\ 0 * BPS = 0
        BY <3>1
      <3>3. PaidSum(i) = (received[i] + retentionBalance[i]) + 0
        BY <2>1, <2>4, <3>1 DEF EntryFine
      <3> QED
        BY <1>2, <2>1, <2>2, <2>4, <3>2, <3>3 DEF EntryFine
    <2> QED
      BY <2>3, <2>4
  <1>5. PaidIsAccounted'
    BY <1>4, EntriesFineNext
  <1>6. UnregisteredBlank' /\ ClaimsHaveEntry' /\ RatesFit'
    BY DEF SubInv, UnregisteredBlank, Registered, ClaimsHaveEntry, RatesFit, releaseRetention
  <1> QED
    BY <1>3, <1>5, <1>6 DEF SubInv

\* rejectClaim keeps the invariant.
LEMMA RejectKeeps ==
  ASSUME SubInv, NEW c \in Claims, rejectClaim(c)
  PROVE  SubInv'
  <1>1. claims \in [Claims -> PaymentClaim] /\ claims[c].status = "Pending"
    BY DEF SubInv, SubTypeOK, rejectClaim, decidable
  <1>2. /\ claims' \in [Claims -> PaymentClaim]
        /\ claims'[c].of = claims[c].of /\ claims'[c].status = "Rejected"
        /\ \A d \in Claims : d # c => claims'[d] = claims[d]
    BY <1>1 DEF rejectClaim, PaymentClaim, ClaimStatus
  <1>3. SubTypeOK'
    BY <1>2 DEF SubInv, SubTypeOK, rejectClaim
  <1>4. \A i \in SubIds : PaidClaims(i)' = PaidClaims(i)
    BY <1>1, <1>2 DEF PaidClaims
  <1>5. PaidIsAccounted'
    BY <1>1, <1>2, <1>3, <1>4, AmountsKept DEF rejectClaim
  <1>6. UnregisteredBlank' /\ ClaimsHaveEntry' /\ RatesFit'
    BY <1>1, <1>2 DEF SubInv, UnregisteredBlank, Registered, ClaimsHaveEntry, RatesFit, rejectClaim
  <1> QED
    BY <1>3, <1>5, <1>6 DEF SubInv

\* releaseDirectPayment keeps the invariant: the amount goes out or is kept, and counts once.
LEMMA ReleaseDirectKeeps ==
  ASSUME SubInv, NEW c \in Claims, releaseDirectPayment(c)
  PROVE  SubInv'
  <1>1. /\ claims \in [Claims -> PaymentClaim] /\ subcontracts \in [SubIds -> Subcontract]
        /\ received \in [SubIds -> Nat] /\ retentionBalance \in [SubIds -> Nat]
        /\ subPaused \in BOOLEAN
    BY DEF SubInv, SubTypeOK
  <1>2. PICK i \in SubIds, a \in Nat :
           claims[c].of = i /\ claims[c].amount = a /\ claims[c].status = "Pending"
    BY <1>1 DEF releaseDirectPayment, decidable, SubInv, ClaimsHaveEntry, PaymentClaim
  <1> DEFINE rate == subcontracts[i].retentionRate
             r == retentionOf(i, a)
  <1>3. rate \in Nat /\ rate <= BPS
    BY <1>1, <1>2 DEF SubInv, RatesFit, Subcontract
  <1>4. r \in Nat /\ r <= a /\ r * BPS <= a * rate
    BY <1>2, <1>3, RetentionFits DEF retentionOf
  <1>5. /\ claims' = [claims EXCEPT ![c].status = "Paid"]
        /\ subcontracts' = [subcontracts EXCEPT ![i].paidAmount = @ + a]
        /\ retentionBalance' = [retentionBalance EXCEPT ![i] = @ + r]
        /\ received' = [received EXCEPT ![i] = @ + (a - r)]
        /\ subPaused' = subPaused
    BY <1>2 DEF releaseDirectPayment
  <1> HIDE DEF r
  <1>6. /\ subcontracts'[i].paidAmount = subcontracts[i].paidAmount + a
        /\ subcontracts'[i].retentionRate = rate
        /\ subcontracts'[i].status = subcontracts[i].status
        /\ \A j \in SubIds : j # i => subcontracts'[j] = subcontracts[j]
        /\ subcontracts' \in [SubIds -> Subcontract]
    BY <1>1, <1>2, <1>5 DEF Subcontract
  <1>7. /\ retentionBalance'[i] = retentionBalance[i] + r
        /\ received'[i] = received[i] + (a - r)
        /\ \A j \in SubIds : j # i => /\ retentionBalance'[j] = retentionBalance[j]
                                      /\ received'[j] = received[j]
        /\ retentionBalance' \in [SubIds -> Nat] /\ received' \in [SubIds -> Nat]
    BY <1>1, <1>2, <1>4, <1>5
  <1>8. claims' \in [Claims -> PaymentClaim] /\ \A d \in Claims : claims'[d].of = claims[d].of
    BY <1>1, <1>5 DEF PaymentClaim, ClaimStatus
  <1>9. SubTypeOK'
    BY <1>1, <1>5, <1>6, <1>7, <1>8 DEF SubTypeOK
  <1>10. PaidSum(i)' = PaidSum(i) + a /\ \A j \in SubIds : j # i => PaidSum(j)' = PaidSum(j)
    BY <1>2, <1>5, PaidSumGrows DEF SubInv
  <1>11. ASSUME NEW j \in SubIds
         PROVE  EntryFine(subcontracts'[j], PaidSum(j)', received'[j], retentionBalance'[j])
    <2>1. EntryFine(subcontracts[j], PaidSum(j), received[j], retentionBalance[j])
      BY EntriesFine DEF SubInv
    <2>2. CASE j # i
      BY <1>6, <1>7, <1>10, <2>1, <2>2 DEF EntryFine
    <2>3. CASE j = i
      <3> DEFINE paid == subcontracts[i].paidAmount
                 kept == retentionBalance[i]
      <3>1. /\ paid \in Nat /\ kept \in Nat /\ received[i] \in Nat /\ BPS \in Nat
            /\ PaidSum(i) = paid /\ paid = received[i] + kept /\ kept * BPS <= paid * rate
        BY <1>1, <1>2, <2>1, <2>3, SubcontractAssumption DEF EntryFine, Subcontract
      <3> HIDE DEF paid, kept, rate
      <3>2. paid + a = (received[i] + (a - r)) + (kept + r)
        BY <1>2, <1>4, <3>1
      <3>3. (kept + r) * BPS <= (paid + a) * rate
        <4>1. (kept + r) * BPS = kept * BPS + r * BPS
          BY <1>4, <3>1
        <4>2. (paid + a) * rate = paid * rate + a * rate
          BY <1>2, <1>3, <3>1
        <4>3. /\ kept * BPS \in Nat /\ r * BPS \in Nat /\ paid * rate \in Nat /\ a * rate \in Nat
          BY <1>2, <1>3, <1>4, <3>1
        <4> QED
          BY <1>4, <3>1, <4>1, <4>2, <4>3
      <3> QED
        BY <1>6, <1>7, <1>10, <2>3, <3>1, <3>2, <3>3 DEF EntryFine, paid, kept
    <2> QED
      BY <2>2, <2>3
  <1>12. PaidIsAccounted'
    BY <1>11, EntriesFineNext
  <1>13. ClaimsHaveEntry'
    <2>1. \A d \in Claims : claims'[d].status # "None" => claims[d].status # "None"
      BY <1>1, <1>2, <1>5
    <2>2. \A j \in SubIds : subcontracts'[j].status = subcontracts[j].status
      BY <1>6
    <2> QED
      BY <1>8, <2>1, <2>2 DEF SubInv, ClaimsHaveEntry, Registered
  <1>14. RatesFit'
    BY <1>3, <1>6 DEF SubInv, RatesFit
  <1>15. UnregisteredBlank'
    <2>1. Registered(i)
      BY <1>2 DEF SubInv, ClaimsHaveEntry
    <2> QED
      BY <1>2, <1>6, <2>1 DEF SubInv, UnregisteredBlank, Registered
  <1> QED
    BY <1>9, <1>12, <1>13, <1>14, <1>15 DEF SubInv

\* The invariant holds at the start.
LEMMA SubInitHolds == SubInit => SubInv
  <1> SUFFICES ASSUME SubInit PROVE SubInv
    OBVIOUS
  <1>1. SubTypeOK
    BY DEF SubInit, SubTypeOK, NoSubcontract, Subcontract, SubcontractStatus, NoClaim,
       PaymentClaim, ClaimStatus
  <1>2. ASSUME NEW i \in SubIds
        PROVE  EntryFine(subcontracts[i], PaidSum(i), received[i], retentionBalance[i])
    <2>1. PaidClaims(i) = {}
      BY DEF SubInit, NoClaim, PaidClaims
    <2>2. PaidSum(i) = 0
      BY <2>1, SumOfNone DEF PaidSum
    <2> QED
      BY <2>2, SubcontractAssumption DEF EntryFine, SubInit, NoSubcontract
  <1>3. PaidIsAccounted
    BY <1>2, EntriesFine
  <1>4. UnregisteredBlank /\ ClaimsHaveEntry /\ RatesFit
    BY SubcontractAssumption DEF SubInit, UnregisteredBlank, ClaimsHaveEntry, RatesFit, NoClaim,
       NoSubcontract
  <1> QED
    BY <1>1, <1>3, <1>4 DEF SubInv

\* Every step keeps the invariant.
LEMMA SubStepKeeps == ASSUME SubInv, [SubNext]_subVars PROVE SubInv'
  <1>0. \A c \in Claims : claims[c].status # "None" =>
                              claims[c].of \in SubIds /\ Registered(claims[c].of)
    BY DEF SubInv, ClaimsHaveEntry
  <1>1. claims \in [Claims -> PaymentClaim]
    BY DEF SubInv, SubTypeOK
  <1>2. ASSUME UNCHANGED <<subcontracts, claims, retentionBalance, received>>,
               subPaused' \in BOOLEAN
        PROVE  SubInv'
    BY <1>2 DEF SubInv, SubTypeOK, PaidIsAccounted, PaidClaims, UnregisteredBlank, Registered,
       ClaimsHaveEntry, RatesFit
  <1>3. CASE UNCHANGED subVars
    BY <1>2, <1>3 DEF subVars, SubInv, SubTypeOK
  <1>4. CASE pauseSubcontracts
    BY <1>2, <1>4 DEF pauseSubcontracts
  <1>5. ASSUME NEW i \in SubIds,
               approveSubcontract(i) \/ completeSubcontract(i) \/ disputeSubcontract(i)
        PROVE  SubInv'
    <2>1. PICK status \in SubcontractStatus \ {"None"} :
             /\ Registered(i) /\ SetStatus(i, status)
             /\ UNCHANGED <<claims, retentionBalance, received, subPaused>>
      BY <1>5 DEF approveSubcontract, completeSubcontract, disputeSubcontract, Registered,
         SubcontractStatus
    <2> QED
      BY <1>0, <1>1, <2>1, SubStatusKeeps
  <1>6. ASSUME NEW i \in SubIds, releaseRetention(i)
        PROVE  SubInv'
    BY <1>6, RetentionReleased
  <1>7. ASSUME NEW i \in SubIds, NEW total \in 1..MaxSubAmount, NEW rate \in 0..MAX_RETENTION_RATE,
               registerSubcontract(i, total, rate)
        PROVE  SubInv'
    BY <1>7, RegisterKeeps
  <1>8. ASSUME NEW i \in SubIds, NEW c \in Claims, NEW amount \in 0..MaxSubAmount,
               claimPayment(i, c, amount)
        PROVE  SubInv'
    BY <1>8, ClaimKeeps
  <1>9. ASSUME NEW c \in Claims, releaseDirectPayment(c) \/ rejectClaim(c)
        PROVE  SubInv'
    BY <1>9, ReleaseDirectKeeps, RejectKeeps
  <1> QED
    BY <1>3, <1>4, <1>5, <1>6, <1>7, <1>8, <1>9 DEF SubNext

\* The inductive invariant holds in every state: SubSpec => []SubInv.
THEOREM SubInvariance == SubSpec => []SubInv
  BY SubInitHolds, SubStepKeeps, PTL DEF SubSpec

\* Entries, claims and amounts stay well formed, and no retention becomes negative:
\* SubSpec => []SubTypeOK.
THEOREM SubTypesHold == SubSpec => []SubTypeOK
  <1>1. SubInv => SubTypeOK
    BY DEF SubInv
  <1> QED
    BY <1>1, SubInvariance, PTL

\* Each paid claim counts once, and what counts as paid has gone out or is kept back, and
\* the part kept back within the rate: SubSpec => []PaidIsAccounted.
THEOREM PaymentsAccounted == SubSpec => []PaidIsAccounted
  <1>1. SubInv => PaidIsAccounted
    BY DEF SubInv
  <1> QED
    BY <1>1, SubInvariance, PTL

-----------------------------------------------------------------------------
(***************************************************************************)
(* Proofs about PropAIToken, for any finite set of accounts, any supply,   *)
(* any unit of precision and any bounds.  What can be claimed is a sum of  *)
(* rounded shares, and one distribution rounds all of them at once, so the *)
(* bound on it is not inductive.  The invariant bounds what the balances   *)
(* have accrued before it is rounded, which a distribution raises by no    *)
(* more than it brings, a claim turns into money, and a synchronisation    *)
(* raises by less than one unit.                                           *)
(***************************************************************************)

\* What an account has earned and not claimed, in units of 1 / PRECISION.
accrued(a) ==
    (dividendCredit[a] - dividendDebit[a]) * PRECISION + balanceOf[a] * dividendPerToken
Accruals == [a \in Accounts |-> accrued(a)]

DebitsBehind == \A a \in Accounts : dividendDebit[a] <= owed(a)
AccrualsCovered ==
    claimed * PRECISION + SumFunctionOnSet(Accruals, Accounts)
       <= totalDividendsDistributed * PRECISION + syncs * (PRECISION - 1)
TokenInv == TokenTypeOK /\ DebitsBehind /\ AccrualsCovered

-----------------------------------------------------------------------------
(* Arithmetic of a share.                                                  *)

\* The types of the amounts, one by one.
LEMMA TokenTypes ==
  ASSUME TokenTypeOK
  PROVE  /\ PRECISION \in Nat \ {0} /\ PRECISION \in Nat /\ PRECISION - 1 \in Nat
         /\ dividendPerToken \in Nat /\ totalDividendsDistributed \in Nat
         /\ claimed \in Nat /\ syncs \in Nat /\ IsFiniteSet(Accounts)
         /\ \A a \in Accounts : /\ balanceOf[a] \in Nat /\ dividendCredit[a] \in Nat
                                /\ dividendDebit[a] \in Nat /\ accrued(a) \in Int
  BY TokenAssumption DEF TokenTypeOK, accrued

\* A share is rounded down by less than one unit.
LEMMA ShareFits ==
  ASSUME TokenTypeOK, NEW n \in Nat
  PROVE  /\ share(n) \in Nat
         /\ share(n) * PRECISION <= n * dividendPerToken
         /\ n * dividendPerToken <= share(n) * PRECISION + (PRECISION - 1)
  <1>1. PRECISION \in Nat \ {0} /\ n * dividendPerToken \in Nat
    BY TokenTypes
  <1> QED
    BY <1>1, DivFits DEF share

\* A settlement leaves what was accrued, but for the rounding of the new share.
LEMMA Resettled ==
  ASSUME NEW c \in Nat, NEW d \in Nat, NEW old \in Nat, NEW new \in Nat, NEW p \in Nat,
         NEW was \in Nat, NEW is \in Nat, old * p <= was, is <= new * p + (p - 1)
  PROVE  ((c + (old - d)) - new) * p + is <= ((c - d) * p + was) + (p - 1)
  <1>1. ((c + (old - d)) - new) * p = (c - d) * p + old * p - new * p
    OBVIOUS
  <1>2. (c - d) * p \in Int /\ old * p \in Int /\ new * p \in Int
    OBVIOUS
  <1> QED
    BY <1>1, <1>2

\* What is claimed is what was accrued, but for what was rounded away.
LEMMA ClaimedAccrued ==
  ASSUME NEW c \in Nat, NEW d \in Nat, NEW old \in Nat, NEW p \in Nat, NEW was \in Nat
  PROVE  ((0 - old) * p + was) + (c + (old - d)) * p = (c - d) * p + was
  OBVIOUS

\* What can be claimed is not more than what was accrued.
LEMMA SettledWithin ==
  ASSUME TokenTypeOK, NEW a \in Accounts
  PROVE  settled(a) \in Int /\ settled(a) * PRECISION <= accrued(a)
  <1>1. PICK c \in Nat, d \in Nat, b \in Nat : /\ c = dividendCredit[a] /\ d = dividendDebit[a]
                                              /\ b = balanceOf[a]
    BY TokenTypes
  <1>2. PICK s \in Nat : s = share(b) /\ s * PRECISION <= b * dividendPerToken
    BY ShareFits
  <1>3. /\ settled(a) = c + (s - d)
        /\ accrued(a) = (c - d) * PRECISION + b * dividendPerToken
    BY <1>1, <1>2 DEF settled, owed, accrued
  <1>4. PRECISION \in Nat /\ b * dividendPerToken \in Nat
    BY TokenTypes
  <1>5. (c + (s - d)) * PRECISION = (c - d) * PRECISION + s * PRECISION
    BY <1>4
  <1>6. (c - d) * PRECISION \in Int /\ s * PRECISION \in Int
    BY <1>4
  <1> QED
    BY <1>2, <1>3, <1>4, <1>5, <1>6

\* The invariant implies the property.
LEMMA CoveredFollows == TokenInv => DividendsCovered
  <1> SUFFICES ASSUME TokenInv PROVE DividendsCovered
    OBVIOUS
  <1> DEFINE s == [a \in Accounts |-> settled(a)]
             t == [a \in Accounts |-> settled(a) * PRECISION]
  <1>1. TokenTypeOK /\ AccrualsCovered /\ DebitsBehind
    BY DEF TokenInv
  <1>2. PRECISION \in Int /\ IsFiniteSet(Accounts) /\ claimed \in Nat /\ PRECISION \in Nat
    BY <1>1, TokenTypes
  <1>3. \A a \in Accounts : s[a] \in Int /\ t[a] = s[a] * PRECISION
    BY <1>1, SettledWithin
  <1>4. \A a \in Accounts : t[a] \in Int /\ Accruals[a] \in Int /\ t[a] <= Accruals[a]
    BY <1>1, <1>2, <1>3, SettledWithin, TokenTypes DEF Accruals
  <1> HIDE DEF s, t
  <1>5. SumFunctionOnSet(t, Accounts) = SumFunctionOnSet(s, Accounts) * PRECISION
    BY <1>2, <1>3, SumTimes
  <1>6. SumFunctionOnSet(t, Accounts) <= SumFunctionOnSet(Accruals, Accounts)
    BY <1>2, <1>4, SumAtMost
  <1>7. /\ SumFunctionOnSet(s, Accounts) \in Int /\ SumFunctionOnSet(Accruals, Accounts) \in Int
        /\ SumFunctionOnSet(t, Accounts) \in Int
    BY <1>2, <1>3, <1>4, SumInt
  <1>8. (claimed + SumFunctionOnSet(s, Accounts)) * PRECISION =
           claimed * PRECISION + SumFunctionOnSet(s, Accounts) * PRECISION
    BY <1>2, <1>7
  <1>9. /\ claimed * PRECISION \in Int
        /\ totalDividendsDistributed * PRECISION + syncs * (PRECISION - 1) \in Int
    BY <1>1, <1>2, TokenTypes
  <1>10. (claimed + SumFunctionOnSet(s, Accounts)) * PRECISION
            <= totalDividendsDistributed * PRECISION + syncs * (PRECISION - 1)
    BY <1>1, <1>5, <1>6, <1>7, <1>8, <1>9 DEF AccrualsCovered
  <1> QED
    BY <1>1, <1>10 DEF DividendsCovered, DebitsBehind, s

-----------------------------------------------------------------------------
(* Changes of balances.                                                    *)

\* The accounts whose balance changes are settled and synchronised, the others wait.
LEMMA AccruedRebalanced ==
  ASSUME TokenTypeOK, NEW who \in SUBSET Accounts, NEW now \in [Accounts -> Nat],
         Rebalanced(who, now), UNCHANGED dividendPerToken,
         \A a \in Accounts : a \notin who => now[a] = balanceOf[a], NEW a \in Accounts
  PROVE  /\ accrued(a)' \in Int
         /\ accrued(a)' <= accrued(a) + (IF a \in who THEN PRECISION - 1 ELSE 0)
  <1>1. CASE a \notin who
    <2>1. /\ dividendCredit'[a] = dividendCredit[a] /\ dividendDebit'[a] = dividendDebit[a]
          /\ balanceOf'[a] = balanceOf[a]
      BY <1>1 DEF Rebalanced
    <2>2. accrued(a)' = accrued(a) /\ accrued(a) \in Int
      BY <2>1, TokenTypes DEF accrued
    <2> QED
      BY <1>1, <2>2
  <1>2. CASE a \in who
    <2>1. PICK c \in Nat, d \in Nat, b \in Nat, n \in Nat, D \in Nat, p \in Nat :
             /\ c = dividendCredit[a] /\ d = dividendDebit[a] /\ b = balanceOf[a] /\ n = now[a]
             /\ D = dividendPerToken /\ p = PRECISION
      BY TokenTypes
    <2>2. PICK old \in Nat, new \in Nat : /\ old = share(b) /\ old * p <= b * D
                                         /\ new = share(n) /\ n * D <= new * p + (p - 1)
      BY <2>1, ShareFits
    <2>3. /\ dividendCredit'[a] = c + (old - d) /\ dividendDebit'[a] = new
          /\ balanceOf'[a] = n /\ dividendPerToken' = D
      BY <1>2, <2>1, <2>2 DEF Rebalanced, settled, owed
    <2>4. /\ accrued(a)' = ((c + (old - d)) - new) * p + n * D
          /\ accrued(a) = (c - d) * p + b * D
      BY <2>1, <2>3 DEF accrued
    <2>5. b * D \in Nat /\ n * D \in Nat /\ ((c + (old - d)) - new) * p \in Int
      OBVIOUS
    <2>6. accrued(a)' <= accrued(a) + (p - 1)
      BY <2>2, <2>4, <2>5, Resettled
    <2> QED
      BY <1>2, <2>1, <2>4, <2>5, <2>6
  <1> QED
    BY <1>1, <1>2

\* A change of balances raises what is accrued by less than a unit for each account.
LEMMA AccrualsRebalanced ==
  ASSUME TokenTypeOK, NEW who \in SUBSET Accounts, NEW now \in [Accounts -> Nat],
         Rebalanced(who, now), UNCHANGED dividendPerToken,
         \A a \in Accounts : a \notin who => now[a] = balanceOf[a]
  PROVE  /\ Cardinality(who) \in Nat
         /\ SumFunctionOnSet(Accruals', Accounts) \in Int
         /\ SumFunctionOnSet(Accruals, Accounts) \in Int
         /\ SumFunctionOnSet(Accruals', Accounts) <=
               SumFunctionOnSet(Accruals, Accounts) + Cardinality(who) * (PRECISION - 1)
  <1> DEFINE k == PRECISION - 1
             bump == [a \in Accounts |-> IF a \in who THEN k ELSE 0]
             top == [a \in Accounts |-> accrued(a) + bump[a]]
             was == Accruals
  <1>0. IsFiniteSet(Accounts) /\ k \in Nat
    BY TokenTypes
  <1>1. PICK is : is = Accruals'
    OBVIOUS
  <1>2. /\ \A a \in Accounts : was[a] \in Int /\ bump[a] \in Int /\ top[a] = was[a] + bump[a]
        /\ \A a \in Accounts : top[a] \in Int
    BY <1>0, TokenTypes DEF Accruals
  <1>3. \A a \in Accounts : is[a] \in Int /\ is[a] <= top[a]
    BY <1>1, AccruedRebalanced DEF Accruals
  <1>4. SumFunctionOnSet(bump, Accounts) = Cardinality(who) * k
    <2> HIDE DEF k
    <2> QED
      BY <1>0, SumOfSome
  <1> HIDE DEF was, bump, top
  <1>5. SumFunctionOnSet(top, Accounts) =
           SumFunctionOnSet(was, Accounts) + SumFunctionOnSet(bump, Accounts)
    BY <1>0, <1>2, SumOfBoth
  <1>6. SumFunctionOnSet(is, Accounts) <= SumFunctionOnSet(top, Accounts)
    BY <1>0, <1>2, <1>3, SumAtMost
  <1>7. SumFunctionOnSet(is, Accounts) \in Int /\ SumFunctionOnSet(was, Accounts) \in Int
    BY <1>0, <1>2, <1>3, SumInt
  <1>8. Cardinality(who) \in Nat
    BY <1>0, FS_Subset, FS_CardinalityType
  <1> QED
    BY <1>1, <1>4, <1>5, <1>6, <1>7, <1>8 DEF was

\* A change of balances after which the supply is what there is keeps the invariant.
LEMMA RebalancedKeeps ==
  ASSUME TokenInv, NEW who \in SUBSET Accounts, NEW now \in [Accounts -> Nat],
         Rebalanced(who, now), \A a \in Accounts : a \notin who => now[a] = balanceOf[a],
         totalSupply' = SumFunctionOnSet(now, Accounts), allowance' \in [Accounts -> Nat],
         UNCHANGED <<whitelisted, deposits, switches, claimed>>
  PROVE  TokenInv'
  <1>0. TokenTypeOK /\ DebitsBehind /\ AccrualsCovered
    BY DEF TokenInv
  <1>1. \A a \in Accounts : settled(a) \in Nat /\ share(now[a]) \in Nat
    <2>1. \A a \in Accounts : owed(a) \in Nat
      BY <1>0, ShareFits, TokenTypes DEF owed
    <2> QED
      BY <1>0, <2>1, ShareFits, TokenTypes DEF settled, DebitsBehind
  <1>2. /\ dividendCredit' \in [Accounts -> Nat] /\ dividendDebit' \in [Accounts -> Nat]
        /\ balanceOf' = now /\ syncs' = syncs + Cardinality(who)
    BY <1>0, <1>1, TokenTypes DEF Rebalanced
  <1>3. /\ Cardinality(who) \in Nat
        /\ SumFunctionOnSet(Accruals', Accounts) \in Int
        /\ SumFunctionOnSet(Accruals, Accounts) \in Int
        /\ SumFunctionOnSet(Accruals', Accounts) <=
              SumFunctionOnSet(Accruals, Accounts) + Cardinality(who) * (PRECISION - 1)
    BY <1>0, AccrualsRebalanced DEF deposits
  <1>4. totalSupply' \in Nat
    <2>1. \A a \in Accounts : now[a] \in Nat
      OBVIOUS
    <2> QED
      BY <2>1, SumNat, TokenAssumption
  <1>5. TokenTypeOK'
    BY <1>0, <1>2, <1>3, <1>4 DEF TokenTypeOK, deposits, switches
  <1>6. DebitsBehind'
    <2> SUFFICES ASSUME NEW a \in Accounts PROVE dividendDebit'[a] <= owed(a)'
      BY DEF DebitsBehind
    <2>1. owed(a)' = share(now[a])
      BY <1>2 DEF owed, share, deposits
    <2>2. CASE a \in who
      <3>1. dividendDebit'[a] = share(now[a])
        BY <2>2 DEF Rebalanced
      <3> QED
        BY <1>1, <2>1, <3>1
    <2>3. CASE a \notin who
      BY <1>0, <2>1, <2>3 DEF Rebalanced, DebitsBehind, owed
    <2> QED
      BY <2>2, <2>3
  <1>7. AccrualsCovered'
    <2> DEFINE n == Cardinality(who)
               k == PRECISION - 1
               A == SumFunctionOnSet(Accruals, Accounts)
    <2>1. PICK B \in Int : B = SumFunctionOnSet(Accruals', Accounts) /\ B <= A + n * k
      BY <1>3
    <2>2. /\ k \in Nat /\ A \in Int /\ n \in Nat /\ syncs \in Nat
          /\ claimed * PRECISION \in Int /\ totalDividendsDistributed * PRECISION \in Int
      BY <1>0, <1>3, TokenTypes
    <2>3. claimed * PRECISION + A <= totalDividendsDistributed * PRECISION + syncs * k
      BY <1>0 DEF AccrualsCovered
    <2> HIDE DEF n, k, A
    <2>4. (syncs + n) * k = syncs * k + n * k /\ syncs * k \in Int /\ n * k \in Int
      BY <2>2
    <2>5. claimed * PRECISION + B <= totalDividendsDistributed * PRECISION + (syncs + n) * k
      BY <2>1, <2>2, <2>3, <2>4
    <2> QED
      BY <1>2, <2>1, <2>5 DEF AccrualsCovered, deposits, n, k
  <1> QED
    BY <1>5, <1>6, <1>7 DEF TokenInv

\* One balance changes, and the supply by as much.
LEMMA BalanceChanges ==
  ASSUME NEW f, NEW g, NEW a, f \in [Accounts -> Nat], g \in [Accounts -> Nat], a \in Accounts,
         \A b \in Accounts : b # a => f[b] = g[b]
  PROVE  SumFunctionOnSet(g, Accounts) = SumFunctionOnSet(f, Accounts) - f[a] + g[a]
  <1>1. IsFiniteSet(Accounts) /\ \A b \in Accounts : f[b] \in Int /\ g[b] \in Int
    BY TokenAssumption
  <1> QED
    BY <1>1, SumChanges

\* mint keeps the invariant.
LEMMA MintKeeps ==
  ASSUME TokenInv, NEW a \in Accounts, NEW amount \in 1..MaxSupply, mint(a, amount)
  PROVE  TokenInv'
  <1> DEFINE now == [balanceOf EXCEPT ![a] = @ + amount]
  <1>1. /\ balanceOf \in [Accounts -> Nat] /\ totalSupply \in Nat /\ amount \in Nat
        /\ totalSupply = SumFunctionOnSet(balanceOf, Accounts) /\ allowance \in [Accounts -> Nat]
    BY TokenAssumption DEF TokenInv, TokenTypeOK
  <1>2. /\ now \in [Accounts -> Nat] /\ now[a] = balanceOf[a] + amount
        /\ \A b \in Accounts : b # a => balanceOf[b] = now[b]
        /\ \A b \in Accounts : b \notin {a} => now[b] = balanceOf[b]
    BY <1>1
  <1>3. /\ Rebalanced({a}, now) /\ totalSupply' = totalSupply + amount
        /\ UNCHANGED <<whitelisted, allowance, deposits, switches, claimed>>
    BY DEF mint
  <1> HIDE DEF now
  <1>4. SumFunctionOnSet(now, Accounts) = SumFunctionOnSet(balanceOf, Accounts) - balanceOf[a] + now[a]
    BY <1>1, <1>2, BalanceChanges
  <1>5. balanceOf[a] \in Nat
    BY <1>1
  <1>6. totalSupply' = SumFunctionOnSet(now, Accounts)
    BY <1>1, <1>2, <1>3, <1>4, <1>5
  <1> QED
    BY <1>1, <1>2, <1>3, <1>6, RebalancedKeeps

\* burn keeps the invariant.
LEMMA BurnKeeps ==
  ASSUME TokenInv, NEW a \in Accounts, NEW amount \in 1..MaxSupply, burn(a, amount)
  PROVE  TokenInv'
  <1> DEFINE now == [balanceOf EXCEPT ![a] = @ - amount]
  <1>1. /\ balanceOf \in [Accounts -> Nat] /\ totalSupply \in Nat /\ amount \in Nat
        /\ totalSupply = SumFunctionOnSet(balanceOf, Accounts) /\ allowance \in [Accounts -> Nat]
        /\ amount <= balanceOf[a]
    BY TokenAssumption DEF TokenInv, TokenTypeOK, burn
  <1>2. /\ now \in [Accounts -> Nat] /\ now[a] = balanceOf[a] - amount
        /\ \A b \in Accounts : b # a => balanceOf[b] = now[b]
        /\ \A b \in Accounts : b \notin {a} => now[b] = balanceOf[b]
    BY <1>1
  <1>3. /\ Rebalanced({a}, now) /\ totalSupply' = totalSupply - amount
        /\ UNCHANGED <<whitelisted, allowance, deposits, switches, claimed>>
    BY DEF burn
  <1> HIDE DEF now
  <1>4. SumFunctionOnSet(now, Accounts) = SumFunctionOnSet(balanceOf, Accounts) - balanceOf[a] + now[a]
    BY <1>1, <1>2, BalanceChanges
  <1>5. balanceOf[a] \in Nat
    BY <1>1
  <1>6. totalSupply' = SumFunctionOnSet(now, Accounts)
    BY <1>1, <1>2, <1>3, <1>4, <1>5
  <1> QED
    BY <1>1, <1>2, <1>3, <1>6, RebalancedKeeps

\* A transfer, with an allowance or without, keeps the invariant.
LEMMA TransferKeeps ==
  ASSUME TokenInv, NEW from \in Accounts, NEW to \in Accounts, NEW amount \in 1..MaxSupply,
         transferable(from, to, amount), Rebalanced({from, to}, moved(from, to, amount)),
         allowance' \in [Accounts -> Nat],
         UNCHANGED <<totalSupply, whitelisted, deposits, switches, claimed>>
  PROVE  TokenInv'
  <1> DEFINE less == [balanceOf EXCEPT ![from] = @ - amount]
             now == moved(from, to, amount)
  <1>1. /\ balanceOf \in [Accounts -> Nat] /\ totalSupply \in Nat /\ amount \in Nat
        /\ totalSupply = SumFunctionOnSet(balanceOf, Accounts)
        /\ amount <= balanceOf[from] /\ balanceOf[from] \in Nat
    BY TokenAssumption DEF TokenInv, TokenTypeOK, transferable
  <1>2. /\ less \in [Accounts -> Nat] /\ less[from] = balanceOf[from] - amount
        /\ \A b \in Accounts : b # from => balanceOf[b] = less[b]
    BY <1>1
  <1>3. now = [less EXCEPT ![to] = @ + amount]
    BY DEF moved
  <1> HIDE DEF less, now
  <1>4. /\ now \in [Accounts -> Nat] /\ now[to] = less[to] + amount /\ less[to] \in Nat
        /\ \A b \in Accounts : b # to => less[b] = now[b]
    BY <1>1, <1>2, <1>3
  <1>5. SumFunctionOnSet(less, Accounts) =
           SumFunctionOnSet(balanceOf, Accounts) - balanceOf[from] + less[from]
    BY <1>1, <1>2, BalanceChanges
  <1>6. SumFunctionOnSet(now, Accounts) = SumFunctionOnSet(less, Accounts) - less[to] + now[to]
    BY <1>2, <1>4, BalanceChanges
  <1>7. totalSupply' = SumFunctionOnSet(now, Accounts)
    BY <1>1, <1>2, <1>4, <1>5, <1>6
  <1>8. \A b \in Accounts : b \notin {from, to} => now[b] = balanceOf[b]
    BY <1>2, <1>4
  <1>9. Rebalanced({from, to}, now) /\ {from, to} \in SUBSET Accounts
    BY DEF now
  <1> QED
    BY <1>4, <1>7, <1>8, <1>9, RebalancedKeeps

-----------------------------------------------------------------------------
(* Distributions and claims.                                               *)

\* distributeDividend keeps the invariant: it raises what is accrued by no more than the
\* amount.
LEMMA DistributeKeeps ==
  ASSUME TokenInv, NEW amount \in 1..MaxDeposit, distributeDividend(amount)
  PROVE  TokenInv'
  <1>0. TokenTypeOK /\ DebitsBehind /\ AccrualsCovered
    BY DEF TokenInv
  <1>1. PICK D \in Nat, p \in Nat \ {0}, n \in Nat \ {0}, x \in Nat :
           D = dividendPerToken /\ p = PRECISION /\ n = totalSupply /\ x = amount
    BY <1>0, TokenTypes, TokenAssumption DEF TokenTypeOK, distributeDividend
  <1>2. PICK q \in Nat : q = perToken(amount) /\ q * n <= x * p
    <2>1. PICK y \in Nat : y = x * p
      OBVIOUS
    <2>2. PICK q \in Nat : q = y \div n /\ q * n <= y
      BY DivFits
    <2>3. perToken(amount) = y \div n
      BY <1>1, <2>1 DEF perToken
    <2> QED
      BY <2>1, <2>2, <2>3
  <1>3. /\ dividendPerToken' = D + q
        /\ totalDividendsDistributed' = totalDividendsDistributed + x
        /\ UNCHANGED <<balanceOf, totalSupply, whitelisted, allowance, dividendCredit,
                       dividendDebit, switches, claimed, syncs>>
    BY <1>1, <1>2 DEF distributeDividend
  <1>4. TokenTypeOK'
    BY <1>0, <1>1, <1>2, <1>3 DEF TokenTypeOK, switches
  <1>5. DebitsBehind'
    <2> SUFFICES ASSUME NEW a \in Accounts PROVE dividendDebit'[a] <= owed(a)'
      BY DEF DebitsBehind
    <2>1. PICK b \in Nat, d \in Nat : b = balanceOf[a] /\ d = dividendDebit[a] /\ d <= owed(a)
      BY <1>0, TokenTypes DEF DebitsBehind
    <2>2. b * D \in Nat /\ b * (D + q) \in Nat /\ b * D <= b * (D + q)
      BY <1>1, <1>2
    <2>3. (b * D) \div p <= (b * (D + q)) \div p /\ (b * D) \div p \in Nat
          /\ (b * (D + q)) \div p \in Nat
      BY <1>1, <2>2, DivGrows, DivFits
    <2>4. owed(a) = (b * D) \div p /\ owed(a)' = (b * (D + q)) \div p
      BY <1>1, <1>3, <2>1 DEF owed, share
    <2> QED
      BY <1>3, <2>1, <2>3, <2>4
  <1>6. AccrualsCovered'
    <2> DEFINE more == [a \in Accounts |-> balanceOf[a] * q]
               was == Accruals
               A == SumFunctionOnSet(Accruals, Accounts)
    <2>1. PICK is : is = Accruals'
      OBVIOUS
    <2>2. \A a \in Accounts : /\ was[a] \in Int /\ more[a] \in Int /\ is[a] = was[a] + more[a]
                              /\ balanceOf[a] \in Int /\ more[a] = balanceOf[a] * q
      <3> SUFFICES ASSUME NEW a \in Accounts
                   PROVE  /\ was[a] \in Int /\ more[a] \in Int /\ is[a] = was[a] + more[a]
                          /\ balanceOf[a] \in Int /\ more[a] = balanceOf[a] * q
        OBVIOUS
      <3>1. PICK b \in Nat, c \in Int : b = balanceOf[a] /\ was[a] = c + b * D /\ is[a] = c + b * (D + q)
        <4>1. (dividendCredit[a] - dividendDebit[a]) * PRECISION \in Int /\ balanceOf[a] \in Nat
          BY <1>0, TokenTypes
        <4>2. /\ was[a] = (dividendCredit[a] - dividendDebit[a]) * PRECISION + balanceOf[a] * D
              /\ is[a] = (dividendCredit[a] - dividendDebit[a]) * PRECISION + balanceOf[a] * (D + q)
          BY <1>1, <1>3, <2>1 DEF Accruals, accrued
        <4> QED
          BY <4>1, <4>2
      <3>2. b * (D + q) = b * D + b * q /\ b * D \in Int /\ b * q \in Int
        OBVIOUS
      <3>3. more[a] = b * q
        BY <3>1
      <3> HIDE DEF was, more
      <3> QED
        BY <3>1, <3>2, <3>3
    <2>3. IsFiniteSet(Accounts) /\ q \in Int
      BY TokenAssumption
    <2>4. SumFunctionOnSet(balanceOf, Accounts) = n
      BY <1>0, <1>1 DEF TokenTypeOK
    <2> HIDE DEF more, was
    <2>5. SumFunctionOnSet(more, Accounts) = SumFunctionOnSet(balanceOf, Accounts) * q
      BY <2>2, <2>3, SumTimes
    <2>6. SumFunctionOnSet(is, Accounts) =
             SumFunctionOnSet(was, Accounts) + SumFunctionOnSet(more, Accounts)
      BY <2>2, <2>3, SumOfBoth
    <2>7. SumFunctionOnSet(was, Accounts) \in Int
      BY <2>2, <2>3, SumInt
    <2>8. A \in Int /\ SumFunctionOnSet(Accruals', Accounts) = A + n * q
      BY <2>1, <2>4, <2>5, <2>6, <2>7 DEF was
    <2>9. /\ claimed * p \in Int /\ totalDividendsDistributed * p \in Int
          /\ syncs * (p - 1) \in Int /\ n * q \in Int /\ x * p \in Int
          /\ (totalDividendsDistributed + x) * p = totalDividendsDistributed * p + x * p
          /\ q * n = n * q
      BY <1>0, <1>1, <1>2, TokenTypes
    <2>10. claimed * p + A <= totalDividendsDistributed * p + syncs * (p - 1)
      BY <1>0, <1>1 DEF AccrualsCovered
    <2> HIDE DEF A
    <2>11. claimed * p + (A + n * q) <= (totalDividendsDistributed + x) * p + syncs * (p - 1)
      BY <1>2, <2>8, <2>9, <2>10
    <2> QED
      BY <1>1, <1>3, <2>8, <2>11 DEF AccrualsCovered
  <1> QED
    BY <1>4, <1>5, <1>6 DEF TokenInv

\* claimDividend keeps the invariant: what leaves was accrued.
LEMMA ClaimDividendKeeps ==
  ASSUME TokenInv, NEW a \in Accounts, claimDividend(a)
  PROVE  TokenInv'
  <1>0. TokenTypeOK /\ DebitsBehind /\ AccrualsCovered
    BY DEF TokenInv
  <1>1. PICK c \in Nat, d \in Nat, b \in Nat, D \in Nat, p \in Nat :
           /\ c = dividendCredit[a] /\ d = dividendDebit[a] /\ b = balanceOf[a]
           /\ D = dividendPerToken /\ p = PRECISION
    BY <1>0, TokenTypes
  <1>2. PICK s \in Nat : s = share(b)
    BY <1>0, ShareFits
  <1>3. settled(a) = c + (s - d) /\ settled(a) \in Nat /\ owed(a) = s
    BY <1>1, <1>2 DEF settled, owed, claimDividend
  <1>4. /\ claimed' = claimed + (c + (s - d))
        /\ dividendCredit' = [dividendCredit EXCEPT ![a] = 0]
        /\ dividendDebit' = [dividendDebit EXCEPT ![a] = s]
        /\ UNCHANGED <<balanceOf, totalSupply, whitelisted, allowance, deposits, switches, syncs>>
    BY <1>3 DEF claimDividend
  <1>5. /\ dividendCredit \in [Accounts -> Nat] /\ dividendDebit \in [Accounts -> Nat]
        /\ claimed \in Nat
    BY <1>0 DEF TokenTypeOK
  <1>6. /\ dividendCredit' \in [Accounts -> Nat] /\ dividendDebit' \in [Accounts -> Nat]
        /\ claimed' \in Nat /\ dividendCredit'[a] = 0 /\ dividendDebit'[a] = s
        /\ \A i \in Accounts : i # a => /\ dividendCredit'[i] = dividendCredit[i]
                                        /\ dividendDebit'[i] = dividendDebit[i]
    BY <1>3, <1>4, <1>5
  <1>7. TokenTypeOK'
    BY <1>0, <1>4, <1>6 DEF TokenTypeOK, deposits, switches
  <1>8. DebitsBehind'
    <2>1. \A i \in Accounts : owed(i)' = owed(i)
      BY <1>4 DEF owed, share, deposits
    <2> QED
      BY <1>0, <1>3, <1>6, <2>1 DEF DebitsBehind
  <1>9. AccrualsCovered'
    <2> DEFINE was == Accruals
               A == SumFunctionOnSet(Accruals, Accounts)
    <2>1. PICK is : is = Accruals'
      OBVIOUS
    <2>2. was[a] = (c - d) * p + b * D /\ is[a] = (0 - s) * p + b * D
      BY <1>1, <1>4, <1>6, <2>1 DEF Accruals, accrued, deposits
    <2>3. \A i \in Accounts : i # a => was[i] = is[i]
      BY <1>4, <1>6, <2>1 DEF Accruals, accrued, deposits
    <2>4. \A i \in Accounts : was[i] \in Int /\ is[i] \in Int
      <3>1. \A i \in Accounts : was[i] \in Int
        BY <1>0, TokenTypes DEF Accruals
      <3>2. is[a] \in Int
        BY <2>2
      <3> QED
        BY <2>3, <3>1, <3>2
    <2>5. IsFiniteSet(Accounts)
      BY TokenAssumption
    <2> HIDE DEF was
    <2>6. SumFunctionOnSet(is, Accounts) = SumFunctionOnSet(was, Accounts) - was[a] + is[a]
      BY <2>3, <2>4, <2>5, SumChanges
    <2>7. SumFunctionOnSet(was, Accounts) \in Int
      BY <2>4, <2>5, SumInt
    <2>8. is[a] + (c + (s - d)) * p = was[a]
      BY <2>2, ClaimedAccrued
    <2>9. (claimed + (c + (s - d))) * p = claimed * p + (c + (s - d)) * p
      BY <1>5
    <2>10. claimed * p \in Int /\ (c + (s - d)) * p \in Int /\ is[a] \in Int /\ was[a] \in Int
      BY <1>5, <2>4
    <2>11. claimed' * p + SumFunctionOnSet(is, Accounts) = claimed * p + SumFunctionOnSet(was, Accounts)
      BY <1>4, <2>6, <2>7, <2>8, <2>9, <2>10
    <2> QED
      BY <1>0, <1>1, <1>4, <2>1, <2>11 DEF AccrualsCovered, deposits, was
  <1> QED
    BY <1>7, <1>8, <1>9 DEF TokenInv

\* A step that leaves balances and dividends alone keeps the invariant.
LEMMA BalancesKept ==
  ASSUME TokenInv, whitelisted' \subseteq Accounts, allowance' \in [Accounts -> Nat],
         lockedUp' \in BOOLEAN, tokenPaused' \in BOOLEAN,
         UNCHANGED <<balanceOf, totalSupply, dividendCredit, dividendDebit, deposits, claimed, syncs>>
  PROVE  TokenInv'
  <1>1. TokenTypeOK'
    BY DEF TokenInv, TokenTypeOK, deposits
  <1>2. DebitsBehind'
    BY DEF TokenInv, DebitsBehind, owed, share, deposits
  <1>3. Accruals' = Accruals
    BY DEF Accruals, accrued, deposits
  <1>4. AccrualsCovered'
    BY <1>3 DEF TokenInv, AccrualsCovered, deposits
  <1> QED
    BY <1>1, <1>2, <1>4 DEF TokenInv

\* The invariant holds at the start.
LEMMA TokenInitHolds == TokenInit => TokenInv
  <1> SUFFICES ASSUME TokenInit PROVE TokenInv
    OBVIOUS
  <1>1. /\ IsFiniteSet(Accounts) /\ PRECISION \in Nat \ {0}
        /\ \A a \in Accounts : balanceOf[a] = 0 /\ balanceOf[a] * 0 = 0
    BY TokenAssumption DEF TokenInit
  <1>2. SumFunctionOnSet(balanceOf, Accounts) = 0
    BY <1>1, SumOfZeros
  <1>3. TokenTypeOK
    BY <1>2 DEF TokenInit, TokenTypeOK
  <1>4. \A a \in Accounts : owed(a) \in Nat
    BY <1>3, ShareFits, TokenTypes DEF owed
  <1>5. DebitsBehind
    BY <1>4 DEF TokenInit, DebitsBehind
  <1>6. \A a \in Accounts : Accruals[a] = 0
    BY <1>1 DEF TokenInit, Accruals, accrued
  <1>7. SumFunctionOnSet(Accruals, Accounts) = 0
    BY <1>1, <1>6, SumOfZeros
  <1>8. AccrualsCovered
    BY <1>1, <1>7 DEF TokenInit, AccrualsCovered
  <1> QED
    BY <1>3, <1>5, <1>8 DEF TokenInv

\* Every step keeps the invariant.
LEMMA TokenStepKeeps == ASSUME TokenInv, [TokenNext]_tokenVars PROVE TokenInv'
  <1>0. /\ whitelisted \subseteq Accounts /\ allowance \in [Accounts -> Nat]
        /\ lockedUp \in BOOLEAN /\ tokenPaused \in BOOLEAN
    BY DEF TokenInv, TokenTypeOK
  <1>1. CASE UNCHANGED tokenVars
    BY <1>0, <1>1, BalancesKept DEF tokenVars, deposits, switches
  <1>2. ASSUME NEW a \in Accounts, NEW status \in BOOLEAN, setWhitelist(a, status)
        PROVE  TokenInv'
    BY <1>0, <1>2, BalancesKept DEF setWhitelist, switches
  <1>3. ASSUME NEW a \in Accounts, NEW amount \in 1..MaxSupply, mint(a, amount) \/ burn(a, amount)
        PROVE  TokenInv'
    BY <1>3, MintKeeps, BurnKeeps
  <1>4. ASSUME NEW a \in Accounts, NEW amount \in 0..MaxSupply, approve(a, amount)
        PROVE  TokenInv'
    <2>1. allowance' \in [Accounts -> Nat]
      BY <1>0, <1>4, TokenAssumption DEF approve
    <2> QED
      BY <1>0, <1>4, <2>1, BalancesKept DEF approve, switches
  <1>5. ASSUME NEW a \in Accounts, NEW b \in Accounts, NEW amount \in 1..MaxSupply,
               transfer(a, b, amount)
        PROVE  TokenInv'
    BY <1>0, <1>5, TransferKeeps DEF transfer
  <1>6. ASSUME NEW a \in Accounts, NEW b \in Accounts, NEW amount \in 1..MaxSupply,
               transferFrom(a, b, amount)
        PROVE  TokenInv'
    <2>1. allowance' \in [Accounts -> Nat]
      BY <1>0, <1>6, TokenAssumption DEF transferFrom
    <2> QED
      BY <1>6, <2>1, TransferKeeps DEF transferFrom
  <1>7. ASSUME NEW amount \in 1..MaxDeposit, distributeDividend(amount)
        PROVE  TokenInv'
    BY <1>7, DistributeKeeps
  <1>8. ASSUME NEW a \in Accounts, claimDividend(a)
        PROVE  TokenInv'
    BY <1>8, ClaimDividendKeeps
  <1>9. CASE setLockupEndTime \/ pauseToken
    BY <1>0, <1>9, BalancesKept DEF setLockupEndTime, pauseToken
  <1> QED
    BY <1>1, <1>2, <1>3, <1>4, <1>5, <1>6, <1>7, <1>8, <1>9 DEF TokenNext

\* The inductive invariant holds in every state: TokenSpec => []TokenInv.
THEOREM TokenInvariance == TokenSpec => []TokenInv
  BY TokenInitHolds, TokenStepKeeps, PTL DEF TokenSpec

\* No balance, credit or debit becomes negative, and the supply is the sum of the
\* balances: TokenSpec => []TokenTypeOK.
THEOREM TokenTypesHold == TokenSpec => []TokenTypeOK
  <1>1. TokenInv => TokenTypeOK
    BY DEF TokenInv
  <1> QED
    BY <1>1, TokenInvariance, PTL

\* For every precision and every number of holders, no settlement underflows, and what is
\* claimed or can be claimed was distributed, but for less than a unit for each
\* synchronisation: TokenSpec => []DividendsCovered.
THEOREM DividendsHold == TokenSpec => []DividendsCovered
  BY CoveredFollows, TokenInvariance, PTL

-----------------------------------------------------------------------------
(***************************************************************************)
(* Proofs about PropAIGovernance, for any finite set of voters, any powers *)
(* and any number of proposals.  The inductive invariant adds to the tally *)
(* and the totals that who has not voted weighs nothing: it is what makes  *)
(* a vote add its whole weight to the sum.                                 *)
(***************************************************************************)

Unvoted == \A p \in Proposals : \A v \in Voters \ hasVoted[p] : weight[p][v] = 0
GovInv == GovTypeOK /\ PowerCountsOnce /\ Unvoted

\* Sums of powers and weights are amounts.
LEMMA SumOfPower ==
  ASSUME NEW f \in [Voters -> Nat]
  PROVE  SumFunctionOnSet(f, Voters) \in Nat
  <1>1. \A v \in Voters : f[v] \in Nat
    OBVIOUS
  <1> QED
    BY <1>1, SumNat, GovernanceAssumption

\* One power or weight changes, and the sum by as much.
LEMMA PowerChanges ==
  ASSUME NEW f, NEW g, NEW v, f \in [Voters -> Nat], g \in [Voters -> Nat], v \in Voters,
         \A w \in Voters : w # v => f[w] = g[w]
  PROVE  SumFunctionOnSet(g, Voters) = SumFunctionOnSet(f, Voters) - f[v] + g[v]
  <1>1. IsFiniteSet(Voters) /\ \A w \in Voters : f[w] \in Int /\ g[w] \in Int
    BY GovernanceAssumption
  <1> QED
    BY <1>1, SumChanges

\* The members who count.
LEMMA MembersFinite ==
  IsFiniteSet({v \in Voters : isActive(v)}) /\ Cardinality({v \in Voters : isActive(v)}) \in Nat
  BY FS_Subset, FS_CardinalityType, GovernanceAssumption

\* A step that leaves members and votes alone, and no tally.
LEMMA VotesKept ==
  ASSUME GovInv, UNCHANGED <<members, ballots>>, proposals' \in [Proposals -> Proposal],
         \A p \in Proposals : proposals'[p].votes = proposals[p].votes, ended' \subseteq Proposals
  PROVE  GovInv'
  <1>1. GovTypeOK'
    BY DEF GovInv, GovTypeOK, members, ballots
  <1>2. \A p \in Proposals : totalVoted(p)' = totalVoted(p)
    BY DEF totalVoted
  <1>3. PowerCountsOnce' /\ Unvoted'
    BY <1>2 DEF GovInv, PowerCountsOnce, isActive, Unvoted, members, ballots
  <1> QED
    BY <1>1, <1>3 DEF GovInv

\* A step that changes the power of one member.
LEMMA MembersKept ==
  ASSUME GovInv, NEW v \in Voters, NEW n \in Nat,
         power' = [power EXCEPT ![v] = n],
         totalVotingPower' = (totalVotingPower - power[v]) + n,
         memberCount' = Cardinality({w \in Voters : isActive(w)}'),
         UNCHANGED <<quorumBps, proposals, ended, ballots>>
  PROVE  GovInv'
  <1>1. power \in [Voters -> Nat] /\ power' \in [Voters -> Nat] /\ totalVotingPower \in Nat
    BY DEF GovInv, GovTypeOK
  <1>2. totalVotingPower' = SumFunctionOnSet(power', Voters)
    <2>1. totalVotingPower = SumFunctionOnSet(power, Voters)
      BY DEF GovInv, PowerCountsOnce
    <2>2. SumFunctionOnSet(power', Voters) = SumFunctionOnSet(power, Voters) - power[v] + power'[v]
      <3>1. \A w \in Voters : w # v => power[w] = power'[w]
        BY <1>1
      <3> QED
        BY <1>1, <3>1, PowerChanges
    <2>3. power'[v] = n
      BY <1>1
    <2> QED
      BY <2>1, <2>2, <2>3
  <1>3. totalVotingPower' \in Nat
    BY <1>1, <1>2, SumOfPower
  <1>4. memberCount' \in Nat
    <2>1. {w \in Voters : isActive(w)}' \subseteq Voters
      BY DEF isActive
    <2> QED
      BY <2>1, FS_Subset, FS_CardinalityType, GovernanceAssumption
  <1>5. GovTypeOK'
    BY <1>1, <1>3, <1>4 DEF GovInv, GovTypeOK, ballots
  <1>6. PowerCountsOnce'
    BY <1>2 DEF GovInv, PowerCountsOnce, totalVoted, ballots
  <1>7. Unvoted'
    BY DEF GovInv, Unvoted, ballots
  <1> QED
    BY <1>5, <1>6, <1>7 DEF GovInv

\* addMember keeps the invariant: one more is active.
LEMMA AddMemberKeeps ==
  ASSUME GovInv, NEW v \in Voters, NEW n \in 1..MaxPower, addMember(v, n)
  PROVE  GovInv'
  <1> DEFINE active == {w \in Voters : isActive(w)}
  <1>1. power \in [Voters -> Nat] /\ n \in Nat /\ n > 0 /\ power[v] = 0 /\ totalVotingPower \in Nat
    BY GovernanceAssumption DEF GovInv, GovTypeOK, addMember, isActive
  <1>2. power' = [power EXCEPT ![v] = n] /\ totalVotingPower' = (totalVotingPower - power[v]) + n
    BY <1>1 DEF addMember
  <1>3. active' = active \cup {v} /\ v \notin active
    BY <1>1, <1>2 DEF isActive
  <1>4. Cardinality(active') = Cardinality(active) + 1
    BY <1>3, MembersFinite, FS_AddElement
  <1>5. memberCount' = Cardinality(active')
    BY <1>4 DEF GovInv, PowerCountsOnce, addMember
  <1> QED
    BY <1>1, <1>2, <1>5, MembersKept DEF addMember

\* removeMember keeps the invariant: one less is active.
LEMMA RemoveMemberKeeps ==
  ASSUME GovInv, NEW v \in Voters, removeMember(v)
  PROVE  GovInv'
  <1> DEFINE active == {w \in Voters : isActive(w)}
  <1>1. power \in [Voters -> Nat] /\ power[v] > 0 /\ totalVotingPower \in Nat
    BY DEF GovInv, GovTypeOK, removeMember, isActive
  <1>2. power' = [power EXCEPT ![v] = 0] /\ totalVotingPower' = (totalVotingPower - power[v]) + 0
    BY <1>1 DEF removeMember
  <1>3. active' = active \ {v} /\ v \in active
    BY <1>1, <1>2 DEF isActive
  <1>4. Cardinality(active') = Cardinality(active) - 1
    BY <1>3, MembersFinite, FS_RemoveElement
  <1>5. memberCount' = Cardinality(active')
    BY <1>4 DEF GovInv, PowerCountsOnce, removeMember
  <1> QED
    BY <1>1, <1>2, <1>5, MembersKept DEF removeMember

\* updateVotingPower keeps the invariant: the same are active.
LEMMA UpdatePowerKeeps ==
  ASSUME GovInv, NEW v \in Voters, NEW n \in 1..MaxPower, updateVotingPower(v, n)
  PROVE  GovInv'
  <1> DEFINE active == {w \in Voters : isActive(w)}
  <1>1. power \in [Voters -> Nat] /\ n \in Nat /\ n > 0 /\ power[v] > 0
    BY GovernanceAssumption DEF GovInv, GovTypeOK, updateVotingPower, isActive
  <1>2. power' = [power EXCEPT ![v] = n] /\ totalVotingPower' = (totalVotingPower - power[v]) + n
    BY DEF updateVotingPower
  <1>3. active' = active
    BY <1>1, <1>2 DEF isActive
  <1>4. memberCount' = Cardinality(active')
    BY <1>3 DEF GovInv, PowerCountsOnce, updateVotingPower
  <1> QED
    BY <1>1, <1>2, <1>4, MembersKept DEF updateVotingPower

\* castVote keeps the invariant: the voter weighed nothing before.
LEMMA CastVoteKeeps ==
  ASSUME GovInv, NEW v \in Voters, NEW p \in Proposals, NEW type \in VoteType,
         castVote(v, p, type)
  PROVE  GovInv'
  <1> DEFINE votes == proposals[p].votes
             n == power[v]
  <1>1. /\ power \in [Voters -> Nat] /\ n \in Nat /\ weight \in [Proposals -> [Voters -> Nat]]
        /\ proposals \in [Proposals -> Proposal] /\ hasVoted \in [Proposals -> SUBSET Voters]
    BY DEF GovInv, GovTypeOK
  <1>2. votes \in [VoteType -> Nat] /\ proposals[p] \in Proposal
    BY <1>1 DEF Proposal, Tally
  <1>3. v \notin hasVoted[p] /\ weight[p][v] = 0
    BY DEF castVote, hasVotedOn, GovInv, Unvoted
  <1>4. /\ hasVoted' = [hasVoted EXCEPT ![p] = @ \cup {v}]
        /\ weight' = [weight EXCEPT ![p] = [weight[p] EXCEPT ![v] = n]]
        /\ proposals' = [proposals EXCEPT ![p] =
                            [proposals[p] EXCEPT !.votes = [votes EXCEPT ![type] = @ + n]]]
        /\ UNCHANGED <<members, ended>>
    BY <1>1 DEF castVote
  <1>5. [votes EXCEPT ![type] = @ + n] \in [VoteType -> Nat]
    BY <1>1, <1>2
  <1>6. [proposals[p] EXCEPT !.votes = [votes EXCEPT ![type] = @ + n]] \in Proposal
    BY <1>2, <1>5 DEF Proposal, Tally
  <1>7. GovTypeOK'
    <2>1. proposals' \in [Proposals -> Proposal]
      BY <1>1, <1>4, <1>6
    <2>2. hasVoted' \in [Proposals -> SUBSET Voters]
      BY <1>1, <1>4
    <2>3. weight' \in [Proposals -> [Voters -> Nat]]
      BY <1>1, <1>4
    <2> QED
      BY <1>4, <2>1, <2>2, <2>3 DEF GovInv, GovTypeOK, members
  <1>8. ASSUME NEW q \in Proposals
        PROVE  totalVoted(q)' = SumFunctionOnSet(weight'[q], Voters)
    <2>1. totalVoted(q) = SumFunctionOnSet(weight[q], Voters)
      BY DEF GovInv, PowerCountsOnce
    <2>2. CASE q # p
      BY <1>1, <1>4, <2>1, <2>2 DEF totalVoted
    <2>3. CASE q = p
      <3>1. /\ weight[p] \in [Voters -> Nat] /\ weight'[p] \in [Voters -> Nat]
            /\ weight'[p][v] = n /\ \A w \in Voters : w # v => weight[p][w] = weight'[p][w]
        BY <1>1, <1>4
      <3>2. SumFunctionOnSet(weight'[p], Voters) =
               SumFunctionOnSet(weight[p], Voters) - weight[p][v] + weight'[p][v]
        BY <3>1, PowerChanges
      <3>3. proposals'[p].votes = [votes EXCEPT ![type] = @ + n]
        BY <1>1, <1>2, <1>4 DEF Proposal
      <3>4. totalVoted(p)' = totalVoted(p) + n
        <4>1. /\ votes["For"] \in Nat /\ votes["Against"] \in Nat /\ votes["Abstain"] \in Nat
              /\ totalVoted(p) = votes["For"] + votes["Against"] + votes["Abstain"]
          BY <1>2 DEF totalVoted, VoteType
        <4> DEFINE new == [votes EXCEPT ![type] = @ + n]
        <4>2. totalVoted(p)' = new["For"] + new["Against"] + new["Abstain"]
          BY <3>3 DEF totalVoted
        <4>3. \A t \in VoteType : new[t] = IF t = type THEN votes[t] + n ELSE votes[t]
          BY <1>2
        <4> QED
          BY <1>1, <4>1, <4>2, <4>3 DEF VoteType
      <3>5. SumFunctionOnSet(weight[p], Voters) \in Nat
        BY <3>1, SumOfPower
      <3> QED
        BY <1>1, <1>3, <2>1, <2>3, <3>1, <3>2, <3>4, <3>5
    <2> QED
      BY <2>2, <2>3
  <1>9. PowerCountsOnce'
    BY <1>4, <1>8 DEF GovInv, PowerCountsOnce, isActive, members
  <1>10. Unvoted'
    BY <1>1, <1>4 DEF GovInv, Unvoted
  <1> QED
    BY <1>7, <1>9, <1>10 DEF GovInv

\* A change of a proposal's status keeps the invariant.
LEMMA StatusKeeps ==
  ASSUME GovInv, NEW p \in Proposals, NEW status \in ProposalStatus, SetProposal(p, status)
  PROVE  GovInv'
  <1>1. proposals \in [Proposals -> Proposal]
    BY DEF GovInv, GovTypeOK
  <1>2. /\ proposals' \in [Proposals -> Proposal]
        /\ \A q \in Proposals : proposals'[q].votes = proposals[q].votes
    BY <1>1 DEF SetProposal, Proposal
  <1> QED
    BY <1>2, VotesKept DEF SetProposal, GovInv, GovTypeOK

\* The invariant holds at the start.
LEMMA GovInitHolds == GovInit => GovInv
  <1> SUFFICES ASSUME GovInit PROVE GovInv
    OBVIOUS
  <1>1. GovTypeOK
    BY DEF GovInit, GovTypeOK, NoProposal, Proposal, Tally, ProposalStatus, VoteType
  <1>2. SumFunctionOnSet(power, Voters) = 0
    <2>1. \A v \in Voters : power[v] = 0
      BY DEF GovInit
    <2> QED
      BY <2>1, SumOfZeros, GovernanceAssumption
  <1>3. ASSUME NEW p \in Proposals
        PROVE  totalVoted(p) = SumFunctionOnSet(weight[p], Voters)
    <2>1. \A v \in Voters : weight[p][v] = 0
      BY DEF GovInit
    <2>2. SumFunctionOnSet(weight[p], Voters) = 0
      BY <2>1, SumOfZeros, GovernanceAssumption
    <2>3. totalVoted(p) = 0
      BY DEF GovInit, NoProposal, totalVoted, VoteType
    <2> QED
      BY <2>2, <2>3
  <1>4. memberCount = Cardinality({v \in Voters : isActive(v)})
    <2>1. {v \in Voters : isActive(v)} = {}
      BY DEF GovInit, isActive
    <2> QED
      BY <2>1, FS_EmptySet DEF GovInit
  <1> QED
    BY <1>1, <1>2, <1>3, <1>4 DEF GovInit, GovInv, PowerCountsOnce, Unvoted

\* Every step keeps the invariant.
LEMMA GovStepKeeps == ASSUME GovInv, [GovNext]_govVars PROVE GovInv'
  <1>1. CASE UNCHANGED govVars
    BY <1>1 DEF govVars, GovInv, GovTypeOK, PowerCountsOnce, Unvoted, totalVoted, isActive
  <1>2. ASSUME NEW v \in Voters, NEW n \in 1..MaxPower, addMember(v, n) \/ updateVotingPower(v, n)
        PROVE  GovInv'
    BY <1>2, AddMemberKeeps, UpdatePowerKeeps
  <1>3. ASSUME NEW v \in Voters, removeMember(v)
        PROVE  GovInv'
    BY <1>3, RemoveMemberKeeps
  <1>4. ASSUME NEW n \in 1..GOV_BPS, setQuorum(n)
        PROVE  GovInv'
    BY <1>4 DEF setQuorum, GovInv, GovTypeOK, PowerCountsOnce, Unvoted, totalVoted, isActive, ballots
  <1>5. ASSUME NEW v \in Voters, NEW p \in Proposals, createProposal(v, p)
        PROVE  GovInv'
    BY <1>5, StatusKeeps DEF createProposal, ProposalStatus
  <1>6. ASSUME NEW v \in Voters, NEW p \in Proposals, NEW type \in VoteType, castVote(v, p, type)
        PROVE  GovInv'
    BY <1>6, CastVoteKeeps
  <1>7. ASSUME NEW p \in Proposals, EndPeriod(p)
        PROVE  GovInv'
    BY <1>7, VotesKept DEF EndPeriod, GovInv, GovTypeOK
  <1>8. ASSUME NEW p \in Proposals, finalizeProposal(p) \/ executeProposal(p) \/ cancelProposal(p)
        PROVE  GovInv'
    BY <1>8, StatusKeeps DEF finalizeProposal, executeProposal, cancelProposal, ProposalStatus
  <1> QED
    BY <1>1, <1>2, <1>3, <1>4, <1>5, <1>6, <1>7, <1>8 DEF GovNext

\* The inductive invariant holds in every state: GovSpec => []GovInv.
THEOREM GovInvariance == GovSpec => []GovInv
  BY GovInitHolds, GovStepKeeps, PTL DEF GovSpec

\* Members, proposals and votes stay well formed, and no count becomes negative:
\* GovSpec => []GovTypeOK.
THEOREM GovTypesHold == GovSpec => []GovTypeOK
  <1>1. GovInv => GovTypeOK
    BY DEF GovInv
  <1> QED
    BY <1>1, GovInvariance, PTL

\* However members come, go, return and change their power between votes, a tally is the
\* sum of one weight for each voter, and the total that of the members of now:
\* GovSpec => []PowerCountsOnce.
THEOREM VotesCountOnce == GovSpec => []PowerCountsOnce
  <1>1. GovInv => PowerCountsOnce
    BY DEF GovInv
  <1> QED
    BY <1>1, GovInvariance, PTL

=============================================================================
