-------------------------- MODULE SalesUnits_proofs --------------------------
(***************************************************************************)
(* Proofs about SalesUnits, for any number of units, staff, contracts,     *)
(* applications and requests.  What needs the menu of a unit switched off  *)
(* says so: the menu looks at no owner and at no contract.                 *)
(***************************************************************************)
EXTENDS SalesUnits, TLAPS

\* A contract that exists, and a winner who was told, names a unit.
Placed ==
    /\ \A c \in Contracts : contract[c].stage # "none" => contract[c].unit \in Units
    /\ \A a \in Apps : winner[a].status = "NOTIFIED" => winner[a].unit \in Units

\* Nobody but the menu touches what a contract, a winner or a holder has.
IInv    == TypeOK /\ Placed /\ OneContract
DeskInv == IInv /\ ContractHoldsUnit /\ WinnerHoldsUnit

-----------------------------------------------------------------------------
(* The two ways of writing a unit's row.                                   *)

\* A new status in a row touches no token.
LEMMA StatusOK ==
  ASSUME TypeOK, NEW u \in Units, NEW st \in UnitStatus, NEW s \in Staff \cup {None},
         unit'[u] = [unit[u] EXCEPT !.status = st, !.by = s]
  PROVE  unit'[u] \in UnitRow /\ unit'[u].token = unit[u].token
  BY DEF TypeOK, UnitRow

\* Both leave well-formed rows whose tokens have been issued.
LEMMA WritesOK ==
  ASSUME TypeOK, NEW u \in Units \cup {None}, NEW st \in UnitStatus, NEW s \in Staff \cup {None},
         unit' = SetStatus(u, st, s) \/ unit' = SetFree(u, st, s), UNCHANGED issued
  PROVE  /\ unit' \in [Units -> UnitRow]
         /\ \A v \in Units : unit'[v].token <= issued'[v]
  <1>1. MaxHolds \in Nat
    BY InstanceAssumption
  <1>2. CASE unit' = SetStatus(u, st, s)
    <2>1. \A v \in Units : unit'[v] = unit[v] \/ unit'[v] = [unit[v] EXCEPT !.status = st, !.by = s]
      BY <1>2 DEF SetStatus, TypeOK
    <2>2. \A v \in Units : unit'[v] \in UnitRow /\ unit'[v].token = unit[v].token
      BY <2>1 DEF TypeOK, UnitRow
    <2>3. unit' \in [Units -> UnitRow]
      BY <1>2, <2>2 DEF SetStatus, TypeOK
    <2>4. QED
      BY <2>2, <2>3 DEF TypeOK
  <1>3. CASE unit' = SetFree(u, st, s)
    <2>1. [status |-> st, heldBy |-> None, token |-> 0, expiry |-> "none", by |-> s] \in UnitRow
      BY <1>1 DEF UnitRow
    <2>2. unit' \in [Units -> UnitRow]
      BY <1>3, <2>1 DEF SetFree, TypeOK
    <2>3. \A v \in Units : unit'[v].token = 0 \/ unit'[v] = unit[v]
      BY <1>3 DEF SetFree, TypeOK
    <2>4. \A v \in Units : issued[v] \in Nat /\ unit[v].token <= issued[v]
      BY <1>1 DEF TypeOK
    <2>5. QED
      BY <2>2, <2>3, <2>4
  <1>4. QED
    BY <1>2, <1>3

-----------------------------------------------------------------------------
(* Types.                                                                  *)

\* The invariants hold at the start.
LEMMA InitOK == Init => DeskInv
  <1> SUFFICES ASSUME Init PROVE DeskInv
    OBVIOUS
  <1>1. MaxHolds \in Nat
    BY InstanceAssumption
  <1>2. TypeOK
    <2>1. NewUnit \in UnitRow /\ NoContract \in ContractRow /\ NoWinner \in WinnerRow
      BY <1>1 DEF UnitRow, UnitStatus, NewUnit, ContractRow, NoContract, WinnerRow, NoWinner
    <2>2. unit = [u \in Units |-> NewUnit] /\ issued = [u \in Units |-> 0]
      BY Zenon DEF Init
    <2>3. \A u \in Units : unit[u].token <= issued[u]
      <3> SUFFICES ASSUME NEW u \in Units PROVE unit[u].token <= issued[u]
        OBVIOUS
      <3>1. unit[u] = NewUnit /\ issued[u] = 0
        BY <2>2, Zenon
      <3>2. unit[u].token = 0
        BY <3>1 DEF NewUnit
      <3>3. QED
        BY <3>1, <3>2
    <2>4. seating \in BOOLEAN
      BY Zenon DEF Init
    <2>5. /\ unit \in [Units -> UnitRow]
          /\ issued \in [Units -> 0..MaxHolds]
          /\ knows \in [Staff -> SUBSET (Units \X (1..MaxHolds))]
          /\ contract \in [Contracts -> ContractRow]
          /\ winner \in [Apps -> WinnerRow]
          /\ queue \subseteq Apps /\ announced \subseteq Units
          /\ assigned \in [Candidates -> Units \cup {None}]
          /\ drawn \subseteq Candidates \X Units
          /\ drawing \in [Draws -> Candidates \cup {None}]
      BY <1>1, <2>1, <2>2 DEF Init
    <2>6. QED
      BY <2>3, <2>4, <2>5 DEF TypeOK
  <1>3. Placed /\ OneContract /\ ContractHoldsUnit /\ WinnerHoldsUnit
    BY DEF Init, Placed, OneContract, ContractHoldsUnit, WinnerHoldsUnit, Active, NoContract,
       NoWinner
  <1>4. QED
    BY <1>2, <1>3 DEF DeskInv, IInv

\* Every step keeps the types.
LEMMA TypeStep == ASSUME TypeOK, [Next]_vars PROVE TypeOK'
  <1> USE InstanceAssumption
  <1>1. CASE UNCHANGED vars
    BY <1>1 DEF vars, TypeOK
  <1>2. ASSUME NEW u \in Units, Expire(u) PROVE TypeOK'
    BY <1>2 DEF Expire, TypeOK, UnitRow, holds, subscription, lottery
  <1>3. ASSUME NEW u \in Units, ClaimOffer(u) PROVE TypeOK'
    <2>1. unit' \in [Units -> UnitRow] /\ \A v \in Units : unit'[v].token <= issued'[v]
      BY <1>3, WritesOK DEF ClaimOffer, UnitStatus, holds
    <2>2. QED
      BY <1>3, <2>1 DEF ClaimOffer, TypeOK, holds, subscription, lottery
  <1>4. ASSUME NEW s \in Staff, NEW u \in Units, AtomicHold(s, u) PROVE TypeOK'
    <2>1. issued[u] + 1 \in 1..MaxHolds
      BY <1>4 DEF AtomicHold, TypeOK
    <2>2. [status |-> "HOLD", heldBy |-> s, token |-> issued[u] + 1, expiry |-> "live", by |-> s]
            \in UnitRow
      BY <2>1 DEF UnitRow, UnitStatus
    <2>3. unit' \in [Units -> UnitRow] /\ issued' \in [Units -> 0..MaxHolds]
      BY <1>4, <2>1, <2>2 DEF AtomicHold, TypeOK
    <2>4. knows' \in [Staff -> SUBSET (Units \X (1..MaxHolds))]
      BY <1>4, <2>1 DEF AtomicHold, TypeOK
    <2>5. \A v \in Units : unit'[v].token <= issued'[v]
      BY <1>4, <2>1 DEF AtomicHold, TypeOK
    <2>6. QED
      BY <1>4, <2>3, <2>4, <2>5 DEF AtomicHold, TypeOK, subscription, lottery
  <1>5. ASSUME NEW s \in Staff, NEW u \in Units, AtomicRelease(s, u) \/ AtomicReserve(s, u)
        PROVE TypeOK'
    <2>1. UNCHANGED <<holds, contract, subscription, lottery>>
      BY <1>5 DEF AtomicRelease, AtomicReserve
    <2>2. unit' \in [Units -> UnitRow] /\ \A v \in Units : unit'[v].token <= issued'[v]
      BY <1>5, <2>1, WritesOK DEF AtomicRelease, AtomicReserve, UnitStatus, holds
    <2>3. QED
      BY <2>1, <2>2 DEF TypeOK, holds, subscription, lottery
  <1>6. ASSUME NEW s \in Staff, NEW u \in Units, UnitAction(s, u) PROVE TypeOK'
    <2>1. PICK st \in UnitStatus : unit' = SetStatus(u, st, s)
      BY <1>6 DEF UnitAction, Transitions, UnitStatus
    <2>2. unit' \in [Units -> UnitRow] /\ \A v \in Units : unit'[v].token <= issued'[v]
      BY <1>6, <2>1, WritesOK DEF UnitAction, holds
    <2>3. QED
      BY <1>6, <2>2 DEF UnitAction, TypeOK, holds, subscription, lottery
  <1>7. ASSUME NEW s \in Staff, NEW u \in Units, PromoteReserve(s, u) PROVE TypeOK'
    <2>1. PICK st \in UnitStatus : unit' = SetStatus(u, st, s)
      BY <1>7 DEF PromoteReserve, UnitStatus
    <2>2. unit' \in [Units -> UnitRow] /\ \A v \in Units : unit'[v].token <= issued'[v]
      BY <1>7, <2>1, WritesOK DEF PromoteReserve, holds
    <2> DEFINE left == [a \in Apps |-> IF a \in Occupants(u)
                                       THEN [winner[a] EXCEPT !.status = "FORFEITED"]
                                       ELSE winner[a]]
    <2>3. left \in [Apps -> WinnerRow]
      BY DEF TypeOK, WinnerRow
    <2>4. winner' \in [Apps -> WinnerRow] /\ queue' \subseteq Apps
      <3> HIDE DEF left
      <3>1. CASE \E a \in queue : /\ winner' = [left EXCEPT ![a] = [unit |-> u, status |-> "NOTIFIED"]]
                                  /\ queue' = queue \ {a}
        BY <3>1, <2>3 DEF TypeOK, WinnerRow
      <3>2. CASE winner' = left /\ UNCHANGED queue
        BY <3>2, <2>3 DEF TypeOK
      <3>3. QED
        BY <1>7, <3>1, <3>2 DEF PromoteReserve, left
    <2>5. QED
      BY <1>7, <2>2, <2>4 DEF PromoteReserve, TypeOK, holds, lottery
  <1>8. ASSUME NEW s \in Staff, NEW u \in Units, NEW c \in Contracts, CreateContract(s, u, c)
        PROVE TypeOK'
    <2>1. unit' \in [Units -> UnitRow] /\ \A v \in Units : unit'[v].token <= issued'[v]
      BY <1>8, WritesOK DEF CreateContract, UnitStatus, holds
    <2>2. contract' \in [Contracts -> ContractRow]
      BY <1>8 DEF CreateContract, TypeOK, ContractRow
    <2>3. QED
      BY <1>8, <2>1, <2>2 DEF CreateContract, TypeOK, holds, subscription, lottery
  <1>9. ASSUME NEW s \in Staff, NEW r \in Staff, ShareToken(s, r) PROVE TypeOK'
    BY <1>9 DEF ShareToken, TypeOK, subscription, lottery
  <1>10. ASSUME NEW s \in Staff, NEW c \in Contracts, SignContract(s, c) \/ CancelContract(s, c)
         PROVE TypeOK'
    <2>1. UNCHANGED <<holds, subscription, lottery>>
      BY <1>10 DEF SignContract, CancelContract
    <2>2. contract[c].unit \in Units \cup {None}
      BY DEF TypeOK, ContractRow
    <2>3. unit' \in [Units -> UnitRow] /\ \A v \in Units : unit'[v].token <= issued'[v]
      BY <1>10, <2>1, <2>2, WritesOK DEF SignContract, CancelContract, UnitStatus, holds
    <2>4. contract' \in [Contracts -> ContractRow]
      BY <1>10 DEF SignContract, CancelContract, TypeOK, ContractRow
    <2>5. QED
      BY <2>1, <2>3, <2>4 DEF TypeOK, holds, subscription, lottery
  <1>11. CASE RunDraw
    <2>1. PICK W \in SUBSET Apps : \E seat \in [W -> Available] : Seated(W, seat)
      BY <1>11 DEF RunDraw
    <2>2. PICK seat \in [W -> Available] : Seated(W, seat)
      BY <2>1
    <2>3. winner' \in [Apps -> WinnerRow]
      BY <2>2 DEF Seated, TypeOK, WinnerRow, Available
    <2>4. unit' \in [Units -> UnitRow] /\ \A u \in Units : unit'[u].token = unit[u].token
      <3>1. \A u \in Units : \/ unit'[u] = unit[u]
                             \/ unit'[u] = [unit[u] EXCEPT !.status = "APPLIED", !.by = None]
        <4> SUFFICES ASSUME NEW u \in Units
                     PROVE  \/ unit'[u] = unit[u]
                            \/ unit'[u] = [unit[u] EXCEPT !.status = "APPLIED", !.by = None]
          OBVIOUS
        <4>1. CASE u \in Seats(W, seat)
          BY <2>2, <4>1 DEF Seated
        <4>2. CASE u \notin Seats(W, seat)
          BY <2>2, <4>2 DEF Seated
        <4>3. QED
          BY <4>1, <4>2
      <3>2. \A u \in Units : unit'[u] \in UnitRow /\ unit'[u].token = unit[u].token
        <4>1. "APPLIED" \in UnitStatus
          BY DEF UnitStatus
        <4>2. ASSUME NEW u \in Units, unit'[u] = [unit[u] EXCEPT !.status = "APPLIED", !.by = None]
              PROVE  unit'[u] \in UnitRow /\ unit'[u].token = unit[u].token
          BY <4>1, <4>2, StatusOK
        <4>3. QED
          BY <3>1, <4>2 DEF TypeOK
      <3>3. QED
        BY <2>2, <3>2 DEF Seated
    <2>5. queue' \subseteq Apps
      BY <2>2 DEF Seated
    <2>6. QED
      BY <1>11, <2>3, <2>4, <2>5 DEF RunDraw, TypeOK, holds, lottery
  <1>12. ASSUME NEW q \in Draws, NEW d \in Candidates, DrawBegin(q, d) PROVE TypeOK'
    BY <1>12 DEF DrawBegin, TypeOK, holds, subscription
  <1>13. ASSUME NEW q \in Draws, DrawTake(q) PROVE TypeOK'
    <2>1. PICK u \in Units : /\ unit' = SetStatus(u, "HOLD", None)
                             /\ assigned' = [assigned EXCEPT ![drawing[q]] = u]
                             /\ drawn' = drawn \cup {<<drawing[q], u>>}
      BY <1>13 DEF DrawTake, Remaining, Available
    <2>2. drawing[q] \in Candidates
      BY <1>13 DEF DrawTake, TypeOK
    <2>3. unit' \in [Units -> UnitRow] /\ \A v \in Units : unit'[v].token <= issued'[v]
      BY <1>13, <2>1, WritesOK DEF DrawTake, UnitStatus, holds
    <2>4. QED
      BY <1>13, <2>1, <2>2, <2>3 DEF DrawTake, TypeOK, holds, subscription
  <1>14. ASSUME NEW q \in Draws, DrawFail(q) PROVE TypeOK'
    BY <1>14 DEF DrawFail, TypeOK, holds, subscription
  <1>15. CASE DrawGate
    BY <1>15 DEF DrawGate, TypeOK, holds, lottery
  <1>16. QED
    BY <1>1, <1>2, <1>3, <1>4, <1>5, <1>6, <1>7, <1>8, <1>9, <1>10, <1>11, <1>12, <1>13, <1>14, <1>15
    DEF Next, UnitStep

-----------------------------------------------------------------------------
(* One unit, one contract.                                                 *)

\* What a step does to contracts and winners leaves them naming units.
LEMMA PlacedStep == ASSUME IInv, [Next]_vars PROVE Placed'
  <1> USE DEF IInv
  <1>1. ASSUME NEW s \in Staff, NEW u \in Units, NEW c \in Contracts, CreateContract(s, u, c)
        PROVE  Placed'
    BY <1>1 DEF CreateContract, Placed, TypeOK, subscription
  <1>2. ASSUME NEW s \in Staff, NEW c \in Contracts, SignContract(s, c) \/ CancelContract(s, c)
        PROVE  Placed'
    BY <1>2 DEF SignContract, CancelContract, Active, Placed, TypeOK, ContractRow, subscription
  <1>3. CASE RunDraw
    <2>1. PICK W \in SUBSET Apps : \E seat \in [W -> Available] : Seated(W, seat)
      BY <1>3 DEF RunDraw
    <2>2. PICK seat \in [W -> Available] : Seated(W, seat)
      BY <2>1
    <2>3. \A a \in Apps : winner'[a].status = "NOTIFIED" => winner'[a].unit \in Units
      BY <2>2 DEF Seated, Placed, TypeOK, Available
    <2>4. QED
      BY <1>3, <2>3 DEF RunDraw, Placed
  <1>4. ASSUME NEW s \in Staff, NEW u \in Units, PromoteReserve(s, u) PROVE Placed'
    <2> DEFINE left == [a \in Apps |-> IF a \in Occupants(u)
                                       THEN [winner[a] EXCEPT !.status = "FORFEITED"]
                                       ELSE winner[a]]
    <2>1. \A a \in Apps : left[a].status = "NOTIFIED" => left[a].unit \in Units
      BY DEF Placed, TypeOK, WinnerRow
    <2>2. \A a \in Apps : winner'[a].status = "NOTIFIED" => winner'[a].unit \in Units
      <3>1. left \in [Apps -> WinnerRow]
        BY DEF TypeOK, WinnerRow
      <3>2. \/ \E a \in queue : winner' = [left EXCEPT ![a] = [unit |-> u, status |-> "NOTIFIED"]]
            \/ winner' = left
        BY <1>4 DEF PromoteReserve
      <3> HIDE DEF left
      <3>3. QED
        BY <2>1, <3>1, <3>2
    <2>3. QED
      BY <1>4, <2>2 DEF PromoteReserve, Placed
  <1>5. CASE UNCHANGED <<contract, winner>>
    BY <1>5 DEF Placed
  <1>6. QED
    BY <1>1, <1>2, <1>3, <1>4, <1>5
    DEF Next, UnitStep, vars, subscription, Expire, ClaimOffer, AtomicHold, AtomicRelease,
        AtomicReserve, UnitAction, ShareToken, DrawGate, DrawBegin, DrawTake, DrawFail

\* Contracts are created where no other is active, and end for good.
LEMMA OneContractStep == ASSUME IInv, [Next]_vars PROVE OneContract'
  <1> USE DEF IInv
  <1>1. ASSUME NEW s \in Staff, NEW u \in Units, NEW c \in Contracts, CreateContract(s, u, c)
        PROVE  OneContract'
    BY <1>1 DEF CreateContract, ContractFits, UnderContract, Active, OneContract, TypeOK
  <1>2. ASSUME NEW s \in Staff, NEW c \in Contracts, SignContract(s, c) \/ CancelContract(s, c)
        PROVE  OneContract'
    BY <1>2 DEF SignContract, CancelContract, Active, OneContract, TypeOK, ContractRow
  <1>3. CASE UNCHANGED contract
    BY <1>3 DEF OneContract, Active
  <1>4. QED
    BY <1>1, <1>2, <1>3
    DEF Next, UnitStep, vars, Expire, ClaimOffer, AtomicHold, AtomicRelease, AtomicReserve,
        UnitAction, PromoteReserve, ShareToken, DrawGate, RunDraw, DrawBegin, DrawTake, DrawFail

\* Rows are well formed and no unit has two active contracts, whatever the menu
\* of a unit and the reserve queue do to its status: Spec => []IInv.
THEOREM Invariance == Spec => []IInv
  <1>1. Init => IInv
    BY InitOK DEF DeskInv
  <1>2. IInv /\ [Next]_vars => IInv'
    BY TypeStep, PlacedStep, OneContractStep DEF IInv
  <1>3. QED
    BY <1>1, <1>2, PTL DEF Spec

\* Rows and requests stay well formed, tokens are issued once: Spec => []TypeOK.
THEOREM UnitsTyped == Spec => []TypeOK
  <1>1. IInv => TypeOK
    BY DEF IInv
  <1>2. QED
    BY <1>1, Invariance, PTL

\* "One unit, one contract": Spec => []OneContract.
THEOREM ContractsApart == Spec => []OneContract
  <1>1. IInv => OneContract
    BY DEF IInv
  <1>2. QED
    BY <1>1, Invariance, PTL

-----------------------------------------------------------------------------
(* One unit, one winner.                                                   *)

\* Until the announcement is drawn nobody has won and nobody is in reserve.
Undrawn == announced # {} \/ seating => queue = {} /\ \A a \in Apps : winner[a].status # "NOTIFIED"
WinInv  == IInv /\ Undrawn /\ OneWinner

\* Every step keeps one winner per unit.
LEMMA WinStep == ASSUME WinInv, [Next]_vars PROVE Undrawn' /\ OneWinner'
  <1> USE DEF WinInv, IInv
  <1>1. CASE RunDraw
    <2>1. PICK W \in SUBSET Apps : \E seat \in [W -> Available] :
               (\A a, b \in W : a # b => seat[a] # seat[b]) /\ Seated(W, seat)
      BY <1>1 DEF RunDraw
    <2>2. PICK seat \in [W -> Available] :
               (\A a, b \in W : a # b => seat[a] # seat[b]) /\ Seated(W, seat)
      BY <2>1
    <2>3. \A a \in Apps : winner[a].status # "NOTIFIED"
      BY <1>1 DEF RunDraw, Undrawn
    <2>4. \A a \in Apps : winner'[a].status = "NOTIFIED" => a \in W /\ winner'[a].unit = seat[a]
      <3> SUFFICES ASSUME NEW a \in Apps, winner'[a].status = "NOTIFIED"
                   PROVE  a \in W /\ winner'[a].unit = seat[a]
        OBVIOUS
      <3>1. CASE a \in W
        BY <2>2, <3>1 DEF Seated
      <3>2. CASE a \notin W
        BY <2>2, <2>3, <3>2 DEF Seated
      <3>3. QED
        BY <3>1, <3>2
    <2>5. OneWinner'
      BY <2>2, <2>4 DEF OneWinner, Occupants
    <2>6. Undrawn'
      BY <1>1 DEF RunDraw, Undrawn
    <2>7. QED
      BY <2>5, <2>6
  <1>2. ASSUME NEW s \in Staff, NEW u \in Units, PromoteReserve(s, u)
        PROVE  Undrawn' /\ OneWinner'
    <2> DEFINE left == [a \in Apps |-> IF a \in Occupants(u)
                                       THEN [winner[a] EXCEPT !.status = "FORFEITED"]
                                       ELSE winner[a]]
    <2>1. announced = {} /\ ~seating
      BY <1>2 DEF PromoteReserve, Undrawn, Occupants
    <2>2. Undrawn'
      BY <1>2, <2>1 DEF PromoteReserve, Undrawn
    <2>3. \A a \in Apps : left[a].status = "NOTIFIED" => left[a] = winner[a] /\ winner[a].unit # u
      BY DEF Occupants, TypeOK, WinnerRow
    <2>4. left \in [Apps -> WinnerRow]
      BY DEF TypeOK, WinnerRow
    <2>5. \/ \E a \in queue : winner' = [left EXCEPT ![a] = [unit |-> u, status |-> "NOTIFIED"]]
          \/ winner' = left
      BY <1>2 DEF PromoteReserve
    <2> HIDE DEF left
    <2>6. CASE winner' = left
      BY <2>2, <2>3, <2>6 DEF OneWinner, Occupants
    <2>7. ASSUME NEW b \in queue, winner' = [left EXCEPT ![b] = [unit |-> u, status |-> "NOTIFIED"]]
          PROVE  OneWinner'
      <3>1. \A a \in Apps : a # b => winner'[a] = left[a]
        BY <2>4, <2>7
      <3>2. winner'[b].unit = u
        BY <2>4, <2>7 DEF TypeOK
      <3>3. QED
        BY <2>3, <3>1, <3>2 DEF OneWinner, Occupants
    <2>8. QED
      BY <2>2, <2>5, <2>6, <2>7
  <1>3. CASE DrawGate
    BY <1>3 DEF DrawGate, Undrawn, OneWinner, Occupants
  <1>4. CASE UNCHANGED subscription
    BY <1>4 DEF subscription, Undrawn, OneWinner, Occupants
  <1>5. QED
    BY <1>1, <1>2, <1>3, <1>4
    DEF Next, UnitStep, vars, subscription, Expire, ClaimOffer, AtomicHold, AtomicRelease,
        AtomicReserve, UnitAction, CreateContract, SignContract, CancelContract, ShareToken,
        DrawBegin, DrawTake, DrawFail

\* "One unit, one winner": the draw seats nobody twice and a reserve takes a unit
\* only after its winner has forfeited: Spec => []OneWinner.
THEOREM WinnersApart == Spec => []OneWinner
  <1>1. Init => WinInv
    <2>1. ASSUME Init PROVE Undrawn /\ OneWinner
      BY <2>1 DEF Init, Undrawn, OneWinner, Occupants, NoWinner
    <2>2. QED
      BY <2>1, InitOK DEF WinInv, DeskInv
  <1>2. WinInv /\ [Next]_vars => WinInv'
    BY TypeStep, PlacedStep, OneContractStep, WinStep DEF WinInv, IInv
  <1>3. WinInv => OneWinner
    BY DEF WinInv
  <1>4. QED
    BY <1>1, <1>2, <1>3, PTL DEF Spec

-----------------------------------------------------------------------------
(* Without the menu: what contracts, winners and holders have is theirs.   *)

\* Units that are neither applied for nor under contract may change status.
LEMMA OthersUntouched ==
  ASSUME DeskInv, UNCHANGED <<contract, winner>>,
         \A u \in Units : unit'[u].status = unit[u].status \/ unit[u].status \in {"AVAILABLE", "HOLD"}
  PROVE  ContractHoldsUnit' /\ WinnerHoldsUnit'
  <1>1. ContractHoldsUnit'
    BY DEF DeskInv, IInv, Placed, ContractHoldsUnit, Active
  <1>2. WinnerHoldsUnit'
    BY DEF DeskInv, IInv, Placed, WinnerHoldsUnit
  <1>3. QED
    BY <1>1, <1>2

\* A request that writes the status of one unit it found available or held.
LEMMA OneUnitStatus ==
  ASSUME TypeOK, NEW u \in Units, NEW st, NEW s, unit[u].status \in {"AVAILABLE", "HOLD"},
         unit' = SetStatus(u, st, s) \/ unit' = SetFree(u, st, s)
  PROVE  \A v \in Units : unit'[v].status = unit[v].status \/ unit[v].status \in {"AVAILABLE", "HOLD"}
  <1>1. \A v \in Units : v # u => unit'[v] = unit[v]
    BY DEF SetStatus, SetFree, TypeOK
  <1>2. QED
    BY <1>1

\* No request but the menu takes what a contract or a winner has.
LEMMA UnitsDeskStep ==
  ASSUME DeskInv, [Next]_vars, "menu" \notin Events
  PROVE  ContractHoldsUnit' /\ WinnerHoldsUnit'
  <1> USE DEF DeskInv, IInv
  <1> DEFINE Quiet == /\ UNCHANGED <<contract, winner>>
                      /\ \A u \in Units : \/ unit'[u].status = unit[u].status
                                          \/ unit[u].status \in {"AVAILABLE", "HOLD"}
  <1>1. CASE UNCHANGED vars \/ DrawGate \/ \E s, r \in Staff : ShareToken(s, r)
    <2>1. Quiet
      BY <1>1 DEF vars, DrawGate, ShareToken, subscription
    <2>2. QED
      BY <2>1, OthersUntouched
  <1>2. ASSUME NEW u \in Units, Expire(u) PROVE ContractHoldsUnit' /\ WinnerHoldsUnit'
    <2>1. Quiet
      BY <1>2 DEF Expire, TypeOK, UnitRow, subscription
    <2>2. QED
      BY <2>1, OthersUntouched
  <1>3. ASSUME NEW u \in Units, NEW s \in Staff, AtomicRelease(s, u) \/ AtomicReserve(s, u)
        PROVE  ContractHoldsUnit' /\ WinnerHoldsUnit'
    <2>1. Quiet
      BY <1>3, OneUnitStatus DEF AtomicRelease, AtomicReserve, Held, subscription
    <2>2. QED
      BY <2>1, OthersUntouched
  <1>4. ASSUME NEW u \in Units, ClaimOffer(u) PROVE ContractHoldsUnit' /\ WinnerHoldsUnit'
    <2>1. Quiet
      BY <1>4, OneUnitStatus DEF ClaimOffer, subscription
    <2>2. QED
      BY <2>1, OthersUntouched
  <1>5. ASSUME NEW u \in Units, NEW s \in Staff, AtomicHold(s, u)
        PROVE  ContractHoldsUnit' /\ WinnerHoldsUnit'
    <2>1. \A v \in Units : v # u => unit'[v] = unit[v]
      BY <1>5 DEF AtomicHold, TypeOK
    <2>2. Quiet
      BY <1>5, <2>1 DEF AtomicHold, Holdable, subscription
    <2>3. QED
      BY <2>2, OthersUntouched
  <1>6. ASSUME NEW q \in Draws, DrawTake(q) \/ DrawFail(q)
        PROVE  ContractHoldsUnit' /\ WinnerHoldsUnit'
    <2>1. Quiet
      BY <1>6, OneUnitStatus DEF DrawTake, DrawFail, Remaining, Available, subscription
    <2>2. QED
      BY <2>1, OthersUntouched
  <1>7. ASSUME NEW q \in Draws, NEW d \in Candidates, DrawBegin(q, d)
        PROVE  ContractHoldsUnit' /\ WinnerHoldsUnit'
    <2>1. Quiet
      BY <1>7 DEF DrawBegin, subscription
    <2>2. QED
      BY <2>1, OthersUntouched
  <1>8. ASSUME NEW s \in Staff, NEW u \in Units, NEW c \in Contracts, CreateContract(s, u, c)
        PROVE  ContractHoldsUnit' /\ WinnerHoldsUnit'
    <2>1. unit[u].status \in {"AVAILABLE", "HOLD"} /\ unit'[u].status = "RESERVED"
      BY <1>8 DEF CreateContract, MayContract, SetFree, TypeOK
    <2>2. \A v \in Units : v # u => unit'[v] = unit[v]
      BY <1>8 DEF CreateContract, SetFree, TypeOK
    <2>3. \A e \in Contracts : e # c => contract'[e] = contract[e]
      BY <1>8 DEF CreateContract, TypeOK
    <2>4. contract'[c].unit = u
      BY <1>8 DEF CreateContract, TypeOK
    <2>5. ContractHoldsUnit'
      BY <2>1, <2>2, <2>3, <2>4 DEF ContractHoldsUnit, Active, Placed
    <2>6. WinnerHoldsUnit'
      BY <1>8, <2>1, <2>2 DEF CreateContract, WinnerHoldsUnit, Placed, subscription
    <2>7. QED
      BY <2>5, <2>6
  <1>9. ASSUME NEW s \in Staff, NEW c \in Contracts, SignContract(s, c) \/ CancelContract(s, c)
        PROVE  ContractHoldsUnit' /\ WinnerHoldsUnit'
    <2> DEFINE u == contract[c].unit
    <2>1. Active(c) /\ u \in Units
      BY <1>9 DEF SignContract, CancelContract, Active, Placed
    <2>2. \A v \in Units : v # u => unit'[v] = unit[v]
      BY <1>9 DEF SignContract, CancelContract, SetStatus, TypeOK
    <2>3. unit[u].status # "APPLIED"
      BY <2>1 DEF ContractHoldsUnit
    <2>4. \A e \in Contracts : /\ e # c => contract'[e] = contract[e]
                               /\ contract'[e].unit = contract[e].unit
      BY <1>9 DEF SignContract, CancelContract, TypeOK, ContractRow
    <2>5. \A e \in Contracts : e # c /\ Active(e) => contract[e].unit # u
      BY <2>1 DEF OneContract
    <2>6. SignContract(s, c) => unit'[u].status = "CONTRACTED"
      BY <2>1 DEF SignContract, SetStatus, TypeOK, UnitRow
    <2>7. CancelContract(s, c) => contract'[c].stage = "CANCELLED"
      BY DEF CancelContract, TypeOK, ContractRow
    <2>8. ContractHoldsUnit'
      BY <1>9, <2>2, <2>4, <2>5, <2>6, <2>7 DEF ContractHoldsUnit, Active, Placed
    <2>9. WinnerHoldsUnit'
      BY <1>9, <2>2, <2>3 DEF SignContract, CancelContract, WinnerHoldsUnit, Placed, subscription
    <2>10. QED
      BY <2>8, <2>9
  <1>10. CASE RunDraw
    <2>1. PICK W \in SUBSET Apps : \E seat \in [W -> Available] : Seated(W, seat)
      BY <1>10 DEF RunDraw
    <2>2. PICK seat \in [W -> Available] : Seated(W, seat)
      BY <2>1
    <2>3. \A u \in Units : \/ unit'[u] = unit[u]
                           \/ unit[u].status = "AVAILABLE" /\ unit'[u].status = "APPLIED"
      <3>1. Seats(W, seat) \subseteq Available
        BY <2>2 DEF Seats
      <3>2. ASSUME NEW u \in Units, u \in Seats(W, seat)
            PROVE  unit[u].status = "AVAILABLE" /\ unit'[u].status = "APPLIED"
        BY <2>2, <3>1, <3>2 DEF Seated, Available, TypeOK, UnitRow
      <3>3. ASSUME NEW u \in Units, u \notin Seats(W, seat)
            PROVE  unit'[u] = unit[u]
        BY <2>2, <3>3 DEF Seated
      <3>4. SUFFICES ASSUME NEW u \in Units
                     PROVE  \/ unit'[u] = unit[u]
                            \/ unit[u].status = "AVAILABLE" /\ unit'[u].status = "APPLIED"
        OBVIOUS
      <3>5. CASE u \in Seats(W, seat)
        BY <3>2, <3>5
      <3>6. CASE u \notin Seats(W, seat)
        BY <3>3, <3>6
      <3>7. QED
        BY <3>5, <3>6
    <2>4. ContractHoldsUnit'
      BY <1>10, <2>3 DEF RunDraw, ContractHoldsUnit, Active, Placed
    <2>5. \A a \in W : winner'[a].unit = seat[a] /\ seat[a] \in Seats(W, seat)
      BY <2>2 DEF Seated, Seats
    <2>6. \A a \in Apps \ W : winner'[a] = winner[a]
      BY <2>2 DEF Seated
    <2>7. \A u \in Units : u \in Seats(W, seat) => unit'[u].status = "APPLIED"
      BY <2>2 DEF Seated, TypeOK, UnitRow
    <2>8. \A u \in Seats(W, seat) : u \in Units
      BY <2>2 DEF Seats, Available
    <2>9. WinnerHoldsUnit'
      BY <2>3, <2>5, <2>6, <2>7, <2>8 DEF WinnerHoldsUnit, Placed
    <2>10. QED
      BY <2>4, <2>9
  <1>11. ASSUME NEW s \in Staff, NEW u \in Units, PromoteReserve(s, u)
         PROVE  ContractHoldsUnit' /\ WinnerHoldsUnit'
    <2>1. unit[u].status \in {"APPLIED", "AVAILABLE"}
      BY <1>11 DEF PromoteReserve, Promotable, Occupants, WinnerHoldsUnit
    <2>2. \A v \in Units : v # u => unit'[v] = unit[v]
      BY <1>11 DEF PromoteReserve, SetStatus, TypeOK
    <2>3. ContractHoldsUnit'
      BY <1>11, <2>1, <2>2 DEF PromoteReserve, ContractHoldsUnit, Active, Placed
    <2> DEFINE left == [a \in Apps |-> IF a \in Occupants(u)
                                       THEN [winner[a] EXCEPT !.status = "FORFEITED"]
                                       ELSE winner[a]]
    <2>4. \A a \in Apps : left[a].status = "NOTIFIED" => left[a] = winner[a] /\ winner[a].unit # u
      BY DEF Occupants, TypeOK, WinnerRow
    <2>5. left \in [Apps -> WinnerRow]
      BY DEF TypeOK, WinnerRow
    <2>6. \/ \E a \in queue : /\ winner' = [left EXCEPT ![a] = [unit |-> u, status |-> "NOTIFIED"]]
                              /\ unit' = SetStatus(u, "APPLIED", s)
          \/ winner' = left
      BY <1>11 DEF PromoteReserve
    <2> HIDE DEF left
    <2>7. CASE winner' = left
      BY <2>2, <2>4, <2>7, <2>3 DEF WinnerHoldsUnit, Placed
    <2>8. CASE \E a \in queue : /\ winner' = [left EXCEPT ![a] = [unit |-> u, status |-> "NOTIFIED"]]
                               /\ unit' = SetStatus(u, "APPLIED", s)
      <3>1. unit'[u].status = "APPLIED"
        BY <2>8 DEF SetStatus, TypeOK, UnitRow
      <3>2. \A a \in Apps : \/ winner'[a] = left[a]
                             \/ winner'[a].unit = u
        BY <2>8, <2>5
      <3>3. QED
        BY <2>2, <2>3, <2>4, <3>1, <3>2 DEF WinnerHoldsUnit, Placed
    <2>9. QED
      BY <2>6, <2>7, <2>8
  <1>12. QED
    BY <1>1, <1>2, <1>3, <1>4, <1>5, <1>6, <1>7, <1>8, <1>9, <1>10, <1>11
    DEF Next, UnitStep, UnitAction

\* While the menu of a unit is not used, every step keeps both statements about
\* units that are taken: neither is inductive without the other.
LEMMA DeskInvariance ==
  ASSUME "menu" \notin Events
  PROVE  Spec => []DeskInv
  <1>1. Init => DeskInv
    BY InitOK
  <1>2. DeskInv /\ [Next]_vars => DeskInv'
    BY TypeStep, PlacedStep, OneContractStep, UnitsDeskStep DEF DeskInv, IInv
  <1>3. QED
    BY <1>1, <1>2, PTL DEF Spec

\* While the menu of a unit is not used, the unit of an active contract stays
\* taken, through cancellations of others' contracts, promotions and both draws.
THEOREM DeskKept ==
  ASSUME "menu" \notin Events
  PROVE  Spec => []ContractHoldsUnit
  <1>1. DeskInv => ContractHoldsUnit
    BY DEF DeskInv
  <1>2. QED
    BY <1>1, DeskInvariance, PTL

\* And the unit of a winner who was told and has not forfeited stays applied for.
THEOREM WinnersKept ==
  ASSUME "menu" \notin Events
  PROVE  Spec => []WinnerHoldsUnit
  <1>1. DeskInv => WinnerHoldsUnit
    BY DEF DeskInv
  <1>2. QED
    BY <1>1, DeskInvariance, PTL

\* What a step may do to a unit that is held in time.
LEMMA HoldStep ==
  ASSUME DeskInv, [Next]_vars, "menu" \notin Events,
         NEW u \in Units, Held(u), unit'[u] # unit[u]
  PROVE  \/ unit'[u].expiry = "past"
         \/ unit'[u].by = unit[u].heldBy
         \/ <<u, unit[u].token>> \in UNION {knows[s] : s \in {unit'[u].by} \ {None}}
  <1> USE DEF DeskInv, IInv
  <1> DEFINE Kept == \/ unit'[u].expiry = "past"
                     \/ unit'[u].by = unit[u].heldBy
                     \/ <<u, unit[u].token>> \in UNION {knows[s] : s \in {unit'[u].by} \ {None}}
  <1>1. unit[u].status = "HOLD"
    BY DEF Held
  <1>2. ASSUME NEW v \in Units, Expire(v) PROVE Kept
    BY <1>2 DEF Expire, TypeOK, UnitRow
  <1>3. ASSUME NEW v \in Units, NEW s \in Staff, AtomicRelease(s, v) \/ AtomicReserve(s, v)
        PROVE  Kept
    BY <1>3 DEF AtomicRelease, AtomicReserve, SetFree, TypeOK
  <1>4. ASSUME NEW v \in Units, NEW s \in Staff, NEW c \in Contracts, CreateContract(s, v, c)
        PROVE  Kept
    <2>1. v = u
      BY <1>4 DEF CreateContract, SetFree, TypeOK
    <2>2. unit'[u].by = s /\ s # None
      BY <1>4, <2>1, InstanceAssumption DEF CreateContract, SetFree, TypeOK
    <2>3. unit[u].heldBy = s \/ unit[u].token \in Tokens(s, u)
      BY <1>1, <1>4, <2>1 DEF CreateContract, MayContract, Held
    <2>4. QED
      BY <2>2, <2>3 DEF Tokens
  <1>5. ASSUME NEW s \in Staff, NEW c \in Contracts, SignContract(s, c) \/ CancelContract(s, c)
        PROVE  FALSE
    <2>1. Active(c) /\ contract[c].unit # u
      BY <1>1, <1>5 DEF SignContract, CancelContract, Active, ContractHoldsUnit
    <2>2. QED
      BY <1>5, <2>1 DEF SignContract, CancelContract, SetStatus, TypeOK
  <1>6. CASE RunDraw
    <2>1. PICK W \in SUBSET Apps : \E seat \in [W -> Available] : Seated(W, seat)
      BY <1>6 DEF RunDraw
    <2>2. PICK seat \in [W -> Available] : Seated(W, seat)
      BY <2>1
    <2>3. u \notin Seats(W, seat)
      BY <1>1, <2>2 DEF Seats, Available
    <2>4. QED
      BY <2>2, <2>3 DEF Seated
  <1>7. ASSUME NEW v \in Units, NEW s \in Staff, PromoteReserve(s, v) PROVE FALSE
    <2>1. unit[v].status \in {"APPLIED", "AVAILABLE"}
      BY <1>7 DEF PromoteReserve, Promotable, Occupants, WinnerHoldsUnit
    <2>2. QED
      BY <1>1, <1>7, <2>1 DEF PromoteReserve, SetStatus, TypeOK
  <1>8. ASSUME NEW v \in Units, NEW s \in Staff, AtomicHold(s, v) PROVE FALSE
    BY <1>1, <1>8 DEF AtomicHold, Holdable, Held, TypeOK
  <1>9. ASSUME NEW v \in Units, ClaimOffer(v) PROVE FALSE
    BY <1>1, <1>9 DEF ClaimOffer, SetStatus, TypeOK
  <1>10. ASSUME NEW q \in Draws, DrawTake(q) PROVE FALSE
    BY <1>1, <1>10 DEF DrawTake, Remaining, Available, SetStatus, TypeOK
  <1>11. QED
    BY <1>2, <1>3, <1>4, <1>5, <1>6, <1>7, <1>8, <1>9, <1>10
    DEF Next, UnitStep, UnitAction, vars, ShareToken, DrawGate, DrawBegin, DrawFail

\* While the menu of a unit is not used, nobody but the holder, or who was shown
\* the hold's token, changes a unit that is held in time: Spec => HoldIsKept.
THEOREM HoldersKept ==
  ASSUME "menu" \notin Events
  PROVE  Spec => HoldIsKept
  <1>1. DeskInv /\ [Next]_vars =>
          [\A u \in Units :
             Held(u) /\ unit'[u] # unit[u] =>
                \/ unit'[u].expiry = "past"
                \/ unit'[u].by = unit[u].heldBy
                \/ <<u, unit[u].token>> \in UNION {knows[s] : s \in {unit'[u].by} \ {None}}]_vars
    BY HoldStep
  <1>2. QED
    BY <1>1, DeskInvariance, PTL DEF Spec, HoldIsKept

=============================================================================
