----------------------------- MODULE Apart_proofs -----------------------------
(***************************************************************************)
(* Proofs about the usage meter (UsageMeter) and the parcel batches        *)
(* (ParcelBatch), which share nothing, and about the six components of     *)
(* MCApart beside each other.                                              *)
(***************************************************************************)
EXTENDS MCApart, ParcelBatch, Contracts_proofs, DrawEvidence_proofs

-----------------------------------------------------------------------------
(***************************************************************************)
(* Proofs about UsageMeter, for any calls, costs, included amount, quota   *)
(* and bounds.  What one step draws is computed from an older row, so the  *)
(* inductive invariant says how old a row a call may hold: until a reset   *)
(* passes under it, it has read no more billed than the row has now, and   *)
(* the included amount the row has now.                                    *)
(***************************************************************************)

\* A call's row is not ahead of the user's.
ViewsBehind ==
    ~stale => \A c \in Uses :
        /\ HasRead(c) => view[c].billed <= user.billed
        /\ use[c] = "record" => view[c].base = Included /\ user.base = Included

\* Nothing is drawn before the included amount is assigned.
DrawnWithBase == ~stale /\ user.base = 0 => drawn = 0

MeterInv == MeterTypeOK /\ ViewsBehind /\ DrawnWithBase /\ NeverOverdrawn

-----------------------------------------------------------------------------
(* Arithmetic.                                                             *)

\* max(0, n) is an amount, and does not fall when n grows.
LEMMA PastIsAmount ==
  /\ \A n \in Int : Past(n) \in Nat /\ Past(n) >= n
  /\ \A m, n \in Int : m <= n => Past(m) <= Past(n)
  BY DEF Past

\* A use draws at most what it adds beyond the included amount, when the amount
\* billed that it has read is not above the one it adds to.
LEMMA DrawIsBounded ==
  ASSUME NEW old \in Nat, NEW now \in Nat, NEW n \in Nat, NEW base \in Nat, old <= now
  PROVE  /\ Past(old + n - base) - Past(old - base) \in Nat
         /\ Past(now - base) + (Past(old + n - base) - Past(old - base)) <= Past(now + n - base)
  BY DEF Past

-----------------------------------------------------------------------------
(* Types.                                                                  *)

\* What a user's row holds, field by field.
LEMMA RowFields ==
  ASSUME NEW row \in UserRows
  PROVE  /\ row.tier \in Tiers /\ row.billed \in Nat /\ row.base \in {0, Included}
         /\ row.topup \in Nat /\ row.cycle \in Nat /\ row.count \in 0..Quota
  BY DEF UserRows

\* A call's variables are well formed, and so is what it leaves when it returns.
LEMMA UseFields ==
  ASSUME MeterTypeOK, NEW c \in Uses
  PROVE  view[c] \in UserRows /\ cost[c] \in Nat /\ month \in Nat
  <1>1. view \in [Uses -> UserRows] /\ cost \in [Uses -> Costs \cup {0}] /\ month \in 1..MaxMonths
    BY DEF MeterTypeOK
  <1>2. cost[c] \in Costs \cup {0}
    BY <1>1
  <1>3. month \in Nat
    BY <1>1, MeterAssumption
  <1>4. cost[c] \in Nat
    <2>1. \A n \in Costs : n \in Nat
      BY MeterAssumption, Zenon
    <2> QED
      BY <1>2, <2>1
  <1>5. view[c] \in UserRows
    BY <1>1
  <1> QED
    BY <1>3, <1>4, <1>5

\* The variables of a call that has returned.
LEMMA NoViewIsRow == NoView \in UserRows
  BY MeterAssumption DEF NoView, UserRows, Tiers

\* A call that returns leaves every call's variables well formed, holds no row of
\* its own any more, and changes no other call.
LEMMA ReturnTypes ==
  ASSUME MeterTypeOK, NEW c \in Uses, Returns(c)
  PROVE  /\ use' \in [Uses -> {"idle", "roll", "assign", "record", "count", "pay", "done"}]
         /\ view' \in [Uses -> UserRows]
         /\ cost' \in [Uses -> Costs \cup {0}]
         /\ use'[c] = "done"
         /\ \A d \in Uses \ {c} : use'[d] = use[d] /\ view'[d] = view[d]
  BY NoViewIsRow DEF MeterTypeOK, Returns

\* What a use draws is an amount.
LEMMA DrawIsAmount ==
  ASSUME MeterTypeOK, NEW c \in Uses
  PROVE  Draw(c) \in Nat
  <1>1. view[c].billed \in Nat /\ view[c].base \in Nat /\ cost[c] \in Nat
    BY UseFields, RowFields, MeterAssumption
  <1> QED
    BY <1>1 DEF Draw, Past

-----------------------------------------------------------------------------
(* The steps.                                                              *)

\* Only the user's row matters to the calls' rows when no call changes.
LEMMA ViewsKept ==
  ASSUME MeterInv, UNCHANGED <<use, view>>, stale' = stale,
         user'.billed = user.billed, user'.base = user.base
  PROVE  ViewsBehind'
  BY DEF MeterInv, ViewsBehind, HasRead

\* The start.
LEMMA MeterInitHolds == MeterInit => MeterInv
  <1> SUFFICES ASSUME MeterInit PROVE MeterInv
    OBVIOUS
  <1>1. user \in UserRows /\ user.billed = 0 /\ user.topup = 0
    BY MeterAssumption DEF MeterInit, UserRows, Tiers
  <1>2. MeterTypeOK
    <2>1. view \in [Uses -> UserRows] /\ cost \in [Uses -> Costs \cup {0}]
      BY NoViewIsRow DEF MeterInit
    <2>2. use \in [Uses -> {"idle", "roll", "assign", "record", "count", "pay", "done"}]
      BY DEF MeterInit
    <2>3. month \in 1..MaxMonths
      BY MeterAssumption DEF MeterInit
    <2>4. drawn \in Nat /\ spent \in Nat /\ bought \in 0..MaxBought /\ switched \in 0..MaxTierChanges
      <3>1. drawn = 0 /\ spent = 0 /\ bought = 0 /\ switched = 0
        BY DEF MeterInit
      <3> QED
        BY <3>1, MeterAssumption
    <2>5. stale \in BOOLEAN
      BY Zenon DEF MeterInit
    <2> QED
      BY <1>1, <2>1, <2>2, <2>3, <2>4, <2>5, Zenon DEF MeterTypeOK
  <1>3. ViewsBehind
    BY DEF MeterInit, ViewsBehind, HasRead
  <1>4. NeverOverdrawn
    <2>1. user.base \in Nat
      BY <1>1, RowFields, MeterAssumption
    <2> QED
      BY <1>1, <2>1 DEF NeverOverdrawn, MeterInit, Past
  <1> QED
    BY <1>2, <1>3, <1>4 DEF MeterInv, DrawnWithBase, MeterInit

\* ensure_cycle reads.
LEMMA UseReadsKeeps ==
  ASSUME MeterInv, NEW c \in Uses, UseReads(c)
  PROVE  MeterInv'
  <1>0. MeterTypeOK /\ user \in UserRows
    BY DEF MeterInv, MeterTypeOK
  <1>1. DrawnWithBase' /\ NeverOverdrawn'
    BY DEF MeterInv, DrawnWithBase, NeverOverdrawn, UseReads
  <1>2. CASE user.tier # "metered"
    <2>1. Returns(c)
      BY <1>2 DEF UseReads
    <2>2. MeterTypeOK'
      BY <1>0, <2>1, ReturnTypes DEF MeterTypeOK, UseReads
    <2>3. ViewsBehind'
      BY <1>0, <2>1, ReturnTypes DEF MeterInv, ViewsBehind, HasRead, UseReads
    <2> QED
      BY <1>1, <2>2, <2>3 DEF MeterInv
  <1>3. CASE user.tier = "metered"
    <2> DEFINE row == [user EXCEPT !.cycle = month]
    <2>1. row \in UserRows /\ row.billed = user.billed /\ row.base = user.base
      BY <1>0, UseFields DEF UserRows
    <2>2. view' = [view EXCEPT ![c] = row]
      BY <1>3 DEF UseReads
    <2>3. use' \in [Uses -> {"idle", "roll", "assign", "record", "count", "pay", "done"}]
      BY <1>0, <1>3 DEF UseReads, MeterTypeOK
    <2>4. cost' \in [Uses -> Costs \cup {0}]
      BY <1>0, <1>3 DEF UseReads, MeterTypeOK
    <2>5. view' \in [Uses -> UserRows]
      BY <1>0, <2>1, <2>2 DEF MeterTypeOK
    <2>6. MeterTypeOK'
      BY <1>0, <2>3, <2>4, <2>5 DEF MeterTypeOK, UseReads
    <2>7. use'[c] = "record" => user.base = Included
      BY <1>0, <1>3, RowFields DEF UseReads, MeterTypeOK
    <2>8. \A d \in Uses \ {c} : use'[d] = use[d] /\ view'[d] = view[d]
      BY <1>0, <1>3, <2>2 DEF UseReads, MeterTypeOK
    <2>9. view'[c] = row /\ user' = user /\ stale' = stale
      BY <1>0, <2>2 DEF UseReads, MeterTypeOK
    <2>10. row.billed <= user.billed
      BY <1>0, <2>1, RowFields
    <2>11. ViewsBehind'
      BY <2>1, <2>7, <2>8, <2>9, <2>10 DEF MeterInv, ViewsBehind, HasRead
    <2> QED
      BY <1>1, <2>6, <2>11 DEF MeterInv
  <1> QED
    BY <1>2, <1>3

\* ensure_cycle starts a new month: every other call that has read is stale now.
LEMMA UseRollsKeeps ==
  ASSUME MeterInv, NEW c \in Uses, UseRolls(c)
  PROVE  MeterInv'
  <1> DEFINE rolled(row) == Rolled(c, row)
  <1>0. MeterTypeOK /\ user \in UserRows /\ view[c] \in UserRows /\ view[c].cycle \in Nat
    BY UseFields, RowFields DEF MeterInv, MeterTypeOK
  <1>1. \A row \in UserRows : /\ rolled(row) \in UserRows /\ rolled(row).billed = 0
                              /\ rolled(row).base = Included /\ rolled(row).topup = row.topup
    BY <1>0 DEF Rolled, UserRows
  <1>2. user' = rolled(user) /\ view' = [view EXCEPT ![c] = rolled(view[c])]
    BY DEF UseRolls
  <1>3. view' \in [Uses -> UserRows]
    BY <1>0, <1>1, <1>2 DEF MeterTypeOK
  <1>4. use' \in [Uses -> {"idle", "roll", "assign", "record", "count", "pay", "done"}]
    BY <1>0 DEF UseRolls, MeterTypeOK
  <1>5. stale' \in BOOLEAN
    BY <1>0 DEF UseRolls, MeterTypeOK
  <1>6. user' \in UserRows
    BY <1>0, <1>1, <1>2
  <1>7. MeterTypeOK'
    BY <1>0, <1>3, <1>4, <1>5, <1>6 DEF MeterTypeOK, UseRolls
  <1>8. ViewsBehind'
    <2>1. view'[c].billed = 0 /\ view'[c].base = Included /\ user'.billed = 0 /\ user'.base = Included
      BY <1>0, <1>1, <1>2 DEF MeterTypeOK
    <2>2. ~stale' => \A d \in Uses \ {c} : ~HasRead(d)
      BY DEF UseRolls
    <2>3. \A d \in Uses \ {c} : use'[d] = use[d]
      BY <1>0 DEF UseRolls, MeterTypeOK
    <2> QED
      BY <2>1, <2>2, <2>3 DEF ViewsBehind, HasRead
  <1>9. NeverOverdrawn'
    <2>1. drawn' = 0 /\ spent' = spent /\ bought' = bought /\ user'.topup = user.topup
      BY <1>0, <1>1, <1>2 DEF UseRolls
    <2>2. Past(user'.billed - user'.base) \in Nat
      BY <1>6, RowFields, PastIsAmount, MeterAssumption, <1>0, <1>1, <1>2
    <2> QED
      BY <2>1, <2>2 DEF MeterInv, NeverOverdrawn
  <1> QED
    BY <1>7, <1>8, <1>9 DEF MeterInv, DrawnWithBase, UseRolls

\* ensure_cycle assigns the included amount of a user from before the migration:
\* nothing was drawn until now.
LEMMA UseAssignsKeeps ==
  ASSUME MeterInv, NEW c \in Uses, UseAssigns(c)
  PROVE  MeterInv'
  <1>0. MeterTypeOK /\ user \in UserRows /\ view[c] \in UserRows
    BY UseFields DEF MeterInv, MeterTypeOK
  <1> DEFINE own == [view[c] EXCEPT !.base = Included]
  <1>1. own \in UserRows /\ own.billed = view[c].billed /\ own.base = Included
    BY <1>0 DEF UserRows
  <1>2. user' \in UserRows /\ user'.billed = user.billed /\ user'.base = Included
        /\ user'.topup = user.topup
    BY <1>0 DEF UserRows, UseAssigns
  <1>3. view' = [view EXCEPT ![c] = own]
    BY <1>0 DEF UseAssigns, MeterTypeOK
  <1>4. view' \in [Uses -> UserRows]
    BY <1>0, <1>1, <1>3 DEF MeterTypeOK
  <1>5. use' \in [Uses -> {"idle", "roll", "assign", "record", "count", "pay", "done"}]
    BY <1>0 DEF UseAssigns, MeterTypeOK
  <1>6. MeterTypeOK'
    BY <1>0, <1>2, <1>4, <1>5 DEF MeterTypeOK, UseAssigns
  <1>7. ViewsBehind'
    <2>1. view'[c] = own /\ \A d \in Uses \ {c} : use'[d] = use[d] /\ view'[d] = view[d]
      BY <1>0, <1>3 DEF UseAssigns, MeterTypeOK
    <2>2. ~stale => own.billed <= user.billed
      BY <1>1 DEF MeterInv, ViewsBehind, HasRead, UseAssigns
    <2>3. stale' = stale
      BY DEF UseAssigns
    <2> QED
      BY <1>1, <1>2, <2>1, <2>2, <2>3 DEF MeterInv, ViewsBehind, HasRead
  <1>8. DrawnWithBase'
    BY <1>2, MeterAssumption DEF DrawnWithBase
  <1>9. NeverOverdrawn'
    <2>1. user.base \in {0, Included} /\ user.billed \in Nat
      BY <1>0, RowFields
    <2>2. ~stale /\ user.base = 0 => drawn = 0
      BY DEF MeterInv, DrawnWithBase
    <2>3. Past(user.billed - Included) \in Nat
      BY <2>1, PastIsAmount, MeterAssumption
    <2>4. ~stale => drawn <= Past(user.billed - Included)
      BY <2>1, <2>2, <2>3 DEF MeterInv, NeverOverdrawn
    <2> QED
      BY <1>2, <2>4 DEF MeterInv, NeverOverdrawn, UseAssigns
  <1> QED
    BY <1>6, <1>7, <1>8, <1>9 DEF MeterInv

\* A use is recorded: what it draws is within what it adds, because its row is
\* behind the user's.
LEMMA UseRecordsKeeps ==
  ASSUME MeterInv, NEW c \in Uses, UseRecords(c)
  PROVE  MeterInv'
  <1>0. MeterTypeOK /\ user \in UserRows /\ view[c] \in UserRows /\ cost[c] \in Nat
    BY UseFields DEF MeterInv, MeterTypeOK
  <1>1. /\ user.billed \in Nat /\ user.topup \in Nat /\ user.base \in Nat
        /\ view[c].billed \in Nat /\ view[c].base \in Nat /\ Draw(c) \in Nat
        /\ drawn \in Nat /\ spent \in Nat
    BY <1>0, RowFields, DrawIsAmount, MeterAssumption DEF MeterTypeOK
  <1>2. DrawnTopup(c) \in Nat /\ DrawnTopup(c) >= user.topup - Draw(c)
    BY <1>1, PastIsAmount DEF DrawnTopup
  <1>3. /\ user' \in UserRows /\ user'.billed = user.billed + cost[c]
        /\ user'.base = user.base /\ user'.topup = DrawnTopup(c)
    <2>1. user' = [user EXCEPT !.billed = user.billed + cost[c], !.topup = DrawnTopup(c)]
      BY <1>0 DEF UseRecords
    <2>2. user.billed + cost[c] \in Nat
      BY <1>0, <1>1
    <2> QED
      BY <1>0, <1>2, <2>1, <2>2 DEF UserRows
  <1>4. drawn' = drawn + Draw(c) /\ spent' = spent + Draw(c)
        /\ bought' = bought /\ stale' = stale /\ Returns(c)
    BY DEF UseRecords
  <1>5. MeterTypeOK'
    BY <1>0, <1>1, <1>3, <1>4, ReturnTypes DEF MeterTypeOK, UseRecords
  <1>6. ViewsBehind'
    <2>1. use'[c] = "done" /\ \A d \in Uses \ {c} : use'[d] = use[d] /\ view'[d] = view[d]
      BY <1>0, <1>4, ReturnTypes
    <2>2. \A d \in Uses : view[d].billed \in Nat
      BY <1>0, UseFields, RowFields
    <2>3. ASSUME ~stale', NEW d \in Uses, d # c, HasRead(d)
          PROVE  view[d].billed <= user.billed + cost[c]
      <3>1. view[d].billed <= user.billed
        BY <1>4, <2>3 DEF MeterInv, ViewsBehind
      <3> QED
        BY <1>0, <1>1, <2>2, <3>1
    <2> QED
      BY <1>3, <1>4, <2>1, <2>3 DEF MeterInv, ViewsBehind, HasRead
  <1>7. ASSUME ~stale PROVE drawn' <= Past(user'.billed - user'.base) /\ user'.base # 0
    <2>1. /\ view[c].billed <= user.billed /\ view[c].base = Included /\ user.base = Included
      BY <1>7 DEF MeterInv, ViewsBehind, HasRead, UseRecords
    <2>2. Past(user.billed - Included) + Draw(c) <= Past(user.billed + cost[c] - Included)
      BY <1>0, <1>1, <2>1, DrawIsBounded DEF Draw
    <2>3. drawn <= Past(user.billed - Included)
      BY <1>7, <2>1 DEF MeterInv, NeverOverdrawn
    <2>4. Past(user.billed - Included) \in Nat /\ Past(user.billed + cost[c] - Included) \in Nat
      BY <1>0, <1>1, PastIsAmount, MeterAssumption
    <2>5. drawn + Draw(c) <= Past(user.billed + cost[c] - Included)
      BY <1>1, <2>2, <2>3, <2>4
    <2>6. Included # 0
      BY MeterAssumption
    <2>7. user'.billed = user.billed + cost[c] /\ user'.base = Included /\ drawn' = drawn + Draw(c)
      BY <1>3, <1>4, <2>1
    <2>8. Past(user'.billed - user'.base) = Past(user.billed + cost[c] - Included)
      <3>1. user'.billed - user'.base = user.billed + cost[c] - Included
        BY <1>0, <1>1, <2>7, MeterAssumption
      <3> QED
        BY <3>1, Zenon
    <2> QED
      BY <2>5, <2>6, <2>7, <2>8
  <1>8. user'.topup + spent' >= bought'
    <2>1. user.topup + spent >= bought /\ bought \in Nat
      BY MeterAssumption DEF MeterInv, NeverOverdrawn, MeterTypeOK
    <2> QED
      BY <1>1, <1>2, <1>3, <1>4, <2>1
  <1> QED
    BY <1>4, <1>5, <1>6, <1>7, <1>8 DEF MeterInv, DrawnWithBase, NeverOverdrawn

\* charge_service for an analysis: the user's amounts do not change.
LEMMA AnalysisKeeps ==
  ASSUME MeterInv, NEW c \in Uses, AnalysisReads(c) \/ AnalysisCounts(c) \/ AnalysisPays(c)
  PROVE  MeterInv'
  <1>0. MeterTypeOK /\ user \in UserRows
    BY DEF MeterInv, MeterTypeOK
  <1>1. CASE AnalysisReads(c)
    <2>1. use' \in [Uses -> {"idle", "roll", "assign", "record", "count", "pay", "done"}]
      BY <1>0, <1>1 DEF AnalysisReads, MeterTypeOK
    <2>2. view' \in [Uses -> UserRows]
      BY <1>0, <1>1 DEF AnalysisReads, MeterTypeOK
    <2>3. MeterTypeOK'
      BY <1>0, <1>1, <2>1, <2>2 DEF MeterTypeOK, AnalysisReads
    <2>4. /\ use'[c] \in {"count", "pay"}
          /\ \A d \in Uses \ {c} : use'[d] = use[d] /\ view'[d] = view[d]
      BY <1>0, <1>1 DEF AnalysisReads, MeterTypeOK
    <2>5. ViewsBehind'
      BY <1>1, <2>4 DEF MeterInv, ViewsBehind, HasRead, AnalysisReads
    <2> QED
      BY <1>1, <2>3, <2>5 DEF MeterInv, DrawnWithBase, NeverOverdrawn, AnalysisReads
  <1>2. CASE AnalysisCounts(c) /\ ~QuotaLeft(c)
    <2>1. use' \in [Uses -> {"idle", "roll", "assign", "record", "count", "pay", "done"}]
      BY <1>0, <1>2 DEF AnalysisCounts, MeterTypeOK
    <2>2. MeterTypeOK'
      BY <1>0, <1>2, <2>1 DEF MeterTypeOK, AnalysisCounts
    <2>3. /\ use'[c] = "pay" /\ view' = view
          /\ \A d \in Uses \ {c} : use'[d] = use[d]
      BY <1>0, <1>2 DEF AnalysisCounts, MeterTypeOK
    <2>4. ViewsBehind'
      BY <1>2, <2>3 DEF MeterInv, ViewsBehind, HasRead, AnalysisCounts
    <2> QED
      BY <1>2, <2>2, <2>4 DEF MeterInv, DrawnWithBase, NeverOverdrawn, AnalysisCounts
  <1>3. CASE AnalysisPays(c) \/ (AnalysisCounts(c) /\ QuotaLeft(c))
    <2>1. Returns(c)
      BY <1>3 DEF AnalysisPays, AnalysisCounts
    <2>2. /\ user' \in UserRows /\ user'.billed = user.billed
          /\ user'.base = user.base /\ user'.topup = user.topup
      <3>1. CASE AnalysisPays(c)
        BY <1>0, <3>1 DEF AnalysisPays
      <3>2. CASE AnalysisCounts(c) /\ QuotaLeft(c)
        <4>1. user.count + 1 \in 0..Quota
          BY <1>0, <3>2, RowFields, MeterAssumption DEF QuotaLeft
        <4>2. user' = [user EXCEPT !.count = user.count + 1]
          BY <1>0, <3>2 DEF AnalysisCounts
        <4> QED
          BY <1>0, <4>1, <4>2 DEF UserRows
      <3> QED
        BY <1>3, <3>1, <3>2
    <2>3. UNCHANGED <<month, drawn, spent, bought, stale, switched>>
      BY <1>3 DEF AnalysisPays, AnalysisCounts
    <2>4. MeterTypeOK'
      BY <1>0, <2>1, <2>2, <2>3, ReturnTypes DEF MeterTypeOK
    <2>5. ViewsBehind'
      BY <1>0, <2>1, <2>2, <2>3, ReturnTypes DEF MeterInv, ViewsBehind, HasRead
    <2> QED
      BY <2>2, <2>3, <2>4, <2>5 DEF MeterInv, DrawnWithBase, NeverOverdrawn
  <1> QED
    BY <1>1, <1>2, <1>3

\* A top-up adds to the bought coins.
LEMMA TopupKeeps ==
  ASSUME MeterInv, Topup
  PROVE  MeterInv'
  <1>0. MeterTypeOK /\ user \in UserRows /\ user.topup \in Nat
    BY RowFields DEF MeterInv, MeterTypeOK
  <1>1. /\ user' \in UserRows /\ user'.topup = user.topup + 1
        /\ user'.billed = user.billed /\ user'.base = user.base
    BY <1>0 DEF Topup, UserRows
  <1>2. MeterTypeOK'
    BY <1>0, <1>1, MeterAssumption DEF MeterTypeOK, Topup
  <1>3. ViewsBehind'
    BY <1>1, ViewsKept DEF Topup
  <1>4. NeverOverdrawn'
    <2>1. spent \in Nat /\ bought \in Nat
      BY <1>0, MeterAssumption DEF MeterTypeOK
    <2> QED
      BY <1>0, <1>1, <2>1 DEF MeterInv, NeverOverdrawn, Topup
  <1> QED
    BY <1>1, <1>2, <1>3, <1>4 DEF MeterInv, DrawnWithBase, Topup

\* A change of tier starts a new cycle under every call that has read.
LEMMA SetTierKeeps ==
  ASSUME MeterInv, NEW tier \in Tiers, SetTier(tier)
  PROVE  MeterInv'
  <1>0. MeterTypeOK /\ user \in UserRows /\ month \in Nat /\ user.topup \in Nat
    <2>1. month \in 1..MaxMonths
      BY DEF MeterInv, MeterTypeOK
    <2> QED
      BY <2>1, RowFields, MeterAssumption DEF MeterInv, MeterTypeOK
  <1>1. /\ user' \in UserRows /\ user'.topup = user.topup
        /\ user'.billed = 0 /\ user'.base \in {0, Included}
    BY <1>0 DEF SetTier, UserRows
  <1>2. MeterTypeOK'
    BY <1>0, <1>1, MeterAssumption DEF MeterTypeOK, SetTier
  <1>3. ViewsBehind'
    BY DEF ViewsBehind, HasRead, SetTier
  <1>4. NeverOverdrawn'
    <2>1. Past(user'.billed - user'.base) \in Nat
      BY <1>1, PastIsAmount, MeterAssumption
    <2> QED
      BY <1>1, <2>1 DEF MeterInv, NeverOverdrawn, SetTier
  <1> QED
    BY <1>2, <1>3, <1>4 DEF MeterInv, DrawnWithBase, SetTier

\* The calendar, and steps that change nothing.
LEMMA CalendarKeeps ==
  ASSUME MeterInv, NextMonth \/ UNCHANGED meterVars
  PROVE  MeterInv'
  <1>1. MeterTypeOK'
    BY MeterAssumption DEF MeterInv, MeterTypeOK, NextMonth, meterVars
  <1>2. ViewsBehind'
    BY ViewsKept DEF NextMonth, meterVars
  <1> QED
    BY <1>1, <1>2 DEF MeterInv, DrawnWithBase, NeverOverdrawn, NextMonth, meterVars

-----------------------------------------------------------------------------
(* Theorems.                                                               *)

\* Every reachable state satisfies the inductive invariant.
THEOREM MeterInvariance == MeterSpec => []MeterInv
  <1>1. MeterInv /\ [MeterNext]_meterVars => MeterInv'
    <2> SUFFICES ASSUME MeterInv, [MeterNext]_meterVars PROVE MeterInv'
      OBVIOUS
    <2>1. ASSUME NEW c \in Uses, UseReads(c) PROVE MeterInv'
      BY <2>1, UseReadsKeeps
    <2>2. ASSUME NEW c \in Uses, UseRolls(c) PROVE MeterInv'
      BY <2>2, UseRollsKeeps
    <2>3. ASSUME NEW c \in Uses, UseAssigns(c) PROVE MeterInv'
      BY <2>3, UseAssignsKeeps
    <2>4. ASSUME NEW c \in Uses, UseRecords(c) PROVE MeterInv'
      BY <2>4, UseRecordsKeeps
    <2>5. ASSUME NEW c \in Uses, AnalysisReads(c) \/ AnalysisCounts(c) \/ AnalysisPays(c)
          PROVE  MeterInv'
      BY <2>5, AnalysisKeeps
    <2>6. ASSUME NEW tier \in Tiers, SetTier(tier) PROVE MeterInv'
      BY <2>6, SetTierKeeps
    <2> QED
      BY <2>1, <2>2, <2>3, <2>4, <2>5, <2>6, TopupKeeps, CalendarKeeps DEF MeterNext
  <1> QED
    BY <1>1, MeterInitHolds, PTL DEF MeterSpec

\* A user's row and every call's copy of it stay well formed: no amount falls below
\* zero and the free analyses counted never pass the quota, however many calls of
\* charge_service saw the last free one.
THEOREM MeterTypesHold == MeterSpec => []MeterTypeOK
  <1>1. MeterInv => MeterTypeOK
    BY DEF MeterInv
  <1> QED
    BY <1>1, MeterInvariance, PTL

\* However uses, top-ups, analyses and tier changes interleave, bought coins are
\* never drawn beyond what the month's uses cost over the included amount (unless
\* a reset passed under a call that had read), and none is written over.
THEOREM CoinsNeverOverdrawn == MeterSpec => []NeverOverdrawn
  <1>1. MeterInv => NeverOverdrawn
    BY DEF MeterInv
  <1> QED
    BY <1>1, MeterInvariance, PTL

-----------------------------------------------------------------------------
(***************************************************************************)
(* Proofs about ParcelBatch: its types, and that a region has one job whose *)
(* state is true, for any submissions, cancellations, chunks, flaws and     *)
(* bounds.  What a save writes was decided from a get and a SELECT that may *)
(* be older than the row, so the inductive invariant says how old: where    *)
(* everybody is, what a record about to be saved says, what was seen of the *)
(* row and what it is now, and what the one run of a job that nobody        *)
(* disturbs has passed.  The runs and cancellations of a job that overlap   *)
(* others of their kind are left out of the last three.                     *)
(***************************************************************************)

\* Where a submission has no job, where anyone may be, who is in the middle of a save, and
\* that a cancellation of the job is over.
Before == {"find", "unbind", "save", "bind"}
Stages == {"find", "look", "unbind", "save", "bind", "get", "over", "dead", "new", "ask", "flag"}
          \cup Running
Saving(v) == tx[v].at \in {"seen", "clear", "drop"}
CancelDone(j) == \E c \in Cancels : mine[c] = j /\ step[c] = "over"

\* Who has a job has one its maker was given, and so has the key.
GivenPast ==
    /\ \A v \in Savers : mine[v] # NoJob => mine[mine[v]] = mine[v]
    /\ key # NoJob => mine[key] = key

\* Nobody takes the key away: all have the job it is bound to.
KeyKept ==
    ~retried => /\ \A s \in Submits : step[s] # "unbind"
                /\ \A s \in Submits : mine[s] # NoJob => mine[s] = key

\* One run and one cancellation of a job at once, and of one nobody disturbs one run.
OneAtOnce ==
    \A j \in Submits \ overlapped :
        /\ \A s, t \in Submits : mine[s] = j /\ mine[t] = j /\ InRun(s) /\ InRun(t) => s = t
        /\ \A c, d \in Cancels : mine[c] = j /\ mine[d] = j => c = d
Alone ==
    \A j \in Submits \ disturbed :
        /\ \A c \in Cancels : mine[c] # j
        /\ \A s \in Submits : mine[s] = j => step[s] # "dead"

\* Where a submission or cancellation may be, with a job and with a get or save.
Located(v) ==
    /\ v \in Submits => step[v] \notin {"new", "ask", "flag"}
    /\ v \in Cancels => step[v] \in {"new", "ask", "flag", "over"}
    /\ step[v] \in Before \cup {"new"} => mine[v] = NoJob
    /\ step[v] \notin Before \cup {"new", "over"} => mine[v] # NoJob
    /\ step[v] = "look" => mine[v] # v
    /\ Saving(v) => step[v] \in {"normalize", "empty", "start", "chunk", "aggregate", "fail", "flag"}
    /\ tx[v].at = "read" => step[v] \in {"look", "load", "resolve", "final", "caught", "ask"}
    /\ step[v] \in {"load", "ask"} => tx[v].at = "read"
    /\ step[v] = "flag" => copy[v].head.st = "cancelled"
    /\ step[v] = "fail" => copy[v].head.st = "failed"

\* What is about to be saved says no more than is so.
Candid(v) ==
    /\ step[v] = "normalize" \/ Saving(v) =>
          /\ copy[v].head.st = "complete" => AllConfirmed(copy[v].items)
          /\ v \in Submits /\ copy[v].head.st = "cancelled" => CancelDone(mine[v])
    /\ v \in Submits /\ Saving(v) /\ copy[v].head.st = "complete" => copy[v].head.region # "raw"

\* What was seen is what is there, but for a cancellation.
Behind(v) ==
    /\ v \in Submits /\ Saving(v) =>
          head[mine[v]] = tx[v].seen \/ head[mine[v]].st = "cancelled"
    /\ v \in Cancels /\ Saving(v) => tx[v].seen.st # "cancelled"
    /\ step[v] = "load" =>
          /\ tx[v].seen.st = "cancelled" => CancelDone(mine[v])
          /\ tx[v].seen.st = "complete" /\ tx[v].seen.region = "raw" =>
                CancelDone(mine[v]) /\ AllConfirmed(Stored(mine[v]))

\* The chunks a run has passed have a result.
Passed(items, c) == \A d \in Parts : d < c => items[d] # "none"
Full(items) == \A d \in Parts : items[d] # "none"
OnCourse(v) ==
    /\ step[v] = "resolve" => Passed(Stored(mine[v]), at[v])
    /\ step[v] = "chunk" =>
          /\ Passed(copy[v].items, at[v])
          /\ Saving(v) /\ at[v] \in Parts => copy[v].items[at[v]] # "none"
    /\ step[v] = "final" => Full(Stored(mine[v]))
    /\ step[v] = "aggregate" => Full(copy[v].items)
    /\ Saving(v) /\ step[v] \in {"empty", "aggregate", "fail"} => copy[v].head.st \in Terminal
    /\ tx[v].at = "drop" => \A w \in Savers : jobRows[mine[v]][w].agg => w \in tx[v].drops

Fit(v) ==
    /\ Located(v)
    /\ mine[v] \in Submits \ overlapped => Candid(v) /\ Behind(v)
    /\ v \in Submits /\ mine[v] \in Submits \ disturbed => OnCourse(v)

\* What the store says of a job.
Well(j) ==
    /\ j \notin overlapped =>
          /\ head[j].st = "complete" => AllConfirmed(Stored(j))
          /\ head[j].st = "complete" /\ head[j].region = "raw" => CancelDone(j)
          /\ head[j].st = "cancelled" => CancelDone(j)
    /\ j \notin disturbed /\ GivenOut(j) /\ Quiet(j) => head[j].st \in Terminal /\ Readable(j)

BatchInv ==
    /\ BatchTypeOK /\ GivenPast /\ KeyKept /\ OneAtOnce /\ Alone
    /\ \A v \in Savers : Fit(v)
    /\ \A j \in Submits : Well(j)

-----------------------------------------------------------------------------
(* Data.                                                                   *)

LEMMA NothingYet ==
  NoResults \in Lists /\ NoHead \in Headers /\ NoRecord \in Records /\ NoAccess \in Accesses
  <1>1. NoResults \in Lists
    BY DEF NoResults, Lists, Results
  <1>2. NoHead \in Headers
    BY DEF NoHead, Headers, JobStates
  <1>3. NoAccess \in Accesses
    BY <1>2 DEF NoAccess, Accesses
  <1> QED
    BY <1>1, <1>2, <1>3 DEF NoRecord, Records

\* As many chunks as there are have a result of a kind.
LEMMA Countable ==
  ASSUME NEW items, NEW r
  PROVE  Number(items, r) \in Nat /\ Have(items) \in Nat
  <1>1. IsFiniteSet(Parts)
    BY BatchAssumption, FS_Interval DEF Parts
  <1>2. /\ IsFiniteSet({c \in Parts : items[c] = r})
        /\ IsFiniteSet({c \in Parts : items[c] # "none"})
    BY <1>1, FS_Subset
  <1> QED
    BY <1>2, FS_CardinalityType DEF Number, Have

\* A whole list of results is as many as there are chunks.
LEMMA FullCounts == ASSUME NEW items, Full(items) PROVE Have(items) = Chunks
  <1>1. {c \in Parts : items[c] # "none"} = 1..Chunks
    BY DEF Full, Parts
  <1>2. Chunks \in Nat /\ Chunks > 0
    BY BatchAssumption
  <1>3. Cardinality(1..Chunks) = Chunks
    BY <1>2, FS_Interval
  <1> QED
    BY <1>1, <1>3 DEF Have

\* What a get returns is a record.
LEMMA Gotten ==
  ASSUME BatchTypeOK, NEW v \in Savers
  PROVE  /\ Stored(mine[v]) \in Lists /\ Got(v) \in Records
         /\ Got(v).items = Stored(mine[v]) /\ Got(v).head.st = tx[v].seen.st
         /\ Got(v).head.region = tx[v].seen.region
  <1>1. Stored(mine[v]) \in Lists
    BY DEF Stored, Lists, Results
  <1>2. tx[v].seen \in Headers
    BY DEF BatchTypeOK, Accesses
  <1>3. Counts(Stored(mine[v])) \in Nat \X Nat
    BY Countable DEF Counts
  <1> HIDE DEF Counts, Stored
  <1>4. LET h == [tx[v].seen EXCEPT !.counts = Counts(Stored(mine[v]))]
        IN  h \in Headers /\ h.st = tx[v].seen.st /\ h.region = tx[v].seen.region
    BY <1>2, <1>3 DEF Headers
  <1> QED
    BY <1>1, <1>4 DEF Got, Records

\* What stays in the tables is found again.
LEMMA StoredKept ==
  ASSUME NEW j, jobRows'[j] = jobRows[j]
  PROVE  Stored(j)' = Stored(j) /\ (Readable(j)' <=> Readable(j))
  BY DEF Stored, Readable

LEMMA OneTo ==
  ASSUME BatchTypeOK, NEW v \in Savers, NEW where, To(v, where)
  PROVE  /\ step'[v] = where
         /\ \A w \in Savers \ {v} : step'[w] = step[w]
         /\ where \in Stages => step' \in [Savers -> Stages]
  BY DEF BatchTypeOK, To, Stages

LEMMA OneHolds ==
  ASSUME BatchTypeOK, NEW v \in Savers, NEW rec \in Records, Holds(v, rec)
  PROVE  /\ copy' \in [Savers -> Records] /\ copy'[v] = rec
         /\ \A w \in Savers \ {v} : copy'[w] = copy[w]
  BY DEF BatchTypeOK, Holds

LEMMA OneSelects ==
  ASSUME BatchTypeOK, NEW v \in Savers, NEW j \in Submits, Selects(v, j)
  PROVE  /\ tx' \in [Savers -> Accesses] /\ tx'[v].at = "read" /\ tx'[v].seen = head[j]
         /\ \A w \in Savers \ {v} : tx'[w] = tx[w]
  <1>1. head[j] \in Headers
    BY DEF BatchTypeOK
  <1>2. LET t == [NoAccess EXCEPT !.at = "read", !.seen = head[j]]
        IN  t \in Accesses /\ t.at = "read" /\ t.seen = head[j]
    BY <1>1, NothingYet DEF Accesses
  <1> QED
    BY <1>2 DEF BatchTypeOK, Selects

LEMMA OneDone ==
  ASSUME BatchTypeOK, NEW v \in Savers, Done(v)
  PROVE  /\ tx' \in [Savers -> Accesses] /\ tx'[v].at = "no"
         /\ \A w \in Savers \ {v} : tx'[w] = tx[w]
  BY NothingYet DEF BatchTypeOK, Done, NoAccess

LEMMA OneSaveStarts ==
  ASSUME BatchTypeOK, NEW v \in Savers, mine[v] \in Submits, NEW rec \in Records, SaveStarts(v, rec)
  PROVE  /\ copy' \in [Savers -> Records] /\ copy'[v] = rec
         /\ tx[v].at = "no"
         /\ \A w \in Savers \ {v} : copy'[w] = copy[w]
         /\ tx' \in [Savers -> Accesses] /\ tx'[v].at = "seen" /\ tx'[v].seen = head[mine[v]]
         /\ \A w \in Savers \ {v} : tx'[w] = tx[w]
  <1>1. head[mine[v]] \in Headers
    BY DEF BatchTypeOK
  <1>2. LET t == [NoAccess EXCEPT !.at = "seen", !.seen = head[mine[v]]]
        IN  t \in Accesses /\ t.at = "seen" /\ t.seen = head[mine[v]]
    BY <1>1, NothingYet DEF Accesses
  <1>3. Holds(v, rec) /\ tx[v].at = "no"
    BY DEF SaveStarts, Idle
  <1>4. tx' = [tx EXCEPT ![v] = [NoAccess EXCEPT !.at = "seen", !.seen = head[mine[v]]]]
    BY DEF SaveStarts
  <1> QED
    BY <1>2, <1>3, <1>4, OneHolds DEF BatchTypeOK

-----------------------------------------------------------------------------
(* Steps that leave the tables as they are.                                *)

\* What the others know stands, and what the store says of a job.
LEMMA Kept ==
  ASSUME BatchInv, NEW v \in Savers, UNCHANGED <<head, jobRows>>,
         \A w \in Savers \ {v} : /\ step'[w] = step[w] /\ mine'[w] = mine[w]
                                 /\ copy'[w] = copy[w] /\ tx'[w] = tx[w],
         \A s \in Submits \ {v} : at'[s] = at[s],
         disturbed \subseteq disturbed', overlapped \subseteq overlapped',
         v \in Cancels => step[v] # "over",
         \A j \in Submits \ disturbed' : GivenOut(j)' /\ Quiet(j)' => GivenOut(j) /\ Quiet(j),
         Fit(v)'
  PROVE  (\A w \in Savers : Fit(w)') /\ (\A j \in Submits : Well(j)')
  <1>1. \A j \in Submits : CancelDone(j) => CancelDone(j)'
    <2> SUFFICES ASSUME NEW j \in Submits, NEW c \in Cancels, mine[c] = j, step[c] = "over"
                 PROVE  CancelDone(j)'
      BY DEF CancelDone
    <2>1. c \in Savers \ {v}
      BY DEF Savers
    <2> QED
      BY <2>1 DEF CancelDone
  <1>2. \A j \in Submits : Stored(j)' = Stored(j) /\ (Readable(j)' <=> Readable(j))
    BY StoredKept
  <1>3. ASSUME NEW w \in Savers, w # v PROVE Fit(w)'
    <2>1. /\ step'[w] = step[w] /\ mine'[w] = mine[w] /\ copy'[w] = copy[w] /\ tx'[w] = tx[w]
          /\ w \in Submits => at'[w] = at[w]
      BY <1>3
    <2>2. Saving(w)' <=> Saving(w)
      BY <2>1 DEF Saving
    <2>3. Fit(w)
      BY DEF BatchInv
    <2>4. Located(w)'
      BY <2>1, <2>2, <2>3 DEF Fit, Located
    <2>5. ASSUME mine'[w] \in Submits \ overlapped' PROVE Candid(w)' /\ Behind(w)'
      <3>1. Candid(w) /\ Behind(w) /\ mine[w] \in Submits
        BY <2>1, <2>3, <2>5 DEF Fit
      <3>2. Candid(w)'
        BY <1>1, <2>1, <2>2, <3>1 DEF Candid, AllConfirmed
      <3>3. Behind(w)'
        BY <1>1, <1>2, <2>1, <2>2, <3>1 DEF Behind, AllConfirmed
      <3> QED
        BY <3>2, <3>3
    <2>6. ASSUME w \in Submits, mine'[w] \in Submits \ disturbed' PROVE OnCourse(w)'
      <3>1. OnCourse(w) /\ mine[w] \in Submits
        BY <2>1, <2>3, <2>6 DEF Fit
      <3> QED
        BY <1>2, <2>1, <2>2, <2>6, <3>1 DEF OnCourse, Passed, Full
    <2> QED
      BY <2>4, <2>5, <2>6 DEF Fit
  <1>4. ASSUME NEW j \in Submits PROVE Well(j)'
    <2>1. Well(j)
      BY DEF BatchInv
    <2> QED
      BY <1>1, <1>2, <2>1 DEF Well, AllConfirmed
  <1> QED
    BY <1>3, <1>4

\* A run or a cancellation goes on.
LEMMA Moves ==
  ASSUME BatchInv, NEW v \in Savers,
         step[v] \in Running \cup {"look", "get", "ask", "flag"},
         NEW where \in Running \cup {"look", "get", "ask", "flag", "dead", "over"},
         step' \in [Savers -> Stages], step'[v] = where,
         \A w \in Savers \ {v} : step'[w] = step[w],
         where = "over" => step[v] \in {"look", "ask"},
         where = "look" => step[v] = "look",
         UNCHANGED <<head, jobRows, key, mine, retried>>,
         copy' \in [Savers -> Records], \A w \in Savers \ {v} : copy'[w] = copy[w],
         tx' \in [Savers -> Accesses], \A w \in Savers \ {v} : tx'[w] = tx[w],
         at' \in [Submits -> {0} \cup Parts], \A s \in Submits \ {v} : at'[s] = at[s],
         disturbed \subseteq disturbed', disturbed' \subseteq Submits,
         overlapped \subseteq overlapped', overlapped' \subseteq disturbed',
         batchFlaws' \in 0..MaxBatchFlaws,
         where \in Running => \/ step[v] \in Running
                              \/ \A t \in Submits : mine[t] = mine[v] /\ InRun(t) => mine[v] \in overlapped',
         where = "dead" => mine[v] \in disturbed',
         Fit(v)'
  PROVE  BatchInv'
  <1>1. BatchTypeOK'
    BY DEF BatchInv, BatchTypeOK, Stages
  <1>2. GivenPast'
    BY DEF BatchInv, GivenPast
  <1>3. KeyKept'
    <2>1. \A s \in Submits : step'[s] = "unbind" => step[s] = "unbind"
      BY DEF Running, Savers
    <2> QED
      BY <2>1 DEF BatchInv, KeyKept
  <1>4. OneAtOnce'
    <2>1. ASSUME NEW j \in Submits \ overlapped', NEW s \in Submits, NEW t \in Submits,
                 mine[s] = j, mine[t] = j, InRun(s)', InRun(t)'
          PROVE  s = t
      <3>1. \A u \in Submits : u # v /\ InRun(u)' => InRun(u)
        BY DEF InRun, Savers
      <3>2. CASE InRun(v) /\ v \in Submits
        BY <2>1, <3>1, <3>2 DEF BatchInv, OneAtOnce
      <3>3. CASE v \in Submits /\ ~InRun(v)
        <4>1. \A u \in Submits : mine[u] = j /\ mine[v] = j /\ InRun(v)' => ~InRun(u)
          BY <2>1, <3>3 DEF InRun
        <4> QED
          BY <2>1, <3>1, <4>1 DEF BatchInv, OneAtOnce
      <3>4. CASE v \notin Submits
        BY <2>1, <3>1, <3>4 DEF BatchInv, OneAtOnce
      <3> QED
        BY <3>2, <3>3, <3>4
    <2>2. ASSUME NEW j \in Submits \ overlapped', NEW c \in Cancels, NEW d \in Cancels,
                 mine[c] = j, mine[d] = j
          PROVE  c = d
      BY <2>2 DEF BatchInv, OneAtOnce
    <2> QED
      BY <2>1, <2>2 DEF OneAtOnce
  <1>5. Alone'
    BY DEF BatchInv, Alone, Savers
  <1>6. v \in Cancels => step[v] # "over"
    BY DEF Running
  <1>7. ASSUME NEW j \in Submits \ disturbed', GivenOut(j)', Quiet(j)'
        PROVE  GivenOut(j) /\ Quiet(j)
    <2>1. ASSUME NEW s \in Submits, mine[s] = j PROVE step[s] \in {"look", "over"}
      <3>1. step'[s] \in {"look", "over"}
        BY <1>7, <2>1 DEF Quiet
      <3>2. CASE s = v
        <4>1. step[s] \in {"look", "ask"}
          BY <3>1, <3>2
        <4>2. Located(s)
          BY DEF BatchInv, Fit, Savers
        <4> QED
          BY <4>1, <4>2 DEF Located
      <3>3. CASE s # v
        BY <3>1, <3>3 DEF Savers
      <3> QED
        BY <3>2, <3>3
    <2> QED
      BY <1>7, <2>1 DEF GivenOut, Quiet
  <1>8. (\A w \in Savers : Fit(w)') /\ (\A j \in Submits : Well(j)')
    BY <1>6, <1>7, Kept
  <1> QED
    BY <1>1, <1>2, <1>3, <1>4, <1>5, <1>8 DEF BatchInv

\* What is known of who has a job.
LEMMA Knows ==
  ASSUME BatchInv, NEW v \in Savers, step[v] \notin Before \cup {"new", "over"}
  PROVE  /\ BatchTypeOK /\ mine[v] \in Submits /\ copy[v] \in Records /\ tx[v] \in Accesses
         /\ Located(v) /\ (mine[v] \notin overlapped => Candid(v) /\ Behind(v))
         /\ v \in Submits /\ mine[v] \notin disturbed => OnCourse(v)
         /\ Well(mine[v])
         /\ overlapped \subseteq disturbed /\ disturbed \subseteq Submits
         /\ batchFlaws \in 0..MaxBatchFlaws
         /\ at \in [Submits -> {0} \cup Parts] /\ copy \in [Savers -> Records]
         /\ tx \in [Savers -> Accesses] /\ step \in [Savers -> Stages]
  <1>1. BatchTypeOK /\ Fit(v)
    BY DEF BatchInv
  <1>2. mine[v] \in Submits
    BY <1>1 DEF BatchTypeOK, Fit, Located
  <1>3. /\ copy[v] \in Records /\ tx[v] \in Accesses
        /\ overlapped \subseteq disturbed /\ disturbed \subseteq Submits
        /\ batchFlaws \in 0..MaxBatchFlaws
        /\ at \in [Submits -> {0} \cup Parts] /\ copy \in [Savers -> Records]
        /\ tx \in [Savers -> Accesses]
    BY <1>1 DEF BatchTypeOK
  <1>4. step \in [Savers -> Stages]
    BY <1>1 DEF BatchTypeOK, Stages
  <1> QED
    BY <1>1, <1>2, <1>3, <1>4 DEF Fit, BatchInv

\* A save begins with a record that says what is so.
LEMMA SaveBegins ==
  ASSUME BatchInv, NEW v \in Savers, NEW rec \in Records, SaveStarts(v, rec),
         step[v] \in {"normalize", "empty", "start", "chunk", "aggregate", "fail", "flag"},
         UNCHANGED <<head, jobRows, key, step, mine, at, history, batchFlaws>>,
         step[v] = "fail" => rec.head.st = "failed",
         step[v] = "flag" => rec.head.st = "cancelled",
         mine[v] \notin overlapped /\ rec.head.st = "complete" => AllConfirmed(rec.items),
         v \in Submits /\ rec.head.st = "complete" => rec.head.region # "raw",
         mine[v] \notin overlapped /\ v \in Submits /\ rec.head.st = "cancelled" => CancelDone(mine[v]),
         v \in Submits /\ mine[v] \notin disturbed =>
            /\ step[v] = "chunk" => /\ Passed(rec.items, at[v])
                                    /\ at[v] \in Parts => rec.items[at[v]] # "none"
            /\ step[v] = "aggregate" => Full(rec.items)
            /\ step[v] \in {"empty", "aggregate", "fail"} => rec.head.st \in Terminal
  PROVE  BatchInv'
  <1>1. step[v] \notin Before \cup {"new", "over"}
    BY DEF Before
  <1>2. /\ mine[v] \in Submits /\ Located(v) /\ BatchTypeOK /\ Well(mine[v])
        /\ overlapped \subseteq disturbed /\ disturbed \subseteq Submits
        /\ batchFlaws \in 0..MaxBatchFlaws
        /\ at \in [Submits -> {0} \cup Parts] /\ step \in [Savers -> Stages]
    BY <1>1, Knows
  <1>3. /\ copy' \in [Savers -> Records] /\ copy'[v] = rec
        /\ \A w \in Savers \ {v} : copy'[w] = copy[w]
        /\ tx' \in [Savers -> Accesses] /\ tx'[v].at = "seen" /\ tx'[v].seen = head[mine[v]]
        /\ \A w \in Savers \ {v} : tx'[w] = tx[w]
    BY <1>2, OneSaveStarts
  <1>4. /\ step' = step /\ mine' = mine /\ at' = at /\ head' = head /\ jobRows' = jobRows
        /\ key' = key /\ retried' = retried /\ disturbed' = disturbed
        /\ overlapped' = overlapped /\ batchFlaws' = batchFlaws
    BY DEF history
  <1>5. Saving(v)' /\ tx'[v].at # "drop"
    BY <1>3 DEF Saving
  <1>6. CancelDone(mine[v])' <=> CancelDone(mine[v])
    BY <1>4 DEF CancelDone
  <1>7. Located(v)'
    BY <1>2, <1>3, <1>4, <1>5 DEF Located, Before
  <1>8. ASSUME mine[v] \notin overlapped PROVE Candid(v)' /\ Behind(v)'
    <2>1. Candid(v)'
      BY <1>3, <1>4, <1>5, <1>6, <1>8 DEF Candid, AllConfirmed
    <2>2. v \in Cancels => head[mine[v]].st # "cancelled"
      <3> SUFFICES ASSUME v \in Cancels, head[mine[v]].st = "cancelled" PROVE FALSE
        OBVIOUS
      <3>1. PICK c \in Cancels : mine[c] = mine[v] /\ step[c] = "over"
        BY <1>2, <1>8 DEF Well, CancelDone
      <3>2. c = v
        BY <1>2, <1>8, <3>1 DEF BatchInv, OneAtOnce
      <3> QED
        BY <3>1, <3>2
    <2>3. Behind(v)'
      BY <1>3, <1>4, <2>2 DEF Behind
    <2> QED
      BY <2>1, <2>3
  <1>9. ASSUME v \in Submits, mine[v] \notin disturbed PROVE OnCourse(v)'
    <2>1. step[v] \notin {"resolve", "final"}
      OBVIOUS
    <2> QED
      BY <1>3, <1>4, <1>5, <1>9, <2>1 DEF OnCourse, Passed, Full
  <1>10. Fit(v)'
    BY <1>4, <1>7, <1>8, <1>9 DEF Fit
  <1>11. step[v] \in Running \cup {"look", "get", "ask", "flag"}
    BY DEF Running
  <1>12. step[v] \in Running \cup {"look", "get", "ask", "flag", "dead", "over"}
    BY <1>11
  <1>13. step[v] \notin {"over", "look", "dead"}
    OBVIOUS
  <1>14. step[v] \in Running \/ step[v] \notin Running
    OBVIOUS
  <1> DEFINE where == step[v]
  <1> HIDE DEF where
  <1>15. /\ where \in Running \cup {"look", "get", "ask", "flag", "dead", "over"}
         /\ step'[v] = where /\ where \notin {"over", "look", "dead"}
         /\ step' \in [Savers -> Stages]
         /\ \A w \in Savers \ {v} : step'[w] = step[w]
         /\ where \in Running => step[v] \in Running
    BY <1>2, <1>4, <1>12 DEF where
  <1> QED
    BY <1>2, <1>3, <1>4, <1>10, <1>11, <1>15, Moves

LEMMA NormalizeKeeps ==
  ASSUME BatchInv, NEW s \in Submits, RunNormalizes(s) PROVE BatchInv'
  <1>1. PICK region \in {"empty", "targets"} :
            SaveStarts(s, [copy[s] EXCEPT !.head.region = region])
    BY DEF RunNormalizes
  <1>2. /\ step[s] = "normalize" /\ s \in Savers
        /\ UNCHANGED <<head, jobRows, key, step, mine, at, history, batchFlaws>>
    BY DEF RunNormalizes, Savers
  <1>3. step[s] \notin Before \cup {"new", "over"}
    BY <1>2 DEF Before
  <1>4. /\ copy[s] \in Records /\ (mine[s] \notin overlapped => Candid(s))
    BY <1>2, <1>3, Knows
  <1> DEFINE rec == [copy[s] EXCEPT !.head.region = region]
  <1>5. /\ rec \in Records /\ rec.items = copy[s].items /\ rec.head.st = copy[s].head.st
        /\ rec.head.region # "raw"
    BY <1>4 DEF Records, Headers
  <1>6. SaveStarts(s, rec)
    BY <1>1
  <1> HIDE DEF rec
  <1>7. mine[s] \notin overlapped =>
           /\ rec.head.st = "complete" => AllConfirmed(rec.items)
           /\ rec.head.st = "cancelled" => CancelDone(mine[s])
    BY <1>2, <1>4, <1>5 DEF Candid
  <1> QED
    BY <1>2, <1>5, <1>6, <1>7, SaveBegins

LEMMA EndsEmptyKeeps ==
  ASSUME BatchInv, NEW s \in Submits, RunEndsEmpty(s) PROVE BatchInv'
  <1> DEFINE rec == [copy[s] EXCEPT !.head.st = "partial", !.head.full = FALSE]
  <1>1. /\ step[s] = "empty" /\ s \in Savers /\ SaveStarts(s, rec)
        /\ UNCHANGED <<head, jobRows, key, step, mine, at, history, batchFlaws>>
    BY DEF RunEndsEmpty, Savers
  <1>2. step[s] \notin Before \cup {"new", "over"}
    BY <1>1 DEF Before
  <1>3. copy[s] \in Records
    BY <1>1, <1>2, Knows
  <1>4. rec \in Records /\ rec.head.st = "partial"
    BY <1>3 DEF Records, Headers, JobStates
  <1> HIDE DEF rec
  <1> QED
    BY <1>1, <1>4, SaveBegins DEF Terminal

LEMMA StartsKeeps ==
  ASSUME BatchInv, NEW s \in Submits, RunStarts(s) PROVE BatchInv'
  <1>1. /\ step[s] = "start" /\ s \in Savers /\ SaveStarts(s, Started)
        /\ UNCHANGED <<head, jobRows, key, step, mine, at, history, batchFlaws>>
    BY DEF RunStarts, Savers
  <1>2. Started \in Records /\ Started.head.st = "running"
    BY NothingYet DEF Started, Records, Headers, JobStates
  <1> QED
    BY <1>1, <1>2, SaveBegins

\* A chunk's results and the state they make.
LEMMA Progressed ==
  ASSUME NEW rec \in Records, NEW c \in {0} \cup Parts, NEW r \in {"other", "confirmed"}
  PROVE  LET new == Extended(rec, c, r)
         IN  /\ new \in Records /\ new.head.st # "cancelled"
             /\ new.head.st = "complete" => AllConfirmed(new.items) /\ new.head.region # "raw"
             /\ \A d \in Parts : rec.items[d] # "none" => new.items[d] # "none"
             /\ c \in Parts => new.items[c] # "none"
  <1> DEFINE st == Progress(rec, c, r)
             counts == <<Number(rec.items, "confirmed") + (IF r = "confirmed" THEN 1 ELSE 0),
                         Number(rec.items, "other") + (IF r = "other" THEN 1 ELSE 0)>>
             items == [rec.items EXCEPT ![c] = Better(@, r)]
             new == Extended(rec, c, r)
  <1>1. /\ st \in {"partial", "running", "complete"}
        /\ st = "complete" => rec.head.region = "targets" /\ NonePending(rec.items, c, r)
    BY DEF Progress
  <1>2. counts \in Nat \X Nat
    BY Countable
  <1>3. rec.items \in Lists /\ rec.head.region \in {"raw", "empty", "targets"}
    BY DEF Records, Headers
  <1>4. /\ items \in Lists
        /\ \A d \in Parts : rec.items[d] # "none" => items[d] # "none"
        /\ c \in Parts => items[c] # "none"
    BY <1>3 DEF Lists, Better, Results
  <1>5. st = "complete" => AllConfirmed(items)
    BY <1>1, <1>3 DEF AllConfirmed, NonePending, Lists, Better
  <1> HIDE DEF st, counts, items
  <1>6. /\ new.head = [st |-> st, region |-> rec.head.region, full |-> st = "complete",
                       counts |-> counts]
        /\ new.items = items /\ new = [head |-> new.head, items |-> new.items]
    BY DEF Extended, st, counts, items
  <1> HIDE DEF new
  <1>7. (st = "complete") \in BOOLEAN
    OBVIOUS
  <1>8. /\ new.head.st = st /\ new.head.region = rec.head.region
        /\ new.head \in Headers
    BY <1>1, <1>2, <1>3, <1>6, <1>7 DEF Headers, JobStates
  <1>9. new \in Records
    BY <1>4, <1>6, <1>8 DEF Records
  <1>10. st # "cancelled" /\ (st = "complete" => new.head.region # "raw")
    BY <1>1, <1>8
  <1> QED
    BY <1>4, <1>5, <1>6, <1>8, <1>9, <1>10 DEF new

LEMMA ChunkSavesKeeps ==
  ASSUME BatchInv, NEW s \in Submits, ChunkSaves(s) PROVE BatchInv'
  <1>1. PICK r \in {"other", "confirmed"} : SaveStarts(s, Extended(copy[s], at[s], r))
    BY DEF ChunkSaves
  <1>2. /\ step[s] = "chunk" /\ s \in Savers
        /\ UNCHANGED <<head, jobRows, key, step, mine, at, history, batchFlaws>>
    BY DEF ChunkSaves, Savers
  <1>3. step[s] \notin Before \cup {"new", "over"}
    BY <1>2 DEF Before
  <1>4. /\ copy[s] \in Records /\ at[s] \in {0} \cup Parts
        /\ mine[s] \notin disturbed => OnCourse(s)
    BY <1>2, <1>3, Knows
  <1> DEFINE rec == Extended(copy[s], at[s], r)
  <1>5. /\ rec \in Records /\ rec.head.st # "cancelled"
        /\ rec.head.st = "complete" => AllConfirmed(rec.items) /\ rec.head.region # "raw"
        /\ \A d \in Parts : copy[s].items[d] # "none" => rec.items[d] # "none"
        /\ at[s] \in Parts => rec.items[at[s]] # "none"
    BY <1>4, Progressed
  <1> HIDE DEF rec
  <1>6. mine[s] \notin disturbed => Passed(rec.items, at[s])
    BY <1>2, <1>4, <1>5 DEF OnCourse, Passed
  <1>7. SaveStarts(s, rec)
    BY <1>1 DEF rec
  <1> QED
    BY <1>2, <1>5, <1>6, <1>7, SaveBegins

LEMMA FinalSavesKeeps ==
  ASSUME BatchInv, NEW s \in Submits, FinalSaves(s) PROVE BatchInv'
  <1> DEFINE st == FinalState(copy[s])
             rec == [copy[s] EXCEPT !.head.st = st, !.head.full = st = "complete"]
  <1>1. /\ step[s] = "aggregate" /\ s \in Savers /\ SaveStarts(s, rec)
        /\ UNCHANGED <<head, jobRows, key, step, mine, at, history, batchFlaws>>
    BY DEF FinalSaves, Savers
  <1>2. step[s] \notin Before \cup {"new", "over"}
    BY <1>1 DEF Before
  <1>3. copy[s] \in Records /\ (mine[s] \notin disturbed => OnCourse(s))
    BY <1>1, <1>2, Knows
  <1>4. /\ st \in {"partial", "running", "complete"}
        /\ st = "complete" => copy[s].head.region = "targets" /\ AllConfirmed(copy[s].items)
    BY DEF FinalState
  <1>5. Full(copy[s].items) => st \in {"partial", "complete"}
    BY BatchAssumption, FullCounts DEF FinalState
  <1> HIDE DEF st
  <1>6. /\ rec \in Records /\ rec.head.st = st /\ rec.head.region = copy[s].head.region
        /\ rec.items = copy[s].items
    BY <1>3, <1>4 DEF Records, Headers, JobStates
  <1> HIDE DEF rec
  <1>7. mine[s] \notin disturbed => Full(rec.items) /\ rec.head.st \in Terminal
    BY <1>1, <1>3, <1>5, <1>6 DEF OnCourse, Terminal
  <1>8. /\ rec.head.st = "complete" => AllConfirmed(rec.items) /\ rec.head.region # "raw"
        /\ rec.head.st # "cancelled"
    BY <1>4, <1>6
  <1> QED
    BY <1>1, <1>6, <1>7, <1>8, SaveBegins

LEMMA FailsKeeps ==
  ASSUME BatchInv, NEW s \in Submits, RunFails(s) PROVE BatchInv'
  <1>1. /\ step[s] = "fail" /\ s \in Savers /\ SaveStarts(s, copy[s])
        /\ UNCHANGED <<head, jobRows, key, step, mine, at, history, batchFlaws>>
    BY DEF RunFails, Savers
  <1>2. step[s] \notin Before \cup {"new", "over"}
    BY <1>1 DEF Before
  <1>3. copy[s] \in Records /\ copy[s].head.st = "failed"
    BY <1>1, <1>2, Knows DEF Located
  <1> QED
    BY <1>1, <1>3, SaveBegins DEF Terminal

LEMMA CancelSavesKeeps ==
  ASSUME BatchInv, NEW c \in Cancels, CancelSaves(c) PROVE BatchInv'
  <1>1. /\ step[c] = "flag" /\ c \in Savers /\ SaveStarts(c, copy[c])
        /\ UNCHANGED <<head, jobRows, key, step, mine, at, history, batchFlaws>>
    BY DEF CancelSaves, Savers
  <1>2. step[c] \notin Before \cup {"new", "over"}
    BY <1>1 DEF Before
  <1>3. copy[c] \in Records /\ copy[c].head.st = "cancelled" /\ c \notin Submits
    BY <1>1, <1>2, Knows, BatchAssumption DEF Located
  <1> QED
    BY <1>1, <1>3, SaveBegins

\* A save goes on.
LEMMA SaveGoesOn ==
  ASSUME BatchInv, NEW v \in Savers, Saving(v), Saving(v)',
         tx' \in [Savers -> Accesses], \A w \in Savers \ {v} : tx'[w] = tx[w],
         tx'[v].seen = tx[v].seen,
         UNCHANGED <<head, jobRows, key, step, mine, copy, at, history, batchFlaws>>,
         tx'[v].at = "drop" => \A w \in Savers : jobRows[mine[v]][w].agg => w \in tx'[v].drops
  PROVE  BatchInv'
  <1>1. Located(v) /\ BatchTypeOK /\ Fit(v)
    BY DEF BatchInv, Fit
  <1>2. step[v] \in {"normalize", "empty", "start", "chunk", "aggregate", "fail", "flag"}
    BY <1>1 DEF Located
  <1>3. /\ overlapped \subseteq disturbed /\ disturbed \subseteq Submits
        /\ batchFlaws \in 0..MaxBatchFlaws /\ copy \in [Savers -> Records]
        /\ at \in [Submits -> {0} \cup Parts] /\ step \in [Savers -> Stages]
    BY <1>1 DEF BatchTypeOK, Stages
  <1>4. /\ step' = step /\ mine' = mine /\ at' = at /\ head' = head /\ jobRows' = jobRows
        /\ key' = key /\ retried' = retried /\ disturbed' = disturbed /\ copy' = copy
        /\ overlapped' = overlapped /\ batchFlaws' = batchFlaws
    BY DEF history
  <1>5. tx'[v].at # "read"
    BY DEF Saving
  <1>6. /\ Located(v)' /\ (Candid(v) => Candid(v)') /\ (Behind(v) => Behind(v)')
        /\ OnCourse(v) => OnCourse(v)'
    <2>1. Located(v)'
      BY <1>1, <1>2, <1>4, <1>5 DEF Located
    <2>2. Candid(v) => Candid(v)'
      BY <1>4 DEF Candid, AllConfirmed, CancelDone
    <2>3. Behind(v) => Behind(v)'
      BY <1>2, <1>4 DEF Behind
    <2>4. OnCourse(v) => OnCourse(v)'
      BY <1>2, <1>4 DEF OnCourse, Passed, Full
    <2> QED
      BY <2>1, <2>2, <2>3, <2>4
  <1>7. Fit(v)'
    BY <1>1, <1>4, <1>6 DEF Fit
  <1> DEFINE where == step[v]
  <1>8. /\ where \in Running \cup {"look", "get", "ask", "flag", "dead", "over"}
        /\ where \in Running \cup {"look", "get", "ask", "flag"}
        /\ where \notin {"over", "look", "dead"}
    BY <1>2 DEF Running
  <1> HIDE DEF where
  <1>9. /\ step'[v] = where /\ step' \in [Savers -> Stages] /\ step[v] = where
        /\ \A w \in Savers \ {v} : step'[w] = step[w]
        /\ where \in Running => step[v] \in Running
    BY <1>3, <1>4 DEF where
  <1> QED
    BY <1>3, <1>4, <1>7, <1>8, <1>9, Moves

LEMMA UpdatesKeeps ==
  ASSUME BatchInv, NEW v \in Savers, SaveUpdates(v) PROVE BatchInv'
  <1> DEFINE cs == {w \in Savers : jobRows[mine[v]][w].items # NoResults}
  <1>1. /\ tx[v].at = "seen" /\ tx' = [tx EXCEPT ![v].at = "clear", ![v].clears = cs]
        /\ UNCHANGED <<head, jobRows, key, step, mine, copy, at, history, batchFlaws>>
    BY DEF SaveUpdates
  <1>2. cs \subseteq Savers
    OBVIOUS
  <1>3. tx \in [Savers -> Accesses]
    BY DEF BatchInv, BatchTypeOK
  <1> HIDE DEF cs
  <1>4. /\ tx' \in [Savers -> Accesses] /\ tx'[v].at = "clear" /\ tx'[v].seen = tx[v].seen
        /\ \A w \in Savers \ {v} : tx'[w] = tx[w]
    <2> DEFINE t == [tx[v] EXCEPT !.at = "clear", !.clears = cs]
    <2>1. tx[v] \in Accesses
      BY <1>3
    <2>2. t \in Accesses /\ t.at = "clear" /\ t.seen = tx[v].seen /\ t.clears = cs
      BY <1>2, <2>1 DEF Accesses
    <2>3. tx' = [tx EXCEPT ![v] = t]
      BY <1>1, <1>3
    <2> HIDE DEF t
    <2> QED
      BY <1>3, <2>2, <2>3
  <1>5. Saving(v) /\ Saving(v)'
    BY <1>1, <1>4 DEF Saving
  <1> QED
    BY <1>1, <1>4, <1>5, SaveGoesOn

LEMMA DeletesKeeps ==
  ASSUME BatchInv, NEW v \in Savers, SaveDeletes(v) PROVE BatchInv'
  <1> DEFINE ds == {w \in Savers : jobRows[mine[v]][w].agg}
  <1>1. /\ tx[v].at = "clear" /\ tx' = [tx EXCEPT ![v].at = "drop", ![v].drops = ds]
        /\ UNCHANGED <<head, jobRows, key, step, mine, copy, at, history, batchFlaws>>
    BY DEF SaveDeletes
  <1>2. ds \subseteq Savers /\ \A w \in Savers : jobRows[mine[v]][w].agg => w \in ds
    OBVIOUS
  <1>3. tx \in [Savers -> Accesses]
    BY DEF BatchInv, BatchTypeOK
  <1> HIDE DEF ds
  <1>4. /\ tx' \in [Savers -> Accesses] /\ tx'[v].at = "drop" /\ tx'[v].seen = tx[v].seen
        /\ tx'[v].drops = ds
        /\ \A w \in Savers \ {v} : tx'[w] = tx[w]
    <2> DEFINE t == [tx[v] EXCEPT !.at = "drop", !.drops = ds]
    <2>1. tx[v] \in Accesses
      BY <1>3
    <2>2. t \in Accesses /\ t.at = "drop" /\ t.seen = tx[v].seen /\ t.drops = ds
      BY <1>2, <2>1 DEF Accesses
    <2>3. tx' = [tx EXCEPT ![v] = t]
      BY <1>1, <1>3
    <2> HIDE DEF t
    <2> QED
      BY <1>3, <2>2, <2>3
  <1>5. Saving(v) /\ Saving(v)'
    BY <1>1, <1>4 DEF Saving
  <1>6. \A w \in Savers : jobRows[mine[v]][w].agg => w \in tx'[v].drops
    BY <1>2, <1>4
  <1> QED
    BY <1>1, <1>4, <1>5, <1>6, SaveGoesOn

\* A get begins.
LEMMA LooksKeeps ==
  ASSUME BatchInv, NEW s \in Submits, SubmitLooks(s) \/ RunReads(s) PROVE BatchInv'
  <1>1. /\ step[s] \in {"look", "resolve", "final", "caught"} /\ s \in Savers
        /\ Selects(s, mine[s]) /\ tx[s].at = "no"
        /\ UNCHANGED <<head, jobRows, key, step, mine, copy, at, history, batchFlaws>>
    BY DEF SubmitLooks, RunReads, Savers, Idle
  <1>2. step[s] \notin Before \cup {"new", "over"}
    BY <1>1 DEF Before
  <1>3. /\ BatchTypeOK /\ mine[s] \in Submits /\ Located(s)
        /\ s \in Submits /\ mine[s] \notin disturbed => OnCourse(s)
        /\ overlapped \subseteq disturbed /\ disturbed \subseteq Submits
        /\ batchFlaws \in 0..MaxBatchFlaws
        /\ at \in [Submits -> {0} \cup Parts] /\ copy \in [Savers -> Records]
        /\ step \in [Savers -> Stages]
    BY <1>1, <1>2, Knows
  <1>4. /\ tx' \in [Savers -> Accesses] /\ tx'[s].at = "read" /\ tx'[s].seen = head[mine[s]]
        /\ \A w \in Savers \ {s} : tx'[w] = tx[w]
    BY <1>1, <1>3, OneSelects
  <1>5. /\ step' = step /\ mine' = mine /\ at' = at /\ head' = head /\ jobRows' = jobRows
        /\ key' = key /\ retried' = retried /\ disturbed' = disturbed /\ copy' = copy
        /\ overlapped' = overlapped /\ batchFlaws' = batchFlaws
    BY <1>1 DEF history
  <1>6. ~Saving(s)' /\ Stored(mine[s])' = Stored(mine[s])
    BY <1>4, <1>5, StoredKept DEF Saving
  <1>7. Located(s)'
    BY <1>1, <1>3, <1>4, <1>5, <1>6 DEF Located
  <1>8. Candid(s)' /\ Behind(s)'
    BY <1>1, <1>5, <1>6 DEF Candid, Behind
  <1>9. OnCourse(s) => OnCourse(s)'
    BY <1>1, <1>4, <1>5, <1>6 DEF OnCourse, Passed, Full
  <1>10. Fit(s)'
    BY <1>3, <1>5, <1>7, <1>8, <1>9 DEF Fit
  <1> DEFINE where == step[s]
  <1>11. /\ where \in Running \cup {"look", "get", "ask", "flag", "dead", "over"}
         /\ where \in Running \cup {"look", "get", "ask", "flag"}
         /\ where \notin {"over", "dead"}
    BY <1>1 DEF Running
  <1> HIDE DEF where
  <1>12. /\ step'[s] = where /\ step' \in [Savers -> Stages] /\ step[s] = where
         /\ \A w \in Savers \ {s} : step'[w] = step[w]
         /\ where \in Running => step[s] \in Running
    BY <1>3, <1>5 DEF where
  <1> QED
    BY <1>1, <1>3, <1>4, <1>5, <1>10, <1>11, <1>12, Moves

\* The get of a run; another run of its job is noted.
LEMMA BeginsKeeps ==
  ASSUME BatchInv, NEW s \in Submits, RunBegins(s) PROVE BatchInv'
  <1>1. /\ step[s] = "get" /\ s \in Savers /\ Selects(s, mine[s]) /\ To(s, "load")
        /\ UNCHANGED <<head, jobRows, key, mine, copy, at, retried>>
    BY DEF RunBegins, Savers
  <1>2. step[s] \notin Before \cup {"new", "over"}
    BY <1>1 DEF Before
  <1>3. /\ BatchTypeOK /\ mine[s] \in Submits /\ Well(mine[s])
        /\ overlapped \subseteq disturbed /\ disturbed \subseteq Submits
        /\ batchFlaws \in 0..MaxBatchFlaws
        /\ at \in [Submits -> {0} \cup Parts] /\ copy \in [Savers -> Records]
    BY <1>1, <1>2, Knows
  <1>4. /\ tx' \in [Savers -> Accesses] /\ tx'[s].at = "read" /\ tx'[s].seen = head[mine[s]]
        /\ \A w \in Savers \ {s} : tx'[w] = tx[w]
    BY <1>1, <1>3, OneSelects
  <1>5. /\ step'[s] = "load" /\ \A w \in Savers \ {s} : step'[w] = step[w]
        /\ step' \in [Savers -> Stages]
    BY <1>1, <1>3, OneTo DEF Stages, Running
  <1>6. /\ disturbed \subseteq disturbed' /\ disturbed' \subseteq Submits
        /\ overlapped \subseteq overlapped' /\ overlapped' \subseteq disturbed'
        /\ batchFlaws' \in 0..MaxBatchFlaws
        /\ \A t \in Submits : mine[t] = mine[s] /\ InRun(t) => mine[s] \in overlapped'
    <2>1. CASE \E t \in Submits : InRun(t) /\ mine[t] = mine[s]
      <3>1. Overlap(mine[s])
        BY <2>1 DEF RunBegins
      <3>2. batchFlaws' \in 0..MaxBatchFlaws
        BY <1>3, <3>1, BatchAssumption DEF Overlap, BatchFlaw
      <3> QED
        BY <1>3, <3>1, <3>2 DEF Overlap
    <2>2. CASE ~\E t \in Submits : InRun(t) /\ mine[t] = mine[s]
      <3>1. UNCHANGED <<disturbed, overlapped, batchFlaws>>
        BY <2>2 DEF RunBegins
      <3> QED
        BY <1>3, <2>2, <3>1
    <2> QED
      BY <2>1, <2>2
  <1>7. ~Saving(s)' /\ Stored(mine[s])' = Stored(mine[s]) /\ s \notin Cancels
    BY <1>1, <1>4, StoredKept, BatchAssumption DEF Saving
  <1>8. CancelDone(mine[s]) => CancelDone(mine[s])'
    BY <1>1, <1>5, <1>7 DEF CancelDone, Savers
  <1>9. Located(s)'
    BY <1>1, <1>3, <1>4, <1>5, <1>7, BatchAssumption DEF Located, Before
  <1>10. ASSUME mine'[s] \in Submits \ overlapped' PROVE Candid(s)' /\ Behind(s)'
    <2>1. Candid(s)'
      BY <1>5, <1>7 DEF Candid
    <2>2. mine[s] \notin overlapped
      BY <1>1, <1>6, <1>10
    <2>3. /\ head[mine[s]].st = "complete" => AllConfirmed(Stored(mine[s]))
          /\ head[mine[s]].st = "complete" /\ head[mine[s]].region = "raw" => CancelDone(mine[s])
          /\ head[mine[s]].st = "cancelled" => CancelDone(mine[s])
      BY <1>3, <2>2 DEF Well
    <2>4. mine'[s] = mine[s]
      BY <1>1
    <2> QED
      BY <1>4, <1>7, <1>8, <2>1, <2>3, <2>4 DEF Behind, AllConfirmed
  <1>11. OnCourse(s)'
    BY <1>4, <1>5, <1>7 DEF OnCourse
  <1>12. Fit(s)'
    BY <1>9, <1>10, <1>11 DEF Fit
  <1>13. "load" \in Running
    BY DEF Running
  <1> QED
    BY <1>1, <1>3, <1>4, <1>5, <1>6, <1>12, <1>13, Moves

\* What a step leaves alone that ends a get.
LEMMA GetEnds ==
  ASSUME BatchInv, NEW v \in Savers, step[v] \notin Before \cup {"new", "over"}, Done(v),
         NEW where \in Stages, To(v, where), UNCHANGED <<head, jobRows, key, mine>>
  PROVE  /\ tx' \in [Savers -> Accesses] /\ tx'[v].at = "no" /\ ~Saving(v)'
         /\ \A w \in Savers \ {v} : tx'[w] = tx[w]
         /\ step' \in [Savers -> Stages] /\ step'[v] = where
         /\ \A w \in Savers \ {v} : step'[w] = step[w]
         /\ Stored(mine[v])' = Stored(mine[v])
         /\ step[v] \in Running \cup {"look", "get"} /\ v \in Submits =>
               (CancelDone(mine[v]) => CancelDone(mine[v])')
  <1>1. BatchTypeOK
    BY DEF BatchInv
  <1>2. /\ tx' \in [Savers -> Accesses] /\ tx'[v].at = "no" /\ ~Saving(v)'
        /\ \A w \in Savers \ {v} : tx'[w] = tx[w]
    BY <1>1, OneDone DEF Saving
  <1>3. /\ step' \in [Savers -> Stages] /\ step'[v] = where
        /\ \A w \in Savers \ {v} : step'[w] = step[w]
    BY <1>1, OneTo
  <1>4. Stored(mine[v])' = Stored(mine[v])
    BY StoredKept
  <1>5. v \in Submits => (CancelDone(mine[v]) => CancelDone(mine[v])')
    BY <1>3, BatchAssumption DEF CancelDone, Savers
  <1> QED
    BY <1>2, <1>3, <1>4, <1>5

LEMMA GetsKeeps ==
  ASSUME BatchInv, NEW s \in Submits, RunGets(s) PROVE BatchInv'
  <1> DEFINE where == CASE tx[s].seen.region = "raw" -> "normalize"
                        [] tx[s].seen.region = "targets" -> "start"
                        [] tx[s].seen.region = "empty" -> "empty"
  <1>1. /\ step[s] = "load" /\ s \in Savers /\ Holds(s, Got(s)) /\ To(s, where) /\ Done(s)
        /\ UNCHANGED <<head, jobRows, key, mine, at, history, batchFlaws>>
    BY DEF RunGets, Savers
  <1>2. step[s] \notin Before \cup {"new", "over"}
    BY <1>1 DEF Before
  <1>3. /\ BatchTypeOK /\ mine[s] \in Submits /\ tx[s] \in Accesses
        /\ mine[s] \notin overlapped => Candid(s) /\ Behind(s)
        /\ overlapped \subseteq disturbed /\ disturbed \subseteq Submits
        /\ batchFlaws \in 0..MaxBatchFlaws
        /\ at \in [Submits -> {0} \cup Parts]
    BY <1>1, <1>2, Knows
  <1>4. /\ where \in {"normalize", "start", "empty"}
        /\ where = "normalize" => tx[s].seen.region = "raw"
    BY <1>3 DEF Accesses, Headers
  <1> HIDE DEF where
  <1>5. /\ Stored(mine[s]) \in Lists /\ Got(s) \in Records
        /\ Got(s).items = Stored(mine[s]) /\ Got(s).head.st = tx[s].seen.st
    BY <1>1, <1>3, Gotten
  <1>6. /\ copy' \in [Savers -> Records] /\ copy'[s] = Got(s)
        /\ \A w \in Savers \ {s} : copy'[w] = copy[w]
    BY <1>1, <1>3, <1>5, OneHolds
  <1>7. where \in Stages /\ where \in Running
    BY <1>4 DEF Stages, Running
  <1>8. UNCHANGED <<head, jobRows, key, mine>>
    BY <1>1
  <1>9. /\ tx' \in [Savers -> Accesses] /\ tx'[s].at = "no" /\ ~Saving(s)'
        /\ \A w \in Savers \ {s} : tx'[w] = tx[w]
        /\ step' \in [Savers -> Stages] /\ step'[s] = where
        /\ \A w \in Savers \ {s} : step'[w] = step[w]
        /\ step[s] \in Running \cup {"look", "get"} /\ s \in Submits =>
               (CancelDone(mine[s]) => CancelDone(mine[s])')
    BY <1>1, <1>2, <1>7, <1>8, GetEnds
  <1>10. CancelDone(mine[s]) => CancelDone(mine[s])'
    BY <1>1, <1>9 DEF Running
  <1>11. Located(s)'
    BY <1>1, <1>3, <1>4, <1>9, BatchAssumption DEF Located, Before
  <1>12. mine'[s] = mine[s] /\ disturbed' = disturbed /\ overlapped' = overlapped /\ retried' = retried
    BY <1>1 DEF history
  <1>13. ASSUME mine[s] \notin overlapped PROVE Candid(s)' /\ Behind(s)'
    <2>1. where = "normalize" =>
             /\ tx[s].seen.st = "complete" => AllConfirmed(Stored(mine[s]))
             /\ tx[s].seen.st = "cancelled" => CancelDone(mine[s])
      BY <1>1, <1>3, <1>4, <1>13 DEF Behind
    <2>2. Candid(s)'
      BY <1>5, <1>6, <1>9, <1>10, <1>12, <2>1 DEF Candid, AllConfirmed
    <2>3. Behind(s)'
      BY <1>4, <1>9 DEF Behind
    <2> QED
      BY <2>2, <2>3
  <1>14. OnCourse(s)'
    BY <1>4, <1>9 DEF OnCourse
  <1>15. Fit(s)'
    BY <1>11, <1>12, <1>13, <1>14 DEF Fit
  <1>16. step[s] \in Running
    BY <1>1 DEF Running
  <1>17. where \notin {"over", "look", "dead"}
    BY <1>4
  <1> QED
    BY <1>1, <1>3, <1>6, <1>7, <1>9, <1>12, <1>15, <1>16, <1>17, Moves

\* A step that ends a get, or rolls a save back, and goes to where nothing is claimed of
\* a record but that it failed, was cancelled, or has results for the chunks passed.
LEMMA LetsGo ==
  ASSUME BatchInv, NEW v \in Savers, step[v] \in Running \cup {"look", "get", "ask"},
         Done(v), NEW where \in Stages, To(v, where),
         where \in {"get", "flag", "dead", "over", "chunk", "aggregate", "caught", "fail"},
         UNCHANGED <<head, jobRows, key, mine, retried, overlapped>>,
         copy' \in [Savers -> Records], \A w \in Savers \ {v} : copy'[w] = copy[w],
         at' \in [Submits -> {0} \cup Parts], \A s \in Submits \ {v} : at'[s] = at[s],
         disturbed \subseteq disturbed', disturbed' \subseteq Submits,
         batchFlaws' \in 0..MaxBatchFlaws,
         v \in Submits => where # "flag",
         v \in Cancels => where \in {"flag", "over"},
         where \in Running => step[v] \in Running,
         where = "over" => step[v] \in {"look", "ask"},
         where = "dead" => mine[v] \in disturbed',
         where = "flag" => copy'[v].head.st = "cancelled",
         where = "fail" => copy'[v].head.st = "failed",
         mine[v] \notin disturbed /\ v \in Submits =>
            /\ where = "chunk" => Passed(copy'[v].items, at'[v])
            /\ where = "aggregate" => Full(copy'[v].items)
  PROVE  BatchInv'
  <1>1. step[v] \notin Before \cup {"new", "over"}
    BY DEF Before, Running
  <1>2. mine[v] \in Submits /\ overlapped \subseteq disturbed
    BY <1>1, Knows
  <1>3. UNCHANGED <<head, jobRows, key, mine>>
    OBVIOUS
  <1>4. /\ tx' \in [Savers -> Accesses] /\ tx'[v].at = "no" /\ ~Saving(v)'
        /\ \A w \in Savers \ {v} : tx'[w] = tx[w]
        /\ step' \in [Savers -> Stages] /\ step'[v] = where
        /\ \A w \in Savers \ {v} : step'[w] = step[w]
    BY <1>1, <1>3, GetEnds
  <1>5. mine[v] # NoJob
    BY <1>2, BatchAssumption
  <1>6. Located(v)'
    BY <1>4, <1>5 DEF Located, Before
  <1>7. Candid(v)' /\ Behind(v)'
    BY <1>4 DEF Candid, Behind
  <1>8. v \in Submits /\ mine[v] \notin disturbed => OnCourse(v)'
    BY <1>4 DEF OnCourse, Passed, Full
  <1>9. Fit(v)'
    BY <1>6, <1>7, <1>8 DEF Fit
  <1>10. /\ step[v] \in Running \cup {"look", "get", "ask", "flag"}
         /\ where \in Running \cup {"look", "get", "ask", "flag", "dead", "over"}
         /\ where # "look" /\ overlapped' = overlapped
         /\ overlapped' \subseteq disturbed'
    BY <1>2 DEF Running
  <1> QED
    BY <1>3, <1>4, <1>9, <1>10, Moves

LEMMA ChunkGetsKeeps ==
  ASSUME BatchInv, NEW s \in Submits, ChunkGets(s) \/ FinalGets(s) PROVE BatchInv'
  <1>1. /\ step[s] \in {"resolve", "final"} /\ s \in Savers /\ Holds(s, Got(s)) /\ Done(s)
        /\ UNCHANGED <<head, jobRows, key, mine, at, history, batchFlaws>>
    BY DEF ChunkGets, FinalGets, Savers
  <1>2. PICK where \in {"chunk", "aggregate"} :
           To(s, where) /\ (where = "chunk" <=> step[s] = "resolve")
    BY DEF ChunkGets, FinalGets
  <1>3. step[s] \notin Before \cup {"new", "over"}
    BY <1>1 DEF Before
  <1>4. /\ BatchTypeOK /\ mine[s] \in Submits
        /\ mine[s] \notin disturbed => OnCourse(s)
        /\ disturbed \subseteq Submits
        /\ batchFlaws \in 0..MaxBatchFlaws
        /\ at \in [Submits -> {0} \cup Parts]
    BY <1>1, <1>3, Knows
  <1>5. Got(s) \in Records /\ Got(s).items = Stored(mine[s])
    BY <1>1, <1>4, Gotten
  <1>6. /\ copy' \in [Savers -> Records] /\ copy'[s] = Got(s)
        /\ \A w \in Savers \ {s} : copy'[w] = copy[w]
    BY <1>1, <1>4, <1>5, OneHolds
  <1>7. /\ where \in Stages /\ where \in Running
        /\ step[s] \in Running /\ step[s] \in Running \cup {"look", "get", "ask"}
        /\ where \in {"get", "flag", "dead", "over", "chunk", "aggregate", "caught", "fail"}
        /\ where \notin {"flag", "over", "dead", "fail"}
        /\ s \notin Cancels
    BY <1>1, BatchAssumption DEF Stages, Running
  <1>8. /\ UNCHANGED <<head, jobRows, key, mine, retried, overlapped>>
        /\ disturbed' = disturbed /\ at' = at /\ batchFlaws' = batchFlaws
    BY <1>1 DEF history
  <1>9. mine[s] \notin disturbed =>
           /\ where = "chunk" => Passed(copy'[s].items, at'[s])
           /\ where = "aggregate" => Full(copy'[s].items)
    BY <1>1, <1>2, <1>4, <1>5, <1>6, <1>8 DEF OnCourse
  <1> QED
    BY <1>1, <1>2, <1>4, <1>6, <1>7, <1>8, <1>9, LetsGo

LEMMA RaisesKeeps ==
  ASSUME BatchInv, NEW s \in Submits, RunRaises(s) PROVE BatchInv'
  <1>1. /\ step[s] \in Running \ {"load", "caught", "fail"} /\ s \in Savers
        /\ Done(s) /\ To(s, "caught")
        /\ UNCHANGED <<head, jobRows, key, mine, copy, at, history>>
        /\ BatchFlaw("raise") \/ UNCHANGED batchFlaws
    BY DEF RunRaises, Savers
  <1>2. step[s] \notin Before \cup {"new", "over"}
    BY <1>1 DEF Before, Running
  <1>3. /\ BatchTypeOK /\ disturbed \subseteq Submits
        /\ batchFlaws \in 0..MaxBatchFlaws /\ copy \in [Savers -> Records]
        /\ at \in [Submits -> {0} \cup Parts]
    BY <1>1, <1>2, Knows
  <1>4. batchFlaws' \in 0..MaxBatchFlaws
    BY <1>1, <1>3, BatchAssumption DEF BatchFlaw
  <1>5. "caught" \in Stages /\ "caught" \in Running /\ s \notin Cancels
    BY BatchAssumption DEF Stages, Running
  <1>6. /\ UNCHANGED <<head, jobRows, key, mine, retried, overlapped>>
        /\ disturbed' = disturbed /\ at' = at /\ copy' = copy
    BY <1>1 DEF history
  <1> QED
    BY <1>1, <1>3, <1>4, <1>5, <1>6, LetsGo

LEMMA CatchesKeeps ==
  ASSUME BatchInv, NEW s \in Submits, RunCatches(s) PROVE BatchInv'
  <1>1. /\ step[s] = "caught" /\ s \in Savers /\ Done(s) /\ To(s, "fail")
        /\ UNCHANGED <<head, jobRows, key, mine, at, history, batchFlaws>>
        /\ Holds(s, Failure(Got(s))) \/ Holds(s, Failure(Initial(s)))
    BY DEF RunCatches, Savers
  <1>2. step[s] \notin Before \cup {"new", "over"}
    BY <1>1 DEF Before
  <1>3. /\ BatchTypeOK /\ copy[s] \in Records /\ disturbed \subseteq Submits
        /\ batchFlaws \in 0..MaxBatchFlaws /\ at \in [Submits -> {0} \cup Parts]
    BY <1>1, <1>2, Knows
  <1>4. Got(s) \in Records
    BY <1>1, <1>3, Gotten
  <1>5. Initial(s) \in Records
    BY <1>3, NothingYet DEF Initial, Started, Records, Headers, JobStates
  <1>6. \A rec \in Records : Failure(rec) \in Records /\ Failure(rec).head.st = "failed"
    BY DEF Failure, Records, Headers, JobStates
  <1>7. PICK rec \in Records : rec.head.st = "failed" /\ Holds(s, rec)
    BY <1>1, <1>4, <1>5, <1>6
  <1>8. /\ copy' \in [Savers -> Records] /\ copy'[s] = rec
        /\ \A w \in Savers \ {s} : copy'[w] = copy[w]
    BY <1>1, <1>3, <1>7, OneHolds
  <1>9. "fail" \in Stages /\ "fail" \in Running /\ "caught" \in Running /\ s \notin Cancels
    BY BatchAssumption DEF Stages, Running
  <1>10. /\ UNCHANGED <<head, jobRows, key, mine, retried, overlapped>>
         /\ disturbed' = disturbed /\ at' = at /\ batchFlaws' = batchFlaws
    BY <1>1 DEF history
  <1> QED
    BY <1>1, <1>3, <1>7, <1>8, <1>9, <1>10, LetsGo

LEMMA CutOffKeeps ==
  ASSUME BatchInv, NEW s \in Submits, RunIsCutOff(s) PROVE BatchInv'
  <1>1. /\ step[s] \in {"get"} \cup Running /\ s \in Savers
        /\ To(s, "dead") /\ disturbed' = disturbed \cup {mine[s]}
        /\ Holds(s, NoRecord) /\ at' = [at EXCEPT ![s] = 0] /\ Done(s)
        /\ UNCHANGED <<head, jobRows, key, mine, retried, overlapped>>
        /\ BatchFlaw("raise") \/ BatchFlaw("die") \/ UNCHANGED batchFlaws
    BY DEF RunIsCutOff, Savers, Running
  <1>2. step[s] \notin Before \cup {"new", "over"}
    BY <1>1 DEF Before, Running
  <1>3. /\ BatchTypeOK /\ mine[s] \in Submits /\ disturbed \subseteq Submits
        /\ batchFlaws \in 0..MaxBatchFlaws /\ at \in [Submits -> {0} \cup Parts]
    BY <1>1, <1>2, Knows
  <1>4. batchFlaws' \in 0..MaxBatchFlaws
    BY <1>1, <1>3, BatchAssumption DEF BatchFlaw
  <1>5. /\ copy' \in [Savers -> Records] /\ \A w \in Savers \ {s} : copy'[w] = copy[w]
    BY <1>1, <1>3, NothingYet, OneHolds
  <1>6. /\ at' \in [Submits -> {0} \cup Parts] /\ \A t \in Submits \ {s} : at'[t] = at[t]
    BY <1>1, <1>3
  <1>7. "dead" \in Stages /\ s \notin Cancels /\ "dead" \notin Running
    BY BatchAssumption DEF Stages, Running
  <1>8. disturbed \subseteq disturbed' /\ disturbed' \subseteq Submits /\ mine[s] \in disturbed'
    BY <1>1, <1>3
  <1> QED
    BY <1>1, <1>4, <1>5, <1>6, <1>7, <1>8, LetsGo

LEMMA CancelGetsKeeps ==
  ASSUME BatchInv, NEW c \in Cancels, CancelGets(c) PROVE BatchInv'
  <1>1. /\ step[c] = "ask" /\ c \in Savers /\ Done(c)
        /\ \/ /\ Holds(c, [Got(c) EXCEPT !.head.st = "cancelled"]) /\ To(c, "flag")
           \/ /\ To(c, "over") /\ UNCHANGED copy
        /\ UNCHANGED <<head, jobRows, key, mine, at, history, batchFlaws>>
    BY DEF CancelGets, Savers
  <1>2. step[c] \notin Before \cup {"new", "over"}
    BY <1>1 DEF Before
  <1>3. /\ BatchTypeOK /\ copy \in [Savers -> Records] /\ disturbed \subseteq Submits
        /\ batchFlaws \in 0..MaxBatchFlaws /\ at \in [Submits -> {0} \cup Parts]
    BY <1>1, <1>2, Knows
  <1>4. /\ UNCHANGED <<head, jobRows, key, mine, retried, overlapped>>
        /\ disturbed' = disturbed /\ at' = at /\ batchFlaws' = batchFlaws
    BY <1>1 DEF history
  <1>5. /\ {"flag", "over"} \subseteq Stages /\ c \notin Submits
        /\ "flag" \notin Running /\ "over" \notin Running
    BY BatchAssumption DEF Stages, Running
  <1>6. CASE Holds(c, [Got(c) EXCEPT !.head.st = "cancelled"]) /\ To(c, "flag")
    <2> DEFINE rec == [Got(c) EXCEPT !.head.st = "cancelled"]
    <2>1. Got(c) \in Records
      BY <1>1, <1>3, Gotten
    <2>2. rec \in Records /\ rec.head.st = "cancelled"
      BY <2>1 DEF Records, Headers, JobStates
    <2>3. Holds(c, rec)
      BY <1>6
    <2> HIDE DEF rec
    <2>4. /\ copy' \in [Savers -> Records] /\ copy'[c] = rec
          /\ \A w \in Savers \ {c} : copy'[w] = copy[w]
      BY <1>1, <1>3, <2>2, <2>3, OneHolds
    <2>5. To(c, "flag")
      BY <1>6
    <2> QED
      BY <1>1, <1>3, <1>4, <1>5, <2>2, <2>4, <2>5, LetsGo
  <1>7. CASE To(c, "over") /\ UNCHANGED copy
    BY <1>1, <1>3, <1>4, <1>5, <1>7, LetsGo
  <1> QED
    BY <1>1, <1>6, <1>7

\* The job that was found is good enough.
LEMMA SharesKeeps ==
  ASSUME BatchInv, NEW s \in Submits, SubmitDecides(s), Has(s) /\ ~BadEnd(Got(s)),
         UNCHANGED <<mine, retried>>, NEW where \in {"over", "get"}, To(s, where)
  PROVE  BatchInv'
  <1>1. /\ step[s] = "look" /\ s \in Savers /\ Done(s)
        /\ UNCHANGED <<head, jobRows, key, copy, at, disturbed, overlapped, batchFlaws>>
    BY DEF SubmitDecides, Savers
  <1>2. step[s] \notin Before \cup {"new", "over"}
    BY <1>1 DEF Before
  <1>3. /\ BatchTypeOK /\ copy \in [Savers -> Records] /\ disturbed \subseteq Submits
        /\ batchFlaws \in 0..MaxBatchFlaws /\ at \in [Submits -> {0} \cup Parts]
    BY <1>1, <1>2, Knows
  <1>4. where \in Stages /\ where \notin Running /\ s \notin Cancels
    BY BatchAssumption DEF Stages, Running
  <1>5. UNCHANGED <<head, jobRows, key, mine, retried, overlapped>>
    BY <1>1
  <1> QED
    BY <1>1, <1>3, <1>4, <1>5, LetsGo

-----------------------------------------------------------------------------
(* Submissions, and cancellations that begin.                              *)

\* A submission that was not given its own job: nobody has that.
LEMMA NotGivenYet ==
  ASSUME BatchInv, NEW s \in Submits, mine[s] # s
  PROVE  key # s /\ \A w \in Savers : mine[w] # s
  BY BatchAssumption DEF BatchInv, GivenPast

\* A submission before its run goes on, with the job it has or without.
LEMMA Turns ==
  ASSUME BatchInv, NEW s \in Submits, step[s] \in Before \cup {"look"},
         NEW where \in Before \cup {"look", "over", "get"}, To(s, where),
         NEW j \in Submits \cup {NoJob}, mine' = [mine EXCEPT ![s] = j],
         tx' \in [Savers -> Accesses], tx'[s].at = "no", \A w \in Savers \ {s} : tx'[w] = tx[w],
         UNCHANGED <<head, jobRows, copy, at, disturbed, overlapped, batchFlaws>>,
         key' \in Submits \cup {NoJob}, retried' \in BOOLEAN, GivenPast', KeyKept',
         where \in Before => j = NoJob, where \in {"look", "get"} => j # NoJob,
         j = s => where = "get"
  PROVE  BatchInv'
  <1>1. BatchTypeOK /\ s \in Savers
    BY DEF BatchInv, Savers
  <1>2. where \in Stages
    BY DEF Before, Stages
  <1>3. /\ step' \in [Savers -> Stages] /\ step'[s] = where
        /\ \A w \in Savers \ {s} : step'[w] = step[w]
    BY <1>1, <1>2, OneTo
  <1>4. /\ mine' \in [Savers -> Submits \cup {NoJob}] /\ mine'[s] = j
        /\ \A w \in Savers \ {s} : mine'[w] = mine[w]
    BY <1>1 DEF BatchTypeOK
  <1>5. BatchTypeOK'
    BY <1>1, <1>3, <1>4 DEF BatchTypeOK, Stages
  <1>6. ~InRun(s)' /\ step'[s] # "dead"
    BY <1>3 DEF InRun, Before, Running
  <1>7. \A t \in Submits : t # s => (InRun(t)' <=> InRun(t)) /\ mine'[t] = mine[t] /\ step'[t] = step[t]
    BY <1>3, <1>4 DEF InRun, Savers
  <1>8. \A c \in Cancels : mine'[c] = mine[c]
    BY <1>4, BatchAssumption DEF Savers
  <1>9. OneAtOnce' /\ Alone'
    <2>1. OneAtOnce /\ Alone
      BY DEF BatchInv
    <2>2. OneAtOnce'
      BY <1>6, <1>7, <1>8, <2>1 DEF OneAtOnce
    <2>3. Alone'
      BY <1>6, <1>7, <1>8, <2>1 DEF Alone
    <2> QED
      BY <2>2, <2>3
  <1>10. Fit(s)'
    <2>1. Located(s)'
      BY <1>3, <1>4, BatchAssumption DEF Located, Before, Saving
    <2>2. Candid(s)' /\ Behind(s)' /\ OnCourse(s)'
      BY <1>3 DEF Candid, Behind, OnCourse, Before, Saving
    <2> QED
      BY <2>1, <2>2 DEF Fit
  <1>11. s \notin Cancels
    BY BatchAssumption
  <1>12. ASSUME NEW i \in Submits \ disturbed', GivenOut(i)', Quiet(i)'
         PROVE  GivenOut(i) /\ Quiet(i)
    <2>1. i # s
      BY <1>3, <1>4, <1>12 DEF GivenOut, Quiet, Before
    <2>2. GivenOut(i)
      BY <1>4, <1>12, <2>1 DEF GivenOut, Savers
    <2>3. mine[s] = i => step[s] = "look"
      BY <1>1, BatchAssumption DEF BatchInv, Fit, Located
    <2>4. Quiet(i)
      BY <1>7, <1>12, <2>3 DEF Quiet
    <2> QED
      BY <2>2, <2>4
  <1>13. \A w \in Savers \ {s} : /\ step'[w] = step[w] /\ mine'[w] = mine[w]
                                 /\ copy'[w] = copy[w] /\ tx'[w] = tx[w]
    BY <1>3, <1>4
  <1>14. (\A w \in Savers : Fit(w)') /\ (\A i \in Submits : Well(i)')
    BY <1>1, <1>10, <1>11, <1>12, <1>13, Kept
  <1> QED
    BY <1>5, <1>9, <1>14 DEF BatchInv

\* A submission that is not reading has no get or save under way.
LEMMA Unread ==
  ASSUME BatchInv, NEW s \in Submits, step[s] \in Before
  PROVE  /\ s \in Savers /\ tx[s].at = "no" /\ mine[s] = NoJob /\ mine[s] # s
         /\ BatchTypeOK /\ tx \in [Savers -> Accesses]
         /\ key \in Submits \cup {NoJob} /\ retried \in BOOLEAN
         /\ mine \in [Savers -> Submits \cup {NoJob}]
  <1>1. BatchTypeOK /\ Located(s) /\ s \in Savers
    BY DEF BatchInv, Fit, Savers
  <1>2. tx[s] \in Accesses
    BY <1>1 DEF BatchTypeOK
  <1>3. /\ tx \in [Savers -> Accesses] /\ key \in Submits \cup {NoJob} /\ retried \in BOOLEAN
        /\ mine \in [Savers -> Submits \cup {NoJob}]
    BY <1>1, Zenon DEF BatchTypeOK
  <1> QED
    BY <1>1, <1>2, <1>3, BatchAssumption DEF Located, Before, Saving, Accesses

LEMMA FindsKeeps ==
  ASSUME BatchInv, NEW s \in Submits, SubmitFinds(s) PROVE BatchInv'
  <1> DEFINE where == IF key = NoJob THEN "save" ELSE "look"
  <1>1. /\ step[s] = "find" /\ mine' = [mine EXCEPT ![s] = key] /\ To(s, where)
        /\ UNCHANGED <<head, jobRows, key, copy, tx, at, history, batchFlaws>>
    BY DEF SubmitFinds
  <1>2. step[s] \in Before
    BY <1>1 DEF Before
  <1>3. /\ s \in Savers /\ tx[s].at = "no" /\ mine[s] = NoJob /\ mine[s] # s /\ BatchTypeOK
        /\ tx \in [Savers -> Accesses] /\ key \in Submits \cup {NoJob} /\ retried \in BOOLEAN
        /\ mine \in [Savers -> Submits \cup {NoJob}]
    BY <1>2, Unread
  <1>4. key # s /\ \A w \in Savers : mine[w] # s
    BY <1>3, NotGivenYet
  <1>5. mine'[s] = key /\ \A w \in Savers \ {s} : mine'[w] = mine[w]
    BY <1>1, <1>3
  <1>6. /\ where \in Before \cup {"look", "over", "get"}
        /\ where \in Before => key = NoJob
        /\ where \in {"look", "get"} => key # NoJob
        /\ where # "unbind"
    BY DEF Before
  <1> HIDE DEF where
  <1>7. /\ key' = key /\ retried' = retried /\ tx' = tx
        /\ UNCHANGED <<head, jobRows, copy, at, disturbed, overlapped, batchFlaws>>
    BY <1>1 DEF history
  <1>8. GivenPast'
    <2>1. ASSUME NEW w \in Savers, mine'[w] # NoJob PROVE mine'[mine'[w]] = mine'[w]
      <3>1. mine'[w] # s /\ mine'[w] \in Savers /\ mine[mine'[w]] = mine'[w]
        BY <1>3, <1>4, <1>5, <2>1 DEF BatchInv, GivenPast, Savers
      <3> QED
        BY <1>5, <3>1
    <2>2. key # NoJob => mine'[key] = key
      BY <1>3, <1>4, <1>5 DEF BatchInv, GivenPast, Savers
    <2> QED
      BY <1>7, <2>1, <2>2 DEF GivenPast
  <1>9. KeyKept'
    <2>1. \A t \in Submits : step'[t] = "unbind" => step[t] = "unbind"
      BY <1>1, <1>3, <1>6, OneTo DEF Savers
    <2>2. KeyKept /\ \A t \in Submits : t \in Savers
      BY DEF BatchInv, Savers
    <2> QED
      BY <1>5, <1>7, <2>1, <2>2 DEF KeyKept
  <1>10. step[s] \in Before \cup {"look"}
    BY <1>2
  <1> QED
    BY <1>1, <1>3, <1>4, <1>6, <1>7, <1>8, <1>9, <1>10, Turns

\* The job that was found ended badly, or cannot be read.
LEMMA DecidesKeeps ==
  ASSUME BatchInv, NEW s \in Submits, SubmitDecides(s) PROVE BatchInv'
  <1>1. /\ step[s] = "look" /\ s \in Savers /\ Done(s)
        /\ UNCHANGED <<head, jobRows, key, copy, at, disturbed, overlapped, batchFlaws>>
    BY DEF SubmitDecides, Savers
  <1>2. CASE /\ mine' = [mine EXCEPT ![s] = NoJob]
             /\ (To(s, "over") /\ UNCHANGED retried) \/ (To(s, "unbind") /\ retried' = TRUE)
    <2>1. PICK where \in {"over", "unbind"} :
             To(s, where) /\ (where = "over" => retried' = retried) /\ (where = "unbind" => retried' = TRUE)
      BY <1>2
    <2>2. step[s] \notin Before \cup {"new", "over"}
      BY <1>1 DEF Before
    <2>3. BatchTypeOK /\ Located(s)
      BY <1>1, <2>2, Knows
    <2>4. mine[s] # s /\ retried \in BOOLEAN /\ key \in Submits \cup {NoJob}
      BY <1>1, <2>3, Zenon DEF Located, BatchTypeOK
    <2>5. key # s /\ \A w \in Savers : mine[w] # s
      BY <2>4, NotGivenYet
    <2>6. mine'[s] = NoJob /\ \A w \in Savers \ {s} : mine'[w] = mine[w]
      BY <1>1, <1>2, <2>3 DEF BatchTypeOK
    <2>7. GivenPast'
      <3>1. ASSUME NEW w \in Savers, mine'[w] # NoJob PROVE mine'[mine'[w]] = mine'[w]
        <4>1. w # s /\ mine[w] # s /\ mine[w] \in Savers /\ mine[mine[w]] = mine[w]
          BY <2>3, <2>5, <2>6, <3>1 DEF BatchInv, GivenPast, Savers, BatchTypeOK
        <4> QED
          BY <2>6, <4>1
      <3>2. key # NoJob => mine'[key] = key
        BY <2>4, <2>5, <2>6 DEF BatchInv, GivenPast, Savers
      <3> QED
        BY <1>1, <3>1, <3>2 DEF GivenPast
    <2>8. KeyKept'
      <3>1. \A t \in Submits : t # s => step'[t] = step[t]
        BY <1>1, <2>1, <2>3, OneTo DEF Savers
      <3>2. step'[s] = where
        BY <1>1, <2>1, <2>3, OneTo
      <3>3. KeyKept /\ \A t \in Submits : t \in Savers
        BY DEF BatchInv, Savers
      <3> QED
        BY <1>1, <2>1, <2>6, <3>1, <3>2, <3>3 DEF KeyKept
    <2>9. /\ tx' \in [Savers -> Accesses] /\ tx'[s].at = "no"
          /\ \A w \in Savers \ {s} : tx'[w] = tx[w]
      BY <1>1, <2>3, OneDone
    <2>10. /\ where \in Before \cup {"look", "over", "get"} /\ where \notin {"look", "get"}
           /\ step[s] \in Before \cup {"look"} /\ NoJob # s
      BY <1>1, BatchAssumption DEF Before
    <2>11. retried' \in BOOLEAN /\ key' \in Submits \cup {NoJob} /\ NoJob \in Submits \cup {NoJob}
      BY <1>1, <2>1, <2>4
    <2> QED
      BY <1>1, <1>2, <2>1, <2>7, <2>8, <2>9, <2>10, <2>11, Turns
  <1>3. CASE /\ Has(s) /\ ~BadEnd(Got(s))
             /\ To(s, IF tx[s].seen.st \in {"complete", "partial"} THEN "over" ELSE "get")
             /\ UNCHANGED <<mine, retried>>
    <2>1. PICK where \in {"over", "get"} : To(s, where)
      BY <1>3
    <2> QED
      BY <1>3, <2>1, SharesKeeps
  <1> QED
    BY <1>2, <1>3 DEF SubmitDecides

LEMMA UnbindsKeeps ==
  ASSUME BatchInv, NEW s \in Submits, SubmitUnbinds(s) PROVE BatchInv'
  <1>1. /\ step[s] = "unbind" /\ key' = NoJob /\ To(s, "save")
        /\ UNCHANGED <<head, jobRows, mine, copy, tx, at, history, batchFlaws>>
    BY DEF SubmitUnbinds
  <1>2. step[s] \in Before
    BY <1>1 DEF Before
  <1>3. /\ s \in Savers /\ tx[s].at = "no" /\ mine[s] = NoJob /\ mine[s] # s /\ BatchTypeOK
        /\ tx \in [Savers -> Accesses] /\ key \in Submits \cup {NoJob} /\ retried \in BOOLEAN
        /\ mine \in [Savers -> Submits \cup {NoJob}]
    BY <1>2, Unread
  <1>4. /\ retried' = retried /\ tx' = tx /\ mine' = mine
        /\ UNCHANGED <<head, jobRows, copy, at, disturbed, overlapped, batchFlaws>>
    BY <1>1 DEF history
  <1>5. mine' = [mine EXCEPT ![s] = NoJob]
    BY <1>3, <1>4
  <1>6. GivenPast'
    BY <1>1, <1>4 DEF BatchInv, GivenPast
  <1>7. KeyKept'
    BY <1>1, <1>4 DEF BatchInv, KeyKept
  <1>8. /\ "save" \in Before /\ "save" \in Before \cup {"look", "over", "get"}
        /\ step[s] \in Before \cup {"look"} /\ NoJob # s /\ NoJob \in Submits \cup {NoJob}
    BY <1>2, BatchAssumption DEF Before
  <1>9. /\ key' \in Submits \cup {NoJob} /\ retried' \in BOOLEAN
        /\ tx' \in [Savers -> Accesses] /\ tx'[s].at = "no"
        /\ \A w \in Savers \ {s} : tx'[w] = tx[w]
    BY <1>1, <1>3, <1>4, Zenon
  <1>10. To(s, "save") /\ "save" \notin {"look", "get"}
    BY <1>1
  <1>11. UNCHANGED <<head, jobRows, copy, at, disturbed, overlapped, batchFlaws>>
    BY <1>4
  <1> QED
    BY <1>5, <1>6, <1>7, <1>8, <1>9, <1>10, <1>11, Turns

LEMMA BindsKeeps ==
  ASSUME BatchInv, NEW s \in Submits, SubmitBinds(s) PROVE BatchInv'
  <1>1. /\ step[s] = "bind"
        /\ UNCHANGED <<head, jobRows, copy, tx, at, history, batchFlaws>>
    BY DEF SubmitBinds
  <1>2. step[s] \in Before
    BY <1>1 DEF Before
  <1>3. /\ s \in Savers /\ tx[s].at = "no" /\ mine[s] = NoJob /\ mine[s] # s /\ BatchTypeOK
        /\ tx \in [Savers -> Accesses] /\ key \in Submits \cup {NoJob} /\ retried \in BOOLEAN
        /\ mine \in [Savers -> Submits \cup {NoJob}]
    BY <1>2, Unread
  <1>4. /\ retried' = retried /\ tx' = tx
        /\ UNCHANGED <<head, jobRows, copy, at, disturbed, overlapped, batchFlaws>>
    BY <1>1 DEF history
  <1>5. key # s /\ \A w \in Savers : mine[w] # s
    BY <1>3, NotGivenYet
  <1>6. step[s] \in Before \cup {"look"} /\ NoJob # s /\ \A t \in Submits : t \in Savers
    BY <1>2, BatchAssumption DEF Savers
  <1>7. CASE key = NoJob
    <2>1. key' = s /\ mine' = [mine EXCEPT ![s] = s] /\ To(s, "get")
      BY <1>7 DEF SubmitBinds, Bindable
    <2>2. mine'[s] = s /\ \A w \in Savers \ {s} : mine'[w] = mine[w]
      BY <1>3, <2>1
    <2>3. GivenPast'
      <3>1. ASSUME NEW w \in Savers, mine'[w] # NoJob PROVE mine'[mine'[w]] = mine'[w]
        <4>1. CASE w # s
          <5>1. mine[w] # s /\ mine[w] \in Savers /\ mine[mine[w]] = mine[w]
            BY <1>3, <1>5, <2>2, <3>1, <4>1 DEF BatchInv, GivenPast, Savers
          <5> QED
            BY <2>2, <4>1, <5>1
        <4> QED
          BY <2>2, <4>1
      <3> QED
        BY <2>1, <2>2, <3>1 DEF GivenPast
    <2>4. KeyKept'
      <3>1. \A t \in Submits : step'[t] = "unbind" => step[t] = "unbind"
        BY <1>3, <1>6, <2>1, OneTo
      <3>2. KeyKept
        BY DEF BatchInv
      <3> QED
        BY <1>4, <1>6, <1>7, <2>1, <2>2, <3>1, <3>2 DEF KeyKept
    <2>5. /\ "get" \notin Before /\ "get" \in Before \cup {"look", "over", "get"}
          /\ s \in Submits \cup {NoJob} /\ key' \in Submits \cup {NoJob} /\ retried' \in BOOLEAN
      BY <1>3, <1>4, <2>1 DEF Before
    <2> QED
      BY <1>3, <1>4, <1>6, <2>1, <2>3, <2>4, <2>5, Turns
  <1>8. CASE key # NoJob
    <2>1. To(s, "over") /\ key' = key /\ mine' = mine
      BY <1>8 DEF SubmitBinds, Bindable
    <2>2. mine' = [mine EXCEPT ![s] = NoJob]
      BY <1>3, <2>1
    <2>3. GivenPast'
      BY <2>1 DEF BatchInv, GivenPast
    <2>4. KeyKept'
      <3>1. \A t \in Submits : step'[t] = "unbind" => step[t] = "unbind"
        BY <1>3, <1>6, <2>1, OneTo
      <3> QED
        BY <1>4, <2>1, <3>1 DEF BatchInv, KeyKept
    <2>5. /\ "over" \notin Before /\ "over" \in Before \cup {"look", "over", "get"}
          /\ NoJob \in Submits \cup {NoJob} /\ key' \in Submits \cup {NoJob} /\ retried' \in BOOLEAN
      BY <1>3, <1>4, <2>1 DEF Before
    <2> QED
      BY <1>3, <1>4, <1>6, <2>1, <2>2, <2>3, <2>4, <2>5, Turns
  <1> QED
    BY <1>7, <1>8

\* A new job, which nobody has yet.
LEMMA SubmitSavesKeeps ==
  ASSUME BatchInv, NEW s \in Submits, SubmitSaves(s) PROVE BatchInv'
  <1>1. /\ step[s] = "save" /\ head' = [head EXCEPT ![s] = [NoHead EXCEPT !.st = "queued"]]
        /\ jobRows' = [jobRows EXCEPT ![s][s].agg = TRUE] /\ To(s, "bind")
        /\ UNCHANGED <<key, mine, copy, tx, at, history, batchFlaws>>
    BY DEF SubmitSaves
  <1>2. step[s] \in Before
    BY <1>1 DEF Before
  <1>3. /\ s \in Savers /\ tx[s].at = "no" /\ mine[s] = NoJob /\ mine[s] # s /\ BatchTypeOK
    BY <1>2, Unread
  <1>4. \A w \in Savers : mine[w] # s
    BY <1>3, NotGivenYet
  <1>5. /\ key' = key /\ mine' = mine /\ copy' = copy /\ tx' = tx /\ at' = at
        /\ retried' = retried /\ disturbed' = disturbed /\ overlapped' = overlapped
        /\ batchFlaws' = batchFlaws
    BY <1>1 DEF history
  <1>6. /\ step' \in [Savers -> Stages] /\ step'[s] = "bind"
        /\ \A w \in Savers \ {s} : step'[w] = step[w]
    BY <1>1, <1>3, OneTo DEF Stages
  <1>7. /\ head' \in [Submits -> Headers] /\ head'[s].st = "queued"
        /\ \A j \in Submits \ {s} : head'[j] = head[j]
    <2>1. [NoHead EXCEPT !.st = "queued"] \in Headers /\ [NoHead EXCEPT !.st = "queued"].st = "queued"
      BY NothingYet DEF Headers, JobStates
    <2> QED
      BY <1>1, <1>3, <2>1 DEF BatchTypeOK
  <1>8. /\ jobRows' \in [Submits -> [Savers -> [items : Lists, agg : BOOLEAN]]]
        /\ \A j \in Submits \ {s} : jobRows'[j] = jobRows[j]
    <2> DEFINE Rs == [items : Lists, agg : BOOLEAN]
               new == [jobRows[s] EXCEPT ![s].agg = TRUE]
    <2>1. jobRows \in [Submits -> [Savers -> Rs]]
      BY <1>3 DEF BatchTypeOK
    <2>2. jobRows[s][s] \in Rs
      BY <1>3, <2>1
    <2>3. [jobRows[s][s] EXCEPT !.agg = TRUE] \in Rs
      BY <2>2
    <2>4. new \in [Savers -> Rs]
      BY <2>1, <2>3, <1>3
    <2>5. jobRows' = [jobRows EXCEPT ![s] = new]
      BY <1>1
    <2> HIDE DEF new, Rs
    <2>6. /\ jobRows' \in [Submits -> [Savers -> Rs]]
          /\ \A j \in Submits \ {s} : jobRows'[j] = jobRows[j]
      BY <2>1, <2>4, <2>5
    <2> QED
      BY <2>6 DEF Rs
  <1>9. BatchTypeOK'
    BY <1>3, <1>5, <1>6, <1>7, <1>8 DEF BatchTypeOK, Stages
  <1>10. GivenPast'
    BY <1>5 DEF BatchInv, GivenPast
  <1>11. \A t \in Submits : /\ step'[t] = "unbind" => step[t] = "unbind"
                            /\ step'[t] = "dead" => step[t] = "dead"
                            /\ InRun(t)' => InRun(t)
    BY <1>6 DEF Savers, InRun, Running
  <1>12. KeyKept' /\ OneAtOnce' /\ Alone'
    <2>1. KeyKept /\ OneAtOnce /\ Alone
      BY DEF BatchInv
    <2>2. KeyKept'
      BY <1>5, <1>11, <2>1 DEF KeyKept
    <2>3. OneAtOnce'
      BY <1>5, <1>11, <2>1 DEF OneAtOnce
    <2>4. Alone'
      BY <1>5, <1>11, <2>1 DEF Alone
    <2> QED
      BY <2>2, <2>3, <2>4
  <1>13. \A j \in Submits : CancelDone(j)' <=> CancelDone(j)
    BY <1>5, <1>6, BatchAssumption DEF CancelDone, Savers
  <1>14. \A j \in Submits \ {s} : Stored(j)' = Stored(j) /\ (Readable(j)' <=> Readable(j))
    BY <1>8, StoredKept
  <1>15. ASSUME NEW w \in Savers PROVE Fit(w)'
    <2>1. CASE w = s
      <3>1. Located(s)'
        BY <1>3, <1>5, <1>6, BatchAssumption DEF Located, Before, Saving
      <3>2. mine'[s] \notin Submits
        BY <1>3, <1>5, BatchAssumption
      <3> QED
        BY <2>1, <3>1, <3>2 DEF Fit
    <2>2. CASE w # s
      <3>1. /\ step'[w] = step[w] /\ mine'[w] = mine[w] /\ copy'[w] = copy[w] /\ tx'[w] = tx[w]
            /\ at'[w] = at[w]
        BY <1>5, <1>6, <2>2
      <3>2. Saving(w)' <=> Saving(w)
        BY <3>1 DEF Saving
      <3>3. Fit(w)
        BY DEF BatchInv
      <3>4. Located(w)'
        BY <3>1, <3>2, <3>3 DEF Fit, Located
      <3>5. mine[w] \in Submits => /\ head'[mine[w]] = head[mine[w]]
                                   /\ jobRows'[mine[w]] = jobRows[mine[w]]
                                   /\ Stored(mine[w])' = Stored(mine[w])
                                   /\ CancelDone(mine[w])' <=> CancelDone(mine[w])
        BY <1>4, <1>7, <1>8, <1>13, <1>14, <3>1
      <3>6. ASSUME mine'[w] \in Submits \ overlapped' PROVE Candid(w)' /\ Behind(w)'
        <4>1. Candid(w) /\ Behind(w) /\ mine[w] \in Submits
          BY <1>5, <3>3, <3>6 DEF Fit
        <4>2. Candid(w)'
          BY <3>1, <3>2, <3>5, <4>1 DEF Candid, AllConfirmed
        <4>3. Behind(w)'
          BY <3>1, <3>2, <3>5, <4>1 DEF Behind, AllConfirmed
        <4> QED
          BY <4>2, <4>3
      <3>7. ASSUME w \in Submits, mine'[w] \in Submits \ disturbed' PROVE OnCourse(w)'
        <4>1. OnCourse(w) /\ mine[w] \in Submits
          BY <1>5, <3>3, <3>7 DEF Fit
        <4> QED
          BY <3>1, <3>2, <3>5, <4>1 DEF OnCourse, Passed, Full
      <3> QED
        BY <3>4, <3>6, <3>7 DEF Fit
    <2> QED
      BY <2>1, <2>2
  <1>16. ASSUME NEW j \in Submits PROVE Well(j)'
    <2>1. CASE j = s
      <3>1. ~GivenOut(s)'
        BY <1>3, <1>5 DEF GivenOut
      <3> QED
        BY <1>7, <2>1, <3>1 DEF Well
    <2>2. CASE j # s
      <3>1. Well(j)
        BY DEF BatchInv
      <3>2. Quiet(j)' => Quiet(j)
        BY <1>5, <1>6, <1>3, BatchAssumption DEF Quiet, Savers
      <3>3. head'[j] = head[j] /\ (GivenOut(j)' <=> GivenOut(j))
        BY <1>5, <1>7, <2>2 DEF GivenOut
      <3> QED
        BY <1>5, <1>13, <1>14, <2>2, <3>1, <3>2, <3>3 DEF Well, AllConfirmed
    <2> QED
      BY <2>1, <2>2
  <1> QED
    BY <1>9, <1>10, <1>12, <1>15, <1>16 DEF BatchInv

LEMMA AsksKeeps ==
  ASSUME BatchInv, NEW c \in Cancels, NEW j \in Submits, CancelAsks(c, j) PROVE BatchInv'
  <1>1. /\ step[c] = "new" /\ mine[j] = j /\ mine' = [mine EXCEPT ![c] = j]
        /\ Selects(c, j) /\ To(c, "ask")
        /\ UNCHANGED <<head, jobRows, key, copy, at, retried>>
        /\ c \in Savers /\ c \notin Submits
    BY BatchAssumption DEF CancelAsks, GivenOut, Savers
  <1>2. BatchTypeOK /\ Located(c) /\ Alone /\ OneAtOnce
    BY <1>1 DEF BatchInv, Fit
  <1>3. mine[c] = NoJob
    BY <1>1, <1>2 DEF Located
  <1>4. /\ mine' \in [Savers -> Submits \cup {NoJob}] /\ mine'[c] = j
        /\ \A w \in Savers \ {c} : mine'[w] = mine[w]
    BY <1>1, <1>2 DEF BatchTypeOK
  <1>5. /\ step' \in [Savers -> Stages] /\ step'[c] = "ask"
        /\ \A w \in Savers \ {c} : step'[w] = step[w]
    BY <1>1, <1>2, OneTo DEF Stages
  <1>6. /\ tx' \in [Savers -> Accesses] /\ tx'[c].at = "read" /\ tx'[c].seen = head[j]
        /\ \A w \in Savers \ {c} : tx'[w] = tx[w]
    BY <1>1, <1>2, OneSelects
  <1>7. /\ disturbed' = disturbed \cup {j} /\ overlapped \subseteq overlapped'
        /\ overlapped' \subseteq disturbed' /\ batchFlaws' \in 0..MaxBatchFlaws
        /\ overlapped' \subseteq overlapped \cup {j}
        /\ \A d \in Cancels : mine[d] = j => j \in overlapped'
    <2>1. overlapped \subseteq disturbed /\ batchFlaws \in 0..MaxBatchFlaws
      BY <1>2 DEF BatchTypeOK
    <2>2. CASE \E d \in Cancels : mine[d] = j
      <3>1. Overlap(j)
        BY <2>2 DEF CancelAsks
      <3>2. batchFlaws' \in 0..MaxBatchFlaws
        BY <2>1, <3>1, BatchAssumption DEF Overlap, BatchFlaw
      <3> QED
        BY <2>1, <3>1, <3>2 DEF Overlap
    <2>3. CASE ~\E d \in Cancels : mine[d] = j
      <3>1. disturbed' = disturbed \cup {j} /\ UNCHANGED <<overlapped, batchFlaws>>
        BY <2>3 DEF CancelAsks
      <3> QED
        BY <2>1, <2>3, <3>1
    <2> QED
      BY <2>2, <2>3
  <1>8. BatchTypeOK'
    <2>1. /\ head' = head /\ jobRows' = jobRows /\ key' = key /\ copy' = copy /\ at' = at
          /\ retried' = retried
      BY <1>1
    <2>2. retried' \in BOOLEAN
      BY <1>2, <2>1, Zenon DEF BatchTypeOK
    <2>3. disturbed' \subseteq Submits
      BY <1>2, <1>7 DEF BatchTypeOK
    <2> QED
      BY <1>2, <1>4, <1>5, <1>6, <1>7, <2>1, <2>2, <2>3 DEF BatchTypeOK, Stages
  <1>9. \A s \in Submits : s \in Savers /\ mine'[s] = mine[s] /\ step'[s] = step[s] /\ (InRun(s)' <=> InRun(s))
    BY <1>1, <1>4, <1>5 DEF Savers, InRun
  <1>10. GivenPast'
    <2>1. ASSUME NEW w \in Savers, mine'[w] # NoJob PROVE mine'[mine'[w]] = mine'[w]
      <3>1. CASE w = c
        BY <1>1, <1>4, <1>9, <3>1
      <3>2. CASE w # c
        <4>1. mine[w] \in Submits /\ mine[mine[w]] = mine[w]
          BY <1>2, <1>4, <2>1, <3>2 DEF BatchInv, GivenPast, BatchTypeOK
        <4> QED
          BY <1>4, <1>9, <3>2, <4>1
      <3> QED
        BY <3>1, <3>2
    <2>2. key' # NoJob => mine'[key'] = key'
      BY <1>1, <1>2, <1>9 DEF BatchInv, GivenPast, BatchTypeOK
    <2> QED
      BY <2>1, <2>2 DEF GivenPast
  <1>11. KeyKept'
    BY <1>1, <1>9 DEF BatchInv, KeyKept
  <1>12. OneAtOnce' /\ Alone'
    <2>1. ASSUME NEW i \in Submits \ overlapped', NEW s \in Submits, NEW t \in Submits,
                 mine'[s] = i, mine'[t] = i, InRun(s)', InRun(t)'
          PROVE  s = t
      BY <1>2, <1>7, <1>9, <2>1 DEF OneAtOnce
    <2>2. ASSUME NEW i \in Submits \ overlapped', NEW d \in Cancels, NEW e \in Cancels,
                 mine'[d] = i, mine'[e] = i
          PROVE  d = e
      <3>1. d \in Savers /\ e \in Savers
        BY DEF Savers
      <3>2. CASE i = j
        BY <1>4, <1>7, <2>2, <3>1, <3>2
      <3>3. CASE i # j
        BY <1>2, <1>4, <1>7, <2>2, <3>1, <3>3 DEF OneAtOnce
      <3> QED
        BY <3>2, <3>3
    <2>3. Alone'
      BY <1>2, <1>4, <1>7, <1>9 DEF Alone, Savers
    <2> QED
      BY <2>1, <2>2, <2>3 DEF OneAtOnce
  <1>13. Fit(c)'
    <2>1. ~Saving(c)'
      BY <1>6 DEF Saving
    <2>2. Located(c)'
      BY <1>1, <1>4, <1>5, <1>6, <2>1, BatchAssumption DEF Located, Before
    <2>3. Candid(c)' /\ Behind(c)'
      BY <1>5, <2>1 DEF Candid, Behind
    <2> QED
      BY <1>1, <2>2, <2>3 DEF Fit
  <1>14. ASSUME NEW i \in Submits \ disturbed', GivenOut(i)', Quiet(i)'
         PROVE  GivenOut(i) /\ Quiet(i)
    BY <1>9, <1>14 DEF GivenOut, Quiet
  <1>15. \A w \in Savers \ {c} : /\ step'[w] = step[w] /\ mine'[w] = mine[w]
                                 /\ copy'[w] = copy[w] /\ tx'[w] = tx[w]
    BY <1>1, <1>4, <1>5, <1>6
  <1>16. UNCHANGED <<head, jobRows>> /\ disturbed \subseteq disturbed' /\ at' = at /\ step[c] # "over"
    BY <1>1, <1>7
  <1>17. (\A w \in Savers : Fit(w)') /\ (\A i \in Submits : Well(i)')
    BY <1>1, <1>7, <1>13, <1>14, <1>15, <1>16, Kept
  <1> QED
    BY <1>8, <1>10, <1>11, <1>12, <1>17 DEF BatchInv

-----------------------------------------------------------------------------
(* The commit of a save.                                                   *)

\* The columns after an UPDATE are those that were to be written or those that were there.
LEMMA Columns ==
  ASSUME NEW new \in Headers, NEW seen \in Headers, NEW now \in Headers
  PROVE  /\ Updated(new, seen, now) \in Headers
         /\ Updated(new, seen, now).st \in {new.st, now.st}
         /\ new.st # seen.st => Updated(new, seen, now).st = new.st
         /\ seen = now => /\ Updated(new, seen, now).st = new.st
                          /\ Updated(new, seen, now).region = new.region
  BY DEF Updated, Column, Headers

\* What a commit writes, and where it leads.
LEMMA Commits ==
  ASSUME BatchInv, NEW v \in Savers, SaveCommits(v)
  PROVE  /\ mine[v] \in Submits /\ Saving(v) /\ tx[v].at = "drop" /\ BatchTypeOK /\ Located(v)
         /\ step[v] \in {"normalize", "empty", "start", "chunk", "aggregate", "fail", "flag"}
         /\ mine' = mine /\ key' = key /\ retried' = retried /\ disturbed' = disturbed
         /\ overlapped' = overlapped /\ batchFlaws' = batchFlaws
         /\ head' \in [Submits -> Headers]
         /\ head'[mine[v]] = Updated(copy[v].head, tx[v].seen, head[mine[v]])
         /\ \A j \in Submits \ {mine[v]} : head'[j] = head[j] /\ jobRows'[j] = jobRows[j]
         /\ jobRows' \in [Submits -> [Savers -> [items : Lists, agg : BOOLEAN]]]
         /\ jobRows'[mine[v]][v].items = copy[v].items
         /\ \A w \in Savers \ {v} : jobRows'[mine[v]][w].agg =>
               jobRows[mine[v]][w].agg /\ w \notin tx[v].drops
         /\ tx' \in [Savers -> Accesses] /\ tx'[v].at = "no"
         /\ \A w \in Savers \ {v} :
               /\ tx'[w].at = tx[w].at /\ tx'[w].seen = tx[w].seen
               /\ mine[w] # mine[v] => tx'[w] = tx[w]
         /\ step' \in [Savers -> Stages] /\ step'[v] = AfterSave(v)
         /\ \A w \in Savers \ {v} : step'[w] = step[w]
         /\ copy' \in [Savers -> Records] /\ \A w \in Savers \ {v} : copy'[w] = copy[w]
         /\ at' \in [Submits -> {0} \cup Parts]
         /\ \A s \in Submits : at'[s] = IF s = v THEN NextPart(s) ELSE at[s]
  <1>1. BatchTypeOK /\ Located(v) /\ tx[v].at = "drop" /\ Saving(v)
    BY DEF BatchInv, Fit, SaveCommits, Saving
  <1>2. /\ step[v] \in {"normalize", "empty", "start", "chunk", "aggregate", "fail", "flag"}
        /\ mine[v] \in Submits
    BY <1>1 DEF Located, BatchTypeOK, Before
  <1>3. /\ mine' = mine /\ key' = key /\ retried' = retried /\ disturbed' = disturbed
        /\ overlapped' = overlapped /\ batchFlaws' = batchFlaws
    BY DEF SaveCommits, history
  <1>4. copy[v] \in Records /\ tx[v] \in Accesses /\ head[mine[v]] \in Headers
    BY <1>1, <1>2 DEF BatchTypeOK
  <1>5. /\ head' \in [Submits -> Headers]
        /\ head'[mine[v]] = Updated(copy[v].head, tx[v].seen, head[mine[v]])
        /\ \A j \in Submits \ {mine[v]} : head'[j] = head[j]
    <2> DEFINE new == Updated(copy[v].head, tx[v].seen, head[mine[v]])
    <2>1. new \in Headers
      BY <1>4, Columns DEF Records, Accesses
    <2>2. head' = [head EXCEPT ![mine[v]] = new]
      BY <1>1, <1>2 DEF SaveCommits, BatchTypeOK
    <2> HIDE DEF new
    <2>3. head' \in [Submits -> Headers] /\ head'[mine[v]] = new
          /\ \A j \in Submits \ {mine[v]} : head'[j] = head[j]
      BY <1>1, <1>2, <2>1, <2>2 DEF BatchTypeOK
    <2> QED
      BY <2>3 DEF new
  <1>6. /\ jobRows' \in [Submits -> [Savers -> [items : Lists, agg : BOOLEAN]]]
        /\ \A j \in Submits \ {mine[v]} : jobRows'[j] = jobRows[j]
        /\ jobRows'[mine[v]][v].items = copy[v].items
        /\ \A w \in Savers \ {v} : jobRows'[mine[v]][w].agg =>
               jobRows[mine[v]][w].agg /\ w \notin tx[v].drops
    <2> DEFINE Rs == [items : Lists, agg : BOOLEAN]
               old == jobRows[mine[v]]
               row(w) == IF w = v THEN [items |-> copy[v].items, agg |-> TRUE]
                         ELSE [items |-> IF w \in tx[v].clears THEN NoResults ELSE old[w].items,
                               agg |-> old[w].agg /\ w \notin tx[v].drops]
               new == [w \in Savers |-> row(w)]
    <2>1. jobRows \in [Submits -> [Savers -> Rs]]
      BY <1>1 DEF BatchTypeOK
    <2>2. old \in [Savers -> Rs]
      BY <1>2, <2>1
    <2>3. \A w \in Savers : old[w].items \in Lists /\ old[w].agg \in BOOLEAN
      BY <2>2
    <2>4. copy[v].items \in Lists
      BY <1>4 DEF Records
    <2>5. ASSUME NEW w \in Savers
          PROVE  /\ row(w) \in Rs
                 /\ w = v => row(w).items = copy[v].items
                 /\ w # v => (row(w).agg => old[w].agg /\ w \notin tx[v].drops)
      <3>1. CASE w = v
        BY <2>4, <3>1
      <3>2. CASE w # v
        <4> DEFINE is == IF w \in tx[v].clears THEN NoResults ELSE old[w].items
                   ag == old[w].agg /\ w \notin tx[v].drops
        <4>1. is \in Lists /\ ag \in BOOLEAN
          BY <2>3, NothingYet
        <4>2. row(w) = [items |-> is, agg |-> ag]
          BY <3>2
        <4>3. ag => old[w].agg /\ w \notin tx[v].drops
          OBVIOUS
        <4> HIDE DEF is, ag, row
        <4>4. row(w) \in Rs /\ row(w).agg = ag
          BY <4>1, <4>2
        <4>5. row(w).agg => old[w].agg /\ w \notin tx[v].drops
          BY <4>3, <4>4, Zenon
        <4> QED
          BY <3>2, <4>4, <4>5
      <3> QED
        BY <3>1, <3>2
    <2>6. jobRows' = [jobRows EXCEPT ![mine[v]] = new]
      BY <1>2, <2>1, Zenon DEF SaveCommits
    <2> HIDE DEF Rs, row, old
    <2>7. new \in [Savers -> Rs] /\ \A w \in Savers : new[w] = row(w)
      BY <2>5
    <2> HIDE DEF new
    <2>8. /\ jobRows' \in [Submits -> [Savers -> Rs]] /\ jobRows'[mine[v]] = new
          /\ \A j \in Submits \ {mine[v]} : jobRows'[j] = jobRows[j]
      BY <1>2, <2>1, <2>6, <2>7
    <2>9. jobRows'[mine[v]][v].items = copy[v].items
      BY <2>5, <2>7, <2>8
    <2>10. \A w \in Savers \ {v} : jobRows'[mine[v]][w].agg => old[w].agg /\ w \notin tx[v].drops
      BY <2>5, <2>7, <2>8, Zenon
    <2> QED
      BY <2>8, <2>9, <2>10 DEF Rs, old
  <1>7. /\ tx' \in [Savers -> Accesses] /\ tx'[v].at = "no"
        /\ \A w \in Savers \ {v} :
              /\ tx'[w].at = tx[w].at /\ tx'[w].seen = tx[w].seen
              /\ mine[w] # mine[v] => tx'[w] = tx[w]
    <2> DEFINE lost(w) == [tx[w] EXCEPT !.clears = @ \ (tx[v].clears \cup {v}),
                                        !.drops = @ \ (tx[v].drops \cup {v})]
    <2>1. ASSUME NEW w \in Savers
          PROVE  lost(w) \in Accesses /\ lost(w).at = tx[w].at /\ lost(w).seen = tx[w].seen
      <3> DEFINE t == [tx[w] EXCEPT !.clears = @ \ (tx[v].clears \cup {v})]
      <3>1. tx[w] \in Accesses
        BY <1>1 DEF BatchTypeOK
      <3>2. /\ t \in Accesses /\ t.at = tx[w].at /\ t.seen = tx[w].seen
            /\ lost(w) = [t EXCEPT !.drops = @ \ (tx[v].drops \cup {v})]
        BY <3>1 DEF Accesses
      <3> HIDE DEF t, lost
      <3> QED
        BY <3>2 DEF Accesses
    <2>2. tx' = [w \in Savers |-> IF w = v THEN NoAccess
                                  ELSE IF mine[w] # mine[v] THEN tx[w] ELSE lost(w)]
      BY DEF SaveCommits
    <2> HIDE DEF lost
    <2>3. tx \in [Savers -> Accesses] /\ NoAccess.at = "no"
      BY <1>1 DEF BatchTypeOK, NoAccess
    <2> QED
      BY <2>1, <2>2, <2>3, NothingYet
  <1>8. /\ step' \in [Savers -> Stages] /\ step'[v] = AfterSave(v)
        /\ \A w \in Savers \ {v} : step'[w] = step[w]
    <2>1. AfterSave(v) \in Stages /\ To(v, AfterSave(v))
      BY DEF AfterSave, Stages, SaveCommits, Running
    <2> QED
      BY <1>1, <2>1, OneTo
  <1>9. copy' \in [Savers -> Records] /\ \A w \in Savers \ {v} : copy'[w] = copy[w]
    <2> DEFINE rec == IF step[v] = "normalize" THEN copy[v] ELSE NoRecord
    <2>1. rec \in Records /\ Holds(v, rec)
      BY <1>4, NothingYet DEF SaveCommits
    <2> QED
      BY <1>1, <2>1, OneHolds
  <1>10. /\ at' \in [Submits -> {0} \cup Parts]
         /\ \A s \in Submits : at'[s] = IF s = v THEN NextPart(s) ELSE at[s]
    <2>1. at \in [Submits -> {0} \cup Parts] /\ Chunks \in Nat /\ Chunks > 0
      BY <1>1, BatchAssumption DEF BatchTypeOK
    <2>2. \A s \in Submits : NextPart(s) \in {0} \cup Parts
      BY <2>1 DEF NextPart, Parts
    <2>3. at' = [s \in Submits |-> IF s = v THEN NextPart(s) ELSE at[s]]
      BY DEF SaveCommits
    <2> QED
      BY <2>1, <2>2, <2>3
  <1> QED
    BY <1>1, <1>2, <1>3, <1>5, <1>6, <1>7, <1>8, <1>9, <1>10

\* The results it wrote are found in the table.
LEMMA CommitShows ==
  ASSUME BatchInv, NEW v \in Savers, SaveCommits(v)
  PROVE  /\ AllConfirmed(copy[v].items) => AllConfirmed(Stored(mine[v])')
         /\ \A c \in Parts : copy[v].items[c] # "none" => Stored(mine[v])'[c] # "none"
  <1>1. /\ mine[v] \in Submits /\ mine' = mine /\ BatchTypeOK
        /\ jobRows'[mine[v]][v].items = copy[v].items
    BY Commits
  <1>2. copy[v].items \in Lists
    BY <1>1 DEF BatchTypeOK, Records
  <1>3. ASSUME NEW c \in Parts
        PROVE  /\ copy[v].items[c] = "confirmed" => Stored(mine[v])'[c] = "confirmed"
               /\ copy[v].items[c] # "none" => Stored(mine[v])'[c] # "none"
    <2>1. copy[v].items[c] \in {"none", "other", "confirmed"}
      BY <1>2 DEF Lists, Results
    <2>2. Stored(mine[v])'[c] =
            IF \E w \in Savers : jobRows'[mine[v]][w].items[c] = "confirmed" THEN "confirmed"
            ELSE IF \E w \in Savers : jobRows'[mine[v]][w].items[c] = "other" THEN "other"
            ELSE "none"
      BY <1>1 DEF Stored
    <2> QED
      BY <1>1, <2>1, <2>2
  <1> QED
    BY <1>3 DEF AllConfirmed

LEMMA CommitKeeps ==
  ASSUME BatchInv, NEW v \in Savers, SaveCommits(v) PROVE BatchInv'
  <1>0. PICK j \in Submits : mine[v] = j
    BY Commits
  <1>1. /\ mine[v] \in Submits /\ Saving(v) /\ tx[v].at = "drop" /\ BatchTypeOK /\ Located(v)
        /\ step[v] \in {"normalize", "empty", "start", "chunk", "aggregate", "fail", "flag"}
        /\ mine' = mine /\ key' = key /\ retried' = retried /\ disturbed' = disturbed
        /\ overlapped' = overlapped /\ batchFlaws' = batchFlaws
        /\ step' \in [Savers -> Stages] /\ step'[v] = AfterSave(v)
        /\ \A w \in Savers \ {v} : step'[w] = step[w]
    BY Commits
  <1>2. /\ head' \in [Submits -> Headers]
        /\ head'[j] = Updated(copy[v].head, tx[v].seen, head[j])
        /\ \A i \in Submits \ {j} : head'[i] = head[i] /\ jobRows'[i] = jobRows[i]
        /\ jobRows' \in [Submits -> [Savers -> [items : Lists, agg : BOOLEAN]]]
        /\ \A w \in Savers \ {v} : jobRows'[j][w].agg => jobRows[j][w].agg /\ w \notin tx[v].drops
    BY <1>0, Commits
  <1>3. /\ tx' \in [Savers -> Accesses] /\ tx'[v].at = "no"
        /\ \A w \in Savers \ {v} :
              /\ tx'[w].at = tx[w].at /\ tx'[w].seen = tx[w].seen
              /\ mine[w] # j => tx'[w] = tx[w]
        /\ copy' \in [Savers -> Records] /\ \A w \in Savers \ {v} : copy'[w] = copy[w]
        /\ at' \in [Submits -> {0} \cup Parts]
        /\ \A s \in Submits : at'[s] = IF s = v THEN NextPart(s) ELSE at[s]
    BY <1>0, Commits
  <1>4. /\ AllConfirmed(copy[v].items) => AllConfirmed(Stored(j)')
        /\ \A c \in Parts : copy[v].items[c] # "none" => Stored(j)'[c] # "none"
    BY <1>0, <1>1, CommitShows
  <1>5. /\ OneAtOnce /\ Alone /\ Well(j) /\ Fit(v) /\ KeyKept /\ GivenPast
        /\ copy[v] \in Records /\ tx[v] \in Accesses /\ head[j] \in Headers
    BY <1>0, <1>1 DEF BatchInv, BatchTypeOK
  <1>6. /\ head'[j].st \in {copy[v].head.st, head[j].st}
        /\ copy[v].head.st # tx[v].seen.st => head'[j].st = copy[v].head.st
        /\ head[j] = tx[v].seen => /\ head'[j].st = copy[v].head.st
                                   /\ head'[j].region = copy[v].head.region
    BY <1>0, <1>2, <1>5, Columns DEF Records, Accesses
  <1>7. /\ AfterSave(v) \in {"start", "empty", "resolve", "final", "over"}
        /\ v \in Submits <=> step[v] # "flag"
        /\ v \in Cancels <=> step[v] = "flag"
        /\ v \in Cancels => AfterSave(v) = "over"
    BY <1>0, <1>1, BatchAssumption DEF AfterSave, Located, Savers
  <1>8. v \in Submits => InRun(v)
    BY <1>0, <1>1, <1>7 DEF InRun, Running
  <1>9. \A w \in Savers : Saving(w) /\ w \in Submits => InRun(w)
    BY BatchAssumption DEF BatchInv, Fit, Located, InRun, Running
  <1>10. \A w \in Savers \ {v} : Saving(w)' <=> Saving(w)
    BY <1>3 DEF Saving
  <1>11. \A i \in Submits : CancelDone(i) => CancelDone(i)'
    <2> SUFFICES ASSUME NEW i \in Submits, NEW c \in Cancels, mine[c] = i, step[c] = "over"
                 PROVE  CancelDone(i)'
      BY DEF CancelDone
    <2>1. c \in Savers \ {v}
      BY <1>0, <1>1 DEF Savers
    <2> QED
      BY <1>0, <1>1, <2>1 DEF CancelDone
  <1>12. v \in Cancels => CancelDone(j)'
    BY <1>0, <1>1, <1>7 DEF CancelDone
  <1>13. \A i \in Submits \ {j} : Stored(i)' = Stored(i) /\ (Readable(i)' <=> Readable(i))
    BY <1>2, StoredKept
  <1>14. ASSUME j \notin overlapped
         PROVE  /\ Candid(v) /\ Behind(v)
                /\ v \in Cancels => head'[j].st = "cancelled" /\ ~CancelDone(j)
                /\ v \in Submits => \A w \in Submits : mine[w] = j /\ InRun(w) => w = v
    <2>1. Candid(v) /\ Behind(v)
      BY <1>0, <1>1, <1>5, <1>14 DEF Fit
    <2>2. v \in Cancels => head'[j].st = "cancelled"
      BY <1>0, <1>1, <1>6, <1>7, <2>1 DEF Behind, Located
    <2>3. v \in Cancels => ~CancelDone(j)
      BY <1>0, <1>1, <1>5, <1>7, <1>14 DEF CancelDone, OneAtOnce
    <2>4. v \in Submits => \A w \in Submits : mine[w] = j /\ InRun(w) => w = v
      BY <1>0, <1>1, <1>5, <1>8, <1>14 DEF OneAtOnce
    <2> QED
      BY <2>1, <2>2, <2>3, <2>4
  <1>15. BatchTypeOK'
    BY <1>0, <1>1, <1>2, <1>3 DEF BatchTypeOK, Stages
  <1>16. GivenPast' /\ KeyKept' /\ OneAtOnce' /\ Alone'
    <2>1. \A t \in Submits : /\ step'[t] = "unbind" => step[t] = "unbind"
                             /\ step'[t] = "dead" => step[t] = "dead"
                             /\ InRun(t)' => InRun(t)
      BY <1>0, <1>1, <1>7, <1>8 DEF Savers, InRun
    <2>2. GivenPast'
      BY <1>0, <1>1, <1>5 DEF GivenPast
    <2>3. KeyKept'
      BY <1>0, <1>1, <1>5, <2>1 DEF KeyKept
    <2>4. OneAtOnce'
      BY <1>0, <1>1, <1>5, <2>1 DEF OneAtOnce
    <2>5. Alone'
      BY <1>0, <1>1, <1>5, <2>1 DEF Alone
    <2> QED
      BY <2>2, <2>3, <2>4, <2>5
  <1>17. mine[v] = j /\ j \in Submits
    BY <1>0
  <1>18. Fit(v)'
    <2>1. ~Saving(v)' /\ mine[v] # NoJob
      BY <1>3, <1>17, BatchAssumption DEF Saving
    <2>2. Located(v)'
      BY <1>1, <1>3, <1>7, <2>1 DEF Located, Before
    <2>3. Candid(v)' /\ Behind(v)'
      BY <1>1, <1>7, <2>1 DEF Candid, Behind
    <2>4. ASSUME v \in Submits, j \notin disturbed PROVE OnCourse(v)'
      <3>1. OnCourse(v)
        BY <1>5, <1>17, <2>4 DEF Fit
      <3>2. at[v] \in {0} \cup Parts /\ at'[v] = NextPart(v) /\ Chunks \in Nat /\ Chunks > 0
        BY <1>1, <1>3, <2>4, BatchAssumption DEF BatchTypeOK
      <3>3. Stored(mine[v])' = Stored(j)'
        BY <1>1, <1>17
      <3>4. CASE step[v] = "start"
        <4>1. step'[v] = "resolve" /\ at'[v] = 1
          BY <1>1, <3>2, <3>4 DEF AfterSave, NextPart
        <4> QED
          BY <1>3, <2>1, <4>1 DEF OnCourse, Passed, Parts
      <3>5. CASE step[v] = "chunk"
        <4>1. /\ Passed(copy[v].items, at[v])
              /\ at[v] \in Parts => copy[v].items[at[v]] # "none"
          BY <1>1, <3>1, <3>5 DEF OnCourse
        <4>2. CASE at[v] = Chunks
          <5>1. step'[v] = "final"
            BY <1>1, <3>5, <4>2 DEF AfterSave
          <5>2. Full(copy[v].items)
            BY <3>2, <4>1, <4>2 DEF Full, Passed, Parts
          <5>3. Full(Stored(j)')
            BY <1>4, <5>2 DEF Full
          <5> QED
            BY <1>3, <2>1, <3>3, <5>1, <5>3 DEF OnCourse, Full
        <4>3. CASE at[v] # Chunks
          <5>1. step'[v] = "resolve" /\ at'[v] = at[v] + 1
            BY <1>1, <3>2, <3>5, <4>3 DEF AfterSave, NextPart
          <5>2. Passed(copy[v].items, at[v] + 1)
            BY <3>2, <4>1 DEF Passed, Parts
          <5>3. Passed(Stored(j)', at[v] + 1)
            BY <1>4, <5>2 DEF Passed
          <5> QED
            BY <1>3, <2>1, <3>3, <5>1, <5>3 DEF OnCourse, Passed
        <4> QED
          BY <4>2, <4>3
      <3>6. CASE step[v] \notin {"start", "chunk"}
        <4>1. step'[v] \in {"start", "empty", "over"}
          BY <1>1, <3>6 DEF AfterSave
        <4> QED
          BY <1>3, <2>1, <4>1 DEF OnCourse
      <3> QED
        BY <3>4, <3>5, <3>6
    <2> QED
      BY <1>1, <1>17, <2>2, <2>3, <2>4 DEF Fit
  <1>19. ASSUME NEW w \in Savers, w # v PROVE Fit(w)'
    <2>1. /\ step'[w] = step[w] /\ mine'[w] = mine[w] /\ copy'[w] = copy[w]
          /\ tx'[w].at = tx[w].at /\ tx'[w].seen = tx[w].seen
          /\ mine[w] # j => tx'[w] = tx[w]
          /\ w \in Submits => at'[w] = at[w]
          /\ Saving(w)' <=> Saving(w)
      BY <1>1, <1>3, <1>10, <1>19
    <2>2. Fit(w)
      BY DEF BatchInv
    <2>3. Located(w)'
      BY <2>1, <2>2 DEF Fit, Located
    <2>4. ASSUME mine'[w] \in Submits \ overlapped' PROVE Candid(w)' /\ Behind(w)'
      <3>1. Candid(w) /\ Behind(w) /\ mine[w] \in Submits \ overlapped
        BY <1>1, <2>1, <2>2, <2>4 DEF Fit
      <3>2. Candid(w)'
        BY <1>11, <2>1, <3>1 DEF Candid, AllConfirmed
      <3>3. CASE mine[w] # j
        <4>1. head'[mine[w]] = head[mine[w]] /\ Stored(mine[w])' = Stored(mine[w])
          BY <1>2, <1>13, <2>1, <3>1, <3>3
        <4>2. Behind(w)'
          BY <1>11, <2>1, <3>1, <4>1 DEF Behind, AllConfirmed
        <4> QED
          BY <3>2, <4>2
      <3>4. CASE mine[w] = j
        <4>1. w \in Submits /\ Saving(w) => head'[j].st = "cancelled"
          BY <1>7, <1>9, <1>14, <1>17, <1>19, <3>1, <3>4 DEF Savers
        <4>2. step[w] = "load" => w \in Submits /\ InRun(w)
          BY <2>2 DEF Fit, Located, InRun, Running, Savers
        <4>3. step[w] = "load" => v \in Cancels
          BY <1>14, <1>17, <1>19, <3>1, <3>4, <4>2 DEF Savers
        <4>4. step[w] = "load" => ~(tx[w].seen.st = "complete" /\ tx[w].seen.region = "raw")
          BY <1>14, <1>17, <3>1, <3>4, <4>3 DEF Behind
        <4>5. CancelDone(mine[w]) => CancelDone(mine[w])'
          BY <1>11, <2>1, <3>1
        <4>6. Behind(w)'
          BY <2>1, <3>1, <3>4, <4>1, <4>4, <4>5 DEF Behind
        <4> QED
          BY <3>2, <4>6
      <3> QED
        BY <3>3, <3>4
    <2>5. ASSUME w \in Submits, mine'[w] \in Submits \ disturbed' PROVE OnCourse(w)'
      <3>1. OnCourse(w) /\ mine[w] \in Submits \ disturbed
        BY <1>1, <2>1, <2>2, <2>5 DEF Fit
      <3>2. CASE mine[w] # j
        <4>1. jobRows'[mine[w]] = jobRows[mine[w]] /\ Stored(mine[w])' = Stored(mine[w])
          BY <1>2, <1>13, <2>1, <3>1, <3>2
        <4> QED
          BY <2>1, <2>5, <3>1, <3>2, <4>1 DEF OnCourse, Passed, Full
      <3>3. CASE mine[w] = j
        <4>1. v \in Submits /\ j \notin overlapped
          BY <1>1, <1>5, <1>17, <3>1, <3>3 DEF Alone, Savers, BatchTypeOK
        <4>2. ~InRun(w)
          BY <1>14, <1>19, <2>5, <3>3, <4>1
        <4>3. ~Saving(w)' /\ tx'[w].at # "drop"
          BY <1>9, <2>1, <2>5, <4>2 DEF Saving
        <4> QED
          BY <2>1, <4>2, <4>3 DEF OnCourse, InRun, Running
      <3> QED
        BY <3>2, <3>3
    <2> QED
      BY <2>3, <2>4, <2>5 DEF Fit
  <1>20. ASSUME NEW i \in Submits, i # j PROVE Well(i)'
    <2>1. Well(i) /\ head'[i] = head[i] /\ Stored(i)' = Stored(i) /\ (Readable(i)' <=> Readable(i))
      BY <1>2, <1>13, <1>20 DEF BatchInv
    <2>2. (GivenOut(i)' <=> GivenOut(i)) /\ (Quiet(i)' => Quiet(i))
      BY <1>1, <1>17, <1>20 DEF GivenOut, Quiet, Savers
    <2> QED
      BY <1>1, <1>11, <1>20, <2>1, <2>2 DEF Well, AllConfirmed
  <1>21. Well(j)'
    <2>1. ASSUME j \notin overlapped
          PROVE  /\ head'[j].st = "complete" => AllConfirmed(Stored(j)')
                 /\ head'[j].st = "complete" /\ head'[j].region = "raw" => CancelDone(j)'
                 /\ head'[j].st = "cancelled" => CancelDone(j)'
      <3>1. CASE v \in Cancels
        BY <1>12, <1>14, <2>1, <3>1
      <3>2. CASE v \in Submits
        <4>1. head[j] = tx[v].seen \/ head[j].st = "cancelled"
          BY <1>1, <1>14, <1>17, <2>1, <3>2 DEF Behind
        <4>2. head[j].st = "cancelled" => CancelDone(j)'
          BY <1>5, <1>11, <1>17, <2>1 DEF Well
        <4>3. /\ copy[v].head.st = "complete" => AllConfirmed(copy[v].items)
              /\ copy[v].head.st = "cancelled" => CancelDone(j)'
              /\ copy[v].head.st = "complete" => copy[v].head.region # "raw"
          BY <1>1, <1>11, <1>14, <1>17, <2>1, <3>2 DEF Candid
        <4> QED
          BY <1>4, <1>6, <4>1, <4>2, <4>3
      <3> QED
        BY <3>1, <3>2, <1>7
    <2>2. ASSUME j \notin disturbed, Quiet(j)'
          PROVE  head'[j].st \in Terminal /\ Readable(j)'
      <3>1. v \in Submits /\ j \notin overlapped
        BY <1>1, <1>5, <1>17, <2>2 DEF Alone, Savers, BatchTypeOK
      <3>2. step'[v] \in {"look", "over"}
        BY <1>1, <1>17, <2>2, <3>1 DEF Quiet
      <3>3. step[v] \in {"empty", "aggregate", "fail"}
        BY <1>1, <1>7, <3>1, <3>2 DEF AfterSave
      <3>4. /\ copy[v].head.st \in Terminal
            /\ \A w \in Savers : jobRows[j][w].agg => w \in tx[v].drops
        BY <1>1, <1>5, <1>17, <2>2, <3>1, <3>3 DEF Fit, OnCourse
      <3>5. head[j] = tx[v].seen \/ head[j].st = "cancelled"
        BY <1>1, <1>14, <1>17, <3>1 DEF Behind
      <3>6. head'[j].st \in Terminal
        BY <1>6, <3>4, <3>5 DEF Terminal
      <3>7. Readable(j)'
        <4>1. \A w \in Savers \ {v} : ~jobRows'[j][w].agg
          BY <1>2, <3>4
        <4> QED
          BY <4>1 DEF Readable
      <3> QED
        BY <3>6, <3>7
    <2>3. /\ AllConfirmed(Stored(j)') <=> AllConfirmed(Stored(j))'
      BY DEF AllConfirmed
    <2> QED
      BY <1>1, <2>1, <2>2, <2>3 DEF Well
  <1>22. (\A w \in Savers : Fit(w)') /\ (\A i \in Submits : Well(i)')
    BY <1>18, <1>19, <1>20, <1>21
  <1> QED
    BY <1>15, <1>16, <1>22 DEF BatchInv

-----------------------------------------------------------------------------
(* Theorems.                                                               *)

LEMMA BatchInitHolds == BatchInit => BatchInv
  <1> SUFFICES ASSUME BatchInit PROVE BatchInv
    OBVIOUS
  <1>1. /\ head = [j \in Submits |-> NoHead]
        /\ jobRows = [j \in Submits |-> [v \in Savers |-> [items |-> NoResults, agg |-> FALSE]]]
        /\ key = NoJob
        /\ step = [v \in Savers |-> IF v \in Submits THEN "find" ELSE "new"]
        /\ mine = [v \in Savers |-> NoJob] /\ copy = [v \in Savers |-> NoRecord]
        /\ tx = [v \in Savers |-> NoAccess] /\ at = [s \in Submits |-> 0]
        /\ retried = FALSE /\ disturbed = {} /\ overlapped = {} /\ batchFlaws = 0
    BY DEF BatchInit
  <1>2. NoHead.st = "none" /\ NoAccess.at = "no"
    BY DEF NoHead, NoAccess
  <1>3. BatchTypeOK
    <2>1. 0 \in 0..MaxBatchFlaws
      BY BatchAssumption
    <2>2. retried \in BOOLEAN
      BY <1>1, Zenon
    <2>3. /\ step \in [Savers -> Stages] /\ mine \in [Savers -> Submits \cup {NoJob}]
          /\ key \in Submits \cup {NoJob}
      BY <1>1 DEF Stages
    <2>4. /\ head \in [Submits -> Headers] /\ copy \in [Savers -> Records]
          /\ tx \in [Savers -> Accesses]
          /\ jobRows \in [Submits -> [Savers -> [items : Lists, agg : BOOLEAN]]]
      BY <1>1, NothingYet
    <2> QED
      BY <1>1, <2>1, <2>2, <2>3, <2>4 DEF BatchTypeOK, Stages
  <1>4. \A v \in Savers : /\ mine[v] = NoJob /\ tx[v].at = "no"
                          /\ step[v] = IF v \in Submits THEN "find" ELSE "new"
    BY <1>1, <1>2
  <1>5. \A s \in Submits : s \in Savers /\ mine[s] = NoJob /\ step[s] = "find"
    BY <1>4 DEF Savers
  <1>6. \A c \in Cancels : c \in Savers /\ mine[c] = NoJob /\ step[c] = "new"
    BY <1>4, BatchAssumption DEF Savers
  <1>7. GivenPast /\ KeyKept /\ OneAtOnce /\ Alone
    <2>1. GivenPast
      BY <1>1, <1>4 DEF GivenPast
    <2>2. KeyKept
      BY <1>5 DEF KeyKept
    <2>3. OneAtOnce /\ Alone
      BY <1>5, <1>6, BatchAssumption DEF OneAtOnce, Alone
    <2> QED
      BY <2>1, <2>2, <2>3
  <1>8. ASSUME NEW v \in Savers PROVE Fit(v)
    <2>1. Located(v)
      BY <1>4, <1>5, <1>6, BatchAssumption DEF Located, Saving, Before, Savers
    <2>2. mine[v] \notin Submits
      BY <1>4, BatchAssumption
    <2> QED
      BY <2>1, <2>2 DEF Fit
  <1>9. ASSUME NEW j \in Submits PROVE Well(j)
    BY <1>1, <1>2, <1>5, BatchAssumption DEF Well, GivenOut
  <1> QED
    BY <1>3, <1>7, <1>8, <1>9 DEF BatchInv

\* The inductive invariant: the types, whose jobs are whose, where everybody is, and
\* what a record says and what was seen of the store when it is saved.
THEOREM BatchInvariance == BatchSpec => []BatchInv
  <1>1. BatchInv /\ [BatchNext]_batchVars => BatchInv'
    <2> SUFFICES ASSUME BatchInv, [BatchNext]_batchVars PROVE BatchInv'
      OBVIOUS
    <2>1. CASE \E s \in Submits :
                  \/ SubmitFinds(s) \/ SubmitLooks(s) \/ SubmitDecides(s) \/ SubmitUnbinds(s)
                  \/ SubmitSaves(s) \/ SubmitBinds(s)
      BY <2>1, FindsKeeps, LooksKeeps, DecidesKeeps, UnbindsKeeps, SubmitSavesKeeps, BindsKeeps
    <2>2. CASE \E s \in Submits :
                  \/ RunBegins(s) \/ RunGets(s) \/ RunNormalizes(s) \/ RunEndsEmpty(s)
                  \/ RunStarts(s) \/ RunReads(s) \/ ChunkGets(s)
      BY <2>2, BeginsKeeps, GetsKeeps, NormalizeKeeps, EndsEmptyKeeps, StartsKeeps, LooksKeeps,
         ChunkGetsKeeps
    <2>3. CASE \E s \in Submits :
                  \/ ChunkSaves(s) \/ FinalGets(s) \/ FinalSaves(s)
                  \/ RunRaises(s) \/ RunCatches(s) \/ RunFails(s) \/ RunIsCutOff(s)
      BY <2>3, ChunkSavesKeeps, ChunkGetsKeeps, FinalSavesKeeps, RaisesKeeps, CatchesKeeps,
         FailsKeeps, CutOffKeeps
    <2>4. CASE \E c \in Cancels :
                  CancelGets(c) \/ CancelSaves(c) \/ \E j \in Submits : CancelAsks(c, j)
      BY <2>4, CancelGetsKeeps, CancelSavesKeeps, AsksKeeps
    <2>5. CASE \E v \in Savers : SaveUpdates(v) \/ SaveDeletes(v) \/ SaveCommits(v)
      BY <2>5, UpdatesKeeps, DeletesKeeps, CommitKeeps
    <2>6. CASE UNCHANGED batchVars
      <3>1. /\ head' = head /\ jobRows' = jobRows /\ key' = key /\ step' = step /\ mine' = mine
            /\ copy' = copy /\ tx' = tx /\ at' = at /\ retried' = retried
            /\ disturbed' = disturbed /\ overlapped' = overlapped /\ batchFlaws' = batchFlaws
        BY <2>6 DEF batchVars
      <3>2. BatchTypeOK' <=> BatchTypeOK
        BY <3>1 DEF BatchTypeOK
      <3>3. (GivenPast' <=> GivenPast) /\ (KeyKept' <=> KeyKept)
            /\ (OneAtOnce' <=> OneAtOnce) /\ (Alone' <=> Alone)
        BY <3>1 DEF GivenPast, KeyKept, OneAtOnce, Alone, InRun
      <3>4. \A v \in Savers : Fit(v)' <=> Fit(v)
        BY <3>1 DEF Fit, Located, Candid, Behind, OnCourse, Saving, CancelDone, AllConfirmed,
           Passed, Full, Stored
      <3>5. \A j \in Submits : Well(j)' <=> Well(j)
        BY <3>1 DEF Well, AllConfirmed, Stored, CancelDone, GivenOut, Quiet, Readable
      <3> QED
        BY <3>2, <3>3, <3>4, <3>5 DEF BatchInv
    <2> QED
      BY <2>1, <2>2, <2>3, <2>4, <2>5, <2>6 DEF BatchNext
  <1> QED
    BY <1>1, BatchInitHolds, PTL DEF BatchSpec

\* Types.
THEOREM BatchTypesHold == BatchSpec => []BatchTypeOK
  <1>1. BatchInv => BatchTypeOK
    BY DEF BatchInv
  <1> QED
    BY <1>1, BatchInvariance, PTL

\* Submissions of a region share one job; a job is complete only with a result for every
\* chunk, as long as no two runs or cancellations of it overlap; and an undisturbed run
\* ends it: for any submissions, cancellations, chunks and flaws (BatchService, DbJobStore).
THEOREM JobsTrue == BatchSpec => []JobsAreTrue
  <1>1. ASSUME BatchInv PROVE JobsAreTrue
    <2>1. BatchTypeOK
      BY <1>1 DEF BatchInv
    <2>2. SameJob
      BY <1>1 DEF BatchInv, KeyKept, SameJob
    <2>3. StateIsTrue
      BY <1>1 DEF BatchInv, Well, StateIsTrue
    <2> QED
      BY <2>1, <2>2, <2>3 DEF JobsAreTrue
  <1> QED
    BY <1>1, BatchInvariance, PTL

-----------------------------------------------------------------------------
(* The six components beside each other (MCApart).                         *)

\* Only the component that was chosen takes steps.
LEMMA ComponentsApart ==
  ASSUME [ApartNext]_<<part, vars, subVars, tokenVars, govVars, meterVars, evidenceVars>>
  PROVE  /\ [Next]_vars /\ [SubNext]_subVars /\ [TokenNext]_tokenVars /\ [GovNext]_govVars
         /\ [MeterNext]_meterVars /\ [EvidenceNext]_evidenceVars
  BY DEF ApartNext

\* Whatever is called, in whatever order: no contract, meter or draw comes to hold a value
\* outside the type of its field.
THEOREM ApartTypesHold == ApartSpec => []AllTypesOK
  <1>1. ApartInit => /\ Init /\ SubInit /\ TokenInit /\ GovInit
                     /\ MeterInit /\ EvidenceInit
    BY DEF ApartInit
  <1>2. [ApartNext]_<<part, vars, subVars, tokenVars, govVars, meterVars, evidenceVars>>
        => /\ [Next]_vars /\ [SubNext]_subVars /\ [TokenNext]_tokenVars /\ [GovNext]_govVars
           /\ [MeterNext]_meterVars /\ [EvidenceNext]_evidenceVars
    BY ComponentsApart
  <1>3. ApartSpec => /\ Spec /\ SubSpec /\ TokenSpec /\ GovSpec
                     /\ MeterSpec /\ EvidenceSpec
    BY <1>1, <1>2, PTL
    DEF ApartSpec, Spec, SubSpec, TokenSpec, GovSpec, MeterSpec, EvidenceSpec
  <1>4. /\ TypeOK /\ SubTypeOK /\ TokenTypeOK /\ GovTypeOK
        /\ MeterTypeOK /\ EvidenceTypeOK
        => AllTypesOK
    BY DEF AllTypesOK
  <1>5. Spec => []TypeOK
    BY EscrowTypesHold
  <1>6. SubSpec => []SubTypeOK
    BY SubTypesHold
  <1>7. TokenSpec => []TokenTypeOK
    BY TokenTypesHold
  <1>8. GovSpec => []GovTypeOK
    BY GovTypesHold
  <1>9. EvidenceSpec => []EvidenceTypeOK
    BY EvidenceTypesHold
  <1> QED
    BY <1>3, <1>4, <1>5, <1>6, <1>7, <1>8, <1>9, MeterTypesHold, PTL

=============================================================================
