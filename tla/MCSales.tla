------------------------------- MODULE MCSales -------------------------------
(***************************************************************************)
(* The units of a site with all their operations, the payments of one of   *)
(* its contracts and its commission.  A behaviour is one of a single part, *)
(* chosen at the start, while the others stay as they began: they are      *)
(* about different tables, and meet in the contract only, whose signature  *)
(* and cancellation both SalesUnits and SalesCommission have.              *)
(***************************************************************************)
EXTENDS SalesUnits, SalesPayments, SalesCommission, TLC

CONSTANTS w1, w3, k1

\* Of two deposits one does not fill an installment, and one fills more than one.
DepositWorth == [n \in Deposits |-> IF n = w1 THEN 1 ELSE 3]

\* A loan pays one installment, or takes as much from it.
LentOrTaken == {-2, 2}

\* The member's split of one contract is paid in milestones.
OneSplit == {<<k1, "member">>}

\* Ratios of 1/2, and of 2 with the -1 that makes room for it.
SomeHalves == {-2, 1, 4}

VARIABLE part

Alike == Permutations(Apps)

SalesInit ==
    /\ part \in {"units", "payments", "commission"}
    /\ Init /\ PayInit /\ ComInit

SalesNext ==
    /\ UNCHANGED part
    /\ \/ part = "units" /\ Next /\ UNCHANGED <<payVars, comVars>>
       \/ part = "payments" /\ PayNext /\ UNCHANGED <<vars, comVars>>
       \/ part = "commission" /\ ComNext /\ UNCHANGED <<vars, payVars>>

\* The type invariants of the three parts.
SalesTypesOK == TypeOK /\ PayTypeOK /\ ComTypeOK

SalesSpec == SalesInit /\ [][SalesNext]_<<part, vars, payVars, comVars>>
==============================================================================
