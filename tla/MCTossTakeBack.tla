---------------------------- MODULE MCTossTakeBack ----------------------------
(***************************************************************************)
(* Coin orders whose payments are taken back, and the parcel batches,      *)
(* which share nothing with them.  A behaviour is one of a single          *)
(* component, chosen at the start, while the other stays as it began.      *)
(***************************************************************************)
EXTENDS MCTossPayments, ParcelBatch

VARIABLE part

TakeBackInit ==
    /\ part \in {"coins", "batch"}
    /\ Init /\ BatchInit

TakeBackNext ==
    /\ UNCHANGED part
    /\ \/ part = "coins" /\ Next /\ UNCHANGED batchVars
       \/ part = "batch" /\ BatchNext /\ UNCHANGED vars

TakeBackSpec == TakeBackInit /\ [][TakeBackNext]_<<part, vars, batchVars>>
==============================================================================
