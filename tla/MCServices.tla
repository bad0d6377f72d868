----------------------------- MODULE MCServices -----------------------------
(***************************************************************************)
(* The outbox and the idempotent charges, which share nothing: a behaviour *)
(* is one of a single service, chosen at the start, while the other stays  *)
(* as it began.  Only the chosen one is scheduled, so only its fairness is *)
(* assumed.                                                                *)
(***************************************************************************)
EXTENDS Outbox, ChargeOnce

CONSTANTS q1, q2, q3, q4, k1, b1, b2

\* All requests carry one key; the last one has another body.
OneKey == [r \in Requests |-> k1]
LastDiffers == [r \in Requests |-> IF r = q4 THEN b2 ELSE b1]

VARIABLE service

ServicesInit ==
    /\ service \in {"outbox", "charge"}
    /\ OutboxInit /\ ChargeInit

ServicesNext ==
    /\ UNCHANGED service
    /\ \/ service = "outbox" /\ OutboxNext /\ UNCHANGED chargeVars
       \/ service = "charge" /\ ChargeNext /\ UNCHANGED outboxVars

\* The type invariants of both services.
BothTypesOK == OutboxTypeOK /\ ChargeTypeOK

ServicesSpec ==
    /\ ServicesInit /\ [][ServicesNext]_<<service, outboxVars, chargeVars>>
    /\ service = "outbox" => OutboxFairness
    /\ service = "charge" => ChargeFairness
=============================================================================
