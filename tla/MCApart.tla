------------------------------- MODULE MCApart -------------------------------
(***************************************************************************)
(* Components that share nothing with each other: four of the contracts,   *)
(* the usage meter and the evidence of a draw (with the contract it is     *)
(* anchored in).  A behaviour is one of a single component, chosen at the  *)
(* start, while the others stay as they began.                             *)
(***************************************************************************)
EXTENDS Escrow, SubcontractPayment, PropAIToken, PropAIGovernance,
        UsageMeter, DrawEvidence, TLC

VARIABLE part

Alike == Permutations(Parties) \cup Permutations(Ids) \cup Permutations(Candidates)

ApartInit ==
    /\ part \in {"escrow", "subcontract", "token", "governance", "meter", "evidence"}
    /\ Init /\ SubInit /\ TokenInit /\ GovInit /\ MeterInit /\ EvidenceInit
    /\ part # "token" => ~lockedUp
    /\ part # "governance" => quorumBps = 1
    /\ part # "meter" => user.tier = "free"

ApartNext ==
    /\ UNCHANGED part
    /\ \/ /\ part = "escrow" /\ Next
          /\ UNCHANGED <<subVars, tokenVars, govVars, meterVars, evidenceVars>>
       \/ /\ part = "subcontract" /\ SubNext
          /\ UNCHANGED <<vars, tokenVars, govVars, meterVars, evidenceVars>>
       \/ /\ part = "token" /\ TokenNext
          /\ UNCHANGED <<vars, subVars, govVars, meterVars, evidenceVars>>
       \/ /\ part = "governance" /\ GovNext
          /\ UNCHANGED <<vars, subVars, tokenVars, meterVars, evidenceVars>>
       \/ /\ part = "meter" /\ MeterNext
          /\ UNCHANGED <<vars, subVars, tokenVars, govVars, evidenceVars>>
       \/ /\ part = "evidence" /\ EvidenceNext
          /\ UNCHANGED <<vars, subVars, tokenVars, govVars, meterVars>>

\* The type invariants of the six components.
AllTypesOK ==
    /\ TypeOK /\ SubTypeOK /\ TokenTypeOK /\ GovTypeOK /\ MeterTypeOK /\ EvidenceTypeOK

ApartSpec ==
    /\ ApartInit
    /\ [][ApartNext]_<<part, vars, subVars, tokenVars, govVars, meterVars, evidenceVars>>
==============================================================================
