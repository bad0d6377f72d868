-------------------------- MODULE PropAIGovernance --------------------------
(***************************************************************************)
(* The voting contract PropAIGovernance: the owner keeps the members and   *)
(* their power, members propose and vote once each, anyone finalises after *)
(* the period, the owner executes.  The weight of a vote is taken when it  *)
(* is cast, the quorum when the proposal is finalised.  No function calls  *)
(* out.  Who the owner is makes no difference to the state.                *)
(***************************************************************************)
EXTENDS Integers, FiniteSets, Functions

CONSTANTS
    Voters,            \* addresses
    Proposals,         \* proposal ids
    MaxPower,          \* bound: the largest power of a member
    GOV_BPS            \* BPS_DENOMINATOR

ASSUME GovernanceAssumption ==
    /\ IsFiniteSet(Voters)
    /\ MaxPower \in Nat /\ GOV_BPS \in Nat \ {0}

VARIABLES
    power,             \* members: the power of the active ones, 0 for the others
    totalVotingPower, memberCount, quorumBps,
    proposals,
    ended,             \* proposals with block.timestamp > endTime
    hasVoted,
    weight             \* the weight each vote was counted with

govVars == <<power, totalVotingPower, memberCount, quorumBps, proposals, ended,
             hasVoted, weight>>
members == <<power, totalVotingPower, memberCount, quorumBps>>
ballots == <<hasVoted, weight>>

-----------------------------------------------------------------------------

ProposalStatus == {"None", "Active", "Defeated", "Succeeded", "Executed", "Cancelled"}
VoteType == {"Against", "For", "Abstain"}
Tally == [VoteType -> Nat]
Proposal == [status : ProposalStatus, votes : Tally]
NoProposal == [status |-> "None", votes |-> [t \in VoteType |-> 0]]

GovInit ==
    /\ power = [v \in Voters |-> 0]
    /\ totalVotingPower = 0 /\ memberCount = 0
    /\ quorumBps \in 1..GOV_BPS
    /\ proposals = [p \in Proposals |-> NoProposal] /\ ended = {}
    /\ hasVoted = [p \in Proposals |-> {}]
    /\ weight = [p \in Proposals |-> [v \in Voters |-> 0]]

-----------------------------------------------------------------------------
(* Members.                                                                *)

isActive(v) == power[v] > 0

addMember(v, n) ==
    /\ n > 0 /\ ~isActive(v)
    /\ power' = [power EXCEPT ![v] = n]
    /\ totalVotingPower' = totalVotingPower + n
    /\ memberCount' = memberCount + 1
    /\ UNCHANGED <<quorumBps, proposals, ended, ballots>>

\* A removed member's votes stay, and stay cast.
removeMember(v) ==
    /\ isActive(v)
    /\ totalVotingPower' = totalVotingPower - power[v]
    /\ power' = [power EXCEPT ![v] = 0]
    /\ memberCount' = memberCount - 1
    /\ UNCHANGED <<quorumBps, proposals, ended, ballots>>

updateVotingPower(v, n) ==
    /\ isActive(v) /\ n > 0
    /\ totalVotingPower' = (totalVotingPower - power[v]) + n
    /\ power' = [power EXCEPT ![v] = n]
    /\ UNCHANGED <<memberCount, quorumBps, proposals, ended, ballots>>

setQuorum(n) ==
    /\ n > 0 /\ n <= GOV_BPS
    /\ quorumBps' = n
    /\ UNCHANGED <<power, totalVotingPower, memberCount, proposals, ended, ballots>>

-----------------------------------------------------------------------------
(* Proposals and votes.                                                    *)

SetProposal(p, status) ==
    /\ proposals' = [proposals EXCEPT ![p].status = status]
    /\ UNCHANGED <<members, ended, ballots>>

createProposal(v, p) ==
    /\ isActive(v) /\ proposals[p].status = "None"
    /\ SetProposal(p, "Active")

\* (mutant: the vote of a removed member is forgotten)
hasVotedAsMember(p, v) == v \in hasVoted[p] /\ weight[p][v] = power[v]
hasVotedOn(p, v) == v \in hasVoted[p]
openForVote(p) == proposals[p].status = "Active" /\ p \notin ended

castVote(v, p, type) ==
    /\ isActive(v)
    /\ openForVote(p)
    /\ ~hasVotedOn(p, v)
    /\ hasVoted' = [hasVoted EXCEPT ![p] = @ \cup {v}]
    /\ weight' = [weight EXCEPT ![p][v] = power[v]]
    /\ proposals' = [proposals EXCEPT ![p].votes[type] = @ + power[v]]
    /\ UNCHANGED <<members, ended>>

EndPeriod(p) ==
    /\ proposals[p].status # "None" /\ p \notin ended
    /\ ended' = ended \cup {p}
    /\ UNCHANGED <<members, proposals, ballots>>

totalVoted(p) ==
    proposals[p].votes["For"] + proposals[p].votes["Against"] + proposals[p].votes["Abstain"]
quorumRequired == (totalVotingPower * quorumBps) \div GOV_BPS

carried(p) ==
    /\ totalVoted(p) >= quorumRequired
    /\ proposals[p].votes["For"] > proposals[p].votes["Against"]

finalizeProposal(p) ==
    /\ proposals[p].status = "Active" /\ p \in ended
    /\ SetProposal(p, IF carried(p) THEN "Succeeded" ELSE "Defeated")

executeProposal(p) ==
    /\ proposals[p].status = "Succeeded"
    /\ SetProposal(p, "Executed")

\* By its proposer or the owner.
cancelProposal(p) ==
    /\ proposals[p].status = "Active"
    /\ SetProposal(p, "Cancelled")

GovNext ==
    \/ \E v \in Voters, n \in 1..MaxPower : addMember(v, n) \/ updateVotingPower(v, n)
    \/ \E v \in Voters : removeMember(v)
    \/ \E n \in 1..GOV_BPS : setQuorum(n)
    \/ \E v \in Voters, p \in Proposals : createProposal(v, p)
    \/ \E v \in Voters, p \in Proposals, type \in VoteType : castVote(v, p, type)
    \/ \E p \in Proposals : \/ EndPeriod(p) \/ finalizeProposal(p)
                            \/ executeProposal(p) \/ cancelProposal(p)

GovSpec == GovInit /\ [][GovNext]_govVars

-----------------------------------------------------------------------------
(* Properties.                                                             *)

\* Members, proposals and votes are well formed.
GovTypeOK ==
    /\ power \in [Voters -> Nat]
    /\ totalVotingPower \in Nat /\ memberCount \in Nat /\ quorumBps \in 1..GOV_BPS
    /\ proposals \in [Proposals -> Proposal] /\ ended \subseteq Proposals
    /\ hasVoted \in [Proposals -> SUBSET Voters]
    /\ weight \in [Proposals -> [Voters -> Nat]]

\* Power counts once.  The tally is the votes, one for each voter with one weight: a
\* member who is removed and added again, or whose power changes, does not vote
\* twice.  The total the quorum is taken of is the power of the members of now,
\* through removals, returns and updates.
PowerCountsOnce ==
    /\ \A p \in Proposals : totalVoted(p) = SumFunctionOnSet(weight[p], Voters)
    /\ totalVotingPower = SumFunctionOnSet(power, Voters)
    /\ memberCount = Cardinality({v \in Voters : isActive(v)})
=============================================================================
