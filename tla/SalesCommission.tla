--------------------------- MODULE SalesCommission ---------------------------
(***************************************************************************)
(* The commission of the contracts of one site: it arises when a contract  *)
(* is signed, within the site's pool, is split between the agency and the  *)
(* member who sold, is paid in milestones less what is held back, and is   *)
(* taken back when the contract is canceled.  services/sales/commission    *)
(* (engine.py, extension.py) with what sign_contract and cancel_contract   *)
(* do to it.                                                               *)
(*                                                                         *)
(* A handler is one transaction.  A signature is cut where it reads the    *)
(* master, locks it and adds the pool up, and commits; a payout run where  *)
(* it selects what is due and where it commits.                            *)
(*                                                                         *)
(* A ratio is a multiple of one half, and of any sign: create_schedule     *)
(* checks no more than the sum of one call, and set_holdback nothing.      *)
(***************************************************************************)
EXTENDS Integers, FiniteSets, Functions

CONSTANTS
    Deals,      \* contracts, one event each
    Pool,       \* pool_total of the master, in all its versions
    Bases,      \* base_amount of an event, by the price or fixed
    Versions,   \* 1..n, the versions of the master that become effective
    Planned,    \* bound: the splits that are paid in milestones, <<contract, node>>
    Plans,      \* rows of sales_commission_payout_schedule
    Halves,     \* the ratios milestones are planned with, in halves of the split
    Runs,       \* calls of run_due_payouts
    MaxHeld,    \* bound: the amount held back from a split, of either sign
    NoDeal      \* a row that is not there yet

ASSUME CommissionAssumption ==
    /\ Pool \in Nat /\ Bases \subseteq Nat \ {0} /\ MaxHeld \in Nat
    /\ Halves \subseteq Int
    /\ 1 \in Versions /\ Versions \subseteq Nat \ {0}
    /\ IsFiniteSet(Deals) /\ IsFiniteSet(Plans) /\ NoDeal \notin Deals
    /\ Planned \subseteq Deals \X {"agency", "member"}

VARIABLES
    deal,       \* sales_contracts_ext.stage
    master,     \* the version that is effective
    signing,    \* the signature of a contract that is in progress
    event,      \* sales_commission_events with its splits
    plan,       \* the milestones
    planned,    \* history: calls of create_schedule for a split
    holdback,   \* what is held back from a split and not released
    run,        \* the milestones a payout run has selected
    doubled,    \* history: milestones selected by two runs at once
    raised,     \* history: splits paid while less than nothing was held back from them
    mixed       \* history: signatures under two versions were in progress at once

comVars == <<deal, master, signing, event, plan, planned, holdback, run, doubled, raised, mixed>>

-----------------------------------------------------------------------------
(* Types *)

Nodes  == {"agency", "member"}

Signings == [at : {"no", "read", "locked"}, version : Versions \cup {0},
             base : Bases \cup {0}]
NotSigning == [at |-> "no", version |-> 0, base |-> 0]
NoSplit   == [n \in Nodes |-> 0]
EventRows == [status : {"none", "SPLIT", "REVERSED"}, base : Bases \cup {0},
              split : [Nodes -> Nat]]
NoEvent   == [status |-> "none", base |-> 0, split |-> NoSplit]
PlanRows  == [of : Planned, half : Halves, status : {"PLANNED", "PAID"}, gross : Nat]
NoPlan    == [of |-> <<NoDeal, "agency">>, half |-> 1, status |-> "PAID", gross |-> 0]

ComTypeOK ==
    /\ deal \in [Deals -> {"RESERVED", "SIGNED", "CANCELLED"}]
    /\ master \in Versions
    /\ signing \in [Deals -> Signings]
    /\ event \in [Deals -> EventRows]
    /\ plan \in [Plans -> PlanRows \cup {NoPlan}]
    /\ planned \in [Planned -> Nat] /\ holdback \in [Planned -> -MaxHeld..MaxHeld]
    /\ run \in [Runs -> SUBSET Plans]
    /\ doubled \subseteq Plans /\ raised \subseteq Planned /\ mixed \in BOOLEAN

ComInit ==
    /\ deal = [d \in Deals |-> "RESERVED"]
    /\ master = 1
    /\ signing = [d \in Deals |-> NotSigning]
    /\ event = [d \in Deals |-> NoEvent]
    /\ plan = [p \in Plans |-> NoPlan]
    /\ planned = [s \in Planned |-> 0] /\ holdback = [s \in Planned |-> 0]
    /\ run = [r \in Runs |-> {}]
    /\ doubled = {} /\ raised = {} /\ mixed = FALSE

schedule == <<plan, planned, holdback, run, doubled, raised>>

-----------------------------------------------------------------------------
(* sign_contract with split_commission *)

\* The commission of the contracts that are not canceled, as base_amount
arising == [d \in Deals |-> IF event[d].status = "SPLIT" THEN event[d].base ELSE 0]
Arisen  == SumFunctionOnSet(arising, Deals)

\* The contract's row is locked from here on.
SignRead(d) ==
    /\ deal[d] = "RESERVED" /\ signing[d].at = "no"
    /\ \E b \in Bases : signing' = [signing EXCEPT ![d] = [at |-> "read", version |-> master,
                                                           base |-> b]]
    /\ UNCHANGED <<deal, master, event, schedule, mixed>>

\* FOR UPDATE on the row of the version read (mutant: no lock).
MasterUnlocked(d) == TRUE
MasterFree(d) ==
    \A e \in Deals : signing[e].at = "locked" => signing[e].version # signing[d].version

\* _assert_pool_not_exceeded: events of the site that are not reversed.
SignLock(d) ==
    /\ signing[d].at = "read"
    /\ MasterFree(d)
    /\ signing' = [signing EXCEPT ![d] =
          IF Arisen + signing[d].base > Pool THEN NotSigning
          ELSE [signing[d] EXCEPT !.at = "locked"]]
    /\ mixed' = (mixed \/ \E e \in Deals : signing[e].at = "locked" /\ signing[e].version # signing[d].version)
    /\ UNCHANGED <<deal, master, event, schedule>>

\* The member's share by rate or amount; the rest is the agency's.  A seller who is
\* not in the tree leaves no splits.
Shares(total) ==
    {NoSplit} \cup {[n \in Nodes |-> IF n = "member" THEN share ELSE total - share] :
                   share \in 0..total}

\* Shares that exceed the total fail the signature.
SignCommit(d) ==
    /\ signing[d].at = "locked"
    /\ \/ /\ \E split \in Shares(signing[d].base) :
                event' = [event EXCEPT ![d] =
                    [status |-> "SPLIT", base |-> signing[d].base, split |-> split]]
          /\ deal' = [deal EXCEPT ![d] = "SIGNED"]
       \/ UNCHANGED <<event, deal>>
    /\ signing' = [signing EXCEPT ![d] = NotSigning]
    /\ UNCHANGED <<master, schedule, mixed>>

\* A new version, with the pool as it was (the generic CRUD of commission-master).
NewMaster ==
    /\ master + 1 \in Versions
    /\ master' = master + 1
    /\ UNCHANGED <<deal, signing, event, schedule, mixed>>

\* cancel_contract waits for a signature, and claws back what has arisen; milestones
\* stay planned.
CancelDeal(d) ==
    /\ deal[d] # "CANCELLED" /\ signing[d].at = "no"
    /\ deal' = [deal EXCEPT ![d] = "CANCELLED"]
    /\ event' = [event EXCEPT ![d].status = IF @ = "SPLIT" THEN "REVERSED" ELSE @]
    /\ UNCHANGED <<master, signing, schedule, mixed>>

-----------------------------------------------------------------------------
(* Milestones, what is held back, payouts (extension.py) *)

Unused   == {p \in Plans : plan[p] = NoPlan}
PlansOf(s) == {p \in Plans : plan[p] # NoPlan /\ plan[p].of = s}
Amount(s) == event[s[1]].split[s[2]]

\* The ratios of one call add up to no more than the split; the sign of each, and what was
\* planned before, are not looked at.
\* A split of nothing has no row, but for an agency that is paid nothing.
CreateSchedule(s) ==
    /\ Amount(s) > 0
    /\ \E P \in SUBSET Unused \ {{}} : \E half \in [P -> Halves] :
          /\ SumFunctionOnSet(half, P) <= 2
          /\ plan' = [p \in Plans |->
                IF p \in P THEN [of |-> s, half |-> half[p], status |-> "PLANNED", gross |-> 0]
                ELSE plan[p]]
    /\ planned' = [planned EXCEPT ![s] = @ + 1]
    /\ UNCHANGED <<deal, master, signing, event, holdback, run, doubled, raised, mixed>>

\* set_holdback and release_holdback of one unit, which may be a negative one
Holdback(s) ==
    /\ Amount(s) > 0
    /\ \E h \in {holdback[s] - 1, holdback[s] + 1} \cap -MaxHeld..MaxHeld : holdback' = [holdback EXCEPT ![s] = h]
    /\ UNCHANGED <<deal, master, signing, event, plan, planned, run, doubled, raised, mixed>>

\* (mutant: what is paid is selected again)
SelectableAnyStatus(p) == plan[p] # NoPlan
Selectable(p) == plan[p].status = "PLANNED"

\* Which are due is up to their planned_at.
RunSelect(r) ==
    /\ run[r] = {}
    /\ \E S \in SUBSET {p \in Plans : Selectable(p)} \ {{}} :
          /\ run' = [run EXCEPT ![r] = S]
          /\ doubled' = doubled \cup (S \cap UNION {run[q] : q \in Runs})
    /\ UNCHANGED <<deal, master, signing, event, plan, planned, holdback, raised, mixed>>

\* quantize(Decimal("1")): a half is rounded to the even neighbour.
HalfEven(n) == IF n % 4 = 3 THEN (n + 1) \div 2 ELSE n \div 2

\* What is held back from the split is deducted from each of its milestones.
Gross(p) ==
    LET gross == HalfEven(Amount(plan[p].of) * plan[p].half) - holdback[plan[p].of]
    IN  IF gross > 0 THEN gross ELSE 0

\* What was selected is paid, whatever has become of it.
RunPay(r) ==
    /\ run[r] # {}
    /\ plan' = [p \in Plans |->
          IF p \in run[r] THEN [plan[p] EXCEPT !.status = "PAID", !.gross = @ + Gross(p)]
          ELSE plan[p]]
    /\ run' = [run EXCEPT ![r] = {}]
    /\ raised' = raised \cup {s \in Planned : holdback[s] < 0 /\ \E p \in run[r] : plan[p].of = s}
    /\ UNCHANGED <<deal, master, signing, event, planned, holdback, doubled, mixed>>

-----------------------------------------------------------------------------

ComNext ==
    \/ NewMaster
    \/ \E d \in Deals : SignRead(d) \/ SignLock(d) \/ SignCommit(d) \/ CancelDeal(d)
    \/ \E s \in Planned : CreateSchedule(s) \/ Holdback(s)
    \/ \E r \in Runs : RunSelect(r) \/ RunPay(r)

ComSpec == ComInit /\ [][ComNext]_comVars

-----------------------------------------------------------------------------
(* Properties *)

\* No more commission arises from the contracts that are signed and not canceled
\* than the pool has, however signatures and cancellations interleave, unless
\* signatures under two versions of the master, which lock different rows, met.
PoolKept ==
    ~mixed => Arisen <= Pool

\* A node is paid no more than its split, up to half a unit a milestone is rounded
\* by, unless it was planned in two calls or two runs selected the same milestone; or,
\* in one call, a milestone has a negative ratio and leaves the others more than the
\* whole; or it was paid while less than nothing was held back from it.
PaidWithinSplit ==
    \A s \in Planned :
       /\ planned[s] <= 1 /\ \A p \in PlansOf(s) : plan[p].half >= 0
       /\ PlansOf(s) \cap doubled = {} /\ s \notin raised
       => 2 * SumFunctionOnSet([p \in Plans |-> plan[p].gross], PlansOf(s))
             <= 2 * Amount(s) + Cardinality(PlansOf(s))
==============================================================================
