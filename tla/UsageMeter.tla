------------------------------ MODULE UsageMeter ------------------------------
(***************************************************************************)
(* Metering of one user in apps/api/app/services/billing/billing_service:  *)
(* ensure_cycle, record_usage_usd, charge_service for a land analysis,     *)
(* topup and set_tier, on the user's row of public.users.                  *)
(*                                                                         *)
(* A use of a language model is paid from the month's included amount      *)
(* first, and from the coins the user has bought where that ends.  What    *)
(* is to be drawn is computed from a row read before an await; the UPDATE  *)
(* is relative.  One action is one SELECT, or one UPDATE with its commit.  *)
(***************************************************************************)
EXTENDS Integers

CONSTANTS
    Uses,          \* calls of record_usage_usd and of charge_service
    Costs,         \* billed_krw of a use, in units
    Included,      \* tier_included_budget_krw of the metered tier (of the other: 0)
    Quota,         \* free_tier_analysis_quota
    MaxMonths,     \* bound: the months a behaviour sees
    MaxBought,     \* bound: the coins bought
    MaxTierChanges \* bound: the calls of set_tier

ASSUME MeterAssumption ==
    /\ Costs \subseteq Nat
    /\ Included \in Nat \ {0}
    /\ Quota \in Nat
    /\ MaxMonths \in Nat \ {0} /\ MaxBought \in Nat /\ MaxTierChanges \in Nat

VARIABLES
    user,      \* the row: tier, llm_billed_krw, monthly_base_krw, topup_krw, billing_cycle_start, analysis_count
    month,     \* the month it is
    use,       \* where a call is
    view,      \* the row as the call has it in its variables
    cost,      \* what the call costs
    drawn,     \* history: what was to be drawn from bought coins since the last reset
    spent,     \* history: what was to be drawn ever
    bought,    \* history: coins bought
    stale,     \* history: the amount billed was reset under a call that had read it
    switched   \* tier changes so far

meterVars == <<user, month, use, view, cost, drawn, spent, bought, stale, switched>>

-----------------------------------------------------------------------------
(* Types *)

Tiers == {"metered", "free"}
UserRows == [tier : Tiers, billed : Nat, base : {0, Included}, topup : Nat,
             cycle : Nat, count : 0..Quota]

MeterTypeOK ==
    /\ user \in UserRows
    /\ month \in 1..MaxMonths
    /\ use \in [Uses -> {"idle", "roll", "assign", "record", "count", "pay", "done"}]
    /\ view \in [Uses -> UserRows]
    /\ cost \in [Uses -> Costs \cup {0}]
    /\ drawn \in Nat /\ spent \in Nat /\ bought \in 0..MaxBought
    /\ stale \in BOOLEAN
    /\ switched \in 0..MaxTierChanges

\* A call that has read nothing yet, or whose variables are gone.
NoView == [tier |-> "free", billed |-> 0, base |-> 0, topup |-> 0, cycle |-> 0, count |-> 0]
Returns(c) ==
    /\ use' = [use EXCEPT ![c] = "done"]
    /\ view' = [view EXCEPT ![c] = NoView]
    /\ cost' = [cost EXCEPT ![c] = 0]

\* A new user of either tier, or one from before the migration (base still 0).
MeterInit ==
    /\ user \in [tier : Tiers, billed : {0}, base : {0, Included}, topup : {0}, cycle : {1}, count : {0}]
    /\ user.tier = "free" => user.base = 0
    /\ month = 1
    /\ use = [c \in Uses |-> "idle"]
    /\ view = [c \in Uses |-> NoView]
    /\ cost = [c \in Uses |-> 0]
    /\ drawn = 0 /\ spent = 0 /\ bought = 0
    /\ stale = FALSE
    /\ switched = 0

Past(n) == IF n > 0 THEN n ELSE 0      \* max(0, n)

\* The calls whose computation rests on an amount billed they have read.
HasRead(c) == use[c] \in {"assign", "record"}

-----------------------------------------------------------------------------
(* record_usage_usd *)

\* ensure_cycle: the SELECT and the clock (kept as the view's cycle), and what they
\* lead to.
UseReads(c) ==
    /\ use[c] = "idle"
    /\ IF user.tier # "metered" THEN Returns(c)
       ELSE /\ view' = [view EXCEPT ![c] = [user EXCEPT !.cycle = month]]
            /\ \E n \in Costs : cost' = [cost EXCEPT ![c] = n]
            /\ use' = [use EXCEPT ![c] =
                   IF user.cycle # month THEN "roll" ELSE IF user.base = 0 THEN "assign" ELSE "record"]
    /\ UNCHANGED <<user, month, drawn, spent, bought, stale, switched>>

\* The month has changed: the amount billed starts again, bought coins stay.
Rolled(c, row) == [row EXCEPT !.billed = 0, !.base = Included, !.cycle = view[c].cycle]

UseRolls(c) ==
    /\ use[c] = "roll"
    /\ user' = Rolled(c, user)
    /\ view' = [view EXCEPT ![c] = Rolled(c, @)]
    /\ use' = [use EXCEPT ![c] = "record"]
    /\ drawn' = 0
    /\ stale' = (stale \/ \E d \in Uses \ {c} : HasRead(d))
    /\ UNCHANGED <<month, cost, spent, bought, switched>>

UseAssigns(c) ==
    /\ use[c] = "assign"
    /\ user' = [user EXCEPT !.base = Included]
    /\ view' = [view EXCEPT ![c].base = Included]
    /\ use' = [use EXCEPT ![c] = "record"]
    /\ UNCHANGED <<month, cost, drawn, spent, bought, stale, switched>>

\* The month's included amount is used up first (mutant: the whole excess is drawn
\* again with every use).
DrawExcess(c) == Past(view[c].billed + cost[c] - view[c].base)
Draw(c) == Past(view[c].billed + cost[c] - view[c].base) - Past(view[c].billed - view[c].base)

\* topup_krw = GREATEST(0, topup_krw - :draw).
DrawnTopup(c) == Past(user.topup - Draw(c))

UseRecords(c) ==
    /\ use[c] = "record"
    /\ user' = [user EXCEPT !.billed = @ + cost[c], !.topup = DrawnTopup(c)]
    /\ drawn' = drawn + Draw(c)
    /\ spent' = spent + Draw(c)
    /\ Returns(c)
    /\ UNCHANGED <<month, bought, stale, switched>>

-----------------------------------------------------------------------------
(* charge_service(land_analysis), topup, set_tier *)

AnalysisReads(c) ==
    /\ use[c] = "idle"
    /\ view' = [view EXCEPT ![c] = user]
    /\ use' = [use EXCEPT ![c] =
           IF user.tier = "free" /\ user.count < Quota THEN "count" ELSE "pay"]
    /\ UNCHANGED <<user, month, cost, drawn, spent, bought, stale, switched>>

\* UPDATE ... WHERE analysis_count < :quota.
QuotaLeft(c) == user.count < Quota

AnalysisCounts(c) ==
    /\ use[c] = "count"
    /\ IF QuotaLeft(c)
       THEN user' = [user EXCEPT !.count = @ + 1] /\ Returns(c)
       ELSE use' = [use EXCEPT ![c] = "pay"] /\ UNCHANGED <<user, view, cost>>
    /\ UNCHANGED <<month, drawn, spent, bought, stale, switched>>

\* service_fee_krw, a counter nothing here reads.
AnalysisPays(c) ==
    /\ use[c] = "pay"
    /\ Returns(c)
    /\ UNCHANGED <<user, month, drawn, spent, bought, stale, switched>>

Topup ==
    /\ bought < MaxBought
    /\ user' = [user EXCEPT !.topup = @ + 1]
    /\ bought' = bought + 1
    /\ UNCHANGED <<month, use, view, cost, drawn, spent, stale, switched>>

SetTier(tier) ==
    /\ switched < MaxTierChanges
    /\ switched' = switched + 1
    /\ user' = [user EXCEPT !.tier = tier, !.billed = 0, !.cycle = month,
                            !.base = IF tier = "metered" THEN Included ELSE 0]
    /\ drawn' = 0
    /\ stale' = (stale \/ \E d \in Uses : HasRead(d))
    /\ UNCHANGED <<month, use, view, cost, spent, bought>>

NextMonth ==
    /\ month < MaxMonths
    /\ month' = month + 1
    /\ UNCHANGED <<user, use, view, cost, drawn, spent, bought, stale, switched>>

-----------------------------------------------------------------------------

MeterNext ==
    \/ \E c \in Uses :
          \/ UseReads(c) \/ UseRolls(c) \/ UseAssigns(c) \/ UseRecords(c)
          \/ AnalysisReads(c) \/ AnalysisCounts(c) \/ AnalysisPays(c)
    \/ Topup \/ NextMonth
    \/ \E tier \in Tiers : SetTier(tier)

MeterSpec == MeterInit /\ [][MeterNext]_meterVars

-----------------------------------------------------------------------------
(* Properties *)

\* What is drawn from bought coins is at most what the month's uses cost beyond
\* the included amount, however calls interleave, unless the month or the tier
\* changed under a call that had read the amount billed; and a bought coin leaves
\* the account by a draw only: no call writes an older balance over it.
NeverOverdrawn ==
    /\ ~stale => drawn <= Past(user.billed - user.base)
    /\ user.topup + spent >= bought
==============================================================================
