----------------------------- MODULE SalesUnits -----------------------------
(***************************************************************************)
(* One sales site: the units on sale (sales_unit_inventory) and everyone   *)
(* who takes them - staff with a five-minute hold, the context menu of a   *)
(* unit, contracts, the subscription draw with its reserve queue, first    *)
(* come first served claims, and the instant draw of unit numbers.  Every  *)
(* operation is one transaction that starts with the unit's row lock or is *)
(* a conditional UPDATE, so it is one step.  The two draws take two: each   *)
(* looks at something before it has the locks it works under.              *)
(***************************************************************************)
EXTENDS Naturals, Functions

CONSTANTS
    Units,       \* units of one type, all of them in the committed pools
    Staff,       \* users who hold units and make contracts
    Contracts,   \* sales_contracts_ext rows that can be created
    Apps,        \* applications of the one subscription announcement
    Candidates,  \* people on the list of the instant draw
    Draws,       \* draw requests that can be in progress together
    None,        \* NULL
    Events,      \* the optional operations of this instance
    MaxHolds     \* bound: how often a unit is held

\* menu: unit_action; draw: the instant draw; subscription: the announcement's
\* draw and its reserves; claim: first come first served offers.
EventKinds == {"menu", "draw", "subscription", "claim"}

ASSUME InstanceAssumption ==
    /\ None \notin Units \cup Staff \cup Candidates
    /\ Events \subseteq EventKinds
    /\ MaxHolds \in Nat

VARIABLES
    unit,        \* sales_unit_inventory
    issued,      \* hold tokens issued for a unit so far
    knows,       \* tokens each staff member has been given
    contract,    \* sales_contracts_ext
    winner,      \* sales_subscription_winners, by application
    queue,       \* sales_subscription_reserve_queue, not yet promoted
    announced,   \* the announcement's units while it is open; {} once DRAWN
    seating,     \* run_draw has found the committed pool whole
    assigned,    \* sales_draw_candidates.assigned_unit_id
    drawn,       \* DRAW_ASSIGN events of the unit event ledger
    drawing      \* draw_for_candidate requests that have read their candidate

vars == <<unit, issued, knows, contract, winner, queue, announced, seating,
          assigned, drawn, drawing>>
holds        == <<issued, knows>>
subscription == <<winner, queue, announced, seating>>
lottery      == <<assigned, drawn, drawing>>

-----------------------------------------------------------------------------
(* Types.                                                                  *)

UnitStatus == {"AVAILABLE", "HOLD", "APPLIED", "RESERVED", "CONTRACTED", "CANCELLED"}

\* A token is the number of the hold that issued it; 0 is NULL.  expiry is
\* hold_expires_at against now().  by is the user whose request last wrote the
\* row (sales_unit_status_log.by).
UnitRow == [status : UnitStatus, heldBy : Staff \cup {None}, token : 0..MaxHolds,
            expiry : {"none", "live", "past"}, by : Staff \cup {None}]
ContractRow == [unit : Units \cup {None}, stage : {"none", "RESERVED", "SIGNED", "CANCELLED"}]
WinnerRow   == [unit : Units \cup {None}, status : {"none", "NOTIFIED", "FORFEITED"}]

NewUnit == [status |-> "AVAILABLE", heldBy |-> None, token |-> 0,
            expiry |-> "none", by |-> None]
NoContract == [unit |-> None, stage |-> "none"]
NoWinner   == [unit |-> None, status |-> "none"]

-----------------------------------------------------------------------------
(* What the guards and the writes of the handlers are made of.             *)

Active(c)      == contract[c].stage \in {"RESERVED", "SIGNED"}
UnderContract(u) == \E c \in Contracts : Active(c) /\ contract[c].unit = u
Occupants(u)   == {a \in Apps : winner[a].status = "NOTIFIED" /\ winner[a].unit = u}
Available      == {u \in Units : unit[u].status = "AVAILABLE"}
Held(u)        == unit[u].status = "HOLD" /\ unit[u].heldBy # None /\ unit[u].expiry = "live"

\* An update of the status column alone leaves the hold's columns as they are.
SetStatus(u, st, s) == [unit EXCEPT ![u].status = st, ![u].by = s]
\* An update that also empties held_by, hold_token and hold_expires_at.
SetFree(u, st, s) ==
    [unit EXCEPT ![u] = [status |-> st, heldBy |-> None, token |-> 0,
                         expiry |-> "none", by |-> s]]

Tokens(s, u) == {t \in 1..MaxHolds : <<u, t>> \in knows[s]}

-----------------------------------------------------------------------------
Init ==
    /\ unit = [u \in Units |-> NewUnit]
    /\ issued = [u \in Units |-> 0]
    /\ knows = [s \in Staff |-> {}]
    /\ contract = [c \in Contracts |-> NoContract]
    /\ winner = [a \in Apps |-> NoWinner]
    /\ queue = {}
    /\ announced = IF "subscription" \in Events THEN Units ELSE {}
    /\ seating = FALSE
    /\ assigned = [d \in Candidates |-> None]
    /\ drawn = {}
    /\ drawing = [q \in Draws |-> None]

-----------------------------------------------------------------------------
(* Holds of staff (units/concurrency.py).                                  *)

\* An available unit, or a hold that has run out (or never had a time).
Holdable(u) ==
    \/ unit[u].status = "AVAILABLE"
    \/ unit[u].status = "HOLD" /\ unit[u].expiry # "live"

\* (mutant: the token of an earlier hold is used again)
AtomicHoldSameToken(s, u) ==
    /\ Holdable(u)
    /\ issued[u] < MaxHolds
    /\ unit' = [unit EXCEPT ![u] = [status |-> "HOLD", heldBy |-> s, token |-> issued[u] + 1,
                                    expiry |-> "live", by |-> s]]
    /\ knows' = [knows EXCEPT ![s] = @ \cup {<<u, issued[u] + 1>>}]
    /\ UNCHANGED <<issued, contract, subscription, lottery>>

AtomicHold(s, u) ==
    /\ Holdable(u)
    /\ issued[u] < MaxHolds
    /\ issued' = [issued EXCEPT ![u] = @ + 1]
    /\ unit' = [unit EXCEPT ![u] = [status |-> "HOLD", heldBy |-> s, token |-> issued[u] + 1,
                                    expiry |-> "live", by |-> s]]
    /\ knows' = [knows EXCEPT ![s] = @ \cup {<<u, issued[u] + 1>>}]
    /\ UNCHANGED <<contract, subscription, lottery>>

\* A token is checked only if the request brings one.
AtomicRelease(s, u) ==
    /\ unit[u].status = "HOLD" /\ unit[u].heldBy = s
    /\ unit' = SetFree(u, "AVAILABLE", s)
    /\ UNCHANGED <<holds, contract, subscription, lottery>>

AtomicReserve(s, u) ==
    /\ Held(u) /\ unit[u].heldBy = s
    /\ unit[u].token \in Tokens(s, u)
    /\ unit' = SetFree(u, "CONTRACTED", s)
    /\ UNCHANGED <<holds, contract, subscription, lottery>>

\* The hold's time runs out.
Expire(u) ==
    /\ unit[u].expiry = "live"
    /\ unit' = [unit EXCEPT ![u].expiry = "past"]
    /\ UNCHANGED <<holds, contract, subscription, lottery>>

\* A staff member hands a token to a colleague.
ShareToken(s, r) ==
    /\ \E k \in knows[s] : knows' = [knows EXCEPT ![r] = @ \cup {k}]
    /\ UNCHANGED <<unit, issued, contract, subscription, lottery>>

-----------------------------------------------------------------------------
(* The context menu of a unit (units/lifecycle_actions.py): it looks at    *)
(* the status and at nothing else.                                         *)

Transitions == [HOLD_REQUEST       |-> [from |-> {"AVAILABLE"}, to |-> "HOLD"],
                HOLD_CANCEL        |-> [from |-> {"HOLD"}, to |-> "AVAILABLE"],
                CONTRACT_WAIT      |-> [from |-> {"HOLD", "AVAILABLE"}, to |-> "APPLIED"],
                CONTRACT_CANCEL    |-> [from |-> {"APPLIED"}, to |-> "AVAILABLE"],
                CONTRACT_SIGN      |-> [from |-> {"APPLIED", "HOLD"}, to |-> "CONTRACTED"],
                CONTRACT_TERMINATE |-> [from |-> {"CONTRACTED"}, to |-> "CANCELLED"]]

UnitAction(s, u) ==
    /\ "menu" \in Events
    /\ \E act \in DOMAIN Transitions :
          /\ unit[u].status \in Transitions[act].from
          /\ unit' = SetStatus(u, Transitions[act].to, s)
    /\ UNCHANGED <<holds, contract, subscription, lottery>>

-----------------------------------------------------------------------------
(* Contracts (contract/service.py).                                        *)

\* (mutant: who holds the unit does not matter, as it once did not)
MayContractByStatus(s, u) == unit[u].status \in {"AVAILABLE", "HOLD"}

\* A hold without an owner is one the site has parked: anybody may contract it.
\* A hold with an owner is for the owner, or for who shows its token, in time.
MayContract(s, u) ==
    \/ unit[u].status = "AVAILABLE"
    \/ /\ unit[u].status = "HOLD"
       /\ \/ unit[u].heldBy = None
          \/ Held(u) /\ (unit[u].heldBy = s \/ unit[u].token \in Tokens(s, u))

\* (mutant: the index as it would be on the signed contracts alone)
ContractFitsSigned(u) == \A c \in Contracts : contract[c].unit = u => contract[c].stage # "SIGNED"

\* uq_sales_contract_active_unit, the index of migration 037
ContractFits(u) == ~UnderContract(u)

CreateContract(s, u, c) ==
    /\ contract[c] = NoContract
    /\ MayContract(s, u)
    /\ ContractFits(u)
    /\ contract' = [contract EXCEPT ![c] = [unit |-> u, stage |-> "RESERVED"]]
    /\ unit' = SetFree(u, "RESERVED", s)
    /\ UNCHANGED <<holds, subscription, lottery>>

SignContract(s, c) ==
    /\ contract[c].stage = "RESERVED"
    /\ contract' = [contract EXCEPT ![c].stage = "SIGNED"]
    /\ unit' = SetStatus(contract[c].unit, "CONTRACTED", s)
    /\ UNCHANGED <<holds, subscription, lottery>>

\* (mutant: canceling a canceled contract frees the unit once more)
CancelContractAgain(s, c) ==
    /\ contract[c].stage # "none"
    /\ contract' = [contract EXCEPT ![c].stage = "CANCELLED"]
    /\ unit' = SetStatus(contract[c].unit, "AVAILABLE", s)
    /\ UNCHANGED <<holds, subscription, lottery>>

\* A canceled contract is answered as it is; its unit may be someone else's.
CancelContract(s, c) ==
    /\ Active(c)
    /\ contract' = [contract EXCEPT ![c].stage = "CANCELLED"]
    /\ unit' = SetStatus(contract[c].unit, "AVAILABLE", s)
    /\ UNCHANGED <<holds, subscription, lottery>>

-----------------------------------------------------------------------------
(* The subscription draw, its reserves and offers (subscription/engine.py).*)

Seats(W, seat) == {seat[a] : a \in W}

\* The winners W are told of the units seat; the others are reserves.
Seated(W, seat) ==
    /\ winner' = [a \in Apps |-> IF a \in W
                                 THEN [unit |-> seat[a], status |-> "NOTIFIED"]
                                 ELSE winner[a]]
    /\ queue' = Apps \ W
    /\ unit' = [u \in Units |-> IF u \in Seats(W, seat)
                                THEN [unit[u] EXCEPT !.status = "APPLIED", !.by = None]
                                ELSE unit[u]]

\* The pool committed to is all the announcement's units and must be available
\* to the last one; the announcement is locked, the units are not.
DrawGate ==
    /\ announced # {} /\ ~seating
    /\ Available = announced
    /\ seating' = TRUE
    /\ UNCHANGED <<unit, holds, contract, winner, queue, announced, lottery>>

\* The units that are available by now are locked, and as many applications as
\* there are units win; ranks and seed decide who wins which.
RunDraw ==
    /\ seating
    /\ \E W \in SUBSET Apps : \E seat \in [W -> Available] :
          /\ \A a, b \in W : a # b => seat[a] # seat[b]
          /\ W = Apps \/ Available = Seats(W, seat)
          /\ Seated(W, seat)
    /\ announced' = {} /\ seating' = FALSE
    /\ UNCHANGED <<holds, contract, lottery>>

\* A unit without a winner must be available.
Promotable(u) == Occupants(u) # {} \/ unit[u].status = "AVAILABLE"

\* FOR UPDATE SKIP LOCKED finds nobody: the queue is empty, or promotions of other
\* units have every row of it locked.
NobodyNext(u) == ExistsInjection(queue, {v \in Units \ {u} : Promotable(v)})

\* (mutant: the winner of the unit does not forfeit)
PromoteReserveKeeping(s, u) ==
    /\ "subscription" \in Events
    /\ Promotable(u)
    /\ \/ \E a \in queue :
             /\ winner' = [winner EXCEPT ![a] = [unit |-> u, status |-> "NOTIFIED"]]
             /\ queue' = queue \ {a}
             /\ unit' = SetStatus(u, "APPLIED", s)
       \/ /\ NobodyNext(u) /\ Occupants(u) # {}
          /\ unit' = SetStatus(u, "AVAILABLE", s)
          /\ UNCHANGED <<winner, queue>>
    /\ UNCHANGED <<holds, contract, announced, seating, lottery>>

\* The unit's winner, if there is one, forfeits, and the next reserve (reserve_no
\* is data, any of them may be next) takes the unit.
PromoteReserve(s, u) ==
    /\ "subscription" \in Events
    /\ Promotable(u)
    /\ LET left == [a \in Apps |-> IF a \in Occupants(u)
                                   THEN [winner[a] EXCEPT !.status = "FORFEITED"]
                                   ELSE winner[a]]
       IN  \/ \E a \in queue :
                 /\ winner' = [left EXCEPT ![a] = [unit |-> u, status |-> "NOTIFIED"]]
                 /\ queue' = queue \ {a}
                 /\ unit' = SetStatus(u, "APPLIED", s)
           \/ /\ NobodyNext(u) /\ Occupants(u) # {}
              /\ winner' = left
              /\ unit' = SetStatus(u, "AVAILABLE", s)
              /\ UNCHANGED queue
    /\ UNCHANGED <<holds, contract, announced, seating, lottery>>

ClaimOffer(u) ==
    /\ "claim" \in Events
    /\ unit[u].status = "AVAILABLE"
    /\ unit' = SetStatus(u, "APPLIED", None)
    /\ UNCHANGED <<holds, contract, subscription, lottery>>

-----------------------------------------------------------------------------
(* The instant draw (draw/draw_engine.py).                                 *)

\* The candidate is read without a lock; then reveal_commitment updates the row
\* of the group's commitment, and the request waits there for the one before it.
DrawBegin(q, d) ==
    /\ "draw" \in Events
    /\ drawing[q] = None
    /\ assigned[d] = None
    /\ drawing' = [drawing EXCEPT ![q] = d]
    /\ UNCHANGED <<unit, holds, contract, subscription, assigned, drawn>>

\* Units on sale that no candidate has been given (_remaining_units).
Remaining == {u \in Available : \A d \in Candidates : assigned[d] # u}

\* A committed unit that is no longer available is skipped; which of the others
\* is drawn is the key's choice.
DrawTake(q) ==
    /\ drawing[q] # None
    /\ \E u \in Remaining :
          /\ unit' = SetStatus(u, "HOLD", None)
          /\ assigned' = [assigned EXCEPT ![drawing[q]] = u]
          /\ drawn' = drawn \cup {<<drawing[q], u>>}
    /\ drawing' = [drawing EXCEPT ![q] = None]
    /\ UNCHANGED <<holds, contract, subscription>>

\* Nothing is left to draw, or the beacon does not answer: the request fails.
DrawFail(q) ==
    /\ drawing[q] # None
    /\ drawing' = [drawing EXCEPT ![q] = None]
    /\ UNCHANGED <<unit, holds, contract, subscription, assigned, drawn>>

-----------------------------------------------------------------------------
UnitStep ==
    \E u \in Units :
       \/ Expire(u)
       \/ ClaimOffer(u)
       \/ \E s \in Staff :
             \/ AtomicHold(s, u)
             \/ AtomicRelease(s, u)
             \/ AtomicReserve(s, u)
             \/ UnitAction(s, u)
             \/ PromoteReserve(s, u)
             \/ \E c \in Contracts : CreateContract(s, u, c)

Next ==
    \/ UnitStep
    \/ \E s, r \in Staff : ShareToken(s, r)
    \/ \E s \in Staff, c \in Contracts : SignContract(s, c) \/ CancelContract(s, c)
    \/ DrawGate \/ RunDraw
    \/ \E q \in Draws, d \in Candidates : DrawBegin(q, d)
    \/ \E q \in Draws : DrawTake(q) \/ DrawFail(q)

Spec == Init /\ [][Next]_vars

-----------------------------------------------------------------------------
(* Properties.                                                             *)

\* Rows and requests are well formed; a token has been issued for its unit.
TypeOK ==
    /\ unit \in [Units -> UnitRow]
    /\ issued \in [Units -> 0..MaxHolds]
    /\ knows \in [Staff -> SUBSET (Units \X (1..MaxHolds))]
    /\ contract \in [Contracts -> ContractRow]
    /\ winner \in [Apps -> WinnerRow]
    /\ queue \subseteq Apps /\ announced \subseteq Units /\ seating \in BOOLEAN
    /\ assigned \in [Candidates -> Units \cup {None}]
    /\ drawn \subseteq Candidates \X Units
    /\ drawing \in [Draws -> Candidates \cup {None}]
    /\ \A u \in Units : unit[u].token <= issued[u]

\* "One unit, one contract" (contract/service.py): a unit never has two active
\* contracts, however its status got there.
OneContract ==
    \A c, d \in Contracts :
       Active(c) /\ Active(d) /\ contract[c].unit = contract[d].unit => c = d

\* A unit has one winner who has not forfeited (promote_reserve).
OneWinner == \A u \in Units, a, b \in Apps : {a, b} \subseteq Occupants(u) => a = b

\* Who holds a unit, or was shown its token, is the only one who can use the
\* unit up or give it back while the hold lasts (atomic_hold, create_contract).
HoldIsKept ==
    [][\A u \in Units :
          Held(u) /\ unit'[u] # unit[u] =>
             \/ unit'[u].expiry = "past"
             \/ unit'[u].by = unit[u].heldBy
             \/ <<u, unit[u].token>> \in UNION {knows[s] : s \in {unit'[u].by} \ {None}}]_vars

\* The unit of an active contract is reserved, contracted or terminated: nobody
\* else can be sold what a contract has (cancel_contract, promote_reserve).
ContractHoldsUnit ==
    \A c \in Contracts : Active(c) =>
       unit[contract[c].unit].status \in {"RESERVED", "CONTRACTED", "CANCELLED"}

\* Who has won a unit and not forfeited finds it applied for (run_draw,
\* promote_reserve).
WinnerHoldsUnit ==
    \A a \in Apps : winner[a].status = "NOTIFIED" => unit[winner[a].unit].status = "APPLIED"

\* The instant draw gives a candidate one unit (draw_for_candidate).
OneUnitPerCandidate ==
    \A d \in Candidates, u, v \in Units : <<d, u>> \in drawn /\ <<d, v>> \in drawn => u = v

=============================================================================
