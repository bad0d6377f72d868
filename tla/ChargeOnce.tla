------------------------------ MODULE ChargeOnce ------------------------------
(***************************************************************************)
(* The guard of every request that costs money: apps/api/app/core          *)
(* charge_idempotency (reserve, settle, release) and charge_guard (the     *)
(* charge_once block around the work and its charges), with the charging   *)
(* helpers of routers/registry as the block's content.                     *)
(*                                                                         *)
(* A request reserves its key, works, is charged unit by unit and settles; *)
(* a request whose key is settled works free of charge.  One action is one *)
(* statement or one charge.  The rows of one key are all there is to say:  *)
(* "key" stands for <<scope, endpoint, key>>.                              *)
(***************************************************************************)
EXTENDS Naturals, FiniteSets

CONSTANTS
    Requests,          \* requests with an Idempotency-Key
    ChargeKeys,        \* <<scope_id, endpoint, idempotency_key>>
    Bodies,            \* request hashes
    KeyOf, BodyOf,     \* the key and the hash of every request
    MaxUnits,          \* bound: the chargeable units one request may produce
    Flaws,             \* what may go wrong: "outage", "raise", "die", "lost charge", "settle", "release", "slow"
    MaxFlaws           \* bound: how many of them a behaviour has

ASSUME ChargeAssumption ==
    /\ Requests # {}
    /\ KeyOf \in [Requests -> ChargeKeys]
    /\ BodyOf \in [Requests -> Bodies]
    /\ MaxUnits \in Nat
    /\ MaxFlaws \in Nat

VARIABLES
    charge,     \* the row of charge_idempotency, per key
    call,       \* where a request is: its charge_once block
    mode,       \* the state its ChargeGuard was given
    seen,       \* the created_at it has read
    due,        \* the units it has still to be charged for
    billed,     \* the units it was charged for
    overdue,    \* history: the keys whose holder outlived the in-flight TTL
    lapsed,     \* history: the keys whose settled row was taken over a day later
    flaws       \* flaws so far

chargeVars == <<charge, call, mode, seen, due, billed, overdue, lapsed, flaws>>

-----------------------------------------------------------------------------
(* Types *)

\* created_at is the identity of the request that wrote it (each writes it once)
\* and an age: past neither TTL, past _INFLIGHT_TTL_S, past _SETTLED_TTL_S too.
ChargeRows ==
    [st : {"absent", "in_flight", "settled"}, body : Bodies, born : Requests,
     age : {"young", "late", "old"}]

Reserved(r) == [st |-> "in_flight", body |-> BodyOf[r], born |-> r, age |-> "young"]

NoReservation == [Reserved(CHOOSE r \in Requests : TRUE) EXCEPT !.st = "absent"]

Answers == {"refused", "done", "unsettled", "failed", "dead"}
Inside == {"work", "bill", "settle", "release"}

ChargeTypeOK ==
    /\ charge \in [ChargeKeys -> ChargeRows]
    /\ call \in [Requests -> {"start", "look", "take"} \cup Inside \cup Answers]
    /\ mode \in [Requests -> {"none", "reserved", "settled", "unavailable"}]
    /\ seen \in [Requests -> Requests]
    /\ due \in [Requests -> 0..MaxUnits]
    /\ billed \in [Requests -> 0..MaxUnits]
    /\ overdue \subseteq ChargeKeys
    /\ lapsed \subseteq ChargeKeys
    /\ flaws \in 0..MaxFlaws

ChargeInit ==
    /\ charge = [k \in ChargeKeys |-> NoReservation]
    /\ call = [r \in Requests |-> "start"]
    /\ mode = [r \in Requests |-> "none"]
    /\ seen = [r \in Requests |-> r]
    /\ due = [r \in Requests |-> 0]
    /\ billed = [r \in Requests |-> 0]
    /\ overdue = {}
    /\ lapsed = {}
    /\ flaws = 0

Flaw(kind) ==
    /\ kind \in Flaws
    /\ flaws < MaxFlaws
    /\ flaws' = flaws + 1

Row(r) == charge[KeyOf[r]]
Put(r, row) == charge' = [charge EXCEPT ![KeyOf[r]] = row]
Goes(r, where) == call' = [call EXCEPT ![r] = where]
Given(r, state) == mode' = [mode EXCEPT ![r] = state]

-----------------------------------------------------------------------------
(* reserve() *)

\* INSERT ... ON CONFLICT DO NOTHING RETURNING id, committed.
ReserveInsert(r) ==
    /\ call[r] = "start"
    /\ IF Row(r).st = "absent"
       THEN Put(r, Reserved(r)) /\ Goes(r, "work") /\ Given(r, "reserved")
       ELSE Goes(r, "look") /\ UNCHANGED <<charge, mode>>
    /\ UNCHANGED <<seen, due, billed, overdue, lapsed, flaws>>

\* age_s > ttl, by the row's state (mutant: an in-flight row never expires).
ExpiredSettled(row) == row.st = "settled" /\ row.age = "old"
Expired(row) == IF row.st = "in_flight" THEN row.age # "young" ELSE row.age = "old"

\* The SELECT and the decision on it: no row (gone since the INSERT) is treated as
\* an outage, another hash is 422, a young reservation 409, a settled row runs free.
ReserveLook(r) ==
    /\ call[r] = "look"
    /\ \/ Row(r).st = "absent" /\ Goes(r, "work") /\ Given(r, "unavailable") /\ UNCHANGED seen
       \/ /\ Row(r).st # "absent"
          /\ \/ Row(r).body # BodyOf[r]
             \/ Row(r).st = "in_flight" /\ ~Expired(Row(r))
          /\ Goes(r, "refused")
          /\ UNCHANGED <<mode, seen>>
       \/ /\ Row(r).st = "settled" /\ Row(r).body = BodyOf[r] /\ ~Expired(Row(r))
          /\ Goes(r, "work") /\ Given(r, "settled")
          /\ UNCHANGED seen
       \/ /\ Row(r).st # "absent" /\ Row(r).body = BodyOf[r] /\ Expired(Row(r))
          /\ Goes(r, "take")
          /\ seen' = [seen EXCEPT ![r] = Row(r).born]
          /\ UNCHANGED mode
    /\ UNCHANGED <<charge, due, billed, overdue, lapsed, flaws>>

\* The row the UPDATE finds: AND created_at = :seen (mutant: without it).
StillThereAny(r) == Row(r).st # "absent"
StillThere(r) == Row(r).st # "absent" /\ Row(r).born = seen[r]

\* UPDATE ... SET state = 'in_flight', created_at = now(): the hash stays.
ReserveTakeOver(r) ==
    /\ call[r] = "take"
    /\ IF StillThere(r)
       THEN /\ Put(r, [Reserved(r) EXCEPT !.body = Row(r).body])
            /\ Goes(r, "work") /\ Given(r, "reserved")
            /\ lapsed' = IF Row(r).st = "settled" /\ Row(r).age = "old"
                         THEN lapsed \cup {KeyOf[r]} ELSE lapsed
       ELSE Goes(r, "refused") /\ UNCHANGED <<charge, mode, lapsed>>
    /\ UNCHANGED <<seen, due, billed, overdue, flaws>>

\* Any statement of reserve fails: the request goes on unprotected.
ReserveFails(r) ==
    /\ call[r] \in {"start", "look", "take"}
    /\ Flaw("outage")
    /\ Goes(r, "work") /\ Given(r, "unavailable")
    /\ UNCHANGED <<charge, seen, due, billed, overdue, lapsed>>

-----------------------------------------------------------------------------
(* The block: the work, and its charges unless the key is settled *)

\* guard.billable.
Billable(r) == mode[r] # "settled"

\* The work ends with n issued documents, analyses or stages.
Works(r) ==
    /\ call[r] = "work"
    /\ \E n \in 0..MaxUnits : due' = [due EXCEPT ![r] = IF Billable(r) THEN n ELSE 0]
    /\ Goes(r, "bill")
    /\ UNCHANGED <<charge, mode, seen, billed, overdue, lapsed, flaws>>

\* charge_service, once per unit, each in a commit of its own.
Bills(r) ==
    /\ call[r] = "bill"
    /\ due[r] > 0
    /\ due' = [due EXCEPT ![r] = @ - 1]
    /\ billed' = [billed EXCEPT ![r] = @ + 1]
    /\ UNCHANGED <<charge, call, mode, seen, overdue, lapsed, flaws>>

\* charge_service fails and the helper passes over it, with the units after it.
LosesCharge(r) ==
    /\ call[r] = "bill"
    /\ due[r] > 0
    /\ Flaw("lost charge")
    /\ due' = [due EXCEPT ![r] = 0]
    /\ UNCHANGED <<charge, call, mode, seen, billed, overdue, lapsed>>

\* Only the holder of a reservation settles or releases it (mutant: a request that
\* ran without one does as well).
OwnsAny(r) == TRUE
Owns(r) == mode[r] = "reserved"

Finishes(r) ==
    /\ call[r] = "bill"
    /\ due[r] = 0
    /\ Goes(r, IF Owns(r) THEN "settle" ELSE "done")
    /\ UNCHANGED <<charge, mode, seen, due, billed, overdue, lapsed, flaws>>

\* The block ends by an exception, before its charges or among them.
BlockRaises(r) ==
    /\ call[r] \in {"work", "bill"}
    /\ Flaw("raise")
    /\ Goes(r, IF Owns(r) THEN "release" ELSE "failed")
    /\ UNCHANGED <<charge, mode, seen, due, billed, overdue, lapsed>>

\* The request is cancelled or its process dies: neither settle nor release.
Dies(r) ==
    /\ call[r] \in {"look", "take"} \cup Inside
    /\ Flaw("die")
    /\ Goes(r, "dead")
    /\ UNCHANGED <<charge, mode, seen, due, billed, overdue, lapsed>>

-----------------------------------------------------------------------------
(* The end of charge_once *)

\* UPDATE ... SET state = 'settled', whoever the row's holder is.
SettleCharge(r) ==
    /\ call[r] = "settle"
    /\ Put(r, IF Row(r).st = "absent" THEN Row(r) ELSE [Row(r) EXCEPT !.st = "settled"])
    /\ Goes(r, "done")
    /\ UNCHANGED <<mode, seen, due, billed, overdue, lapsed, flaws>>

SettleFails(r) ==
    /\ call[r] = "settle"
    /\ Flaw("settle")
    /\ Goes(r, "unsettled")
    /\ UNCHANGED <<charge, mode, seen, due, billed, overdue, lapsed>>

\* What DELETE ... AND state = 'in_flight' leaves of a row.
Released(row) == IF row.st = "in_flight" THEN NoReservation ELSE row

ReleaseCharge(r) ==
    /\ call[r] = "release"
    /\ Put(r, Released(Row(r)))
    /\ Goes(r, "failed")
    /\ UNCHANGED <<mode, seen, due, billed, overdue, lapsed, flaws>>

ReleaseFails(r) ==
    /\ call[r] = "release"
    /\ Flaw("release")
    /\ Goes(r, "failed")
    /\ UNCHANGED <<charge, mode, seen, due, billed, overdue, lapsed>>

\* Time passes: minutes, then a day.  A holder that is still at work is slow.
RowAges(k) ==
    /\ charge[k].st # "absent"
    /\ charge[k].age # "old"
    /\ charge' = [charge EXCEPT ![k].age = IF @ = "young" THEN "late" ELSE "old"]
    /\ IF \E r \in Requests : KeyOf[r] = k /\ mode[r] = "reserved" /\ call[r] \in Inside
       THEN Flaw("slow") /\ overdue' = overdue \cup {k}
       ELSE UNCHANGED <<flaws, overdue>>
    /\ UNCHANGED <<call, mode, seen, due, billed, lapsed>>

-----------------------------------------------------------------------------

\* What a request does by itself.
Proceeds(r) ==
    \/ ReserveInsert(r) \/ ReserveLook(r) \/ ReserveTakeOver(r) \/ Works(r) \/ Bills(r)
    \/ Finishes(r) \/ SettleCharge(r) \/ ReleaseCharge(r)

ChargeNext ==
    \/ \E r \in Requests :
          \/ Proceeds(r) \/ ReserveFails(r) \/ LosesCharge(r) \/ BlockRaises(r)
          \/ Dies(r) \/ SettleFails(r) \/ ReleaseFails(r)
    \/ \E k \in ChargeKeys : RowAges(k)

\* A request that has begun runs on, and time passes.
ChargeFairness ==
    /\ \A r \in Requests : WF_chargeVars(call[r] # "start" /\ Proceeds(r))
    /\ \A k \in ChargeKeys : WF_chargeVars(RowAges(k))

ChargeSpec == ChargeInit /\ [][ChargeNext]_chargeVars
ChargeFairSpec == ChargeSpec /\ ChargeFairness

-----------------------------------------------------------------------------
(* Properties *)

\* A key is charged by one request only: a second one that is charged under a
\* reservation had one before it that raised, died or could not settle, or comes
\* a day later.
ChargedOnce ==
    \A r, s \in Requests :
        /\ r # s /\ KeyOf[r] = KeyOf[s] /\ KeyOf[r] \notin overdue \cup lapsed
        /\ Owns(r) /\ Owns(s)
        /\ billed[r] > 0 /\ billed[s] > 0
        => \E t \in {r, s} : call[t] \in {"unsettled", "failed", "dead"}

\* A request that runs free had one with the same content, under the same key,
\* before it whose block ended well.
FreeWasPaid ==
    \A r \in Requests :
        mode[r] = "settled" /\ KeyOf[r] \notin overdue =>
            \E s \in Requests \ {r} :
                KeyOf[s] = KeyOf[r] /\ BodyOf[s] = BodyOf[r] /\ Owns(s) /\ call[s] = "done"

Locked(k) == charge[k].st = "in_flight" /\ ~Expired(charge[k])

\* However its holder ends, a key is not answered with 409 for ever.
KeyComesBack == \A k \in ChargeKeys : Locked(k) ~> ~Locked(k)
==============================================================================
