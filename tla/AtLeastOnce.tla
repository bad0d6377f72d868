----------------------------- MODULE AtLeastOnce -----------------------------
(* What the outbox promises to whoever emits an event: an event that was     *)
(* emitted is handed to the consumers until each of them has taken it, and   *)
(* only then it is done; it may be given up, and taken up again, but it is   *)
(* never lost; done is final.  Consumers may take an event any number of     *)
(* times, also one that is done.                                             *)
EXTENDS Naturals

CONSTANTS Events, Consumers

VARIABLES
    status,   \* of every event
    taken     \* the consumers that have taken it

Status == {"none", "due", "done", "given up"}

Open == {"due", "given up"}

\* A step of one event: emitted, given up or taken up again, done once all
\* consumers have it.
Move(e, from, to) ==
    \/ to = from
    \/ from = "none" /\ to = "due"
    \/ from \in Open /\ to \in Open
    \/ from \in Open /\ to = "done" /\ taken[e] = Consumers

AbstractInit ==
    /\ status = [e \in Events |-> "none"]
    /\ taken = [e \in Events |-> {}]

\* Events are emitted and settled, several in one commit.
Settle ==
    /\ status' \in [Events -> Status]
    /\ \A e \in Events : Move(e, status[e], status'[e])
    /\ UNCHANGED taken

\* Consumers take an event that was emitted.
Take ==
    \E e \in Events, C \in SUBSET Consumers :
        /\ status[e] # "none"
        /\ taken' = [taken EXCEPT ![e] = @ \cup C]
        /\ UNCHANGED status

AbstractNext == Settle \/ Take

AbstractSpec == AbstractInit /\ [][AbstractNext]_<<status, taken>>
==============================================================================
