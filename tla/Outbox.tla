------------------------------- MODULE Outbox -------------------------------
(***************************************************************************)
(* The transactional outbox of apps/api/app: services/events/outbox_event  *)
(* (the table), services/events/outbox_consumer (the consumers and their   *)
(* process-local guards) and tasks/outbox_dispatch_task (the dispatcher,   *)
(* run by the arq worker and by a loop of the API process at once).        *)
(*                                                                         *)
(* A caller adds an event to its own transaction.  A dispatcher fetches    *)
(* and locks the rows that are due, hands each of them to every consumer,  *)
(* marks it published or failed, and commits the whole batch at its end.   *)
(* One action is one statement, or one delivery; between any two of them   *)
(* the other process runs, a statement may fail, or a process may die.     *)
(***************************************************************************)
EXTENDS Naturals, FiniteSets

CONSTANTS
    Events,        \* the events, numbered in the order of occurred_at
    Consumers,     \* the consumers registered for their type
    Dispatchers,   \* the processes that run run_outbox_dispatch
    Emitter,       \* the one of them that also serves requests
    MaxAttempts,   \* DEFAULT_MAX_ATTEMPTS
    Capacity,      \* of a consumer's guard (_DEFAULT_CAPACITY)
    Mishaps,       \* what may go wrong: "handler", "mark", "commit", "crash", "insert", "repeat"
    MaxMishaps     \* bound: how many mishaps a behaviour has

ASSUME OutboxAssumption ==
    /\ Events \subseteq Nat
    /\ Emitter \in Dispatchers
    /\ MaxAttempts \in Nat \ {0}
    /\ Capacity \in Nat \ {0}
    /\ MaxMishaps \in Nat

VARIABLES
    row,       \* committed outbox_event rows
    writer,    \* the transaction of the caller of emit_event, per event
    saved,     \* the events whose caller's own change is committed
    early,     \* history: the events whose caller's change ensure_schema committed
    ready,     \* _SCHEMA_READY of the Emitter's process
    batch,     \* run_outbox_dispatch under way, per process
    memory,    \* what the guard of each consumer remembers, per process
    got,       \* history: the consumers whose handler ran for an event
    again,     \* history: <<consumer, event>> handled more than once
    mishaps,   \* mishaps so far
    undone     \* batches that a failed mark rolled back half way, so far

outboxVars == <<row, writer, saved, early, ready, batch, memory, got, again, mishaps, undone>>

-----------------------------------------------------------------------------
(* Types *)

RowStatus == {"absent", "PENDING", "PUBLISHED", "DEAD"}

\* A row: published_at is set exactly when its status is PUBLISHED; "waits"
\* says that next_attempt_at is still to come.
Rows == [st : RowStatus, attempts : Nat, waits : BOOLEAN]

NoRow == [st |-> "absent", attempts |-> 0, waits |-> FALSE]
Fresh == [st |-> "PENDING", attempts |-> 0, waits |-> FALSE]

\* A dispatcher: where it is, the rows of its batch it has still to handle, the
\* rows its transaction has locked, those it has updated with their new
\* values, and the attempts mark_failed has read.
Batches == [pc : {"idle", "next", "publish", "fail", "write"},
            todo : SUBSET Events, locks : SUBSET Events,
            marked : SUBSET Events, new : [Events -> Rows], read : Nat]

Idle == [pc |-> "idle", todo |-> {}, locks |-> {}, marked |-> {},
         new |-> [e \in Events |-> NoRow], read |-> 0]

OutboxTypeOK ==
    /\ row \in [Events -> Rows]
    /\ writer \in [Events -> {"none", "open", "inserted"}]
    /\ saved \subseteq Events
    /\ early \subseteq Events
    /\ ready \in BOOLEAN
    /\ batch \in [Dispatchers -> Batches]
    /\ memory \in [Dispatchers -> [Consumers -> {m \in SUBSET Events : Cardinality(m) <= Capacity}]]
    /\ got \in [Events -> SUBSET Consumers]
    /\ again \subseteq Consumers \X Events
    /\ mishaps \in 0..MaxMishaps
    /\ undone \in Nat

OutboxInit ==
    /\ row = [e \in Events |-> NoRow]
    /\ writer = [e \in Events |-> "none"]
    /\ saved = {}
    /\ early = {}
    /\ ready = FALSE
    /\ batch = [p \in Dispatchers |-> Idle]
    /\ memory = [p \in Dispatchers |-> [c \in Consumers |-> {}]]
    /\ got = [e \in Events |-> {}]
    /\ again = {}
    /\ mishaps = 0
    /\ undone = 0

Mishap(kind) ==
    /\ kind \in Mishaps
    /\ mishaps < MaxMishaps
    /\ mishaps' = mishaps + 1

-----------------------------------------------------------------------------
(* emit_event(commit=False), inside the transaction of its caller *)

\* The caller changes its own rows; once more only when a request is repeated.
Open(e) ==
    /\ writer[e] = "none"
    /\ IF e \in saved THEN Mishap("repeat") ELSE UNCHANGED mishaps
    /\ writer' = [writer EXCEPT ![e] = "open"]
    /\ UNCHANGED <<row, saved, early, ready, batch, memory, got, again, undone>>

\* The first call in a process creates the table and commits: the caller's
\* change with it, before the event is inserted.
EnsureSchema(e) ==
    /\ writer[e] = "open"
    /\ ~ready
    /\ ready' = TRUE
    /\ saved' = saved \cup {e}
    /\ early' = early \cup {e}
    /\ UNCHANGED <<row, writer, batch, memory, got, again, mishaps, undone>>

\* The row a conflicting INSERT leaves.
Inserted(old) == IF old.st = "absent" THEN Fresh ELSE old

\* INSERT ... ON CONFLICT (event_id) DO NOTHING, not committed yet.
Insert(e) ==
    /\ writer[e] = "open"
    /\ ready
    /\ writer' = [writer EXCEPT ![e] = "inserted"]
    /\ UNCHANGED <<row, saved, early, ready, batch, memory, got, again, mishaps, undone>>

\* The INSERT fails: the caller's transaction is rolled back and it is told False
\* (mutant: without the rollback the caller commits its change alone).
InsertFailsQuietly(e) ==
    /\ writer[e] = "open"
    /\ ready
    /\ Mishap("insert")
    /\ writer' = [writer EXCEPT ![e] = "none"]
    /\ saved' = saved \cup {e}
    /\ UNCHANGED <<row, early, ready, batch, memory, got, again, undone>>
InsertFails(e) ==
    /\ writer[e] = "open"
    /\ ready
    /\ Mishap("insert")
    /\ writer' = [writer EXCEPT ![e] = "none"]
    /\ UNCHANGED <<row, saved, early, ready, batch, memory, got, again, undone>>

CallerCommits(e) ==
    /\ writer[e] = "inserted"
    /\ row' = [row EXCEPT ![e] = Inserted(@)]
    /\ saved' = saved \cup {e}
    /\ writer' = [writer EXCEPT ![e] = "none"]
    /\ UNCHANGED <<early, ready, batch, memory, got, again, mishaps, undone>>

-----------------------------------------------------------------------------
(* run_outbox_dispatch *)

LockedByOther(p, e) == \E q \in Dispatchers \ {p} : e \in batch[q].locks

\* Not published, attempts left, backoff over (mutant: the last attempt is left out).
PublishableEarly(e) ==
    row[e].st \in {"PENDING", "DEAD"} /\ row[e].attempts + 1 < MaxAttempts /\ ~row[e].waits
Publishable(e) ==
    row[e].st \in {"PENDING", "DEAD"} /\ row[e].attempts < MaxAttempts /\ ~row[e].waits

\* SELECT ... FOR UPDATE SKIP LOCKED: the batch is what nobody else has locked.
FetchPublishable(p) ==
    LET due == {e \in Events : Publishable(e) /\ ~LockedByOther(p, e)}
    IN  /\ batch[p].pc = "idle"
        /\ due # {}
        /\ batch' = [batch EXCEPT ![p] = [Idle EXCEPT !.pc = "next", !.todo = due, !.locks = due]]
        /\ ready' = (ready \/ p = Emitter)
        /\ UNCHANGED <<row, writer, saved, early, memory, got, again, mishaps, undone>>

\* The row the batch has come to (at most one).
Heads(p) == {e \in batch[p].todo : \A f \in batch[p].todo : e <= f}

\* The guards a delivery leaves behind: they know the event, and a full one has
\* dropped another key (which one is the oldest depends on events not modelled).
\* (mutant: nothing is dropped)
RememberedAll(m, e) == {m \cup {e}}
RememberedBy(m, e) ==
    IF Cardinality(m \cup {e}) <= Capacity THEN {m \cup {e}}
    ELSE {(m \cup {e}) \ {x} : x \in m \ {e}}

\* The consumers deliver() calls (mutant: one guard is shared by all of them, so
\* that the event known to one is known to all).
NewToShared(p, e) == {c \in Consumers : \A d \in Consumers : e \notin memory[p][d]}
NewTo(p, e) == {c \in Consumers : e \notin memory[p][c]}

\* deliver() succeeds when no consumer failed.
Delivered(p, e, bad) == bad = {}

\* deliver(): every consumer that does not remember the event runs its handler;
\* those of "bad" raise, and do not remember it.
Deliver(p) ==
    /\ batch[p].pc = "next"
    /\ \E e \in Heads(p) : \E bad \in SUBSET NewTo(p, e) :
          LET ran == NewTo(p, e) \ bad
          IN  /\ IF bad = {} THEN UNCHANGED mishaps ELSE Mishap("handler")
              /\ \E m \in [Consumers -> SUBSET Events] :
                    /\ \A c \in Consumers \ ran : m[c] = memory[p][c]
                    /\ \A c \in ran : m[c] \in RememberedBy(memory[p][c], e)
                    /\ memory' = [memory EXCEPT ![p] = m]
              /\ got' = [got EXCEPT ![e] = @ \cup ran]
              /\ again' = again \cup {<<c, e>> : c \in ran \cap got[e]}
              /\ batch' = [batch EXCEPT ![p] =
                     [@ EXCEPT !.pc = IF Delivered(p, e, bad) THEN "publish" ELSE "fail"]]
    /\ UNCHANGED <<row, writer, saved, early, ready, undone>>

\* The batch goes on to its next row, after an UPDATE of this one or without it.
Handled(b, e) == [b EXCEPT !.pc = "next", !.todo = @ \ {e}]
Updated(b, e, r) ==
    [Handled(b, e) EXCEPT !.locks = @ \cup {e}, !.marked = @ \cup {e}, !.new = [@ EXCEPT ![e] = r]]

\* WHERE published_at IS NULL.
Unpublished(e) == row[e].st # "PUBLISHED"

\* mark_published: waits for the row's lock if a rollback has lost it.
MarkPublished(p) ==
    /\ batch[p].pc = "publish"
    /\ \E e \in Heads(p) :
          /\ ~LockedByOther(p, e)
          /\ batch' = [batch EXCEPT ![p] =
                 IF Unpublished(e) THEN Updated(@, e, [row[e] EXCEPT !.st = "PUBLISHED"])
                 ELSE Handled(@, e)]
    /\ UNCHANGED <<row, writer, saved, early, ready, memory, got, again, mishaps, undone>>

\* mark_failed, its SELECT of attempts, which takes no lock.
MarkFailedReads(p) ==
    /\ batch[p].pc = "fail"
    /\ \E e \in Heads(p) :
          batch' = [batch EXCEPT ![p] =
              IF Unpublished(e) THEN [@ EXCEPT !.pc = "write", !.read = row[e].attempts]
              ELSE Handled(@, e)]
    /\ UNCHANGED <<row, writer, saved, early, ready, memory, got, again, mishaps, undone>>

\* The row of a failed attempt: its status follows from the attempts read before.
FailedRow(old, read) ==
    [st |-> IF read + 1 < MaxAttempts THEN "PENDING" ELSE "DEAD",
     attempts |-> old.attempts + 1, waits |-> TRUE]

\* mark_failed, its UPDATE.
MarkFailedWrites(p) ==
    /\ batch[p].pc = "write"
    /\ \E e \in Heads(p) :
          /\ ~LockedByOther(p, e)
          /\ batch' = [batch EXCEPT ![p] =
                 IF Unpublished(e) THEN Updated(@, e, FailedRow(row[e], batch[p].read))
                 ELSE Handled(@, e)]
    /\ UNCHANGED <<row, writer, saved, early, ready, memory, got, again, mishaps, undone>>

\* mark_published or mark_failed raises: the rollback undoes the marks of the
\* rows before and drops every lock, and the batch goes on with the next row.
MarkFails(p) ==
    /\ batch[p].pc \in {"publish", "fail", "write"}
    /\ Mishap("mark")
    /\ \E e \in Heads(p) :
          batch' = [batch EXCEPT ![p] = [Handled(@, e) EXCEPT !.locks = {}, !.marked = {}]]
    /\ undone' = undone + 1
    /\ UNCHANGED <<row, writer, saved, early, ready, memory, got, again>>

\* The commit at the end of the batch.
CommitBatch(p) ==
    /\ batch[p].pc = "next"
    /\ batch[p].todo = {}
    /\ row' = [e \in Events |-> IF e \in batch[p].marked THEN batch[p].new[e] ELSE row[e]]
    /\ batch' = [batch EXCEPT ![p] = Idle]
    /\ UNCHANGED <<writer, saved, early, ready, memory, got, again, mishaps, undone>>

\* The commit fails: the batch is logged as an error and forgotten.
CommitFails(p) ==
    /\ batch[p].pc = "next"
    /\ batch[p].todo = {}
    /\ Mishap("commit")
    /\ batch' = [batch EXCEPT ![p] = Idle]
    /\ UNCHANGED <<row, writer, saved, early, ready, memory, got, again, undone>>

\* next_attempt_at has come.
BackoffEnds(e) ==
    /\ row[e].waits
    /\ row' = [row EXCEPT ![e] = [@ EXCEPT !.waits = FALSE]]
    /\ UNCHANGED <<writer, saved, early, ready, batch, memory, got, again, mishaps, undone>>

\* A process dies: its transactions are rolled back, its guards are empty when
\* it is back.
Crash(p) ==
    /\ Mishap("crash")
    /\ batch' = [batch EXCEPT ![p] = Idle]
    /\ memory' = [memory EXCEPT ![p] = [c \in Consumers |-> {}]]
    /\ ready' = (ready /\ p # Emitter)
    /\ writer' = IF p = Emitter THEN [e \in Events |-> "none"] ELSE writer
    /\ UNCHANGED <<row, saved, early, got, again, undone>>

-----------------------------------------------------------------------------

Emission(e) ==
    \/ Open(e) \/ EnsureSchema(e) \/ Insert(e) \/ InsertFails(e) \/ CallerCommits(e)

\* What run_outbox_dispatch does by itself.
Dispatch(p) ==
    \/ FetchPublishable(p) \/ Deliver(p) \/ MarkPublished(p) \/ MarkFailedReads(p)
    \/ MarkFailedWrites(p) \/ CommitBatch(p)

OutboxNext ==
    \/ \E e \in Events : Emission(e) \/ BackoffEnds(e)
    \/ \E p \in Dispatchers : Dispatch(p) \/ MarkFails(p) \/ CommitFails(p) \/ Crash(p)

\* The loops of the two processes never end, whatever a batch raises
\* (outbox_dispatch_task.py:69, main.py:478), and time passes.
OutboxFairness ==
    /\ \A p \in Dispatchers : WF_outboxVars(Dispatch(p))
    /\ \A e \in Events : WF_outboxVars(BackoffEnds(e))

OutboxSpec == OutboxInit /\ [][OutboxNext]_outboxVars
OutboxFairSpec == OutboxSpec /\ OutboxFairness

-----------------------------------------------------------------------------
(* Properties *)

\* A published event was handled by every consumer, by one process or another,
\* whatever failed, was rolled back or died on the way.
PublishedIsHandled ==
    \A e \in Events : row[e].st = "PUBLISHED" => got[e] = Consumers

\* No event is on the table whose caller's own change was rolled back.
EventHasChange == \A e \in Events : row[e].st # "absent" => e \in saved

\* A caller's change is never saved without its event, except by the first call
\* of emit_event in a process, which commits the change before it inserts.
ChangeHasEvent == \A e \in saved \ early : row[e].st # "absent"

\* A change and its event are saved together or not at all, whatever fails between
\* the two, but for that first call.
SavedTogether == EventHasChange /\ ChangeHasEvent

\* Unless a rollback has dropped locks half way through a batch, an event out of
\* attempts is DEAD and no other is: none is silently off the queue.
ExhaustedIsDead ==
    undone = 0 => \A e \in Events : row[e].st # "PUBLISHED" =>
                      (row[e].attempts >= MaxAttempts <=> row[e].st = "DEAD")

\* A published row never changes, by a dispatcher that has lost its lock, a
\* repeated emission or the end of a backoff.
PublishedIsFinal ==
    [][\A e \in Events : row[e].st = "PUBLISHED" => row'[e].st = "PUBLISHED"]_outboxVars

\* No consumer handles an event twice, although two processes dispatch.
HandledOnce == again = {}

\* Every event on the table is published or DEAD in the end, unless a rollback
\* half way has dropped locks (undone), after which two failures counted at once leave a
\* row PENDING without an attempt left.
Settles ==
    \A e \in Events : row[e].st = "PENDING" ~> row[e].st \in {"PUBLISHED", "DEAD"} \/ undone > 0

Promised == [absent |-> "none", PENDING |-> "due", DEAD |-> "given up", PUBLISHED |-> "done"]

\* The promise: the outbox is an at-least-once delivery.
Promise == INSTANCE AtLeastOnce WITH
    status <- [e \in Events |-> Promised[row[e].st]],
    taken <- got
DeliversAtLeastOnce == Promise!AbstractSpec
=============================================================================
