--------------------------- MODULE Services_proofs ---------------------------
(***************************************************************************)
(* Proofs about the two services of MCServices: the outbox (Outbox) and    *)
(* the charge keys (ChargeOnce).  They share nothing, and a behaviour of   *)
(* both is one of each.                                                    *)
(***************************************************************************)
EXTENDS MCServices, FiniteSetTheorems, TLAPS

-----------------------------------------------------------------------------
(***************************************************************************)
(* Proofs about Outbox, for any events, consumers, processes and number of *)
(* mishaps.  The inductive invariant says of each running batch what its   *)
(* locks still protect and what its delivery has established, and of each  *)
(* guard that what it remembers was handled.                               *)
(***************************************************************************)

IsHead(b, e) == \A f \in b.todo : e <= f
Exhausted(r) == r.st # "PUBLISHED" => (r.attempts >= MaxAttempts <=> r.st = "DEAD")

\* A batch b, given the rows, what was handled, and whether locks were lost.
Sound(b, rows, handled, kept) ==
    /\ b.marked \subseteq b.locks
    /\ \A e \in b.todo : rows[e].st # "absent"
    /\ \A e \in b.marked : /\ rows[e].st \notin {"absent", "PUBLISHED"}
                           /\ b.new[e].st # "absent"
                           /\ b.new[e].st = "PUBLISHED" => handled[e] = Consumers
    /\ b.pc = "publish" => \A e \in b.todo : IsHead(b, e) => handled[e] = Consumers
    /\ kept => /\ b.todo \subseteq b.locks
               /\ \A e \in b.marked : Exhausted(b.new[e])
               /\ b.pc = "write" => \A e \in b.todo : IsHead(b, e) => b.read = rows[e].attempts

BatchesSound == \A p \in Dispatchers : Sound(batch[p], row, got, undone = 0)
LocksApart ==
    \A p, q \in Dispatchers : p # q => batch[p].locks \cap batch[q].locks = {}
Remembered ==
    \A p \in Dispatchers, c \in Consumers :
        IsFiniteSet(memory[p][c]) /\ \A e \in memory[p][c] : c \in got[e]

RowsSound == PublishedIsHandled /\ EventHasChange /\ ChangeHasEvent /\ ExhaustedIsDead
BatchPart == BatchesSound /\ LocksApart
OutboxInv == OutboxTypeOK /\ BatchPart /\ Remembered /\ RowsSound

-----------------------------------------------------------------------------
(* Batches and rows.                                                       *)

\* The parts of the type invariant that steps change.
LEMMA OutboxParts ==
  ASSUME OutboxTypeOK
  PROVE  /\ row \in [Events -> Rows] /\ batch \in [Dispatchers -> Batches]
         /\ got \in [Events -> SUBSET Consumers] /\ undone \in Nat
         /\ memory \in [Dispatchers -> [Consumers -> SUBSET Events]]
  <1>1. memory \in [Dispatchers -> [Consumers -> {m \in SUBSET Events : Cardinality(m) <= Capacity}]]
    BY Zenon DEF OutboxTypeOK
  <1>2. memory \in [Dispatchers -> [Consumers -> SUBSET Events]]
    BY <1>1
  <1> QED
    BY <1>2 DEF OutboxTypeOK

\* An idle batch is sound whatever the rows are.
LEMMA IdleSound ==
  /\ Idle \in Batches
  /\ \A rows, handled, kept : Sound(Idle, rows, handled, kept)
  <1>1. NoRow \in Rows
    BY DEF NoRow, Rows, RowStatus
  <1> QED
    BY <1>1 DEF Idle, Batches, Sound

\* The count of mishaps stays within its bound.
LEMMA MishapCounts ==
  ASSUME OutboxTypeOK
  PROVE  \A kind : Mishap(kind) => mishaps' \in 0..MaxMishaps
  BY OutboxAssumption DEF OutboxTypeOK, Mishap

\* The batch of one process changes, the rows do not: what has to be shown.
LEMMA OneBatch ==
  ASSUME OutboxInv, NEW p \in Dispatchers, NEW b \in Batches,
         batch' = [batch EXCEPT ![p] = b], row' = row, got' = got,
         undone' = undone \/ undone' # 0,
         Sound(b, row, got, undone' = 0),
         \A e \in b.locks : e \in batch[p].locks \/ ~LockedByOther(p, e)
  PROVE  batch' \in [Dispatchers -> Batches] /\ BatchPart'
  <1>1. batch \in [Dispatchers -> Batches]
    BY OutboxParts DEF OutboxInv
  <1>2. batch' \in [Dispatchers -> Batches]
    BY <1>1
  <1>3. batch'[p] = b /\ \A q \in Dispatchers \ {p} : batch'[q] = batch[q]
    BY <1>1
  <1>4. BatchesSound'
    <2>1. ASSUME NEW q \in Dispatchers
          PROVE  Sound(batch'[q], row', got', undone' = 0)
      <3>1. CASE q = p
        BY <1>3, <3>1
      <3>2. CASE q # p
        <4>1. Sound(batch[q], row, got, undone = 0)
          BY DEF OutboxInv, BatchPart, BatchesSound
        <4>2. Sound(batch[q], row, got, undone' = 0)
          BY <4>1 DEF Sound
        <4> QED
          BY <1>3, <3>2, <4>2
      <3> QED
        BY <3>1, <3>2
    <2> QED
      BY <2>1 DEF BatchesSound
  <1>5. LocksApart'
    <2>1. ASSUME NEW q \in Dispatchers \ {p}
          PROVE  b.locks \cap batch[q].locks = {}
      BY DEF OutboxInv, BatchPart, LocksApart, LockedByOther
    <2>2. ASSUME NEW q \in Dispatchers, NEW r \in Dispatchers, q # r
          PROVE  batch'[q].locks \cap batch'[r].locks = {}
      <3>1. CASE q = p
        BY <1>3, <2>1, <2>2, <3>1
      <3>2. CASE r = p
        BY <1>3, <2>1, <2>2, <3>2
      <3>3. CASE q # p /\ r # p
        BY <1>3, <2>2, <3>3 DEF OutboxInv, BatchPart, LocksApart
      <3> QED
        BY <3>1, <3>2, <3>3
    <2> QED
      BY <2>2 DEF LocksApart
  <1> QED
    BY <1>2, <1>4, <1>5 DEF BatchPart

-----------------------------------------------------------------------------
(* The emission of an event.                                               *)

\* The rows of one emission: what is there stays, what is absent becomes due.
LEMMA InsertedRow ==
  ASSUME NEW r \in Rows
  PROVE  /\ Inserted(r) \in Rows /\ Inserted(r).st # "absent"
         /\ r.st # "absent" => Inserted(r) = r
         /\ r.st = "absent" => Inserted(r).st = "PENDING" /\ Exhausted(Inserted(r))
  BY OutboxAssumption DEF Inserted, Fresh, Rows, RowStatus, Exhausted

\* The end of emission keeps the batches sound: they hold no absent row.
LEMMA CommitKeeps ==
  ASSUME OutboxInv, NEW e \in Events, CallerCommits(e)
  PROVE  OutboxInv'
  <1>1. /\ row \in [Events -> Rows] /\ row' = [row EXCEPT ![e] = Inserted(row[e])]
        /\ saved' = saved \cup {e}
        /\ UNCHANGED <<early, ready, batch, memory, got, again, mishaps, undone>>
    BY OutboxParts DEF OutboxInv, CallerCommits
  <1>2. row' \in [Events -> Rows] /\ row'[e] = Inserted(row[e])
        /\ \A f \in Events : f # e => row'[f] = row[f]
    BY <1>1, InsertedRow
  <1>3. \A f \in Events : row[f].st # "absent" => row'[f] = row[f]
    BY <1>1, <1>2, InsertedRow
  <1>4. OutboxTypeOK'
    BY <1>1, <1>2 DEF OutboxInv, OutboxTypeOK, CallerCommits
  <1>5. BatchesSound'
    <2>1. ASSUME NEW p \in Dispatchers
          PROVE  Sound(batch[p], row', got, undone = 0)
      <3>1. Sound(batch[p], row, got, undone = 0) /\ batch[p] \in Batches
        BY OutboxParts DEF OutboxInv, BatchPart, BatchesSound
      <3>2. batch[p].todo \subseteq Events /\ batch[p].marked \subseteq Events
        BY <3>1 DEF Batches
      <3>3. \A f \in batch[p].todo \cup batch[p].marked : row'[f] = row[f]
        BY <1>3, <3>1, <3>2 DEF Sound
      <3> QED
        BY <3>1, <3>3 DEF Sound
    <2> QED
      BY <1>1, <2>1 DEF BatchesSound
  <1>6. LocksApart' /\ Remembered'
    BY <1>1 DEF OutboxInv, BatchPart, LocksApart, Remembered
  <1>7. RowsSound'
    <2>1. \A f \in Events : row'[f].st = "PUBLISHED" => row[f].st = "PUBLISHED"
      BY <1>1, <1>2, InsertedRow
    <2>2. PublishedIsHandled'
      BY <1>1, <2>1 DEF OutboxInv, RowsSound, PublishedIsHandled
    <2>3. EventHasChange'
      BY <1>1, <1>2 DEF OutboxInv, RowsSound, EventHasChange
    <2>4. ChangeHasEvent'
      BY <1>1, <1>2, InsertedRow DEF OutboxInv, OutboxTypeOK, RowsSound, ChangeHasEvent
    <2>5. ExhaustedIsDead'
      <3>1. ASSUME NEW f \in Events, undone = 0
            PROVE  Exhausted(row'[f])
        <4>1. Exhausted(row[f])
          BY <3>1 DEF OutboxInv, RowsSound, ExhaustedIsDead, Exhausted
        <4> QED
          BY <1>1, <1>2, <1>3, <4>1, InsertedRow
      <3> QED
        BY <1>1, <3>1 DEF ExhaustedIsDead, Exhausted
    <2> QED
      BY <2>2, <2>3, <2>4, <2>5 DEF RowsSound
  <1> QED
    BY <1>4, <1>5, <1>6, <1>7 DEF OutboxInv, BatchPart

\* The steps of an emission before its commit.
LEMMA EmissionKeeps ==
  ASSUME OutboxInv, NEW e \in Events, Emission(e)
  PROVE  OutboxInv'
  <1>1. CASE CallerCommits(e)
    BY <1>1, CommitKeeps
  <1>2. CASE Open(e) \/ EnsureSchema(e) \/ Insert(e) \/ InsertFails(e)
    <2>1. UNCHANGED <<row, batch, memory, got, undone>>
      BY <1>2 DEF Open, EnsureSchema, Insert, InsertFails
    <2>2. /\ saved \subseteq saved' /\ saved' \subseteq saved \cup {e}
          /\ saved' \ early' \subseteq saved \ early
      BY <1>2 DEF Open, EnsureSchema, Insert, InsertFails
    <2>3. OutboxTypeOK'
      <3>1. saved' \subseteq Events /\ early' \subseteq Events /\ ready' \in BOOLEAN /\ again' = again
        BY <1>2 DEF OutboxInv, OutboxTypeOK, Open, EnsureSchema, Insert, InsertFails
      <3>2. writer' \in [Events -> {"none", "open", "inserted"}]
        <4>1. writer \in [Events -> {"none", "open", "inserted"}]
          BY DEF OutboxInv, OutboxTypeOK
        <4>2. \/ writer' = [writer EXCEPT ![e] = "open"] \/ writer' = writer
              \/ writer' = [writer EXCEPT ![e] = "inserted"]
              \/ writer' = [writer EXCEPT ![e] = "none"]
          BY <1>2 DEF Open, EnsureSchema, Insert, InsertFails
        <4> QED
          BY <4>1, <4>2
      <3>3. mishaps' \in 0..MaxMishaps
        <4>1. mishaps' = mishaps \/ \E kind \in {"repeat", "insert"} : Mishap(kind)
          BY <1>2 DEF Open, EnsureSchema, Insert, InsertFails
        <4> QED
          BY <4>1, MishapCounts DEF OutboxInv, OutboxTypeOK
      <3> QED
        BY <2>1, <3>1, <3>2, <3>3 DEF OutboxInv, OutboxTypeOK
    <2>4. BatchPart' /\ Remembered'
      BY <2>1 DEF OutboxInv, BatchPart, BatchesSound, LocksApart, Remembered
    <2>5. RowsSound'
      BY <2>1, <2>2 DEF OutboxInv, RowsSound, PublishedIsHandled, EventHasChange, ChangeHasEvent, ExhaustedIsDead
    <2> QED
      BY <2>3, <2>4, <2>5 DEF OutboxInv
  <1> QED
    BY <1>1, <1>2 DEF Emission

-----------------------------------------------------------------------------
(* The steps of a batch.                                                   *)

\* What a step of a batch that changes neither rows nor handled events leaves.
LEMMA BatchStep ==
  ASSUME OutboxInv, BatchPart', batch' \in [Dispatchers -> Batches],
         UNCHANGED <<row, writer, saved, early, got, again>>,
         ready' \in BOOLEAN, mishaps' \in 0..MaxMishaps, undone' \in Nat,
         undone' = 0 => undone = 0,
         OutboxTypeOK' \/ memory' = memory, Remembered' \/ memory' = memory
  PROVE  OutboxInv'
  <1>1. OutboxTypeOK'
    BY DEF OutboxInv, OutboxTypeOK
  <1>2. Remembered'
    BY DEF OutboxInv, Remembered
  <1>3. RowsSound'
    BY DEF OutboxInv, RowsSound, PublishedIsHandled, EventHasChange, ChangeHasEvent, ExhaustedIsDead
  <1> QED
    BY <1>1, <1>2, <1>3 DEF OutboxInv

\* A fetched batch has locked rows that are there.
LEMMA FetchKeeps ==
  ASSUME OutboxInv, NEW p \in Dispatchers, FetchPublishable(p)
  PROVE  OutboxInv'
  <1> DEFINE fetched == {e \in Events : Publishable(e) /\ ~LockedByOther(p, e)}
             b == [Idle EXCEPT !.pc = "next", !.todo = fetched, !.locks = fetched]
  <1>1. /\ batch' = [batch EXCEPT ![p] = b] /\ ready' \in BOOLEAN
        /\ UNCHANGED <<row, writer, saved, early, memory, got, again, mishaps, undone>>
    BY DEF FetchPublishable, OutboxInv, OutboxTypeOK
  <1>2. /\ b.pc = "next" /\ b.todo = fetched /\ b.locks = fetched /\ b.marked = {}
        /\ b \in Batches
    <2>1. Idle \in Batches
      BY IdleSound
    <2> QED
      BY <2>1 DEF Batches, Idle
  <1>3. Sound(b, row, got, undone' = 0)
    BY <1>2 DEF Sound, Publishable
  <1>4. batch' \in [Dispatchers -> Batches] /\ BatchPart'
    BY <1>1, <1>2, <1>3, OneBatch
  <1> QED
    BY <1>1, <1>4, BatchStep DEF OutboxInv, OutboxTypeOK

\* A handled row leaves the batch, with or without an update of it.
LEMMA HandledSound ==
  ASSUME NEW b \in Batches, NEW e \in Events, NEW kept, Sound(b, row, got, kept)
  PROVE  /\ Handled(b, e) \in Batches /\ Handled(b, e).locks = b.locks
         /\ Sound(Handled(b, e), row, got, kept)
  <1>1. /\ Handled(b, e).pc = "next" /\ Handled(b, e).todo = b.todo \ {e}
        /\ Handled(b, e).locks = b.locks /\ Handled(b, e).marked = b.marked
        /\ Handled(b, e).new = b.new /\ Handled(b, e).read = b.read
    BY DEF Handled, Batches
  <1>2. Handled(b, e) \in Batches
    BY DEF Handled, Batches
  <1>3. Sound(Handled(b, e), row, got, kept)
    BY <1>1 DEF Sound
  <1> QED
    BY <1>1, <1>2, <1>3

\* An update is sound when the row was there and unpublished, and the new one is
\* what the delivery has established.
LEMMA UpdatedSound ==
  ASSUME NEW b \in Batches, NEW e \in Events, NEW r \in Rows, NEW kept, Sound(b, row, got, kept),
         row[e].st \notin {"absent", "PUBLISHED"}, r.st # "absent",
         r.st = "PUBLISHED" => got[e] = Consumers,
         kept => Exhausted(r)
  PROVE  /\ Updated(b, e, r) \in Batches /\ Updated(b, e, r).locks = b.locks \cup {e}
         /\ Sound(Updated(b, e, r), row, got, kept)
  <1> DEFINE u == Updated(b, e, r)
  <1>1. b.new \in [Events -> Rows] /\ b.locks \subseteq Events /\ b.marked \subseteq Events
    BY DEF Batches
  <1>2. /\ u.pc = "next" /\ u.todo = b.todo \ {e} /\ u.locks = b.locks \cup {e}
        /\ u.marked = b.marked \cup {e} /\ u.new = [b.new EXCEPT ![e] = r] /\ u.read = b.read
    BY DEF Updated, Handled, Batches
  <1>3. u \in Batches
    BY <1>1, HandledSound DEF Updated, Batches
  <1>4. Sound(u, row, got, kept)
    <2>1. ASSUME NEW f \in u.marked
          PROVE  /\ row[f].st \notin {"absent", "PUBLISHED"} /\ u.new[f].st # "absent"
                 /\ u.new[f].st = "PUBLISHED" => got[f] = Consumers
                 /\ kept => Exhausted(u.new[f])
      <3>1. CASE f = e
        BY <1>1, <1>2, <3>1
      <3>2. CASE f # e
        <4>1. f \in b.marked /\ u.new[f] = b.new[f]
          BY <1>1, <1>2, <3>2
        <4> QED
          BY <4>1 DEF Sound
      <3> QED
        BY <3>1, <3>2
    <2>2. u.marked \subseteq u.locks /\ (\A f \in u.todo : row[f].st # "absent")
          /\ (kept => u.todo \subseteq u.locks)
      BY <1>2 DEF Sound
    <2> HIDE DEF u
    <2> QED
      BY <1>2, <2>1, <2>2 DEF Sound
  <1> QED
    BY <1>2, <1>3, <1>4

\* What the invariant says of the batch that is at work on a row.
LEMMA AtWork ==
  ASSUME OutboxInv, NEW p \in Dispatchers, NEW e \in Heads(p)
  PROVE  /\ batch[p] \in Batches /\ Sound(batch[p], row, got, undone = 0)
         /\ e \in Events /\ e \in batch[p].todo /\ IsHead(batch[p], e)
         /\ row[e] \in Rows /\ row[e].st # "absent"
  <1>1. batch[p] \in Batches /\ Sound(batch[p], row, got, undone = 0)
    BY OutboxParts DEF OutboxInv, BatchPart, BatchesSound
  <1>2. e \in batch[p].todo /\ IsHead(batch[p], e)
    BY DEF Heads, IsHead
  <1>3. e \in Events
    BY <1>1, <1>2 DEF Batches
  <1>4. row[e] \in Rows
    BY <1>3, OutboxParts DEF OutboxInv
  <1> QED
    BY <1>1, <1>2, <1>3, <1>4 DEF Sound

\* A published mark rests on a delivery that has reached every consumer.
LEMMA MarkPublishedKeeps ==
  ASSUME OutboxInv, NEW p \in Dispatchers, MarkPublished(p)
  PROVE  OutboxInv'
  <1>1. PICK e \in Heads(p) :
          /\ ~LockedByOther(p, e)
          /\ batch' = [batch EXCEPT ![p] =
                 IF Unpublished(e) THEN Updated(batch[p], e, [row[e] EXCEPT !.st = "PUBLISHED"])
                 ELSE Handled(batch[p], e)]
    BY DEF MarkPublished
  <1>2. batch[p].pc = "publish" /\ UNCHANGED <<row, writer, saved, early, ready, memory, got, again, mishaps, undone>>
    BY DEF MarkPublished
  <1> DEFINE r == [row[e] EXCEPT !.st = "PUBLISHED"]
             b == IF Unpublished(e) THEN Updated(batch[p], e, r) ELSE Handled(batch[p], e)
  <1>3. b \in Batches /\ Sound(b, row, got, undone = 0) /\ b.locks \subseteq batch[p].locks \cup {e}
    <2>1. CASE Unpublished(e)
      <3>1. r \in Rows /\ r.st = "PUBLISHED"
        BY AtWork DEF Rows, RowStatus
      <3>2. got[e] = Consumers
        BY AtWork, <1>2 DEF Sound
      <3>3. Exhausted(r)
        BY <3>1 DEF Exhausted
      <3> HIDE DEF r
      <3> QED
        BY <2>1, <3>1, <3>2, <3>3, AtWork, UpdatedSound DEF Unpublished
    <2>2. CASE ~Unpublished(e)
      BY <2>2, AtWork, HandledSound
    <2> QED
      BY <2>1, <2>2
  <1>4. batch' \in [Dispatchers -> Batches] /\ BatchPart'
    <2> HIDE DEF b
    <2> QED
      BY <1>1, <1>2, <1>3, OneBatch DEF b
  <1> QED
    BY <1>2, <1>4, BatchStep DEF OutboxInv, OutboxTypeOK

\* The attempts read are those of a row that is locked, unless locks were lost.
LEMMA MarkFailedReadsKeeps ==
  ASSUME OutboxInv, NEW p \in Dispatchers, MarkFailedReads(p)
  PROVE  OutboxInv'
  <1>1. PICK e \in Heads(p) :
          batch' = [batch EXCEPT ![p] =
              IF Unpublished(e) THEN [batch[p] EXCEPT !.pc = "write", !.read = row[e].attempts]
              ELSE Handled(batch[p], e)]
    BY DEF MarkFailedReads
  <1>2. batch[p].pc = "fail" /\ UNCHANGED <<row, writer, saved, early, ready, memory, got, again, mishaps, undone>>
    BY DEF MarkFailedReads
  <1> DEFINE w == [batch[p] EXCEPT !.pc = "write", !.read = row[e].attempts]
             b == IF Unpublished(e) THEN w ELSE Handled(batch[p], e)
  <1>3. b \in Batches /\ Sound(b, row, got, undone = 0) /\ b.locks = batch[p].locks
    <2>1. CASE Unpublished(e)
      <3>1. batch[p] \in Batches /\ row[e].attempts \in Nat
        BY AtWork DEF Rows
      <3>2. /\ w.pc = "write" /\ w.read = row[e].attempts /\ w.todo = batch[p].todo
            /\ w.locks = batch[p].locks /\ w.marked = batch[p].marked /\ w.new = batch[p].new
        BY <3>1 DEF Batches
      <3>3. w \in Batches
        BY <3>1 DEF Batches
      <3>4. \A f \in w.todo : IsHead(w, f) => f = e
        <4>1. batch[p].todo \subseteq Nat
          BY <3>1, OutboxAssumption DEF Batches
        <4> QED
          BY <3>2, <4>1, AtWork DEF IsHead
      <3>5. Sound(w, row, got, undone = 0)
        <4> HIDE DEF w
        <4> QED
          BY <3>2, <3>4, AtWork DEF Sound
      <3> QED
        BY <2>1, <3>2, <3>3, <3>5
    <2>2. CASE ~Unpublished(e)
      BY <2>2, AtWork, HandledSound
    <2> QED
      BY <2>1, <2>2
  <1>4. batch' \in [Dispatchers -> Batches] /\ BatchPart'
    <2> HIDE DEF b
    <2> QED
      BY <1>1, <1>2, <1>3, OneBatch DEF b
  <1> QED
    BY <1>2, <1>4, BatchStep DEF OutboxInv, OutboxTypeOK

\* A failed attempt exhausts a row exactly when it makes it DEAD, unless locks
\* were lost.
LEMMA MarkFailedWritesKeeps ==
  ASSUME OutboxInv, NEW p \in Dispatchers, MarkFailedWrites(p)
  PROVE  OutboxInv'
  <1>1. PICK e \in Heads(p) :
          /\ ~LockedByOther(p, e)
          /\ batch' = [batch EXCEPT ![p] =
                 IF Unpublished(e) THEN Updated(batch[p], e, FailedRow(row[e], batch[p].read))
                 ELSE Handled(batch[p], e)]
    BY DEF MarkFailedWrites
  <1>2. batch[p].pc = "write" /\ UNCHANGED <<row, writer, saved, early, ready, memory, got, again, mishaps, undone>>
    BY DEF MarkFailedWrites
  <1> DEFINE r == FailedRow(row[e], batch[p].read)
             b == IF Unpublished(e) THEN Updated(batch[p], e, r) ELSE Handled(batch[p], e)
  <1>3. b \in Batches /\ Sound(b, row, got, undone = 0) /\ b.locks \subseteq batch[p].locks \cup {e}
    <2>1. CASE Unpublished(e)
      <3>1. row[e].attempts \in Nat /\ batch[p].read \in Nat /\ MaxAttempts \in Nat
        BY AtWork, OutboxAssumption DEF Rows, Batches
      <3>2. /\ r \in Rows /\ r.attempts = row[e].attempts + 1
            /\ r.st = IF batch[p].read + 1 < MaxAttempts THEN "PENDING" ELSE "DEAD"
        BY <3>1 DEF FailedRow, Rows, RowStatus
      <3>3. undone = 0 => Exhausted(r)
        <4>1. undone = 0 => batch[p].read = row[e].attempts
          BY <1>2, AtWork DEF Sound
        <4> QED
          BY <3>1, <3>2, <4>1 DEF Exhausted
      <3>4. r.st # "absent" /\ r.st # "PUBLISHED"
        BY <3>2
      <3>5. row[e].st \notin {"absent", "PUBLISHED"}
        BY <2>1, AtWork DEF Unpublished
      <3>6. batch[p] \in Batches /\ e \in Events /\ Sound(batch[p], row, got, undone = 0)
        BY AtWork
      <3>7. b = Updated(batch[p], e, r)
        BY <2>1
      <3> HIDE DEF r, b
      <3>8. /\ Updated(batch[p], e, r) \in Batches
            /\ Updated(batch[p], e, r).locks = batch[p].locks \cup {e}
            /\ Sound(Updated(batch[p], e, r), row, got, undone = 0)
        BY <3>2, <3>3, <3>4, <3>5, <3>6, UpdatedSound
      <3> QED
        BY <3>7, <3>8
    <2>2. CASE ~Unpublished(e)
      BY <2>2, AtWork, HandledSound
    <2> QED
      BY <2>1, <2>2
  <1>4. batch' \in [Dispatchers -> Batches] /\ BatchPart'
    <2> HIDE DEF b
    <2> QED
      BY <1>1, <1>2, <1>3, OneBatch DEF b
  <1> QED
    BY <1>2, <1>4, BatchStep DEF OutboxInv, OutboxTypeOK

\* A rollback in the middle of a batch drops its locks and its marks together.
LEMMA MarkFailsKeeps ==
  ASSUME OutboxInv, NEW p \in Dispatchers, MarkFails(p)
  PROVE  OutboxInv'
  <1>1. PICK e \in Heads(p) :
          batch' = [batch EXCEPT ![p] = [Handled(batch[p], e) EXCEPT !.locks = {}, !.marked = {}]]
    BY DEF MarkFails
  <1>2. /\ undone' = undone + 1 /\ Mishap("mark")
        /\ UNCHANGED <<row, writer, saved, early, ready, memory, got, again>>
    BY DEF MarkFails
  <1> DEFINE h == Handled(batch[p], e)
             b == [h EXCEPT !.locks = {}, !.marked = {}]
  <1>3. h \in Batches /\ Sound(h, row, got, undone = 0)
    BY AtWork, HandledSound
  <1>4. undone' \in Nat /\ undone' # 0
    BY <1>2, OutboxParts DEF OutboxInv
  <1>5. b \in Batches /\ b.locks = {} /\ Sound(b, row, got, undone' = 0)
    <2> HIDE DEF h
    <2>1. /\ b.pc = h.pc /\ b.todo = h.todo /\ b.locks = {} /\ b.marked = {} /\ b \in Batches
      BY <1>3 DEF Batches
    <2> HIDE DEF b
    <2> QED
      BY <1>3, <1>4, <2>1 DEF Sound, IsHead
  <1>6. batch' \in [Dispatchers -> Batches] /\ BatchPart'
    <2> HIDE DEF b
    <2> QED
      BY <1>1, <1>2, <1>4, <1>5, OneBatch DEF b
  <1>7. mishaps' \in 0..MaxMishaps
    BY <1>2, MishapCounts DEF OutboxInv
  <1> QED
    BY <1>2, <1>4, <1>6, <1>7, BatchStep DEF OutboxInv, OutboxTypeOK

\* A batch whose commit fails leaves nothing.
LEMMA CommitFailsKeeps ==
  ASSUME OutboxInv, NEW p \in Dispatchers, CommitFails(p)
  PROVE  OutboxInv'
  <1>1. /\ batch' = [batch EXCEPT ![p] = Idle] /\ Mishap("commit")
        /\ UNCHANGED <<row, writer, saved, early, ready, memory, got, again, undone>>
    BY DEF CommitFails
  <1>2. batch' \in [Dispatchers -> Batches] /\ BatchPart'
    <2>1. Idle \in Batches /\ Idle.locks = {} /\ Sound(Idle, row, got, undone' = 0)
      BY IdleSound DEF Idle
    <2> QED
      BY <1>1, <2>1, OneBatch
  <1>3. mishaps' \in 0..MaxMishaps
    BY <1>1, MishapCounts DEF OutboxInv
  <1> QED
    BY <1>1, <1>2, <1>3, BatchStep DEF OutboxInv, OutboxTypeOK

-----------------------------------------------------------------------------
(* The commit of a batch, time, crashes.                                   *)

\* The rows a commit changes: those of the batch, which were there and unpublished.
LEMMA Committed ==
  ASSUME OutboxInv, NEW p \in Dispatchers, CommitBatch(p)
  PROVE  /\ row' \in [Events -> Rows]
         /\ \A e \in Events \ batch[p].marked : row'[e] = row[e]
         /\ \A e \in Events \cap batch[p].marked :
               /\ row[e].st \notin {"absent", "PUBLISHED"} /\ row'[e].st # "absent"
               /\ row'[e].st = "PUBLISHED" => got[e] = Consumers
               /\ undone = 0 => Exhausted(row'[e])
  <1>1. /\ row \in [Events -> Rows] /\ batch[p] \in Batches
        /\ Sound(batch[p], row, got, undone = 0)
    BY OutboxParts DEF OutboxInv, BatchPart, BatchesSound
  <1>2. batch[p].new \in [Events -> Rows]
    BY <1>1 DEF Batches
  <1>3. row' = [e \in Events |-> IF e \in batch[p].marked THEN batch[p].new[e] ELSE row[e]]
    BY DEF CommitBatch
  <1> QED
    BY <1>1, <1>2, <1>3 DEF Sound

\* The other batches have locked none of the rows that are committed.
LEMMA CommitBatchKeeps ==
  ASSUME OutboxInv, NEW p \in Dispatchers, CommitBatch(p)
  PROVE  OutboxInv'
  <1>1. /\ batch' = [batch EXCEPT ![p] = Idle]
        /\ UNCHANGED <<writer, saved, early, ready, memory, got, again, mishaps, undone>>
    BY DEF CommitBatch
  <1>2. /\ batch \in [Dispatchers -> Batches] /\ batch' \in [Dispatchers -> Batches]
        /\ batch'[p] = Idle /\ \A q \in Dispatchers \ {p} : batch'[q] = batch[q]
    BY <1>1, OutboxParts, IdleSound DEF OutboxInv
  <1>3. BatchesSound'
    <2>1. ASSUME NEW q \in Dispatchers, q # p
          PROVE  Sound(batch[q], row', got, undone = 0)
      <3>1. Sound(batch[q], row, got, undone = 0) /\ Sound(batch[p], row, got, undone = 0)
        BY DEF OutboxInv, BatchPart, BatchesSound
      <3>2. batch[q].locks \cap batch[p].marked = {}
        BY <2>1, <3>1 DEF OutboxInv, BatchPart, LocksApart, Sound
      <3>3. batch[q].locks \subseteq Events /\ batch[q].todo \subseteq Events /\ batch[q].marked \subseteq Events
        BY <1>2 DEF Batches
      <3>4. \A e \in batch[q].locks : row'[e] = row[e]
        BY <3>2, <3>3, Committed
      <3>5. \A e \in batch[q].todo : row'[e].st # "absent"
        BY <3>1, <3>3, Committed DEF Sound
      <3> QED
        BY <3>1, <3>4, <3>5 DEF Sound
    <2>2. Sound(Idle, row', got, undone = 0)
      BY IdleSound
    <2>3. \A q \in Dispatchers : Sound(batch'[q], row', got, undone = 0)
      BY <1>2, <2>1, <2>2
    <2> QED
      BY <1>1, <2>3 DEF BatchesSound
  <1>4. LocksApart'
    BY <1>2 DEF OutboxInv, BatchPart, LocksApart, Idle
  <1>5. Remembered'
    BY <1>1 DEF OutboxInv, Remembered
  <1>6. OutboxTypeOK'
    BY <1>1, <1>2, Committed DEF OutboxInv, OutboxTypeOK
  <1>7. RowsSound'
    <2>1. PublishedIsHandled'
      BY <1>1, Committed DEF OutboxInv, RowsSound, PublishedIsHandled
    <2>2. EventHasChange'
      BY <1>1, Committed DEF OutboxInv, RowsSound, EventHasChange
    <2>3. ChangeHasEvent'
      BY <1>1, Committed DEF OutboxInv, OutboxTypeOK, RowsSound, ChangeHasEvent
    <2>4. ExhaustedIsDead'
      <3>1. ASSUME NEW e \in Events, undone = 0
            PROVE  Exhausted(row'[e])
        <4>1. Exhausted(row[e])
          BY <3>1 DEF OutboxInv, RowsSound, ExhaustedIsDead, Exhausted
        <4> QED
          BY <3>1, <4>1, Committed
      <3> QED
        BY <1>1, <3>1 DEF ExhaustedIsDead, Exhausted
    <2> QED
      BY <2>1, <2>2, <2>3, <2>4 DEF RowsSound
  <1> QED
    BY <1>3, <1>4, <1>5, <1>6, <1>7 DEF OutboxInv, BatchPart

\* The end of a backoff changes nothing that counts.
LEMMA BackoffKeeps ==
  ASSUME OutboxInv, NEW e \in Events, BackoffEnds(e)
  PROVE  OutboxInv'
  <1>1. /\ row \in [Events -> Rows] /\ row' = [row EXCEPT ![e] = [row[e] EXCEPT !.waits = FALSE]]
        /\ UNCHANGED <<writer, saved, early, ready, batch, memory, got, again, mishaps, undone>>
    BY OutboxParts DEF OutboxInv, BackoffEnds
  <1>2. [row[e] EXCEPT !.waits = FALSE] \in Rows
        /\ [row[e] EXCEPT !.waits = FALSE].st = row[e].st
        /\ [row[e] EXCEPT !.waits = FALSE].attempts = row[e].attempts
    BY <1>1 DEF Rows
  <1>3. row' \in [Events -> Rows]
        /\ \A f \in Events : row'[f].st = row[f].st /\ row'[f].attempts = row[f].attempts
    BY <1>1, <1>2
  <1>4. OutboxTypeOK'
    BY <1>1, <1>3 DEF OutboxInv, OutboxTypeOK
  <1>5. BatchesSound'
    <2>1. ASSUME NEW p \in Dispatchers
          PROVE  Sound(batch[p], row', got, undone = 0)
      <3>1. Sound(batch[p], row, got, undone = 0) /\ batch[p] \in Batches
        BY OutboxParts DEF OutboxInv, BatchPart, BatchesSound
      <3>2. batch[p].todo \subseteq Events /\ batch[p].marked \subseteq Events
        BY <3>1 DEF Batches
      <3> QED
        BY <1>3, <3>1, <3>2 DEF Sound
    <2> QED
      BY <1>1, <2>1 DEF BatchesSound
  <1>6. LocksApart' /\ Remembered'
    BY <1>1 DEF OutboxInv, BatchPart, LocksApart, Remembered
  <1>7. RowsSound'
    BY <1>1, <1>3 DEF OutboxInv, OutboxTypeOK, RowsSound, PublishedIsHandled, EventHasChange, ChangeHasEvent, ExhaustedIsDead
  <1> QED
    BY <1>4, <1>5, <1>6, <1>7 DEF OutboxInv, BatchPart

\* A process that dies leaves no batch, and its guards remember nothing.
LEMMA CrashKeeps ==
  ASSUME OutboxInv, NEW p \in Dispatchers, Crash(p)
  PROVE  OutboxInv'
  <1> DEFINE blank == [c \in Consumers |-> {}]
  <1>1. /\ batch' = [batch EXCEPT ![p] = Idle] /\ memory' = [memory EXCEPT ![p] = blank]
        /\ Mishap("crash")
        /\ UNCHANGED <<row, saved, early, got, again, undone>>
    BY DEF Crash
  <1>2. batch' \in [Dispatchers -> Batches] /\ BatchPart'
    <2>1. Idle \in Batches /\ Idle.locks = {} /\ Sound(Idle, row, got, undone' = 0)
      BY IdleSound DEF Idle
    <2> QED
      BY <1>1, <2>1, OneBatch
  <1>3. OutboxTypeOK'
    <2>1. memory' \in [Dispatchers -> [Consumers -> {m \in SUBSET Events : Cardinality(m) <= Capacity}]]
      <3>1. memory \in [Dispatchers -> [Consumers -> {m \in SUBSET Events : Cardinality(m) <= Capacity}]]
        BY DEF OutboxInv, OutboxTypeOK
      <3>2. {} \in {m \in SUBSET Events : Cardinality(m) <= Capacity}
        BY FS_EmptySet, OutboxAssumption
      <3> QED
        BY <1>1, <3>1, <3>2
    <2>2. ready' \in BOOLEAN /\ writer' \in [Events -> {"none", "open", "inserted"}]
      BY DEF Crash, OutboxInv, OutboxTypeOK
    <2>3. mishaps' \in 0..MaxMishaps
      BY <1>1, MishapCounts DEF OutboxInv
    <2> QED
      BY <1>1, <1>2, <2>1, <2>2, <2>3 DEF OutboxInv, OutboxTypeOK
  <1>4. Remembered'
    <2>1. memory \in [Dispatchers -> [Consumers -> SUBSET Events]]
      BY OutboxParts DEF OutboxInv
    <2>2. ASSUME NEW q \in Dispatchers, NEW c \in Consumers
          PROVE  IsFiniteSet(memory'[q][c]) /\ \A e \in memory'[q][c] : c \in got'[e]
      <3>1. CASE q = p
        BY <1>1, <2>1, <3>1, FS_EmptySet
      <3>2. CASE q # p
        BY <1>1, <2>1, <3>2 DEF OutboxInv, Remembered
      <3> QED
        BY <3>1, <3>2
    <2> QED
      BY <2>2 DEF Remembered
  <1>5. RowsSound'
    BY <1>1 DEF OutboxInv, RowsSound, PublishedIsHandled, EventHasChange, ChangeHasEvent, ExhaustedIsDead
  <1> QED
    BY <1>2, <1>3, <1>4, <1>5 DEF OutboxInv

-----------------------------------------------------------------------------
(* A delivery.                                                             *)

\* A guard stays within its capacity, and remembers nothing it was not given.
LEMMA GuardBounded ==
  ASSUME NEW m \in SUBSET Events, NEW e \in Events, NEW n \in RememberedBy(m, e),
         IsFiniteSet(m), Cardinality(m) <= Capacity, e \notin m
  PROVE  n \subseteq m \cup {e} /\ IsFiniteSet(n) /\ Cardinality(n) <= Capacity
  <1>1. IsFiniteSet(m \cup {e}) /\ Cardinality(m \cup {e}) = Cardinality(m) + 1 /\ Cardinality(m) \in Nat
    BY FS_AddElement, FS_CardinalityType
  <1>2. CASE Cardinality(m \cup {e}) <= Capacity
    BY <1>1, <1>2 DEF RememberedBy
  <1>3. CASE ~(Cardinality(m \cup {e}) <= Capacity)
    <2>1. PICK x \in m : n = (m \cup {e}) \ {x}
      BY <1>3 DEF RememberedBy
    <2>2. IsFiniteSet(n) /\ Cardinality(n) = Cardinality(m \cup {e}) - 1
      BY <1>1, <2>1, FS_RemoveElement
    <2> QED
      BY <1>1, <2>1, <2>2, OutboxAssumption
  <1> QED
    BY <1>2, <1>3

\* What a delivery of e to the consumers ran does: the guards of p, what was
\* handled, and where the batch goes.
Delivers(p, e, ran, bad, m) ==
    /\ ran = NewTo(p, e) \ bad
    /\ m \in [Consumers -> SUBSET Events]
    /\ \A c \in Consumers \ ran : m[c] = memory[p][c]
    /\ \A c \in ran : m[c] \in RememberedBy(memory[p][c], e)
    /\ memory' = [memory EXCEPT ![p] = m]
    /\ got' = [got EXCEPT ![e] = @ \cup ran]
    /\ again' = again \cup {<<c, e>> : c \in ran \cap got[e]}
    /\ batch' = [batch EXCEPT ![p] =
           [@ EXCEPT !.pc = IF Delivered(p, e, bad) THEN "publish" ELSE "fail"]]

\* The guards of the process after a delivery.
LEMMA GuardsAfter ==
  ASSUME OutboxInv, NEW p \in Dispatchers, NEW e \in Events, NEW ran, NEW bad, NEW m,
         Delivers(p, e, ran, bad, m)
  PROVE  /\ memory' \in [Dispatchers -> [Consumers -> {n \in SUBSET Events : Cardinality(n) <= Capacity}]]
         /\ got' \in [Events -> SUBSET Consumers]
         /\ \A f \in Events : got[f] \subseteq got'[f]
         /\ Remembered'
  <1>1. /\ memory \in [Dispatchers -> [Consumers -> {n \in SUBSET Events : Cardinality(n) <= Capacity}]]
        /\ got \in [Events -> SUBSET Consumers]
    BY DEF OutboxInv, OutboxTypeOK
  <1>2. ran \subseteq Consumers /\ \A c \in ran : e \notin memory[p][c]
    BY DEF Delivers, NewTo
  <1>3. got' \in [Events -> SUBSET Consumers] /\ got'[e] = got[e] \cup ran
        /\ \A f \in Events : got[f] \subseteq got'[f]
    BY <1>1, <1>2 DEF Delivers
  <1>4. ASSUME NEW c \in Consumers
        PROVE  /\ m[c] \in {n \in SUBSET Events : Cardinality(n) <= Capacity}
               /\ IsFiniteSet(m[c]) /\ \A f \in m[c] : c \in got'[f]
    <2>1. /\ memory[p][c] \in SUBSET Events /\ Cardinality(memory[p][c]) <= Capacity
          /\ IsFiniteSet(memory[p][c]) /\ \A f \in memory[p][c] : c \in got[f]
      BY <1>1 DEF OutboxInv, Remembered
    <2>2. \A f \in memory[p][c] : c \in got'[f]
      BY <1>3, <2>1
    <2>3. CASE c \in ran
      <3>1. m[c] \in RememberedBy(memory[p][c], e) /\ e \notin memory[p][c]
        BY <1>2, <2>3 DEF Delivers
      <3>2. m[c] \subseteq memory[p][c] \cup {e} /\ IsFiniteSet(m[c]) /\ Cardinality(m[c]) <= Capacity
        BY <2>1, <3>1, GuardBounded
      <3> QED
        BY <1>3, <2>1, <2>2, <2>3, <3>2
    <2>4. CASE c \notin ran
      BY <2>1, <2>2, <2>4 DEF Delivers
    <2> QED
      BY <2>3, <2>4
  <1>5. memory' \in [Dispatchers -> [Consumers -> {n \in SUBSET Events : Cardinality(n) <= Capacity}]]
    <2>1. m \in [Consumers -> {n \in SUBSET Events : Cardinality(n) <= Capacity}]
      BY <1>4 DEF Delivers
    <2> QED
      BY <1>1, <2>1 DEF Delivers
  <1>6. Remembered'
    <2>1. ASSUME NEW q \in Dispatchers, NEW c \in Consumers
          PROVE  IsFiniteSet(memory'[q][c]) /\ \A f \in memory'[q][c] : c \in got'[f]
      <3>1. CASE q = p
        BY <1>1, <1>4, <3>1 DEF Delivers
      <3>2. CASE q # p
        <4>1. memory'[q][c] = memory[q][c] /\ memory[q][c] \subseteq Events
          BY <1>1, <3>2 DEF Delivers
        <4> QED
          BY <1>3, <4>1 DEF OutboxInv, Remembered
      <3> QED
        BY <3>1, <3>2
    <2> QED
      BY <2>1 DEF Remembered
  <1> QED
    BY <1>3, <1>5, <1>6

\* A delivery that nobody failed has reached every consumer: those that did not
\* run remembered the event.
LEMMA DeliveredToAll ==
  ASSUME OutboxInv, NEW p \in Dispatchers, NEW e \in Events, NEW ran, NEW bad, NEW m,
         Delivers(p, e, ran, bad, m), Delivered(p, e, bad)
  PROVE  got'[e] = Consumers
  <1>1. got \in [Events -> SUBSET Consumers] /\ got' = [got EXCEPT ![e] = @ \cup ran]
    BY DEF OutboxInv, OutboxTypeOK, Delivers
  <1>2. ran = {c \in Consumers : e \notin memory[p][c]}
    BY DEF Delivers, Delivered, NewTo
  <1>3. \A c \in Consumers : e \in memory[p][c] => c \in got[e]
    BY DEF OutboxInv, Remembered
  <1> QED
    BY <1>1, <1>2, <1>3

\* A delivery keeps the batches of both processes sound.
LEMMA DeliverKeeps ==
  ASSUME OutboxInv, NEW p \in Dispatchers, Deliver(p)
  PROVE  OutboxInv'
  <1>1. /\ batch[p].pc = "next" /\ UNCHANGED <<row, writer, saved, early, ready, undone>>
    BY DEF Deliver
  <1>2. PICK e \in Heads(p) : \E bad \in SUBSET NewTo(p, e) :
          /\ IF bad = {} THEN UNCHANGED mishaps ELSE Mishap("handler")
          /\ \E m : Delivers(p, e, NewTo(p, e) \ bad, bad, m)
    BY Zenon DEF Deliver, Delivers
  <1>3. PICK bad \in SUBSET NewTo(p, e) :
          /\ IF bad = {} THEN UNCHANGED mishaps ELSE Mishap("handler")
          /\ \E m : Delivers(p, e, NewTo(p, e) \ bad, bad, m)
    BY <1>2
  <1> DEFINE ran == NewTo(p, e) \ bad
  <1>4. PICK m : Delivers(p, e, ran, bad, m)
    BY <1>3
  <1>5. /\ batch \in [Dispatchers -> Batches] /\ batch[p] \in Batches
        /\ e \in Events /\ e \in batch[p].todo /\ IsHead(batch[p], e)
        /\ Sound(batch[p], row, got, undone = 0) /\ got \in [Events -> SUBSET Consumers]
    BY AtWork, OutboxParts DEF OutboxInv
  <1> DEFINE b == [batch[p] EXCEPT !.pc = IF Delivered(p, e, bad) THEN "publish" ELSE "fail"]
  <1>6. /\ b \in Batches /\ b.todo = batch[p].todo /\ b.locks = batch[p].locks
        /\ b.marked = batch[p].marked /\ b.new = batch[p].new /\ b.read = batch[p].read
        /\ b.pc = IF Delivered(p, e, bad) THEN "publish" ELSE "fail"
    BY <1>5 DEF Batches
  <1>7. batch' = [batch EXCEPT ![p] = b]
    BY <1>4 DEF Delivers
  <1> HIDE DEF b
  <1>8. batch' \in [Dispatchers -> Batches] /\ batch'[p] = b
        /\ \A q \in Dispatchers \ {p} : batch'[q] = batch[q]
    BY <1>5, <1>6, <1>7
  <1>9. /\ got' \in [Events -> SUBSET Consumers] /\ Remembered'
        /\ \A f \in Events : got[f] \subseteq got'[f]
        /\ memory' \in [Dispatchers -> [Consumers -> {n \in SUBSET Events : Cardinality(n) <= Capacity}]]
    BY <1>4, <1>5, GuardsAfter
  <1>10. \A f \in Events : got[f] = Consumers => got'[f] = Consumers
    BY <1>9
  <1>11. BatchesSound'
    <2>1. ASSUME NEW q \in Dispatchers
          PROVE  Sound(batch[q], row, got', undone = 0)
      <3>1. Sound(batch[q], row, got, undone = 0) /\ batch[q] \in Batches
        BY OutboxParts DEF OutboxInv, BatchPart, BatchesSound
      <3>2. batch[q].todo \subseteq Events /\ batch[q].marked \subseteq Events
        BY <3>1 DEF Batches
      <3> QED
        BY <1>10, <3>1, <3>2 DEF Sound
    <2>2. Sound(b, row, got', undone = 0)
      <3>1. Delivered(p, e, bad) => got'[e] = Consumers
        BY <1>4, <1>5, DeliveredToAll
      <3>2. \A f \in batch[p].todo : IsHead(batch[p], f) => f = e
        <4>1. batch[p].todo \subseteq Nat
          BY <1>5, OutboxAssumption DEF Batches
        <4> QED
          BY <4>1, <1>5 DEF IsHead
      <3> QED
        BY <1>6, <2>1, <3>1, <3>2 DEF Sound, IsHead
    <2> QED
      BY <1>1, <1>8, <2>1, <2>2 DEF BatchesSound
  <1>12. LocksApart'
    <2>1. \A q \in Dispatchers : batch'[q].locks = batch[q].locks
      BY <1>6, <1>8
    <2> QED
      BY <2>1 DEF OutboxInv, BatchPart, LocksApart
  <1>13. OutboxTypeOK'
    <2>1. mishaps' \in 0..MaxMishaps
      BY <1>3, MishapCounts DEF OutboxInv, OutboxTypeOK
    <2>2. again' \subseteq Consumers \X Events
      BY <1>4, <1>5 DEF Delivers, NewTo, OutboxInv, OutboxTypeOK
    <2> QED
      BY <1>1, <1>8, <1>9, <2>1, <2>2 DEF OutboxInv, OutboxTypeOK
  <1>14. RowsSound'
    BY <1>1, <1>10 DEF OutboxInv, RowsSound, PublishedIsHandled, EventHasChange, ChangeHasEvent, ExhaustedIsDead
  <1> QED
    BY <1>9, <1>11, <1>12, <1>13, <1>14 DEF OutboxInv, BatchPart

-----------------------------------------------------------------------------
(* The theorems.                                                           *)

\* The invariant holds at the start.
LEMMA OutboxInitHolds == OutboxInit => OutboxInv
  <1> SUFFICES ASSUME OutboxInit
               PROVE  OutboxInv
    OBVIOUS
  <1>1. NoRow \in Rows /\ NoRow.st = "absent" /\ NoRow.attempts = 0
    BY DEF NoRow, Rows, RowStatus
  <1>2. OutboxTypeOK
    <2>1. {} \in {m \in SUBSET Events : Cardinality(m) <= Capacity}
      BY FS_EmptySet, OutboxAssumption
    <2>2. memory \in [Dispatchers -> [Consumers -> {m \in SUBSET Events : Cardinality(m) <= Capacity}]]
      BY <2>1 DEF OutboxInit
    <2>3. 0 \in 0..MaxMishaps
      BY OutboxAssumption
    <2>4. /\ row \in [Events -> Rows] /\ batch \in [Dispatchers -> Batches]
          /\ writer \in [Events -> {"none", "open", "inserted"}]
      BY <1>1, IdleSound DEF OutboxInit
    <2> QED
      BY <2>2, <2>3, <2>4 DEF OutboxInit, OutboxTypeOK
  <1>3. BatchPart
    BY IdleSound DEF OutboxInit, BatchPart, BatchesSound, LocksApart, Idle
  <1>4. Remembered
    BY FS_EmptySet DEF OutboxInit, Remembered
  <1>5. RowsSound
    BY <1>1, OutboxAssumption
    DEF OutboxInit, RowsSound, PublishedIsHandled, EventHasChange, ChangeHasEvent, ExhaustedIsDead
  <1> QED
    BY <1>2, <1>3, <1>4, <1>5 DEF OutboxInv

\* Every step keeps it.
LEMMA OutboxStep == OutboxInv /\ [OutboxNext]_outboxVars => OutboxInv'
  <1> SUFFICES ASSUME OutboxInv, [OutboxNext]_outboxVars
               PROVE  OutboxInv'
    OBVIOUS
  <1>1. CASE UNCHANGED outboxVars
    BY <1>1 DEF outboxVars, OutboxInv, OutboxTypeOK, BatchPart, BatchesSound, LocksApart, Remembered,
                RowsSound, PublishedIsHandled, EventHasChange, ChangeHasEvent, ExhaustedIsDead
  <1>2. ASSUME NEW e \in Events, Emission(e)
        PROVE  OutboxInv'
    BY <1>2, EmissionKeeps
  <1>3. ASSUME NEW e \in Events, BackoffEnds(e)
        PROVE  OutboxInv'
    BY <1>3, BackoffKeeps
  <1>4. ASSUME NEW p \in Dispatchers, Dispatch(p)
        PROVE  OutboxInv'
    BY <1>4, FetchKeeps, DeliverKeeps, MarkPublishedKeeps, MarkFailedReadsKeeps,
       MarkFailedWritesKeeps, CommitBatchKeeps DEF Dispatch
  <1>5. ASSUME NEW p \in Dispatchers, MarkFails(p) \/ CommitFails(p) \/ Crash(p)
        PROVE  OutboxInv'
    BY <1>5, MarkFailsKeeps, CommitFailsKeeps, CrashKeeps
  <1> QED
    BY <1>1, <1>2, <1>3, <1>4, <1>5 DEF OutboxNext

\* The strengthened invariant: what each batch and guard stands for.
THEOREM OutboxInvariance == OutboxSpec => []OutboxInv
  BY OutboxInitHolds, OutboxStep, PTL DEF OutboxSpec

\* Rows, batches and guards stay well formed, for any events and processes.
THEOREM OutboxTypesHold == OutboxSpec => []OutboxTypeOK
  <1>1. OutboxInv => OutboxTypeOK
    BY DEF OutboxInv
  <1> QED
    BY <1>1, OutboxInvariance, PTL

\* A published event was handled by every consumer (CommitBatch after Deliver).
THEOREM PublishedAreHandled == OutboxSpec => []PublishedIsHandled
  <1>1. OutboxInv => PublishedIsHandled
    BY DEF OutboxInv, RowsSound
  <1> QED
    BY <1>1, OutboxInvariance, PTL

\* An event stands for a change its caller has committed (emit_event).
THEOREM EventsHaveChanges == OutboxSpec => []EventHasChange
  <1>1. OutboxInv => EventHasChange
    BY DEF OutboxInv, RowsSound
  <1> QED
    BY <1>1, OutboxInvariance, PTL

\* A change its caller has committed has its event, but for the first call of
\* emit_event in a process.
THEOREM ChangesHaveEvents == OutboxSpec => []ChangeHasEvent
  <1>1. OutboxInv => ChangeHasEvent
    BY DEF OutboxInv, RowsSound
  <1> QED
    BY <1>1, OutboxInvariance, PTL

\* Change and event are saved together (emit_event, in the caller's transaction).
THEOREM EmissionIsAtomic == OutboxSpec => []SavedTogether
  <1>1. OutboxInv => SavedTogether
    BY DEF OutboxInv, RowsSound, SavedTogether
  <1> QED
    BY <1>1, OutboxInvariance, PTL

\* As long as no batch has lost its locks, DEAD is what has no attempt left.
THEOREM ExhaustedAreDead == OutboxSpec => []ExhaustedIsDead
  <1>1. OutboxInv => ExhaustedIsDead
    BY DEF OutboxInv, RowsSound
  <1> QED
    BY <1>1, OutboxInvariance, PTL

\* The rows after a step: what was there stays there, PUBLISHED stays, and a row
\* becomes PUBLISHED only from the queue and after all consumers.
LEMMA RowsMove ==
  ASSUME OutboxInv, [OutboxNext]_outboxVars
  PROVE  \A e \in Events :
            \/ row'[e].st = row[e].st
            \/ row[e].st = "absent" /\ row'[e].st = "PENDING"
            \/ /\ row[e].st \in {"PENDING", "DEAD"} /\ row'[e].st \in {"PENDING", "DEAD", "PUBLISHED"}
               /\ row'[e].st = "PUBLISHED" => got[e] = Consumers
  <1>1. CASE row' = row
    BY <1>1
  <1>2. ASSUME NEW f \in Events, CallerCommits(f)
        PROVE  \A e \in Events : \/ row'[e] = row[e]
                                 \/ row[e].st = "absent" /\ row'[e].st = "PENDING"
    <2>1. row \in [Events -> Rows] /\ row' = [row EXCEPT ![f] = Inserted(row[f])]
      BY <1>2, OutboxParts DEF OutboxInv, CallerCommits
    <2> QED
      BY <2>1, InsertedRow
  <1>3. ASSUME NEW p \in Dispatchers, CommitBatch(p), NEW e \in Events
        PROVE  \/ row'[e] = row[e]
               \/ /\ row[e].st \in {"PENDING", "DEAD"} /\ row'[e].st \in {"PENDING", "DEAD", "PUBLISHED"}
                  /\ row'[e].st = "PUBLISHED" => got[e] = Consumers
    <2>1. row[e].st \in RowStatus /\ row'[e].st \in RowStatus
      BY <1>3, Committed, OutboxParts DEF OutboxInv, Rows
    <2> QED
      BY <1>3, <2>1, Committed DEF RowStatus
  <1>4. ASSUME NEW f \in Events, BackoffEnds(f)
        PROVE  \A e \in Events : row'[e].st = row[e].st
    <2>1. row \in [Events -> Rows] /\ row' = [row EXCEPT ![f] = [row[f] EXCEPT !.waits = FALSE]]
      BY <1>4, OutboxParts DEF OutboxInv, BackoffEnds
    <2>2. [row[f] EXCEPT !.waits = FALSE].st = row[f].st
      BY <2>1 DEF Rows
    <2> QED
      BY <2>1, <2>2
  <1>5. \/ row' = row
        \/ \E f \in Events : CallerCommits(f) \/ BackoffEnds(f)
        \/ \E p \in Dispatchers : CommitBatch(p)
    BY DEF outboxVars, OutboxNext, Emission, Open, EnsureSchema, Insert, InsertFails, Dispatch,
           FetchPublishable, Deliver, MarkPublished, MarkFailedReads, MarkFailedWrites, MarkFails,
           CommitFails, Crash
  <1> QED
    BY <1>1, <1>2, <1>3, <1>4, <1>5

\* A published row is never taken back, by whichever process, late or early.
THEOREM PublishedStays == OutboxSpec => PublishedIsFinal
  <1>1. OutboxInv /\ [OutboxNext]_outboxVars
        => [\A e \in Events : row[e].st = "PUBLISHED" => row'[e].st = "PUBLISHED"]_outboxVars
    BY RowsMove
  <1> QED
    BY <1>1, OutboxInvariance, PTL DEF OutboxSpec, PublishedIsFinal

-----------------------------------------------------------------------------
(* The refinement.                                                         *)

\* What a step of the outbox does to what was handled: one delivery, of an event
\* that is on the table.
LEMMA HandledMoves ==
  ASSUME OutboxInv, [OutboxNext]_outboxVars, got' # got
  PROVE  /\ row' = row
         /\ \E e \in Events, C \in SUBSET Consumers :
               row[e].st # "absent" /\ got' = [got EXCEPT ![e] = @ \cup C]
  <1>1. PICK p \in Dispatchers : Deliver(p)
    BY DEF outboxVars, OutboxNext, Emission, Open, EnsureSchema, Insert, InsertFails, CallerCommits,
           Dispatch, FetchPublishable, MarkPublished, MarkFailedReads, MarkFailedWrites, MarkFails,
           CommitBatch, CommitFails, BackoffEnds, Crash
  <1>2. PICK e \in Heads(p) : \E bad : got' = [got EXCEPT ![e] = @ \cup (NewTo(p, e) \ bad)]
    BY <1>1, Zenon DEF Deliver
  <1>3. /\ e \in Events /\ row[e].st # "absent"
        /\ \A bad : NewTo(p, e) \ bad \in SUBSET Consumers
    BY AtWork DEF NewTo
  <1> QED
    BY <1>1, <1>2, <1>3 DEF Deliver

\* The status promised of each event.
LEMMA StatusOf ==
  ASSUME NEW rows, rows \in [Events -> Rows]
  PROVE  LET status == [e \in Events |-> Promised[rows[e].st]]
         IN  /\ status \in [Events -> {"none", "due", "given up", "done"}]
             /\ \A e \in Events : /\ status[e] = "none" <=> rows[e].st = "absent"
                                  /\ status[e] = "due" <=> rows[e].st = "PENDING"
                                  /\ status[e] = "given up" <=> rows[e].st = "DEAD"
                                  /\ status[e] = "done" <=> rows[e].st = "PUBLISHED"
  <1>1. /\ Promised["absent"] = "none" /\ Promised["PENDING"] = "due"
        /\ Promised["DEAD"] = "given up" /\ Promised["PUBLISHED"] = "done"
    BY DEF Promised
  <1>2. \A e \in Events : rows[e].st \in {"absent", "PENDING", "PUBLISHED", "DEAD"}
    BY DEF Rows, RowStatus
  <1>3. \A e \in Events :
            /\ Promised[rows[e].st] \in {"none", "due", "given up", "done"}
            /\ Promised[rows[e].st] = "none" <=> rows[e].st = "absent"
            /\ Promised[rows[e].st] = "due" <=> rows[e].st = "PENDING"
            /\ Promised[rows[e].st] = "given up" <=> rows[e].st = "DEAD"
            /\ Promised[rows[e].st] = "done" <=> rows[e].st = "PUBLISHED"
    <2> TAKE e \in Events
    <2>1. CASE rows[e].st = "absent"
      BY <1>1, <2>1
    <2>2. CASE rows[e].st = "PENDING"
      BY <1>1, <2>2
    <2>3. CASE rows[e].st = "PUBLISHED"
      BY <1>1, <2>3
    <2>4. CASE rows[e].st = "DEAD"
      BY <1>1, <2>4
    <2> QED
      BY <1>2, <2>1, <2>2, <2>3, <2>4
  <1> QED
    BY <1>3

\* A step of the outbox is a step of the promise, or none.
LEMMA StepPromised ==
  ASSUME OutboxInv, OutboxInv', [OutboxNext]_outboxVars
  PROVE  [Promise!AbstractNext]_<<[e \in Events |-> Promised[row[e].st]], got>>
  <1> DEFINE now == [e \in Events |-> Promised[row[e].st]]
             next == [e \in Events |-> Promised[row'[e].st]]
  <1>1. row \in [Events -> Rows] /\ row' \in [Events -> Rows] /\ got \in [Events -> SUBSET Consumers]
    BY DEF OutboxInv, OutboxTypeOK
  <1>2. CASE got' = got
    <2>1. \A e \in Events : Promise!Move(e, now[e], next[e])
      <3>1. /\ now \in [Events -> {"none", "due", "given up", "done"}]
            /\ \A e \in Events : /\ now[e] = "none" <=> row[e].st = "absent"
                                 /\ now[e] = "due" <=> row[e].st = "PENDING"
                                 /\ now[e] = "given up" <=> row[e].st = "DEAD"
                                 /\ now[e] = "done" <=> row[e].st = "PUBLISHED"
        BY <1>1, StatusOf
      <3>2. /\ next \in [Events -> {"none", "due", "given up", "done"}]
            /\ \A e \in Events : /\ next[e] = "none" <=> row'[e].st = "absent"
                                 /\ next[e] = "due" <=> row'[e].st = "PENDING"
                                 /\ next[e] = "given up" <=> row'[e].st = "DEAD"
                                 /\ next[e] = "done" <=> row'[e].st = "PUBLISHED"
        BY <1>1, StatusOf
      <3> HIDE DEF now, next
      <3>3. ASSUME NEW e \in Events
            PROVE  Promise!Move(e, now[e], next[e])
        <4>1. row[e].st \in RowStatus /\ row'[e].st \in RowStatus
          BY <1>1 DEF Rows
        <4>2. CASE row'[e].st = row[e].st
          BY <3>1, <3>2, <4>1, <4>2 DEF Promise!Move, RowStatus
        <4>3. CASE row[e].st = "absent" /\ row'[e].st = "PENDING"
          BY <3>1, <3>2, <4>3 DEF Promise!Move
        <4>4. CASE /\ row[e].st \in {"PENDING", "DEAD"} /\ row'[e].st \in {"PENDING", "DEAD", "PUBLISHED"}
                   /\ row'[e].st = "PUBLISHED" => got[e] = Consumers
          BY <3>1, <3>2, <4>4 DEF Promise!Move, Promise!Open
        <4> QED
          BY <4>2, <4>3, <4>4, RowsMove
      <3> QED
        BY <3>3
    <2>2. next \in [Events -> Promise!Status]
      BY <1>1, StatusOf DEF Promise!Status
    <2> QED
      BY <1>2, <2>1, <2>2 DEF Promise!AbstractNext, Promise!Settle
  <1>3. CASE got' # got
    <2>1. PICK e \in Events, C \in SUBSET Consumers :
            row[e].st # "absent" /\ got' = [got EXCEPT ![e] = @ \cup C]
      BY <1>3, HandledMoves
    <2>2. row' = row /\ now[e] # "none"
      BY <1>1, <1>3, <2>1, HandledMoves, StatusOf
    <2>3. now' = now
      BY <2>2
    <2>4. Promise!Take
      BY <2>1, <2>2, <2>3 DEF Promise!Take
    <2> QED
      BY <2>4 DEF Promise!AbstractNext
  <1> QED
    BY <1>2, <1>3

\* The outbox implements the promise: with rollbacks, crashes and two processes,
\* an emitted event is never lost and is done only when every consumer has it.
THEOREM KeepsPromise == OutboxSpec => DeliversAtLeastOnce
  <1>1. OutboxInit => Promise!AbstractInit
    <2>1. Promised["absent"] = "none" /\ NoRow.st = "absent"
      BY DEF Promised, NoRow
    <2>2. OutboxInit => \A e \in Events : Promised[row[e].st] = "none"
      BY <2>1 DEF OutboxInit
    <2> QED
      BY <2>2 DEF OutboxInit, Promise!AbstractInit
  <1>2. OutboxInv /\ OutboxInv' /\ [OutboxNext]_outboxVars
        => [Promise!AbstractNext]_<<[e \in Events |-> Promised[row[e].st]], got>>
    BY StepPromised
  <1> QED
    BY <1>1, <1>2, OutboxInvariance, PTL DEF OutboxSpec, DeliversAtLeastOnce, Promise!AbstractSpec

-----------------------------------------------------------------------------
(***************************************************************************)
(* Proofs about ChargeOnce, for any requests, keys, contents and number of *)
(* flaws.  The inductive invariant says whose a key's row is: while its    *)
(* holder is in its block the row is the holder's, young and in flight; a  *)
(* row that is settled has a request that ended well; a request about to   *)
(* take a row over has read that row's content and found it expired.       *)
(***************************************************************************)

Entering == {"start", "look", "take"}
Begun(r) == call[r] \notin Entering
HoldsKey(r) == Owns(r) /\ call[r] \in Inside

HeldRows ==
    \A r \in Requests : HoldsKey(r) /\ KeyOf[r] \notin overdue => Row(r) = Reserved(r)

SettledRows ==
    \A k \in ChargeKeys \ overdue : charge[k].st = "settled" =>
        \E s \in Requests : /\ KeyOf[s] = k /\ BodyOf[s] = charge[k].body
                            /\ Owns(s) /\ call[s] = "done"

DoneRows ==
    \A s \in Requests : Owns(s) /\ call[s] = "done" /\ KeyOf[s] \notin overdue \cup lapsed =>
        Row(s).st = "settled" /\ Row(s).born = s

\* What a request that is about to take a row over knows of it.
Known(r) ==
    StillThere(r) =>
        /\ Row(r).body = BodyOf[r] /\ Row(r).age # "young"
        /\ Row(r).st = "settled" /\ KeyOf[r] \notin overdue => Row(r).age = "old"
TakersKnow == \A r \in Requests : call[r] = "take" => Begun(seen[r]) /\ Known(r)

BornBegun == \A k \in ChargeKeys : charge[k].st # "absent" => Begun(charge[k].born)

ModesRight ==
    \A r \in Requests :
        /\ call[r] \in Entering \cup {"refused"} => mode[r] = "none"
        /\ call[r] \in {"settle", "release"} => Owns(r)

UnitsRight ==
    \A r \in Requests :
        /\ billed[r] + due[r] <= MaxUnits
        /\ call[r] \in Entering \cup {"work"} => billed[r] = 0

RowsRight == HeldRows /\ SettledRows /\ DoneRows /\ TakersKnow /\ BornBegun /\ ModesRight /\ FreeWasPaid
ChargeInv == ChargeTypeOK /\ UnitsRight /\ RowsRight

-----------------------------------------------------------------------------
(* Types.                                                                  *)

\* The parts of the type invariant the proofs use.
LEMMA ChargeParts ==
  ASSUME ChargeTypeOK
  PROVE  /\ charge \in [ChargeKeys -> ChargeRows]
         /\ call \in [Requests -> Entering \cup Inside \cup Answers]
         /\ mode \in [Requests -> {"none", "reserved", "settled", "unavailable"}]
         /\ seen \in [Requests -> Requests]
         /\ \A r \in Requests : KeyOf[r] \in ChargeKeys /\ Row(r) \in ChargeRows
  BY ChargeAssumption DEF ChargeTypeOK, Row, Entering

\* A request writes a row of its own.
LEMMA ReservedRow ==
  ASSUME NEW r \in Requests
  PROVE  /\ Reserved(r) \in ChargeRows /\ Reserved(r).st = "in_flight" /\ Reserved(r).born = r
         /\ Reserved(r).body = BodyOf[r] /\ Reserved(r).age = "young"
  BY ChargeAssumption DEF Reserved, ChargeRows

\* The row that is not there.
LEMMA NoReservationTyped == NoReservation \in ChargeRows /\ NoReservation.st = "absent"
  <1>1. (CHOOSE r \in Requests : TRUE) \in Requests
    BY ChargeAssumption
  <1> QED
    BY <1>1, ReservedRow DEF NoReservation, ChargeRows

\* A request goes where it goes, and the others stay where they are.
LEMMA GoesTo ==
  ASSUME ChargeTypeOK, NEW r \in Requests, NEW where, Goes(r, where)
  PROVE  call'[r] = where /\ \A q \in Requests \ {r} : call'[q] = call[q]
  BY DEF ChargeTypeOK, Goes

\* The same of the mode it is given.
LEMMA GivenIs ==
  ASSUME ChargeTypeOK, NEW r \in Requests, NEW state, Given(r, state)
  PROVE  mode'[r] = state /\ \A q \in Requests \ {r} : mode'[q] = mode[q]
  BY DEF ChargeTypeOK, Given

\* A statement writes the row of one key.
LEMMA PutIs ==
  ASSUME ChargeTypeOK, NEW r \in Requests, NEW new \in ChargeRows, Put(r, new)
  PROVE  /\ charge' \in [ChargeKeys -> ChargeRows]
         /\ charge'[KeyOf[r]] = new
         /\ \A k \in ChargeKeys \ {KeyOf[r]} : charge'[k] = charge[k]
  BY ChargeParts DEF Put

\* The start.
LEMMA ChargeInitHolds == ChargeInit => ChargeInv
  <1> SUFFICES ASSUME ChargeInit PROVE ChargeInv
    OBVIOUS
  <1>1. charge \in [ChargeKeys -> ChargeRows]
    BY NoReservationTyped DEF ChargeInit
  <1>2. call \in [Requests -> Entering \cup Inside \cup Answers]
    BY DEF ChargeInit, Entering
  <1>3. ChargeTypeOK
    BY <1>1, <1>2, ChargeAssumption DEF ChargeInit, ChargeTypeOK, Entering
  <1>4. UnitsRight
    BY ChargeAssumption DEF ChargeInit, UnitsRight
  <1>5. \A k \in ChargeKeys : charge[k].st = "absent"
    BY NoReservationTyped DEF ChargeInit
  <1>6. \A r \in Requests : call[r] = "start" /\ mode[r] = "none"
    BY DEF ChargeInit
  <1>7. RowsRight
    BY <1>5, <1>6 DEF RowsRight, HeldRows, SettledRows, DoneRows, TakersKnow, BornBegun,
       ModesRight, FreeWasPaid, HoldsKey, Owns, Entering
  <1> QED
    BY <1>3, <1>4, <1>7 DEF ChargeInv

\* Every step keeps the types, and charges no more units than the work produced.
LEMMA TypesKept ==
  ASSUME ChargeTypeOK, UnitsRight, [ChargeNext]_chargeVars
  PROVE  ChargeTypeOK' /\ UnitsRight'
  <1>0. /\ \A r \in Requests : Row(r) \in ChargeRows /\ KeyOf[r] \in ChargeKeys
        /\ \A kind : Flaw(kind) => flaws' \in 0..MaxFlaws
        /\ \A r \in Requests : due[r] \in 0..MaxUnits /\ billed[r] \in 0..MaxUnits
    BY ChargeParts, ChargeAssumption DEF ChargeTypeOK, Flaw
  <1>1. ASSUME NEW r \in Requests, ReserveInsert(r)
        PROVE  ChargeTypeOK' /\ UnitsRight'
    <2>1. charge' \in [ChargeKeys -> ChargeRows]
      BY <1>1, ReservedRow, ChargeParts DEF ReserveInsert, Put
    <2>2. call' \in [Requests -> Entering \cup Inside \cup Answers]
      BY <1>1, ChargeParts DEF ReserveInsert, Goes, Inside, Entering
    <2>3. mode' \in [Requests -> {"none", "reserved", "settled", "unavailable"}]
      BY <1>1, ChargeParts DEF ReserveInsert, Given
    <2>4. ChargeTypeOK'
      BY <1>1, <2>1, <2>2, <2>3 DEF ReserveInsert, ChargeTypeOK, Entering
    <2>5. UnitsRight'
      BY <1>1, <2>2, ChargeParts DEF ReserveInsert, UnitsRight, Goes, Entering
    <2> QED
      BY <2>4, <2>5
  <1>2. ASSUME NEW r \in Requests, ReserveLook(r)
        PROVE  ChargeTypeOK' /\ UnitsRight'
    <2>1. Row(r).born \in Requests
      BY <1>0 DEF ChargeRows
    <2>2. call' \in [Requests -> Entering \cup Inside \cup Answers]
      BY <1>2, ChargeParts DEF ReserveLook, Goes, Inside, Entering, Answers
    <2>3. mode' \in [Requests -> {"none", "reserved", "settled", "unavailable"}]
      BY <1>2, ChargeParts DEF ReserveLook, Given
    <2>4. seen' \in [Requests -> Requests]
      BY <1>2, <2>1, ChargeParts DEF ReserveLook
    <2>5. ChargeTypeOK'
      BY <1>2, <2>2, <2>3, <2>4 DEF ReserveLook, ChargeTypeOK, Entering
    <2>6. UnitsRight'
      BY <1>2, <2>2, ChargeParts DEF ReserveLook, UnitsRight, Goes, Entering
    <2> QED
      BY <2>5, <2>6
  <1>3. ASSUME NEW r \in Requests, ReserveTakeOver(r)
        PROVE  ChargeTypeOK' /\ UnitsRight'
    <2>1. [Reserved(r) EXCEPT !.body = Row(r).body] \in ChargeRows
      BY <1>0, ReservedRow DEF ChargeRows
    <2>2. charge' \in [ChargeKeys -> ChargeRows]
      BY <1>3, <2>1, ChargeParts DEF ReserveTakeOver, Put
    <2>3. call' \in [Requests -> Entering \cup Inside \cup Answers]
      BY <1>3, ChargeParts DEF ReserveTakeOver, Goes, Inside, Answers
    <2>4. mode' \in [Requests -> {"none", "reserved", "settled", "unavailable"}]
      BY <1>3, ChargeParts DEF ReserveTakeOver, Given
    <2>5. lapsed' \subseteq ChargeKeys
      BY <1>0, <1>3 DEF ReserveTakeOver, ChargeTypeOK
    <2>6. ChargeTypeOK'
      BY <1>3, <2>2, <2>3, <2>4, <2>5 DEF ReserveTakeOver, ChargeTypeOK, Entering
    <2>7. UnitsRight'
      BY <1>3, <2>3, ChargeParts DEF ReserveTakeOver, UnitsRight, Goes, Entering
    <2> QED
      BY <2>6, <2>7
  <1>4. ASSUME NEW r \in Requests, ReserveFails(r)
        PROVE  ChargeTypeOK' /\ UnitsRight'
    <2>1. call' \in [Requests -> Entering \cup Inside \cup Answers]
      BY <1>4, ChargeParts DEF ReserveFails, Goes, Inside
    <2>2. mode' \in [Requests -> {"none", "reserved", "settled", "unavailable"}]
      BY <1>4, ChargeParts DEF ReserveFails, Given
    <2>3. ChargeTypeOK'
      BY <1>0, <1>4, <2>1, <2>2 DEF ReserveFails, ChargeTypeOK, Entering
    <2>4. UnitsRight'
      BY <1>4, <2>1, ChargeParts DEF ReserveFails, UnitsRight, Goes, Entering
    <2> QED
      BY <2>3, <2>4
  <1>5. ASSUME NEW r \in Requests, Works(r)
        PROVE  ChargeTypeOK' /\ UnitsRight'
    <2>1. PICK n \in 0..MaxUnits : due' = [due EXCEPT ![r] = n]
      <3>1. 0 \in 0..MaxUnits
        BY ChargeAssumption
      <3> QED
        BY <1>5, <3>1 DEF Works
    <2>2. call' \in [Requests -> Entering \cup Inside \cup Answers]
      BY <1>5, ChargeParts DEF Works, Goes, Inside
    <2>3. ChargeTypeOK'
      BY <1>5, <2>1, <2>2 DEF Works, ChargeTypeOK, Entering
    <2>4. due'[r] = n /\ \A q \in Requests \ {r} : due'[q] = due[q] /\ call'[q] = call[q]
      BY <1>5, <2>1, GoesTo DEF Works, ChargeTypeOK
    <2>5. billed' = billed /\ billed[r] = 0 /\ call'[r] = "bill"
      BY <1>5, GoesTo DEF Works, UnitsRight
    <2>6. UnitsRight'
      BY <2>1, <2>4, <2>5, ChargeAssumption DEF UnitsRight, Entering
    <2> QED
      BY <2>3, <2>6
  <1>6. ASSUME NEW r \in Requests, Bills(r)
        PROVE  ChargeTypeOK' /\ UnitsRight'
    <2>1. billed[r] + due[r] <= MaxUnits /\ due[r] > 0
      BY <1>6 DEF Bills, UnitsRight
    <2>2. due[r] - 1 \in 0..MaxUnits /\ billed[r] + 1 \in 0..MaxUnits
      BY <1>0, <2>1, ChargeAssumption
    <2>3. due' = [due EXCEPT ![r] = due[r] - 1] /\ billed' = [billed EXCEPT ![r] = billed[r] + 1]
      BY <1>6 DEF Bills, ChargeTypeOK
    <2>4. ChargeTypeOK'
      BY <1>6, <2>2, <2>3 DEF Bills, ChargeTypeOK
    <2>5. /\ due'[r] = due[r] - 1 /\ billed'[r] = billed[r] + 1
          /\ \A q \in Requests \ {r} : due'[q] = due[q] /\ billed'[q] = billed[q]
      BY <2>3 DEF ChargeTypeOK
    <2>6. UnitsRight'
      BY <1>0, <1>6, <2>1, <2>5, ChargeAssumption DEF Bills, UnitsRight, Entering
    <2> QED
      BY <2>4, <2>6
  <1>7. ASSUME NEW r \in Requests, LosesCharge(r)
        PROVE  ChargeTypeOK' /\ UnitsRight'
    <2>1. /\ due' = [due EXCEPT ![r] = 0]
          /\ UNCHANGED <<charge, call, mode, seen, billed, overdue, lapsed>>
      BY <1>7, Zenon DEF LosesCharge
    <2>2. flaws' \in 0..MaxFlaws
      BY <1>0, <1>7, Zenon DEF LosesCharge
    <2>3. ChargeTypeOK'
      BY <2>1, <2>2, ChargeAssumption DEF ChargeTypeOK
    <2>4. due'[r] = 0 /\ \A q \in Requests \ {r} : due'[q] = due[q]
      BY <2>1 DEF ChargeTypeOK
    <2>5. UnitsRight'
      BY <1>0, <2>1, <2>4, ChargeAssumption DEF UnitsRight
    <2> QED
      BY <2>3, <2>5
  <1>8. ASSUME NEW r \in Requests,
               Finishes(r) \/ BlockRaises(r) \/ Dies(r) \/ SettleFails(r) \/ ReleaseFails(r)
        PROVE  ChargeTypeOK' /\ UnitsRight'
    <2>1. PICK where \in {"settle", "done", "release", "failed", "dead", "unsettled"} : Goes(r, where)
      BY <1>8 DEF Finishes, BlockRaises, Dies, SettleFails, ReleaseFails
    <2>2. call' \in [Requests -> Entering \cup Inside \cup Answers]
      BY <2>1, ChargeParts DEF Goes, Inside, Answers
    <2>3. UNCHANGED <<charge, mode, seen, due, billed, overdue, lapsed>> /\ flaws' \in 0..MaxFlaws
      BY <1>0, <1>8 DEF Finishes, BlockRaises, Dies, SettleFails, ReleaseFails, ChargeTypeOK
    <2>4. ChargeTypeOK'
      BY <2>2, <2>3 DEF ChargeTypeOK, Entering
    <2>5. UnitsRight'
      BY <2>1, <2>3, GoesTo DEF UnitsRight, Entering
    <2> QED
      BY <2>4, <2>5
  <1>9. ASSUME NEW r \in Requests, SettleCharge(r) \/ ReleaseCharge(r)
        PROVE  ChargeTypeOK' /\ UnitsRight'
    <2>1. PICK new \in ChargeRows : Put(r, new)
      BY <1>0, <1>9, NoReservationTyped DEF SettleCharge, ReleaseCharge, Released, ChargeRows
    <2>2. PICK where \in {"done", "failed"} : Goes(r, where)
      BY <1>9 DEF SettleCharge, ReleaseCharge
    <2>3. call' \in [Requests -> Entering \cup Inside \cup Answers]
      BY <2>2, ChargeParts DEF Goes, Answers
    <2>4. UNCHANGED <<mode, seen, due, billed, overdue, lapsed, flaws>>
      BY <1>9 DEF SettleCharge, ReleaseCharge
    <2>5. ChargeTypeOK'
      BY <2>1, <2>3, <2>4, PutIs DEF ChargeTypeOK, Entering
    <2>6. UnitsRight'
      BY <2>2, <2>4, GoesTo DEF UnitsRight, Entering
    <2> QED
      BY <2>5, <2>6
  <1>10. ASSUME NEW k \in ChargeKeys, RowAges(k)
         PROVE  ChargeTypeOK' /\ UnitsRight'
    <2>1. charge' \in [ChargeKeys -> ChargeRows]
      BY <1>10 DEF RowAges, ChargeTypeOK, ChargeRows
    <2>2. flaws' \in 0..MaxFlaws /\ overdue' \subseteq ChargeKeys
      BY <1>0, <1>10 DEF RowAges, ChargeTypeOK
    <2>3. UNCHANGED <<call, mode, seen, due, billed, lapsed>>
      BY <1>10 DEF RowAges
    <2> QED
      BY <2>1, <2>2, <2>3 DEF ChargeTypeOK, UnitsRight
  <1>11. CASE UNCHANGED chargeVars
    BY <1>11 DEF chargeVars, ChargeTypeOK, UnitsRight
  <1> QED
    BY <1>1, <1>2, <1>3, <1>4, <1>5, <1>6, <1>7, <1>8, <1>9, <1>10, <1>11 DEF ChargeNext, Proceeds

-----------------------------------------------------------------------------
(* Rows.                                                                   *)

\* A request that moves on without touching its row, and does not end well while
\* it holds it: its work, its charges, its failures.
LEMMA MovesOn ==
  ASSUME ChargeInv, NEW r \in Requests, NEW where \in Inside \cup {"done", "unsettled", "failed", "dead"},
         Goes(r, where), UNCHANGED <<charge, mode, seen, overdue, lapsed>>,
         call[r] \in {"look", "take"} \cup Inside,
         where \in Inside => call[r] \in Inside,
         where = "done" => ~Owns(r),
         where \in {"settle", "release"} => Owns(r)
  PROVE  RowsRight'
  <1>1. call'[r] = where /\ \A q \in Requests \ {r} : call'[q] = call[q]
    BY GoesTo DEF ChargeInv
  <1>2. call[r] # "done" /\ where \notin Entering \cup {"refused"}
    BY DEF Inside, Entering
  <1>3. HeldRows'
    BY <1>1 DEF ChargeInv, RowsRight, HeldRows, HoldsKey, Owns, Row
  <1>4. SettledRows'
    BY <1>1, <1>2 DEF ChargeInv, RowsRight, SettledRows, Owns
  <1>5. DoneRows'
    BY <1>1 DEF ChargeInv, RowsRight, DoneRows, Owns, Row
  <1>6. /\ \A q \in Requests : Begun(q) => Begun(q)'
        /\ \A q \in Requests : call'[q] = "take" => call[q] = "take"
    BY <1>1, <1>2 DEF Begun, Entering
  <1>7. TakersKnow' /\ BornBegun'
    BY <1>6, ChargeParts DEF ChargeInv, RowsRight, TakersKnow, Known, StillThere, Row, BornBegun, ChargeRows
  <1>8. ModesRight'
    BY <1>1, <1>2 DEF ChargeInv, RowsRight, ModesRight, Owns
  <1>9. FreeWasPaid'
    BY <1>1, <1>2 DEF ChargeInv, RowsRight, FreeWasPaid, Owns
  <1> QED
    BY <1>3, <1>4, <1>5, <1>6, <1>7, <1>8, <1>9 DEF RowsRight

\* A request enters its block unprotected or turns back, without a row of its own.
LEMMA GoesWithout ==
  ASSUME ChargeInv, NEW r \in Requests, NEW where \in {"look", "work", "refused"}, Goes(r, where),
         call[r] \in Entering, UNCHANGED <<charge, seen, overdue, lapsed>>,
         UNCHANGED mode \/ (Given(r, "unavailable") /\ where = "work"),
         where = "work" => Given(r, "unavailable")
  PROVE  RowsRight'
  <1>1. call'[r] = where /\ \A q \in Requests \ {r} : call'[q] = call[q]
    BY GoesTo DEF ChargeInv
  <1>2. /\ call[r] # "done" /\ where \notin {"take", "done", "settle", "release"}
        /\ mode[r] = "none"
    BY DEF Entering, ChargeInv, RowsRight, ModesRight
  <1>3. /\ mode'[r] \in {"none", "unavailable"}
        /\ where # "work" => mode'[r] = "none"
        /\ \A q \in Requests \ {r} : mode'[q] = mode[q]
    BY <1>2, GivenIs DEF ChargeInv
  <1>4. HeldRows'
    BY <1>1, <1>3 DEF ChargeInv, RowsRight, HeldRows, HoldsKey, Owns, Row
  <1>5. SettledRows'
    BY <1>1, <1>2, <1>3 DEF ChargeInv, RowsRight, SettledRows, Owns
  <1>6. DoneRows'
    BY <1>1, <1>2, <1>3 DEF ChargeInv, RowsRight, DoneRows, Owns, Row
  <1>7. \A q \in Requests : Begun(q) => Begun(q)'
    BY <1>1 DEF Begun
  <1>8. TakersKnow'
    BY <1>1, <1>2, <1>7, ChargeParts DEF ChargeInv, RowsRight, TakersKnow, Known, StillThere, Row
  <1>9. BornBegun'
    BY <1>7, ChargeParts DEF ChargeInv, RowsRight, BornBegun, ChargeRows
  <1>10. ModesRight'
    BY <1>1, <1>2, <1>3 DEF ChargeInv, RowsRight, ModesRight, Owns, Entering
  <1>11. FreeWasPaid'
    BY <1>1, <1>2, <1>3 DEF ChargeInv, RowsRight, FreeWasPaid, Owns
  <1> QED
    BY <1>4, <1>5, <1>6, <1>8, <1>9, <1>10, <1>11 DEF RowsRight

\* Two requests never hold one key, unless a holder outlived its reservation.
LEMMA OneHolder ==
  ASSUME ChargeInv, NEW r \in Requests, NEW q \in Requests, q # r, KeyOf[q] = KeyOf[r],
         KeyOf[r] \notin overdue, HoldsKey(r)
  PROVE  ~HoldsKey(q) /\ Row(r).st = "in_flight"
  BY ReservedRow DEF ChargeInv, RowsRight, HeldRows, Row

\* A request gets the row of its key: nobody that still counts on the row had it.
LEMMA GetsRow ==
  ASSUME ChargeInv, NEW r \in Requests, call[r] \in Entering,
         NEW new \in ChargeRows, Put(r, new), new = Reserved(r),
         Goes(r, "work"), Given(r, "reserved"), UNCHANGED <<seen, overdue>>,
         lapsed \subseteq lapsed',
         \A q \in Requests : KeyOf[q] = KeyOf[r] /\ KeyOf[r] \notin overdue => ~HoldsKey(q),
         \A q \in Requests : KeyOf[q] = KeyOf[r] /\ KeyOf[r] \notin overdue \cup lapsed'
                             => ~(Owns(q) /\ call[q] = "done")
  PROVE  RowsRight'
  <1>1. call'[r] = "work" /\ \A q \in Requests \ {r} : call'[q] = call[q]
    BY GoesTo DEF ChargeInv
  <1>2. mode'[r] = "reserved" /\ \A q \in Requests \ {r} : mode'[q] = mode[q]
    BY GivenIs DEF ChargeInv
  <1>3. charge'[KeyOf[r]] = new /\ \A k \in ChargeKeys \ {KeyOf[r]} : charge'[k] = charge[k]
    BY PutIs DEF ChargeInv
  <1>4. new.st = "in_flight" /\ new.born = r
    BY ReservedRow
  <1>5. \A q \in Requests : KeyOf[q] \in ChargeKeys
    BY ChargeParts DEF ChargeInv
  <1>6. call[r] # "done" /\ \A q \in Requests : Begun(q) => Begun(q)' /\ q # r
    BY <1>1 DEF Begun, Entering
  <1>7. HeldRows'
    BY <1>1, <1>2, <1>3, <1>5 DEF ChargeInv, RowsRight, HeldRows, HoldsKey, Owns, Row
  <1>8. SettledRows'
    BY <1>1, <1>2, <1>3, <1>4, <1>6 DEF ChargeInv, RowsRight, SettledRows, Owns
  <1>9. DoneRows'
    BY <1>1, <1>2, <1>3, <1>5 DEF ChargeInv, RowsRight, DoneRows, Owns, Row
  <1>10. TakersKnow'
    <2>1. ASSUME NEW q \in Requests, call'[q] = "take"
          PROVE  Begun(seen[q])' /\ Known(q)'
      <3>1. q # r /\ call[q] = "take" /\ Begun(seen[q]) /\ Known(q) /\ seen[q] \in Requests
        BY <1>1, <2>1, ChargeParts DEF ChargeInv, RowsRight, TakersKnow
      <3>2. CASE KeyOf[q] = KeyOf[r]
        BY <1>3, <1>4, <1>6, <3>1, <3>2 DEF Known, StillThere, Row
      <3>3. CASE KeyOf[q] # KeyOf[r]
        BY <1>3, <1>5, <1>6, <3>1, <3>3 DEF Known, StillThere, Row
      <3> QED
        BY <3>2, <3>3
    <2> QED
      BY <2>1 DEF TakersKnow
  <1>11. BornBegun'
    BY <1>1, <1>3, <1>4, <1>6, ChargeParts DEF ChargeInv, RowsRight, BornBegun, ChargeRows, Begun, Entering
  <1>12. ModesRight'
    BY <1>1, <1>2 DEF ChargeInv, RowsRight, ModesRight, Owns, Entering
  <1>13. FreeWasPaid'
    BY <1>1, <1>2, <1>6 DEF ChargeInv, RowsRight, FreeWasPaid, Owns
  <1> QED
    BY <1>7, <1>8, <1>9, <1>10, <1>11, <1>12, <1>13 DEF RowsRight

\* INSERT: there was no row, so nobody held it, and nobody had settled it.
LEMMA InsertKeeps ==
  ASSUME ChargeInv, NEW r \in Requests, ReserveInsert(r)
  PROVE  RowsRight'
  <1>1. CASE Row(r).st = "absent"
    <2>1. \A q \in Requests : KeyOf[q] = KeyOf[r] /\ KeyOf[r] \notin overdue => ~HoldsKey(q)
      BY <1>1, ReservedRow DEF ChargeInv, RowsRight, HeldRows, Row
    <2>2. \A q \in Requests : KeyOf[q] = KeyOf[r] /\ KeyOf[r] \notin overdue \cup lapsed
                              => ~(Owns(q) /\ call[q] = "done")
      BY <1>1 DEF ChargeInv, RowsRight, DoneRows, Row
    <2> QED
      BY <1>1, <2>1, <2>2, GetsRow, ReservedRow DEF ReserveInsert, Entering
  <1>2. CASE Row(r).st # "absent"
    BY <1>2, GoesWithout DEF ReserveInsert, Entering
  <1> QED
    BY <1>1, <1>2

\* The SELECT: a request that runs free has the request that paid; one that will
\* take over knows the row.
LEMMA LookKeeps ==
  ASSUME ChargeInv, NEW r \in Requests, ReserveLook(r)
  PROVE  RowsRight'
  <1>0. /\ call[r] = "look" /\ mode[r] = "none" /\ KeyOf[r] \in ChargeKeys /\ Row(r) \in ChargeRows
        /\ UNCHANGED <<charge, overdue, lapsed>> /\ call[r] \in Entering
    BY ChargeParts DEF ReserveLook, ChargeInv, RowsRight, ModesRight, Entering
  <1>1. CASE Goes(r, "work") /\ Given(r, "unavailable") /\ UNCHANGED seen
    BY <1>0, <1>1, GoesWithout
  <1>2. CASE Goes(r, "refused") /\ UNCHANGED <<mode, seen>>
    BY <1>0, <1>2, GoesWithout
  <1>3. CASE /\ Row(r).st = "settled" /\ Row(r).body = BodyOf[r] /\ ~Expired(Row(r))
             /\ Goes(r, "work") /\ Given(r, "settled") /\ UNCHANGED seen
    <2>1. call'[r] = "work" /\ \A q \in Requests \ {r} : call'[q] = call[q]
      BY <1>3, GoesTo DEF ChargeInv
    <2>2. mode'[r] = "settled" /\ \A q \in Requests \ {r} : mode'[q] = mode[q]
      BY <1>3, GivenIs DEF ChargeInv
    <2>3. HeldRows'
      BY <1>0, <2>1, <2>2 DEF ChargeInv, RowsRight, HeldRows, HoldsKey, Owns, Row
    <2>4. SettledRows'
      BY <1>0, <2>1, <2>2 DEF ChargeInv, RowsRight, SettledRows, Owns
    <2>5. DoneRows'
      BY <1>0, <2>1, <2>2 DEF ChargeInv, RowsRight, DoneRows, Owns, Row
    <2>6. \A q \in Requests : Begun(q) => Begun(q)'
      BY <2>1 DEF Begun, Entering
    <2>7. TakersKnow'
      BY <1>0, <1>3, <2>1, <2>6, ChargeParts DEF ChargeInv, RowsRight, TakersKnow, Known, StillThere, Row
    <2>8. BornBegun'
      BY <1>0, <2>6, ChargeParts DEF ChargeInv, RowsRight, BornBegun, ChargeRows
    <2>9. ModesRight'
      BY <2>1, <2>2 DEF ChargeInv, RowsRight, ModesRight, Owns, Entering
    <2>10. FreeWasPaid'
      <3>1. KeyOf[r] \notin overdue =>
              \E s \in Requests : /\ KeyOf[s] = KeyOf[r] /\ BodyOf[s] = BodyOf[r]
                                  /\ Owns(s) /\ call[s] = "done"
        BY <1>0, <1>3 DEF ChargeInv, RowsRight, SettledRows, Row
      <3>2. \A s \in Requests : call[s] = "done" => s # r /\ call'[s] = "done" /\ mode'[s] = mode[s]
        BY <1>0, <2>1, <2>2
      <3>3. ASSUME NEW q \in Requests, mode'[q] = "settled", KeyOf[q] \notin overdue
            PROVE  \E s \in Requests \ {q} : /\ KeyOf[s] = KeyOf[q] /\ BodyOf[s] = BodyOf[q]
                                             /\ Owns(s) /\ call[s] = "done"
        <4>1. CASE q = r
          BY <3>1, <3>2, <3>3, <4>1
        <4>2. CASE q # r
          BY <2>2, <3>3, <4>2 DEF ChargeInv, RowsRight, FreeWasPaid
        <4> QED
          BY <4>1, <4>2
      <3> QED
        BY <1>0, <3>2, <3>3 DEF FreeWasPaid, Owns
    <2> QED
      BY <2>3, <2>4, <2>5, <2>7, <2>8, <2>9, <2>10 DEF RowsRight
  <1>4. CASE /\ Row(r).st # "absent" /\ Row(r).body = BodyOf[r] /\ Expired(Row(r))
             /\ Goes(r, "take") /\ seen' = [seen EXCEPT ![r] = Row(r).born] /\ UNCHANGED mode
    <2>1. call'[r] = "take" /\ \A q \in Requests \ {r} : call'[q] = call[q]
      BY <1>4, GoesTo DEF ChargeInv
    <2>2. seen'[r] = Row(r).born /\ \A q \in Requests \ {r} : seen'[q] = seen[q]
      BY <1>4, ChargeParts DEF ChargeInv
    <2>3. HeldRows'
      BY <1>0, <1>4, <2>1 DEF ChargeInv, RowsRight, HeldRows, HoldsKey, Owns, Row, Inside
    <2>4. SettledRows'
      BY <1>0, <1>4, <2>1 DEF ChargeInv, RowsRight, SettledRows, Owns
    <2>5. DoneRows'
      BY <1>0, <1>4, <2>1 DEF ChargeInv, RowsRight, DoneRows, Owns, Row
    <2>6. \A q \in Requests : Begun(q) => Begun(q)'
      BY <1>0, <2>1 DEF Begun, Entering
    <2>7. Row(r).born \in Requests /\ Begun(Row(r).born)
      BY <1>0, <1>4 DEF ChargeInv, RowsRight, BornBegun, Row, ChargeRows
    <2>8. /\ Row(r).age # "young"
          /\ Row(r).st = "settled" => Row(r).age = "old"
      BY <1>0, <1>4 DEF Expired, ChargeRows
    <2>9. TakersKnow'
      <3>1. ASSUME NEW q \in Requests, call'[q] = "take"
            PROVE  Begun(seen[q])' /\ Known(q)'
        <4>1. CASE q = r
          BY <1>0, <1>4, <2>2, <2>6, <2>7, <2>8, <4>1 DEF Known, StillThere, Row
        <4>2. CASE q # r
          BY <1>0, <2>1, <2>2, <2>6, <3>1, <4>2, ChargeParts
             DEF ChargeInv, RowsRight, TakersKnow, Known, StillThere, Row
        <4> QED
          BY <4>1, <4>2
      <3> QED
        BY <3>1 DEF TakersKnow
    <2>10. BornBegun'
      BY <1>0, <2>6, ChargeParts DEF ChargeInv, RowsRight, BornBegun, ChargeRows
    <2>11. ModesRight'
      BY <1>0, <1>4, <2>1 DEF ChargeInv, RowsRight, ModesRight, Owns, Entering
    <2>12. FreeWasPaid'
      BY <1>0, <1>4, <2>1 DEF ChargeInv, RowsRight, FreeWasPaid, Owns
    <2> QED
      BY <2>3, <2>4, <2>5, <2>9, <2>10, <2>11, <2>12 DEF RowsRight
  <1> QED
    BY <1>1, <1>2, <1>3, <1>4 DEF ReserveLook

\* The UPDATE: the row is as it was read, so it is expired and its content is the
\* request's; whoever held it is overdue, whoever settled it did so a day ago.
LEMMA TakeOverKeeps ==
  ASSUME ChargeInv, NEW r \in Requests, ReserveTakeOver(r)
  PROVE  RowsRight'
  <1>0. /\ call[r] = "take" /\ UNCHANGED <<seen, overdue>> /\ Known(r) /\ call[r] \in Entering
        /\ Row(r) \in ChargeRows /\ KeyOf[r] \in ChargeKeys
    BY ChargeParts DEF ReserveTakeOver, ChargeInv, RowsRight, TakersKnow, Entering
  <1>1. CASE StillThere(r)
    <2>1. Row(r).body = BodyOf[r] /\ Row(r).age # "young"
      BY <1>0, <1>1 DEF Known
    <2> DEFINE new == [Reserved(r) EXCEPT !.body = Row(r).body]
    <2>2. new = Reserved(r) /\ new \in ChargeRows
      BY <2>1, ReservedRow DEF Reserved
    <2>3. Put(r, new) /\ Goes(r, "work") /\ Given(r, "reserved")
      BY <1>1 DEF ReserveTakeOver
    <2>4. \A q \in Requests : KeyOf[q] = KeyOf[r] /\ KeyOf[r] \notin overdue => ~HoldsKey(q)
      BY <2>1, ReservedRow DEF ChargeInv, RowsRight, HeldRows, Row
    <2>5. lapsed \subseteq lapsed'
      BY <1>1 DEF ReserveTakeOver
    <2>6. ASSUME NEW q \in Requests, KeyOf[q] = KeyOf[r], KeyOf[r] \notin overdue \cup lapsed',
                 Owns(q), call[q] = "done"
          PROVE  FALSE
      <3>1. Row(r).st = "settled"
        BY <2>5, <2>6 DEF ChargeInv, RowsRight, DoneRows, Row
      <3>2. Row(r).age = "old"
        BY <1>0, <1>1, <2>6, <3>1 DEF Known
      <3> QED
        BY <1>1, <2>6, <3>1, <3>2 DEF ReserveTakeOver
    <2> QED
      BY <1>0, <2>2, <2>3, <2>4, <2>5, <2>6, GetsRow
  <1>2. CASE ~StillThere(r)
    BY <1>0, <1>2, GoesWithout DEF ReserveTakeOver
  <1> QED
    BY <1>1, <1>2

\* The UPDATE to 'settled': the row is the holder's own, and nobody else holds it.
LEMMA SettleKeeps ==
  ASSUME ChargeInv, NEW r \in Requests, SettleCharge(r)
  PROVE  RowsRight'
  <1> DEFINE new == IF Row(r).st = "absent" THEN Row(r) ELSE [Row(r) EXCEPT !.st = "settled"]
  <1>0. /\ HoldsKey(r) /\ UNCHANGED <<mode, seen, overdue, lapsed>> /\ Goes(r, "done") /\ Put(r, new)
        /\ Row(r) \in ChargeRows /\ KeyOf[r] \in ChargeKeys
    BY ChargeParts DEF SettleCharge, ChargeInv, RowsRight, ModesRight, HoldsKey, Inside
  <1>1. call[r] = "settle" /\ call'[r] = "done" /\ \A q \in Requests \ {r} : call'[q] = call[q]
    BY <1>0, GoesTo DEF ChargeInv, SettleCharge
  <1>2. /\ new \in ChargeRows /\ new.born = Row(r).born /\ new.body = Row(r).body
        /\ new.age = Row(r).age
        /\ new.st = "absent" <=> Row(r).st = "absent"
    BY <1>0 DEF ChargeRows
  <1>3. charge'[KeyOf[r]] = new /\ \A k \in ChargeKeys \ {KeyOf[r]} : charge'[k] = charge[k]
    BY <1>0, <1>2, PutIs DEF ChargeInv
  <1>4. \A q \in Requests : KeyOf[q] \in ChargeKeys
    BY ChargeParts DEF ChargeInv
  <1>5. KeyOf[r] \notin overdue => Row(r) = Reserved(r)
    BY <1>0 DEF ChargeInv, RowsRight, HeldRows
  <1>6. KeyOf[r] \notin overdue => /\ new.st = "settled" /\ new.body = BodyOf[r] /\ new.born = r
    BY <1>0, <1>2, <1>5, ReservedRow DEF ChargeRows
  <1>7. HeldRows'
    <2>1. ASSUME NEW q \in Requests, HoldsKey(q)', KeyOf[q] \notin overdue
          PROVE  Row(q)' = Reserved(q)
      <3>1. q # r /\ HoldsKey(q)
        BY <1>0, <1>1, <2>1 DEF HoldsKey, Owns, Inside
      <3>2. KeyOf[q] # KeyOf[r]
        BY <1>0, <2>1, <3>1, OneHolder
      <3> QED
        BY <1>3, <1>4, <2>1, <3>1, <3>2 DEF ChargeInv, RowsRight, HeldRows, Row
    <2> QED
      BY <1>0, <2>1 DEF HeldRows
  <1>8. SettledRows'
    <2>1. ASSUME NEW k \in ChargeKeys \ overdue, charge'[k].st = "settled"
          PROVE  \E s \in Requests : /\ KeyOf[s] = k /\ BodyOf[s] = charge'[k].body
                                     /\ mode[s] = "reserved" /\ call'[s] = "done"
      <3>1. CASE k = KeyOf[r]
        BY <1>0, <1>1, <1>3, <1>6, <2>1, <3>1 DEF HoldsKey, Owns
      <3>2. CASE k # KeyOf[r]
        <4>1. PICK s \in Requests : /\ KeyOf[s] = k /\ BodyOf[s] = charge[k].body
                                    /\ Owns(s) /\ call[s] = "done"
          BY <1>3, <2>1, <3>2 DEF ChargeInv, RowsRight, SettledRows
        <4> QED
          BY <1>1, <1>3, <2>1, <3>2, <4>1 DEF Owns
      <3> QED
        BY <3>1, <3>2
    <2> QED
      BY <1>0, <2>1 DEF SettledRows, Owns
  <1>9. DoneRows'
    <2>1. ASSUME NEW q \in Requests, Owns(q)', call'[q] = "done", KeyOf[q] \notin overdue \cup lapsed
          PROVE  (Row(q).st = "settled" /\ Row(q).born = q)'
      <3>1. CASE q = r
        BY <1>3, <1>6, <2>1, <3>1 DEF Row
      <3>2. CASE q # r
        <4>1. Row(q).st = "settled" /\ Row(q).born = q
          BY <1>0, <1>1, <2>1, <3>2 DEF ChargeInv, RowsRight, DoneRows, Owns
        <4>2. KeyOf[q] # KeyOf[r]
          BY <1>5, <2>1, <4>1, ReservedRow DEF Row
        <4> QED
          BY <1>3, <1>4, <4>1, <4>2 DEF Row
      <3> QED
        BY <3>1, <3>2
    <2> QED
      BY <1>0, <2>1 DEF DoneRows
  <1>10. \A q \in Requests : Begun(q) => Begun(q)'
    BY <1>1 DEF Begun, Entering
  <1>11. TakersKnow'
    <2>1. ASSUME NEW q \in Requests, call'[q] = "take"
          PROVE  Begun(seen[q])' /\ Known(q)'
      <3>1. q # r /\ Begun(seen[q]) /\ Known(q) /\ seen[q] \in Requests
        BY <1>1, <2>1, ChargeParts DEF ChargeInv, RowsRight, TakersKnow
      <3>2. CASE KeyOf[q] = KeyOf[r]
        <4>1. Row(q) = Row(r)
          BY <3>2 DEF Row
        <4>2. StillThere(q) => Row(r).age # "young" /\ Row(r).body = BodyOf[q]
          BY <3>1, <4>1 DEF Known
        <4>3. StillThere(q) => KeyOf[r] \in overdue
          BY <1>5, <4>2, ReservedRow
        <4> QED
          BY <1>0, <1>2, <1>3, <1>10, <3>1, <3>2, <4>1, <4>2, <4>3 DEF Known, StillThere, Row
      <3>3. CASE KeyOf[q] # KeyOf[r]
        BY <1>0, <1>3, <1>4, <1>10, <3>1, <3>3 DEF Known, StillThere, Row
      <3> QED
        BY <3>2, <3>3
    <2> QED
      BY <1>0, <2>1 DEF TakersKnow
  <1>12. BornBegun'
    BY <1>0, <1>2, <1>3, <1>10, ChargeParts DEF ChargeInv, RowsRight, BornBegun, ChargeRows, Row
  <1>13. ModesRight'
    BY <1>0, <1>1 DEF ChargeInv, RowsRight, ModesRight, Owns, Entering
  <1>14. FreeWasPaid'
    BY <1>0, <1>1 DEF ChargeInv, RowsRight, FreeWasPaid, Owns
  <1> QED
    BY <1>7, <1>8, <1>9, <1>11, <1>12, <1>13, <1>14 DEF RowsRight

\* The DELETE takes away a reservation of the holder's own.
LEMMA ReleaseKeeps ==
  ASSUME ChargeInv, NEW r \in Requests, ReleaseCharge(r)
  PROVE  RowsRight'
  <1> DEFINE new == Released(Row(r))
  <1>0. /\ HoldsKey(r) /\ UNCHANGED <<mode, seen, overdue, lapsed>> /\ Goes(r, "failed") /\ Put(r, new)
        /\ Row(r) \in ChargeRows /\ KeyOf[r] \in ChargeKeys
    BY ChargeParts DEF ReleaseCharge, ChargeInv, RowsRight, ModesRight, HoldsKey, Inside
  <1>1. call[r] = "release" /\ call'[r] = "failed" /\ \A q \in Requests \ {r} : call'[q] = call[q]
    BY <1>0, GoesTo DEF ChargeInv, ReleaseCharge
  <1>2. new \in ChargeRows /\ (new.st = "absent" \/ new = Row(r))
    BY <1>0, NoReservationTyped DEF Released
  <1>3. charge'[KeyOf[r]] = new /\ \A k \in ChargeKeys \ {KeyOf[r]} : charge'[k] = charge[k]
    BY <1>0, <1>2, PutIs DEF ChargeInv
  <1>4. \A q \in Requests : KeyOf[q] \in ChargeKeys
    BY ChargeParts DEF ChargeInv
  <1>5. KeyOf[r] \notin overdue => Row(r) = Reserved(r)
    BY <1>0 DEF ChargeInv, RowsRight, HeldRows
  <1>6. HeldRows'
    <2>1. ASSUME NEW q \in Requests, HoldsKey(q)', KeyOf[q] \notin overdue
          PROVE  Row(q)' = Reserved(q)
      <3>1. q # r /\ HoldsKey(q)
        BY <1>0, <1>1, <2>1 DEF HoldsKey, Owns, Inside
      <3>2. KeyOf[q] # KeyOf[r]
        BY <1>0, <2>1, <3>1, OneHolder
      <3> QED
        BY <1>3, <1>4, <2>1, <3>1, <3>2 DEF ChargeInv, RowsRight, HeldRows, Row
    <2> QED
      BY <1>0, <2>1 DEF HeldRows
  <1>7. SettledRows'
    BY <1>0, <1>1, <1>2, <1>3 DEF ChargeInv, RowsRight, SettledRows, Owns, Row
  <1>8. DoneRows'
    <2>1. ASSUME NEW q \in Requests, Owns(q)', call'[q] = "done", KeyOf[q] \notin overdue \cup lapsed
          PROVE  (Row(q).st = "settled" /\ Row(q).born = q)'
      <3>1. q # r /\ Row(q).st = "settled" /\ Row(q).born = q
        BY <1>0, <1>1, <2>1 DEF ChargeInv, RowsRight, DoneRows, Owns
      <3>2. KeyOf[q] # KeyOf[r]
        BY <1>5, <2>1, <3>1, ReservedRow DEF Row
      <3> QED
        BY <1>3, <1>4, <3>1, <3>2 DEF Row
    <2> QED
      BY <1>0, <2>1 DEF DoneRows
  <1>9. \A q \in Requests : Begun(q) => Begun(q)'
    BY <1>1 DEF Begun, Entering
  <1>10. TakersKnow'
    <2>1. ASSUME NEW q \in Requests, call'[q] = "take"
          PROVE  Begun(seen[q])' /\ Known(q)'
      <3>1. q # r /\ Begun(seen[q]) /\ Known(q) /\ seen[q] \in Requests
        BY <1>1, <2>1, ChargeParts DEF ChargeInv, RowsRight, TakersKnow
      <3>2. CASE KeyOf[q] = KeyOf[r]
        BY <1>0, <1>2, <1>3, <1>9, <3>1, <3>2 DEF Known, StillThere, Row
      <3>3. CASE KeyOf[q] # KeyOf[r]
        BY <1>0, <1>3, <1>4, <1>9, <3>1, <3>3 DEF Known, StillThere, Row
      <3> QED
        BY <3>2, <3>3
    <2> QED
      BY <1>0, <2>1 DEF TakersKnow
  <1>11. BornBegun'
    BY <1>0, <1>2, <1>3, <1>9, ChargeParts DEF ChargeInv, RowsRight, BornBegun, ChargeRows, Row
  <1>12. ModesRight'
    BY <1>0, <1>1 DEF ChargeInv, RowsRight, ModesRight, Owns, Entering
  <1>13. FreeWasPaid'
    BY <1>0, <1>1 DEF ChargeInv, RowsRight, FreeWasPaid, Owns
  <1> QED
    BY <1>6, <1>7, <1>8, <1>10, <1>11, <1>12, <1>13 DEF RowsRight

\* A row that ages under its holder makes the key overdue.
LEMMA AgeKeeps ==
  ASSUME ChargeInv, NEW k \in ChargeKeys, RowAges(k)
  PROVE  RowsRight'
  <1>0. UNCHANGED <<call, mode, seen, lapsed>> /\ overdue \subseteq overdue'
    BY DEF RowAges
  <1> DEFINE new == [charge[k] EXCEPT !.age = IF charge[k].age = "young" THEN "late" ELSE "old"]
  <1>1. /\ charge[k] \in ChargeRows /\ charge' = [charge EXCEPT ![k] = new]
        /\ \A q \in Requests : KeyOf[q] \in ChargeKeys
    BY ChargeParts DEF RowAges, ChargeInv
  <1>2. /\ new.st = charge[k].st /\ new.born = charge[k].born /\ new.body = charge[k].body
        /\ new.age # "young"
        /\ charge[k].age # "young" => new.age = "old"
    BY <1>1 DEF ChargeRows
  <1>3. charge'[k] = new /\ \A j \in ChargeKeys \ {k} : charge'[j] = charge[j]
    BY <1>1, ChargeParts DEF ChargeInv
  <1>4. \A q \in Requests : KeyOf[q] = k /\ HoldsKey(q) => k \in overdue'
    BY DEF RowAges, HoldsKey, Owns
  <1>5. HeldRows'
    BY <1>0, <1>1, <1>3, <1>4 DEF ChargeInv, RowsRight, HeldRows, HoldsKey, Owns, Row
  <1>6. SettledRows'
    <2>1. ASSUME NEW j \in ChargeKeys \ overdue, charge'[j].st = "settled"
          PROVE  \E s \in Requests : /\ KeyOf[s] = j /\ BodyOf[s] = charge'[j].body
                                     /\ Owns(s) /\ call[s] = "done"
      <3>1. charge[j].st = "settled" /\ charge'[j].body = charge[j].body
        BY <1>2, <1>3, <2>1
      <3> QED
        BY <3>1 DEF ChargeInv, RowsRight, SettledRows
    <2> QED
      BY <1>0, <2>1 DEF SettledRows, Owns
  <1>7. DoneRows'
    BY <1>0, <1>1, <1>2, <1>3 DEF ChargeInv, RowsRight, DoneRows, Owns, Row
  <1>8. TakersKnow'
    <2>1. ASSUME NEW q \in Requests, call'[q] = "take"
          PROVE  Begun(seen[q])' /\ Known(q)'
      <3>1. Begun(seen[q]) /\ Known(q)
        BY <1>0, <2>1 DEF ChargeInv, RowsRight, TakersKnow
      <3>2. CASE KeyOf[q] = k
        BY <1>0, <1>2, <1>3, <3>1, <3>2 DEF Known, StillThere, Row, Begun
      <3>3. CASE KeyOf[q] # k
        BY <1>0, <1>1, <1>3, <3>1, <3>3 DEF Known, StillThere, Row, Begun
      <3> QED
        BY <3>2, <3>3
    <2> QED
      BY <1>0, <2>1 DEF TakersKnow
  <1>9. BornBegun'
    BY <1>0, <1>2, <1>3 DEF ChargeInv, RowsRight, BornBegun, Begun
  <1>10. ModesRight' /\ FreeWasPaid'
    BY <1>0 DEF ChargeInv, RowsRight, ModesRight, FreeWasPaid, Owns
  <1> QED
    BY <1>5, <1>6, <1>7, <1>8, <1>9, <1>10 DEF RowsRight

\* Every step keeps what is known of the rows.
LEMMA RowsKept ==
  ASSUME ChargeInv, [ChargeNext]_chargeVars
  PROVE  RowsRight'
  <1>1. ASSUME NEW r \in Requests, ReserveFails(r) PROVE RowsRight'
    <2>1. call[r] \in Entering /\ Goes(r, "work") /\ Given(r, "unavailable")
          /\ UNCHANGED <<charge, seen, overdue, lapsed>>
      BY <1>1 DEF ReserveFails, Entering
    <2> QED
      BY <2>1, GoesWithout
  <1>2. ASSUME NEW r \in Requests, Works(r) PROVE RowsRight'
    <2>1. call[r] = "work" /\ Goes(r, "bill") /\ UNCHANGED <<charge, mode, seen, overdue, lapsed>>
      BY <1>2 DEF Works
    <2> QED
      BY <2>1, MovesOn DEF Inside
  <1>3. ASSUME NEW r \in Requests, Bills(r) \/ LosesCharge(r) PROVE RowsRight'
    <2>1. UNCHANGED <<charge, call, mode, seen, overdue, lapsed>>
      BY <1>3, Zenon DEF Bills, LosesCharge
    <2> QED
      BY <2>1 DEF ChargeInv, RowsRight, HeldRows, SettledRows, DoneRows, TakersKnow, Known, StillThere,
         BornBegun, ModesRight, FreeWasPaid, HoldsKey, Owns, Begun, Row
  <1>4. ASSUME NEW r \in Requests, Finishes(r) \/ BlockRaises(r) PROVE RowsRight'
    <2>1. PICK where \in {"settle", "done", "release", "failed"} :
            /\ Goes(r, where)
            /\ where \in {"settle", "release"} => Owns(r)
            /\ where = "done" => ~Owns(r)
      BY <1>4 DEF Finishes, BlockRaises
    <2>2. call[r] \in {"work", "bill"} /\ UNCHANGED <<charge, mode, seen, overdue, lapsed>>
      BY <1>4 DEF Finishes, BlockRaises
    <2> QED
      BY <2>1, <2>2, MovesOn DEF Inside
  <1>5. ASSUME NEW r \in Requests, Dies(r) \/ SettleFails(r) \/ ReleaseFails(r) PROVE RowsRight'
    <2>1. PICK where \in {"dead", "unsettled", "failed"} : Goes(r, where)
      BY <1>5 DEF Dies, SettleFails, ReleaseFails
    <2>2. call[r] \in {"look", "take"} \cup Inside /\ UNCHANGED <<charge, mode, seen, overdue, lapsed>>
      BY <1>5 DEF Dies, SettleFails, ReleaseFails, Inside
    <2> QED
      BY <2>1, <2>2, MovesOn DEF Inside
  <1>6. CASE UNCHANGED chargeVars
    BY <1>6 DEF chargeVars, ChargeInv, RowsRight, HeldRows, SettledRows, DoneRows, TakersKnow, Known,
       StillThere, BornBegun, ModesRight, FreeWasPaid, HoldsKey, Owns, Begun, Row
  <1> QED
    BY <1>1, <1>2, <1>3, <1>4, <1>5, <1>6, InsertKeeps, LookKeeps, TakeOverKeeps, SettleKeeps,
       ReleaseKeeps, AgeKeeps DEF ChargeNext, Proceeds

-----------------------------------------------------------------------------
(* Theorems.                                                               *)

\* Every reachable state satisfies the inductive invariant.
THEOREM ChargeInvariance == ChargeSpec => []ChargeInv
  <1>1. ChargeInv /\ [ChargeNext]_chargeVars => ChargeInv'
    BY TypesKept, RowsKept DEF ChargeInv
  <1> QED
    BY <1>1, ChargeInitHolds, PTL DEF ChargeSpec

\* Rows and requests stay well formed, and no request is charged for more units
\* than its work produced.
THEOREM ChargeTypesHold == ChargeSpec => []ChargeTypeOK
  <1>1. ChargeInv => ChargeTypeOK
    BY DEF ChargeInv
  <1> QED
    BY <1>1, ChargeInvariance, PTL

\* Of the requests that share a key at most one keeps its charge: two that are both
\* charged under a reservation have one between them that raised, died or could not
\* settle, unless a holder outlived its reservation or a day has passed.
THEOREM ChargesOnce == ChargeSpec => []ChargedOnce
  <1>1. ChargeInv => ChargedOnce
    <2> SUFFICES ASSUME ChargeInv, NEW r \in Requests, NEW s \in Requests, r # s, KeyOf[r] = KeyOf[s],
                        KeyOf[r] \notin overdue \cup lapsed, Owns(r), Owns(s),
                        call[r] \notin {"unsettled", "failed", "dead"},
                        call[s] \notin {"unsettled", "failed", "dead"}
                 PROVE  FALSE
      BY DEF ChargedOnce
    <2>1. /\ HoldsKey(r) \/ call[r] = "done"
          /\ HoldsKey(s) \/ call[s] = "done"
      BY ChargeParts DEF ChargeInv, RowsRight, ModesRight, Owns, HoldsKey, Entering, Answers
    <2>2. call[r] = "done" => Row(r).st = "settled" /\ Row(r).born = r
      BY DEF ChargeInv, RowsRight, DoneRows
    <2>3. call[s] = "done" => Row(r).st = "settled" /\ Row(r).born = s
      BY DEF ChargeInv, RowsRight, DoneRows, Row
    <2>4. HoldsKey(r) => ~HoldsKey(s) /\ Row(r).st = "in_flight"
      BY OneHolder
    <2>5. HoldsKey(s) => Row(r).st = "in_flight"
      BY OneHolder DEF Row
    <2> QED
      BY <2>1, <2>2, <2>3, <2>4, <2>5
  <1> QED
    BY <1>1, ChargeInvariance, PTL

\* A request runs free only after one with the same content under the same key
\* whose block ended well, unless a holder outlived its reservation.
THEOREM FreeAfterPaid == ChargeSpec => []FreeWasPaid
  <1>1. ChargeInv => FreeWasPaid
    BY DEF ChargeInv, RowsRight
  <1> QED
    BY <1>1, ChargeInvariance, PTL

-----------------------------------------------------------------------------
(* The two services beside each other (MCServices).                        *)

\* Only the service that was chosen takes steps.
LEMMA ServicesApart ==
  ASSUME [ServicesNext]_<<service, outboxVars, chargeVars>>
  PROVE  [OutboxNext]_outboxVars /\ [ChargeNext]_chargeVars
  BY DEF ServicesNext

\* No statement of either service writes a value that its row does not take, and no
\* request is charged for more units than its work produced.
THEOREM ServicesTypesHold == ServicesSpec => []BothTypesOK
  <1>1. ServicesInit => OutboxInit /\ ChargeInit
    BY DEF ServicesInit
  <1>2. [ServicesNext]_<<service, outboxVars, chargeVars>>
        => [OutboxNext]_outboxVars /\ [ChargeNext]_chargeVars
    BY ServicesApart
  <1>3. ServicesSpec => OutboxSpec /\ ChargeSpec
    BY <1>1, <1>2, PTL DEF ServicesSpec, OutboxSpec, ChargeSpec
  <1>4. OutboxTypeOK /\ ChargeTypeOK => BothTypesOK
    BY DEF BothTypesOK
  <1> QED
    BY <1>3, <1>4, OutboxTypesHold, ChargeTypesHold, PTL

=============================================================================
