----------------------------- MODULE ParcelBatch -----------------------------
(***************************************************************************)
(* Batch jobs over many parcels: app/foundation/parcel/batch (BatchService *)
(* submit, run and cancel, JobRecord, Aggregator) on DbJobStore, behind    *)
(* app/routers/parcel_batch, for one idempotency key.                      *)
(*                                                                         *)
(* A submission finds the job of its key or makes one, and starts a run of *)
(* it.  Runs and cancellations read a whole job, change their copy and     *)
(* save it whole, and nothing is locked in between.  A get is a SELECT of  *)
(* the job and one of its results; a save is a SELECT of the job, an       *)
(* UPDATE of the columns that differ from what that SELECT saw, a DELETE   *)
(* of the results, one of the aggregate, and the INSERTs and the commit.   *)
(* At READ COMMITTED each of these sees what is committed when it begins.  *)
(* Every chunk of parcels counts as one, with the worst result of its      *)
(* parcels.                                                                *)
(***************************************************************************)
EXTENDS Naturals, FiniteSets

CONSTANTS
    Submits,         \* calls of submit; the job a submission makes has its name
    Cancels,         \* calls of cancel
    NoJob,
    Chunks,          \* how many chunks run_chunks cuts the targets into
    BatchFlaws,      \* what may happen: "raise", "save", "die", "overlap"
    MaxBatchFlaws,   \* bound: how many of them a behaviour has
    MaxAtOnce        \* bound: how many runs and cancellations are under way at once

ASSUME BatchAssumption ==
    /\ NoJob \notin Submits
    /\ Submits \cap Cancels = {}
    /\ Chunks \in Nat \ {0}
    /\ MaxBatchFlaws \in Nat
    /\ MaxAtOnce \in Nat

Savers == Submits \cup Cancels

VARIABLES
    head,         \* the row of each job
    jobRows,      \* the results and the aggregate row each saver's last save left of it
    key,          \* the job the idempotency key is bound to
    step,         \* where a submission with its run, or a cancellation, is
    mine,         \* the job it has to do with
    copy,         \* the record it has in its hands
    tx,           \* its get or save under way
    at,           \* the chunk a run has come to, 0 before it has started
    retried,      \* history: a submission found its key's job ended badly
    disturbed,    \* history: jobs with two runs at once, a cancellation, or a run cut off
    overlapped,   \* history: jobs with two runs at once or two cancellations
    batchFlaws    \* flaws so far

history == <<retried, disturbed, overlapped>>
batchVars ==
    <<head, jobRows, key, step, mine, copy, tx, at, retried, disturbed, overlapped, batchFlaws>>

-----------------------------------------------------------------------------
(* Types *)

Parts == 1..Chunks
JobStates == {"none", "queued", "running", "partial", "complete", "cancelled", "failed"}
Terminal == {"partial", "complete", "cancelled", "failed"}
Results == {"none", "other", "confirmed"}
Lists == [Parts -> Results]

\* The columns of a job: its state, its region (before normalisation, after it, without
\* and with targets), whether its completeness is COMPLETE, and its counts (how many
\* results are confirmed, and how many are not).
Headers == [st : JobStates, region : {"raw", "empty", "targets"}, full : BOOLEAN,
            counts : Nat \X Nat]

\* A record: the columns, and the results per chunk after dedupe_item_rows.
Records == [head : Headers, items : Lists]

\* A get past its first SELECT ("read"); a save past its SELECT ("seen"), past its UPDATE
\* and in the DELETE of the results ("clear"), in the DELETE of the aggregate ("drop").
Accesses == [at : {"no", "read", "seen", "clear", "drop"}, seen : Headers,
          clears : SUBSET Savers, drops : SUBSET Savers]

NoResults == [c \in Parts |-> "none"]
NoHead == [st |-> "none", region |-> "raw", full |-> FALSE, counts |-> <<0, 0>>]
NoRecord == [head |-> NoHead, items |-> NoResults]
NoAccess == [at |-> "no", seen |-> NoHead, clears |-> {}, drops |-> {}]

Running == {"load", "normalize", "empty", "start", "resolve", "chunk", "final", "aggregate",
            "caught", "fail"}

BatchTypeOK ==
    /\ head \in [Submits -> Headers]
    /\ jobRows \in [Submits -> [Savers -> [items : Lists, agg : BOOLEAN]]]
    /\ key \in Submits \cup {NoJob}
    /\ step \in [Savers -> {"find", "look", "unbind", "save", "bind", "get", "over", "dead",
                            "new", "ask", "flag"} \cup Running]
    /\ mine \in [Savers -> Submits \cup {NoJob}]
    /\ copy \in [Savers -> Records]
    /\ tx \in [Savers -> Accesses]
    /\ at \in [Submits -> {0} \cup Parts]
    /\ retried \in BOOLEAN
    /\ overlapped \subseteq disturbed
    /\ disturbed \subseteq Submits
    /\ batchFlaws \in 0..MaxBatchFlaws

BatchInit ==
    /\ head = [j \in Submits |-> NoHead]
    /\ jobRows = [j \in Submits |-> [v \in Savers |-> [items |-> NoResults, agg |-> FALSE]]]
    /\ key = NoJob
    /\ step = [v \in Savers |-> IF v \in Submits THEN "find" ELSE "new"]
    /\ mine = [v \in Savers |-> NoJob]
    /\ copy = [v \in Savers |-> NoRecord]
    /\ tx = [v \in Savers |-> NoAccess]
    /\ at = [s \in Submits |-> 0]
    /\ retried = FALSE
    /\ disturbed = {}
    /\ overlapped = {}
    /\ batchFlaws = 0

BatchFlaw(kind) ==
    /\ kind \in BatchFlaws
    /\ batchFlaws < MaxBatchFlaws
    /\ batchFlaws' = batchFlaws + 1

\* Two runs, or two cancellations, of a job.
Overlap(j) ==
    /\ BatchFlaw("overlap")
    /\ disturbed' = disturbed \cup {j}
    /\ overlapped' = overlapped \cup {j}

To(v, where) == step' = [step EXCEPT ![v] = where]
Holds(v, rec) == copy' = [copy EXCEPT ![v] = rec]
InRun(s) == step[s] \in Running
Room == Cardinality({v \in Savers : step[v] \in Running \cup {"ask", "flag"}}) < MaxAtOnce
Idle(v) == tx[v].at = "no"

-----------------------------------------------------------------------------
(* DbJobStore *)

\* What the tables hold of a job: per chunk the best result of any row.
Stored(j) ==
    [c \in Parts |-> IF \E v \in Savers : jobRows[j][v].items[c] = "confirmed" THEN "confirmed"
                     ELSE IF \E v \in Savers : jobRows[j][v].items[c] = "other" THEN "other"
                     ELSE "none"]

\* get asks for one aggregate or none, and raises when there are two.
Readable(j) == \A v, w \in Savers : jobRows[j][v].agg /\ jobRows[j][w].agg => v = w

Number(items, r) == Cardinality({c \in Parts : items[c] = r})
Counts(items) == <<Number(items, "confirmed"), Number(items, "other")>>

\* get: the SELECT of the job ...
Selects(v, j) == tx' = [tx EXCEPT ![v] = [NoAccess EXCEPT !.at = "read", !.seen = head[j]]]
Has(v) == tx[v].at = "read" /\ Readable(mine[v])
Done(v) == tx' = [tx EXCEPT ![v] = NoAccess]

\* ... and those of its results and aggregate; the counts are made again from them.
Got(v) == [head |-> [tx[v].seen EXCEPT !.counts = Counts(Stored(mine[v]))],
           items |-> Stored(mine[v])]

\* save: the SELECT of the job.
SaveStarts(v, rec) ==
    /\ Idle(v)
    /\ Holds(v, rec)
    /\ tx' = [tx EXCEPT ![v] = [NoAccess EXCEPT !.at = "seen", !.seen = head[mine[v]]]]

\* The columns that differ from what it saw are updated, which takes the lock of the row
\* until the commit.
Updates(v) == copy[v].head # tx[v].seen

\* The flush, and the DELETE of the results begins.
SaveUpdates(v) ==
    /\ tx[v].at = "seen"
    /\ Updates(v) => \A w \in Savers : mine[w] = mine[v] /\ tx[w].at \in {"clear", "drop"}
                                         => ~Updates(w)
    /\ tx' = [tx EXCEPT ![v].at = "clear",
                        ![v].clears = {w \in Savers : jobRows[mine[v]][w].items # NoResults}]
    /\ UNCHANGED <<head, jobRows, key, step, mine, copy, at, history, batchFlaws>>

\* It has waited for who deletes the same rows, and the DELETE of the aggregate begins.
SaveDeletes(v) ==
    /\ tx[v].at = "clear"
    /\ \A w \in Savers : tx[w].at = "drop" => tx[w].clears \cap tx[v].clears = {}
    /\ tx' = [tx EXCEPT ![v].at = "drop",
                        ![v].drops = {w \in Savers : jobRows[mine[v]][w].agg}]
    /\ UNCHANGED <<head, jobRows, key, step, mine, copy, at, history, batchFlaws>>

\* A column after an UPDATE of those that differ from what was seen (mutant: it is taken
\* for one that changed meanwhile).
ColumnKept(new, seen, now) == IF seen # now THEN now ELSE new
Column(new, seen, now) == IF new # seen THEN new ELSE now

Updated(new, seen, now) ==
    [st |-> Column(new.st, seen.st, now.st),
     region |-> Column(new.region, seen.region, now.region),
     full |-> Column(new.full, seen.full, now.full),
     counts |-> Column(new.counts, seen.counts, now.counts)]

\* Where a run or a cancellation goes from a save, and to which chunk.
AfterSave(v) ==
    CASE step[v] = "normalize" -> IF copy[v].head.region = "targets" THEN "start" ELSE "empty"
      [] step[v] = "start" -> "resolve"
      [] step[v] = "chunk" -> IF at[v] = Chunks THEN "final" ELSE "resolve"
      [] OTHER -> "over"

NextPart(s) ==
    CASE step[s] = "start" -> 1
      [] step[s] = "chunk" -> IF at[s] = Chunks THEN Chunks ELSE at[s] + 1
      [] OTHER -> 0

\* The INSERTs and the commit.  Who has begun a DELETE of the same rows does not find
\* them, and does not see the new ones.
SaveCommits(v) ==
    /\ tx[v].at = "drop"
    /\ head' = [head EXCEPT ![mine[v]] = Updated(copy[v].head, tx[v].seen, @)]
    /\ jobRows' = [jobRows EXCEPT ![mine[v]] = [w \in Savers |->
                    IF w = v THEN [items |-> copy[v].items, agg |-> TRUE]
                    ELSE [items |-> IF w \in tx[v].clears THEN NoResults ELSE @[w].items,
                          agg |-> @[w].agg /\ w \notin tx[v].drops]]]
    /\ tx' = [w \in Savers |->
                    IF w = v THEN NoAccess
                    ELSE IF mine[w] # mine[v] THEN tx[w]
                    ELSE [tx[w] EXCEPT !.clears = @ \ (tx[v].clears \cup {v}),
                                       !.drops = @ \ (tx[v].drops \cup {v})]]
    /\ To(v, AfterSave(v))
    /\ Holds(v, IF step[v] = "normalize" THEN copy[v] ELSE NoRecord)
    /\ at' = [s \in Submits |-> IF s = v THEN NextPart(s) ELSE at[s]]
    /\ UNCHANGED <<key, mine, history, batchFlaws>>

-----------------------------------------------------------------------------
(* submit *)

\* A job that must not be given out again.
BadEnd(rec) ==
    /\ rec.head.st \in Terminal
    /\ rec.head.st = "failed" \/ \A c \in Parts : rec.items[c] # "confirmed"

\* find_by_idempotency: the job of the key ...
SubmitFinds(s) ==
    /\ step[s] = "find"
    /\ mine' = [mine EXCEPT ![s] = key]
    /\ To(s, IF key = NoJob THEN "save" ELSE "look")
    /\ UNCHANGED <<head, jobRows, key, copy, tx, at, history, batchFlaws>>

\* ... and then its record; first the job itself.
SubmitLooks(s) ==
    /\ step[s] = "look"
    /\ Idle(s)
    /\ Selects(s, mine[s])
    /\ UNCHANGED <<head, jobRows, key, step, mine, copy, at, history, batchFlaws>>

\* The router starts a run of what is returned, unless that is finished; a job that
\* cannot be read is an error.
SubmitDecides(s) ==
    /\ step[s] = "look"
    /\ tx[s].at = "read"
    /\ \/ /\ ~Readable(mine[s])
          /\ To(s, "over")
          /\ mine' = [mine EXCEPT ![s] = NoJob]
          /\ UNCHANGED retried
       \/ /\ Has(s) /\ BadEnd(Got(s))
          /\ To(s, "unbind")
          /\ mine' = [mine EXCEPT ![s] = NoJob]
          /\ retried' = TRUE
       \/ /\ Has(s) /\ ~BadEnd(Got(s))
          /\ To(s, IF tx[s].seen.st \in {"complete", "partial"} THEN "over" ELSE "get")
          /\ UNCHANGED <<mine, retried>>
    /\ Done(s)
    /\ UNCHANGED <<head, jobRows, key, copy, at, disturbed, overlapped, batchFlaws>>

\* unbind_idempotency: whichever job has the key by now.
SubmitUnbinds(s) ==
    /\ step[s] = "unbind"
    /\ key' = NoJob
    /\ To(s, "save")
    /\ UNCHANGED <<head, jobRows, mine, copy, tx, at, history, batchFlaws>>

\* The save of a new job, which nobody else can see before it is committed.
SubmitSaves(s) ==
    /\ step[s] = "save"
    /\ head' = [head EXCEPT ![s] = [NoHead EXCEPT !.st = "queued"]]
    /\ jobRows' = [jobRows EXCEPT ![s][s].agg = TRUE]
    /\ To(s, "bind")
    /\ UNCHANGED <<key, mine, copy, tx, at, history, batchFlaws>>

\* The unique column idempotency_key (mutant: the key moves to the later job).
BindableAlways == TRUE
Bindable == key = NoJob

\* bind_idempotency: who comes second gets an IntegrityError, and no job.
SubmitBinds(s) ==
    /\ step[s] = "bind"
    /\ IF Bindable
       THEN key' = s /\ mine' = [mine EXCEPT ![s] = s] /\ To(s, "get")
       ELSE To(s, "over") /\ UNCHANGED <<key, mine>>
    /\ UNCHANGED <<head, jobRows, copy, tx, at, history, batchFlaws>>

-----------------------------------------------------------------------------
(* run *)

\* The get of the job begins.
RunBegins(s) ==
    /\ step[s] = "get"
    /\ Room
    /\ Selects(s, mine[s])
    /\ To(s, "load")
    /\ IF \E t \in Submits : InRun(t) /\ mine[t] = mine[s]
       THEN Overlap(mine[s]) ELSE UNCHANGED <<disturbed, overlapped, batchFlaws>>
    /\ UNCHANGED <<head, jobRows, key, mine, copy, at, retried>>

RunGets(s) ==
    /\ step[s] = "load"
    /\ Has(s)
    /\ Holds(s, Got(s))
    /\ To(s, CASE tx[s].seen.region = "raw" -> "normalize"
               [] tx[s].seen.region = "targets" -> "start"
               [] tx[s].seen.region = "empty" -> "empty")
    /\ Done(s)
    /\ UNCHANGED <<head, jobRows, key, mine, at, history, batchFlaws>>

\* region_normalizer, and the save of what it found.
RunNormalizes(s) ==
    /\ step[s] = "normalize"
    /\ \E region \in {"empty", "targets"} :
          SaveStarts(s, [copy[s] EXCEPT !.head.region = region])
    /\ UNCHANGED <<head, jobRows, key, step, mine, at, history, batchFlaws>>

\* No targets: the job ends partial.
RunEndsEmpty(s) ==
    /\ step[s] = "empty"
    /\ SaveStarts(s, [copy[s] EXCEPT !.head.st = "partial", !.head.full = FALSE])
    /\ UNCHANGED <<head, jobRows, key, step, mine, at, history, batchFlaws>>

\* RUNNING, and the results of an earlier run are dropped.
Started == [head |-> [st |-> "running", region |-> "targets", full |-> FALSE, counts |-> <<0, 0>>],
            items |-> NoResults]

RunStarts(s) ==
    /\ step[s] = "start"
    /\ SaveStarts(s, Started)
    /\ UNCHANGED <<head, jobRows, key, step, mine, at, history, batchFlaws>>

\* A chunk is resolved and on_chunk gets the job, or the final get begins.  is_cancelled
\* asks a record loaded before; a record from the database is never cancelled.
RunReads(s) ==
    /\ step[s] \in {"resolve", "final", "caught"}
    /\ Idle(s)
    /\ Selects(s, mine[s])
    /\ UNCHANGED <<head, jobRows, key, step, mine, copy, at, history, batchFlaws>>

ChunkGets(s) ==
    /\ step[s] = "resolve"
    /\ Has(s)
    /\ Holds(s, Got(s))
    /\ Done(s)
    /\ To(s, "chunk")
    /\ UNCHANGED <<head, jobRows, key, mine, at, history, batchFlaws>>

Better(a, b) == IF "confirmed" \in {a, b} THEN "confirmed" ELSE IF a = "none" THEN b ELSE a

Have(items) == Cardinality({c \in Parts : items[c] # "none"})

\* pending_pnus is empty, for the list with a result more (mutant: parcels without
\* a result are not looked for).
NonePendingSeen(items, c, r) ==
    r = "confirmed" /\ \A d \in Parts : items[d] # "other"
NonePending(items, c, r) ==
    r = "confirmed" /\ \A d \in Parts : items[d] = "confirmed" \/ (d = c /\ items[d] = "none")

\* mark_state_from_progress after items.extend: the list is counted with its
\* repetitions, which only the next read folds.
Progress(rec, c, r) ==
    IF rec.head.region # "targets" THEN "partial"
    ELSE IF Have(rec.items) + 1 < Chunks THEN "running"
    ELSE IF NonePending(rec.items, c, r) THEN "complete" ELSE "partial"

\* The record with a result more.
Extended(rec, c, r) ==
    LET st == Progress(rec, c, r)
        counts == <<Number(rec.items, "confirmed") + (IF r = "confirmed" THEN 1 ELSE 0),
                    Number(rec.items, "other") + (IF r = "other" THEN 1 ELSE 0)>>
    IN  [head |-> [st |-> st, region |-> rec.head.region, full |-> st = "complete",
                   counts |-> counts],
         items |-> [rec.items EXCEPT ![c] = Better(@, r)]]

ChunkSaves(s) ==
    /\ step[s] = "chunk"
    /\ \E r \in {"other", "confirmed"} : SaveStarts(s, Extended(copy[s], at[s], r))
    /\ UNCHANGED <<head, jobRows, key, step, mine, at, history, batchFlaws>>

FinalGets(s) ==
    /\ step[s] = "final"
    /\ Has(s)
    /\ Holds(s, Got(s))
    /\ Done(s)
    /\ To(s, "aggregate")
    /\ UNCHANGED <<head, jobRows, key, mine, at, history, batchFlaws>>

AllConfirmed(items) == \A c \in Parts : items[c] = "confirmed"

\* The aggregate, which takes external calls, then the last state and save.
FinalState(rec) ==
    IF rec.head.region # "targets" THEN "partial"
    ELSE IF Have(rec.items) < Chunks THEN "running"
    ELSE IF AllConfirmed(rec.items) THEN "complete" ELSE "partial"

FinalSaves(s) ==
    /\ step[s] = "aggregate"
    /\ LET st == FinalState(copy[s])
       IN  SaveStarts(s, [copy[s] EXCEPT !.head.st = st, !.head.full = st = "complete"])
    /\ UNCHANGED <<head, jobRows, key, step, mine, at, history, batchFlaws>>

\* Anything in run raises, also a get that finds two aggregates; what a save has done is
\* rolled back.
RunRaises(s) ==
    /\ step[s] \in Running \ {"load", "caught", "fail"}
    /\ \/ BatchFlaw("raise")
       \/ tx[s].at = "read" /\ ~Readable(mine[s]) /\ UNCHANGED batchFlaws
    /\ Done(s)
    /\ To(s, "caught")
    /\ UNCHANGED <<head, jobRows, key, mine, copy, at, history>>

Failure(rec) == [rec EXCEPT !.head.st = "failed"]

\* The record run began with, as far as it has changed it.
Initial(s) == IF at[s] = 0 THEN copy[s] ELSE Started

\* The handler gets the job again, or takes the record run began with ...
RunCatches(s) ==
    /\ step[s] = "caught"
    /\ tx[s].at = "read"
    /\ \/ Has(s) /\ Holds(s, Failure(Got(s)))
       \/ /\ ~Readable(mine[s]) \/ "raise" \in BatchFlaws
          /\ Holds(s, Failure(Initial(s)))
    /\ Done(s)
    /\ To(s, "fail")
    /\ UNCHANGED <<head, jobRows, key, mine, at, history, batchFlaws>>

\* ... and saves it FAILED.
RunFails(s) ==
    /\ step[s] = "fail"
    /\ SaveStarts(s, copy[s])
    /\ UNCHANGED <<head, jobRows, key, step, mine, at, history, batchFlaws>>

\* The first get raises, outside the handler; the handler's save fails; or the process
\* dies.
RunIsCutOff(s) ==
    /\ \/ step[s] = "load" /\ ~Readable(mine[s]) /\ UNCHANGED batchFlaws
       \/ step[s] = "load" /\ BatchFlaw("raise")
       \/ step[s] = "fail" /\ "save" \in BatchFlaws /\ UNCHANGED batchFlaws
       \/ step[s] \in {"get"} \cup Running /\ BatchFlaw("die")
    /\ To(s, "dead")
    /\ disturbed' = disturbed \cup {mine[s]}
    /\ Holds(s, NoRecord)
    /\ at' = [at EXCEPT ![s] = 0]
    /\ Done(s)
    /\ UNCHANGED <<head, jobRows, key, mine, retried, overlapped>>

-----------------------------------------------------------------------------
(* cancel *)

\* A job has been given out once it has the key.
GivenOut(j) == mine[j] = j

CancelAsks(c, j) ==
    /\ step[c] = "new"
    /\ Room
    /\ GivenOut(j)
    /\ mine' = [mine EXCEPT ![c] = j]
    /\ Selects(c, j)
    /\ To(c, "ask")
    /\ IF \E d \in Cancels : mine[d] = j
       THEN Overlap(j)
       ELSE disturbed' = disturbed \cup {j} /\ UNCHANGED <<overlapped, batchFlaws>>
    /\ UNCHANGED <<head, jobRows, key, copy, at, retried>>

\* The flag "cancelled" has no column: the state is all that is saved.
CancelGets(c) ==
    /\ step[c] = "ask"
    /\ IF Has(c) THEN Holds(c, [Got(c) EXCEPT !.head.st = "cancelled"]) /\ To(c, "flag")
       ELSE To(c, "over") /\ UNCHANGED copy
    /\ Done(c)
    /\ UNCHANGED <<head, jobRows, key, mine, at, history, batchFlaws>>

CancelSaves(c) ==
    /\ step[c] = "flag"
    /\ SaveStarts(c, copy[c])
    /\ UNCHANGED <<head, jobRows, key, step, mine, at, history, batchFlaws>>

-----------------------------------------------------------------------------

BatchNext ==
    \/ \E s \in Submits :
          \/ SubmitFinds(s) \/ SubmitLooks(s) \/ SubmitDecides(s) \/ SubmitUnbinds(s)
          \/ SubmitSaves(s) \/ SubmitBinds(s)
          \/ RunBegins(s) \/ RunGets(s) \/ RunNormalizes(s) \/ RunEndsEmpty(s) \/ RunStarts(s)
          \/ RunReads(s) \/ ChunkGets(s) \/ ChunkSaves(s) \/ FinalGets(s) \/ FinalSaves(s)
          \/ RunRaises(s) \/ RunCatches(s) \/ RunFails(s) \/ RunIsCutOff(s)
    \/ \E c \in Cancels : CancelGets(c) \/ CancelSaves(c) \/ \E j \in Submits : CancelAsks(c, j)
    \/ \E v \in Savers : SaveUpdates(v) \/ SaveDeletes(v) \/ SaveCommits(v)

BatchSpec == BatchInit /\ [][BatchNext]_batchVars

-----------------------------------------------------------------------------
(* Properties *)

\* Submissions of one key that are answered get one job, unless one of them found
\* it ended badly (INV-M2).
SameJob ==
    ~retried => \A s, t \in Submits :
        NoJob \notin {mine[s], mine[t]} /\ "look" \notin {step[s], step[t]} => mine[s] = mine[t]

\* No run of a job is to be made or under way.
Quiet(j) == \A s \in Submits : mine[s] = j => step[s] \in {"look", "over"}

\* A job said to be complete has a confirmed result for every chunk, also when a
\* cancellation and a run save at once, as long as no two runs or cancellations do; and
\* a run that was not cut off, with no other run of its job at once and no cancellation,
\* leaves it in a terminal state that can be read, also when it raised, so that its page
\* stops asking.
StateIsTrue ==
    /\ \A j \in Submits \ overlapped : head[j].st = "complete" => AllConfirmed(Stored(j))
    /\ \A j \in Submits \ disturbed :
          GivenOut(j) /\ Quiet(j) => head[j].st \in Terminal /\ Readable(j)

\* A region has one job, what is said of it is true, and it is well formed: all of the above.
JobsAreTrue == BatchTypeOK /\ SameJob /\ StateIsTrue
==============================================================================
