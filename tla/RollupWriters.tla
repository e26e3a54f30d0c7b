--------------------------- MODULE RollupWriters ---------------------------
(***************************************************************************)
(* Several processes writing metrics at once: the live indexer, and        *)
(* `replay` commands run beside it (or a second indexer).  Each job is one *)
(* READ COMMITTED transaction of PostgreSQL: a query sees the rows         *)
(* committed when it starts and the transaction's own; an upsert takes the *)
(* row's lock, waits for a transaction that holds it, and then writes the  *)
(* values it was given over whatever that one committed; locks last to the *)
(* end of the transaction and then pass to one that waits for them (tuple  *)
(* locks queue); a cycle of waits aborts one of its members.               *)
(***************************************************************************)
EXTENDS Chain, Sequences, FiniteSets

CONSTANTS
  net,       \* the network all writers are configured for
  Writers,
  Programs,  \* what the writers may have to do: each a p with p[w] the jobs
             \* of w in order, see Job
  Indexed,   \* checkpoints already indexed when the behaviour starts
  PoolOf,    \* PoolOf[e]: the pool of fill e
  BmsOf,     \* BmsOf[e]: the BalanceManagers credited with fill e
  Free,      \* the holder of a lock nobody holds
  MaxFaults  \* bound: statements that fail in a behaviour

\* `run` ingests a checkpoint, `replay` recomputes a range of them.
Job == [kind : {"ingest", "replay"}, from : Seqs, to : Seqs]

ASSUME WritersAssumption ==
  /\ net \in Networks /\ Indexed \subseteq Seqs /\ Free \notin Writers
  /\ Programs \subseteq [Writers -> Seq(Job)]
  /\ \A p \in Programs, w \in Writers : \A i \in DOMAIN p[w] :
       p[w][i].kind = "ingest" => p[w][i].from = p[w][i].to

\* The run loop starts at most one past the progress row and goes on one
\* checkpoint at a time: before each is one indexed at the start or by itself.
ASSUME InOrderAssumption ==
  \A p \in Programs, w \in Writers : \A i \in DOMAIN p[w] :
    (p[w][i].kind = "ingest" /\ p[w][i].from > 0) =>
      \/ p[w][i].from - 1 \in Indexed
      \/ \E k \in 1..(i - 1) : /\ p[w][k].kind = "ingest"
                              /\ p[w][k].from = p[w][i].from - 1

(* Lockable rows: a checkpoint's fact rows (one statement writes them all, *)
(* in the checkpoint's order), the metric rows, the progress row.          *)
FactRows == {<<"fact", n>> : n \in Seqs}
StateRow == <<"state">>
RowsOf(t, e) ==
  IF t = "pool" THEN {<<t, PoolOf[e], Bucket(e)>>}
                ELSE {<<t, m, PoolOf[e], Bucket(e)>> : m \in BmsOf[e]}
MetricsOf(e) == RowsOf("pool", e) \cup RowsOf("bm", e)
MetricRows == UNION {MetricsOf(e) : e \in Fills}
Rows == FactRows \cup {StateRow} \cup MetricRows

ASSUME FreeAssumption == Free \notin Rows

VARIABLES
  facts, rollup, processed,  \* the committed tables, rollup by metric row
  program,  \* the one of Programs the writers run
  lock,     \* lock[r]: the transaction that holds row r
  pos,      \* pos[w]: the index of w's current job
  stage,    \* stage[w]: the statement w executes
  todo,     \* todo[w]: affected buckets w has still to recompute
  bucket,   \* bucket[w]: the one it is recomputing
  seen,     \* seen[w][b]: what w's query over bucket b returned
  left,     \* left[w]: rows the current statement has still to lock
  want,     \* want[w]: the locked row w waits for, or Free
  overlap,  \* history: did another transaction commit during w's?
  faults

vars == <<facts, rollup, processed, program, lock, pos, stage, todo, bucket, seen, left,
          want, overlap, faults>>

Stages == {"begin", "insert", "list", "read", "pool", "bm", "progress",
           "commit", "failed"}
Open == Stages \ {"begin", "failed"}

Aggregate(S, r) == {e \in S : r \in MetricsOf(e)}
Start == UNION {FillsOf(<<net, n>>) : n \in Indexed}

Init ==
  /\ facts = Start
  /\ rollup = [r \in MetricRows |-> Aggregate(Start, r)]
  /\ processed \in {n \in -1..LastSeq : Indexed = 0..n}
  /\ program \in Programs
  /\ lock = [r \in Rows |-> Free]
  /\ pos = [w \in Writers |-> 1]
  /\ stage = [w \in Writers |-> "begin"]
  /\ todo = [w \in Writers |-> {}]
  /\ bucket \in [Writers -> {CHOOSE b \in Minutes : TRUE}]
  /\ seen = [w \in Writers |-> [b \in Minutes |-> {}]]
  /\ left = [w \in Writers |-> {}]
  /\ want = [w \in Writers |-> Free]
  /\ overlap = [w \in Writers |-> FALSE]
  /\ faults = MaxFaults

Working(w) == pos[w] \in DOMAIN program[w] /\ stage[w] # "failed"
Current(w) == program[w][pos[w]]
Ingests(w) == Current(w).kind = "ingest"

\* Rows w has inserted and not committed.
NewFills(w) == IF Ingests(w) THEN FillsOf(<<net, Current(w).from>>) ELSE {}
Own(w) == IF stage[w] = "insert" THEN {} ELSE NewFills(w)

Go(w, s, rows) ==
  /\ stage' = [stage EXCEPT ![w] = s]
  /\ left' = [left EXCEPT ![w] = rows]
  /\ UNCHANGED <<facts, rollup, processed, program, lock, pos, want, faults>>
-----------------------------------------------------------------------------
(* BEGIN.  An ingestion inserts its facts, a replay lists its events. *)
Begin(w) ==
  /\ Working(w) /\ stage[w] = "begin"
  /\ overlap' = [overlap EXCEPT ![w] = FALSE]
  /\ IF Ingests(w)
     THEN Go(w, "insert", IF NewFills(w) = {} THEN {}
                          ELSE {<<"fact", Current(w).from>>})
     ELSE Go(w, "list", {})
  /\ UNCHANGED <<todo, bucket, seen>>

\* The statement w executes gets the lock of its next row ...
Lock(w, r) ==
  /\ r \in left[w] /\ want[w] \in {Free, r}
  /\ lock[r] \in {Free, w}
  /\ lock' = [lock EXCEPT ![r] = w]
  /\ left' = [left EXCEPT ![w] = @ \ {r}]
  /\ want' = [want EXCEPT ![w] = Free]
  /\ UNCHANGED <<facts, rollup, processed, program, pos, stage, todo, bucket,
                 seen, overlap, faults>>

\* ... or waits for it.  The order of the rows is a HashMap's: any.
Wait(w, r) ==
  /\ r \in left[w] /\ want[w] = Free
  /\ lock[r] \notin {Free, w}
  /\ want' = [want EXCEPT ![w] = r]
  /\ UNCHANGED <<facts, rollup, processed, program, lock, pos, stage, todo,
                 bucket, seen, left, overlap, faults>>

\* The affected buckets: those of the inserted fills, or of the facts the
\* replayed range has now.
Affected(w) ==
  LET j == Current(w) IN
  /\ stage[w] \in {"insert", "list"} /\ left[w] = {}
  /\ todo' = [todo EXCEPT ![w] =
       {Bucket(e) : e \in IF Ingests(w) THEN NewFills(w)
                          ELSE {f \in facts : At[f][2] \in j.from..j.to}}]
  /\ Go(w, "read", {})
  /\ UNCHANGED <<bucket, seen, overlap>>

\* Mutant: the query runs outside the transaction.
ReadBucket_OutsideTx(w, b) ==
  LET S == InBucket(facts, b) IN
  /\ stage[w] = "read" /\ b \in todo[w]
  /\ seen' = [seen EXCEPT ![w][b] = S]
  /\ todo' = [todo EXCEPT ![w] = @ \ {b}]
  /\ bucket' = [bucket EXCEPT ![w] = b]
  /\ Go(w, "pool", UNION {RowsOf("pool", e) : e \in S})
  /\ UNCHANGED overlap

\* One bucket: the query, then the upsert of its pool rows ...
ReadBucket(w, b) ==
  LET S == InBucket(facts \cup Own(w), b) IN
  /\ stage[w] = "read" /\ b \in todo[w]
  /\ seen' = [seen EXCEPT ![w][b] = S]
  /\ todo' = [todo EXCEPT ![w] = @ \ {b}]
  /\ bucket' = [bucket EXCEPT ![w] = b]
  /\ Go(w, "pool", UNION {RowsOf("pool", e) : e \in S})
  /\ UNCHANGED overlap

\* Mutant: the BalanceManager rows are forgotten.
UpsertBms_None(w) ==
  /\ stage[w] = "pool" /\ left[w] = {}
  /\ Go(w, "bm", {})
  /\ UNCHANGED <<todo, bucket, seen, overlap>>

\* ... then of its BalanceManager rows.
UpsertBms(w) ==
  /\ stage[w] = "pool" /\ left[w] = {}
  /\ Go(w, "bm", UNION {RowsOf("bm", e) : e \in seen[w][bucket[w]]})
  /\ UNCHANGED <<todo, bucket, seen, overlap>>

BucketDone(w) ==
  /\ stage[w] = "bm" /\ left[w] = {}
  /\ Go(w, "read", {})
  /\ UNCHANGED <<todo, bucket, seen, overlap>>

BucketsDone(w) ==
  /\ stage[w] = "read" /\ todo[w] = {}
  /\ IF Ingests(w) THEN Go(w, "progress", {StateRow}) ELSE Go(w, "commit", {})
  /\ UNCHANGED <<todo, bucket, seen, overlap>>

ProgressDone(w) ==
  /\ stage[w] = "progress" /\ left[w] = {}
  /\ Go(w, "commit", {})
  /\ UNCHANGED <<todo, bucket, seen, overlap>>

Waiters(r) == {v \in Writers : want[v] = r /\ lock[r] # v}

\* Mutant: a failed transaction stays open and keeps its locks.
End_KeepsLocks(w, s) ==
  /\ lock' = IF s = "failed" THEN lock
             ELSE [r \in Rows |-> IF lock[r] = w THEN Free ELSE lock[r]]
  /\ stage' = [stage EXCEPT ![w] = s]
  /\ todo' = [todo EXCEPT ![w] = {}]
  /\ seen' = [seen EXCEPT ![w] = [b \in Minutes |-> {}]]
  /\ left' = [left EXCEPT ![w] = {}]
  /\ want' = [want EXCEPT ![w] = Free]

\* The transaction ends: its private state goes, each of its locks passes to
\* a transaction that waits for it.  Each waits for one row at most, so among
\* up to four writers one row at most has a choice of waiters (first).
End(w, s) ==
  /\ \E first \in Writers :
       lock' = [r \in Rows |->
                 IF lock[r] # w THEN lock[r]
                 ELSE IF Waiters(r) = {} THEN Free
                 ELSE IF first \in Waiters(r) THEN first
                 ELSE CHOOSE v \in Waiters(r) : TRUE]
  /\ stage' = [stage EXCEPT ![w] = s]
  /\ todo' = [todo EXCEPT ![w] = {}]
  /\ seen' = [seen EXCEPT ![w] = [b \in Minutes |-> {}]]
  /\ left' = [left EXCEPT ![w] = {}]
  /\ want' = [want EXCEPT ![w] = Free]

\* An ingestion's progress row, GREATEST(processed_checkpoint, seq).
Progress(w) == IF Ingests(w) /\ Current(w).to > processed
               THEN Current(w).to ELSE processed

Commit(w) ==
  /\ stage[w] = "commit"
  /\ facts' = facts \cup Own(w)
  /\ rollup' = [r \in MetricRows |->
                  IF lock[r] = w
                  THEN Aggregate(UNION {seen[w][b] : b \in Minutes}, r)
                  ELSE rollup[r]]
  /\ processed' = Progress(w)
  /\ overlap' = [v \in Writers |-> IF v = w THEN FALSE ELSE TRUE]
  /\ End(w, "begin")
  /\ pos' = [pos EXCEPT ![w] = @ + 1]
  /\ UNCHANGED <<program, bucket, faults>>

\* A transaction waits for at most one other; following the waits from w
\* leads back to w.
InCycle(w) ==
  LET holder(u) == IF u = Free \/ want[u] = Free \/ lock[want[u]] = u
                   THEN Free ELSE lock[want[u]]
      after[n \in Nat] == IF n = 0 THEN w ELSE holder(after[n - 1])
  IN \E n \in 1..Cardinality(Writers) : after[n] = w

\* Mutant: the run loop leaves a checkpoint it could not ingest behind.
Abort_Skips(w) ==
  /\ stage[w] \in Open
  /\ \/ InCycle(w) /\ UNCHANGED faults
     \/ ~InCycle(w) /\ faults > 0 /\ faults' = faults - 1
  /\ End(w, "begin")
  /\ pos' = [pos EXCEPT ![w] = @ + 1]
  /\ UNCHANGED <<facts, rollup, processed, program, bucket, overlap>>

\* The server ends a cycle of waits, or (a fault) a statement fails: the
\* transaction rolls back.  The run loop tries again, a replay exits.
Abort(w) ==
  /\ stage[w] \in Open
  /\ \/ InCycle(w) /\ UNCHANGED faults
     \/ ~InCycle(w) /\ faults > 0 /\ faults' = faults - 1
  /\ End(w, IF Ingests(w) THEN "begin" ELSE "failed")
  /\ UNCHANGED <<facts, rollup, processed, program, pos, bucket, overlap>>
-----------------------------------------------------------------------------
Step(w) ==
  \/ Begin(w) \/ Affected(w) \/ UpsertBms(w) \/ BucketDone(w)
  \/ BucketsDone(w) \/ ProgressDone(w) \/ Commit(w)
  \/ \E r \in Rows : Lock(w, r) \/ Wait(w, r)
  \/ \E b \in Minutes : ReadBucket(w, b)

Next == \E w \in Writers : Step(w) \/ Abort(w)

Spec == Init /\ [][Next]_vars

\* Each process runs, and the server does find deadlocks.
FairSpec ==
  /\ Spec
  /\ \A w \in Writers : WF_vars(Step(w)) /\ WF_vars(InCycle(w) /\ Abort(w))
-----------------------------------------------------------------------------
Matches(r) == rollup[r] = Aggregate(facts, r)

\* Replays are safe: at every commit, every metric row is the aggregate of
\* exactly the facts in the table.
RollupsMatchFacts == \A r \in MetricRows : Matches(r)

\* No checkpoint is ingested in a minute that another writer recomputes.
MinutesOf(j) == {MinuteOf[<<net, n>>] : n \in j.from..j.to}
ClosedMinutes ==
  \A w, v \in Writers : w # v =>
    \A i \in DOMAIN program[w], j \in DOMAIN program[v] :
      program[w][i].kind = "ingest" =>
        MinutesOf(program[w][i]) \cap MinutesOf(program[v][j]) = {}

\* Replays of minutes the indexer has left are safe, several at once too.
ClosedReplaysAreSafe == ClosedMinutes => RollupsMatchFacts

\* Progress stays honest with any number of writers: no writer's progress row
\* covers facts that are not committed.
ProgressHonest == \A n \in 0..processed : FillsOf(<<net, n>>) \subseteq facts

\* A transaction during which no other one committed leaves every metric row
\* of the buckets it recomputed right, whatever was stale there before: a
\* replay on its own repairs what a race broke.
QuietCommitsRepair ==
  [][\A w \in Writers :
       (stage[w] = "commit" /\ Commit(w) /\ ~overlap[w]) =>
         \A r \in UNION {MetricsOf(e) : e \in UNION {seen[w][b] : b \in Minutes}} :
           rollup'[r] = Aggregate(facts', r)]_vars

\* Every process comes to its end: no wait for a lock lasts forever.
AllFinish == <>[](\A w \in Writers : ~Working(w))
=============================================================================
