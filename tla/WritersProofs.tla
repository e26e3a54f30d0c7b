--------------------------- MODULE WritersProofs ---------------------------
(* What holds of any number of writers, whatever they have to do and       *)
(* whatever fails: the progress row, and the metrics of closed minutes.    *)
EXTENDS RollupWriters, TLAPS

\* The fills of the network; no other ever reaches the tables.
NetFills == UNION {FillsOf(<<net, n>>) : n \in Seqs}

TypeOK ==
  /\ facts \subseteq NetFills
  /\ rollup = [r \in MetricRows |-> rollup[r]]
  /\ processed \in Int /\ program \in Programs
  /\ lock \in [Rows -> Writers \cup {Free}]
  /\ pos \in [Writers -> Nat \ {0}] /\ stage \in [Writers -> Stages]
  /\ todo \in [Writers -> SUBSET Minutes] /\ bucket \in [Writers -> Minutes]
  /\ seen \in [Writers -> [Minutes -> SUBSET NetFills]]
  /\ left \in [Writers -> SUBSET Rows] /\ want \in [Writers -> Rows \cup {Free}]
  /\ overlap \in [Writers -> BOOLEAN]

(* Progress. *)
Covered(S, n) == \A m \in 0..n : FillsOf(<<net, m>>) \subseteq S

\* Everything up to a checkpoint that was indexed at the start, or that a
\* writer has ingested, is in the table.
Progressed ==
  /\ Covered(facts, processed)
  /\ \A n \in Indexed : Covered(facts, n)
  /\ \A w \in Writers : \A k \in DOMAIN program[w] :
       (k < pos[w] /\ program[w][k].kind = "ingest") =>
         Covered(facts, program[w][k].from)

(* A transaction: where it stands ... *)
Reads == {"read", "pool", "bm", "progress", "commit"}

Position(w) ==
  /\ stage[w] \in Open => pos[w] \in DOMAIN program[w]
  /\ stage[w] \notin Reads => todo[w] = {} /\ \A b \in Minutes : seen[w][b] = {}
  /\ stage[w] \in {"progress", "commit"} => todo[w] = {}
  /\ stage[w] \notin {"insert", "pool", "bm", "progress"} => left[w] = {}
  /\ \A b \in Minutes : (b \in todo[w] \/ seen[w][b] # {}) =>
                           b \in MinutesOf(Current(w))

\* ... what its queries returned: nothing that is not there or its own, its
\* own fills in the buckets it is through with, and all there is unless
\* another transaction could commit into these buckets since.
Undisturbed(w) == ~overlap[w] \/ ClosedMinutes

Reading(w) ==
  stage[w] \in Reads =>
    /\ \A b \in Minutes : seen[w][b] \subseteq InBucket(facts \cup Own(w), b)
    /\ \A e \in NewFills(w) : Bucket(e) \in todo[w] \/ e \in seen[w][Bucket(e)]
    /\ Undisturbed(w) =>
         \A b \in Minutes : seen[w][b] # {} =>
           InBucket(facts \cup Own(w), b) \subseteq seen[w][b]

\* ... and the rows it has locked, waits for or has still to lock: those of
\* the fills it has read, and no other metric rows.
Recomputed(w) == UNION {MetricsOf(e) : e \in UNION {seen[w][b] : b \in Minutes}}

Locking(w) ==
  /\ want[w] = Free \/ want[w] \in left[w]
  /\ left[w] \cap MetricRows \subseteq Recomputed(w)
  /\ \A r \in MetricRows : lock[r] = w => r \in Recomputed(w)

Holding(w) ==
  \A b \in Minutes : \A e \in seen[w][b] :
    /\ \A r \in RowsOf("pool", e) :
         lock[r] = w \/ (stage[w] = "pool" /\ bucket[w] = b /\ r \in left[w])
    /\ \A r \in RowsOf("bm", e) :
         \/ lock[r] = w
         \/ stage[w] = "pool" /\ bucket[w] = b
         \/ stage[w] = "bm" /\ bucket[w] = b /\ r \in left[w]

Tx(w) == Position(w) /\ Reading(w) /\ Locking(w) /\ Holding(w)

\* The inductive invariant.
IInv ==
  /\ TypeOK /\ Progressed
  /\ \A w \in Writers : Tx(w)
  /\ ClosedReplaysAreSafe
-----------------------------------------------------------------------------
(* Rows, fills and jobs. *)

LEMMA Networked ==
  ASSUME NEW e \in NetFills
  PROVE  /\ e \in Fills /\ \E n \in Seqs : At[e] = <<net, n>>
         /\ Bucket(e) \in Minutes
<1>1. PICK n \in Seqs : e \in FillsOf(<<net, n>>)
  BY DEF NetFills
<1>2. e \in Fills /\ At[e] = <<net, n>>
  BY <1>1 DEF FillsOf
<1>3. <<net, n>> \in Blocks
  BY WritersAssumption DEF Blocks
<1>4. QED BY <1>2, <1>3, ChainAssumption DEF Bucket

\* The metric rows of a fill are rows, and name its minute.
LEMMA MetricRowFacts ==
  ASSUME NEW e \in Fills
  PROVE  MetricsOf(e) \subseteq MetricRows /\ MetricRows \subseteq Rows
BY DEF MetricRows, Rows

LEMMA RowNamesBucket ==
  ASSUME NEW e, NEW f, NEW r, r \in MetricsOf(e), r \in MetricsOf(f)
  PROVE  Bucket(e) = Bucket(f)
<1>1. CASE r \in RowsOf("pool", e) /\ r \in RowsOf("pool", f)
  BY <1>1 DEF RowsOf
<1>2. CASE r \in RowsOf("bm", e) /\ r \in RowsOf("bm", f)
  BY <1>2 DEF RowsOf
<1>3. CASE r \in RowsOf("pool", e) /\ r \in RowsOf("bm", f)
  BY <1>3 DEF RowsOf
<1>4. CASE r \in RowsOf("bm", e) /\ r \in RowsOf("pool", f)
  BY <1>4 DEF RowsOf
<1>5. QED BY <1>1, <1>2, <1>3, <1>4 DEF MetricsOf

\* The other lockable rows are no metric rows.
LEMMA OtherRows ==
  /\ StateRow \notin MetricRows
  /\ \A n : <<"fact", n>> \notin MetricRows
<1>1. SUFFICES ASSUME NEW e \in Fills, NEW r \in MetricsOf(e), NEW n
               PROVE  r # StateRow /\ r # <<"fact", n>>
  BY DEF MetricRows
<1>2. CASE r \in RowsOf("pool", e)
  BY <1>2 DEF RowsOf, StateRow
<1>3. CASE r \in RowsOf("bm", e)
  BY <1>3 DEF RowsOf, StateRow
<1>4. QED BY <1>2, <1>3 DEF MetricsOf

\* A writer at work has a job, whose fills are of the network and in the job's
\* minutes.
LEMMA JobFacts ==
  ASSUME NEW w \in Writers, TypeOK, pos[w] \in DOMAIN program[w]
  PROVE  /\ Current(w) \in Job
         /\ Ingests(w) => Current(w).from = Current(w).to
         /\ NewFills(w) \subseteq NetFills /\ Own(w) \subseteq NewFills(w)
         /\ \A e \in NewFills(w) : Bucket(e) \in MinutesOf(Current(w))
         /\ MinutesOf(Current(w)) \subseteq Minutes
<1>1. program \in [Writers -> Seq(Job)]
  BY WritersAssumption DEF TypeOK
<1>2. Current(w) \in Job
  BY <1>1 DEF Current
<1>3. Ingests(w) => Current(w).from = Current(w).to
  BY WritersAssumption DEF TypeOK, Ingests, Current
<1>4. Current(w).from \in Seqs /\ Current(w).to \in Seqs
  BY <1>2 DEF Job
<1>5. NewFills(w) \subseteq NetFills /\ Own(w) \subseteq NewFills(w)
  BY <1>4 DEF NewFills, NetFills, Own
<1>6. ASSUME NEW e \in NewFills(w) PROVE Bucket(e) \in MinutesOf(Current(w))
  <2>1. Ingests(w) /\ At[e] = <<net, Current(w).from>>
    BY <1>6 DEF NewFills, FillsOf
  <2>2. Current(w).from \in Current(w).from..Current(w).to
    BY <2>1, <1>3, <1>4 DEF Seqs
  <2>3. QED BY <2>1, <2>2 DEF Bucket, MinutesOf
<1>7. MinutesOf(Current(w)) \subseteq Minutes
  <2>1. \A n \in Current(w).from..Current(w).to : <<net, n>> \in Blocks
    BY <1>4, WritersAssumption, ChainAssumption DEF Seqs, Blocks
  <2>2. QED BY <2>1, ChainAssumption DEF MinutesOf
<1>8. QED BY <1>2, <1>3, <1>5, <1>6, <1>7
-----------------------------------------------------------------------------
(* Types. *)

\* What a transaction that ends does to the locks of the others: they keep
\* theirs and get only ones they wait for.
LEMMA Passing ==
  ASSUME NEW w \in Writers, NEW s, TypeOK, End(w, s)
  PROVE  /\ lock' \in [Rows -> Writers \cup {Free}]
         /\ \A r \in Rows, v \in Writers :
              lock'[r] = v => (lock[r] = v /\ v # w) \/ (want[v] = r /\ v # w)
         /\ \A r \in Rows : lock[r] # w => lock'[r] = lock[r]
<1>1. PICK first \in Writers :
        lock' = [r \in Rows |->
                 IF lock[r] # w THEN lock[r]
                 ELSE IF Waiters(r) = {} THEN Free
                 ELSE IF first \in Waiters(r) THEN first
                 ELSE CHOOSE v \in Waiters(r) : TRUE]
  BY DEF End
<1>2. ASSUME NEW r \in Rows, lock[r] = w, Waiters(r) # {}
      PROVE  lock'[r] \in Waiters(r)
  BY <1>1, <1>2
<1>3. ASSUME NEW r \in Rows, lock[r] = w, Waiters(r) = {}
      PROVE  lock'[r] = Free
  BY <1>1, <1>3
<1>4. ASSUME NEW r \in Rows, lock[r] # w
      PROVE  lock'[r] = lock[r]
  BY <1>1, <1>4
<1>5. \A r \in Rows : lock'[r] \in Writers \cup {Free}
  BY <1>2, <1>3, <1>4 DEF TypeOK, Waiters
<1>6. lock' = [r \in Rows |-> lock'[r]]
  BY <1>1
<1>7. lock' \in [Rows -> Writers \cup {Free}]
  BY <1>5, <1>6
<1>8. ASSUME NEW r \in Rows, NEW v \in Writers, lock'[r] = v
      PROVE  (lock[r] = v /\ v # w) \/ (want[v] = r /\ v # w)
  <2>1. CASE lock[r] # w
    BY <1>4, <1>8, <2>1
  <2>2. CASE lock[r] = w /\ Waiters(r) # {}
    BY <1>2, <1>8, <2>2 DEF Waiters
  <2>3. CASE lock[r] = w /\ Waiters(r) = {}
    BY <1>3, <1>8, <2>3, WritersAssumption
  <2>4. QED BY <2>1, <2>2, <2>3
<1>9. QED BY <1>4, <1>7, <1>8

\* The private state of a transaction that has ended.
LEMMA Ended ==
  ASSUME NEW w \in Writers, NEW s \in Stages, TypeOK, End(w, s)
  PROVE  /\ stage' \in [Writers -> Stages] /\ todo' \in [Writers -> SUBSET Minutes]
         /\ seen' \in [Writers -> [Minutes -> SUBSET NetFills]]
         /\ left' \in [Writers -> SUBSET Rows]
         /\ want' \in [Writers -> Rows \cup {Free}]
         /\ stage'[w] = s /\ todo'[w] = {} /\ left'[w] = {} /\ want'[w] = Free
         /\ \A b \in Minutes : seen'[w][b] = {}
         /\ \A v \in Writers \ {w} :
              /\ stage'[v] = stage[v] /\ todo'[v] = todo[v] /\ seen'[v] = seen[v]
              /\ left'[v] = left[v] /\ want'[v] = want[v]
<1>1. /\ stage' = [stage EXCEPT ![w] = s]
      /\ todo' = [todo EXCEPT ![w] = {}]
      /\ seen' = [seen EXCEPT ![w] = [b \in Minutes |-> {}]]
      /\ left' = [left EXCEPT ![w] = {}]
      /\ want' = [want EXCEPT ![w] = Free]
  BY DEF End
<1>2. QED BY <1>1 DEF TypeOK

\* ... and of one that goes to its next statement.
LEMMA Going ==
  ASSUME NEW w \in Writers, NEW s \in Stages, NEW rows \in SUBSET Rows,
         TypeOK, Go(w, s, rows)
  PROVE  /\ stage' \in [Writers -> Stages] /\ left' \in [Writers -> SUBSET Rows]
         /\ stage'[w] = s /\ left'[w] = rows
         /\ \A v \in Writers \ {w} : stage'[v] = stage[v] /\ left'[v] = left[v]
         /\ UNCHANGED <<facts, rollup, processed, program, lock, pos, want>>
<1>1. /\ stage' = [stage EXCEPT ![w] = s]
      /\ left' = [left EXCEPT ![w] = rows]
      /\ UNCHANGED <<facts, rollup, processed, program, lock, pos, want>>
  BY DEF Go
<1>2. QED BY <1>1 DEF TypeOK

\* The rows of the fills a bucket has.
LEMMA BucketRows ==
  ASSUME NEW S \in SUBSET NetFills
  PROVE  /\ UNION {RowsOf("pool", e) : e \in S} \subseteq UNION {MetricsOf(e) : e \in S}
         /\ UNION {RowsOf("bm", e) : e \in S} \subseteq UNION {MetricsOf(e) : e \in S}
         /\ UNION {MetricsOf(e) : e \in S} \subseteq Rows
<1>1. \A e \in S : MetricsOf(e) \subseteq Rows
  BY Networked, MetricRowFacts
<1>2. QED BY <1>1 DEF MetricsOf
-----------------------------------------------------------------------------
(* The other transactions. *)

LEMMA SameJob ==
  ASSUME NEW v \in Writers, program' = program, pos'[v] = pos[v]
  PROVE  /\ Current(v)' = Current(v) /\ (Ingests(v)' <=> Ingests(v))
         /\ NewFills(v)' = NewFills(v)
         /\ MinutesOf(Current(v))' = MinutesOf(Current(v))
<1>1. Current(v)' = Current(v)
  BY DEF Current
<1>2. QED BY <1>1 DEF Ingests, NewFills, MinutesOf

\* A transaction that does nothing keeps its invariant as long as it keeps its
\* locks, gets only one that it waits for, and nothing is committed that would
\* have been in what it read, or another commit is noted.
LEMMA OthersKeep ==
  ASSUME TypeOK, NEW v \in Writers, Tx(v), program' = program,
         pos'[v] = pos[v], stage'[v] = stage[v], todo'[v] = todo[v],
         bucket'[v] = bucket[v], seen'[v] = seen[v], left'[v] = left[v],
         want'[v] = want[v], facts \subseteq facts',
         \A r \in Rows : lock[r] = v => lock'[r] = v,
         \A r \in Rows : lock'[r] = v => lock[r] = v \/ want[v] = r,
         (stage[v] \in Reads /\ Undisturbed(v)') =>
           /\ Undisturbed(v)
           /\ \A b \in MinutesOf(Current(v)) :
                InBucket(facts', b) \subseteq InBucket(facts, b)
  PROVE  Tx(v)'
<1>1. /\ Current(v)' = Current(v) /\ NewFills(v)' = NewFills(v)
      /\ MinutesOf(Current(v))' = MinutesOf(Current(v))
  BY SameJob
<1>2. Own(v)' = Own(v)
  BY <1>1 DEF Own
<1>3. Recomputed(v)' = Recomputed(v)
  BY DEF Recomputed
<1>4. Position(v)'
  BY <1>1 DEF Tx, Position
<1>5. Reading(v)'
  <2>1. SUFFICES ASSUME stage[v] \in Reads PROVE Reading(v)'
    BY DEF Reading
  <2>2. ASSUME NEW b \in Minutes
        PROVE  seen[v][b] \subseteq InBucket(facts' \cup Own(v), b)
    <3>1. seen[v][b] \subseteq InBucket(facts \cup Own(v), b)
      BY <2>1 DEF Tx, Reading
    <3>2. QED BY <3>1 DEF InBucket
  <2>3. \A e \in NewFills(v) : Bucket(e) \in todo[v] \/ e \in seen[v][Bucket(e)]
    BY <2>1 DEF Tx, Reading
  <2>4. ASSUME Undisturbed(v)', NEW b \in Minutes, seen[v][b] # {}
        PROVE  InBucket(facts' \cup Own(v), b) \subseteq seen[v][b]
    <3>1. InBucket(facts \cup Own(v), b) \subseteq seen[v][b]
      BY <2>1, <2>4 DEF Tx, Reading
    <3>2. b \in MinutesOf(Current(v))
      BY <2>4 DEF Tx, Position
    <3>3. InBucket(facts', b) \subseteq InBucket(facts, b)
      BY <2>1, <2>4, <3>2
    <3>4. QED BY <3>1, <3>3 DEF InBucket
  <2>5. QED BY <1>1, <1>2, <2>2, <2>3, <2>4 DEF Reading
<1>6. Locking(v)'
  <2>1. ASSUME NEW r \in MetricRows, lock'[r] = v PROVE r \in Recomputed(v)
    <3>1. r \in Rows
      BY DEF Rows
    <3>2. CASE lock[r] = v
      BY <3>2 DEF Tx, Locking
    <3>3. CASE want[v] = r
      BY <3>1, <3>3, FreeAssumption DEF Tx, Locking
    <3>4. QED BY <2>1, <3>1, <3>2, <3>3
  <2>2. QED BY <1>3, <2>1 DEF Tx, Locking
<1>7. Holding(v)'
  <2>1. SUFFICES ASSUME NEW b \in Minutes, NEW e \in seen[v][b]
        PROVE  /\ \A r \in RowsOf("pool", e) :
                    \/ lock'[r] = v
                    \/ stage[v] = "pool" /\ bucket[v] = b /\ r \in left[v]
               /\ \A r \in RowsOf("bm", e) :
                    \/ lock'[r] = v
                    \/ stage[v] = "pool" /\ bucket[v] = b
                    \/ stage[v] = "bm" /\ bucket[v] = b /\ r \in left[v]
    BY DEF Holding, RowsOf
  <2>2. e \in NetFills
    BY DEF TypeOK
  <2>3. RowsOf("pool", e) \subseteq Rows /\ RowsOf("bm", e) \subseteq Rows
    BY <2>2, Networked, MetricRowFacts DEF MetricsOf
  <2>4. QED BY <2>3 DEF Tx, Holding
<1>8. QED BY <1>4, <1>5, <1>6, <1>7 DEF Tx
-----------------------------------------------------------------------------
(* A step of w that commits nothing. *)
Private(w) ==
  /\ UNCHANGED <<facts, rollup, processed, program, pos>>
  /\ \A v \in Writers \ {w} :
       /\ stage'[v] = stage[v] /\ todo'[v] = todo[v] /\ bucket'[v] = bucket[v]
       /\ seen'[v] = seen[v] /\ left'[v] = left[v] /\ want'[v] = want[v]
       /\ overlap'[v] = overlap[v]
       /\ \A r \in Rows : lock[r] = v => lock'[r] = v
       /\ \A r \in Rows : lock'[r] = v => lock[r] = v \/ want[v] = r

LEMMA PrivateKeeps ==
  ASSUME IInv, NEW w \in Writers, Private(w), TypeOK', Tx(w)'
  PROVE  IInv'
<1>1. UNCHANGED <<facts, rollup, processed, program, pos>>
  BY DEF Private
<1>2. ClosedMinutes' <=> ClosedMinutes
  BY <1>1 DEF ClosedMinutes
<1>3. ASSUME NEW v \in Writers PROVE Tx(v)'
  <2>1. CASE v = w
    BY <2>1
  <2>2. CASE v # w
    <3>1. v \in Writers \ {w}
      BY <2>2
    <3>2. /\ stage'[v] = stage[v] /\ todo'[v] = todo[v] /\ bucket'[v] = bucket[v]
          /\ seen'[v] = seen[v] /\ left'[v] = left[v] /\ want'[v] = want[v]
          /\ overlap'[v] = overlap[v]
      BY <3>1 DEF Private
    <3>3. /\ \A r \in Rows : lock[r] = v => lock'[r] = v
          /\ \A r \in Rows : lock'[r] = v => lock[r] = v \/ want[v] = r
      BY <3>1 DEF Private
    <3>4. Undisturbed(v)' =>
            /\ Undisturbed(v)
            /\ \A b \in MinutesOf(Current(v)) :
                 InBucket(facts', b) \subseteq InBucket(facts, b)
      BY <1>1, <1>2, <3>2 DEF Undisturbed
    <3>5. TypeOK /\ Tx(v)
      BY DEF IInv
    <3>6. QED BY <1>1, <3>2, <3>3, <3>4, <3>5, OthersKeep
  <2>3. QED BY <2>1, <2>2
<1>4. Progressed'
  BY <1>1 DEF IInv, Progressed, Covered
<1>5. ClosedReplaysAreSafe'
  BY <1>1, <1>2 DEF IInv, ClosedReplaysAreSafe, RollupsMatchFacts, Matches
<1>6. QED BY <1>3, <1>4, <1>5 DEF IInv

\* A step to the next statement is one.
LEMMA GoingIsPrivate ==
  ASSUME NEW w \in Writers, NEW s \in Stages, NEW rows \in SUBSET Rows,
         TypeOK, Go(w, s, rows),
         \A v \in Writers \ {w} :
           /\ todo'[v] = todo[v] /\ bucket'[v] = bucket[v]
           /\ seen'[v] = seen[v] /\ overlap'[v] = overlap[v]
  PROVE  Private(w)
BY Going DEF Private

LEMMA BeginKeeps ==
  ASSUME IInv, NEW w \in Writers, Begin(w)
  PROVE  IInv'
<1>1. TypeOK /\ Tx(w)
  BY DEF IInv
<1>2. pos[w] \in DOMAIN program[w] /\ stage[w] = "begin"
  BY DEF Begin, Working
<1>3. /\ overlap' = [overlap EXCEPT ![w] = FALSE]
      /\ UNCHANGED <<todo, bucket, seen>>
  BY DEF Begin
<1>4. PICK s \in {"insert", "list"}, rows \in SUBSET FactRows :
        Go(w, s, rows) /\ (s = "list" => rows = {})
  <2>1. Ingests(w) => Current(w).from \in Seqs
    BY <1>1, <1>2, JobFacts DEF Job
  <2>2. CASE Ingests(w)
    <3> DEFINE rows == IF NewFills(w) = {} THEN {} ELSE {<<"fact", Current(w).from>>}
    <3>1. rows \in SUBSET FactRows
      BY <2>1, <2>2 DEF FactRows
    <3>2. Go(w, "insert", rows)
      BY <2>2 DEF Begin
    <3>3. QED BY <3>1, <3>2
  <2>3. CASE ~Ingests(w)
    <3>1. Go(w, "list", {})
      BY <2>3 DEF Begin
    <3>2. QED BY <3>1
  <2>4. QED BY <2>2, <2>3
<1>5. s \in Stages /\ rows \in SUBSET Rows
  BY <1>4 DEF Stages, Rows
<1>6. /\ stage' \in [Writers -> Stages] /\ left' \in [Writers -> SUBSET Rows]
      /\ stage'[w] = s /\ left'[w] = rows
      /\ UNCHANGED <<facts, rollup, processed, program, lock, pos, want>>
  BY <1>1, <1>4, <1>5, Going
<1>7. TypeOK'
  BY <1>1, <1>3, <1>6 DEF TypeOK
<1>8. Private(w)
  <2>1. \A v \in Writers \ {w} :
           /\ todo'[v] = todo[v] /\ bucket'[v] = bucket[v]
           /\ seen'[v] = seen[v] /\ overlap'[v] = overlap[v]
    BY <1>1, <1>3 DEF TypeOK
  <2>2. QED BY <1>1, <1>4, <1>5, <2>1, GoingIsPrivate
<1>9. todo'[w] = {} /\ (\A b \in Minutes : seen'[w][b] = {}) /\ stage'[w] \notin Reads
  BY <1>1, <1>2, <1>3, <1>4, <1>6 DEF Tx, Position, Reads
<1>10. Position(w)'
  BY <1>2, <1>4, <1>6, <1>9 DEF Position, Reads
<1>11. Reading(w)' /\ Holding(w)'
  BY <1>9 DEF Reading, Holding
<1>12. Locking(w)'
  <2>1. Recomputed(w) = {} /\ Recomputed(w)' = {}
    BY <1>1, <1>2, <1>9 DEF Tx, Position, Recomputed, Reads
  <2>2. rows \cap MetricRows = {}
    BY <1>4, OtherRows DEF FactRows
  <2>3. want[w] = Free
    BY <1>1, <1>2 DEF Tx, Position, Locking
  <2>4. QED BY <1>1, <1>6, <2>1, <2>2, <2>3 DEF Tx, Locking
<1>13. QED BY <1>7, <1>8, <1>10, <1>11, <1>12, PrivateKeeps DEF Tx

LEMMA LockKeeps ==
  ASSUME IInv, NEW w \in Writers, NEW r \in Rows, Lock(w, r)
  PROVE  IInv'
<1>1. TypeOK /\ Tx(w)
  BY DEF IInv
<1>2. /\ r \in left[w] /\ want[w] \in {Free, r} /\ lock[r] \in {Free, w}
      /\ lock' = [lock EXCEPT ![r] = w]
      /\ left' = [left EXCEPT ![w] = @ \ {r}]
      /\ want' = [want EXCEPT ![w] = Free]
      /\ UNCHANGED <<facts, rollup, processed, program, pos, stage, todo,
                     bucket, seen, overlap>>
  BY DEF Lock
<1>3. TypeOK'
  BY <1>1, <1>2 DEF TypeOK
<1>4. Private(w)
  <2>1. ASSUME NEW v \in Writers \ {w}, NEW q \in Rows
        PROVE  lock'[q] = v <=> lock[q] = v
    BY <1>1, <1>2, WritersAssumption DEF TypeOK
  <2>2. QED BY <1>1, <1>2, <2>1 DEF Private, TypeOK
<1>5. /\ left'[w] = left[w] \ {r} /\ want'[w] = Free
      /\ lock'[r] = w /\ \A q \in Rows \ {r} : lock'[q] = lock[q]
  BY <1>1, <1>2 DEF TypeOK
<1>6. Current(w)' = Current(w) /\ NewFills(w)' = NewFills(w)
  BY <1>2, SameJob
<1>7. Position(w)'
  BY <1>1, <1>2, <1>5, <1>6 DEF Tx, Position, MinutesOf
<1>8. Reading(w)'
  <2>1. Own(w)' = Own(w)
    BY <1>2, <1>6 DEF Own
  <2>2. Undisturbed(w)' <=> Undisturbed(w)
    BY <1>2 DEF Undisturbed, ClosedMinutes
  <2>3. QED BY <1>1, <1>2, <1>6, <2>1, <2>2 DEF Tx, Reading
<1>9. Recomputed(w)' = Recomputed(w)
  BY <1>2 DEF Recomputed
<1>10. Locking(w)'
  <2>1. ASSUME NEW q \in MetricRows, lock'[q] = w PROVE q \in Recomputed(w)
    <3>1. CASE q = r
      BY <1>1, <1>2, <3>1 DEF Tx, Locking
    <3>2. CASE q # r
      BY <1>1, <1>5, <2>1, <3>2 DEF Tx, Locking, Rows
    <3>3. QED BY <3>1, <3>2
  <2>2. QED BY <1>1, <1>5, <1>9, <2>1 DEF Tx, Locking
<1>11. Holding(w)'
  <2>1. SUFFICES ASSUME NEW b \in Minutes, NEW e \in seen[w][b]
        PROVE  /\ \A q \in RowsOf("pool", e) :
                    \/ lock'[q] = w
                    \/ stage[w] = "pool" /\ bucket[w] = b /\ q \in left'[w]
               /\ \A q \in RowsOf("bm", e) :
                    \/ lock'[q] = w
                    \/ stage[w] = "pool" /\ bucket[w] = b
                    \/ stage[w] = "bm" /\ bucket[w] = b /\ q \in left'[w]
    BY <1>2 DEF Holding, RowsOf
  <2>2. e \in NetFills
    BY <1>1 DEF TypeOK
  <2>3. RowsOf("pool", e) \subseteq Rows /\ RowsOf("bm", e) \subseteq Rows
    BY <2>2, Networked, MetricRowFacts DEF MetricsOf
  <2>4. QED BY <1>1, <1>5, <2>3 DEF Tx, Holding
<1>12. QED BY <1>3, <1>4, <1>7, <1>8, <1>10, <1>11, PrivateKeeps DEF Tx

LEMMA WaitKeeps ==
  ASSUME IInv, NEW w \in Writers, NEW r \in Rows, Wait(w, r)
  PROVE  IInv'
<1>1. TypeOK /\ Tx(w)
  BY DEF IInv
<1>2. /\ r \in left[w] /\ want' = [want EXCEPT ![w] = r]
      /\ UNCHANGED <<facts, rollup, processed, program, lock, pos, stage, todo,
                     bucket, seen, left, overlap>>
  BY DEF Wait
<1>3. TypeOK'
  BY <1>1, <1>2 DEF TypeOK
<1>4. Private(w)
  BY <1>1, <1>2 DEF Private, TypeOK
<1>5. Current(w)' = Current(w) /\ NewFills(w)' = NewFills(w)
  BY <1>2, SameJob
<1>6. Position(w)'
  BY <1>1, <1>2, <1>5 DEF Tx, Position, MinutesOf
<1>7. Reading(w)'
  <2>1. Own(w)' = Own(w)
    BY <1>2, <1>5 DEF Own
  <2>2. Undisturbed(w)' <=> Undisturbed(w)
    BY <1>2 DEF Undisturbed, ClosedMinutes
  <2>3. QED BY <1>1, <1>2, <1>5, <2>1, <2>2 DEF Tx, Reading
<1>8. Locking(w)'
  <2>1. Recomputed(w)' = Recomputed(w)
    BY <1>2 DEF Recomputed
  <2>2. want'[w] = r
    BY <1>1, <1>2 DEF TypeOK
  <2>3. QED BY <1>1, <1>2, <2>1, <2>2 DEF Tx, Locking
<1>9. Holding(w)'
  BY <1>1, <1>2 DEF Tx, Holding, RowsOf
<1>10. QED BY <1>3, <1>4, <1>6, <1>7, <1>8, <1>9, PrivateKeeps DEF Tx

\* The affected buckets of an ingestion are those of its fills; of a replay,
\* those of facts of its range.  Both are minutes of the job.
LEMMA AffectedKeeps ==
  ASSUME IInv, NEW w \in Writers, Affected(w)
  PROVE  IInv'
<1>1. TypeOK /\ Tx(w)
  BY DEF IInv
<1> DEFINE j == Current(w)
           F == IF Ingests(w) THEN NewFills(w)
                ELSE {f \in facts : At[f][2] \in j.from..j.to}
<1>2. /\ stage[w] \in {"insert", "list"} /\ left[w] = {}
      /\ todo' = [todo EXCEPT ![w] = {Bucket(e) : e \in F}]
      /\ Go(w, "read", {})
      /\ UNCHANGED <<bucket, seen, overlap>>
  BY DEF Affected
<1>3. pos[w] \in DOMAIN program[w]
  BY <1>1, <1>2 DEF Tx, Position, Open, Stages
<1>4. /\ j \in Job /\ NewFills(w) \subseteq NetFills
      /\ Own(w) \subseteq NewFills(w)
      /\ \A e \in NewFills(w) : Bucket(e) \in MinutesOf(j)
      /\ MinutesOf(j) \subseteq Minutes
  BY <1>1, <1>3, JobFacts
<1>5. {Bucket(e) : e \in F} \subseteq MinutesOf(j)
  <2>1. ASSUME NEW f \in facts, At[f][2] \in j.from..j.to
        PROVE  Bucket(f) \in MinutesOf(j)
    <3>1. PICK n \in Seqs : At[f] = <<net, n>>
      BY <1>1, Networked DEF TypeOK
    <3>2. n \in j.from..j.to
      BY <2>1, <3>1
    <3>3. QED BY <3>1, <3>2 DEF Bucket, MinutesOf
  <2>2. QED BY <1>4, <2>1
<1>6. /\ stage' \in [Writers -> Stages] /\ left' \in [Writers -> SUBSET Rows]
      /\ stage'[w] = "read" /\ left'[w] = {}
      /\ UNCHANGED <<facts, rollup, processed, program, lock, pos, want>>
  BY <1>1, <1>2, Going DEF Stages
<1>7. TypeOK'
  <2>1. todo' \in [Writers -> SUBSET Minutes]
    BY <1>1, <1>2, <1>4, <1>5 DEF TypeOK
  <2>2. QED BY <1>1, <1>2, <1>6, <2>1 DEF TypeOK
<1>8. Private(w)
  <2>1. \A v \in Writers \ {w} :
           /\ todo'[v] = todo[v] /\ bucket'[v] = bucket[v]
           /\ seen'[v] = seen[v] /\ overlap'[v] = overlap[v]
    BY <1>1, <1>2 DEF TypeOK
  <2>2. QED BY <1>1, <1>2, <2>1, GoingIsPrivate DEF Stages
<1>9. todo'[w] = {Bucket(e) : e \in F} /\ \A b \in Minutes : seen'[w][b] = {}
  BY <1>1, <1>2 DEF Tx, Position, Reads, TypeOK
<1>10. /\ Current(w)' = j /\ NewFills(w)' = NewFills(w)
       /\ MinutesOf(Current(w))' = MinutesOf(j)
  BY <1>6, SameJob
<1>11. Position(w)'
  BY <1>3, <1>5, <1>6, <1>9, <1>10 DEF Position, Reads
<1>12. Reading(w)'
  <2>1. ASSUME NEW e \in NewFills(w) PROVE Bucket(e) \in todo'[w]
    <3>1. Ingests(w)
      BY <2>1 DEF NewFills
    <3>2. QED BY <1>9, <2>1, <3>1
  <2>2. QED BY <1>9, <1>10, <2>1 DEF Reading
<1>13. Locking(w)' /\ Holding(w)'
  <2>1. Recomputed(w) = {} /\ Recomputed(w)' = {}
    BY <1>1, <1>2, <1>9 DEF Tx, Position, Recomputed, Reads
  <2>2. want[w] = Free
    BY <1>1, <1>2 DEF Tx, Locking
  <2>3. QED BY <1>1, <1>6, <1>9, <2>1, <2>2 DEF Tx, Locking, Holding
<1>14. QED BY <1>7, <1>8, <1>11, <1>12, <1>13, PrivateKeeps DEF Tx

\* A bucket's query sees all of its facts: nothing read before is missed.
LEMMA ReadBucketKeeps ==
  ASSUME IInv, NEW w \in Writers, NEW b \in Minutes, ReadBucket(w, b)
  PROVE  IInv'
<1>1. TypeOK /\ Tx(w)
  BY DEF IInv
<1> DEFINE S == InBucket(facts \cup Own(w), b)
           rows == UNION {RowsOf("pool", e) : e \in S}
<1>2. /\ stage[w] = "read" /\ b \in todo[w]
      /\ seen' = [seen EXCEPT ![w][b] = S]
      /\ todo' = [todo EXCEPT ![w] = @ \ {b}]
      /\ bucket' = [bucket EXCEPT ![w] = b]
      /\ Go(w, "pool", rows)
      /\ UNCHANGED overlap
  BY DEF ReadBucket
<1>3. pos[w] \in DOMAIN program[w]
  BY <1>1, <1>2 DEF Tx, Position, Open, Stages
<1>4. Own(w) \subseteq NetFills /\ S \in SUBSET NetFills
  BY <1>1, <1>3, JobFacts DEF TypeOK, InBucket
<1>5. rows \in SUBSET Rows
  BY <1>4, BucketRows
<1>6. /\ stage' \in [Writers -> Stages] /\ left' \in [Writers -> SUBSET Rows]
      /\ stage'[w] = "pool" /\ left'[w] = rows
      /\ UNCHANGED <<facts, rollup, processed, program, lock, pos, want>>
  <2>1. "pool" \in Stages
    BY DEF Stages
  <2>2. Go(w, "pool", rows) /\ TypeOK
    BY <1>1, <1>2
  <2> HIDE DEF rows
  <2>3. QED BY <1>5, <2>1, <2>2, Going
<1>7. /\ todo'[w] = todo[w] \ {b} /\ bucket'[w] = b /\ seen'[w][b] = S
      /\ \A c \in Minutes \ {b} : seen'[w][c] = seen[w][c]
  BY <1>1, <1>2 DEF TypeOK
<1>8. TypeOK'
  BY <1>1, <1>2, <1>4, <1>6 DEF TypeOK
<1>9. Private(w)
  <2>1. \A v \in Writers \ {w} :
           /\ todo'[v] = todo[v] /\ bucket'[v] = bucket[v]
           /\ seen'[v] = seen[v] /\ overlap'[v] = overlap[v]
    BY <1>1, <1>2 DEF TypeOK
  <2>2. QED BY <1>1, <1>2, <1>5, <2>1, GoingIsPrivate DEF Stages
<1>10. /\ Current(w)' = Current(w) /\ NewFills(w)' = NewFills(w)
       /\ MinutesOf(Current(w))' = MinutesOf(Current(w))
  BY <1>6, SameJob
<1>11. Own(w)' = Own(w)
  BY <1>2, <1>6, <1>10 DEF Own
<1>12. Position(w)'
  BY <1>1, <1>2, <1>3, <1>6, <1>7, <1>10 DEF Tx, Position, Reads
<1>13. \A c \in Minutes : seen[w][c] \subseteq seen'[w][c]
  BY <1>1, <1>2, <1>7 DEF Tx, Reading, Reads
<1>14. Reading(w)'
  <2>1. \A c \in Minutes : seen'[w][c] \subseteq InBucket(facts \cup Own(w), c)
    BY <1>1, <1>2, <1>7 DEF Tx, Reading, Reads
  <2>2. ASSUME NEW e \in NewFills(w)
        PROVE  Bucket(e) \in todo'[w] \/ e \in seen'[w][Bucket(e)]
    <3>1. Bucket(e) \in Minutes
      BY <1>1, <1>3, JobFacts
    <3>2. CASE Bucket(e) = b
      <4>1. e \in Own(w)
        BY <1>2 DEF Own
      <4>2. QED BY <1>7, <3>2, <4>1 DEF InBucket
    <3>3. CASE Bucket(e) # b
      BY <1>1, <1>2, <1>7, <3>1, <3>3 DEF Tx, Reading, Reads
    <3>4. QED BY <3>2, <3>3
  <2>3. Undisturbed(w)' <=> Undisturbed(w)
    BY <1>2, <1>6 DEF Undisturbed, ClosedMinutes
  <2>4. ASSUME Undisturbed(w), NEW c \in Minutes, seen'[w][c] # {}
        PROVE  InBucket(facts \cup Own(w), c) \subseteq seen'[w][c]
    BY <1>1, <1>2, <1>7, <2>4 DEF Tx, Reading, Reads
  <2>5. QED BY <1>6, <1>10, <1>11, <2>1, <2>2, <2>3, <2>4 DEF Reading
<1>15. Recomputed(w) \subseteq Recomputed(w)'
  BY <1>13 DEF Recomputed
<1>16. Locking(w)'
  <2>1. rows \subseteq Recomputed(w)'
    <3>1. rows \subseteq UNION {MetricsOf(e) : e \in S}
      BY <1>4, BucketRows
    <3>2. S \subseteq UNION {seen'[w][c] : c \in Minutes}
      BY <1>7
    <3>3. UNION {MetricsOf(e) : e \in S} \subseteq Recomputed(w)'
      BY <3>2 DEF Recomputed, MetricsOf, RowsOf
    <3>4. QED BY <3>1, <3>3
  <2>2. want'[w] = Free
    BY <1>1, <1>2, <1>6 DEF Tx, Position, Locking
  <2>3. QED BY <1>1, <1>6, <1>15, <2>1, <2>2 DEF Tx, Locking
<1>17. Holding(w)'
  <2>1. SUFFICES ASSUME NEW c \in Minutes, NEW e \in seen'[w][c]
        PROVE  /\ \A r \in RowsOf("pool", e) :
                    lock[r] = w \/ (b = c /\ r \in rows)
               /\ \A r \in RowsOf("bm", e) : lock[r] = w \/ b = c
    BY <1>6, <1>7 DEF Holding, RowsOf
  <2>2. CASE c = b
    BY <1>7, <2>2
  <2>3. CASE c # b
    <3>1. e \in seen[w][c]
      BY <1>7, <2>3
    <3>2. QED BY <1>1, <1>2, <3>1 DEF Tx, Holding
  <2>4. QED BY <2>2, <2>3
<1>18. QED BY <1>8, <1>9, <1>12, <1>14, <1>16, <1>17, PrivateKeeps DEF Tx

\* The steps from statement to statement of a transaction that has read.
LEMMA AdvanceKeeps ==
  ASSUME IInv, NEW w \in Writers, NEW s \in Reads, NEW rows \in SUBSET Rows,
         stage[w] \in Reads, left[w] = {}, Go(w, s, rows),
         UNCHANGED <<todo, bucket, seen, overlap>>,
         s \in {"progress", "commit"} => todo[w] = {},
         s \in {"read", "commit"} => rows = {},
         rows \cap MetricRows \subseteq Recomputed(w), Holding(w)'
  PROVE  IInv'
<1>1. TypeOK /\ Tx(w)
  BY DEF IInv
<1>2. s \in Stages
  BY DEF Reads, Stages
<1>3. /\ stage' \in [Writers -> Stages] /\ left' \in [Writers -> SUBSET Rows]
      /\ stage'[w] = s /\ left'[w] = rows
      /\ UNCHANGED <<facts, rollup, processed, program, lock, pos, want>>
  BY <1>1, <1>2, Going
<1>4. TypeOK'
  BY <1>1, <1>3 DEF TypeOK
<1>5. Private(w)
  BY <1>1, <1>2, GoingIsPrivate
<1>6. /\ Current(w)' = Current(w) /\ NewFills(w)' = NewFills(w)
      /\ MinutesOf(Current(w))' = MinutesOf(Current(w))
  BY <1>3, SameJob
<1>7. pos[w] \in DOMAIN program[w]
  BY <1>1 DEF Tx, Position, Open, Stages, Reads
<1>8. Position(w)'
  BY <1>1, <1>3, <1>6, <1>7 DEF Tx, Position, Reads
<1>9. Reading(w)'
  <2>1. Own(w)' = Own(w)
    BY <1>3, <1>6 DEF Own, Reads
  <2>2. Undisturbed(w)' <=> Undisturbed(w)
    BY <1>3 DEF Undisturbed, ClosedMinutes
  <2>3. QED BY <1>1, <1>3, <1>6, <2>1, <2>2 DEF Tx, Reading
<1>10. Locking(w)'
  <2>1. Recomputed(w)' = Recomputed(w)
    BY DEF Recomputed
  <2>2. want[w] = Free
    BY <1>1 DEF Tx, Locking
  <2>3. QED BY <1>1, <1>3, <2>1, <2>2 DEF Tx, Locking
<1>11. QED BY <1>4, <1>5, <1>8, <1>9, <1>10, PrivateKeeps DEF Tx

LEMMA UpsertBmsKeeps ==
  ASSUME IInv, NEW w \in Writers, UpsertBms(w)
  PROVE  IInv'
<1>1. TypeOK /\ Tx(w)
  BY DEF IInv
<1> DEFINE S == seen[w][bucket[w]]
           rows == UNION {RowsOf("bm", e) : e \in S}
<1>2. /\ stage[w] = "pool" /\ left[w] = {} /\ Go(w, "bm", rows)
      /\ UNCHANGED <<todo, bucket, seen, overlap>>
  BY DEF UpsertBms
<1>3. bucket[w] \in Minutes /\ S \in SUBSET NetFills
  BY <1>1 DEF TypeOK
<1>4. rows \in SUBSET Rows /\ rows \subseteq UNION {MetricsOf(e) : e \in S}
  BY <1>3, BucketRows
<1>5. rows \subseteq Recomputed(w)
  BY <1>3, <1>4 DEF Recomputed
<1>6. stage'[w] = "bm" /\ left'[w] = rows /\ lock' = lock
  BY <1>1, <1>2, <1>4, Going DEF Stages
<1>7. Holding(w)'
  <2>1. SUFFICES ASSUME NEW b \in Minutes, NEW e \in seen[w][b]
        PROVE  /\ \A r \in RowsOf("pool", e) : lock[r] = w
               /\ \A r \in RowsOf("bm", e) :
                    lock[r] = w \/ (bucket[w] = b /\ r \in rows)
    BY <1>2, <1>6 DEF Holding, RowsOf
  <2>2. QED BY <1>1, <1>2 DEF Tx, Holding
<1>8. QED BY <1>2, <1>4, <1>5, <1>7, AdvanceKeeps DEF Reads

LEMMA BucketDoneKeeps ==
  ASSUME IInv, NEW w \in Writers, BucketDone(w)
  PROVE  IInv'
<1>1. TypeOK /\ Tx(w)
  BY DEF IInv
<1>2. /\ stage[w] = "bm" /\ left[w] = {} /\ Go(w, "read", {})
      /\ UNCHANGED <<todo, bucket, seen, overlap>>
  BY DEF BucketDone
<1>3. stage'[w] = "read" /\ lock' = lock
  BY <1>1, <1>2, Going DEF Stages
<1>4. Holding(w)'
  BY <1>1, <1>2, <1>3 DEF Tx, Holding, RowsOf
<1>5. QED BY <1>2, <1>4, AdvanceKeeps DEF Reads

LEMMA BucketsDoneKeeps ==
  ASSUME IInv, NEW w \in Writers, BucketsDone(w)
  PROVE  IInv'
<1>1. TypeOK /\ Tx(w)
  BY DEF IInv
<1>2. /\ stage[w] = "read" /\ todo[w] = {}
      /\ UNCHANGED <<todo, bucket, seen, overlap>>
  BY DEF BucketsDone
<1>3. left[w] = {}
  BY <1>1, <1>2 DEF Tx, Position
<1>4. CASE Ingests(w)
  <2>1. Go(w, "progress", {StateRow})
    BY <1>4 DEF BucketsDone
  <2>2. {StateRow} \in SUBSET Rows /\ {StateRow} \cap MetricRows = {}
    BY OtherRows DEF Rows
  <2>3. stage'[w] = "progress" /\ lock' = lock
    BY <1>1, <2>1, <2>2, Going DEF Stages
  <2>4. Holding(w)'
    BY <1>1, <1>2, <2>3 DEF Tx, Holding, RowsOf
  <2>5. QED BY <1>2, <1>3, <2>1, <2>2, <2>4, AdvanceKeeps DEF Reads
<1>5. CASE ~Ingests(w)
  <2>1. Go(w, "commit", {})
    BY <1>5 DEF BucketsDone
  <2>2. stage'[w] = "commit" /\ lock' = lock
    BY <1>1, <2>1, Going DEF Stages
  <2>3. Holding(w)'
    BY <1>1, <1>2, <2>2 DEF Tx, Holding, RowsOf
  <2>4. QED BY <1>2, <1>3, <2>1, <2>3, AdvanceKeeps DEF Reads
<1>6. QED BY <1>4, <1>5

LEMMA ProgressDoneKeeps ==
  ASSUME IInv, NEW w \in Writers, ProgressDone(w)
  PROVE  IInv'
<1>1. TypeOK /\ Tx(w)
  BY DEF IInv
<1>2. /\ stage[w] = "progress" /\ left[w] = {} /\ Go(w, "commit", {})
      /\ UNCHANGED <<todo, bucket, seen, overlap>>
  BY DEF ProgressDone
<1>3. todo[w] = {} /\ stage'[w] = "commit" /\ lock' = lock
  BY <1>1, <1>2, Going DEF Tx, Position, Stages
<1>4. Holding(w)'
  BY <1>1, <1>2, <1>3 DEF Tx, Holding, RowsOf
<1>5. QED BY <1>2, <1>3, <1>4, AdvanceKeeps DEF Reads
-----------------------------------------------------------------------------
(* The ends of a transaction. *)

\* A transaction that has ended holds no metric row and has read nothing.
LEMMA EndKeepsOwn ==
  ASSUME TypeOK, NEW w \in Writers, Tx(w), NEW s \in {"begin", "failed"}, End(w, s)
  PROVE  Tx(w)'
<1>1. s \in Stages
  BY DEF Stages
<1>2. /\ stage'[w] = s /\ todo'[w] = {} /\ left'[w] = {} /\ want'[w] = Free
      /\ \A b \in Minutes : seen'[w][b] = {}
  BY <1>1, Ended
<1>3. \A r \in Rows : lock'[r] # w
  BY Passing
<1>4. Position(w)'
  BY <1>2 DEF Position, Reads, Open
<1>5. Reading(w)' /\ Holding(w)'
  BY <1>2 DEF Reading, Holding, Reads
<1>6. Locking(w)'
  BY <1>2, <1>3 DEF Locking, Rows
<1>7. QED BY <1>4, <1>5, <1>6 DEF Tx

LEMMA AbortKeeps ==
  ASSUME IInv, NEW w \in Writers, Abort(w)
  PROVE  IInv'
<1>1. TypeOK /\ Tx(w)
  BY DEF IInv
<1>2. PICK s \in {"begin", "failed"} : End(w, s)
  BY DEF Abort
<1>3. UNCHANGED <<facts, rollup, processed, program, pos, bucket, overlap>>
  BY DEF Abort
<1>4. s \in Stages
  BY DEF Stages
<1>5. /\ stage' \in [Writers -> Stages] /\ todo' \in [Writers -> SUBSET Minutes]
      /\ seen' \in [Writers -> [Minutes -> SUBSET NetFills]]
      /\ left' \in [Writers -> SUBSET Rows]
      /\ want' \in [Writers -> Rows \cup {Free}]
      /\ \A v \in Writers \ {w} :
           /\ stage'[v] = stage[v] /\ todo'[v] = todo[v] /\ seen'[v] = seen[v]
           /\ left'[v] = left[v] /\ want'[v] = want[v]
  BY <1>1, <1>2, <1>4, Ended
<1>6. /\ lock' \in [Rows -> Writers \cup {Free}]
      /\ \A r \in Rows, v \in Writers :
           lock'[r] = v => (lock[r] = v /\ v # w) \/ (want[v] = r /\ v # w)
      /\ \A r \in Rows : lock[r] # w => lock'[r] = lock[r]
  BY <1>1, <1>2, Passing
<1>7. TypeOK'
  BY <1>1, <1>3, <1>5, <1>6 DEF TypeOK
<1>8. Private(w)
  BY <1>3, <1>5, <1>6 DEF Private
<1>9. Tx(w)'
  BY <1>1, <1>2, EndKeepsOwn
<1>10. QED BY <1>7, <1>8, <1>9, PrivateKeeps

\* The commit of a transaction that no other could disturb makes the rows it
\* recomputed the aggregates of exactly the facts then in the table.
LEMMA CommitRepairs ==
  ASSUME IInv, NEW w \in Writers, Commit(w), Undisturbed(w),
         NEW r \in Recomputed(w)
  PROVE  rollup'[r] = Aggregate(facts', r)
<1>1. TypeOK /\ Tx(w) /\ stage[w] = "commit"
  BY DEF IInv, Commit
<1>2. PICK b \in Minutes : \E f \in seen[w][b] : r \in MetricsOf(f)
  BY DEF Recomputed
<1>3. PICK e \in seen[w][b] : r \in MetricsOf(e)
  BY <1>2
<1>4. r \in MetricRows
  BY <1>1, <1>3, Networked, MetricRowFacts DEF TypeOK
<1>5. lock[r] = w
  BY <1>1, <1>3 DEF Tx, Holding, MetricsOf
<1> DEFINE All == UNION {seen[w][c] : c \in Minutes}
<1>6. rollup'[r] = Aggregate(All, r)
  BY <1>4, <1>5 DEF Commit
<1>7. facts' = facts \cup Own(w)
  BY DEF Commit
<1>8. \A c \in Minutes : seen[w][c] \subseteq InBucket(facts', c)
  BY <1>1, <1>7 DEF Tx, Reading, Reads
<1>9. InBucket(facts', b) \subseteq seen[w][b]
  BY <1>1, <1>3, <1>7 DEF Tx, Reading, Reads
<1>10. Bucket(e) = b
  BY <1>3, <1>8 DEF InBucket
<1>11. ASSUME NEW f \in Aggregate(All, r) PROVE f \in Aggregate(facts', r)
  BY <1>8, <1>11 DEF Aggregate, InBucket
<1>12. ASSUME NEW f \in Aggregate(facts', r) PROVE f \in Aggregate(All, r)
  <2>1. f \in facts' /\ r \in MetricsOf(f)
    BY <1>12 DEF Aggregate
  <2>2. Bucket(f) = b
    BY <1>3, <1>10, <2>1, RowNamesBucket
  <2>3. f \in All
    BY <1>9, <2>1, <2>2 DEF InBucket
  <2>4. QED BY <2>1, <2>3 DEF Aggregate
<1>13. Aggregate(All, r) = Aggregate(facts', r)
  BY <1>11, <1>12
<1>14. QED BY <1>6, <1>13

\* A commit leaves no metric row behind: a fill it adds is in rows that it
\* recomputed.
LEMMA CommitReaches ==
  ASSUME IInv, NEW w \in Writers, Commit(w), NEW r \in MetricRows,
         r \notin Recomputed(w)
  PROVE  rollup'[r] = rollup[r] /\ Aggregate(facts', r) = Aggregate(facts, r)
<1>1. TypeOK /\ Tx(w) /\ stage[w] = "commit"
  BY DEF IInv, Commit
<1>2. lock[r] # w
  BY <1>1 DEF Tx, Locking
<1>3. rollup'[r] = rollup[r]
  BY <1>2 DEF Commit
<1>4. pos[w] \in DOMAIN program[w] /\ todo[w] = {}
  BY <1>1 DEF Tx, Position, Open, Stages
<1>5. ASSUME NEW e \in Own(w) PROVE r \notin MetricsOf(e)
  <2>1. e \in NewFills(w) /\ Bucket(e) \in Minutes
    BY <1>1, <1>4, JobFacts
  <2>2. e \in seen[w][Bucket(e)]
    BY <1>1, <1>4, <2>1 DEF Tx, Reading, Reads
  <2>3. QED BY <2>1, <2>2 DEF Recomputed
<1>6. facts' = facts \cup Own(w)
  BY DEF Commit
<1>7. QED BY <1>3, <1>5, <1>6 DEF Aggregate

\* What a commit adds lies in minutes that no other transaction reads, if all
\* ingestions are in closed minutes.
LEMMA CommitApart ==
  ASSUME IInv, NEW w \in Writers, Commit(w), NEW v \in Writers \ {w},
         stage[v] \in Reads, ClosedMinutes, NEW b \in MinutesOf(Current(v))
  PROVE  InBucket(facts', b) \subseteq InBucket(facts, b)
<1>1. TypeOK /\ Tx(w) /\ stage[w] = "commit" /\ Tx(v)
  BY DEF IInv, Commit
<1>2. pos[w] \in DOMAIN program[w] /\ pos[v] \in DOMAIN program[v]
  BY <1>1 DEF Tx, Position, Open, Stages, Reads
<1>3. ASSUME NEW e \in Own(w) PROVE Bucket(e) # b
  <2>1. e \in NewFills(w) /\ Bucket(e) \in MinutesOf(Current(w))
    BY <1>1, <1>2, JobFacts
  <2>2. Current(w).kind = "ingest"
    BY <2>1 DEF NewFills, Ingests
  <2>3. MinutesOf(Current(w)) \cap MinutesOf(Current(v)) = {}
    BY <1>2, <2>2 DEF ClosedMinutes, Current
  <2>4. QED BY <2>1, <2>3
<1>4. facts' = facts \cup Own(w)
  BY DEF Commit
<1>5. QED BY <1>3, <1>4 DEF InBucket

\* A writer comes to a checkpoint when all before it are in the table; so the
\* progress row, which its commit raises to it, never covers a gap in the table.
LEMMA CommitProgresses ==
  ASSUME IInv, NEW w \in Writers, Commit(w)
  PROVE  Progressed'
<1>1. TypeOK /\ Progressed /\ Tx(w) /\ stage[w] = "commit"
  BY DEF IInv, Commit
<1>2. /\ facts' = facts \cup Own(w) /\ processed' = Progress(w)
      /\ pos' = [pos EXCEPT ![w] = @ + 1] /\ program' = program
  BY DEF Commit
<1>3. pos[w] \in DOMAIN program[w]
  BY <1>1 DEF Tx, Position, Open, Stages
<1>4. program \in [Writers -> Seq(Job)]
  BY <1>1, WritersAssumption DEF TypeOK
<1>5. \A n \in Int : Covered(facts, n) => Covered(facts', n)
  BY <1>2 DEF Covered
<1>6. ASSUME Ingests(w) PROVE Covered(facts', Current(w).from)
  <2> DEFINE n == Current(w).from
  <2>1. n \in Nat /\ NewFills(w) = FillsOf(<<net, n>>)
    <3>1. Current(w) \in Job
      BY <1>1, <1>3, JobFacts
    <3>2. n \in Seqs
      BY <3>1 DEF Job
    <3>3. QED BY <1>6, <3>2, ChainAssumption DEF Seqs, NewFills
  <2>2. FillsOf(<<net, n>>) \subseteq facts'
    BY <1>1, <1>2, <2>1 DEF Own
  <2>3. CASE n = 0
    BY <2>2, <2>3 DEF Covered
  <2>4. CASE n > 0
    <3>1. \/ n - 1 \in Indexed
          \/ \E k \in 1..(pos[w] - 1) : /\ program[w][k].kind = "ingest"
                                        /\ program[w][k].from = n - 1
      BY <1>1, <1>3, <1>6, <2>4, InOrderAssumption DEF TypeOK, Ingests, Current
    <3>2. ASSUME NEW k \in 1..(pos[w] - 1), program[w][k].kind = "ingest",
                 program[w][k].from = n - 1
          PROVE  Covered(facts, n - 1)
      <4>1. program[w] \in Seq(Job) /\ pos[w] \in Nat
        BY <1>1, <1>4 DEF TypeOK
      <4>2. k \in DOMAIN program[w] /\ k < pos[w]
        BY <1>3, <3>2, <4>1
      <4>3. QED BY <1>1, <3>2, <4>2 DEF Progressed
    <3>3. Covered(facts, n - 1)
      BY <1>1, <3>1, <3>2 DEF Progressed
    <3>4. ASSUME NEW m \in 0..n PROVE FillsOf(<<net, m>>) \subseteq facts'
      <4>1. CASE m = n
        BY <2>2, <4>1
      <4>2. CASE m # n
        <5>1. m \in 0..(n - 1)
          BY <2>1, <4>2
        <5>2. QED BY <1>2, <3>3, <5>1 DEF Covered
      <4>3. QED BY <4>1, <4>2
    <3>5. QED BY <3>4 DEF Covered, FillsOf
  <2>5. QED BY <2>1, <2>3, <2>4
<1>7. Covered(facts', processed')
  <2>1. CASE Ingests(w) /\ Current(w).to > processed
    <3>1. processed' = Current(w).from
      BY <1>1, <1>2, <1>3, <2>1, JobFacts DEF Progress
    <3>2. QED BY <1>6, <2>1, <3>1 DEF Covered
  <2>2. CASE ~(Ingests(w) /\ Current(w).to > processed)
    <3>1. processed' = processed
      BY <1>2, <2>2 DEF Progress
    <3>2. QED BY <1>1, <1>2, <3>1 DEF Progressed, Covered
  <2>3. QED BY <2>1, <2>2
<1>8. \A n \in Indexed : Covered(facts', n)
  BY <1>1, <1>2 DEF Progressed, Covered
<1>9. ASSUME NEW v \in Writers, NEW k \in DOMAIN program[v],
             k < pos'[v], program[v][k].kind = "ingest"
      PROVE  Covered(facts', program[v][k].from)
  <2>1. CASE k < pos[v]
    <3>1. Covered(facts, program[v][k].from)
      BY <1>1, <1>9, <2>1 DEF Progressed
    <3>2. QED BY <1>2, <3>1 DEF Covered
  <2>2. CASE ~(k < pos[v])
    <3>1. pos[v] \in Nat /\ k \in Nat
      BY <1>1, <1>4 DEF TypeOK
    <3>2. v = w /\ k = pos[w]
      <4>1. pos \in [Writers -> Nat \ {0}]
        BY <1>1 DEF TypeOK
      <4>2. v # w => pos'[v] = pos[v]
        BY <1>2, <4>1
      <4>3. pos'[w] = pos[w] + 1
        BY <1>2, <4>1
      <4>4. v = w
        BY <1>9, <2>2, <4>2
      <4>5. k < pos[w] + 1 /\ ~(k < pos[w]) /\ pos[w] \in Nat
        BY <1>9, <2>2, <3>1, <4>3, <4>4
      <4>6. QED BY <3>1, <4>4, <4>5
    <3>3. Ingests(w) /\ program[v][k] = Current(w)
      BY <1>9, <3>2 DEF Ingests, Current
    <3>4. Covered(facts', Current(w).from)
      BY <1>6, <3>3
    <3>5. QED BY <1>2, <3>2, <3>4 DEF Covered, Current
  <2>3. QED BY <2>1, <2>2
<1>10. QED BY <1>2, <1>7, <1>8, <1>9 DEF Progressed, Covered

LEMMA CommitKeeps ==
  ASSUME IInv, NEW w \in Writers, Commit(w)
  PROVE  IInv'
<1>1. TypeOK /\ Tx(w) /\ stage[w] = "commit"
  BY DEF IInv, Commit
<1>2. /\ facts' = facts \cup Own(w) /\ processed' = Progress(w)
      /\ rollup' = [r \in MetricRows |->
                      IF lock[r] = w
                      THEN Aggregate(UNION {seen[w][b] : b \in Minutes}, r)
                      ELSE rollup[r]]
      /\ overlap' = [v \in Writers |-> IF v = w THEN FALSE ELSE TRUE]
      /\ End(w, "begin") /\ pos' = [pos EXCEPT ![w] = @ + 1]
      /\ UNCHANGED <<program, bucket, faults>>
  BY DEF Commit
<1>3. pos[w] \in DOMAIN program[w]
  BY <1>1 DEF Tx, Position, Open, Stages
<1>4. /\ stage' \in [Writers -> Stages] /\ todo' \in [Writers -> SUBSET Minutes]
      /\ seen' \in [Writers -> [Minutes -> SUBSET NetFills]]
      /\ left' \in [Writers -> SUBSET Rows]
      /\ want' \in [Writers -> Rows \cup {Free}]
      /\ \A v \in Writers \ {w} :
           /\ stage'[v] = stage[v] /\ todo'[v] = todo[v] /\ seen'[v] = seen[v]
           /\ left'[v] = left[v] /\ want'[v] = want[v]
  BY <1>1, <1>2, Ended DEF Stages
<1>5. /\ lock' \in [Rows -> Writers \cup {Free}]
      /\ \A r \in Rows, v \in Writers :
           lock'[r] = v => (lock[r] = v /\ v # w) \/ (want[v] = r /\ v # w)
      /\ \A r \in Rows : lock[r] # w => lock'[r] = lock[r]
  BY <1>1, <1>2, Passing
<1>6. TypeOK'
  <2>1. facts' \subseteq NetFills
    BY <1>1, <1>2, <1>3, JobFacts DEF TypeOK
  <2>2. processed' \in Int
    <3>1. Current(w).to \in Seqs
      BY <1>1, <1>3, JobFacts DEF Job
    <3>2. Current(w).to \in Int
      BY <3>1, ChainAssumption DEF Seqs
    <3>3. QED BY <1>1, <1>2, <3>2 DEF Progress, TypeOK
  <2>3. pos' \in [Writers -> Nat \ {0}]
    BY <1>1, <1>2 DEF TypeOK
  <2>4. overlap' \in [Writers -> BOOLEAN]
    BY <1>2
  <2>5. rollup' = [r \in MetricRows |-> rollup'[r]]
    BY <1>2
  <2>6. program' \in Programs /\ bucket' \in [Writers -> Minutes]
    BY <1>1, <1>2 DEF TypeOK
  <2>7. QED BY <1>4, <1>5, <2>1, <2>2, <2>3, <2>4, <2>5, <2>6 DEF TypeOK
<1>7. ASSUME NEW v \in Writers PROVE Tx(v)'
  <2>1. CASE v = w
    BY <1>1, <1>2, <2>1, EndKeepsOwn
  <2>2. CASE v # w
    <3>1. TypeOK /\ Tx(v) /\ v \in Writers \ {w}
      BY <2>2 DEF IInv
    <3>2. /\ stage'[v] = stage[v] /\ todo'[v] = todo[v] /\ seen'[v] = seen[v]
          /\ left'[v] = left[v] /\ want'[v] = want[v]
      BY <1>4, <3>1
    <3>3. pos'[v] = pos[v] /\ bucket'[v] = bucket[v] /\ overlap'[v] = TRUE
      BY <1>2, <2>2, <3>1 DEF TypeOK
    <3>4. /\ \A r \in Rows : lock[r] = v => lock'[r] = v
          /\ \A r \in Rows : lock'[r] = v => lock[r] = v \/ want[v] = r
      BY <1>5, <2>2
    <3>5. (stage[v] \in Reads /\ Undisturbed(v)') =>
            /\ Undisturbed(v)
            /\ \A b \in MinutesOf(Current(v)) :
                 InBucket(facts', b) \subseteq InBucket(facts, b)
      <4>1. SUFFICES ASSUME stage[v] \in Reads, Undisturbed(v)'
                     PROVE  /\ Undisturbed(v)
                            /\ \A b \in MinutesOf(Current(v)) :
                                 InBucket(facts', b) \subseteq InBucket(facts, b)
        OBVIOUS
      <4>2. ClosedMinutes
        BY <1>2, <3>3, <4>1 DEF Undisturbed, ClosedMinutes
      <4>3. QED BY <3>1, <4>1, <4>2, CommitApart DEF Undisturbed
    <3>6. facts \subseteq facts' /\ program' = program
      BY <1>2
    <3>7. QED BY <3>1, <3>2, <3>3, <3>4, <3>5, <3>6, OthersKeep
  <2>3. QED BY <2>1, <2>2
<1>8. ClosedReplaysAreSafe'
  <2>1. SUFFICES ASSUME ClosedMinutes', NEW r \in MetricRows
                 PROVE  rollup'[r] = Aggregate(facts', r)
    BY DEF ClosedReplaysAreSafe, RollupsMatchFacts, Matches, Aggregate, MetricsOf, RowsOf
  <2>2. ClosedMinutes
    BY <1>2, <2>1 DEF ClosedMinutes
  <2>3. CASE r \in Recomputed(w)
    BY <2>2, <2>3, CommitRepairs DEF Undisturbed
  <2>4. CASE r \notin Recomputed(w)
    <3>1. rollup[r] = Aggregate(facts, r)
      BY <2>2 DEF IInv, ClosedReplaysAreSafe, RollupsMatchFacts, Matches
    <3>2. QED BY <2>4, <3>1, CommitReaches
  <2>5. QED BY <2>3, <2>4
<1>9. QED BY <1>6, <1>7, <1>8, CommitProgresses DEF IInv
-----------------------------------------------------------------------------
LEMMA InitIInv == Init => IInv
<1>1. SUFFICES ASSUME Init PROVE IInv
  OBVIOUS
<1>2. /\ facts = Start /\ rollup = [r \in MetricRows |-> Aggregate(Start, r)]
      /\ processed \in Int /\ Indexed = 0..processed /\ program \in Programs
      /\ lock = [r \in Rows |-> Free] /\ pos = [w \in Writers |-> 1]
      /\ stage = [w \in Writers |-> "begin"] /\ todo = [w \in Writers |-> {}]
      /\ seen = [w \in Writers |-> [b \in Minutes |-> {}]]
      /\ left = [w \in Writers |-> {}] /\ want = [w \in Writers |-> Free]
      /\ overlap = [w \in Writers |-> FALSE]
  <2>1. \A n \in -1..LastSeq : n \in Int
    BY ChainAssumption
  <2>2. QED BY <1>1, <2>1 DEF Init
<1>3. bucket \in [Writers -> Minutes]
  <2>1. 0 \in Seqs
    BY ChainAssumption DEF Seqs
  <2>2. <<net, 0>> \in Blocks
    BY <2>1, WritersAssumption DEF Blocks
  <2>3. MinuteOf[<<net, 0>>] \in Minutes
    BY <2>2, ChainAssumption
  <2>4. (CHOOSE b \in Minutes : TRUE) \in Minutes
    BY <2>3
  <2>5. QED BY <1>1, <2>4 DEF Init
<1>4. TypeOK
  <2>1. Start \subseteq NetFills
    BY WritersAssumption DEF Start, NetFills
  <2>2. QED BY <1>2, <1>3, <2>1 DEF TypeOK, Stages
<1>5. Progressed
  <2>1. ASSUME NEW n \in Indexed PROVE FillsOf(<<net, n>>) \subseteq facts
    BY <1>2 DEF Start
  <2>2. \A n \in Indexed : n \in Int /\ 0..n \subseteq Indexed
    BY <1>2
  <2>3. ASSUME NEW w \in Writers, NEW k \in DOMAIN program[w], k < pos[w]
        PROVE  FALSE
    <3>1. program \in [Writers -> Seq(Job)] /\ pos[w] = 1
      BY <1>2, WritersAssumption
    <3>2. k \in 1..Len(program[w])
      BY <3>1
    <3>3. QED BY <2>3, <3>1, <3>2
  <2>4. QED BY <1>2, <2>1, <2>2, <2>3 DEF Progressed, Covered
<1>6. ASSUME NEW w \in Writers PROVE Tx(w)
  <2>1. /\ stage[w] = "begin" /\ todo[w] = {} /\ left[w] = {} /\ want[w] = Free
        /\ \A b \in Minutes : seen[w][b] = {}
    BY <1>2
  <2>2. \A r \in MetricRows : lock[r] # w
    BY <1>2, WritersAssumption DEF Rows
  <2>3. Position(w)
    BY <2>1 DEF Position, Reads, Open
  <2>4. Reading(w) /\ Holding(w)
    BY <2>1 DEF Reading, Holding, Reads
  <2>5. Locking(w)
    BY <2>1, <2>2 DEF Locking
  <2>6. QED BY <2>3, <2>4, <2>5 DEF Tx
<1>7. ClosedReplaysAreSafe
  BY <1>2 DEF ClosedReplaysAreSafe, RollupsMatchFacts, Matches
<1>8. QED BY <1>4, <1>5, <1>6, <1>7 DEF IInv

LEMMA StutterKeeps == IInv /\ UNCHANGED vars => IInv'
<1>1. SUFFICES ASSUME IInv, UNCHANGED vars PROVE IInv'
  OBVIOUS
<1>2. TypeOK' /\ Progressed'
  BY <1>1 DEF IInv, TypeOK, Progressed, vars
<1>3. \A w \in Writers : Tx(w)'
  <2>1. SUFFICES ASSUME NEW w \in Writers PROVE Tx(w)'
    OBVIOUS
  <2>2. Tx(w)
    BY <1>1 DEF IInv
  <2>3. Position(w)'
    BY <1>1, <2>2 DEF Tx, Position, MinutesOf, Current, vars
  <2>4. Reading(w)'
    <3>1. Current(w)' = Current(w) /\ NewFills(w)' = NewFills(w)
      BY <1>1, SameJob DEF vars
    <3>2. Own(w)' = Own(w) /\ (Undisturbed(w)' <=> Undisturbed(w))
      BY <1>1, <3>1 DEF vars, Own, Undisturbed, ClosedMinutes
    <3>3. QED BY <1>1, <2>2, <3>1, <3>2 DEF Tx, Reading, vars
  <2>5. Locking(w)' /\ Holding(w)'
    BY <1>1, <2>2 DEF Tx, Locking, Holding, Recomputed, RowsOf, vars
  <2>6. QED BY <2>3, <2>4, <2>5 DEF Tx
<1>4. ClosedReplaysAreSafe'
  BY <1>1 DEF IInv, ClosedReplaysAreSafe, ClosedMinutes, RollupsMatchFacts,
              Matches, vars
<1>5. QED BY <1>2, <1>3, <1>4 DEF IInv

LEMMA StepKeepsIInv == IInv /\ [Next]_vars => IInv'
<1>1. SUFFICES ASSUME IInv, NEW w \in Writers, Step(w) \/ Abort(w) PROVE IInv'
  BY StutterKeeps DEF Next
<1>2. CASE Begin(w)
  BY <1>1, <1>2, BeginKeeps
<1>3. CASE Affected(w)
  BY <1>1, <1>3, AffectedKeeps
<1>4. CASE UpsertBms(w)
  BY <1>1, <1>4, UpsertBmsKeeps
<1>5. CASE BucketDone(w)
  BY <1>1, <1>5, BucketDoneKeeps
<1>6. CASE BucketsDone(w)
  BY <1>1, <1>6, BucketsDoneKeeps
<1>7. CASE ProgressDone(w)
  BY <1>1, <1>7, ProgressDoneKeeps
<1>8. CASE Commit(w)
  BY <1>1, <1>8, CommitKeeps
<1>9. ASSUME NEW r \in Rows, Lock(w, r) PROVE IInv'
  BY <1>1, <1>9, LockKeeps
<1>10. ASSUME NEW r \in Rows, Wait(w, r) PROVE IInv'
  BY <1>1, <1>10, WaitKeeps
<1>11. ASSUME NEW b \in Minutes, ReadBucket(w, b) PROVE IInv'
  BY <1>1, <1>11, ReadBucketKeeps
<1>12. CASE Abort(w)
  BY <1>1, <1>12, AbortKeeps
<1>13. QED
  BY <1>1, <1>2, <1>3, <1>4, <1>5, <1>6, <1>7, <1>8, <1>9, <1>10, <1>11, <1>12
  DEF Step
-----------------------------------------------------------------------------
\* The invariant holds in every reachable state, whatever interleaving.
THEOREM Invariance == Spec => []IInv
BY InitIInv, StepKeepsIInv, PTL DEF Spec

\* The types of what several writers share and of what each one keeps.
THEOREM TypeCorrect == Spec => []TypeOK
<1>1. IInv => TypeOK
  BY DEF IInv
<1>2. QED BY <1>1, Invariance, PTL

\* No writer's progress row ever covers a fill that is not committed, with any
\* number of indexers and replays on one database.
THEOREM ProgressIsHonest == Spec => []ProgressHonest
<1>1. IInv => ProgressHonest
  BY DEF IInv, Progressed, Covered, ProgressHonest
<1>2. QED BY <1>1, Invariance, PTL

\* Replays of minutes that the indexer has left, several at once too, never
\* leave a metric row different from the aggregate of the facts in the table.
THEOREM ClosedReplaysSafe == Spec => []ClosedReplaysAreSafe
<1>1. IInv => ClosedReplaysAreSafe
  BY DEF IInv
<1>2. QED BY <1>1, Invariance, PTL

\* A transaction during which no other committed makes every metric row of its
\* buckets right, also one that a race had left stale.
THEOREM QuietCommitsDoRepair == Spec => QuietCommitsRepair
<1>1. ASSUME IInv, NEW w \in Writers, Commit(w), ~overlap[w],
             NEW r \in UNION {MetricsOf(e) : e \in UNION {seen[w][b] : b \in Minutes}}
      PROVE  rollup'[r] = Aggregate(facts', r)
  BY <1>1, CommitRepairs DEF Recomputed, Undisturbed
<1>2. IInv /\ [Next]_vars =>
        [\A w \in Writers :
           (stage[w] = "commit" /\ Commit(w) /\ ~overlap[w]) =>
             \A r \in UNION {MetricsOf(e) : e \in UNION {seen[w][b] : b \in Minutes}} :
               rollup'[r] = Aggregate(facts', r)]_vars
  BY <1>1
<1>3. QED BY <1>2, Invariance, PTL DEF Spec, QuietCommitsRepair
=============================================================================
