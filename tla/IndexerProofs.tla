--------------------------- MODULE IndexerProofs ---------------------------
(* What holds of the indexer for every chain, every choice of start and   *)
(* stop checkpoints, any number of faults.                                *)
EXTENDS Indexer, TLAPS

(***************************************************************************)
(* The inductive invariant.  TxView says what the open transaction sees    *)
(* after each statement; Position says why it can only be indexing a       *)
(* checkpoint that leaves no gap: a start value that wraps is far above    *)
(* anything published, and its file is never fetched.                      *)
(***************************************************************************)
TxView ==
  /\ pc \in {"orders", "buckets", "commit"} =>
       /\ tx.facts = facts \cup FillsOf(Block)
       /\ \A b \in Minutes \ todo : tx.rollup[b] = InBucket(tx.facts, b)
  /\ pc = "orders" => tx.orders = orders
  /\ pc \in {"buckets", "commit"} => tx.orders = orders \cup OrdersOf(Block)
  /\ pc \in {"orders", "buckets"} => tx.processed = processed
  /\ pc = "commit" =>
       /\ todo = {}
       /\ tx.processed = IF next > processed THEN next ELSE processed

Position ==
  /\ pc # "down" => next <= processed + 1 \/ next >= I64Half
  /\ pc \in InTx => next \in Seqs

IInv == TypeOK /\ RollupsMatchFacts /\ WholeCheckpoints /\ TxView /\ Position

-----------------------------------------------------------------------------
(* Lemmas about the operators of Chain. *)

\* Rows of a checkpoint are events, and their buckets are buckets.
LEMMA RowTypes ==
  ASSUME NEW c \in Blocks
  PROVE  /\ FillsOf(c) \subseteq Fills /\ OrdersOf(c) \subseteq OrderEvents
         /\ \A e \in Fills : Bucket(e) \in Minutes
BY ChainAssumption DEF FillsOf, OrdersOf, Bucket, Events

\* A bucket none of the new facts falls in keeps its facts.
LEMMA Unaffected ==
  ASSUME NEW S, NEW T, NEW b, b \notin {Bucket(e) : e \in T}
  PROVE  InBucket(S \cup T, b) = InBucket(S, b)
BY DEF InBucket

\* A bucket's facts are facts.
LEMMA InBucketType ==
  ASSUME NEW S \in SUBSET Fills, NEW b
  PROVE  InBucket(S, b) \in SUBSET Fills
BY DEF InBucket

\* Adding all the rows of one checkpoint breaks no other checkpoint in two.
LEMMA WholeStep ==
  ASSUME NEW F \in SUBSET Fills, NEW O \in SUBSET OrderEvents,
         NEW d \in Blocks, NEW c \in Blocks,
         LET rows == FillsOf(c) \cup OrdersOf(c)
         IN rows \subseteq F \cup O \/ rows \cap (F \cup O) = {}
  PROVE  LET rows == FillsOf(c) \cup OrdersOf(c)
             all  == (F \cup FillsOf(d)) \cup (O \cup OrdersOf(d))
         IN rows \subseteq all \/ rows \cap all = {}
<1>1. CASE c = d
  BY <1>1
<1>2. CASE c # d
  <2>1. (FillsOf(c) \cup OrdersOf(c)) \cap (FillsOf(d) \cup OrdersOf(d)) = {}
    BY <1>2, ChainAssumption DEF FillsOf, OrdersOf
  <2>2. QED BY <2>1
<1>3. QED BY <1>1, <1>2
-----------------------------------------------------------------------------
\* The invariant holds of the migrated, empty database.
LEMMA InitIInv == Init => IInv
<1>1. SUFFICES ASSUME Init PROVE IInv
  OBVIOUS
<1>2. TypeOK
  BY <1>1, ChainAssumption, IndexerAssumption
     DEF Init, TypeOK, Tables, Committed, PCs, Idle, InTx, Seqs
<1>3. RollupsMatchFacts /\ WholeCheckpoints
  BY <1>1 DEF Init, RollupsMatchFacts, WholeCheckpoints, InBucket
<1>4. TxView /\ Position
  BY <1>1 DEF Init, TxView, Position, InTx
<1>5. QED BY <1>2, <1>3, <1>4 DEF IInv
-----------------------------------------------------------------------------
(* Steps. *)

\* Steps that leave the database, the transaction and the checkpoint alone
\* keep the invariant if they end outside a transaction.
LEMMA QuietStep ==
  ASSUME IInv, TypeOK', UNCHANGED <<db, next>>,
         pc' \in {"down"} \cup Idle, pc' = "down" \/ pc # "down"
  PROVE  IInv'
<1>1. RollupsMatchFacts'
  BY DEF IInv, RollupsMatchFacts, db
<1>2. WholeCheckpoints'
  BY DEF IInv, WholeCheckpoints, db
<1>3. TxView' /\ Position'
  BY DEF IInv, TxView, Position, Idle, InTx, db
<1>4. QED BY <1>1, <1>2, <1>3 DEF IInv

\* Making the transaction's view durable is one step of the atomic index,
\* and keeps what holds of the tables.
LEMMA DurableStep ==
  ASSUME IInv, pc = "commit", Durable
  PROVE  /\ Abstract!IndexCheckpoint(net, next)
         /\ next \in Seqs /\ next <= processed + 1
         /\ processed' \in {processed, processed + 1}
         /\ RollupsMatchFacts' /\ WholeCheckpoints'
<1>1. /\ facts' = facts \cup FillsOf(Block)
      /\ orders' = orders \cup OrdersOf(Block)
      /\ processed' = IF next > processed THEN next ELSE processed
      /\ \A b \in Minutes : rollup'[b] = InBucket(facts', b)
  BY DEF IInv, TxView, Durable
<1>2. next \in Seqs /\ next <= processed + 1
  BY IndexerAssumption, ChainAssumption
     DEF IInv, Position, InTx, Seqs, TypeOK, Tables, Committed
<1>3. processed' \in {processed, processed + 1}
  BY <1>1, <1>2, ChainAssumption DEF IInv, TypeOK, Tables, Committed, Seqs
<1>4. rollup' = [b \in Minutes |-> InBucket(facts', b)]
  <2>1. rollup' \in [Minutes -> SUBSET Fills]
    BY DEF IInv, TypeOK, Tables, Durable
  <2>2. QED BY <1>1, <2>1
<1>5. RollupsMatchFacts'
  BY <1>1 DEF RollupsMatchFacts
<1>6. WholeCheckpoints'
  <2>1. Block \in Blocks
    BY <1>2 DEF IInv, TypeOK, Block, Blocks
  <2>2. facts \in SUBSET Fills /\ orders \in SUBSET OrderEvents
    BY DEF IInv, TypeOK, Tables, Committed
  <2>3. QED BY <1>1, <2>1, <2>2, WholeStep DEF IInv, WholeCheckpoints
<1>7. Abstract!IndexCheckpoint(net, next)
  BY <1>1, <1>2, <1>4 DEF Abstract!IndexCheckpoint, Block,
     Abstract!InBucket, Abstract!FillsOf, Abstract!OrdersOf, InBucket,
     FillsOf, OrdersOf, Abstract!Bucket, Bucket
<1>8. QED BY <1>2, <1>3, <1>5, <1>6, <1>7
-----------------------------------------------------------------------------
(* The four writes a transaction makes to its view of the tables. *)

\* Inserting fills changes db_events only.
LEMMA WriteFacts ==
  ASSUME NEW r \in Tables, NEW S \in SUBSET Fills
  PROVE  LET q == [r EXCEPT !.facts = @ \cup S]
         IN /\ q \in Tables /\ q.facts = r.facts \cup S
            /\ q.orders = r.orders /\ q.rollup = r.rollup
            /\ q.processed = r.processed
BY DEF Tables

\* Inserting order events changes db_order_events only.
LEMMA WriteOrders ==
  ASSUME NEW r \in Tables, NEW S \in SUBSET OrderEvents
  PROVE  LET q == [r EXCEPT !.orders = @ \cup S]
         IN /\ q \in Tables /\ q.orders = r.orders \cup S
            /\ q.facts = r.facts /\ q.rollup = r.rollup
            /\ q.processed = r.processed
BY DEF Tables

\* Upserting one bucket's metrics changes that bucket only.
LEMMA WriteBucket ==
  ASSUME NEW r \in Tables, NEW S \in SUBSET Fills, NEW b \in Minutes
  PROVE  LET q == [r EXCEPT !.rollup[b] = S]
         IN /\ q \in Tables /\ q.rollup = [r.rollup EXCEPT ![b] = S]
            /\ q.facts = r.facts /\ q.orders = r.orders
            /\ q.processed = r.processed
BY DEF Tables

\* GREATEST in the progress row.
LEMMA WriteProgress ==
  ASSUME NEW r \in Tables, NEW n \in Seqs
  PROVE  LET q == [r EXCEPT !.processed = IF n > @ THEN n ELSE @]
         IN /\ q \in Tables
            /\ q.processed = IF n > r.processed THEN n ELSE r.processed
            /\ q.facts = r.facts /\ q.orders = r.orders
            /\ q.rollup = r.rollup
BY ChainAssumption DEF Tables, Seqs
-----------------------------------------------------------------------------
\* A statement of the transaction: the tables stay, the view moves on.
LEMMA StatementStep ==
  ASSUME IInv, UNCHANGED <<db, next, net>>, tx' \in Tables, todo' \subseteq Minutes,
         pc \in InTx, pc' \in InTx, TxView',
         UNCHANGED <<stop, attempt, latest, faults>>
  PROVE  IInv'
<1>1. TypeOK'
  BY DEF IInv, TypeOK, Committed, db, PCs
<1>2. RollupsMatchFacts' /\ WholeCheckpoints'
  BY DEF IInv, RollupsMatchFacts, WholeCheckpoints, db
<1>3. Position'
  BY DEF IInv, Position, InTx, db
<1>4. QED BY <1>1, <1>2, <1>3 DEF IInv

\* BEGIN and the INSERT into db_events keep the invariant.
LEMMA InsertFillsStep == IInv /\ InsertFills => IInv'
<1>1. SUFFICES ASSUME IInv, InsertFills PROVE IInv'
  OBVIOUS
<1>2. Block \in Blocks
  BY <1>1 DEF IInv, TypeOK, Position, InsertFills, InTx, Block, Blocks
<1>3. /\ tx' \in Tables /\ tx'.facts = facts \cup FillsOf(Block)
      /\ tx'.orders = orders /\ tx'.rollup = rollup
      /\ tx'.processed = processed
  <2>1. Committed \in Tables /\ FillsOf(Block) \in SUBSET Fills
    BY <1>1, <1>2, RowTypes DEF IInv, TypeOK
  <2>2. /\ Committed.facts = facts /\ Committed.orders = orders
        /\ Committed.rollup = rollup /\ Committed.processed = processed
    BY DEF Committed
  <2>3. tx' = [Committed EXCEPT !.facts = @ \cup FillsOf(Block)]
    BY <1>1 DEF InsertFills
  <2>4. QED BY <2>1, <2>2, <2>3, WriteFacts
<1>4. todo' = {Bucket(e) : e \in FillsOf(Block)} /\ todo' \subseteq Minutes
  BY <1>1, <1>2, RowTypes DEF InsertFills
<1>5. \A b \in Minutes \ todo' : tx'.rollup[b] = InBucket(tx'.facts, b)
  <2>1. SUFFICES ASSUME NEW b \in Minutes \ todo'
                 PROVE  tx'.rollup[b] = InBucket(tx'.facts, b)
    OBVIOUS
  <2>2. rollup[b] = InBucket(facts, b)
    BY <1>1 DEF IInv, RollupsMatchFacts
  <2>3. InBucket(facts \cup FillsOf(Block), b) = InBucket(facts, b)
    BY <1>4, Unaffected
  <2>4. QED BY <1>3, <2>2, <2>3
<1>6. TxView'
  <2>1. /\ pc' = "orders" /\ facts' = facts /\ orders' = orders
        /\ processed' = processed /\ Block' = Block
    BY <1>1 DEF InsertFills, Goto, Block
  <2>2. tx'.facts = facts' \cup FillsOf(Block)'
    BY <1>3, <2>1 DEF FillsOf
  <2>3. QED BY <1>3, <1>5, <2>1, <2>2 DEF TxView
<1>7. QED
  BY <1>1, <1>3, <1>4, <1>6, StatementStep DEF InsertFills, Goto, InTx, db

\* So does the INSERT into db_order_events.
LEMMA InsertOrdersStep == IInv /\ InsertOrders => IInv'
<1>1. SUFFICES ASSUME IInv, InsertOrders PROVE IInv'
  OBVIOUS
<1>2. /\ tx' \in Tables /\ tx'.facts = tx.facts
      /\ tx'.orders = tx.orders \cup OrdersOf(Block)
      /\ tx'.rollup = tx.rollup /\ tx'.processed = tx.processed
  <2>1. OrdersOf(Block) \in SUBSET OrderEvents /\ tx \in Tables
    BY <1>1 DEF OrdersOf, IInv, TypeOK
  <2>2. tx' = [tx EXCEPT !.orders = @ \cup OrdersOf(Block)]
    BY <1>1 DEF InsertOrders
  <2>3. QED BY <2>1, <2>2, WriteOrders
<1>3. TxView'
  BY <1>1, <1>2
     DEF InsertOrders, Goto, IInv, TxView, Block, FillsOf, OrdersOf, InBucket
<1>4. QED
  BY <1>1, <1>2, <1>3, StatementStep
     DEF InsertOrders, Goto, InTx, db, IInv, TypeOK

\* Recomputing one affected bucket, whichever is next, keeps the invariant.
LEMMA RecomputeBucketStep ==
  ASSUME IInv, NEW b \in Minutes, RecomputeBucket(b)
  PROVE  IInv'
<1>1. /\ tx' \in Tables /\ tx'.facts = tx.facts /\ tx'.orders = tx.orders
      /\ tx'.rollup = [tx.rollup EXCEPT ![b] = InBucket(tx.facts, b)]
      /\ tx'.processed = tx.processed
  <2>1. InBucket(tx.facts, b) \in SUBSET Fills /\ tx \in Tables
    BY InBucketType DEF IInv, TypeOK, Tables
  <2>2. tx' = [tx EXCEPT !.rollup[b] = InBucket(tx.facts, b)]
    BY DEF RecomputeBucket
  <2>3. QED BY <2>1, <2>2, WriteBucket
<1>2. \A c \in Minutes \ todo' : tx'.rollup[c] = InBucket(tx'.facts, c)
  <2>1. tx.rollup \in [Minutes -> SUBSET Fills]
    BY DEF IInv, TypeOK, Tables
  <2>2. QED BY <1>1, <2>1 DEF RecomputeBucket, IInv, TxView
<1>3. TxView'
  BY <1>1, <1>2
     DEF RecomputeBucket, Goto, IInv, TxView, Block, FillsOf, OrdersOf
<1>4. QED
  BY <1>1, <1>3, StatementStep
     DEF RecomputeBucket, Goto, InTx, db, IInv, TypeOK

\* The progress row's UPDATE keeps the invariant: no affected bucket is left.
LEMMA UpdateProgressStep == IInv /\ UpdateProgress => IInv'
<1>1. SUFFICES ASSUME IInv, UpdateProgress PROVE IInv'
  OBVIOUS
<1>2. /\ tx' \in Tables /\ tx'.facts = tx.facts /\ tx'.orders = tx.orders
      /\ tx'.rollup = tx.rollup
      /\ tx'.processed = IF next > tx.processed THEN next ELSE tx.processed
  <2>1. tx \in Tables /\ next \in Seqs
    BY <1>1 DEF IInv, TypeOK, Position, UpdateProgress, InTx
  <2>2. tx' = [tx EXCEPT !.processed = IF next > @ THEN next ELSE @]
    BY <1>1 DEF UpdateProgress
  <2>3. QED BY <2>1, <2>2, WriteProgress
<1>3. TxView'
  BY <1>1, <1>2
     DEF UpdateProgress, Goto, IInv, TxView, Block, FillsOf, OrdersOf, InBucket
<1>4. QED
  BY <1>1, <1>2, <1>3, StatementStep
     DEF UpdateProgress, Goto, InTx, db, IInv, TypeOK
-----------------------------------------------------------------------------
(* The steps that end or never enter a transaction. *)

\* An acknowledged COMMIT keeps the invariant.
LEMMA CommitStep == IInv /\ Commit => IInv'
<1>1. SUFFICES ASSUME IInv, Commit PROVE IInv'
  OBVIOUS
<1>2. /\ next \in Seqs /\ next <= processed + 1
      /\ processed' = IF next > processed THEN next ELSE processed
      /\ RollupsMatchFacts' /\ WholeCheckpoints'
  BY <1>1, DurableStep DEF Commit, Durable, IInv, TxView
<1>3. TypeOK'
  BY <1>1, <1>2, IndexerAssumption
     DEF Commit, Durable, IInv, TypeOK, Tables, Committed, PCs, Idle, Seqs
<1>4. TxView' /\ Position'
  <2>1. pc' = "fetch" /\ next' = next + 1 /\ processed \in Int
    BY <1>1 DEF Commit, IInv, TypeOK, Tables, Committed
  <2>2. QED BY <1>2, <2>1, ChainAssumption DEF TxView, Position, InTx, Seqs
<1>5. QED BY <1>2, <1>3, <1>4 DEF IInv

\* So does a COMMIT that took effect although its answer was lost.
LEMMA CommitUnknownStep == IInv /\ CommitUnknown => IInv'
<1>1. SUFFICES ASSUME IInv, CommitUnknown PROVE IInv'
  OBVIOUS
<1>2. /\ next \in Seqs
      /\ processed' = IF next > processed THEN next ELSE processed
      /\ RollupsMatchFacts' /\ WholeCheckpoints'
  BY <1>1, DurableStep DEF CommitUnknown, Durable, IInv, TxView
<1>3. TypeOK'
  BY <1>1, <1>2, IndexerAssumption
     DEF CommitUnknown, Durable, Bump, IInv, TypeOK, Tables, Committed, PCs,
         Idle, Seqs
<1>4. TxView' /\ Position'
  <2>1. pc' = "retry" /\ next' = next /\ processed \in Int
    BY <1>1 DEF CommitUnknown, IInv, TypeOK, Tables, Committed
  <2>2. QED BY <1>2, <2>1, ChainAssumption DEF TxView, Position, InTx, Seqs
<1>5. QED BY <1>2, <1>3, <1>4 DEF IInv

\* A crash keeps the invariant, whether COMMIT had reached the server or not.
LEMMA CrashStep == IInv /\ Crash => IInv'
<1>1. SUFFICES ASSUME IInv, Crash PROVE IInv'
  OBVIOUS
<1>2. RollupsMatchFacts' /\ WholeCheckpoints'
  <2>1. CASE UNCHANGED db
    BY <1>1, <2>1 DEF IInv, RollupsMatchFacts, WholeCheckpoints, db
  <2>2. CASE pc = "commit" /\ Durable
    BY <1>1, <2>2, DurableStep
  <2>3. QED BY <1>1, <2>1, <2>2 DEF Crash
<1>3. TypeOK'
  BY <1>1, IndexerAssumption
     DEF Crash, Durable, IInv, TypeOK, Tables, Committed, PCs, db
<1>4. TxView' /\ Position'
  BY <1>1 DEF Crash, TxView, Position, InTx
<1>5. QED BY <1>2, <1>3, <1>4 DEF IInv

\* run_indexer's start keeps the invariant, its guard passed.
LEMMA StartStep ==
  ASSUME IInv, NEW m \in Networks, NEW s \in StartValues,
         NEW t \in StopValues, Start(m, s, t)
  PROVE  IInv'
<1>1. next' \in Nat /\ (next' <= processed + 1 \/ next' >= I64Half)
  <2>1. processed \in Int /\ processed >= -1
    BY ChainAssumption DEF IInv, TypeOK, Tables, Committed
  <2>2. CASE s = None
    BY <2>1, <2>2 DEF Start, AsU64
  <2>3. CASE s # None
    <3>1. s \in Int /\ s >= 0 /\ s < 2 * I64Half /\ I64Half \in Nat
      BY <2>3, IndexerAssumption
    <3>2. QED BY <2>1, <2>3, <3>1 DEF Start, AsI64, AsU64
  <2>4. QED BY <2>2, <2>3
<1>2. TypeOK'
  BY <1>1, IndexerAssumption DEF Start, IInv, TypeOK, Committed, PCs, Idle
<1>3. RollupsMatchFacts' /\ WholeCheckpoints'
  BY DEF Start, IInv, RollupsMatchFacts, WholeCheckpoints
<1>4. TxView' /\ Position'
  BY <1>1 DEF Start, TxView, Position, InTx
<1>5. QED BY <1>2, <1>3, <1>4 DEF IInv

\* A fetched checkpoint keeps the invariant: the transaction sees the tables.
LEMMA FetchedStep == IInv /\ Fetched => IInv'
<1>1. SUFFICES ASSUME IInv, Fetched PROVE IInv'
  OBVIOUS
<1>2. TypeOK'
  BY <1>1 DEF Fetched, Goto, IInv, TypeOK, Committed, PCs, InTx
<1>3. RollupsMatchFacts' /\ WholeCheckpoints'
  BY <1>1 DEF Fetched, Goto, IInv, RollupsMatchFacts, WholeCheckpoints
<1>4. next \in Seqs
  BY <1>1, ChainAssumption DEF Fetched, IInv, TypeOK, Seqs
<1>5. TxView' /\ Position'
  BY <1>1, <1>4 DEF Fetched, Goto, IInv, TxView, Position, InTx
<1>6. QED BY <1>2, <1>3, <1>5 DEF IInv

\* The process stops or goes on to a wait or to its next fetch.
LEMMA IdleSteps ==
  IInv /\ (Exit \/ NotYet \/ FetchFails \/ WaitOver \/ IngestFails) => IInv'
<1>1. SUFFICES ASSUME IInv, Exit \/ NotYet \/ FetchFails \/ WaitOver
                            \/ IngestFails
               PROVE  IInv'
  OBVIOUS
<1>2. TypeOK'
  BY <1>1, IndexerAssumption
     DEF Exit, NotYet, FetchFails, WaitOver, IngestFails, Goto, Bump, IInv,
         TypeOK, Committed, PCs, Idle
<1>3. /\ UNCHANGED <<db, next>>
      /\ pc' \in {"down"} \cup Idle /\ (pc' = "down" \/ pc # "down")
  BY <1>1 DEF Exit, NotYet, FetchFails, WaitOver, IngestFails, Goto, Idle,
              InTx, db
<1>4. QED BY <1>1, <1>2, <1>3, QuietStep

\* Steps of the store, and stuttering.
LEMMA OutsideSteps ==
  ASSUME IInv, (\E m \in Networks : Publish(m)) \/ UNCHANGED vars
  PROVE  IInv'
<1>1. TypeOK'
  BY ChainAssumption DEF Publish, vars, IInv, TypeOK, Committed
<1>2. UNCHANGED <<processed, facts, orders, rollup, tx, pc, net, next, todo>>
  BY DEF Publish, vars
<1>3. QED
  BY <1>1, <1>2 DEF IInv, RollupsMatchFacts, WholeCheckpoints, TxView,
     Position, Block, FillsOf, OrdersOf, InBucket

\* Every step keeps the invariant: one lemma per action, above.
LEMMA IInvStep == IInv /\ [Next]_vars => IInv'
<1>1. SUFFICES ASSUME IInv, [Next]_vars PROVE IInv'
  OBVIOUS
<1>2. CASE (\E m \in Networks : Publish(m)) \/ UNCHANGED vars
  BY <1>1, <1>2, OutsideSteps
<1>3. CASE \E m \in Networks, s \in StartValues, t \in StopValues :
             Start(m, s, t)
  BY <1>1, <1>3, StartStep
<1>4. CASE Loop
  BY <1>1, <1>4, IdleSteps, FetchedStep, CommitStep DEF Loop
<1>5. CASE Ingest
  BY <1>1, <1>5, InsertFillsStep, InsertOrdersStep, RecomputeBucketStep,
     UpdateProgressStep DEF Ingest
<1>6. CASE Failure
  BY <1>1, <1>6, IdleSteps, CommitUnknownStep, CrashStep DEF Failure
<1>7. QED BY <1>1, <1>2, <1>3, <1>4, <1>5, <1>6 DEF Next

\* The inductive invariant holds in every state the indexer reaches.
THEOREM Invariance == Spec => []IInv
<1>1. Init => IInv
  BY InitIInv
<1>2. IInv /\ [Next]_vars => IInv'
  BY IInvStep
<1>3. QED BY <1>1, <1>2, PTL DEF Spec
-----------------------------------------------------------------------------
(* The theorems. *)

\* Every variable keeps its type.
THEOREM TypeCorrect == Spec => []TypeOK
<1>1. IInv => TypeOK
  BY DEF IInv
<1>2. QED BY <1>1, Invariance, PTL

\* Recomputing the affected buckets alone keeps every metric row equal to
\* the aggregate of its minute's facts, through any crash and retry.
THEOREM MetricsCorrect == Spec => []RollupsMatchFacts
<1>1. IInv => RollupsMatchFacts
  BY DEF IInv
<1>2. QED BY <1>1, Invariance, PTL

\* No reader ever finds a part of a checkpoint.
THEOREM CheckpointsAtomic == Spec => []WholeCheckpoints
<1>1. IInv => WholeCheckpoints
  BY DEF IInv
<1>2. QED BY <1>1, Invariance, PTL

\* The gap guard works as long as no start value overflows the cast to i64.
THEOREM GuardHolds ==
  ASSUME \A s \in StartValues \ {None} : s < I64Half
  PROVE  Spec => []NeverAhead
<1> DEFINE Started == pc # "down" => next <= processed + 1
<1>1. Init => Started
  BY DEF Init
<1>2. IInv /\ Started /\ [Next]_vars => Started'
  <2>1. SUFFICES ASSUME IInv, Started, [Next]_vars PROVE Started'
    OBVIOUS
  <2>2. processed \in Int /\ processed >= -1 /\ next \in Nat
    BY <2>1, ChainAssumption DEF IInv, TypeOK, Tables, Committed
  <2>3. ASSUME NEW m \in Networks, NEW s \in StartValues,
               NEW t \in StopValues, Start(m, s, t)
        PROVE  Started'
    <3>1. s # None => s \in Int /\ s >= 0 /\ s < I64Half
      BY IndexerAssumption
    <3>2. QED BY <2>2, <2>3, <3>1 DEF Start, AsI64, AsU64
  <2>4. CASE Commit \/ CommitUnknown
    <3>1. next \in Seqs /\ processed' = IF next > processed THEN next
                                                            ELSE processed
      BY <2>1, <2>4, DurableStep DEF Commit, CommitUnknown, Durable, IInv, TxView
    <3>2. next' \in {next, next + 1}
      BY <2>4 DEF Commit, CommitUnknown
    <3>3. QED BY <2>2, <3>1, <3>2
  <2>5. CASE \/ Exit \/ Fetched \/ NotYet \/ FetchFails \/ WaitOver
             \/ InsertFills \/ InsertOrders \/ UpdateProgress \/ IngestFails
             \/ \E b \in Minutes : RecomputeBucket(b)
    BY <2>1, <2>5 DEF Exit, Fetched, NotYet, FetchFails, WaitOver, InsertFills,
       InsertOrders, UpdateProgress, IngestFails, RecomputeBucket, Goto, InTx
  <2>6. CASE Crash \/ (\E m \in Networks : Publish(m)) \/ UNCHANGED vars
    BY <2>1, <2>6 DEF Crash, Publish, vars
  <2>7. QED
    BY <2>1, <2>3, <2>4, <2>5, <2>6 DEF Next, Loop, Ingest, Failure
<1>3. Started => NeverAhead
  BY DEF NeverAhead
<1>4. QED BY <1>1, <1>2, <1>3, Invariance, PTL DEF Spec
-----------------------------------------------------------------------------
\* What a step can do to the tables: nothing, or index one whole checkpoint
\* of the process's network as the atomic index would.
LEMMA TableStep ==
  ASSUME IInv, [Next]_vars
  PROVE  \/ UNCHANGED db
         \/ /\ net \in Networks /\ next \in Seqs /\ net' = net
            /\ next <= processed + 1
            /\ processed' \in {processed, processed + 1}
            /\ facts' = facts \cup FillsOf(Block)
            /\ orders' = orders \cup OrdersOf(Block)
            /\ processed' = IF next > processed THEN next ELSE processed
            /\ Abstract!IndexCheckpoint(net, next)
<1>1. CASE pc = "commit" /\ Durable /\ net' = net
  BY <1>1, DurableStep DEF IInv, TypeOK, TxView, Durable
<1>2. CASE Commit \/ CommitUnknown \/ Crash
  BY <1>1, <1>2 DEF Commit, CommitUnknown, Crash
<1>3. CASE \/ Exit \/ Fetched \/ NotYet \/ FetchFails \/ WaitOver
           \/ InsertFills \/ InsertOrders \/ UpdateProgress \/ IngestFails
           \/ \E b \in Minutes : RecomputeBucket(b)
  BY <1>3 DEF Exit, Fetched, NotYet, FetchFails, WaitOver, InsertFills,
     InsertOrders, UpdateProgress, IngestFails, RecomputeBucket, Goto, db
<1>4. CASE \/ \E m \in Networks, s \in StartValues, t \in StopValues :
                Start(m, s, t)
           \/ \E m \in Networks : Publish(m)
           \/ UNCHANGED vars
  BY <1>4 DEF Start, Publish, vars, db
<1>5. QED BY <1>2, <1>3, <1>4 DEF Next, Loop, Ingest, Failure

\* No step takes a row away, moves progress back or skips a checkpoint.
THEOREM NothingForgotten == Spec => NeverForgets
<1>1. IInv /\ [Next]_vars =>
        [/\ facts \subseteq facts' /\ orders \subseteq orders'
         /\ processed' \in {processed, processed + 1}]_db
  BY TableStep
<1>2. QED BY <1>1, Invariance, PTL DEF Spec, NeverForgets

\* The indexer, statement by statement and with all its failures,
\* implements the atomic index.
THEOREM Implementation == Spec => ImplementsAtomicIndex
<1>1. Init => Abstract!Init
  BY DEF Init, Abstract!Init
<1>2. IInv /\ [Next]_vars => [Abstract!Next]_(Abstract!db)
  <2>1. SUFFICES ASSUME IInv, [Next]_vars
                 PROVE  Abstract!Next \/ UNCHANGED Abstract!db
    OBVIOUS
  <2>2. QED BY <2>1, TableStep DEF Abstract!Next, Abstract!Seqs, Seqs, db,
             Abstract!db
<1>3. QED
  BY <1>1, <1>2, Invariance, PTL DEF Spec, ImplementsAtomicIndex, Abstract!Spec

\* With one network on the database, progress is honest: no row of a
\* checkpoint up to processed_checkpoint is missing.
THEOREM ProgressCovered ==
  ASSUME \A m1, m2 \in Networks : m1 = m2
  PROVE  Spec => []NoGap
<1>1. Init => NoGap
  <2>1. SUFFICES ASSUME Init PROVE 0..processed = {}
    BY DEF NoGap
  <2>2. QED BY <2>1 DEF Init
<1>2. IInv /\ NoGap /\ [Next]_vars => NoGap'
  <2>1. SUFFICES ASSUME IInv, NoGap, [Next]_vars,
                        NEW n \in 0..(processed')
                 PROVE  /\ FillsOf(<<net', n>>) \subseteq facts'
                        /\ OrdersOf(<<net', n>>) \subseteq orders'
    BY DEF NoGap, FillsOf, OrdersOf
  <2>2. net \in Networks /\ net' = net
    <3>1. TypeOK /\ TypeOK'
      BY <2>1, IInvStep DEF IInv
    <3>2. net \in Networks /\ net' \in Networks
      BY <3>1 DEF TypeOK
    <3>3. QED BY <3>2
  <2>3. CASE UNCHANGED db
    BY <2>1, <2>2, <2>3 DEF NoGap, db
  <2>4. CASE /\ facts' = facts \cup FillsOf(Block)
             /\ orders' = orders \cup OrdersOf(Block)
             /\ processed' = IF next > processed THEN next ELSE processed
             /\ next \in Seqs /\ next <= processed + 1
    <3>1. processed \in Int
      BY <2>1 DEF IInv, TypeOK, Tables, Committed
    <3>2. n = next \/ n \in 0..processed
      BY <2>4, <3>1, ChainAssumption DEF Seqs
    <3>3. QED BY <2>1, <2>2, <2>4, <3>2 DEF NoGap, Block
  <2>5. QED BY <2>1, <2>3, <2>4, TableStep
<1>3. QED BY <1>1, <1>2, Invariance, PTL DEF Spec
=============================================================================
