------------------------------ MODULE Indexer ------------------------------
(***************************************************************************)
(* The `run` command of the indexer: one process that fetches checkpoint   *)
(* next from the remote store and writes it in one database transaction,   *)
(* statement by statement.  The process may crash between any two steps,   *)
(* a statement may fail, a COMMIT may succeed and its answer be lost, the  *)
(* store may answer 404 or an error.  A start re-reads the progress row.   *)
(*                                                                         *)
(* facts, orders, rollup and processed are the COMMITTED tables; tx is     *)
(* what the open transaction sees, its own writes included.                *)
(***************************************************************************)
EXTENDS Chain

CONSTANTS
  None,         \* an unset INDEXER_START_CHECKPOINT / INDEXER_STOP_CHECKPOINT
  StartValues,  \* the values the operator may give the first ...
  StopValues,   \* ... and the second, None included
  Poison,       \* checkpoints whose rows the database can never accept
  I64Half,      \* 2^63: the first value that does not fit an i64
  AttemptMax,   \* 2^32 - 1: where Backoff.attempt, a u32, saturates
  MaxFaults     \* bound: failures, crashes and shutdowns in a behaviour

ASSUME IndexerAssumption ==
  /\ None \notin Int
  /\ StartValues \subseteq 0..(2 * I64Half - 1) \cup {None}
  /\ StopValues \subseteq Nat \cup {None}
  /\ Poison \subseteq Blocks
  /\ I64Half \in Nat /\ LastSeq < I64Half
  /\ AttemptMax \in Nat /\ MaxFaults \in Nat

VARIABLES
  processed, facts, orders, rollup,  \* the committed database
  tx,       \* the open transaction's view of those four tables
  pc,       \* where the process is
  net,      \* DEEPBOOK_ENV of the current (or last) start
  next,     \* next_checkpoint
  stop,     \* INDEXER_STOP_CHECKPOINT of the current (or last) start
  attempt,  \* Backoff.attempt
  todo,     \* affected buckets still to recompute
  latest,   \* latest[m]: the last checkpoint m's store has published
  faults    \* failures that may still happen

db   == <<processed, facts, orders, rollup>>
vars == <<processed, facts, orders, rollup, tx, pc, net, next, stop, attempt,
          todo, latest, faults>>

Idle == {"fetch", "poll", "retry"}  \* where the process can be told to stop
InTx == {"fills", "orders", "buckets", "commit"}
PCs  == {"down"} \cup Idle \cup InTx

Tables == [processed : -1..LastSeq, facts : SUBSET Fills, orders : SUBSET OrderEvents,
           rollup : [Minutes -> SUBSET Fills]]
Committed == [processed |-> processed, facts |-> facts, orders |-> orders,
              rollup |-> rollup]

Block == <<net, next>>

Init ==
  /\ processed = -1 /\ facts = {} /\ orders = {}
  /\ rollup = [b \in Minutes |-> {}]
  /\ tx = Committed
  /\ pc = "down"
  /\ net \in Networks
  /\ next = 0 /\ stop = None /\ attempt = 0 /\ todo = {}
  /\ latest \in [Networks -> {-1}]
  /\ faults = MaxFaults
-----------------------------------------------------------------------------
(* The remote store publishes one more checkpoint. *)
Publish(m) ==
  /\ latest[m] < LastSeq
  /\ latest' = [latest EXCEPT ![m] = @ + 1]
  /\ UNCHANGED <<processed, facts, orders, rollup, tx, pc, net, next, stop,
                 attempt, todo, faults>>

\* start_checkpoint.map(|c| c as i64): the cast wraps.
AsI64(c) == IF c < I64Half THEN c ELSE c - 2 * I64Half
AsU64(c) == IF c >= 0 THEN c ELSE c + 2 * I64Half

\* Mutant: the start value is taken as it is.
Start_Unguarded(m, s, t) ==
  /\ pc = "down"
  /\ pc' = "fetch" /\ net' = m /\ stop' = t
  /\ next' = IF s = None THEN processed + 1 ELSE s
  /\ attempt' = 0
  /\ UNCHANGED <<processed, facts, orders, rollup, tx, todo, latest, faults>>

\* run_indexer up to its loop, with configuration (m, s, t).  A start value
\* ahead of the progress row is refused, and nothing changes.
Start(m, s, t) ==
  LET start == IF s = None THEN processed + 1 ELSE AsI64(s) IN
  /\ pc = "down"
  /\ start <= processed + 1
  /\ pc' = "fetch" /\ net' = m /\ next' = AsU64(start) /\ stop' = t
  /\ attempt' = 0
  /\ UNCHANGED <<processed, facts, orders, rollup, tx, todo, latest, faults>>

StopReached == stop # None /\ next > stop

\* The loop's break: past the stop checkpoint, or (a fault) at a ctrl-c while
\* fetching or waiting; a transaction is never interrupted.
Exit ==
  /\ \/ pc = "fetch" /\ StopReached /\ UNCHANGED faults
     \/ pc \in Idle /\ faults > 0 /\ faults' = faults - 1
  /\ pc' = "down"
  /\ UNCHANGED <<processed, facts, orders, rollup, tx, net, next, stop,
                 attempt, todo, latest>>
-----------------------------------------------------------------------------
(* One turn of the loop: fetch_checkpoint and its three outcomes. *)
Goto(l) ==
  /\ pc' = l
  /\ UNCHANGED <<processed, facts, orders, rollup, net, stop, latest>>

\* Mutant: the attempt counter does not saturate.
Bump_Unbounded == attempt' = attempt + 1

\* next_delay: the delay itself, its shift clamped at 20, is left out.
Bump == attempt' = IF attempt < AttemptMax THEN attempt + 1 ELSE AttemptMax

\* Ok(Some): the file answered carries the requested sequence number.
Fetched ==
  /\ pc = "fetch" /\ ~StopReached
  /\ next <= latest[net]
  /\ Goto("fills")
  /\ UNCHANGED <<tx, next, attempt, todo, faults>>

\* Ok(None): a 404, because the file is not there yet or (a fault) because
\* the CDN does not serve it yet.
NotYet ==
  /\ pc = "fetch" /\ ~StopReached
  /\ \/ next > latest[net] /\ UNCHANGED faults
     \/ faults > 0 /\ faults' = faults - 1
  /\ attempt' = 0
  /\ Goto("poll")
  /\ UNCHANGED <<tx, next, todo>>

\* Err: timeout, HTTP error, unreadable body or another checkpoint's file.
FetchFails ==
  /\ pc = "fetch" /\ ~StopReached
  /\ faults > 0 /\ faults' = faults - 1
  /\ Bump
  /\ Goto("retry")
  /\ UNCHANGED <<tx, next, todo>>

\* Mutant: after a failed attempt the process never fetches again.
WaitOver_PollOnly ==
  /\ pc = "poll"
  /\ Goto("fetch")
  /\ UNCHANGED <<tx, next, attempt, todo, faults>>

\* The poll interval or the backoff delay is over.
WaitOver ==
  /\ pc \in {"poll", "retry"}
  /\ Goto("fetch")
  /\ UNCHANGED <<tx, next, attempt, todo, faults>>
-----------------------------------------------------------------------------
(* ingest_checkpoint: BEGIN and the fills, the order events, the affected  *)
(* buckets in any order, the progress row, COMMIT.                         *)
\* Mutant: the fills are inserted outside the transaction.
InsertFills_Autocommit ==
  /\ pc = "fills" /\ Block \notin Poison
  /\ facts' = facts \cup FillsOf(Block)
  /\ tx' = [Committed EXCEPT !.facts = facts']
  /\ todo' = {Bucket(e) : e \in FillsOf(Block)}
  /\ pc' = "orders"
  /\ UNCHANGED <<processed, orders, rollup, net, next, stop, attempt, latest,
                 faults>>

\* Mutant: no bucket is marked affected.
InsertFills_NoBuckets ==
  /\ pc = "fills" /\ Block \notin Poison
  /\ tx' = [Committed EXCEPT !.facts = @ \cup FillsOf(Block)]
  /\ todo' = {}
  /\ Goto("orders")
  /\ UNCHANGED <<next, attempt, faults>>

InsertFills ==
  /\ pc = "fills" /\ Block \notin Poison
  /\ tx' = [Committed EXCEPT !.facts = @ \cup FillsOf(Block)]
  /\ todo' = {Bucket(e) : e \in FillsOf(Block)}
  /\ Goto("orders")
  /\ UNCHANGED <<next, attempt, faults>>

InsertOrders ==
  /\ pc = "orders"
  /\ tx' = [tx EXCEPT !.orders = @ \cup OrdersOf(Block)]
  /\ Goto("buckets")
  /\ UNCHANGED <<next, attempt, todo, faults>>

\* Mutant: the metrics aggregate the checkpoint's own fills only.
RecomputeBucket_OwnFills(b) ==
  /\ pc = "buckets" /\ b \in todo
  /\ tx' = [tx EXCEPT !.rollup[b] = InBucket(FillsOf(Block), b)]
  /\ todo' = todo \ {b}
  /\ Goto("buckets")
  /\ UNCHANGED <<next, attempt, faults>>

RecomputeBucket(b) ==
  /\ pc = "buckets" /\ b \in todo
  /\ tx' = [tx EXCEPT !.rollup[b] = InBucket(tx.facts, b)]
  /\ todo' = todo \ {b}
  /\ Goto("buckets")
  /\ UNCHANGED <<next, attempt, faults>>

\* Mutant: SET processed_checkpoint = seq
UpdateProgress_Overwrites ==
  /\ pc = "buckets" /\ todo = {}
  /\ tx' = [tx EXCEPT !.processed = next]
  /\ Goto("commit")
  /\ UNCHANGED <<next, attempt, todo, faults>>

\* SET processed_checkpoint = GREATEST(processed_checkpoint, seq)
UpdateProgress ==
  /\ pc = "buckets" /\ todo = {}
  /\ tx' = [tx EXCEPT !.processed = IF next > @ THEN next ELSE @]
  /\ Goto("commit")
  /\ UNCHANGED <<next, attempt, todo, faults>>

Durable == /\ processed' = tx.processed /\ facts' = tx.facts
           /\ orders' = tx.orders /\ rollup' = tx.rollup

Commit ==
  /\ pc = "commit"
  /\ Durable
  /\ pc' = "fetch" /\ next' = next + 1 /\ attempt' = 0
  /\ UNCHANGED <<tx, net, stop, todo, latest, faults>>

\* Mutant: a checkpoint that cannot be ingested is skipped.
IngestFails_Skips ==
  /\ pc \in InTx
  /\ \/ pc = "fills" /\ Block \in Poison /\ UNCHANGED faults
     \/ faults > 0 /\ faults' = faults - 1
  /\ Bump
  /\ todo' = {} /\ next' = next + 1
  /\ Goto("retry")
  /\ UNCHANGED tx

\* A statement fails, the transaction is dropped and rolls back, the error
\* is logged.  The rows of a poison checkpoint are always refused.
IngestFails ==
  /\ pc \in InTx
  /\ \/ pc = "fills" /\ Block \in Poison /\ UNCHANGED faults
     \/ faults > 0 /\ faults' = faults - 1
  /\ Bump
  /\ todo' = {}
  /\ Goto("retry")
  /\ UNCHANGED <<tx, next>>

\* COMMIT took effect, but the process sees an error.
CommitUnknown ==
  /\ pc = "commit"
  /\ faults > 0 /\ faults' = faults - 1
  /\ Durable
  /\ Bump
  /\ pc' = "retry"
  /\ UNCHANGED <<tx, net, next, stop, todo, latest>>

\* The process dies: an open transaction rolls back, unless the server had
\* already received COMMIT.
Crash ==
  /\ pc # "down"
  /\ faults > 0 /\ faults' = faults - 1
  /\ \/ UNCHANGED db
     \/ pc = "commit" /\ Durable
  /\ pc' = "down" /\ todo' = {}
  /\ UNCHANGED <<tx, net, next, stop, attempt, latest>>
-----------------------------------------------------------------------------
Ingest == \/ InsertFills \/ InsertOrders \/ UpdateProgress
          \/ \E b \in Minutes : RecomputeBucket(b)
Failure == IngestFails \/ CommitUnknown \/ Crash
Loop == Exit \/ Fetched \/ NotYet \/ FetchFails \/ WaitOver \/ Commit

Next ==
  \/ \E m \in Networks : Publish(m)
  \/ \E m \in Networks, s \in StartValues, t \in StopValues : Start(m, s, t)
  \/ Loop
  \/ Ingest
  \/ Failure

Spec == Init /\ [][Next]_vars

(***************************************************************************)
(* A started process runs, and the network goes on publishing.  No         *)
(* fairness on starts (docker-compose.yml has no restart policy), none on  *)
(* faults.                                                                 *)
(***************************************************************************)
Fairness ==
  /\ \A m \in Networks : WF_vars(Publish(m))
  /\ WF_vars(Fetched) /\ WF_vars(NotYet) /\ WF_vars(WaitOver)
  /\ WF_vars(Ingest) /\ WF_vars(Commit) /\ WF_vars(IngestFails)

FairSpec == Spec /\ Fairness
-----------------------------------------------------------------------------
(* Properties. *)

TypeOK ==
  /\ Committed \in Tables /\ tx \in Tables
  /\ pc \in PCs /\ net \in Networks
  /\ next \in Nat /\ stop \in Nat \cup {None}
  /\ attempt \in 0..AttemptMax
  /\ todo \subseteq Minutes
  /\ latest \in [Networks -> -1..LastSeq]
  /\ faults \in 0..MaxFaults

\* Progress is honest: every checkpoint up to processed_checkpoint has all
\* its rows in the tables, whatever crashed, was retried or was started over.
NoGap ==
  \A n \in 0..processed : /\ FillsOf(<<net, n>>) \subseteq facts
                          /\ OrdersOf(<<net, n>>) \subseteq orders

\* The gap guard: a running indexer never works past the first checkpoint
\* that is missing, although progress moves on under it when a COMMIT whose
\* answer was lost is done again.
NeverAhead == pc # "down" => next <= processed + 1

\* One transaction writes both fact tables: no reader ever finds a part of a
\* checkpoint's rows.
WholeCheckpoints ==
  \A c \in Blocks :
    LET rows == FillsOf(c) \cup OrdersOf(c) IN
    rows \subseteq facts \cup orders \/ rows \cap (facts \cup orders) = {}

\* Recomputing only the affected buckets is enough: every bucket's metrics
\* aggregate exactly the facts of the bucket, those of other checkpoints of
\* the same minute included.
RollupsMatchFacts == \A b \in Minutes : rollup[b] = InBucket(facts, b)

\* No step takes an indexed row away, moves progress back (a re-ingestion
\* from an older INDEXER_START_CHECKPOINT does not), or skips a checkpoint.
NeverForgets ==
  [][/\ facts \subseteq facts' /\ orders \subseteq orders'
     /\ processed' \in {processed, processed + 1}]_db

\* The statement-by-statement indexer implements the atomic one.
Abstract == INSTANCE AtomicIndex
ImplementsAtomicIndex == Abstract!Spec

\* Unless the process stays down for ever, or is only ever started to stop at
\* some checkpoint, every published checkpoint before the first poison one is
\* indexed at last, whatever failed in between.
CatchesUp ==
  []<>(pc # "down" /\ stop = None) =>
    \A m \in Networks, n \in Seqs :
      (\A k \in 0..n : <<m, k>> \notin Poison) => <>(processed >= n)
=============================================================================
