---------------------------- MODULE AtomicIndex ----------------------------
(***************************************************************************)
(* What the indexer promises the readers of its database: checkpoints are  *)
(* indexed one at a time, each as a whole, never leaving a gap, and the    *)
(* one-minute metrics are at every moment the aggregate of exactly the     *)
(* facts of their minute.  A metric row stands here for the set of facts   *)
(* it aggregates; module Rollups says what numbers it holds.               *)
(***************************************************************************)
EXTENDS Chain

VARIABLES
  processed,  \* indexer_state.processed_checkpoint
  facts,      \* rows of db_events
  orders,     \* rows of db_order_events
  rollup      \* rollup[b]: the facts the metric rows of minute b aggregate

db == <<processed, facts, orders, rollup>>

Init ==
  /\ processed = -1
  /\ facts = {}
  /\ orders = {}
  /\ rollup = [b \in Minutes |-> {}]

\* A checkpoint is new (processed + 1) or indexed again.
IndexCheckpoint(m, n) ==
  /\ n <= processed + 1
  /\ processed' = IF n > processed THEN n ELSE processed
  /\ facts' = facts \cup FillsOf(<<m, n>>)
  /\ orders' = orders \cup OrdersOf(<<m, n>>)
  /\ rollup' = [b \in Minutes |-> InBucket(facts', b)]

Next == \E m \in Networks, n \in Seqs : IndexCheckpoint(m, n)

Spec == Init /\ [][Next]_db
=============================================================================
