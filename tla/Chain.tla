------------------------------- MODULE Chain -------------------------------
(***************************************************************************)
(* What the indexer reads.  Each network (DEEPBOOK_ENV) has a remote store *)
(* of checkpoint files 0, 1, 2, ...; a checkpoint holds DeepBook events: a *)
(* fill becomes a row of db_events, an order event (placed, canceled,      *)
(* modified) a row of db_order_events.  An event stands for its row: its   *)
(* primary key (tx_digest, event_seq) and every column are determined by   *)
(* the checkpoint, so writing the row twice writes the same row.           *)
(***************************************************************************)
EXTENDS Integers

CONSTANTS
  Networks,     \* the values of DEEPBOOK_ENV in use on this database
  LastSeq,      \* bound: the highest checkpoint the stores ever publish
  Fills,        \* OrderFilled events of the built-in packages
  OrderEvents,  \* OrderPlaced, OrderCanceled and OrderModified events
  Garbled,      \* events whose BCS contents do not deserialize
  At,           \* At[e]: the network and checkpoint that hold event e
  Minutes,      \* the one-minute buckets
  MinuteOf      \* MinuteOf[c]: the minute of checkpoint c's timestamp

Seqs   == 0..LastSeq
Blocks == Networks \X Seqs
Events == Fills \cup OrderEvents

ASSUME ChainAssumption ==
  /\ LastSeq \in Nat
  /\ Fills \cap OrderEvents = {}
  /\ At \in [Events -> Blocks]
  /\ MinuteOf \in [Blocks -> Minutes]

(***************************************************************************)
(* The rows ingest_checkpoint builds from checkpoint c.  An event that     *)
(* does not deserialize is logged and left out; the rest go on.            *)
(***************************************************************************)
FillsOf(c)  == {e \in Fills \ Garbled : At[e] = c}
OrdersOf(c) == {e \in OrderEvents \ Garbled : At[e] = c}

\* A fact's ts is its checkpoint's timestamp, never the event's own; its
\* bucket is that timestamp truncated to the minute.
Bucket(e) == MinuteOf[At[e]]

\* The rows a time-range query over one bucket returns from the rows S.
InBucket(S, b) == {e \in S : Bucket(e) = b}
=============================================================================
