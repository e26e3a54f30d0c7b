------------------------------ MODULE Decoding ------------------------------
(***************************************************************************)
(* From a checkpoint file to rows: which events of which transactions      *)
(* become rows of db_events and db_order_events, under which key and with  *)
(* which times.  Columns copied from the event as they are (prices,        *)
(* quantities, order and account ids, raw_event) are left out.             *)
(*                                                                         *)
(* A checkpoint is [net, seq, ms, txs], net the store it comes from; a     *)
(* transaction [digest, events], without events <<>>; an event             *)
(*   [emitter  event.package_id,       home      type_.address,            *)
(*    type     <<type_.module, type_.name>>,                               *)
(*    contents "ok", "garbled" (not the BCS of the type) or                *)
(*             "unprintable" (no JSON value holds one of its numbers),     *)
(*    time     the event's own timestamp, a u64].                          *)
(***************************************************************************)
EXTENDS Integers, Sequences, FiniteSets

CONSTANTS
  Half,           \* 2^63
  Representable,  \* the milliseconds chrono has a date for
  Now,            \* Utc::now(), told apart from every such date
  FillBinds,      \* 19, the columns insert_db_events binds
  OrderBinds,     \* 21, those of insert_db_order_events
  MaxBinds        \* 65535, the parameters of one PostgreSQL statement

ASSUME DecodingAssumption ==
  /\ Half \in Nat \ {0} /\ Representable \subseteq (-Half)..(Half - 1)
  /\ Now \notin Int
  /\ {FillBinds, OrderBinds, MaxBinds} \subseteq Nat

Placed   == <<"order_info", "OrderPlaced">>
Canceled == <<"order", "OrderCanceled">>
Modified == <<"order", "OrderModified">>

\* OrderExpired and BalanceEvent have a MoveStruct, but nothing decodes them.
FillTypes  == {<<"order_info", "OrderFilled">>}
OrderTypes == {Placed, Canceled, Modified}
-----------------------------------------------------------------------------
(* Times.  A u64 cast with `as i64` wraps; an i64 no date exists for is    *)
(* replaced by the time of the conversion.                                 *)
AsI64(u) == IF u < Half THEN u ELSE u - 2 * Half

TimestampFromMs(ms) == IF ms \in Representable THEN ms ELSE Now

\* Mutant: the event's time is cast like the checkpoint's.
TimestampFromU64Or_Casts(u, fallback) == TimestampFromMs(AsI64(u))

TimestampFromU64Or(u, fallback) ==
  IF u < Half THEN TimestampFromMs(u) ELSE fallback
-----------------------------------------------------------------------------
(* The positions of checkpoint c's events, in the order of the two loops. *)
Positions(c) ==
  UNION {{<<t, i>> : i \in DOMAIN c.txs[t].events} : t \in DOMAIN c.txs}

EventAt(c, p) == c.txs[p[1]].events[p[2]]

\* Both the emitting package and the package that defines the type must be
\* known; the emitting one is not looked at again.
Matches(e, types, packages) ==
  /\ e.emitter \in packages
  /\ e.home \in packages /\ e.type \in types

Decoded(c, types, packages) ==
  {p \in Positions(c) : /\ Matches(EventAt(c, p), types, packages)
                        /\ EventAt(c, p).contents # "garbled"}

\* Mutant: only the events of known packages are counted.
EventSeq_KnownOnly(c, p, packages) ==
  Cardinality({i \in 1..(p[2] - 1) :
                 EventAt(c, <<p[1], i>>).emitter \in packages})

\* event_idx counts every event of the transaction, those of other packages too.
EventSeq(c, p, packages) == p[2] - 1

\* The row of the event at p.  src, the place the row came from, is no column.
Row(c, p, packages) ==
  LET ts == TimestampFromMs(AsI64(c.ms)) IN
  [tx_digest |-> c.txs[p[1]].digest, event_seq |-> EventSeq(c, p, packages),
   checkpoint |-> AsI64(c.seq), ts |-> ts,
   event_ts |-> TimestampFromU64Or(EventAt(c, p).time, ts),
   src |-> <<c.net, c.seq, p>>]

TradeEvents(c, packages) ==
  {Row(c, p, packages) : p \in Decoded(c, FillTypes, packages)}

OrderLifecycleEvents(c, packages) ==
  {Row(c, p, packages) : p \in Decoded(c, OrderTypes, packages)}

\* ingest_checkpoint fails, with nothing written, when a decoded event has no
\* JSON value, and when an INSERT has more rows than one statement binds.
Ingestible(c, packages) ==
  /\ \A p \in Decoded(c, FillTypes \cup OrderTypes, packages) :
       EventAt(c, p).contents # "unprintable"
  /\ FillBinds * Cardinality(TradeEvents(c, packages)) <= MaxBinds
  /\ OrderBinds * Cardinality(OrderLifecycleEvents(c, packages)) <= MaxBinds

Key(r) == <<r.tx_digest, r.event_seq>>

\* Mutant: ON CONFLICT (event_seq)
Upsert_SeqOnly(table, rows) ==
  {r \in table : \A q \in rows : q.event_seq # r.event_seq} \cup rows

\* INSERT ... ON CONFLICT (tx_digest, event_seq) DO UPDATE of every column.
Upsert(table, rows) == {r \in table : \A q \in rows : Key(q) # Key(r)} \cup rows
=============================================================================
