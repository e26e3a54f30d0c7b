---------------------------- MODULE TradeStream ----------------------------
(***************************************************************************)
(* One subscriber of WS /v1/deepbook/trades.  The stream (StreamTrades, a  *)
(* goroutine) sends the latest trades, then polls db_events for rows after *)
(* its cursor; the connection's handler (TradesWS) takes them from a       *)
(* bounded channel and writes them to the client, with pings in between.   *)
(* The indexer commits checkpoint after checkpoint meanwhile.              *)
(*                                                                         *)
(* The stream's queries and those of other requests share the database     *)
(* connections of the process.  A live query keeps its connection until    *)
(* its last row has been sent to the channel.                              *)
(***************************************************************************)
EXTENDS Integers, Sequences, FiniteSets, SequencesExt

CONSTANTS
  Trades,
  Wanted,      \* those of the pools the client asked for
  Checkpoint,  \* Checkpoint[t]
  Key,         \* Key[t]: rank of (checkpoint, tx_digest, event_seq)
  Time,        \* Time[t]: rank of COALESCE(event_ts, checkpoint_ts, ts)
  LastSeq,     \* bound: the last checkpoint indexed
  BacklogSize, \* 100
  PageSize,    \* 500
  ChanSize,    \* 10
  Conns,       \* connections of the pool
  Requests,    \* other requests that query the database, again and again
  MaxFaults    \* bound: queries that fail

ASSUME StreamAssumption ==
  /\ IsFiniteSet(Trades) /\ Wanted \subseteq Trades
  /\ Checkpoint \in [Trades -> 0..LastSeq]
  /\ Key \in [Trades -> Nat \ {0}] /\ Time \in [Trades -> Nat]
  /\ \A t, u \in Trades :
       /\ Key[t] = Key[u] => t = u
       /\ Checkpoint[t] < Checkpoint[u] => Key[t] < Key[u]
  /\ {LastSeq, BacklogSize, PageSize, ChanSize, Conns, MaxFaults} \subseteq Nat
  /\ "stream" \notin Requests

VARIABLES
  indexed,    \* the last checkpoint committed
  stream,     \* where the stream is
  rows,       \* rows of its last query not sent yet
  cur,        \* its cursor, as a key; 0 is the cursor (0, "", 0)
  sent,       \* sent > 0 in the current poll
  out,        \* the channel
  handler,    \* "select"; "writing" or "pinging": in WriteJSON; or "closed":
              \* returned, and the context canceled
  client,     \* "reads", "stalls": it is there and reads nothing, or "gone"
  pool,       \* who has asked for a connection, in order: the first Conns of
              \* them hold one, the others wait
  received,   \* what was given to WriteJSON
  replayed,   \* history: the length of the backlog sent
  base,       \* history: the last checkpoint the backlog query saw
  faults

vars == <<indexed, stream, rows, cur, sent, out, handler, client, pool,
          received, replayed, base, faults>>

Facts == {t \in Trades : Checkpoint[t] <= indexed}

\* The order of the backlog query.
Before(t, u) == Time[t] < Time[u] \/ (Time[t] = Time[u] /\ Key[t] < Key[u])

Newest(S, n) == {t \in S : Cardinality({u \in S : Before(t, u)}) < n}
Oldest(S, n) == {t \in S : Cardinality({u \in S : Key[u] < Key[t]}) < n}

Backlogged == stream \in {"backlog", "backlog rows"}
Streaming == {"backlog", "backlog rows", "poll", "rows", "sleep"}

Init ==
  /\ indexed \in -1..LastSeq
  /\ stream = "backlog"
  /\ rows = {} /\ cur = 0 /\ sent = FALSE
  /\ out = <<>>
  /\ handler = "select" /\ client = "reads"
  /\ pool = <<"stream">>
  /\ received = <<>>
  /\ replayed = 0 /\ base = -1
  /\ faults = MaxFaults
-----------------------------------------------------------------------------
(* The world: the indexer commits a checkpoint, the client stops reading,  *)
(* reads on or goes away.                                                  *)
IndexNext ==
  /\ indexed < LastSeq
  /\ indexed' = indexed + 1
  /\ UNCHANGED <<stream, rows, cur, sent, out, handler, client, pool,
                 received, replayed, base, faults>>

ClientMoves(from, to) ==
  /\ client = from /\ client' = to
  /\ UNCHANGED <<indexed, stream, rows, cur, sent, out, handler, pool,
                 received, replayed, base, faults>>

Client == \/ ClientMoves("reads", "stalls") \/ ClientMoves("stalls", "reads")
          \/ ClientMoves("reads", "gone") \/ ClientMoves("stalls", "gone")
-----------------------------------------------------------------------------
(* The connection pool (pgxpool): a connection given back goes to the one  *)
(* that has waited longest, however long that was.                         *)
Holds(x) == \E i \in DOMAIN pool : pool[i] = x /\ i <= Conns

Ask(x, p) == Append(p, x)
GiveBack(x, p) == RemoveFirst(p, x)

\* Another request asks for a connection, and its query is answered.
RequestAsks(r) ==
  /\ r \notin ToSet(pool)
  /\ pool' = Ask(r, pool)
  /\ UNCHANGED <<indexed, stream, rows, cur, sent, out, handler, client,
                 received, replayed, base, faults>>

RequestServed(r) ==
  /\ Holds(r)
  /\ pool' = GiveBack(r, pool)
  /\ UNCHANGED <<indexed, stream, rows, cur, sent, out, handler, client,
                 received, replayed, base, faults>>
-----------------------------------------------------------------------------
(* StreamTrades. *)
StreamTo(s) ==
  /\ stream' = s
  /\ UNCHANGED <<indexed, handler, client, received, faults>>

\* The latest trades: read at once, then sent from memory.
QueryBacklog ==
  /\ stream = "backlog" /\ Holds("stream")
  /\ pool' = GiveBack("stream", pool)
  /\ rows' = Newest(Facts \cap Wanted, BacklogSize)
  /\ base' = indexed
  /\ StreamTo("backlog rows")
  /\ UNCHANGED <<cur, sent, out, replayed>>

\* Mutant: the backlog does not move the cursor.
SendBacklog_KeepsCursor ==
  /\ stream = "backlog rows" /\ Len(out) < ChanSize
  /\ \E t \in rows : /\ \A u \in rows \ {t} : Before(t, u)
                     /\ rows' = rows \ {t}
                     /\ out' = Append(out, t)
  /\ replayed' = replayed + 1
  /\ StreamTo("backlog rows")
  /\ UNCHANGED <<cur, sent, pool, base>>

SendBacklog ==
  /\ stream = "backlog rows" /\ Len(out) < ChanSize
  /\ \E t \in rows : /\ \A u \in rows \ {t} : Before(t, u)
                     /\ rows' = rows \ {t}
                     /\ out' = Append(out, t)
                     /\ cur' = Key[t]
  /\ replayed' = replayed + 1
  /\ StreamTo("backlog rows")
  /\ UNCHANGED <<sent, pool, base>>

\* Mutant: the newest rows after the cursor come first.
Poll_NewestFirst ==
  /\ stream = "poll" /\ Holds("stream")
  /\ rows' = Newest({t \in Facts \cap Wanted : Key[t] > cur}, PageSize)
  /\ sent' = FALSE
  /\ StreamTo("rows")
  /\ UNCHANGED <<cur, out, pool, replayed, base>>

\* Mutant: the row at the cursor is read again.
Poll_FromCursor ==
  /\ stream = "poll" /\ Holds("stream")
  /\ rows' = Oldest({t \in Facts \cap Wanted : Key[t] >= cur}, PageSize)
  /\ sent' = FALSE
  /\ StreamTo("rows")
  /\ UNCHANGED <<cur, out, pool, replayed, base>>

\* Mutant: the pool filter is forgotten.
Poll_AllPools ==
  /\ stream = "poll" /\ Holds("stream")
  /\ rows' = Oldest({t \in Facts : Key[t] > cur}, PageSize)
  /\ sent' = FALSE
  /\ StreamTo("rows")
  /\ UNCHANGED <<cur, out, pool, replayed, base>>

\* The rows after the cursor, in the cursor's order.
Poll ==
  /\ stream = "poll" /\ Holds("stream")
  /\ rows' = Oldest({t \in Facts \cap Wanted : Key[t] > cur}, PageSize)
  /\ sent' = FALSE
  /\ StreamTo("rows")
  /\ UNCHANGED <<cur, out, pool, replayed, base>>

SendRow ==
  /\ stream = "rows" /\ Len(out) < ChanSize
  /\ \E t \in rows : /\ \A u \in rows : Key[t] <= Key[u]
                     /\ rows' = rows \ {t}
                     /\ out' = Append(out, t)
                     /\ cur' = Key[t]
  /\ sent' = TRUE
  /\ StreamTo("rows")
  /\ UNCHANGED <<pool, replayed, base>>

\* The rows are all sent: poll again, after a second if there were none.
RowsSent ==
  /\ stream \in {"backlog rows", "rows"} /\ rows = {}
  /\ IF stream = "rows" /\ ~sent
     THEN StreamTo("sleep") /\ pool' = GiveBack("stream", pool)
     ELSE StreamTo("poll") /\ pool' = Ask("stream", GiveBack("stream", pool))
  /\ UNCHANGED <<rows, cur, sent, out, replayed, base>>

\* Mutant: after an empty poll the stream never polls again.
Wake_Sleeps ==
  /\ stream = "sleep"
  /\ StreamTo("sleep")
  /\ UNCHANGED <<rows, cur, sent, out, pool, replayed, base>>

Wake ==
  /\ stream = "sleep"
  /\ StreamTo("poll")
  /\ pool' = Ask("stream", pool)
  /\ UNCHANGED <<rows, cur, sent, out, replayed, base>>

\* Mutant: the rows are not closed when StreamTrades returns among them.
StreamReturns_LeavesRows ==
  /\ stream' = "stopped" /\ rows' = {}
  /\ pool' = IF stream = "rows" THEN pool ELSE GiveBack("stream", pool)
  /\ UNCHANGED <<indexed, cur, sent, out, handler, client, received,
                 replayed, base>>

\* Every return closes the rows of an open query or leaves the pool's queue.
StreamReturns ==
  /\ stream' = "stopped" /\ rows' = {}
  /\ pool' = GiveBack("stream", pool)
  /\ UNCHANGED <<indexed, cur, sent, out, handler, client, received,
                 replayed, base>>

\* Mutant: a send on the full channel does not look at the context.
Canceled_NotInSend ==
  /\ stream \in {"backlog", "poll", "sleep"} /\ handler = "closed"
  /\ StreamReturns /\ UNCHANGED faults

\* The handler has returned and canceled the context: a query, a send, a
\* sleep or the wait for a connection ends.
Canceled ==
  /\ stream \in Streaming /\ handler = "closed"
  /\ StreamReturns /\ UNCHANGED faults

\* A query, a row of it or its end is an error.
StreamFails ==
  /\ stream \in {"backlog", "poll", "rows"}
  /\ faults > 0 /\ faults' = faults - 1
  /\ StreamReturns

\* close(out), then close(done).
CloseOut ==
  /\ stream = "stopped"
  /\ StreamTo("out closed")
  /\ UNCHANGED <<rows, cur, sent, out, pool, replayed, base>>

CloseDone ==
  /\ stream = "out closed"
  /\ StreamTo("done")
  /\ UNCHANGED <<rows, cur, sent, out, pool, replayed, base>>
-----------------------------------------------------------------------------
(* TradesWS: the select loop. *)

\* An event from the channel.
Forward ==
  /\ handler = "select" /\ out # <<>>
  /\ out' = Tail(out)
  /\ received' = Append(received, Head(out))
  /\ handler' = "writing"
  /\ UNCHANGED <<indexed, stream, rows, cur, sent, client, pool, replayed,
                 base, faults>>

HandlerTo(h) ==
  /\ handler' = h
  /\ UNCHANGED <<indexed, stream, rows, cur, sent, out, client, pool,
                 received, replayed, base, faults>>

\* The ticker; a ping to a client that reads changes nothing.
Ping == handler = "select" /\ client # "reads" /\ HandlerTo("pinging")

\* WriteJSON has no deadline.  It returns when the client reads; when it does
\* not or has left, the buffers may still take the message.
Written == handler \in {"writing", "pinging"} /\ HandlerTo("select")

WriteFails ==
  handler \in {"writing", "pinging"} /\ client = "gone" /\ HandlerTo("closed")

\* The stream is over.  The done case may be taken while events are still in
\* the channel.
HandlerEnds ==
  /\ handler = "select"
  /\ \/ stream \in {"out closed", "done"} /\ out = <<>>
     \/ stream = "done"
  /\ HandlerTo("closed")
-----------------------------------------------------------------------------
StreamSteps == \/ QueryBacklog \/ SendBacklog \/ Poll \/ SendRow \/ RowsSent
               \/ Wake \/ CloseOut \/ CloseDone

Next == \/ IndexNext \/ Client
        \/ \E r \in Requests : RequestAsks(r) \/ RequestServed(r)
        \/ StreamSteps \/ Canceled \/ StreamFails
        \/ Forward \/ Ping \/ Written \/ WriteFails \/ HandlerEnds

Spec == Init /\ [][Next]_vars

(* The goroutines run, select takes each case that is ready again and      *)
(* again, a canceled context is noticed at the next blocking point, a      *)
(* write ends if the client reads on now and then, a client that left      *)
(* fails a write, the query of another request ends.                       *)
FairSpec ==
  /\ Spec
  /\ WF_vars(StreamSteps) /\ WF_vars(Canceled)
  /\ SF_vars(Forward) /\ SF_vars(Ping) /\ SF_vars(HandlerEnds)
  /\ SF_vars(client = "reads" /\ Written) /\ SF_vars(WriteFails)
  /\ \A r \in Requests : WF_vars(RequestServed(r))
-----------------------------------------------------------------------------
Sent == received \o out
Live == SubSeq(Sent, replayed + 1, Len(Sent))

TypeOK ==
  /\ indexed \in -1..LastSeq
  /\ stream \in Streaming \cup {"stopped", "out closed", "done"}
  /\ rows \subseteq Wanted /\ cur \in Nat /\ sent \in BOOLEAN
  /\ out \in Seq(Trades) /\ Len(out) <= ChanSize
  /\ handler \in {"select", "writing", "pinging", "closed"}
  /\ client \in {"reads", "stalls", "gone"}
  /\ IsInjective(pool) /\ ToSet(pool) \subseteq Requests \cup {"stream"}
  /\ received \in Seq(Trades)
  /\ replayed \in Nat /\ base \in -1..LastSeq /\ faults \in 0..MaxFaults

\* The cursor never passes a new trade: while the connection lives, every
\* trade indexed since the backlog query, up to the cursor, has been sent,
\* whatever the page limits cut off and whenever checkpoints were committed.
NothingSkipped ==
  handler # "closed" =>
    \A t \in Facts \cap Wanted :
      Checkpoint[t] > base /\ Key[t] <= cur => t \in ToSet(Sent)

\* Live trades come in checkpoint order, none twice.
LiveInOrder ==
  handler # "closed" =>
    \A i, j \in DOMAIN Live : i < j => Key[Live[i]] < Key[Live[j]]

\* No trade is sent twice on a connection, in the backlog and then live.
OncePerTrade == IsInjective(Sent)

\* A trade is sent twice only if it was in the backlog, before one that is
\* later in time and lower in the cursor's order.
OnlyOvertakenRepeat ==
  handler # "closed" =>
    \A i, j \in DOMAIN Sent : (i < j /\ Sent[i] = Sent[j]) =>
      \E k \in i..replayed : /\ Before(Sent[i], Sent[k])
                             /\ Key[Sent[k]] < Key[Sent[i]]

\* The client stops reading for good and stays connected.
StopsReading == <>[](client = "stalls")

\* A trade indexed after the backlog query reaches the client, however slowly
\* it reads, unless the connection ends.
NewTradesArrive ==
  \/ StopsReading
  \/ \A t \in Wanted :
       (~Backlogged /\ t \in Facts /\ Checkpoint[t] > base)
         ~> \/ t \in ToSet(received) /\ handler # "writing"
            \/ handler = "closed"

\* A slow client delays the requests that wait for a connection while its
\* stream holds one, but as long as it reads on they are served; and whatever
\* way a stream ends, its connection does not go with it.
RequestsServed ==
  StopsReading \/ \A r \in Requests : r \in ToSet(pool) ~> Holds(r)

\* When the client leaves, the handler and the stream end, wherever they were
\* blocked, in a write to a client that had stopped reading too: neither
\* goroutine nor the stream's database connection is left behind.
StreamEnds == client = "gone" ~> (handler = "closed" /\ stream = "done")
=============================================================================
