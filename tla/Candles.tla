------------------------------ MODULE Candles ------------------------------
(***************************************************************************)
(* The aggregating endpoints of the API over the rows module Rollups       *)
(* computes: GetPoolCandles, GetPoolMetrics (ListTopMarkets runs the same  *)
(* aggregate for every pool) and GetBMVolume.  Each is one query and so    *)
(* sees one state of the tables.  The stored vwap is rounded; the vwap of  *)
(* a longer candle is kept as the two sums the query divides.              *)
(***************************************************************************)
EXTENDS Rollups

CONSTANTS
  Intervals,  \* lengths of a candle in minutes: 1 and the longer ones
  Legacy,     \* the sets of minutes whose rows may date from before
              \* migration 002, which added open, high and low as NULL
  Unit        \* a vwap is stored in parts of 1 / Unit, 10^18 in the schema

ASSUME CandlesAssumption ==
  /\ Intervals \subseteq Nat \ {0}
  /\ Legacy \subseteq SUBSET Minutes
  /\ IsFiniteSet(Pools)  \* rows of a table
  /\ Unit \in Nat \ {0}

\* The row of pool p and minute t; old ones have no open, high and low.
Stored(p, t, legacy) ==
  IF t \in legacy
  THEN [pools[<<p, t>>] EXCEPT !.open = NoPrice, !.high = NoPrice,
                               !.low = NoPrice]
  ELSE pools[<<p, t>>]

\* WHERE pool_id = p AND bucket_start >= from, from being NOW() - window.
InWindow(p, from) == {t \in Minutes : t >= from /\ pools[<<p, t>>].trades > 0}

\* SUM(column) over the rows of pool p and the minutes S.
Sum(p, S, column) == MapThenSumSet(LAMBDA t : pools[<<p, t>>][column], S)

\* The row's vwap, sum_px_base / volume_base, in units: NUMERIC(38, 18) rounds
\* to the nearest.
Vwap(a) == (2 * Unit * a.sum_px_base + a.volume_base) \div (2 * a.volume_base)

\* vwap * volume_base; SUM skips the NULL vwap of a row without base volume.
Weight(a) == IF a.volume_base = 0 THEN 0 ELSE Vwap(a) * a.volume_base

\* The sums; SUM(weight) / SUM(volume_base) is the vwap over S.
Totals(p, S) ==
  [trades       |-> Sum(p, S, "trades"),
   volume_base  |-> Sum(p, S, "volume_base"),
   volume_quote |-> Sum(p, S, "volume_quote"),
   weight       |-> MapThenSumSet(LAMBDA t : Weight(pools[<<p, t>>]), S)]

Coalesce(x, y) == IF x = NoPrice THEN y ELSE x

\* Mutant: the rows are taken in descending order.
FirstRow_Descending(S) == Max(S)

\* Mutant: ... in ascending order
LastRow_Ascending(S) == Min(S)

\* (ARRAY_AGG(... ORDER BY bucket_start ASC))[1], and DESC
FirstRow(S) == Min(S)
LastRow(S)  == Max(S)

\* Mutant: a price column of an old row counts as 0.
High_NullIsZero(r) == Coalesce(r.high, 0)

\* COALESCE(high_price, last_price), COALESCE(low_price, last_price)
High(r) == Coalesce(r.high, r.last)
Low(r)  == Coalesce(r.low, r.last)

\* floor(epoch / interval) * interval; one minute is its own interval.
Start(t, i) == (t \div i) * i

\* The candle of the rows S, which share their start.
Candle(p, S, start, legacy) ==
  LET row(t) == Stored(p, t, legacy)
      first == row(FirstRow(S)) IN
  [start  |-> start,
   open   |-> Coalesce(first.open, first.last),
   high   |-> Max({High(row(t)) : t \in S}),
   low    |-> Min({Low(row(t)) : t \in S}),
   close  |-> row(LastRow(S)).last,
   totals |-> Totals(p, S)]

\* GetPoolCandles: GROUP BY the start
PoolCandles(p, i, from, legacy) ==
  {Candle(p, {t \in InWindow(p, from) : Start(t, i) = b}, b, legacy) :
     b \in {Start(t, i) : t \in InWindow(p, from)}}

\* GetPoolMetrics: the same aggregate over the whole window.
PoolMetrics(p, from) ==
  LET S == InWindow(p, from) IN
  [totals |-> Totals(p, S),
   last_price |-> IF S = {} THEN NoPrice ELSE pools[<<p, LastRow(S)>>].last]

\* Mutant: the window's condition is missing.
BmRows_AllTime(m, p, from) == {t \in Minutes : bms[<<m, p, t>>].trades > 0}

\* WHERE bm_id = m AND pool_id = p AND bucket_start >= from
BmRows(m, p, from) == {t \in Minutes : t >= from /\ bms[<<m, p, t>>].trades > 0}

\* SUM(volume_quote) of the rows of one pool
BmQuotes(m, p, from) ==
  MapThenSumSet(LAMBDA t : bms[<<m, p, t>>].volume_quote, BmRows(m, p, from))

\* GetBMVolume with a pool filter (all pools where there is none), when the
\* rows of the pools in got arrive and then the connection is lost, or the
\* result is complete: rows.Err() is not looked at.
Asked(m, from, filter) == {p \in filter : BmRows(m, p, from) # {}}

BmVolume(m, from, got) ==
  [breakdown |-> [p \in got |-> BmQuotes(m, p, from)],
   total |-> MapThenSumSet(LAMBDA p : BmQuotes(m, p, from), got)]
-----------------------------------------------------------------------------
(* Properties: whatever fills have been aggregated and at whatever minute  *)
(* the window begins.                                                      *)
Candles ==
  [pool : Pools, length : Intervals, from : Minutes, legacy : Legacy]
Asks(q) == PoolCandles(q.pool, q.length, q.from, q.legacy)

\* A candle built from minutes that are all in the window, and all newer than
\* migration 002, says of its interval what the fills say: first, last,
\* highest and lowest price, trades, base volume and, but for the rounding of
\* the rows' own, at most half a unit, the vwap; whatever its length.
CandlesMatchFacts ==
  \A q \in Candles : \A c \in Asks(q) :
    LET span == c.start..(c.start + q.length - 1)
        S == Passed(q.pool, span)
        price == {done[j].price : j \in S}
        exact == MapThenSumSet(LAMBDA j : done[j].price * done[j].base, S)
        base == MapThenSumSet(Base, S) IN
    (q.from <= c.start /\ span \cap q.legacy = {}) =>
      /\ c.open = done[Min(S)].price /\ c.close = done[Max(S)].price
      /\ c.high = Max(price) /\ c.low = Min(price)
      /\ c.totals.trades = Cardinality(S) /\ c.totals.volume_base = base
      /\ 2 * (c.totals.weight - Unit * exact) \in -base..base

\* Also a candle that begins before the window, or with rows that have their
\* close only, is well formed: low and high bound open and close.
CandlesBounded ==
  \A q \in Candles : \A c \in Asks(q) :
    {c.open, c.close} \subseteq c.low..c.high

\* Asked at the same moment for the same window, the candles of any length
\* and the pool's metrics agree: the candles leave no row out and count none
\* twice, and the last close is the last price.
EndpointsAgree ==
  \A q \in Candles :
    LET cs == Asks(q) m == PoolMetrics(q.pool, q.from) IN
    /\ \A k \in {"trades", "volume_base", "volume_quote"} :
         MapThenSumSet(LAMBDA c : c.totals[k], cs) = m.totals[k]
    /\ cs # {} => \E c \in cs : /\ \A d \in cs : d.start <= c.start
                                /\ c.close = m.last_price

\* The quote volume of what the manager made and took in the pool.
BmFact(m, p, window) == MapThenSumSet(Quote, MakerFills(m, p, window))
                        + MapThenSumSet(Quote, TakerFills(m, p, window))

\* Every breakdown entry that arrives is the quote volume of what the manager
\* made and took in the pool within the window, a fill with itself twice; the
\* total is that of the entries, short when some did not arrive.
BmVolumeMatchesFacts ==
  \A m \in BMs, from \in Minutes, filter \in SUBSET Pools :
    \A got \in SUBSET Asked(m, from, filter) :
      LET window == {t \in Minutes : t >= from}
          facts == MapThenSumSet(LAMBDA p : BmFact(m, p, window), filter)
          answer == BmVolume(m, from, got) IN
      /\ \A p \in got : answer.breakdown[p] = BmFact(m, p, window)
      /\ answer.total <= facts
      /\ got = Asked(m, from, filter) =>
           answer.total = facts
=============================================================================
