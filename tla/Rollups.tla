------------------------------ MODULE Rollups ------------------------------
(***************************************************************************)
(* compute_rollups: one pass over fills in the order ts, checkpoint,       *)
(* tx_digest, event_seq, that aggregates them per pool and per             *)
(* (BalanceManager, pool) in each minute.  Its callers pass it one minute  *)
(* at a time; the passes over successive minutes are one pass here.  An    *)
(* entry the code has not inserted yet is one with trades = 0.  Decimals   *)
(* are integers.                                                           *)
(***************************************************************************)
EXTENDS Integers, Sequences, FiniteSetsExt

CONSTANTS
  Pools, BMs,
  NoBm,      \* a NULL maker_bm, as the schema allows
  NoPrice,   \* a price column not set yet
  Prices,    \* prices, positive
  Sizes,     \* base sizes
  Quotes,    \* quote sizes
  Minutes,   \* the minutes, bucket starts
  Samples,   \* the fills that occur
  MaxFills   \* bound: fills in the pass

ASSUME RollupsAssumption ==
  /\ NoBm \notin BMs /\ NoPrice \notin Int
  /\ Prices \subseteq Nat \ {0} /\ Sizes \subseteq Nat
  /\ Quotes \subseteq Nat /\ Minutes \subseteq Int
  /\ MaxFills \in Nat

\* A row of db_events, its ts truncated to the minute.  The contract always
\* names the taker's manager.
Fill == [minute : Minutes, pool : Pools, maker : BMs \cup {NoBm}, taker : BMs,
         sell : BOOLEAN, price : Prices, base : Sizes, quote : Quotes]

ASSUME SamplesAssumption == Samples \subseteq Fill

VARIABLES
  done,   \* the fills passed, in order
  pools,  \* pool_map
  bms     \* bm_map

vars == <<done, pools, bms>>

NoPool == [trades |-> 0, volume_base |-> 0, volume_quote |-> 0,
           maker_volume |-> 0, taker_volume |-> 0, sum_px_base |-> 0,
           open |-> NoPrice, high |-> NoPrice, low |-> NoPrice,
           last |-> NoPrice]
NoEntry == [trades |-> 0, volume_quote |-> 0,
            maker_volume |-> 0, taker_volume |-> 0]

Init ==
  /\ done = <<>>
  /\ pools = [k \in Pools \X Minutes |-> NoPool]
  /\ bms = [k \in BMs \X Pools \X Minutes |-> NoEntry]

\* Mutant: every fill sets the open price.
Opening_Overwrites(o, x) == x

\* The price columns after one more fill at price x.
Opening(o, x) == IF o = NoPrice THEN x ELSE o

\* Mutant: the comparison is the other way round.
Lowest_Swapped(l, x) == IF l # NoPrice /\ l >= x THEN l ELSE x

Lowest(l, x)  == IF l # NoPrice /\ l <= x THEN l ELSE x
Highest(h, x) == IF h # NoPrice /\ h >= x THEN h ELSE x

\* Mutant: the taker side takes every fill.
TakerShare_All(f) == f.quote

\* A pool's fill counts as maker volume if it is a sell, else as taker volume.
MakerShare(f) == IF f.sell THEN f.quote ELSE 0
TakerShare(f) == IF f.sell THEN 0 ELSE f.quote

\* The pool's aggregate a with one more fill f.
AddToPool(a, f) ==
  [trades       |-> a.trades + 1,
   volume_base  |-> a.volume_base + f.base,
   volume_quote |-> a.volume_quote + f.quote,
   maker_volume |-> a.maker_volume + MakerShare(f),
   taker_volume |-> a.taker_volume + TakerShare(f),
   sum_px_base  |-> a.sum_px_base + f.price * f.base,
   open |-> Opening(a.open, f.price),
   high |-> Highest(a.high, f.price),
   low  |-> Lowest(a.low, f.price),
   last |-> f.price]

\* Mutant: a side's volume is credited whatever the side.
Credit_Any(f, side) == f.quote

Credit(f, side) == IF side THEN f.quote ELSE 0

\* update_bm: one side of the fill, a side without a BalanceManager skipped.
UpdateBm(m, bm, f, isMaker) ==
  IF bm = NoBm THEN m
  ELSE [m EXCEPT ![<<bm, f.pool, f.minute>>] =
         [trades       |-> @.trades + 1,
          volume_quote |-> @.volume_quote + f.quote,
          maker_volume |-> @.maker_volume + Credit(f, isMaker),
          taker_volume |-> @.taker_volume + Credit(f, ~isMaker)]]

Add(f) ==
  /\ Len(done) < MaxFills
  /\ \A j \in DOMAIN done : done[j].minute <= f.minute
  /\ done' = Append(done, f)
  /\ pools' = [pools EXCEPT ![<<f.pool, f.minute>>] = AddToPool(@, f)]
  /\ bms' = UpdateBm(UpdateBm(bms, f.maker, f, TRUE), f.taker, f, FALSE)

Next == \E f \in Samples : Add(f)

Spec == Init /\ [][Next]_vars
-----------------------------------------------------------------------------
(* What the rows must say, from the fills as a set. *)
Passed(p, M) == {j \in DOMAIN done : done[j].pool = p /\ done[j].minute \in M}
Base(j)  == done[j].base
Quote(j) == done[j].quote

MakerFills(m, p, M) == {j \in Passed(p, M) : done[j].maker = m}
TakerFills(m, p, M) == {j \in Passed(p, M) : done[j].taker = m}

\* A minute's row holds the totals of the pool's fills in that minute and the
\* prices of its first and last ones; no fill is counted twice, in another
\* minute or on another pool.
PoolRowsAreTotals ==
  \A p \in Pools, t \in Minutes :
    LET S == Passed(p, {t}) a == pools[<<p, t>>] IN
    /\ a.trades = Cardinality(S)
    /\ a.volume_base = MapThenSumSet(Base, S)
    /\ a.volume_quote = MapThenSumSet(Quote, S)
    /\ S # {} => /\ a.open = done[Min(S)].price
                 /\ a.last = done[Max(S)].price

\* A minute's prices are well formed: low and high bound open, close and the
\* vwap (sum_px_base / volume_base, NULL when no base was traded).
CandlesWellFormed ==
  \A k \in Pools \X Minutes : LET a == pools[k] IN
    a.trades > 0 => /\ {a.open, a.last} \subseteq a.low..a.high
                    /\ a.low * a.volume_base <= a.sum_px_base
                    /\ a.sum_px_base <= a.high * a.volume_base

\* Each fill's quote volume is on exactly one of a pool's two sides.
SidesPartitionVolume ==
  \A k \in Pools \X Minutes :
    pools[k].maker_volume + pools[k].taker_volume = pools[k].volume_quote

\* The fills a BalanceManager took part in.
TookPartIn(m, p, M) == MakerFills(m, p, M) \cup TakerFills(m, p, M)

\* A BalanceManager's row has the volume it made and the volume it took, and
\* counts the fills it took part in if none of them is with itself.
BmRowsAreTotals ==
  \A m \in BMs, p \in Pools, t \in Minutes :
    LET made == MakerFills(m, p, {t}) took == TakerFills(m, p, {t})
        a == bms[<<m, p, t>>] IN
    /\ a.maker_volume = MapThenSumSet(Quote, made)
    /\ a.taker_volume = MapThenSumSet(Quote, took)
    /\ a.volume_quote = a.maker_volume + a.taker_volume
    /\ made \cap took = {} => a.trades = Cardinality(TookPartIn(m, p, {t}))

\* bm_metrics_1m.trades is the number of fills the BalanceManager took part in
\* in the minute.  (It fails: a fill with itself counts twice.)
BmTradesCountFills ==
  \A m \in BMs, p \in Pools, t \in Minutes :
    bms[<<m, p, t>>].trades = Cardinality(TookPartIn(m, p, {t}))
=============================================================================
