# Verification of the DeepBook indexer and its API

TLA+ specifications of the programs in this repository: the checkpoint indexer
(`indexer/`, Rust), the storage layer it writes through (`storage/`, `migrations/`)
and the read API (`api-go/`, Go). TLC checks the specifications on small instances;
TLAPS proves theorems about nearly all of them for every value of their constants.
`PROJECT.json` maps each definition to the lines it models.

## 1. Inventory

```
 remote store --HTTP--> indexer `run` --1 transaction per checkpoint--> PostgreSQL
      ^                 `replay`  ------1 transaction-----------------> db_events
      |                 `status`  ------reads------------------------>  db_order_events
      |                                                                 pool_metrics_1m
      +---HEAD probes--- API (status, metrics) ----reads------------>   bm_metrics_1m
                         API (fills, lifecycle, candles, ...) ------>   indexer_state
                         API (WS trades) -----polls----------------->   *_metadata
```

| component | state | operations | what is hard | what makes it correct |
|---|---|---|---|---|
| indexer `run` (`main.rs`, `config.rs`) | next checkpoint, backoff attempt, open transaction; in the database: facts, metrics, progress row | start and gap guard, fetch, ingest (insert fills, order events, recompute buckets, progress, commit), wait, stop, ctrl-c | crash between statements, commit with a lost answer, retry, start over from an older checkpoint, a checkpoint that can never be written, another network on the same database | no gap below the progress row, whole checkpoints only, metrics = aggregate of the facts, progress never back, everything indexed at last |
| event decoding (`events.rs`, the loops of `ingest_checkpoint`) | none | which events are fills or order events, under which key, with which times | times at 2^63 and beyond chrono's last date, an event that does not decode, one without a JSON value, more rows than a statement binds, builds that know different packages | an event keeps its key and row under every build; times are the event's or the checkpoint's |
| program start (`main.rs`, `config.rs`, migrations) | migrations applied, advisory lock | read DEEPBOOK_ENV, migrate, seed, dispatch | several processes and builds at once, a process that dies with the lock, the schema applied twice | every valid start reaches its command; nothing indexed is lost |
| `compute_rollups` (`main.rs`) | two maps | one pass over a bucket | first fill, equal prices, zero sizes, fills with oneself | totals independent of the pass order, well-formed candles |
| `replay` (`main.rs`) | open transaction | list, recompute buckets, commit | runs beside the indexer without locks of its own; row locks taken in HashMap order | metrics right at the end, no deadlock left |
| remote store client (`remote_store.rs`) | backoff attempt | fetch, search for the latest | time-outs, 404 for a file that is there, publishing during a search | retried, honest answer |
| storage (`queries.rs`, migrations) | tables | upserts, range queries | conflicts, locks | see `run`, `replay` |
| metadata seeding (`metadata.rs`) | two tables | two upserts at start | a crash between them, a network without pools | a pool's assets are there before it |
| trade stream (`StreamTrades`, `TradesWS`) | cursor, channel, goroutine, connection, the process's database connections | backlog, poll, send, forward, ping, close | backlog and live order differ, full channel, client stalls or leaves, commits in between, other requests need the same connections | nothing new skipped, order, no leak, others are served |
| paginated reads (`GetExecutionFills`, `GetOrderLifecycle`) | the client's cursor | one page | commits and an ageing window between pages, ties, fractions of a millisecond, limits | complete, no repetition, descending |
| source probe (`checkpoints.go`, `composeServiceStatus`) | cached value and its age | search, cache, lag | concurrent searches, publishing, failures | honest latest and lag, ends |
| aggregating reads (`store.go`) | none | candles, pool metrics, top markets, BM volume, summary | partial results, cut windows, rows of an older schema | re-aggregation agrees with the facts, endpoints with each other |
| API wiring, config, auth; `common/`; `examples/` | none | - | - | not modelled |

The parts interact through the database only (and the store's files): the indexer's
commit is the one moment at which readers see anything, which is why each reader's
module has an action "the indexer commits one more checkpoint" (`IndexNext`,
`Index`) that may happen between any two of its steps, and why the guarantee behind
that action, that commits are whole checkpoints in order, is the first thing
modelled and the thing proved. The hazards of the code, each at its line, are in
`PROJECT.json`.

## 2. Modules

| module | models | proofs |
|---|---|---|
| `Chain` | what the stores hold; rows and buckets of an event | |
| `AtomicIndex` | abstract specification: checkpoints are indexed whole, in order, metrics exact | |
| `Indexer` | the `run` command; implements `AtomicIndex` | `IndexerProofs` |
| `EventLog` | abstract specification: what builds of the indexer promise of events | |
| `Decoding` | from a checkpoint file to rows, keys, times | |
| `Processes` | the processes of several builds on one database, start to command; implements `EventLog` | `ProcessesProofs` |
| `Rollups` | `compute_rollups` | `RollupsProofs` |
| `Candles` | the aggregating endpoints over the rows of `Rollups` | `CandlesProofs` |
| `RollupWriters` | `run` and `replay` transactions under row locks | `WritersProofs` |
| `TradeStream` | one WebSocket subscriber and the database connections it shares | `TradeStreamProofs` |
| `Pages` | one client's walk over a paginated endpoint | `PagesProofs` |
| `LatestProbe` | the searches for the latest checkpoint | `LatestProbeProofs` |
| `Progress` | the one variable `Pages` and `LatestProbe` share, the progress row | |
| `Readers` | composition of `Pages` and `LatestProbe` beside one indexer | |

`Indexer` and `Processes` are two cuts through the same program. `Indexer` has one
process, a checkpoint's rows as opaque facts, and every statement of its
transaction; `Processes` has many processes, what a row is made of, and a checkpoint
as one step, which is what `Indexer` is shown to implement. `Candles` extends
`Rollups`: the reads are about the rows that module writes. `Readers` extends
`Pages` and `LatestProbe`: the indexer's commit is one step of both, all others are
steps of one.

`MC*` modules give the constants of `Chain`, `Indexer`, ... concrete values for TLC;
each `.cfg` is one run. Definitions named `X_Something` with the comment "Mutant"
are deliberately wrong variants of `X`, next to it: no specification uses them, they
serve to test that the properties are able to fail.

### Indexer

State. `processed`, `facts`, `orders`, `rollup` are the committed tables
`indexer_state`, `db_events`, `db_order_events` and the two metric tables. A metric
row is represented by the set of facts it aggregates; what numbers it holds is the
matter of `Rollups`. `tx` is the view the open transaction has: the tables with its
own writes. `pc` is the place of `run_indexer` (`fetch`, `poll` after a 404, `retry`
after an error, and the statements `fills`, `orders`, `buckets`, `commit` of
`ingest_checkpoint`); `next`, `stop`, `attempt` and `todo` are its variables
`next_checkpoint`, `cfg.stop_checkpoint`, `backoff.attempt` and `affected_buckets`.
`latest` is what the store has published.

| action | code |
|---|---|
| `Start` | `run_indexer` before the loop: progress read, cast, gap guard |
| `Exit` | stop checkpoint reached, or ctrl-c in one of the `select!`s |
| `Fetched`, `NotYet`, `FetchFails` | the three outcomes of `fetch_checkpoint` |
| `WaitOver` | `should_wait_with_shutdown` |
| `InsertFills` .. `UpdateProgress` | the statements of `ingest_checkpoint` |
| `Commit`, `CommitUnknown` | `tx.commit()`: acknowledged, or done with the answer lost |
| `IngestFails` | any `?` of `ingest_checkpoint`: rollback, warn, backoff |
| `Crash` | the process dies anywhere; a COMMIT under way may or may not count |

`Next` has no action for ctrl-c during `ingest_checkpoint`: the code looks at the
signal only when it fetches or waits. The schema is applied once, before; what
happens when it is applied again is in `Processes`.

### Decoding, Processes, EventLog

`Decoding` is stateless: `Positions` and `EventAt` are the two loops over
transactions and events, `Matches` is `is_deepbook` with the type names, `Decoded`
the deserialization, `EventSeq` the counter `event_idx`, `Row`, `TradeEvents`,
`OrderLifecycleEvents` the rows, `Upsert` the `ON CONFLICT` statements, `AsI64`,
`TimestampFromMs`, `TimestampFromU64Or` the time conversions. A row carries its
origin `src`, which is no column: `KeysIdentifyEvents` compares the two.

| action of `Processes` | code |
|---|---|
| `Boot` | `Config::from_env`; a text that names no network ends the process |
| `Lock`, `Migrate`, `Migrated` | `sqlx::migrate!` under PostgreSQL's advisory lock, a transaction per file |
| `Reapply` | the `migrate` service of `docker/docker-compose.yml`: psql applies the files again at each `up` |
| `SeedAssets`, `SeedPools` | the two upserts of `seed_metadata` |
| `Ingest` | one checkpoint of `run`: a new one or an older one |
| `Finish`, `Die` | the command returns; the process dies, and with its session the lock |

Migration 001 sets progress 0 back to -1 when the table `checkpoints` is empty, and
nothing ever writes to that table (`FreshOffset`). A database that has indexed
exactly checkpoint 0 thus goes back by one; `EventLog!Rewind` is that step, the only
way back the abstract log has. `Reapply` happens at any time, as when `docker
compose up` is called beside a running indexer. Such an indexer goes on from the
checkpoint it has done, whatever the row says now: `ahead` is the set of those that
may (`Done`), and `rewound` of `EventLog` says that there are any, until the last is
gone (`Forget`).

`EventLog` says of each build which events it finds, and that what was found stays.

### Rollups

`Add(f)` is one turn of the loop of `compute_rollups`; `pools` and `bms` are its
maps, one minute after the other. The properties compare them with sums over the
*set* of fills passed.

### Candles

`PoolCandles`, `PoolMetrics` and `BmVolume` are the answers of `GetPoolCandles`,
`GetPoolMetrics` (the aggregate that `ListTopMarkets` computes per pool) and
`GetBMVolume`, as functions of the rows in the current state of `Rollups`. Their
properties quantify over the pool, the interval, the minute in which the window
begins, the minutes with rows older than migration 002 (NULL open, high and low),
and, for the volume, over the rows that arrive before a lost connection ends the
loop. A row's vwap is stored rounded to the unit of its column (`Vwap`, 1/`Unit`;
10^-18 in the schema), and the endpoints weight the rounded values again (`Weight`):
`CandlesMatchFacts` says how far from the fills' own weighted sum that can lead,
half a unit for each unit of base volume, and equality does not hold.

### RollupWriters

Each writer runs a list of jobs (ingest one checkpoint, or replay a range); the
variable `program` holds the lists, chosen from `Programs` at the start: a replay of
the minute being written, replays of one that is closed, two indexers. A job is one
transaction: `Begin`, the locks of each row of a statement (`Lock`, `Wait`),
`Affected`, and per bucket `ReadBucket` and the two upserts, then `Commit` or
`Abort`. PostgreSQL is external and modelled as the code uses it: snapshot per
statement, row locks to the end of the transaction, handed to a waiter, `ON CONFLICT
DO UPDATE` that waits and then overwrites, detection of wait cycles. The order in
which the rows of one upsert are locked is that of a `HashMap`: any. Order events
are left out (no metric depends on them, and writers of the same checkpoint already
meet at its fills).

### TradeStream

`stream` is where the goroutine `StreamTrades` is, `rows`, `cur` and `sent` its
variables, `out` the channel of size 10, `handler` the `select` loop of `TradesWS`:
it takes an event (`Forward`) or a tick (`Ping`) and is then in `WriteJSON` until
that returns (`Written`, `WriteFails`). `client` reads, stalls (connected, and
reading nothing) or is gone; a write to a client that does not read may return, as
long as buffers take it, or block. The backlog is ordered by time, the live query by
key `(checkpoint, tx_digest, event_seq)`. A query reads one snapshot. `Canceled` and
`StreamFails` are the returns of the goroutine; its last calls (`close(out)`, then
the deferred `close(done)`) are two steps, so that the `select` can meet each
combination.

`pool` is the queue of those who asked for a connection of the process's `pgxpool`:
the first `Conns` of them hold one. The live query keeps its connection while its
rows are sent, and so while the channel is full; other requests ask again and again.

### Pages

The client of `GetExecutionFills` or `GetOrderLifecycle`: one `ReadPage` per
request. Store (clamped limit, predicate, `ORDER BY`, `LIMIT`) and handler
(`next_cursor`) are both in it. A `LIMIT` between rows of equal position takes any.
Rows are sorted by their time (`Sorted`); a cursor, and what is compared with one,
has it in milliseconds, rounded (`Ms`, `At`). The two differ for a row whose time is
not that of the event or checkpoint but of the conversion, `Utc::now()` in
`events.rs`: `Times` holds a table with such rows and one without, and `WholeMs`
tells them apart in the properties, which without fractions promise the exact order
and with them that of the milliseconds.

### LatestProbe

`Api` requests run `LatestCheckpoint` (cache look-up, `resolveLatestCheckpoint`,
cache write, each a step of its own since the mutex is not held over the search),
`Cli` ones run `get_latest_checkpoint`; both read the progress row first. Each HTTP
request is a step, and the store publishes and the indexer commits in between.
`scenario` chooses, for a whole behaviour, who asks, how far the store gets and how
many requests fail. `began`, `cachedFrom` and `behind` (the lag when a search began)
are history variables. The API search's stop at 2^62 is not reachable with fewer
than 2^62 checkpoints and is left out.

## 3. Runs

| run | checks | shows |
|---|---|---|
| `Indexer` | `TypeOK`, `NoGap`, `NeverAhead`, `WholeCheckpoints`, `RollupsMatchFacts`, `NeverForgets`, `ImplementsAtomicIndex`, `CatchesUp` | the indexer is correct through crashes, failures, lost answers, stops and starting over, and makes progress up to the first poison checkpoint |
| `IndexerStartWraps` | `NeverAhead` fails | a start value from 2^63 on passes the gap guard |
| `IndexerSwitchesNetwork` | `NoGap` fails | the progress row is shared by the networks |
| `Rollups` | `PoolRowsAreTotals`, `CandlesWellFormed`, `SidesPartitionVolume`, `BmRowsAreTotals`, `CandlesMatchFacts`, `CandlesBounded`, `EndpointsAgree`, `BmVolumeMatchesFacts` | `compute_rollups` computes what the columns say, and the endpoints what the fills say, up to what a cut window, an old row, the rounding of a stored vwap or a lost connection takes away |
| `RollupsSelfMatch` | `BmTradesCountFills` fails | a fill of a manager with itself counts as two trades |
| `Writers` | `ClosedReplaysAreSafe`, `ProgressHonest`, `QuietCommitsRepair`, `AllFinish` | replaying minutes the indexer has left is safe, two replays at once too; what still holds when writers share a minute; no wait is for ever |
| `WritersLostUpdate` | `RollupsMatchFacts` fails | a replay of the minute being written can leave stale metrics |
| `Stream` | `TypeOK`, `NothingSkipped`, `LiveInOrder`, `OnlyOvertakenRepeat`, `NewTradesArrive`, `StreamEnds`, `RequestsServed` | nothing new is lost or out of order, whatever the event times; which trades can repeat; no goroutine or connection is left when the client leaves, stalled or not; other requests get theirs unless it stalls for good |
| `StreamRepeats` | `OncePerTrade` fails | the backlog's trades are sent again when an older one has a greater key |
| `Readers` | `TypeOK`, `PagesDescend`, `OnlyTiesMissed`, `LatestIsHonest`, `NoFalseComfort`, `LagNotUnderstated`, `LagNotNegative`, `SearchEnds` | the walk never goes forward and misses only ties; both searches, and the API's cache, tell the truth of a moment of the search, and no smaller lag |
| `PagesTies` | `Complete` fails | rows of equal position, from different transactions, are skipped at a page's edge |
| `Processes` | `KeysIdentifyEvents`, `TimesHold`, `PoolsKnowTheirAssets`, `ImplementsEventLog`, `CommandsStart` | processes of an old and a new build, starting, dying and indexing in any order, share the tables without harm, though the schema is applied again under them |

The six failing runs are findings, each with the sentence of the code or the docs it
contradicts, in `PROJECT.json`. More oddities of the code are part of the models
without a run of their own:

- with a limit out of range (0, or more than the maximum) the store clamps it and
  the handler compares the page's length with the value asked for, so `next_cursor`
  may be missing after a full page (`Complete` fails with such a limit as well);
  `OnlyTiesMissed` is therefore about limits in range only;
- a client that stays connected and stops reading for good blocks its handler, its
  stream and a database connection until it leaves, since no write has a deadline:
  liveness excepts it by name (`StopsReading`), and `StreamEnds` is about what
  happens when it leaves;
- rows of one millisecond whose times have fractions can come twice or not at all,
  if a page ends among them (`PagesDescend`, `OnlyTiesMissed` without `WholeMs`);
- a time below 2^63 for which chrono has no date becomes the time of the conversion,
  another one at each ingestion; one from 2^63 on becomes the checkpoint's
  (`TimesHold` says nothing of the former);
- an event of a DeepBook type that another package emits is left out: both addresses
  are compared;
- a build that does not know a package counts its checkpoints as processed; their
  events stay missing until somebody starts over from an older checkpoint with a
  newer build;
- a connection lost while the rows of a BM volume arrive yields a partial answer
  with status 200 (`BmVolumeMatchesFacts` bounds it);
- a window that begins within an interval cuts the first candle;
- progress 0 goes back to -1 when the schema is applied again (above);
  `NeverForgets` of `Indexer` is about a schema that is not.

### Bounds, and why they are enough

- `Indexer`: checkpoints 0..3 (the last one poison), two minutes, five fills (one
  garbled, one in the poison checkpoint) and two order events. Two checkpoints share
  a minute, so a bucket must be recomputed from facts of another checkpoint; three
  failures let a commit's answer be lost, the retry fail, and a crash follow.
  `I64Half = 8` stands for 2^63, `AttemptMax = 2` for 2^32 - 1, where `attempt`
  saturates. The proofs remove these bounds.
- `Rollups`: three fills over four minutes and intervals of one and two minutes: a
  candle can have an empty minute, one fill in each or several in one, and the
  window or the old rows can begin in its middle; prices 1 to 3 and base sizes 0 and
  2; two pools, two managers: first, middle and last fill differ, and a manager can
  be on either, both or no side of each. `Unit = 1`: a vwap is rounded to an
  integer, so that most are inexact.
- `Writers`: three writers, of which a scenario uses two or three; checkpoint 0 is
  indexed, in a minute of its own, when it starts, 1 and 2 share the next; rows of
  two pools in minute 0, so that two transactions can lock them in opposite orders;
  one statement failure.
- `Stream`: channel, backlog and pages of two, fewer than the trades there are, so
  that limits cut and the channel fills; a single database connection, shared with
  two other requests, so that everybody waits for it in turn; one failing query; the
  client stalls and reads on as often as it likes.
- `Readers`: a behaviour has a walk or searches, which share nothing but the
  indexer. The walk: five rows, two of them with equal positions and one with an
  event time older than its predecessor's, and a sixth on another pool; times in
  whole milliseconds of three ticks, or two rows within a third one's millisecond;
  limits in range and not; the clock passes the window's edge. The searches: two API
  requests at once, or one with a failing request, while up to three checkpoints
  (0..2) are published; or the `status` command with ten (0..9) and a failing
  request, so that doubling and bisection take several turns while the head moves.
- `Processes`: two processes, an old and a new build, four starts, so that one can
  die and be started again as another while the second waits for its lock; five
  checkpoint files, each of which exists for one case (`MCProcesses`); `Half = 16`
  stands for 2^63, 12 for chrono's last date, three rows for what a statement binds.

`CHECK_DEADLOCK FALSE` is given where the modelled system comes to a rest: counters
of the world (`LastSeq`, `maxHead`, `LastNow`) at their bound, and processes at
their end.

### Fairness

- `Indexer`: weak fairness of each step of a started process (a `tokio` task that is
  not blocked runs; requests have a time-out, so a fetch has an outcome) and of
  publishing. None of `Start`: `docker/docker-compose.yml` has no restart policy, so
  `CatchesUp` is about an indexer that is up, without a stop checkpoint, again and
  again. None of faults, which are bounded: infinitely many failures would of course
  prevent progress.
- `RollupWriters`: each process runs, and PostgreSQL's deadlock check happens.
- `TradeStream`: the goroutines run; a canceled context is noticed at the next
  blocking point; the query of another request ends. Strong fairness of the
  `select`'s cases (`Forward`, `Ping`, `HandlerEnds`): `select` picks at random
  among those that are ready, so none is passed over for ever. Strong fairness of
  `client = "reads" /\ Written`: a write ends if the client reads on now and then;
  of `WriteFails`: writes to a client that left do not succeed for ever (the handler
  has no other way to learn of it). The client need not read: if it stops for good,
  `NewTradesArrive` and `RequestsServed` promise nothing. `pgxpool` serves those who
  wait in order, so no strong fairness is needed for it.
- `LatestProbe`: each search goes on (the HTTP client has a time-out).
- `Processes`: `main` goes on to its command, and strong fairness of taking the
  advisory lock: PostgreSQL grants it to the session that has waited longest. Nobody
  has to be started, and a process may die at every step.

## 4. Theorems

Eight modules hold proofs. Each has one inductive invariant `IInv` of its own, and
theorems that follow from it; `CandlesProofs` uses the one of `RollupsProofs`. The
assumptions are the `ASSUME`s of the modules proved about, nothing else; TLC
evaluates them in the runs.

### IndexerProofs

For all constants that satisfy `ChainAssumption` and `IndexerAssumption`: any number
of networks, checkpoints, events and minutes, any set of poison and garbled ones,
any start and stop values, any number of faults.

`RollupsMatchFacts` is not inductive: a commit copies `tx` into the tables, so the
*view* has to be exact wherever it can be committed, and in the middle of the
transaction it is not. The invariant `IInv` is the conjunction of

- `TypeOK`, `RollupsMatchFacts` and `WholeCheckpoints`, of the tables;
- `TxView`: what the view is at each statement: the tables plus the checkpoint's
  fills, then plus its order events, with exact metrics in every bucket not in
  `todo`, and at `commit` the whole effect of the checkpoint;
- `Position`: a running process is at most one past the progress row, or (after a
  wrapped start value) beyond every checkpoint there can be; inside a transaction it
  works on a checkpoint that exists.

Each action has a lemma; the steps that write the database (`Commit`,
`CommitUnknown`, `Crash` after COMMIT) share `DurableStep`, which also says that
they are `AtomicIndex!IndexCheckpoint` steps. That one lemma gives `Implementation`
(every other step leaves the four tables alone) and `NothingForgotten`.

- `TypeCorrect`, `MetricsCorrect`, `CheckpointsAtomic` follow from `IInv`.
- `GuardHolds` (`NeverAhead`) assumes that no start value reaches 2^63; without it
  the property is false, as `IndexerStartWraps` shows.
- `ProgressCovered` (`NoGap`) assumes a single network, without which
  `IndexerSwitchesNetwork` refutes it. It needs no assumption on the start values:
  `Position` allows for a wrapped one, and such a process never gets a checkpoint to
  write.

### ProcessesProofs

For any processes, builds, package lists and number of starts, and any contents of
the stores such that file number n of a network says so (`LedgerAssumption`) and a
transaction digest occurs once (`DigestsAssumption`; a digest is a hash of the
transaction, and a transaction is final in one checkpoint). The schema may be
applied again at any time. `KeysIdentifyEvents` alone is not inductive: an `Upsert`
compares a new row with old ones, about which one has to know where they come from.
`IInv` says that every row is `Genuine`, the row some build makes of an event that
is there; keys, sources and times of rows then follow from `Row` (`KeyIsSource`,
`TimesRight`), and that an upsert never removes a row without putting one with the
same source in its place, which is the step of `ImplementsEventLog`. For
`PoolsKnowTheirAssets`, `IInv` says that a process at the pools has seen the assets
in.

### RollupsProofs

For any prices, sizes, pools, managers, minutes and fills.

The first half is about sums over finite sets. The properties add up with
`MapThenSumSet`, a recursive function that takes away an element it chooses;
`Total(f, S)` is that for a column `f`. The library's induction theorems take an
operator as a parameter, which no prover here can instantiate; `Induction` and
`FiniteInduction` are therefore about *sets*: a set of numbers that contains 0 and
successors contains all of them (from the well-founded order of the naturals), and a
set of sets that contains the empty one and is closed under adding an element
contains every finite set. With them `UnrollsExists` and `UnrollsUnique` say that
the recursion defines one function, `TotalRemove` that it does not matter which
element goes first, `TotalAdd`, `TotalUnion`, `TotalPlus` and `TotalParts` what a
sum is of one more element, of two disjoint sets, of two columns, and of the parts
of a partition.

`IInv` then has, of every row,

- `RowInv`: it is empty and its prices NULL, or all are set; `CandlesWellFormed`
  needs the second part to know that the first fill sets them all. The bounds of the
  vwap are products, `low * volume_base <= sum_px_base <= high * volume_base`;
  `LowerBound` and `UpperBound` show that one more fill keeps them;
- `Sums` and `Extremes` (of a manager's row, `BmSums`): it counts and adds up the
  fills passed of its minute and has the first, last, highest and lowest price among
  them;
- `Passing`: the fills pass in the order of the minutes.

`PoolRowsHoldTotals` and `BmRowsHoldTotals` follow: a row says of the set of its
minute's fills what a sum over the set says. A manager's `trades` is the number of
fills made plus the number taken; that is the number of fills it took part in where
the two sets are disjoint, and only there, as `RollupsSelfMatch` shows.

### CandlesProofs

The endpoints over those rows, for any window, interval, rows older than migration
002 and fills. The one assumption besides those of `Rollups` is that there are
finitely many pools: `GetBMVolume` adds up over them, and they are rows of a table.

- `CandlesAreBounded` needs `RowInv` and that a finite set of numbers has a maximum
  (`MaxOf`, `MinOf`); the rows of a window are finitely many because each has a fill
  (`RowHasFills`, `Window`).
- `CandlesTellFacts`: the minutes of a candle are those of an interval (`StartOf`,
  by the arithmetic of `\div`), the rows of these minutes partition the fills of the
  interval (`PassedParts`), so sums of rows are sums of fills (`ColumnSum`), the
  first fill is that of the first row because minutes pass in order (`Ends`), and
  the highest of the rows' highs is the highest price (`Peaks`). For the vwap,
  `Rounds` bounds one rounding, `RowNear` says it of a row, and `TotalNear` that
  such bounds add up over the rows of a candle (`WeightTotal`).
- `EndpointsDoAgree`: the candles partition the rows of the window (`Partition`),
  and the last row of the last candle is the last of the window (`StartMonotone`).
- `BmVolumesMatch`: `MadeTotal` and `TookTotal` sum one side of a pool's rows to
  that side's fills; the pools that do not arrive add something that is not
  negative, and those without rows nothing.

### WritersProofs

For any number of writers, programs, rows, pools and failures. What the programs may
be is assumed: an indexer takes one checkpoint after the other and starts at most
one past what is indexed (`InOrderAssumption`: the gap guard and the run loop, shown
of one indexer by `Indexer`), and `Free` is no row (`FreeAssumption`).

`ProgressHonest` alone would not do: a commit writes the writer's own checkpoint
number, so `Progressed` says that all that was indexed at the start, and all that a
writer has been through, is in the table. For the metrics, a commit writes what the
transaction has *read*, long before. `Tx` says of each open transaction

- `Position`: where it stands, with which buckets to do and which read;
- `Reading`: what its queries have returned is there or its own, and its own fills
  are in it; as long as no other could commit into its buckets (`Undisturbed`) it is
  also all that is there;
- `Locking`: the metric rows it has locked, or waits for, belong to fills it has
  read, so a commit overwrites nothing else;
- `Holding`: the rows of a bucket it is through with are all locked, so a commit
  leaves none of them as it was.

An undisturbed commit therefore makes exactly the rows of its buckets right, which
is `QuietCommitsDoRepair`, and keeps `ClosedReplaysAreSafe`. `Private` names what
all other transactions see of a step that only moves one of them: nothing.

### TradeStreamProofs

For any trades, pools asked for, backlog, page and channel sizes, connections,
requests and faults; of the keys it is assumed that they are distinct and follow the
checkpoints. `Alive` is the invariant of a connection that lives: the cursor is the
key of an indexed trade, the rows at hand are the next ones after it (`OldestFirst`:
a `LIMIT` cuts the greater keys off; a later commit brings only greater ones), what
was sent is the backlog in time order and then trades in key order, the last of the
backlog below them. The three safety properties follow. `SentGrows` and `HeadMoves`
say that sending and forwarding leave the sequence of what was sent as it was, but
for its end.

`Queue`, a second invariant, is about the connections: nobody stands twice in the
queue (`Asking`, `Returning`), and the stream is in it exactly while a query of its
own waits or has rows open. `TypeCorrect` needs it, and so does `NoConnectionKept`,
the part of "no connection is left behind" that is safety: whatever way a stream
ended, it holds none.

### PagesProofs

For any finite table, limits, window, clock and commits. `CursorIsLast`: no received
row comes after the cursor. `Ahead`: with a limit in range, each row of the first
request is covered, after the cursor or too old. `Ahead` compares positions as the
query does, in milliseconds. `PageCovers` is the heart: a page that leaves a row out
is full, so the handler sends a cursor, and that cursor precedes the row or ties
with it. `LastIsLast` shows that a page has a last position (the order is
well-founded), `Orders` what the strict comparison implies.

### LatestProbeProofs

For any number of requests and commands, any first probe, history and faults. `IInv`
gives the bounds of a search their meaning while the store publishes: `low` is
there, `high` was not at a moment since the search began, hence every answer lies
between the head then and the head now. The cache holds such an answer, and whoever
takes it inherits when its search began. A lag that was searched for is at least
`behind`, because the progress was read before the head the answer is bounded by
(`LagIsNotUnderstated`).

### Only model-checked

Liveness (`CatchesUp`, `AllFinish`, `NewTradesArrive`, `StreamEnds`,
`RequestsServed`, `SearchEnds`, `CommandsStart`): fairness and ENABLED are outside
the prover. Every invariant and every action property that a passing run checks is
also a theorem, of `Pages` and of `LatestProbe` each by itself where the run checks
both in `Readers`; the failing runs show what a theorem could not say.

## 5. Plan

1. `GetExecutionSummary` and the ranking of `ListTopMarkets`, as further operators
   of `Candles`, with their agreement with the other endpoints as properties.
2. That `PagesDescend` and `OnlyTiesMissed` together give an abstract specification
   of a walk (a set of rows, each delivered once), which `Pages` refines.
3. That `RollupWriters` refines `Indexer`'s transaction where one writer runs.

## 6. Not modelled

- Delays and jitter of the backoff, HTTP and BCS formats, JSON answers, the text of
  `/metrics`: formats and durations no property is about.
- Columns copied from an event as they are.
- Authentication (a comparison with a constant key), API wiring and configuration.
- The metadata endpoints (plain reads of two tables), `GetExecutionSummary` and the
  order in which `ListTopMarkets` lists its pools; the totals it sorts by are
  `PoolMetrics`.
- The generic queries of an earlier schema in `queries.rs` and the `common` crate:
  no caller; the JavaScript example.
- Overflow of a `Decimal`: `rust_decimal` panics, which is a crash within the
  transaction (`Crash` of `Indexer`) that comes back at the same checkpoint at every
  start.
