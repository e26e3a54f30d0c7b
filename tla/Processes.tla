----------------------------- MODULE Processes -----------------------------
(***************************************************************************)
(* The program's processes on one database, from their environment to      *)
(* their command: `run`, `status` and `replay` of any DEEPBOOK_ENV and of  *)
(* builds with shorter or longer package lists all migrate the schema and  *)
(* seed the metadata first.  Each may die between any two steps and be     *)
(* started again as another build or with another environment.             *)
(*                                                                         *)
(* What `run` does between the files and the committed tables is module    *)
(* Indexer's matter: here it indexes one checkpoint as a whole, one that   *)
(* is new or any older one.  What `replay` writes is RollupWriters'.       *)
(***************************************************************************)
EXTENDS Decoding

CONSTANTS
  Processes,  \* the processes that run at the same time
  Builds,     \* builds of the program, old and new
  Packages,   \* Packages[b][env]: the addresses compiled into build b
  Ledger,     \* Ledger[env]: the sequence of the network's checkpoints
  Migrations, \* the number of migrations, the same for every build
  NoOne,      \* the advisory lock is free
  MaxStarts   \* bound: starts of processes in a behaviour

Envs == {"mainnet", "testnet"}

\* DEEPBOOK_ENV, in lower case; "" is the unset variable.
EnvTexts == {"", "main", "mainnet", "test", "testnet", "devnet"}
EnvOf == [t \in EnvTexts \ {"devnet"} |->
           IF t \in {"main", "mainnet"} THEN "mainnet" ELSE "testnet"]

Commands == {"run", "replay", "status"}

ASSUME ProcessesAssumption ==
  /\ DOMAIN Packages = Builds /\ \A b \in Builds : DOMAIN Packages[b] = Envs
  /\ Migrations \in Nat \ {0} /\ MaxStarts \in Nat
  /\ NoOne \notin Processes

ASSUME LedgerAssumption ==
  \A n \in Envs : \A k \in DOMAIN Ledger[n] :
    LET c == Ledger[n][k] IN
    /\ k \in Nat /\ c.net = n /\ c.seq = k - 1 /\ c.ms \in Nat
    /\ \A p \in Positions(c) : p \in Nat \X Nat /\ EventAt(c, p).time \in Nat

\* A transaction is in one checkpoint of one network, once.
ASSUME DigestsAssumption ==
  \A m, n \in Envs : \A j \in DOMAIN Ledger[m], k \in DOMAIN Ledger[n] :
    \A s \in DOMAIN Ledger[m][j].txs, t \in DOMAIN Ledger[n][k].txs :
      Ledger[m][j].txs[s].digest = Ledger[n][k].txs[t].digest =>
        <<m, j, s>> = <<n, k, t>>

VARIABLES
  pc,         \* pc[p]: where process p is
  config,     \* config[p]: its build, network and command
  lock,       \* the process that holds sqlx's advisory lock
  schema,     \* the migrations applied
  assets,     \* rows of asset_metadata
  pools,      \* rows of pool_metadata
  processed,  \* the progress row
  trades,     \* rows of db_events
  lifecycle,  \* rows of db_order_events
  ahead,      \* who was at its command when the progress row last went back,
              \* and may go on from the checkpoint it had done
  starts      \* starts that may still happen

meta   == <<lock, schema, assets, pools>>
tables == <<processed, trades, lifecycle>>
vars   == <<pc, config, meta, tables, ahead, starts>>

Stages == {"down", "lock", "migrate", "assets", "pools", "command"}

Init ==
  /\ pc = [p \in Processes |-> "down"]
  /\ config \in
       [Processes -> [build : Builds, env : {"testnet"}, command : {"run"}]]
  /\ lock = NoOne /\ schema = 0
  /\ assets = {} /\ pools = {}
  /\ processed = -1 /\ trades = {} /\ lifecycle = {}
  /\ ahead = {} /\ starts = MaxStarts

Goto(p, stage) == pc' = [pc EXCEPT ![p] = stage]
-----------------------------------------------------------------------------
\* from_env: a text that names no network ends the process before it connects.
Boot(p, b, text, c) ==
  /\ pc[p] = "down" /\ starts > 0
  /\ text \in DOMAIN EnvOf
  /\ config' =
       [config EXCEPT ![p] = [build |-> b, env |-> EnvOf[text], command |-> c]]
  /\ starts' = starts - 1
  /\ Goto(p, "lock")
  /\ UNCHANGED <<meta, tables, ahead>>

Lock(p) ==
  /\ pc[p] = "lock" /\ lock = NoOne
  /\ lock' = p
  /\ Goto(p, "migrate")
  /\ UNCHANGED <<config, schema, assets, pools, tables, ahead, starts>>

\* Migration 001 takes progress 0 for the row of a new database, whose table
\* `checkpoints` is empty: nothing ever writes to that table.
FreshOffset(n) == IF n = 0 THEN -1 ELSE n

\* One migration file, in a transaction of its own.
Migrate(p) ==
  /\ pc[p] = "migrate" /\ schema < Migrations
  /\ schema' = schema + 1
  /\ processed' = IF schema = 0 THEN FreshOffset(processed) ELSE processed
  /\ UNCHANGED <<pc, config, lock, assets, pools, trades, lifecycle>>
  /\ UNCHANGED <<ahead, starts>>

\* `docker compose up`: psql applies the files again, whoever runs.  sqlx keeps
\* its own account of them.
Reapply ==
  /\ processed' = FreshOffset(processed)
  /\ ahead' = IF processed = 0 THEN {p \in Processes : pc[p] = "command"}
              ELSE ahead
  /\ UNCHANGED <<pc, config, meta, trades, lifecycle, starts>>

Migrated(p) ==
  /\ pc[p] = "migrate" /\ schema = Migrations
  /\ lock' = NoOne
  /\ Goto(p, "assets")
  /\ UNCHANGED <<config, schema, assets, pools, tables, ahead, starts>>

\* build_pool_seed_rows, with the assets the row refers to.
SuiUsdc ==
  [pool_id |-> "SUI_USDC", base_asset_id |-> "sui", quote_asset_id |-> "usdc"]
PoolSeedRows(env) == IF env = "mainnet" THEN {SuiUsdc} ELSE {}

\* Mutant: pools are seeded where the assets should be.
SeedAssets_PoolsFirst(p) ==
  /\ pc[p] = "assets"
  /\ pools' = pools \cup PoolSeedRows(config[p].env)
  /\ Goto(p, "pools")
  /\ UNCHANGED <<config, lock, schema, assets, tables, ahead, starts>>

\* upsert_asset_metadata, a statement and a transaction of its own.
SeedAssets(p) ==
  /\ pc[p] = "assets"
  /\ assets' = assets \cup {"sui", "usdc"}
  /\ Goto(p, "pools")
  /\ UNCHANGED <<config, lock, schema, pools, tables, ahead, starts>>

\* Mutant: without its early return the upsert sends an INSERT of no rows,
\* which is refused, and main returns the error.
SeedPools_NoRows(p) ==
  /\ pc[p] = "pools"
  /\ pools' = pools \cup PoolSeedRows(config[p].env)
  /\ Goto(p, IF PoolSeedRows(config[p].env) = {} THEN "refused" ELSE "command")
  /\ UNCHANGED <<config, lock, schema, assets, tables, ahead, starts>>

\* upsert_pool_metadata: another one; with no rows there is no statement.
SeedPools(p) ==
  /\ pc[p] = "pools"
  /\ pools' = pools \cup PoolSeedRows(config[p].env)
  /\ Goto(p, "command")
  /\ UNCHANGED <<config, lock, schema, assets, tables, ahead, starts>>
-----------------------------------------------------------------------------
KnownTo(p) == Packages[config[p].build][config[p].env]

\* The last checkpoint p can hold for done.
Done(p) == IF p \in ahead /\ processed = -1 THEN 0 ELSE processed

\* `run` indexes checkpoint number n of its network.
Ingest(p, n) ==
  LET c == Ledger[config[p].env][n + 1]
      known == KnownTo(p) IN
  /\ pc[p] = "command" /\ config[p].command = "run"
  /\ n <= Done(p) + 1
  /\ Ingestible(c, known)
  /\ trades' = Upsert(trades, TradeEvents(c, known))
  /\ lifecycle' = Upsert(lifecycle, OrderLifecycleEvents(c, known))
  /\ processed' = IF n > processed THEN n ELSE processed
  /\ UNCHANGED <<pc, config, meta, ahead, starts>>

\* `status` and `replay` return (`run` at its stop checkpoint or a ctrl-c).
Finish(p) ==
  /\ pc[p] = "command"
  /\ Goto(p, "down")
  /\ ahead' = ahead \ {p}
  /\ UNCHANGED <<config, meta, tables, starts>>

\* The process dies, or a statement fails and main returns its error; its
\* session ends, and with it the advisory lock.
Die(p) ==
  /\ pc[p] # "down"
  /\ Goto(p, "down")
  /\ lock' = IF lock = p THEN NoOne ELSE lock
  /\ ahead' = ahead \ {p}
  /\ UNCHANGED <<config, schema, assets, pools, tables, starts>>
-----------------------------------------------------------------------------
StartUp(p) ==
  Lock(p) \/ Migrate(p) \/ Migrated(p) \/ SeedAssets(p) \/ SeedPools(p)

Next ==
  \/ \E p \in Processes :
       \/ \E b \in Builds, t \in EnvTexts, c \in Commands : Boot(p, b, t, c)
       \/ StartUp(p)
       \/ \E n \in {k - 1 : k \in DOMAIN Ledger[config[p].env]} : Ingest(p, n)
       \/ Finish(p)
       \/ Die(p)
  \/ Reapply

Spec == Init /\ [][Next]_vars

(***************************************************************************)
(* main goes on until its command.  PostgreSQL hands the advisory lock to  *)
(* the process that has waited longest, so a process that asks again and   *)
(* again is served.                                                        *)
(***************************************************************************)
FairSpec == Spec /\ \A p \in Processes : SF_vars(Lock(p)) /\ WF_vars(StartUp(p))
-----------------------------------------------------------------------------
(* Properties. *)

Rows == trades \cup lifecycle

SourceOf(r) == EventAt(Ledger[r.src[1]][r.src[2] + 1], r.src[3])

\* A row's key is its event's for good: indexing a checkpoint again, with a
\* build that knows more or fewer packages, gives every event the key it had,
\* and no two events share one.
KeysIdentifyEvents ==
  \A r, q \in Rows : (Key(r) = Key(q)) <=> (r.src = q.src)

\* Taken as the places their rows come from, the tables are a log of events:
\* an event indexed once keeps its row, under whatever build and however often
\* its checkpoint is indexed again, and no row has another source.
Found ==
  [b \in Builds |-> [m \in Envs |-> [k \in DOMAIN Ledger[m] |->
     {<<m, k - 1, p>> : p \in Decoded(Ledger[m][k], FillTypes \cup OrderTypes,
                                     Packages[b][m])}]]]

Log == INSTANCE EventLog WITH
  Networks <- Envs, indexed <- {r.src : r \in Rows}, rewound <- ahead # {}
ImplementsEventLog == Log!Spec

\* A row's ts is its checkpoint's time and its event_ts its event's own; an
\* event time that fits no i64 gives way to the checkpoint's.
TimesHold ==
  \A r \in Rows :
    LET c == Ledger[r.src[1]][r.src[2] + 1]
        own == SourceOf(r).time IN
    /\ c.ms \in Representable => r.ts = c.ms
    /\ own \in Representable => r.event_ts = own
    /\ own >= Half => r.event_ts = r.ts

\* Whoever died during the seeding, no reader finds a pool whose assets are
\* missing.
PoolsKnowTheirAssets ==
  \A r \in pools : {r.base_asset_id, r.quote_asset_id} \subseteq assets

\* A process with a valid environment reaches its command, unless it dies:
\* migrations of another process delay it, no more, and the seeding of a
\* network without pools is no obstacle.
CommandsStart ==
  \A p \in Processes : pc[p] = "lock" ~> pc[p] \in {"command", "down"}
=============================================================================
