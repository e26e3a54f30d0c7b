-------------------------- MODULE ProcessesProofs --------------------------
(* What holds on a database of any number of processes and builds, with    *)
(* any package lists, and for any contents of the two networks.            *)
EXTENDS Processes, TLAPS

\* A row that some build makes of an event that is there.
Genuine(r) ==
  \E m \in Envs : \E k \in DOMAIN Ledger[m] :
    \E p \in Positions(Ledger[m][k]) : r = Row(Ledger[m][k], p, {})

\* Where a process that goes on to the pools stands: the assets are in.
Seeded == {"sui", "usdc"} \subseteq assets

(***************************************************************************)
(* The inductive invariant: rows are genuine (from which all else follows  *)
(* about them), and pools come after assets.                               *)
(***************************************************************************)
Config == [build : Builds, env : Envs, command : Commands]

IInv ==
  /\ config \in [Processes -> Config]
  /\ pc \in [Processes -> Stages]
  /\ \A r \in Rows : Genuine(r)
  /\ \A p \in Processes : pc[p] = "pools" => Seeded
  /\ pools \subseteq {SuiUsdc} /\ (pools # {} => Seeded)
-----------------------------------------------------------------------------
(* Lemmas about the operators of Decoding. *)

\* A row does not depend on the packages its build knows.
LEMMA RowIgnoresPackages ==
  ASSUME NEW c, NEW p, NEW K
  PROVE  Row(c, p, K) = Row(c, p, {})
BY DEF Row, EventSeq

\* Decoded events are events of the checkpoint.
LEMMA DecodedAreEvents ==
  ASSUME NEW c, NEW T, NEW K
  PROVE  Decoded(c, T, K) \subseteq Positions(c)
BY DEF Decoded

\* Rows of a checkpoint of the ledger are genuine.
LEMMA RowsAreGenuine ==
  ASSUME NEW m \in Envs, NEW k \in DOMAIN Ledger[m], NEW K,
         NEW r \in TradeEvents(Ledger[m][k], K)
                   \cup OrderLifecycleEvents(Ledger[m][k], K)
  PROVE  Genuine(r)
<1>1. PICK p \in Positions(Ledger[m][k]) : r = Row(Ledger[m][k], p, K)
  BY DecodedAreEvents DEF TradeEvents, OrderLifecycleEvents
<1>2. r = Row(Ledger[m][k], p, {})
  BY <1>1, RowIgnoresPackages
<1>3. QED BY <1>2 DEF Genuine

\* An upsert adds its rows and no others.
LEMMA UpsertAdds ==
  ASSUME NEW T, NEW R
  PROVE  R \subseteq Upsert(T, R) /\ Upsert(T, R) \subseteq T \cup R
BY DEF Upsert

\* The source and the key of a row.
LEMMA RowColumns ==
  ASSUME NEW m \in Envs, NEW k \in DOMAIN Ledger[m],
         NEW p \in Positions(Ledger[m][k]), NEW r,
         r = Row(Ledger[m][k], p, {})
  PROVE  /\ r.src = <<m, k - 1, p>> /\ k \in Nat /\ p \in Nat \X Nat
         /\ p[1] \in DOMAIN Ledger[m][k].txs
         /\ Key(r) = <<Ledger[m][k].txs[p[1]].digest, p[2] - 1>>
<1>1. /\ Ledger[m][k].net = m /\ Ledger[m][k].seq = k - 1 /\ k \in Nat
      /\ p \in Nat \X Nat
  BY LedgerAssumption
<1>2. p[1] \in DOMAIN Ledger[m][k].txs
  BY DEF Positions
<1>3. QED BY <1>1, <1>2 DEF Row, EventSeq, Key

\* Two genuine rows have the same key exactly if they have the same source.
LEMMA KeyIsSource ==
  ASSUME NEW r, NEW q, Genuine(r), Genuine(q)
  PROVE  (Key(r) = Key(q)) <=> (r.src = q.src)
<1>1. PICK m \in Envs : \E k \in DOMAIN Ledger[m] :
        \E p \in Positions(Ledger[m][k]) : r = Row(Ledger[m][k], p, {})
  BY DEF Genuine
<1>2. PICK k \in DOMAIN Ledger[m] :
        \E p \in Positions(Ledger[m][k]) : r = Row(Ledger[m][k], p, {})
  BY <1>1
<1>3. PICK p \in Positions(Ledger[m][k]) : r = Row(Ledger[m][k], p, {})
  BY <1>2
<1>4. PICK n \in Envs : \E j \in DOMAIN Ledger[n] :
        \E s \in Positions(Ledger[n][j]) : q = Row(Ledger[n][j], s, {})
  BY DEF Genuine
<1>5. PICK j \in DOMAIN Ledger[n] :
        \E s \in Positions(Ledger[n][j]) : q = Row(Ledger[n][j], s, {})
  BY <1>4
<1>6. PICK s \in Positions(Ledger[n][j]) : q = Row(Ledger[n][j], s, {})
  BY <1>5
<1>7. /\ r.src = <<m, k - 1, p>> /\ k \in Nat /\ p \in Nat \X Nat
      /\ p[1] \in DOMAIN Ledger[m][k].txs
      /\ Key(r) = <<Ledger[m][k].txs[p[1]].digest, p[2] - 1>>
  BY <1>3, RowColumns
<1>8. /\ q.src = <<n, j - 1, s>> /\ j \in Nat /\ s \in Nat \X Nat
      /\ s[1] \in DOMAIN Ledger[n][j].txs
      /\ Key(q) = <<Ledger[n][j].txs[s[1]].digest, s[2] - 1>>
  BY <1>6, RowColumns
<1>9. ASSUME Key(r) = Key(q) PROVE r.src = q.src
  <2>1. /\ Ledger[m][k].txs[p[1]].digest = Ledger[n][j].txs[s[1]].digest
        /\ p[2] - 1 = s[2] - 1
    BY <1>7, <1>8, <1>9
  <2>2. <<m, k, p[1]>> = <<n, j, s[1]>>
    BY <1>7, <1>8, <2>1, DigestsAssumption
  <2>3. p = s
    BY <1>7, <1>8, <2>1, <2>2
  <2>4. QED BY <1>7, <1>8, <2>2, <2>3
<1>10. ASSUME r.src = q.src PROVE Key(r) = Key(q)
  <2>1. m = n /\ k = j /\ p = s
    BY <1>7, <1>8, <1>10
  <2>2. QED BY <1>7, <1>8, <2>1
<1>11. QED BY <1>9, <1>10
-----------------------------------------------------------------------------
LEMMA InitIInv == Init => IInv
BY DEF Init, IInv, Config, Envs, Commands, Stages, Rows

\* Only Ingest writes rows.
LEMMA IngestKeepsIInv ==
  ASSUME IInv, NEW p \in Processes,
         NEW k \in DOMAIN Ledger[config[p].env], Ingest(p, k - 1)
  PROVE  IInv'
<1> DEFINE c == Ledger[config[p].env][k]
           fills == TradeEvents(c, KnownTo(p))
           orders == OrderLifecycleEvents(c, KnownTo(p))
<1>1. config[p].env \in Envs /\ k \in Nat /\ (k - 1) + 1 = k
  BY LedgerAssumption DEF IInv, Config
<1>2. /\ trades' = Upsert(trades, fills)
      /\ lifecycle' = Upsert(lifecycle, orders)
      /\ UNCHANGED <<pc, config, meta>>
  BY <1>1 DEF Ingest
<1>3. \A r \in Rows' : r \in Rows \/ r \in fills \cup orders
  BY <1>2, UpsertAdds DEF Rows
<1>4. \A r \in Rows' : Genuine(r)
  BY <1>1, <1>3, RowsAreGenuine DEF IInv
<1>5. QED BY <1>2, <1>4 DEF IInv, meta, Seeded

\* The other steps of a process.
LEMMA ProcessKeepsIInv ==
  ASSUME IInv, NEW p \in Processes,
         \/ \E b \in Builds, t \in EnvTexts, c \in Commands : Boot(p, b, t, c)
         \/ StartUp(p) \/ Finish(p) \/ Die(p)
  PROVE  IInv'
<1>1. ASSUME NEW b \in Builds, NEW t \in EnvTexts, NEW c \in Commands,
             Boot(p, b, t, c)
      PROVE  IInv'
  <2>1. EnvOf[t] \in Envs
    BY <1>1 DEF Boot, EnvOf, Envs
  <2>2. QED
    BY <1>1, <2>1 DEF Boot, Goto, IInv, Config, Stages, Rows, meta, tables, Seeded
<1>2. CASE Lock(p) \/ Migrate(p) \/ Migrated(p)
  BY <1>2 DEF Lock, Migrate, Migrated, Goto, IInv, Stages, Rows, tables, Seeded
<1>3. CASE SeedAssets(p)
  BY <1>3 DEF SeedAssets, Goto, IInv, Stages, Rows, tables, Seeded
<1>4. CASE SeedPools(p)
  BY <1>4 DEF SeedPools, PoolSeedRows, Goto, IInv, Stages, Rows, tables, Seeded
<1>5. CASE Finish(p) \/ Die(p)
  BY <1>5 DEF Finish, Die, Goto, IInv, Stages, Rows, meta, tables, Seeded
<1>6. QED BY <1>1, <1>2, <1>3, <1>4, <1>5 DEF StartUp

LEMMA StepKeepsIInv == IInv /\ [Next]_vars => IInv'
<1>1. SUFFICES ASSUME IInv, [Next]_vars PROVE IInv'
  OBVIOUS
<1>2. ASSUME NEW p \in Processes,
             NEW n \in {k - 1 : k \in DOMAIN Ledger[config[p].env]}, Ingest(p, n)
      PROVE  IInv'
  BY <1>1, <1>2, IngestKeepsIInv
<1>3. CASE Reapply
  BY <1>1, <1>3 DEF Reapply, IInv, Rows, meta, Seeded
<1>4. CASE UNCHANGED vars
  BY <1>1, <1>4 DEF vars, IInv, Rows, meta, tables, Seeded
<1>5. QED BY <1>1, <1>2, <1>3, <1>4, ProcessKeepsIInv DEF Next
-----------------------------------------------------------------------------
\* The invariant holds of every reachable state.
THEOREM Invariance == Spec => []IInv
BY InitIInv, StepKeepsIInv, PTL DEF Spec

\* Whatever builds with whatever package lists have indexed a database, in
\* whatever order and however often, a key names one event: event_seq counts
\* all events of a transaction, so it is the same for every build.
THEOREM KeysAreStable == Spec => []KeysIdentifyEvents
<1>1. IInv => KeysIdentifyEvents
  BY KeyIsSource DEF IInv, KeysIdentifyEvents
<1>2. QED BY <1>1, Invariance, PTL

\* seed_known_metadata upserts the assets first, in a statement of its own, so
\* no death and no other process leaves a pool without them.
THEOREM AssetsBeforePools == Spec => []PoolsKnowTheirAssets
<1>1. IInv => PoolsKnowTheirAssets
  BY DEF IInv, PoolsKnowTheirAssets, SuiUsdc, Seeded
<1>2. QED BY <1>1, Invariance, PTL

\* A genuine row's times are its checkpoint's and its event's.
LEMMA TimesOfRow ==
  ASSUME NEW r, Genuine(r)
  PROVE  LET c == Ledger[r.src[1]][r.src[2] + 1]
             own == SourceOf(r).time IN
         /\ c.ms \in Representable => r.ts = c.ms
         /\ own \in Representable => r.event_ts = own
         /\ own >= Half => r.event_ts = r.ts
<1>1. PICK m \in Envs : \E k \in DOMAIN Ledger[m] :
        \E p \in Positions(Ledger[m][k]) : r = Row(Ledger[m][k], p, {})
  BY DEF Genuine
<1>2. PICK k \in DOMAIN Ledger[m] :
        \E p \in Positions(Ledger[m][k]) : r = Row(Ledger[m][k], p, {})
  BY <1>1
<1>3. PICK p \in Positions(Ledger[m][k]) : r = Row(Ledger[m][k], p, {})
  BY <1>2
<1> DEFINE c == Ledger[m][k]
           own == EventAt(c, p).time
<1>4. r.src = <<m, k - 1, p>> /\ k \in Nat
  BY <1>3, RowColumns
<1>5. Ledger[r.src[1]][r.src[2] + 1] = c /\ SourceOf(r).time = own
  BY <1>4 DEF SourceOf
<1>6. /\ r.ts = TimestampFromMs(AsI64(c.ms))
      /\ r.event_ts = TimestampFromU64Or(own, r.ts)
  BY <1>3 DEF Row
<1>7. c.ms \in Nat /\ own \in Nat
  BY LedgerAssumption
<1>8. /\ c.ms \in Representable => r.ts = c.ms
      /\ own \in Representable => r.event_ts = own
      /\ own >= Half => r.event_ts = r.ts
  BY <1>6, <1>7, DecodingAssumption
     DEF AsI64, TimestampFromMs, TimestampFromU64Or
<1>9. QED BY <1>5, <1>8

\* The casts of timestamp_ms and of an event's timestamp lose no time there is
\* a date for; an event time beyond i64 falls back to the checkpoint's.
THEOREM TimesRight == Spec => []TimesHold
<1>1. IInv => TimesHold
  BY TimesOfRow DEF IInv, TimesHold
<1>2. QED BY <1>1, Invariance, PTL
-----------------------------------------------------------------------------
(* The refinement. *)

\* The places an upsert leaves rows of: those there were and the new ones.
LEMMA UpsertSources ==
  ASSUME NEW T, NEW R, \A r \in T \cup R : Genuine(r)
  PROVE  {r.src : r \in Upsert(T, R)} = {r.src : r \in T} \cup {r.src : r \in R}
<1>1. {r.src : r \in Upsert(T, R)} \subseteq {r.src : r \in T} \cup {r.src : r \in R}
  BY UpsertAdds
<1>2. {r.src : r \in R} \subseteq {r.src : r \in Upsert(T, R)}
  BY UpsertAdds
<1>3. ASSUME NEW r \in T PROVE r.src \in {q.src : q \in Upsert(T, R)}
  <2>1. CASE \A q \in R : Key(q) # Key(r)
    BY <2>1 DEF Upsert
  <2>2. CASE \E q \in R : Key(q) = Key(r)
    <3>1. PICK q \in R : Key(q) = Key(r)
      BY <2>2
    <3>2. q.src = r.src
      BY <3>1, KeyIsSource
    <3>3. QED BY <3>2, UpsertAdds
  <2>3. QED BY <2>1, <2>2
<1>4. QED BY <1>1, <1>2, <1>3

\* The rows of checkpoint k, of both tables, are those of the events found.
LEMMA RowsOfCheckpoint ==
  ASSUME NEW b \in Builds, NEW m \in Envs, NEW k \in DOMAIN Ledger[m]
  PROVE  LET K == Packages[b][m]
             c == Ledger[m][k]
         IN Found[b][m][k] = {r.src : r \in TradeEvents(c, K)}
                              \cup {r.src : r \in OrderLifecycleEvents(c, K)}
<1> DEFINE K == Packages[b][m]
           c == Ledger[m][k]
           At(T) == {<<m, k - 1, p>> : p \in Decoded(c, T, K)}
<1>1. \A p \in Positions(c) : Row(c, p, K).src = <<m, k - 1, p>>
  <2>1. SUFFICES ASSUME NEW p \in Positions(c) PROVE Row(c, p, K).src = <<m, k - 1, p>>
    OBVIOUS
  <2>2. Row(c, p, {}).src = <<m, k - 1, p>>
    BY RowColumns
  <2>3. Row(c, p, K) = Row(c, p, {})
    BY RowIgnoresPackages
  <2>4. QED BY <2>2, <2>3
<1>2. {r.src : r \in TradeEvents(c, K)} = At(FillTypes)
  BY <1>1, DecodedAreEvents DEF TradeEvents
<1>3. {r.src : r \in OrderLifecycleEvents(c, K)} = At(OrderTypes)
  BY <1>1, DecodedAreEvents DEF OrderLifecycleEvents
<1>4. Decoded(c, FillTypes \cup OrderTypes, K) =
        Decoded(c, FillTypes, K) \cup Decoded(c, OrderTypes, K)
  BY DEF Decoded, Matches
<1>5. Found[b][m][k] = At(FillTypes \cup OrderTypes)
  BY DEF Found
<1>6. QED BY <1>2, <1>3, <1>4, <1>5

\* Indexing a checkpoint is one step of the log.
LEMMA IngestImplements ==
  ASSUME IInv, NEW p \in Processes,
         NEW k \in DOMAIN Ledger[config[p].env], Ingest(p, k - 1)
  PROVE  Log!Next
<1> DEFINE b == config[p].build
           m == config[p].env
           c == Ledger[m][k]
           fills == TradeEvents(c, KnownTo(p))
           orders == OrderLifecycleEvents(c, KnownTo(p))
<1>1. m \in Envs /\ b \in Builds /\ k \in Nat /\ (k - 1) + 1 = k
  BY LedgerAssumption DEF IInv, Config
<1>2. /\ k - 1 <= Done(p) + 1
      /\ trades' = Upsert(trades, fills)
      /\ lifecycle' = Upsert(lifecycle, orders)
      /\ processed' = IF k - 1 > processed THEN k - 1 ELSE processed
      /\ UNCHANGED ahead
  BY <1>1 DEF Ingest
<1>3. \A r \in trades \cup lifecycle \cup fills \cup orders : Genuine(r)
  BY <1>1, RowsAreGenuine DEF IInv, Rows
<1>4. {r.src : r \in trades'} = {r.src : r \in trades} \cup {r.src : r \in fills}
  BY <1>2, <1>3, UpsertSources
<1>5. {r.src : r \in lifecycle'} =
        {r.src : r \in lifecycle} \cup {r.src : r \in orders}
  BY <1>2, <1>3, UpsertSources
<1>6. Found[b][m][k] = {r.src : r \in fills} \cup {r.src : r \in orders}
  BY <1>1, RowsOfCheckpoint DEF KnownTo
<1>7. {r.src : r \in Rows'} = {r.src : r \in Rows} \cup Found[b][m][k]
  <2>1. {r.src : r \in Rows} =
          {r.src : r \in trades} \cup {r.src : r \in lifecycle}
    BY DEF Rows
  <2>2. {r.src : r \in Rows'} =
          {r.src : r \in trades'} \cup {r.src : r \in lifecycle'}
    BY DEF Rows
  <2> HIDE DEF fills, orders, b, m
  <2>3. QED BY <1>4, <1>5, <1>6, <2>1, <2>2
<1>8. k - 1 <= processed + 1 \/ (ahead # {} /\ k - 1 <= 1)
  BY <1>1, <1>2 DEF Done
<1>9. Log!Index(b, m, k)
  BY <1>2, <1>7, <1>8 DEF Log!Index
<1>10. k \in DOMAIN Found[b][m]
  BY <1>1 DEF Found
<1>11. QED BY <1>1, <1>9, <1>10 DEF Log!Next

\* The statement-by-statement life of the processes implements the log: an
\* event indexed once keeps a row whatever is indexed, migrated and seeded
\* afterwards, by any build.
THEOREM Implementation == Spec => ImplementsEventLog
<1>1. Init => Log!Init
  BY DEF Init, Log!Init, Rows
<1>2. ASSUME IInv, [Next]_vars
      PROVE  [Log!Next]_<<processed, {r.src : r \in Rows}, ahead # {}>>
  <2>1. ASSUME NEW p \in Processes,
               NEW n \in {k - 1 : k \in DOMAIN Ledger[config[p].env]},
               Ingest(p, n)
        PROVE  Log!Next
    BY <1>2, <2>1, IngestImplements
  <2>2. ASSUME processed' = FreshOffset(processed), UNCHANGED <<trades, lifecycle>>,
               processed = 0 \/ UNCHANGED ahead
        PROVE  Log!Next \/ UNCHANGED <<processed, Rows, ahead>>
    <3>1. UNCHANGED Rows
      BY <2>2 DEF Rows
    <3>2. CASE processed = 0
      <4>1. processed' = -1 /\ (ahead # {})' \in BOOLEAN
        BY <2>2, <3>2 DEF FreshOffset
      <4>2. QED BY <3>1, <3>2, <4>1 DEF Log!Next, Log!Rewind
    <3>3. CASE processed # 0
      BY <2>2, <3>1, <3>3 DEF FreshOffset
    <3>4. QED BY <3>2, <3>3
  <2>3. CASE Reapply
    BY <2>2, <2>3 DEF Reapply
  <2>4. ASSUME NEW p \in Processes, StartUp(p)
        PROVE  Log!Next \/ UNCHANGED <<processed, Rows, ahead>>
    BY <2>2, <2>4
       DEF StartUp, Lock, Migrate, Migrated, SeedAssets, SeedPools, tables, Rows
  <2>5. ASSUME NEW p \in Processes, NEW b \in Builds, NEW t \in EnvTexts,
               NEW c \in Commands, Boot(p, b, t, c)
        PROVE  UNCHANGED <<processed, Rows, ahead>>
    BY <2>5 DEF Boot, tables, Rows
  <2>6. ASSUME NEW p \in Processes, Finish(p) \/ Die(p)
        PROVE  Log!Forget \/ UNCHANGED <<processed, Rows, ahead # {}>>
    <3>1. UNCHANGED <<processed, Rows>> /\ ahead' = ahead \ {p}
      BY <2>6 DEF Finish, Die, tables, Rows
    <3>2. ahead' # {} => ahead # {}
      BY <3>1
    <3>3. QED BY <3>1, <3>2 DEF Log!Forget
  <2>7. CASE UNCHANGED vars
    BY <2>7 DEF vars, tables, Rows
  <2>8. QED BY <1>2, <2>1, <2>3, <2>4, <2>5, <2>6, <2>7 DEF Next, Log!Next
<1>3. QED BY <1>1, <1>2, Invariance, PTL DEF Spec, ImplementsEventLog, Log!Spec
=============================================================================
