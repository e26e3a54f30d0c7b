------------------------------- MODULE Pages -------------------------------
(***************************************************************************)
(* A client reads execution/fills or execution/lifecycle page by page: it  *)
(* passes each answer's next_cursor to the next request, until one has     *)
(* none.  Meanwhile the indexer commits checkpoints and rows age out of    *)
(* the time window.  Rows are sorted by (time, checkpoint, event_seq),     *)
(* newest first, and a cursor is (ts_ms, checkpoint, event_seq).  event_seq *)
(* numbers the events of a transaction, so rows of two transactions can    *)
(* share a position.  Times are whole milliseconds but for those the       *)
(* decoding took from its own clock.                                       *)
(***************************************************************************)
EXTENDS Progress, Integers, Sequences, FiniteSets

CONSTANTS
  Rows,
  Wanted,        \* those of the pool, and event_type, asked for
  Checkpoint,    \* Checkpoint[e]
  Times,         \* what the rows' times can be, in ticks
  PerMs,         \* ticks in a millisecond
  CpSeq,         \* CpSeq[e]: rank of (checkpoint, event_seq)
  NoCursor,      \* the empty cursor
  Limits,        \* values of the limit parameter
  DefaultLimit,  \* 100
  MaxLimit,      \* 1000
  Window,        \* the window's length
  LastSeq,       \* bound: the last checkpoint indexed
  LastNow        \* bound: the clock

ASSUME PagesAssumption ==
  /\ IsFiniteSet(Rows) /\ Wanted \subseteq Rows
  /\ Checkpoint \in [Rows -> 0..LastSeq]
  /\ Times \subseteq [Rows -> Nat] /\ CpSeq \in [Rows -> Nat]
  /\ PerMs \in Nat \ {0}
  /\ \A e, f \in Rows : Checkpoint[e] < Checkpoint[f] => CpSeq[e] < CpSeq[f]
  /\ NoCursor \notin Int \X Int
  /\ Limits \subseteq Int
  /\ {DefaultLimit, MaxLimit, Window, LastSeq, LastNow} \subseteq Nat
  /\ DefaultLimit \in 1..MaxLimit

VARIABLES
  now,       \* the clock
  time,      \* time[e]: COALESCE(event_ts, checkpoint_ts, ts), for good
  limit,     \* the client's limit
  cursor,    \* the cursor of its next request
  pages,     \* the pages received, each a set of rows
  first,     \* history: the rows the first request could see
  done       \* the last answer had no next_cursor

walkVars == <<processed, now, time, limit, cursor, pages, first, done>>

Facts == {e \in Rows : Checkpoint[e] <= processed}
InWindow(e) == time[e] >= now - Window
Visible == {e \in Facts \cap Wanted : InWindow(e)}

\* ts_ms: CAST ... AS BIGINT rounds.
Ms(e) == (time[e] + PerMs \div 2) \div PerMs

\* What ORDER BY ... DESC compares, and what a cursor holds.
Sorted(e) == <<time[e], CpSeq[e]>>
At(e)     == <<Ms(e), CpSeq[e]>>
Precedes(p, q) == p[1] > q[1] \/ (p[1] = q[1] /\ p[2] > q[2])

\* A checkpoint is indexed after its events happened.
Happened(n) == \A e \in Rows : Checkpoint[e] <= n => time[e] <= now

WalkInit ==
  /\ processed \in -1..LastSeq /\ now \in 0..LastNow /\ time \in Times
  /\ Happened(processed)
  /\ limit \in Limits
  /\ cursor = NoCursor
  /\ pages = <<>>
  /\ first = {}
  /\ done = FALSE

IndexNext ==
  /\ processed < LastSeq /\ processed' = processed + 1
  /\ Happened(processed')
  /\ UNCHANGED <<now, time, limit, cursor, pages, first, done>>

Tick ==
  /\ now < LastNow /\ now' = now + 1
  /\ UNCHANGED <<processed, time, limit, cursor, pages, first, done>>

Clamped(l) == IF l <= 0 THEN DefaultLimit ELSE IF l > MaxLimit THEN MaxLimit ELSE l

\* Mutant: no WHERE pool_id.
AfterCursor_AllPools ==
  {e \in Facts : InWindow(e) /\ (cursor = NoCursor \/ Precedes(cursor, At(e)))}

AfterCursor == {e \in Visible : cursor = NoCursor \/ Precedes(cursor, At(e))}

\* LIMIT n: rows that precede all the others; any of those that share the
\* last position.
FirstRows(S, n) ==
  {P \in SUBSET S : /\ Cardinality(P) = IF Cardinality(S) < n THEN Cardinality(S) ELSE n
                    /\ \A e \in P, f \in S \ P : ~Precedes(Sorted(f), Sorted(e))}

\* The cursor of the last row of the page.  Of rows that are sorted alike any
\* may be the last: their cursors are the same.
Last(P) == At(CHOOSE e \in P : \A f \in P : ~Precedes(Sorted(e), Sorted(f)))

\* Mutant: the cursor is the page's first row.
NextCursor_First(P) ==
  IF Cardinality(P) = limit /\ P # {}
  THEN At(CHOOSE e \in P : \A f \in P : ~Precedes(Sorted(f), Sorted(e)))
  ELSE NoCursor

\* Mutant: no cursor once the page is full.
NextCursor_NotWhenFull(P) ==
  IF Cardinality(P) < limit /\ P # {} THEN Last(P) ELSE NoCursor

\* The handler compares the number of rows with the limit it was asked for.
NextCursor(P) == IF Cardinality(P) = limit /\ P # {} THEN Last(P) ELSE NoCursor

\* One request and its answer: the query sees one snapshot.
ReadPage ==
  /\ ~done
  /\ \E P \in FirstRows(AfterCursor, Clamped(limit)) :
       /\ pages' = Append(pages, P)
       /\ cursor' = NextCursor(P)
       /\ done' = (cursor' = NoCursor)
  /\ first' = IF pages = <<>> THEN Visible ELSE first
  /\ UNCHANGED <<processed, now, time, limit>>

WalkNext == IndexNext \/ Tick \/ ReadPage

WalkSpec == WalkInit /\ [][WalkNext]_walkVars
-----------------------------------------------------------------------------
WalkTypes ==
  /\ processed \in -1..LastSeq /\ now \in 0..LastNow /\ limit \in Limits
  /\ time \in Times
  /\ cursor \in (Nat \X Nat) \cup {NoCursor}
  /\ pages \in Seq(SUBSET Wanted) /\ first \subseteq Wanted
  /\ done \in BOOLEAN

\* No row has a fraction of a millisecond.
WholeMs == \A e \in Wanted : time[e] = PerMs * Ms(e)

\* The walk goes back in time, to the millisecond; and without fractions no
\* row comes twice: each page is older than the ones before it, however many
\* checkpoints were committed meanwhile.
PagesDescend ==
  \A i, j \in DOMAIN pages : i < j =>
    \A e \in pages[i], f \in pages[j] :
      Ms(e) >= Ms(f) /\ (WholeMs => Precedes(At(e), At(f)))

\* Reading to the end yields every row there was at the first page, but for
\* those that left the window on the way.
Complete ==
  done => \A e \in first : InWindow(e) => \E i \in DOMAIN pages : e \in pages[i]

\* With a limit in range, the only rows a finished walk can miss are those of
\* the same millisecond as a row it has, and without fractions those that
\* share their position with one.
OnlyTiesMissed ==
  done /\ limit \in 1..MaxLimit =>
    \A e \in first : InWindow(e) =>
      \E i \in DOMAIN pages, f \in Wanted :
        /\ f \in pages[i] /\ Ms(f) = Ms(e)
        /\ WholeMs => At(f) = At(e)
=============================================================================
