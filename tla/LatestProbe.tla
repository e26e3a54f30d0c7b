---------------------------- MODULE LatestProbe ----------------------------
(***************************************************************************)
(* How far behind is the indexer?  The store can only be asked whether     *)
(* checkpoint n is there, so the latest is searched for, one request at a  *)
(* time, while it goes on publishing.  Two searches: that of the API's     *)
(* probe (resolveLatestCheckpoint), run by any number of requests at once  *)
(* and cached between them, and that of the indexer's `status` command     *)
(* (get_latest_checkpoint).  Both read the progress row first.             *)
(***************************************************************************)
EXTENDS Progress, Integers

CONSTANTS
  Api,         \* concurrent requests for /status or /metrics
  Cli,         \* runs of `status`
  None,        \* no cached value
  FirstProbe,  \* 1_000_000: the first checkpoint `status` asks for
  TopProbe,    \* u64::MAX / 2: no checkpoint is that high
  Scenarios    \* the askers of a behaviour, and bounds: the highest
               \* checkpoint published in it, and requests that fail

ASSUME ProbeAssumption ==
  /\ Api \cap Cli = {}
  /\ None \notin Int
  /\ FirstProbe \in Nat \ {0} /\ TopProbe \in Nat
  /\ FirstProbe <= TopProbe
  /\ Scenarios \subseteq
       [askers : SUBSET (Api \cup Cli), maxHead : 0..(TopProbe - 1),
        faults : Nat]

Askers == Api \cup Cli

VARIABLES
  scenario,   \* one of Scenarios, for good
  head,       \* the last checkpoint published, -1 before the first
  pc,         \* pc[a]: where asker a is
  low, high,  \* the search's bounds
  seen,       \* seen[a]: the processed checkpoint it read
  answer,     \* answer[a]: the latest checkpoint it reports
  cached,     \* cachedVal
  fresh,      \* the cached value is younger than the TTL
  began,      \* history: head when the search that gave answer[a] began
  cachedFrom, \* history: head when the search that gave cached began
  behind,     \* history: how far the indexer was behind when a's own search
              \* began; 0 for an answer from the cache
  faults

search == <<pc, low, high, began, behind>>
probeVars == <<scenario, head, processed, pc, low, high, seen, answer, cached,
               fresh, began, cachedFrom, behind, faults>>

Searching == {"zero", "double", "bisect"}
PCs == Searching \cup {"idle", "cache", "answered", "failed"}

ProbeInit ==
  /\ scenario \in Scenarios
  /\ head \in -1..scenario.maxHead /\ processed \in -1..head
  /\ pc = [a \in Askers |-> "idle"]
  /\ low = [a \in Askers |-> 0] /\ high = [a \in Askers |-> 0]
  /\ seen = [a \in Askers |-> -1]
  /\ answer = [a \in Askers |-> 0]
  /\ cached = None /\ fresh = FALSE
  /\ began = [a \in Askers |-> -1] /\ cachedFrom = -1
  /\ behind = [a \in Askers |-> 0]
  /\ faults = scenario.faults
-----------------------------------------------------------------------------
(* The world. *)
Publish ==
  /\ head < scenario.maxHead /\ head' = head + 1
  /\ UNCHANGED <<scenario, processed, search, seen, answer, cached, fresh,
                 cachedFrom, faults>>

Index ==
  /\ processed < head /\ processed' = processed + 1
  /\ UNCHANGED <<scenario, head, search, seen, answer, cached, fresh,
                 cachedFrom, faults>>

Expire ==
  /\ fresh /\ fresh' = FALSE
  /\ UNCHANGED <<scenario, head, processed, search, seen, answer, cached,
                 cachedFrom, faults>>
-----------------------------------------------------------------------------
Exists(n) == n <= head

To(a, s) == pc' = [pc EXCEPT ![a] = s]
Bounds(a, l, h) == low' = [low EXCEPT ![a] = l] /\ high' = [high EXCEPT ![a] = h]

\* The moment the answer depends on.
Began(a, h, d) == /\ began' = [began EXCEPT ![a] = h]
                  /\ behind' = [behind EXCEPT ![a] = d]

\* The first query, of the progress row; then the API looks into its cache,
\* the command starts to search.
ReadProgress(a) ==
  /\ a \in scenario.askers /\ pc[a] \in {"idle", "answered", "failed"}
  /\ seen' = [seen EXCEPT ![a] = processed]
  /\ answer' = [answer EXCEPT ![a] = 0]
  /\ IF a \in Api
     THEN /\ To(a, "cache") /\ UNCHANGED <<low, high>>
          /\ Began(a, -1, 0)
     ELSE /\ To(a, "double") /\ Bounds(a, 0, TopProbe)
          /\ Began(a, head, head - processed)
  /\ UNCHANGED <<scenario, head, processed, cached, fresh, cachedFrom, faults>>

Hit(a) ==
  /\ a \in Api /\ pc[a] = "cache" /\ cached # None /\ fresh
  /\ answer' = [answer EXCEPT ![a] = cached]
  /\ Began(a, cachedFrom, 0)
  /\ To(a, "answered")
  /\ UNCHANGED <<scenario, head, processed, low, high, seen, cached, fresh,
                 cachedFrom, faults>>

Miss(a) ==
  /\ a \in Api /\ pc[a] = "cache" /\ ~(cached # None /\ fresh)
  /\ To(a, "zero")
  /\ Began(a, head, head - processed)
  /\ UNCHANGED <<scenario, head, processed, low, high, seen, answer, cached, fresh,
                 cachedFrom, faults>>

\* One request of a search.
Request(a) ==
  UNCHANGED <<scenario, head, processed, seen, answer, cached, fresh, began,
              behind, cachedFrom, faults>>

\* Checkpoint 0 is not there: an error.
AskZero(a) ==
  /\ a \in Api /\ pc[a] = "zero"
  /\ To(a, IF Exists(0) THEN "double" ELSE "failed")
  /\ IF Exists(0) THEN Bounds(a, 0, 1) ELSE UNCHANGED <<low, high>>
  /\ Request(a)

\* The API doubles high until it is not there.  (It stops at 2^62.)
ApiDouble(a) ==
  /\ a \in Api /\ pc[a] = "double"
  /\ IF Exists(high[a])
     THEN Bounds(a, high[a], 2 * high[a]) /\ UNCHANGED pc
     ELSE To(a, "bisect") /\ UNCHANGED <<low, high>>
  /\ Request(a)

\* low = 0 stands for the first turn: the command asks for FirstProbe, then
\* for twice the last checkpoint found.
CliDouble(a) ==
  LET probe == IF low[a] = 0 THEN FirstProbe ELSE 2 * low[a] IN
  /\ a \in Cli /\ pc[a] = "double"
  /\ \/ /\ probe <= high[a] /\ Exists(probe)
        /\ Bounds(a, probe, high[a]) /\ UNCHANGED pc
     \/ /\ probe <= high[a] /\ ~Exists(probe)
        /\ Bounds(a, low[a], probe) /\ To(a, "bisect")
     \/ /\ probe > high[a]
        /\ To(a, "bisect") /\ UNCHANGED <<low, high>>
  /\ Request(a)

Mid(a) == low[a] + (high[a] - low[a]) \div 2

\* Invariant of the API's search: low is there, high was not.
ApiBisect(a) ==
  /\ a \in Api /\ pc[a] = "bisect" /\ low[a] + 1 < high[a]
  /\ IF Exists(Mid(a)) THEN Bounds(a, Mid(a), high[a])
                       ELSE Bounds(a, low[a], Mid(a))
  /\ UNCHANGED pc
  /\ Request(a)

\* Mutant: low stays on the checkpoint found.
CliBisect_Stays(a) ==
  /\ a \in Cli /\ pc[a] = "bisect" /\ low[a] < high[a]
  /\ IF Exists(Mid(a)) THEN Bounds(a, Mid(a), high[a])
                       ELSE Bounds(a, low[a], Mid(a))
  /\ UNCHANGED pc
  /\ Request(a)

\* Of the command's: everything below low is there, high was not.
CliBisect(a) ==
  /\ a \in Cli /\ pc[a] = "bisect" /\ low[a] < high[a]
  /\ IF Exists(Mid(a)) THEN Bounds(a, Mid(a) + 1, high[a])
                       ELSE Bounds(a, low[a], Mid(a))
  /\ UNCHANGED pc
  /\ Request(a)

\* Mutant: the upper bound, which was not there, is cached.
ApiFound_CachesHigh(a) ==
  /\ a \in Api /\ pc[a] = "bisect" /\ low[a] + 1 >= high[a]
  /\ answer' = [answer EXCEPT ![a] = low[a]]
  /\ cached' = high[a] /\ fresh' = TRUE /\ cachedFrom' = began[a]
  /\ To(a, "answered") /\ Bounds(a, 0, 0)
  /\ UNCHANGED <<scenario, head, processed, seen, began, behind, faults>>

\* Mutant: the API reads the progress row when its search is over.
ApiFound_ReadsLate(a) ==
  /\ a \in Api /\ pc[a] = "bisect" /\ low[a] + 1 >= high[a]
  /\ answer' = [answer EXCEPT ![a] = low[a]]
  /\ seen' = [seen EXCEPT ![a] = processed]
  /\ cached' = low[a] /\ fresh' = TRUE /\ cachedFrom' = began[a]
  /\ To(a, "answered") /\ Bounds(a, 0, 0)
  /\ UNCHANGED <<scenario, head, processed, began, behind, faults>>

\* The API caches what it found, whatever others cached meanwhile.
ApiFound(a) ==
  /\ a \in Api /\ pc[a] = "bisect" /\ low[a] + 1 >= high[a]
  /\ answer' = [answer EXCEPT ![a] = low[a]]
  /\ cached' = low[a] /\ fresh' = TRUE /\ cachedFrom' = began[a]
  /\ To(a, "answered") /\ Bounds(a, 0, 0)
  /\ UNCHANGED <<scenario, head, processed, seen, began, behind, faults>>

\* Mutant: the progress row is read when the search is over.
CliFound_ReadsLate(a) ==
  /\ a \in Cli /\ pc[a] = "bisect" /\ low[a] >= high[a]
  /\ IF low[a] > 0 THEN /\ answer' = [answer EXCEPT ![a] = low[a] - 1]
                        /\ To(a, "answered")
                   ELSE To(a, "failed") /\ UNCHANGED answer
  /\ seen' = [seen EXCEPT ![a] = processed]
  /\ Bounds(a, 0, 0)
  /\ UNCHANGED <<scenario, head, processed, cached, fresh, began, behind,
                 cachedFrom, faults>>

CliFound(a) ==
  /\ a \in Cli /\ pc[a] = "bisect" /\ low[a] >= high[a]
  /\ IF low[a] > 0 THEN /\ answer' = [answer EXCEPT ![a] = low[a] - 1]
                        /\ To(a, "answered")
                   ELSE To(a, "failed") /\ UNCHANGED answer
  /\ Bounds(a, 0, 0)
  /\ UNCHANGED <<scenario, head, processed, seen, cached, fresh, began,
                 behind, cachedFrom, faults>>

\* Mutant: a failed search counts as latest checkpoint 0.
Fails_AnswersZero(a) ==
  /\ pc[a] \in Searching /\ faults > 0 /\ faults' = faults - 1
  /\ To(a, "answered") /\ Bounds(a, 0, 0)
  /\ answer' = [answer EXCEPT ![a] = 0]
  /\ UNCHANGED <<scenario, head, processed, seen, cached, fresh, began,
                 behind, cachedFrom>>

\* A request fails: the API reports a degraded status, the command none.
Fails(a) ==
  /\ pc[a] \in Searching /\ faults > 0 /\ faults' = faults - 1
  /\ To(a, "failed") /\ Bounds(a, 0, 0)
  /\ UNCHANGED <<scenario, head, processed, seen, answer, cached, fresh, began,
                 behind, cachedFrom>>
-----------------------------------------------------------------------------
Search(a) == \/ Hit(a) \/ Miss(a) \/ AskZero(a)
             \/ ApiDouble(a) \/ CliDouble(a) \/ ApiBisect(a) \/ CliBisect(a)
             \/ ApiFound(a) \/ CliFound(a)

ProbeNext == \/ Publish \/ Index \/ Expire
        \/ \E a \in Askers : ReadProgress(a) \/ Search(a) \/ Fails(a)

ProbeSpec == ProbeInit /\ [][ProbeNext]_probeVars
-----------------------------------------------------------------------------
\* The API's lag is clamped at 0.  The command's is the plain difference.
Lag(a) == LET d == answer[a] - seen[a] IN IF a \in Api /\ d < 0 THEN 0 ELSE d

Heads == -1..scenario.maxHead

ProbeTypes ==
  /\ scenario \in Scenarios
  /\ head \in Heads /\ processed \in Heads
  /\ pc \in [Askers -> PCs]
  /\ low \in [Askers -> Nat] /\ high \in [Askers -> Nat]
  /\ seen \in [Askers -> Heads] /\ answer \in [Askers -> Nat]
  /\ cached \in Nat \cup {None} /\ fresh \in BOOLEAN
  /\ began \in [Askers -> Heads] /\ cachedFrom \in Heads
  /\ behind \in [Askers -> Nat]
  /\ faults \in 0..scenario.faults

\* The answer is a checkpoint that was the latest at some moment since the
\* search that gave it began, although the store published during the search;
\* so is one from the cache, whichever of several searches filled it last.
LatestIsHonest ==
  \A a \in Askers :
    pc[a] = "answered" => began[a] <= answer[a] /\ answer[a] <= head

\* A lag of 0 is no false comfort: all that was published when the search
\* began had been indexed before.
NoFalseComfort ==
  \A a \in Askers : pc[a] = "answered" /\ Lag(a) = 0 => began[a] <= seen[a]

\* A lag that somebody has searched for is at least what it was when the search
\* began, although the indexer and the store moved on during the search: the
\* progress is read before.  (One from the cache may be less.)
LagNotUnderstated ==
  \A a \in Askers : pc[a] = "answered" => Lag(a) >= behind[a]

\* The command needs no clamp: it reads the progress before it searches.
LagNotNegative ==
  \A a \in Askers : pc[a] = "answered" => Lag(a) >= 0

\* Each search comes to an end.
SearchEnds ==
  \A a \in Askers : pc[a] \in Searching ~> pc[a] \in {"answered", "failed"}
=============================================================================
