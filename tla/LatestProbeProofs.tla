------------------------- MODULE LatestProbeProofs -------------------------
(* What holds of the searches for any number of requests and commands, any *)
(* history of the store, any first probe and any number of faults.         *)
EXTENDS LatestProbe, TLAPS

(***************************************************************************)
(* The inductive invariant.  Of a search it says what its bounds mean: low *)
(* (the command's: all below low) is there now, high was not at a moment   *)
(* since the search began.  A cached value is an answer like any other.    *)
(***************************************************************************)
Reached ==
  \A a \in Askers : pc[a] \in {"double", "bisect"} =>
    low[a] <= (IF a \in Api THEN head ELSE head + 1)

NotReached ==
  \A a \in Askers : pc[a] = "bisect" => began[a] < high[a]

\* The command's upper bound, which no checkpoint ever reaches.
TopUntouched == \A a \in Cli : pc[a] = "double" => high[a] = TopProbe

Started ==
  /\ processed <= head
  /\ \A a \in Askers : pc[a] \in Searching => began[a] <= head
  /\ \A a \in Cli : pc[a] \in Searching \cup {"answered"} => seen[a] <= began[a]
  /\ \A a \in Askers : pc[a] = "cache" => seen[a] <= processed
  /\ \A a \in Askers : pc[a] \in Searching \cup {"answered"} =>
       behind[a] <= began[a] - seen[a] \/ behind[a] = 0

CacheHonest == cached # None => cachedFrom <= cached /\ cached <= head

IInv == /\ ProbeTypes /\ LatestIsHonest /\ CacheHonest
        /\ Reached /\ NotReached /\ TopUntouched /\ Started

\* The middle of two bounds is a checkpoint number.
LEMMA MidType ==
  ASSUME NEW a, low[a] \in Nat, high[a] \in Nat, low[a] <= high[a]
  PROVE  Mid(a) \in Nat
<1>1. PICK d \in Nat : d = high[a] - low[a]
  OBVIOUS
<1>2. d \div 2 \in Nat
  OBVIOUS
<1>3. QED BY <1>1, <1>2 DEF Mid
-----------------------------------------------------------------------------
LEMMA InitIInv == ProbeInit => IInv
<1>1. SUFFICES ASSUME ProbeInit PROVE IInv
  OBVIOUS
<1>2. ProbeTypes
  <2>1. head \in Heads /\ processed \in Heads /\ -1 \in Heads
    <3>1. scenario.maxHead \in Nat
      BY <1>1, ProbeAssumption DEF ProbeInit
    <3>2. head \in Int /\ -1 <= head /\ head <= scenario.maxHead
          /\ processed \in Int /\ -1 <= processed /\ processed <= head
      BY <1>1, <3>1 DEF ProbeInit
    <3>3. QED BY <3>1, <3>2 DEF Heads
  <2>2. pc \in [Askers -> PCs]
    BY <1>1 DEF ProbeInit, PCs
  <2>3. /\ low \in [Askers -> Nat] /\ high \in [Askers -> Nat]
        /\ answer \in [Askers -> Nat]
    BY <1>1 DEF ProbeInit
  <2>4. seen \in [Askers -> Heads] /\ began \in [Askers -> Heads]
    BY <1>1, <2>1 DEF ProbeInit
  <2>5. /\ scenario \in Scenarios /\ faults \in 0..scenario.faults
        /\ cached \in Nat \cup {None} /\ fresh \in BOOLEAN
        /\ cachedFrom \in Heads /\ behind \in [Askers -> Nat]
    <3>1. scenario \in Scenarios /\ faults \in 0..scenario.faults
      BY <1>1, ProbeAssumption DEF ProbeInit
    <3>2. cached \in Nat \cup {None} /\ fresh \in BOOLEAN
      BY <1>1 DEF ProbeInit
    <3>3. cachedFrom \in Heads /\ behind \in [Askers -> Nat]
      BY <1>1, <2>1 DEF ProbeInit
    <3>4. QED BY <3>1, <3>2, <3>3
  <2>6. QED
    BY <2>1, <2>2, <2>3, <2>4, <2>5 DEF ProbeTypes
<1>3. QED
  BY <1>1, <1>2, ProbeAssumption
     DEF ProbeInit, IInv, LatestIsHonest, CacheHonest, Reached, NotReached,
         TopUntouched, Started, Searching, ProbeTypes, Heads, Askers

\* The world only adds checkpoints: upper bounds of answers stay ones.
LEMMA WorldKeepsIInv ==
  ASSUME IInv, Publish \/ Index \/ Expire
  PROVE  IInv'
<1>1. CASE Publish
  BY <1>1, ProbeAssumption
     DEF Publish, search, IInv, ProbeTypes, Heads, LatestIsHonest, CacheHonest,
         Reached, NotReached, TopUntouched, Started, Searching, Askers
<1>2. CASE Index
  BY <1>2, ProbeAssumption
     DEF Index, search, IInv, ProbeTypes, Heads, LatestIsHonest, CacheHonest,
         Reached, NotReached, TopUntouched, Started, Searching, Askers
<1>3. CASE Expire
  BY <1>3, ProbeAssumption
     DEF Expire, search, IInv, ProbeTypes, Heads, LatestIsHonest, CacheHonest,
         Reached, NotReached, TopUntouched, Started, Searching, Askers
<1>4. QED BY <1>1, <1>2, <1>3

LEMMA ReadKeepsIInv ==
  ASSUME IInv, NEW a \in Askers, ReadProgress(a)
  PROVE  IInv'
BY ProbeAssumption
   DEF ReadProgress, Began, To, Bounds, IInv, ProbeTypes, Heads, LatestIsHonest,
       CacheHonest, Reached, NotReached, TopUntouched, Started, Searching,
       PCs, Askers

\* The cache.
LEMMA CacheKeepsIInv ==
  ASSUME IInv, NEW a \in Askers, Hit(a) \/ Miss(a) \/ AskZero(a)
  PROVE  IInv'
<1>1. CASE Hit(a)
  BY <1>1, ProbeAssumption
     DEF Hit, Began, To, IInv, ProbeTypes, Heads, LatestIsHonest, CacheHonest,
         Reached, NotReached, TopUntouched, Started, Searching, PCs, Askers
<1>2. CASE Miss(a)
  BY <1>2, ProbeAssumption
     DEF Miss, Began, To, IInv, ProbeTypes, Heads, LatestIsHonest, CacheHonest,
         Reached, NotReached, TopUntouched, Started, Searching, PCs, Askers
<1>3. CASE AskZero(a)
  BY <1>3, ProbeAssumption
     DEF AskZero, Exists, Request, To, Bounds, IInv, ProbeTypes, Heads,
         LatestIsHonest, CacheHonest,
         Reached, NotReached, TopUntouched, Started, Searching, PCs, Askers
<1>4. QED BY <1>1, <1>2, <1>3

\* Doubling.
LEMMA DoublingKeepsIInv ==
  ASSUME IInv, NEW a \in Askers, ApiDouble(a) \/ CliDouble(a)
  PROVE  IInv'
<1>1. CASE ApiDouble(a)
  BY <1>1, ProbeAssumption
     DEF ApiDouble, Exists, Request, To, Bounds, IInv, ProbeTypes, Heads,
         LatestIsHonest, CacheHonest,
         Reached, NotReached, TopUntouched, Started, Searching, PCs, Askers
<1>2. CASE CliDouble(a)
  <2> DEFINE probe == IF low[a] = 0 THEN FirstProbe ELSE 2 * low[a]
  <2>1. probe \in Nat /\ head < TopProbe
    BY ProbeAssumption DEF IInv, ProbeTypes, Heads
  <2>2. CASE probe <= high[a] /\ Exists(probe)
    BY <1>2, <2>1, <2>2, ProbeAssumption
       DEF CliDouble, Exists, Request, To, Bounds, IInv, ProbeTypes, Heads,
           LatestIsHonest, CacheHonest,
           Reached, NotReached, TopUntouched, Started, Searching, PCs, Askers
  <2>3. CASE probe <= high[a] /\ ~Exists(probe)
    BY <1>2, <2>1, <2>3, ProbeAssumption
       DEF CliDouble, Exists, Request, To, Bounds, IInv, ProbeTypes, Heads,
           LatestIsHonest, CacheHonest,
           Reached, NotReached, TopUntouched, Started, Searching, PCs, Askers
  <2>4. CASE probe > high[a]
    BY <1>2, <2>1, <2>4, ProbeAssumption
       DEF CliDouble, Exists, Request, To, Bounds, IInv, ProbeTypes, Heads,
           LatestIsHonest, CacheHonest,
           Reached, NotReached, TopUntouched, Started, Searching, PCs, Askers
  <2>5. QED BY <2>1, <2>2, <2>3, <2>4 DEF IInv, ProbeTypes
<1>3. QED BY <1>1, <1>2

\* Bisection.
LEMMA BisectionKeepsIInv ==
  ASSUME IInv, NEW a \in Askers, ApiBisect(a) \/ CliBisect(a)
  PROVE  IInv'
<1>1. low[a] \in Nat /\ high[a] \in Nat /\ low[a] <= high[a]
  BY DEF IInv, ProbeTypes, ApiBisect, CliBisect
<1>2. Mid(a) \in Nat
  BY <1>1, MidType
<1>3. CASE ApiBisect(a)
  BY <1>2, <1>3, ProbeAssumption
     DEF ApiBisect, Exists, Request, To, Bounds, IInv, ProbeTypes, Heads,
         LatestIsHonest, CacheHonest,
         Reached, NotReached, TopUntouched, Started, Searching, PCs, Askers
<1>4. CASE CliBisect(a)
  BY <1>2, <1>4, ProbeAssumption
     DEF CliBisect, Exists, Request, To, Bounds, IInv, ProbeTypes, Heads,
         LatestIsHonest, CacheHonest,
         Reached, NotReached, TopUntouched, Started, Searching, PCs, Askers
<1>5. QED BY <1>3, <1>4

\* The answers, and the failures.
LEMMA EndKeepsIInv ==
  ASSUME IInv, NEW a \in Askers, ApiFound(a) \/ CliFound(a) \/ Fails(a)
  PROVE  IInv'
<1>1. CASE ApiFound(a)
  BY <1>1, ProbeAssumption
     DEF ApiFound, To, Bounds, IInv, ProbeTypes, Heads, LatestIsHonest, CacheHonest,
         Reached, NotReached, TopUntouched, Started, Searching, PCs, Askers
<1>2. CASE CliFound(a)
  BY <1>2, ProbeAssumption
     DEF CliFound, To, Bounds, IInv, ProbeTypes, Heads, LatestIsHonest, CacheHonest,
         Reached, NotReached, TopUntouched, Started, Searching, PCs, Askers
<1>3. CASE Fails(a)
  BY <1>3, ProbeAssumption
     DEF Fails, To, Bounds, IInv, ProbeTypes, Heads, LatestIsHonest, CacheHonest,
         Reached, NotReached, TopUntouched, Started, Searching, PCs, Askers
<1>4. QED BY <1>1, <1>2, <1>3

LEMMA StutterKeepsIInv == ASSUME IInv, UNCHANGED probeVars PROVE IInv'
BY DEF probeVars, search, IInv, ProbeTypes, Heads, LatestIsHonest, CacheHonest, Reached,
       NotReached, TopUntouched, Started, Searching, Askers

LEMMA StepKeepsIInv == IInv /\ [ProbeNext]_probeVars => IInv'
<1>1. SUFFICES ASSUME IInv, [ProbeNext]_probeVars PROVE IInv'
  OBVIOUS
<1>2. CASE Publish \/ Index \/ Expire
  BY <1>1, <1>2, WorldKeepsIInv
<1>3. ASSUME NEW a \in Askers, ReadProgress(a) \/ Search(a) \/ Fails(a)
      PROVE  IInv'
  BY <1>1, <1>3, ReadKeepsIInv, CacheKeepsIInv, DoublingKeepsIInv,
     BisectionKeepsIInv, EndKeepsIInv DEF Search
<1>4. CASE UNCHANGED probeVars
  BY <1>1, <1>4, StutterKeepsIInv
<1>5. QED BY <1>1, <1>2, <1>3, <1>4 DEF ProbeNext
-----------------------------------------------------------------------------
\* The invariant holds of every reachable state.
THEOREM Invariance == ProbeSpec => []IInv
BY InitIInv, StepKeepsIInv, PTL DEF ProbeSpec

\* Types are right: no bound, answer or cached value is ever negative, in
\* resolveLatestCheckpoint as in get_latest_checkpoint.
THEOREM TypeCorrect == ProbeSpec => []ProbeTypes
<1>1. IInv => ProbeTypes BY DEF IInv
<1>2. QED BY <1>1, Invariance, PTL

\* Whatever is published during a search, and whichever of the concurrent
\* searches writes the cache last, the latest checkpoint an answer names was
\* the latest at some moment since the search behind it began.
THEOREM AnswersHonest == ProbeSpec => []LatestIsHonest
<1>1. IInv => LatestIsHonest BY DEF IInv
<1>2. QED BY <1>1, Invariance, PTL

\* A lag of 0 means that the indexer had caught up with all that was published
\* when the search began: the progress row is read first, and the clamp of the
\* API's lag only hides progress made since.
THEOREM ZeroLagMeansCaughtUp == ProbeSpec => []NoFalseComfort
<1>1. ASSUME IInv PROVE NoFalseComfort
  BY <1>1 DEF IInv, ProbeTypes, Heads, LatestIsHonest, NoFalseComfort, Lag, Askers
<1>2. QED BY <1>1, Invariance, PTL

\* Whoever searches reports a lag at least as high as it was when the search
\* began: the progress row is read before, in composeServiceStatus as in the
\* status command.
THEOREM LagIsNotUnderstated == ProbeSpec => []LagNotUnderstated
<1>1. ASSUME IInv PROVE LagNotUnderstated
  <2>1. SUFFICES ASSUME NEW a \in Askers, pc[a] = "answered" PROVE Lag(a) >= behind[a]
    BY DEF LagNotUnderstated
  <2>2. /\ answer[a] \in Nat /\ seen[a] \in Int /\ began[a] \in Int /\ behind[a] \in Nat
        /\ began[a] <= answer[a]
        /\ behind[a] <= began[a] - seen[a] \/ behind[a] = 0
        /\ a \in Cli => seen[a] <= began[a]
    BY <1>1, <2>1 DEF IInv, ProbeTypes, Heads, LatestIsHonest, Started
  <2>3. a \in Cli \/ a \in Api
    BY <2>1 DEF Askers
  <2>4. QED BY <2>2, <2>3 DEF Lag
<1>2. QED BY <1>1, Invariance, PTL

\* The command's unclamped difference is never negative.
THEOREM LagIsNatural == ProbeSpec => []LagNotNegative
<1>1. ASSUME IInv PROVE LagNotNegative
  BY <1>1, ProbeAssumption
     DEF IInv, ProbeTypes, Heads, LatestIsHonest, Started, LagNotNegative, Lag,
         Searching, Askers
<1>2. QED BY <1>1, Invariance, PTL
=============================================================================
