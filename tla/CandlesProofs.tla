--------------------------- MODULE CandlesProofs ---------------------------
(* That the aggregating reads say of the fills what they should, for every *)
(* set of pools, minutes, managers, prices and candle lengths.             *)
EXTENDS Candles, RollupsProofs

(* Finite sets of integers have a Min and a Max. *)
LEMMA MaxOf ==
  ASSUME NEW S, S \subseteq Int, IsFiniteSet(S), S # {}
  PROVE  Max(S) \in S /\ \A y \in S : y <= Max(S)
<1> DEFINE A == {s \in SUBSET S : s # {} => \E x \in s : \A y \in s : y <= x}
<1>1. {} \in A
  OBVIOUS
<1>2. ASSUME NEW s \in SUBSET S, NEW x \in S \ s, s \in A PROVE s \cup {x} \in A
  <2>1. CASE s = {}
    <3>1. x <= x
      OBVIOUS
    <3>2. QED BY <2>1, <3>1
  <2>2. CASE s # {}
    <3>1. PICK m \in s : \A y \in s : y <= m
      BY <1>2, <2>2
    <3>2. m \in Int /\ x \in Int /\ \A y \in s : y \in Int
      OBVIOUS
    <3>3. CASE m <= x
      <4>1. \A y \in s \cup {x} : y <= x
        BY <3>1, <3>2, <3>3
      <4>2. QED BY <4>1
    <3>4. CASE x <= m
      <4>1. \A y \in s \cup {x} : y <= m
        BY <3>1, <3>2, <3>4
      <4>2. QED BY <3>1, <4>1
    <3>5. QED BY <3>2, <3>3, <3>4
  <2>3. QED BY <2>1, <2>2
<1>3. S \in A
  <2> HIDE DEF A
  <2>1. QED BY <1>1, <1>2, FiniteInduction
<1>4. PICK x \in S : \A y \in S : y <= x
  BY <1>3
<1>5. Max(S) = x
  BY <1>4, MaxIs
<1>6. QED BY <1>4, <1>5

LEMMA MinOf ==
  ASSUME NEW S, S \subseteq Int, IsFiniteSet(S), S # {}
  PROVE  Min(S) \in S /\ \A y \in S : Min(S) <= y
<1> DEFINE A == {s \in SUBSET S : s # {} => \E x \in s : \A y \in s : x <= y}
<1>1. {} \in A
  OBVIOUS
<1>2. ASSUME NEW s \in SUBSET S, NEW x \in S \ s, s \in A PROVE s \cup {x} \in A
  <2>1. CASE s = {}
    <3>1. x <= x
      OBVIOUS
    <3>2. QED BY <2>1, <3>1
  <2>2. CASE s # {}
    <3>1. PICK m \in s : \A y \in s : m <= y
      BY <1>2, <2>2
    <3>2. m \in Int /\ x \in Int /\ \A y \in s : y \in Int
      OBVIOUS
    <3>3. CASE x <= m
      <4>1. \A y \in s \cup {x} : x <= y
        BY <3>1, <3>2, <3>3
      <4>2. QED BY <4>1
    <3>4. CASE m <= x
      <4>1. \A y \in s \cup {x} : m <= y
        BY <3>1, <3>2, <3>4
      <4>2. QED BY <3>1, <4>1
    <3>5. QED BY <3>2, <3>3, <3>4
  <2>3. QED BY <2>1, <2>2
<1>3. S \in A
  <2> HIDE DEF A
  <2>1. QED BY <1>1, <1>2, FiniteInduction
<1>4. PICK x \in S : \A y \in S : x <= y
  BY <1>3
<1>5. Min(S) = x
  BY <1>4, MinIs
<1>6. QED BY <1>4, <1>5

LEMMA ImageFinite ==
  ASSUME NEW S, IsFiniteSet(S), NEW f
  PROVE  IsFiniteSet({f[x] : x \in S})
<1> DEFINE A == {s \in SUBSET S : IsFiniteSet({f[x] : x \in s})}
<1>1. {} \in A
  <2>1. {f[x] : x \in {}} = {}
    OBVIOUS
  <2>2. QED BY <2>1, FS_EmptySet
<1>2. ASSUME NEW s \in SUBSET S, NEW z \in S \ s, s \in A PROVE s \cup {z} \in A
  <2>1. {f[x] : x \in s \cup {z}} = {f[x] : x \in s} \cup {f[z]}
    OBVIOUS
  <2>2. IsFiniteSet({f[x] : x \in s} \cup {f[z]})
    BY <1>2, FS_AddElement
  <2>3. QED BY <2>1, <2>2
<1>3. S \in A
  <2> HIDE DEF A
  <2>1. QED BY <1>1, <1>2, FiniteInduction
<1>4. QED BY <1>3
-----------------------------------------------------------------------------
(* The starts of the candles. *)
LEMMA StartBounds ==
  ASSUME NEW t \in Int, NEW i \in Nat \ {0}
  PROVE  Start(t, i) \in Int /\ Start(t, i) <= t /\ t < Start(t, i) + i
BY DEF Start

LEMMA Multiples ==
  ASSUME NEW k \in Int, NEW m \in Int, NEW i \in Nat \ {0}, k * i < m * i + i
  PROVE  k <= m
<1>1. SUFFICES ASSUME m < k PROVE FALSE
  OBVIOUS
<1>2. PICK d \in Nat : k = m + 1 + d
  <2>1. k - (m + 1) \in Nat /\ k = m + 1 + (k - (m + 1))
    BY <1>1
  <2>2. QED BY <2>1
<1>3. k * i = m * i + i + d * i /\ d * i \in Nat /\ m * i \in Int
  BY <1>2
<1>4. QED BY <1>3

LEMMA StartMonotone ==
  ASSUME NEW t \in Int, NEW u \in Int, NEW i \in Nat \ {0}, t <= u
  PROVE  Start(t, i) <= Start(u, i)
<1> DEFINE k == t \div i
           m == u \div i
<1>1. k \in Int /\ m \in Int
  OBVIOUS
<1>2. k * i \in Int /\ m * i \in Int /\ k * i <= t /\ u < m * i + i
  BY StartBounds DEF Start
<1> HIDE DEF k, m
<1>3. k * i < m * i + i
  BY <1>2
<1>4. k <= m
  BY <1>1, <1>3, Multiples
<1>5. k * i <= m * i
  <2>1. PICK d \in Nat : m = k + d
    <3>1. m - k \in Nat /\ m = k + (m - k)
      BY <1>1, <1>4
    <3>2. QED BY <3>1
  <2>2. m * i = k * i + d * i /\ d * i \in Nat
    BY <1>1, <2>1
  <2>3. QED BY <1>2, <2>2
<1>6. QED BY <1>5 DEF Start, k, m

\* The minutes of a candle are those of its interval.
LEMMA StartOf ==
  ASSUME NEW t \in Int, NEW u \in Int, NEW i \in Nat \ {0}
  PROVE  Start(t, i) = Start(u, i) <=> t \in Start(u, i)..(Start(u, i) + i - 1)
<1>1. Start(u, i) \in Int /\ Start(t, i) \in Int
  BY StartBounds
<1>2. ASSUME Start(t, i) = Start(u, i)
      PROVE  t \in Start(u, i)..(Start(u, i) + i - 1)
  <2>1. Start(t, i) <= t /\ t < Start(t, i) + i
    BY StartBounds
  <2>2. QED BY <1>1, <1>2, <2>1
<1>3. ASSUME t \in Start(u, i)..(Start(u, i) + i - 1)
      PROVE  Start(t, i) = Start(u, i)
  <2> DEFINE k == t \div i
             m == u \div i
  <2>1. k \in Int /\ m \in Int
    OBVIOUS
  <2>2. k * i \in Int /\ m * i \in Int /\ k * i <= t /\ t < k * i + i
    BY StartBounds DEF Start
  <2>3. m * i <= t /\ t < m * i + i
    BY <1>1, <1>3 DEF Start
  <2> HIDE DEF k, m
  <2>4. k * i < m * i + i /\ m * i < k * i + i
    BY <2>2, <2>3
  <2>5. k <= m /\ m <= k
    BY <2>1, <2>4, Multiples
  <2>6. k = m
    BY <2>1, <2>5
  <2>7. QED BY <2>6 DEF Start, k, m
<1>4. QED BY <1>2, <1>3
-----------------------------------------------------------------------------
(* The rows of a window. *)
LEMMA Row ==
  ASSUME IInv, NEW p \in Pools, NEW t \in Minutes, pools[<<p, t>>].trades > 0
  PROVE  LET a == pools[<<p, t>>] IN
         /\ a.open \in Nat /\ a.high \in Nat /\ a.low \in Nat /\ a.last \in Nat
         /\ a.low <= a.open /\ a.open <= a.high
         /\ a.low <= a.last /\ a.last <= a.high
<1>1. RowInv(pools[<<p, t>>])
  BY DEF IInv
<1>2. QED BY <1>1 DEF RowInv, PricesSet, WellFormed, PoolRow

\* A row with trades is one of a minute in which the pool has had fills.
LEMMA RowHasFills ==
  ASSUME IInv, NEW p \in Pools, NEW t \in Minutes
  PROVE  pools[<<p, t>>].trades > 0 <=> Passed(p, {t}) # {}
<1>1. pools[<<p, t>>].trades = Cardinality(Passed(p, {t})) /\ Passing
  BY DEF IInv, Sums
<1>2. Passed(p, {t}) \subseteq DOMAIN done
  BY DEF Passed
<1>3. IsFiniteSet(Passed(p, {t})) /\ Cardinality(Passed(p, {t})) \in Nat
  BY <1>1, <1>2, PassedFinite
<1>4. QED BY <1>1, <1>3, FS_EmptySet

LEMMA Window ==
  ASSUME IInv, NEW p \in Pools, NEW from
  PROVE  IsFiniteSet(InWindow(p, from)) /\ InWindow(p, from) \subseteq Int
<1> DEFINE minute == [j \in DOMAIN done |-> done[j].minute]
           D == {minute[j] : j \in DOMAIN done}
<1>1. IsFiniteSet(DOMAIN done)
  BY PassedFinite DEF IInv
<1>2. IsFiniteSet(D)
  BY <1>1, ImageFinite
<1>3. ASSUME NEW t \in InWindow(p, from) PROVE t \in D
  <2>1. t \in Minutes /\ pools[<<p, t>>].trades > 0
    BY DEF InWindow
  <2>2. PICK j \in Passed(p, {t}) : TRUE
    BY <2>1, RowHasFills
  <2>3. j \in DOMAIN done /\ done[j].minute = t
    BY DEF Passed
  <2>4. QED BY <2>3
<1>4. IsFiniteSet(InWindow(p, from))
  <2> HIDE DEF D
  <2>1. InWindow(p, from) \subseteq D
    BY <1>3
  <2>2. QED BY <1>2, <2>1, FS_Subset
<1>5. InWindow(p, from) \subseteq Int
  BY RollupsAssumption DEF InWindow
<1>6. QED BY <1>4, <1>5

\* What the aggregate reads of a row, also of an old one.
LEMMA Reads ==
  ASSUME IInv, NEW p \in Pools, NEW t \in Minutes, pools[<<p, t>>].trades > 0,
         NEW legacy
  PROVE  LET r == Stored(p, t, legacy) o == Coalesce(r.open, r.last) IN
         /\ r.last = pools[<<p, t>>].last /\ r.last \in Nat
         /\ o \in Nat /\ High(r) \in Nat /\ Low(r) \in Nat
         /\ Low(r) <= o /\ o <= High(r)
         /\ Low(r) <= r.last /\ r.last <= High(r)
<1> DEFINE a == pools[<<p, t>>]
           r == Stored(p, t, legacy)
<1>1. /\ a.open \in Nat /\ a.high \in Nat /\ a.low \in Nat /\ a.last \in Nat
      /\ a.low <= a.open /\ a.open <= a.high /\ a.low <= a.last /\ a.last <= a.high
  BY Row
<1>2. NoPrice \notin Nat
  BY RollupsAssumption
<1>3. CASE t \in legacy
  <2>1. a \in PoolRow
    BY DEF IInv, RowInv
  <2>2. r = [a EXCEPT !.open = NoPrice, !.high = NoPrice, !.low = NoPrice]
    BY <1>3 DEF Stored
  <2> HIDE DEF a, r
  <2>3. r.open = NoPrice /\ r.high = NoPrice /\ r.low = NoPrice /\ r.last = a.last
    BY <2>1, <2>2 DEF PoolRow
  <2>4. QED BY <1>1, <1>2, <2>3 DEF Coalesce, High, Low, r, a
<1>4. CASE t \notin legacy
  <2>1. r = a
    BY <1>4 DEF Stored
  <2> HIDE DEF a, r
  <2>2. QED BY <1>1, <1>2, <2>1 DEF Coalesce, High, Low, r, a
<1>5. QED BY <1>3, <1>4

\* A candle's prices.
LEMMA CandlePrices ==
  ASSUME IInv, NEW p \in Pools, NEW from, NEW legacy, NEW b,
         NEW R, R \subseteq InWindow(p, from), R # {}
  PROVE  LET c == Candle(p, R, b, legacy) row(t) == Stored(p, t, legacy) IN
         /\ IsFiniteSet(R) /\ R \subseteq Int /\ R \subseteq Minutes
         /\ \A t \in R : pools[<<p, t>>].trades > 0
         /\ Min(R) \in R /\ \A t \in R : Min(R) <= t
         /\ Max(R) \in R /\ \A t \in R : t <= Max(R)
         /\ c.start = b /\ c.totals = Totals(p, R)
         /\ c.open = Coalesce(row(Min(R)).open, row(Min(R)).last)
         /\ c.close = pools[<<p, Max(R)>>].last
         /\ c.open \in Nat /\ c.close \in Nat
         /\ c.high \in Nat /\ \A t \in R : High(row(t)) <= c.high
         /\ \E t \in R : c.high = High(row(t))
         /\ c.low \in Nat /\ \A t \in R : c.low <= Low(row(t))
         /\ \E t \in R : c.low = Low(row(t))
<1> DEFINE c == Candle(p, R, b, legacy)
           row(t) == Stored(p, t, legacy)
           highs == {High(row(t)) : t \in R}
           lows == {Low(row(t)) : t \in R}
<1>1. IsFiniteSet(R) /\ R \subseteq Int /\ R \subseteq Minutes
  <2>1. IsFiniteSet(InWindow(p, from)) /\ InWindow(p, from) \subseteq Int
    BY Window
  <2>2. R \subseteq Minutes
    BY DEF InWindow
  <2>3. QED BY <2>1, <2>2, FS_Subset
<1>2. \A t \in R : pools[<<p, t>>].trades > 0
  BY DEF InWindow
<1>3. /\ Min(R) \in R /\ \A t \in R : Min(R) <= t
      /\ Max(R) \in R /\ \A t \in R : t <= Max(R)
  BY <1>1, MinOf, MaxOf
<1>4. \A t \in R : /\ row(t).last = pools[<<p, t>>].last /\ row(t).last \in Nat
                    /\ Coalesce(row(t).open, row(t).last) \in Nat
                    /\ High(row(t)) \in Nat /\ Low(row(t)) \in Nat
  BY <1>1, <1>2, Reads
<1>5. /\ c.start = b /\ c.totals = Totals(p, R)
      /\ c.open = Coalesce(row(Min(R)).open, row(Min(R)).last)
      /\ c.high = Max(highs) /\ c.low = Min(lows)
      /\ c.close = row(Max(R)).last
  BY DEF Candle, FirstRow, LastRow
<1> HIDE DEF c, row
<1>6. /\ highs \subseteq Int /\ highs \subseteq Nat /\ highs # {} /\ IsFiniteSet(highs)
      /\ lows \subseteq Int /\ lows \subseteq Nat /\ lows # {} /\ IsFiniteSet(lows)
  <2> DEFINE h == [t \in R |-> High(row(t))]
             l == [t \in R |-> Low(row(t))]
  <2>1. highs = {h[t] : t \in R} /\ lows = {l[t] : t \in R}
    OBVIOUS
  <2>2. IsFiniteSet({h[t] : t \in R}) /\ IsFiniteSet({l[t] : t \in R})
    <3> HIDE DEF h, l
    <3>1. QED BY <1>1, ImageFinite
  <2>3. highs \subseteq Nat /\ lows \subseteq Nat /\ highs # {} /\ lows # {}
    BY <1>4
  <2> HIDE DEF highs, lows
  <2>4. highs \subseteq Int /\ lows \subseteq Int
    BY <2>3
  <2>5. QED BY <2>1, <2>2, <2>3, <2>4
<1>7. Max(highs) \in highs /\ \A y \in highs : y <= Max(highs)
  <2> HIDE DEF highs
  <2>1. QED BY <1>6, MaxOf
<1>8. Min(lows) \in lows /\ \A y \in lows : Min(lows) <= y
  <2> HIDE DEF lows
  <2>1. QED BY <1>6, MinOf
<1>9. /\ c.high \in Nat /\ \A t \in R : High(row(t)) <= c.high
      /\ \E t \in R : c.high = High(row(t))
  <2>1. c.high \in highs /\ \A t \in R : High(row(t)) <= c.high
    BY <1>5, <1>7
  <2>2. QED BY <1>6, <2>1
<1>10. /\ c.low \in Nat /\ \A t \in R : c.low <= Low(row(t))
       /\ \E t \in R : c.low = Low(row(t))
  <2>1. c.low \in lows /\ \A t \in R : c.low <= Low(row(t))
    BY <1>5, <1>8
  <2>2. QED BY <1>6, <2>1
<1> HIDE DEF highs, lows
<1>11. c.close = pools[<<p, Max(R)>>].last /\ c.open \in Nat /\ c.close \in Nat
  BY <1>3, <1>4, <1>5
<1>12. QED BY <1>1, <1>2, <1>3, <1>5, <1>9, <1>10, <1>11 DEF c, row

LEMMA Bounded ==
  ASSUME IInv, NEW p \in Pools, NEW from, NEW legacy, NEW b,
         NEW R, R \subseteq InWindow(p, from), R # {}
  PROVE  LET c == Candle(p, R, b, legacy) IN
         {c.open, c.close} \subseteq c.low..c.high
<1> DEFINE c == Candle(p, R, b, legacy)
           row(t) == Stored(p, t, legacy)
<1>1. /\ R \subseteq Minutes /\ \A t \in R : pools[<<p, t>>].trades > 0
      /\ Min(R) \in R /\ Max(R) \in R
      /\ c.open = Coalesce(row(Min(R)).open, row(Min(R)).last)
      /\ c.close = pools[<<p, Max(R)>>].last
      /\ c.open \in Nat /\ c.close \in Nat /\ c.high \in Nat /\ c.low \in Nat
      /\ \A t \in R : High(row(t)) <= c.high /\ c.low <= Low(row(t))
  BY CandlePrices
<1>2. \A t \in R : LET o == Coalesce(row(t).open, row(t).last) IN
         /\ row(t).last = pools[<<p, t>>].last
         /\ High(row(t)) \in Nat /\ Low(row(t)) \in Nat
         /\ Low(row(t)) <= o /\ o <= High(row(t))
         /\ Low(row(t)) <= row(t).last /\ row(t).last <= High(row(t))
  BY <1>1, Reads
<1> HIDE DEF c, row
<1>3. c.low <= c.open /\ c.open <= c.high
  <2> DEFINE t == Min(R)
             hi == High(row(t))
             lo == Low(row(t))
  <2>1. /\ hi \in Nat /\ lo \in Nat /\ lo <= c.open /\ c.open <= hi
    BY <1>1, <1>2
  <2>2. hi <= c.high /\ c.low <= lo
    BY <1>1
  <2> HIDE DEF hi, lo
  <2>3. QED BY <1>1, <2>1, <2>2
<1>4. c.low <= c.close /\ c.close <= c.high
  BY <1>1, <1>2
<1>5. QED BY <1>1, <1>3, <1>4 DEF c

\* GetPoolCandles never answers with a malformed candle: whatever the window
\* cuts off and however old the rows, low and high bound open and close.
THEOREM CandlesAreBounded == Spec => []CandlesBounded
<1>1. ASSUME IInv, NEW q \in Candles, NEW c \in Asks(q)
      PROVE  {c.open, c.close} \subseteq c.low..c.high
  <2> DEFINE W == InWindow(q.pool, q.from)
             R(b) == {t \in W : Start(t, q.length) = b}
  <2>1. q.pool \in Pools
    BY DEF Candles
  <2>2. PICK b \in {Start(t, q.length) : t \in W} :
          c = Candle(q.pool, R(b), b, q.legacy)
    BY DEF Asks, PoolCandles
  <2>3. R(b) # {} /\ R(b) \subseteq W
    OBVIOUS
  <2> HIDE DEF R
  <2>4. QED BY <1>1, <2>1, <2>2, <2>3, Bounded
<1>2. IInv => CandlesBounded
  BY <1>1 DEF CandlesBounded
<1>3. QED BY <1>2, Invariance, PTL
-----------------------------------------------------------------------------
(* The rows R of a set M of minutes and the fills of those minutes. *)
RowsOf(p, M, R) ==
  /\ R \subseteq Minutes
  /\ \A t \in Minutes : t \in R <=> t \in M /\ pools[<<p, t>>].trades > 0

LEMMA FillHasRow ==
  ASSUME IInv, NEW p \in Pools, NEW M, NEW R, RowsOf(p, M, R), NEW j \in Passed(p, M)
  PROVE  \E t \in R : j \in Passed(p, {t})
<1>1. \A k \in DOMAIN done : done[k] \in Fill
  BY DEF IInv, Passing
<1>2. /\ j \in DOMAIN done /\ done[j].pool = p /\ done[j].minute \in M
      /\ done[j].minute \in Minutes
  BY <1>1, FillFields DEF Passed
<1>3. j \in Passed(p, {done[j].minute})
  BY <1>2 DEF Passed
<1>4. done[j].minute \in R
  BY <1>2, <1>3, RowHasFills DEF RowsOf
<1>5. QED BY <1>3, <1>4

LEMMA PassedParts ==
  ASSUME IInv, NEW p \in Pools, NEW M, NEW R, RowsOf(p, M, R)
  PROVE  LET P == [t \in R |-> Passed(p, {t})] IN
         /\ \A j : j \in Passed(p, M) <=> \E t \in R : j \in P[t]
         /\ \A t \in R : IsFiniteSet(P[t]) /\ P[t] \subseteq DOMAIN done
         /\ \A t, u \in R : t # u => P[t] \cap P[u] = {}
<1> DEFINE P == [t \in R |-> Passed(p, {t})]
<1>1. Passing
  BY DEF IInv
<1>2. ASSUME NEW j \in Passed(p, M) PROVE \E t \in R : j \in P[t]
  <2>1. \E t \in R : j \in Passed(p, {t})
    BY FillHasRow
  <2>2. QED BY <2>1
<1>3. ASSUME NEW t \in R, NEW j \in P[t] PROVE j \in Passed(p, M)
  <2>1. t \in M
    BY DEF RowsOf
  <2>2. QED BY <2>1 DEF Passed
<1>4. \A t \in R : P[t] \subseteq DOMAIN done
  BY DEF Passed
<1>5. \A t, u \in R : t # u => P[t] \cap P[u] = {}
  BY DEF Passed
<1> HIDE DEF P
<1>6. \A t \in R : IsFiniteSet(P[t])
  BY <1>1, <1>4, PassedFinite
<1>7. \A j : j \in Passed(p, M) <=> \E t \in R : j \in P[t]
  BY <1>2, <1>3
<1>8. QED BY <1>4, <1>5, <1>6, <1>7 DEF P

\* SUM(column) over rows, unrolled.
LEMMA SumTotal ==
  ASSUME NEW S, IsFiniteSet(S), NEW p, NEW k, NEW f,
         \A t \in S : f[t] = pools[<<p, t>>][k]
  PROVE  Sum(p, S, k) = Total(f, S)
<1> DEFINE F(t) == pools[<<p, t>>][k]
<1>1. PICK g : Unrolls(g, f, S)
  BY UnrollsExists
<1>2. \A s \in SUBSET S : s # {} => f[CHOOSE x \in s : TRUE] = F(CHOOSE x \in s : TRUE)
  OBVIOUS
<1> DEFINE D(h) == h = [s \in SUBSET S |->
                    IF s = {} THEN 0
                    ELSE F(CHOOSE x \in s : TRUE) + h[s \ {CHOOSE x \in s : TRUE}]]
           h == CHOOSE u : D(u)
<1>3. D(g)
  <2> HIDE DEF F
  <2>1. QED BY <1>1, <1>2, ChoiceIn DEF Unrolls, Choice
<1>4. Sum(p, S, k) = h[S] /\ D(h)
  <2>1. Sum(p, S, k) = h[S]
    BY DEF MapThenSumSet, MapThenFoldSet, Sum
  <2> HIDE DEF D
  <2>2. D(h)
    BY <1>3
  <2>3. QED BY <2>1, <2>2
<1> HIDE DEF h
<1>5. Unrolls(h, f, S)
  <2> HIDE DEF F
  <2>1. QED BY <1>2, <1>4, ChoiceIn DEF Unrolls, Choice
<1>6. h[S] = Total(f, S)
  <2> HIDE DEF F
  <2>1. QED BY <1>5, Unrolled
<1>7. QED BY <1>4, <1>6

\* A column of the rows sums up to that of the fills.
ColumnIs(p, R, k, f) ==
  /\ \A j \in DOMAIN done : f[j] \in Int
  /\ \A t \in R : pools[<<p, t>>][k] = Total(f, Passed(p, {t}))

LEMMA ColumnSum ==
  ASSUME IInv, NEW p \in Pools, NEW M, NEW R, RowsOf(p, M, R), IsFiniteSet(R),
         NEW k, NEW f, ColumnIs(p, R, k, f)
  PROVE  Sum(p, R, k) = Total(f, Passed(p, M))
<1> DEFINE P == [t \in R |-> Passed(p, {t})]
           e == [t \in R |-> pools[<<p, t>>][k]]
<1>1. /\ \A j : j \in Passed(p, M) <=> \E t \in R : j \in P[t]
      /\ \A t \in R : IsFiniteSet(P[t]) /\ P[t] \subseteq DOMAIN done
      /\ \A t, u \in R : t # u => P[t] \cap P[u] = {}
  BY PassedParts
<1>2. \A t \in R : e[t] = Total(f, P[t])
  BY DEF ColumnIs
<1>3. \A t \in R : e[t] = pools[<<p, t>>][k]
  OBVIOUS
<1> HIDE DEF P, e
<1>4. \A t \in R : \A x \in P[t] : f[x] \in Int
  BY <1>1 DEF ColumnIs
<1>5. Total(e, R) = Total(f, Passed(p, M))
  <2>1. \A t \in R : IsFiniteSet(P[t])
    BY <1>1
  <2>2. \A t, u \in R : t # u => P[t] \cap P[u] = {}
    BY <1>1
  <2>3. \A j : j \in Passed(p, M) <=> \E t \in R : j \in P[t]
    BY <1>1
  <2>4. QED BY <1>2, <1>4, <2>1, <2>2, <2>3, TotalParts
<1>6. Sum(p, R, k) = Total(e, R)
  BY <1>3, SumTotal
<1>7. QED BY <1>5, <1>6

\* A row's stored vwap, times its volume, is within half a unit's share of
\* the volume of the exact product.
Near(w, x, v) == 2 * (w - Unit * x) <= v /\ 0 - v <= 2 * (w - Unit * x)

LEMMA Rounds ==
  ASSUME NEW x \in Nat, NEW v \in Nat, NEW d \in Int, v > 0,
         d = (2 * x + v) \div (2 * v)
  PROVE  2 * (d * v - x) <= v /\ 0 - v <= 2 * (d * v - x)
<1>1. 2 * x + v \in Int /\ 2 * v \in Nat \ {0}
  OBVIOUS
<1>2. d * (2 * v) <= 2 * x + v /\ 2 * x + v < d * (2 * v) + 2 * v
  BY <1>1
<1>3. d * (2 * v) = 2 * (d * v) /\ d * v \in Int
  OBVIOUS
<1>4. QED BY <1>2, <1>3

LEMMA WeightNear ==
  ASSUME NEW a \in PoolRow, a.volume_base = 0 => a.sum_px_base = 0
  PROVE  Weight(a) \in Int /\ Near(Weight(a), a.sum_px_base, a.volume_base)
<1> DEFINE x == Unit * a.sum_px_base
           v == a.volume_base
           d == Vwap(a)
<1>1. v \in Nat /\ a.sum_px_base \in Nat /\ x \in Nat
  BY CandlesAssumption DEF PoolRow
<1>2. CASE v = 0
  <2>1. Weight(a) = 0 /\ x = 0
    BY <1>2, CandlesAssumption DEF Weight
  <2>2. QED BY <1>2, <2>1 DEF Near
<1>3. CASE v # 0
  <2>1. Weight(a) = d * v
    BY <1>3 DEF Weight
  <2>2. d = (2 * x + v) \div (2 * v)
    <3>1. 2 * Unit * a.sum_px_base = 2 * x
      BY <1>1, CandlesAssumption
    <3>2. QED BY <3>1 DEF Vwap
  <2>3. d \in Int
    <3>1. 2 * x + v \in Int /\ 2 * v \in Nat \ {0}
      BY <1>1, <1>3
    <3> HIDE DEF d, x, v
    <3>2. QED BY <2>2, <3>1
  <2> HIDE DEF d
  <2>4. 2 * (d * v - x) <= v /\ 0 - v <= 2 * (d * v - x)
    <3>1. v > 0
      BY <1>1, <1>3
    <3> HIDE DEF x, v
    <3>2. QED BY <1>1, <2>2, <2>3, <3>1, Rounds
  <2>5. d * v \in Int
    BY <1>1, <2>3
  <2>6. QED BY <2>1, <2>4, <2>5 DEF Near
<1>4. QED BY <1>2, <1>3

RowWeight(a) ==
  /\ Weight(a) \in Int /\ a.sum_px_base \in Nat /\ a.volume_base \in Nat
  /\ Near(Weight(a), a.sum_px_base, a.volume_base)

LEMMA RowNear ==
  ASSUME IInv, NEW p \in Pools, NEW t \in Minutes
  PROVE  RowWeight(pools[<<p, t>>])
<1> DEFINE a == pools[<<p, t>>]
<1>1. RowInv(a)
  BY DEF IInv
<1> HIDE DEF a
<1>2. a \in PoolRow /\ PricesSet(a) /\ WellFormed(a)
  BY <1>1 DEF RowInv
<1>3. a.sum_px_base \in Nat /\ a.volume_base \in Nat /\ a.trades \in Nat
  BY <1>2 DEF PoolRow
<1>4. a.volume_base = 0 => a.sum_px_base = 0
  <2>1. CASE a.trades = 0
    BY <1>2, <2>1 DEF PricesSet
  <2>2. ASSUME a.trades # 0, a.volume_base = 0 PROVE a.sum_px_base = 0
    <3>1. a.high \in Nat
      BY <1>2, <2>2 DEF PricesSet
    <3>2. a.sum_px_base <= a.high * a.volume_base
      BY <1>2, <1>3, <2>2 DEF WellFormed
    <3>3. a.high * a.volume_base = 0
      BY <2>2, <3>1
    <3>4. QED BY <1>3, <3>2, <3>3
  <2>3. QED BY <2>1, <2>2
<1>5. Weight(a) \in Int /\ Near(Weight(a), a.sum_px_base, a.volume_base)
  BY <1>2, <1>4, WeightNear
<1>6. QED BY <1>3, <1>5 DEF RowWeight, a

LEMMA NearAdds ==
  ASSUME NEW w \in Int, NEW x \in Int, NEW v \in Int, Near(w, x, v),
         NEW ww \in Int, NEW xx \in Int, NEW vv \in Int, Near(ww, xx, vv)
  PROVE  Near(w + ww, x + xx, v + vv)
<1>1. Unit * (x + xx) = Unit * x + Unit * xx /\ Unit * x \in Int /\ Unit * xx \in Int
  BY CandlesAssumption
<1>2. QED BY <1>1 DEF Near

LEMMA TotalNear ==
  ASSUME NEW w, NEW x, NEW v, NEW S, IsFiniteSet(S),
         \A t \in S : w[t] \in Int /\ x[t] \in Int /\ v[t] \in Int,
         \A t \in S : Near(w[t], x[t], v[t])
  PROVE  Near(Total(w, S), Total(x, S), Total(v, S))
<1> DEFINE A == {s \in SUBSET S : Near(Total(w, s), Total(x, s), Total(v, s))}
<1>1. {} \in A
  <2>1. Near(0, 0, 0)
    BY CandlesAssumption DEF Near
  <2>2. Total(w, {}) = 0 /\ Total(x, {}) = 0 /\ Total(v, {}) = 0
    BY TotalEmpty
  <2>3. QED BY <2>1, <2>2
<1>2. ASSUME NEW s \in SUBSET S, NEW z \in S \ s, s \in A PROVE s \cup {z} \in A
  <2>1. IsFiniteSet(s)
    BY FS_Subset
  <2>2. /\ \A y \in s \cup {z} : w[y] \in Int
        /\ \A y \in s \cup {z} : x[y] \in Int
        /\ \A y \in s \cup {z} : v[y] \in Int
    BY <1>2
  <2>3. Total(w, s \cup {z}) = Total(w, s) + w[z]
    BY <1>2, <2>1, <2>2, TotalAdd
  <2>4. Total(x, s \cup {z}) = Total(x, s) + x[z]
    BY <1>2, <2>1, <2>2, TotalAdd
  <2>5. Total(v, s \cup {z}) = Total(v, s) + v[z]
    BY <1>2, <2>1, <2>2, TotalAdd
  <2>6. Total(w, s) \in Int
    BY <2>1, <2>2, TotalRemove
  <2>7. Total(x, s) \in Int
    BY <2>1, <2>2, TotalRemove
  <2>8. Total(v, s) \in Int
    BY <2>1, <2>2, TotalRemove
  <2>9. w[z] \in Int /\ x[z] \in Int /\ v[z] \in Int /\ Near(w[z], x[z], v[z])
    BY <1>2
  <2>10. Near(Total(w, s), Total(x, s), Total(v, s))
    BY <1>2
  <2>11. Near(Total(w, s) + w[z], Total(x, s) + x[z], Total(v, s) + v[z])
    BY <2>6, <2>7, <2>8, <2>9, <2>10, NearAdds
  <2>12. Near(Total(w, s \cup {z}), Total(x, s \cup {z}), Total(v, s \cup {z}))
    BY <2>3, <2>4, <2>5, <2>11
  <2>13. QED BY <1>2, <2>12
<1>3. S \in A
  <2> HIDE DEF A
  <2>1. QED BY <1>1, <1>2, FiniteInduction
<1>4. QED BY <1>3

\* SUM(vwap * volume_base), unrolled.
LEMMA WeightTotal ==
  ASSUME NEW S, IsFiniteSet(S), NEW p, NEW f,
         \A t \in S : f[t] = Weight(pools[<<p, t>>])
  PROVE  Totals(p, S).weight = Total(f, S)
<1> DEFINE F(t) == Weight(pools[<<p, t>>])
<1>1. PICK g : Unrolls(g, f, S)
  BY UnrollsExists
<1>2. \A s \in SUBSET S : s # {} => f[CHOOSE x \in s : TRUE] = F(CHOOSE x \in s : TRUE)
  OBVIOUS
<1> DEFINE D(h) == h = [s \in SUBSET S |->
                    IF s = {} THEN 0
                    ELSE F(CHOOSE x \in s : TRUE) + h[s \ {CHOOSE x \in s : TRUE}]]
           h == CHOOSE u : D(u)
<1>3. D(g)
  <2> HIDE DEF F
  <2>1. QED BY <1>1, <1>2, ChoiceIn DEF Unrolls, Choice
<1>4. Totals(p, S).weight = h[S] /\ D(h)
  <2>1. Totals(p, S).weight = h[S]
    BY DEF MapThenSumSet, MapThenFoldSet, Totals
  <2> HIDE DEF D
  <2>2. D(h)
    BY <1>3
  <2>3. QED BY <2>1, <2>2
<1> HIDE DEF h
<1>5. Unrolls(h, f, S)
  <2> HIDE DEF F
  <2>1. QED BY <1>2, <1>4, ChoiceIn DEF Unrolls, Choice
<1>6. h[S] = Total(f, S)
  <2> HIDE DEF F
  <2>1. QED BY <1>5, Unrolled
<1>7. QED BY <1>4, <1>6

LEMMA TotalsOf ==
  ASSUME IInv, NEW p \in Pools, NEW M, NEW R, RowsOf(p, M, R), IsFiniteSet(R)
  PROVE  /\ Totals(p, R).trades = Cardinality(Passed(p, M))
         /\ Totals(p, R).volume_base = Total(BaseOf, Passed(p, M))
         /\ Totals(p, R).volume_quote = Total(QuoteOf, Passed(p, M))
         /\ Near(Totals(p, R).weight, Total(PxBaseOf, Passed(p, M)),
                 Total(BaseOf, Passed(p, M)))
<1>1. Passing /\ R \subseteq Minutes
  BY DEF IInv, RowsOf
<1>2. ASSUME NEW t \in R
      PROVE  /\ pools[<<p, t>>]["trades"] = Cardinality(Passed(p, {t}))
             /\ pools[<<p, t>>]["volume_base"] = Total(BaseOf, Passed(p, {t}))
             /\ pools[<<p, t>>]["volume_quote"] = Total(QuoteOf, Passed(p, {t}))
             /\ pools[<<p, t>>]["sum_px_base"] = Total(PxBaseOf, Passed(p, {t}))
  <2>1. Sums(pools[<<p, t>>], Passed(p, {t}))
    BY <1>1 DEF IInv
  <2>2. QED BY <2>1 DEF Sums
<1>3. \A j \in DOMAIN done :
        BaseOf[j] \in Int /\ QuoteOf[j] \in Int /\ PxBaseOf[j] \in Int
  BY <1>1, Columns
<1> DEFINE one == [j \in DOMAIN done |-> 1]
<1>4. \A j \in DOMAIN done : one[j] \in Int /\ one[j] = 1
  OBVIOUS
<1> HIDE DEF one
<1>5. \A M1 : Total(one, Passed(p, M1)) = Cardinality(Passed(p, M1))
  <2>1. ASSUME NEW M1 PROVE Total(one, Passed(p, M1)) = Cardinality(Passed(p, M1))
    <3>1. Passed(p, M1) \subseteq DOMAIN done
      BY DEF Passed
    <3>2. IsFiniteSet(Passed(p, M1)) /\ \A j \in Passed(p, M1) : one[j] = 1
      BY <1>1, <1>4, <3>1, PassedFinite
    <3>3. QED BY <3>2, TotalOnes
  <2>2. QED BY <2>1
<1>6. Sum(p, R, "trades") = Total(one, Passed(p, M))
  <2>1. \A t \in R : pools[<<p, t>>]["trades"] = Total(one, Passed(p, {t}))
    BY <1>2, <1>5
  <2>2. \A j \in DOMAIN done : one[j] \in Int
    BY <1>4
  <2>3. ColumnIs(p, R, "trades", one)
    BY <2>1, <2>2 DEF ColumnIs
  <2>4. QED BY <2>3, ColumnSum
<1>7. Sum(p, R, "volume_base") = Total(BaseOf, Passed(p, M))
  <2>1. \A t \in R : pools[<<p, t>>]["volume_base"] = Total(BaseOf, Passed(p, {t}))
    BY <1>2
  <2>2. \A j \in DOMAIN done : BaseOf[j] \in Int
    BY <1>3
  <2>3. ColumnIs(p, R, "volume_base", BaseOf)
    BY <2>1, <2>2 DEF ColumnIs
  <2>4. QED BY <2>3, ColumnSum
<1>8. Sum(p, R, "volume_quote") = Total(QuoteOf, Passed(p, M))
  <2>1. \A t \in R : pools[<<p, t>>]["volume_quote"] = Total(QuoteOf, Passed(p, {t}))
    BY <1>2
  <2>2. \A j \in DOMAIN done : QuoteOf[j] \in Int
    BY <1>3
  <2>3. ColumnIs(p, R, "volume_quote", QuoteOf)
    BY <2>1, <2>2 DEF ColumnIs
  <2>4. QED BY <2>3, ColumnSum
<1>9. Sum(p, R, "sum_px_base") = Total(PxBaseOf, Passed(p, M))
  <2>1. \A t \in R : pools[<<p, t>>]["sum_px_base"] = Total(PxBaseOf, Passed(p, {t}))
    BY <1>2
  <2>2. \A j \in DOMAIN done : PxBaseOf[j] \in Int
    BY <1>3
  <2>3. ColumnIs(p, R, "sum_px_base", PxBaseOf)
    BY <2>1, <2>2 DEF ColumnIs
  <2>4. QED BY <2>3, ColumnSum
<1>10. Near(Totals(p, R).weight, Sum(p, R, "sum_px_base"), Sum(p, R, "volume_base"))
  <2> DEFINE w == [t \in R |-> Weight(pools[<<p, t>>])]
             x == [t \in R |-> pools[<<p, t>>]["sum_px_base"]]
             v == [t \in R |-> pools[<<p, t>>]["volume_base"]]
  <2>1. ASSUME NEW t \in R
        PROVE  w[t] \in Int /\ x[t] \in Int /\ v[t] \in Int /\ Near(w[t], x[t], v[t])
    <3>1. t \in Minutes
      BY <1>1
    <3>2. RowWeight(pools[<<p, t>>])
      BY <3>1, RowNear
    <3>3. QED BY <3>2 DEF RowWeight
  <2>2. \A t \in R : w[t] = Weight(pools[<<p, t>>])
    OBVIOUS
  <2>3. \A t \in R : x[t] = pools[<<p, t>>]["sum_px_base"]
    OBVIOUS
  <2>4. \A t \in R : v[t] = pools[<<p, t>>]["volume_base"]
    OBVIOUS
  <2> HIDE DEF w, x, v
  <2>5. Near(Total(w, R), Total(x, R), Total(v, R))
    BY <2>1, TotalNear
  <2>6. Totals(p, R).weight = Total(w, R)
    BY <2>2, WeightTotal
  <2>7. Sum(p, R, "sum_px_base") = Total(x, R)
    BY <2>3, SumTotal
  <2>8. Sum(p, R, "volume_base") = Total(v, R)
    BY <2>4, SumTotal
  <2>9. QED BY <2>5, <2>6, <2>7, <2>8
<1>11. /\ Totals(p, R).trades = Sum(p, R, "trades")
       /\ Totals(p, R).volume_base = Sum(p, R, "volume_base")
       /\ Totals(p, R).volume_quote = Sum(p, R, "volume_quote")
  BY DEF Totals
<1>12. QED BY <1>5, <1>6, <1>7, <1>8, <1>9, <1>10, <1>11

\* The first fill of the minutes M is the first one of the first row's minute,
\* and the last one the last of the last row's: minutes pass in order.
LEMMA Ends ==
  ASSUME IInv, NEW p \in Pools, NEW M, NEW R, RowsOf(p, M, R),
         Min(R) \in R, \A t \in R : Min(R) <= t,
         Max(R) \in R, \A t \in R : t <= Max(R)
  PROVE  LET S == Passed(p, M) IN
         /\ S # {} /\ pools[<<p, Min(R)>>].open = done[Min(S)].price
         /\ pools[<<p, Max(R)>>].last = done[Max(S)].price
<1> DEFINE S == Passed(p, M)
           a == Min(R)
           z == Max(R)
           minute(j) == done[j].minute
<1>1. Passing
  BY DEF IInv
<1>2. S \subseteq DOMAIN done /\ S \subseteq Int
  <2>1. S \subseteq DOMAIN done
    BY DEF Passed
  <2>2. S \subseteq Nat
    BY <1>1, <2>1, PassedFinite
  <2>3. QED BY <2>1, <2>2
<1>3. \A j \in DOMAIN done : minute(j) \in Int
  <2>1. \A j \in DOMAIN done : done[j] \in Fill
    BY <1>1 DEF Passing
  <2>2. QED BY <2>1, FillFields
<1>4. \A j \in S : minute(j) \in R
  <2>1. ASSUME NEW j \in S PROVE minute(j) \in R
    <3>1. \E t \in R : j \in Passed(p, {t})
      BY FillHasRow
    <3>2. QED BY <3>1 DEF Passed
  <2>2. QED BY <2>1
<1>5. \A t \in R : /\ t \in Minutes /\ Passed(p, {t}) # {}
                    /\ Passed(p, {t}) \subseteq S
                    /\ \A j \in Passed(p, {t}) : minute(j) = t
                    /\ Extremes(pools[<<p, t>>], Passed(p, {t}))
  <2>1. ASSUME NEW t \in R
        PROVE  t \in Minutes /\ Passed(p, {t}) # {} /\ Passed(p, {t}) \subseteq S
    BY RowHasFills DEF RowsOf, Passed
  <2>2. \A t : \A j \in Passed(p, {t}) : minute(j) = t
    BY DEF Passed
  <2>3. \A t \in Minutes : Extremes(pools[<<p, t>>], Passed(p, {t}))
    BY DEF IInv
  <2>4. QED BY <2>1, <2>2, <2>3
<1>6. \A i, j \in DOMAIN done : i <= j => minute(i) <= minute(j)
  BY <1>1 DEF Passing
<1>7. PICK j \in Passed(p, {a}) : /\ pools[<<p, a>>].open = done[j].price
                                  /\ \A i \in Passed(p, {a}) : j <= i
  <2>1. Extremes(pools[<<p, a>>], Passed(p, {a})) /\ Passed(p, {a}) # {}
    BY <1>5
  <2>2. QED BY <2>1 DEF Extremes
<1>8. PICK k \in Passed(p, {z}) : /\ pools[<<p, z>>].last = done[k].price
                                  /\ \A i \in Passed(p, {z}) : i <= k
  <2>1. Extremes(pools[<<p, z>>], Passed(p, {z})) /\ Passed(p, {z}) # {}
    BY <1>5
  <2>2. QED BY <2>1 DEF Extremes
<1>9. /\ j \in S /\ k \in S /\ minute(j) = a /\ minute(k) = z
  BY <1>5, <1>7, <1>8
<1>10. \A i \in S : minute(i) = a => i \in Passed(p, {a})
  BY DEF Passed
<1>11. \A i \in S : minute(i) = z => i \in Passed(p, {z})
  BY DEF Passed
<1>12. \A i \in S : a <= minute(i) /\ minute(i) <= z
  BY <1>4
<1> HIDE DEF S, a, z, minute
<1>13. ASSUME NEW i \in S PROVE j <= i
  <2>1. CASE minute(i) = a
    BY <1>7, <1>10, <2>1
  <2>2. CASE minute(i) # a
    <3>1. ~(i <= j)
      <4>1. i \in DOMAIN done /\ j \in DOMAIN done
        BY <1>2, <1>9
      <4>2. minute(i) \in Int /\ minute(j) \in Int /\ a <= minute(i) /\ minute(j) = a
        BY <1>3, <1>9, <1>12, <4>1
      <4>3. ~(minute(i) <= minute(j))
        BY <2>2, <4>2
      <4>4. QED BY <1>6, <4>1, <4>3
    <3>2. i \in Int /\ j \in Int
      BY <1>2, <1>9
    <3>3. QED BY <3>1, <3>2
  <2>3. QED BY <2>1, <2>2
<1>14. ASSUME NEW i \in S PROVE i <= k
  <2>1. CASE minute(i) = z
    BY <1>8, <1>11, <2>1
  <2>2. CASE minute(i) # z
    <3>1. ~(k <= i)
      <4>1. i \in DOMAIN done /\ k \in DOMAIN done
        BY <1>2, <1>9
      <4>2. minute(i) \in Int /\ minute(k) \in Int /\ minute(i) <= z /\ minute(k) = z
        BY <1>3, <1>9, <1>12, <4>1
      <4>3. ~(minute(k) <= minute(i))
        BY <2>2, <4>2
      <4>4. QED BY <1>6, <4>1, <4>3
    <3>2. i \in Int /\ k \in Int
      BY <1>2, <1>9
    <3>3. QED BY <3>1, <3>2
  <2>3. QED BY <2>1, <2>2
<1>15. Min(S) = j
  BY <1>2, <1>9, <1>13, MinIs
<1>16. Max(S) = k
  BY <1>2, <1>9, <1>14, MaxIs
<1>17. S # {} /\ pools[<<p, a>>].open = done[Min(S)].price
       /\ pools[<<p, z>>].last = done[Max(S)].price
  BY <1>7, <1>8, <1>9, <1>15, <1>16
<1>18. QED BY <1>17 DEF S, a, z

\* The highest of the rows' highs is the highest price of a fill, and so the
\* lowest of the lows.
IsHighest(p, R, h) ==
  /\ h \in Int /\ \A t \in R : pools[<<p, t>>].high <= h
  /\ \E t \in R : h = pools[<<p, t>>].high
IsLowest(p, R, l) ==
  /\ l \in Int /\ \A t \in R : l <= pools[<<p, t>>].low
  /\ \E t \in R : l = pools[<<p, t>>].low

LEMMA Peaks ==
  ASSUME IInv, NEW p \in Pools, NEW M, NEW R, RowsOf(p, M, R),
         NEW h, IsHighest(p, R, h), NEW l, IsLowest(p, R, l)
  PROVE  LET price == {done[j].price : j \in Passed(p, M)} IN
         h = Max(price) /\ l = Min(price)
<1> DEFINE S == Passed(p, M)
           price == {done[j].price : j \in S}
<1>1. Passing
  BY DEF IInv
<1>2. /\ h \in Int /\ \A t \in R : pools[<<p, t>>].high <= h
      /\ \E t \in R : h = pools[<<p, t>>].high
  BY DEF IsHighest
<1>3. /\ l \in Int /\ \A t \in R : l <= pools[<<p, t>>].low
      /\ \E t \in R : l = pools[<<p, t>>].low
  BY DEF IsLowest
<1>4. S \subseteq DOMAIN done
  BY DEF Passed
<1>5. \A j \in S : done[j].price \in Int
  <2>1. \A j \in DOMAIN done : done[j].price \in Nat
    BY <1>1, Columns
  <2>2. QED BY <1>4, <2>1
<1>6. \A j \in S : \E t \in R : j \in Passed(p, {t})
  BY FillHasRow
<1>7. \A t \in R : /\ t \in Minutes /\ Passed(p, {t}) # {}
                    /\ Passed(p, {t}) \subseteq S
                    /\ Extremes(pools[<<p, t>>], Passed(p, {t}))
                    /\ pools[<<p, t>>].high \in Nat /\ pools[<<p, t>>].low \in Nat
  <2>1. ASSUME NEW t \in R
        PROVE  /\ t \in Minutes /\ Passed(p, {t}) # {} /\ Passed(p, {t}) \subseteq S
               /\ pools[<<p, t>>].trades > 0
    BY RowHasFills DEF RowsOf, Passed
  <2>2. \A t \in Minutes : Extremes(pools[<<p, t>>], Passed(p, {t}))
    BY DEF IInv
  <2>3. QED BY <2>1, <2>2, Row
<1> HIDE DEF S
<1>8. price \subseteq Int
  BY <1>5
<1>9. ASSUME NEW j \in S PROVE done[j].price <= h /\ l <= done[j].price
  <2>1. PICK t \in R : j \in Passed(p, {t})
    BY <1>6
  <2>2. done[j].price <= pools[<<p, t>>].high /\ pools[<<p, t>>].low <= done[j].price
    BY <1>7, <2>1 DEF Extremes
  <2>3. pools[<<p, t>>].high <= h /\ l <= pools[<<p, t>>].low
    BY <1>2, <1>3
  <2>4. pools[<<p, t>>].high \in Nat /\ pools[<<p, t>>].low \in Nat
    BY <1>7
  <2>5. done[j].price \in Int
    BY <1>5
  <2>6. QED BY <1>2, <1>3, <2>2, <2>3, <2>4, <2>5
<1>10. h \in price
  <2>1. PICK t \in R : h = pools[<<p, t>>].high
    BY <1>2
  <2>2. \E j \in S : h = done[j].price
    BY <1>7, <2>1 DEF Extremes
  <2>3. QED BY <2>2
<1>11. l \in price
  <2>1. PICK t \in R : l = pools[<<p, t>>].low
    BY <1>3
  <2>2. \E j \in S : l = done[j].price
    BY <1>7, <2>1 DEF Extremes
  <2>3. QED BY <2>2
<1>12. (\A y \in price : y <= h) /\ (\A y \in price : l <= y)
  BY <1>9
<1> HIDE DEF price
<1>13. Max(price) = h /\ Min(price) = l
  BY <1>2, <1>3, <1>8, <1>10, <1>11, <1>12, MaxIs, MinIs
<1>14. QED BY <1>13 DEF price, S

\* The sum of price times base, unrolled.
LEMMA PxBaseTotal ==
  ASSUME NEW S, IsFiniteSet(S), S \subseteq DOMAIN done
  PROVE  MapThenSumSet(LAMBDA j : done[j].price * done[j].base, S) = Total(PxBaseOf, S)
<1> DEFINE F(j) == done[j].price * done[j].base
           f == PxBaseOf
<1>1. PICK g : Unrolls(g, f, S)
  BY UnrollsExists
<1>2. \A s \in SUBSET S : s # {} => f[CHOOSE x \in s : TRUE] = F(CHOOSE x \in s : TRUE)
  BY DEF PxBaseOf
<1> HIDE DEF f
<1> DEFINE D(h) == h = [s \in SUBSET S |->
                    IF s = {} THEN 0
                    ELSE F(CHOOSE x \in s : TRUE) + h[s \ {CHOOSE x \in s : TRUE}]]
           h == CHOOSE u : D(u)
<1>3. D(g)
  <2> HIDE DEF F
  <2>1. QED BY <1>1, <1>2, ChoiceIn DEF Unrolls, Choice
<1>4. MapThenSumSet(LAMBDA j : done[j].price * done[j].base, S) = h[S] /\ D(h)
  <2>1. MapThenSumSet(LAMBDA j : done[j].price * done[j].base, S) = h[S]
    BY DEF MapThenSumSet, MapThenFoldSet
  <2> HIDE DEF D
  <2>2. D(h)
    BY <1>3
  <2>3. QED BY <2>1, <2>2
<1> HIDE DEF h
<1>5. Unrolls(h, f, S)
  <2> HIDE DEF F
  <2>1. QED BY <1>2, <1>4, ChoiceIn DEF Unrolls, Choice
<1>6. h[S] = Total(f, S)
  <2> HIDE DEF F
  <2>1. QED BY <1>5, Unrolled
<1>7. QED BY <1>4, <1>6 DEF f

\* GetPoolCandles tells the truth: a candle whose minutes are all in the window
\* and newer than migration 002 has the first, last, highest and lowest price,
\* the number and the base volume of exactly the fills of its interval, and
\* their vwap to half a unit.
THEOREM CandlesTellFacts == Spec => []CandlesMatchFacts
<1>1. ASSUME IInv, NEW q \in Candles, NEW c \in Asks(q)
      PROVE  LET span == c.start..(c.start + q.length - 1)
                 S == Passed(q.pool, span)
                 price == {done[j].price : j \in S}
                 exact == MapThenSumSet(LAMBDA j : done[j].price * done[j].base, S)
                 base == MapThenSumSet(Base, S) IN
             (q.from <= c.start /\ span \cap q.legacy = {}) =>
               /\ c.open = done[Min(S)].price /\ c.close = done[Max(S)].price
               /\ c.high = Max(price) /\ c.low = Min(price)
               /\ c.totals.trades = Cardinality(S) /\ c.totals.volume_base = base
               /\ 2 * (c.totals.weight - Unit * exact) \in -base..base
  <2> DEFINE p == q.pool
             i == q.length
             from == q.from
             legacy == q.legacy
             W == InWindow(p, from)
             R(b) == {t \in W : Start(t, i) = b}
             row(t) == Stored(p, t, legacy)
  <2>1. p \in Pools /\ i \in Nat \ {0} /\ from \in Int
    BY CandlesAssumption, RollupsAssumption DEF Candles
  <2>2. PICK u \in W : c = Candle(p, R(Start(u, i)), Start(u, i), legacy)
    BY DEF Asks, PoolCandles
  <2> DEFINE b == Start(u, i)
             span == b..(b + i - 1)
             rows == R(b)
             S == Passed(p, span)
             price == {done[j].price : j \in S}
             exact == MapThenSumSet(LAMBDA j : done[j].price * done[j].base, S)
             base == MapThenSumSet(Base, S)
  <2>3. rows # {} /\ rows \subseteq W /\ u \in Int
    BY <1>1, <2>1, Window
  <2> HIDE DEF p, i, from, legacy, W
  <2>4. c = Candle(p, rows, b, legacy)
    BY <2>2
  <2> HIDE DEF rows
  <2>5. /\ IsFiniteSet(rows) /\ rows \subseteq Int /\ rows \subseteq Minutes
        /\ \A t \in rows : pools[<<p, t>>].trades > 0
        /\ Min(rows) \in rows /\ \A t \in rows : Min(rows) <= t
        /\ Max(rows) \in rows /\ \A t \in rows : t <= Max(rows)
        /\ c.start = b /\ c.totals = Totals(p, rows)
        /\ c.open = Coalesce(row(Min(rows)).open, row(Min(rows)).last)
        /\ c.close = pools[<<p, Max(rows)>>].last
        /\ c.high \in Nat /\ \A t \in rows : High(row(t)) <= c.high
        /\ \E t \in rows : c.high = High(row(t))
        /\ c.low \in Nat /\ \A t \in rows : c.low <= Low(row(t))
        /\ \E t \in rows : c.low = Low(row(t))
    <3>1. rows \subseteq InWindow(p, from) /\ rows # {}
      BY <2>3 DEF W
    <3> HIDE DEF b
    <3>2. QED BY <1>1, <2>1, <2>4, <3>1, CandlePrices
  <2>6. ASSUME from <= b, span \cap legacy = {}
        PROVE  /\ c.open = done[Min(S)].price /\ c.close = done[Max(S)].price
               /\ c.high = Max(price) /\ c.low = Min(price)
               /\ c.totals.trades = Cardinality(S) /\ c.totals.volume_base = base
               /\ 2 * (c.totals.weight - Unit * exact) \in -base..base
    <3>1. \A t \in Int : Start(t, i) = b <=> t \in span
      BY <2>1, <2>3, StartOf
    <3>2. b \in Int
      BY <2>1, <2>3, StartBounds
    <3>3. \A t \in span : t \in Int /\ from <= t
      BY <2>1, <2>6, <3>2
    <3> HIDE DEF span, b
    <3>4. RowsOf(p, span, rows)
      <4>1. \A t \in Minutes : t \in Int
        BY RollupsAssumption
      <4>2. \A t \in Minutes : t \in rows <=> t \in span /\ pools[<<p, t>>].trades > 0
        BY <3>1, <3>3, <4>1 DEF rows, W, InWindow
      <4>3. QED BY <2>5, <4>2 DEF RowsOf
    <3>5. \A t \in rows : row(t) = pools[<<p, t>>]
      BY <2>6, <3>4 DEF RowsOf, Stored
    <3>6. \A t \in rows : /\ pools[<<p, t>>].open \in Nat /\ pools[<<p, t>>].high \in Nat
                          /\ pools[<<p, t>>].low \in Nat
      BY <1>1, <2>1, <2>5, Row
    <3>7. NoPrice \notin Nat
      BY RollupsAssumption
    <3> HIDE DEF row
    <3>8. c.open = pools[<<p, Min(rows)>>].open
      BY <2>5, <3>5, <3>6, <3>7 DEF Coalesce
    <3>9. \A t \in rows : High(row(t)) = pools[<<p, t>>].high
                          /\ Low(row(t)) = pools[<<p, t>>].low
      BY <3>5, <3>6, <3>7 DEF High, Low, Coalesce
    <3>10. S # {} /\ pools[<<p, Min(rows)>>].open = done[Min(S)].price
           /\ pools[<<p, Max(rows)>>].last = done[Max(S)].price
      BY <1>1, <2>1, <2>5, <3>4, Ends
    <3>11. c.high = Max(price) /\ c.low = Min(price)
      <4> DEFINE h == c.high
                 l == c.low
      <4>1. h \in Nat /\ \A t \in rows : High(row(t)) <= h
        BY <2>5
      <4>2. \E t \in rows : h = High(row(t))
        BY <2>5
      <4>3. l \in Nat /\ \A t \in rows : l <= Low(row(t))
        BY <2>5
      <4>4. \E t \in rows : l = Low(row(t))
        BY <2>5
      <4> HIDE DEF h, l, S, price
      <4>5. IsHighest(p, rows, h)
        BY <3>9, <4>1, <4>2 DEF IsHighest
      <4>6. IsLowest(p, rows, l)
        BY <3>9, <4>3, <4>4 DEF IsLowest
      <4>7. LET prices == {done[j].price : j \in Passed(p, span)} IN
            h = Max(prices) /\ l = Min(prices)
        BY <1>1, <2>1, <3>4, <4>5, <4>6, Peaks
      <4>8. QED BY <4>7 DEF h, l, price, S
    <3>12. /\ Totals(p, rows).trades = Cardinality(S)
           /\ Totals(p, rows).volume_base = Total(BaseOf, S)
           /\ Near(Totals(p, rows).weight, Total(PxBaseOf, S), Total(BaseOf, S))
      BY <1>1, <2>1, <2>5, <3>4, TotalsOf
    <3>13. exact = Total(PxBaseOf, S) /\ base = Total(BaseOf, S)
           /\ Total(PxBaseOf, S) \in Int /\ Total(BaseOf, S) \in Int
      <4>1. S \subseteq DOMAIN done
        BY DEF Passed
      <4>2. IsFiniteSet(S)
        BY <1>1, <4>1, PassedFinite DEF IInv
      <4>3. \A j \in S : /\ BaseOf[j] = Base(j) /\ BaseOf[j] \in Int
                         /\ PxBaseOf[j] \in Int
        BY <1>1, <4>1, Columns DEF IInv, Base
      <4> HIDE DEF S
      <4>4. exact = Total(PxBaseOf, S)
        BY <4>1, <4>2, PxBaseTotal
      <4>5. base = Total(BaseOf, S)
        BY <4>2, <4>3, BaseTotal
      <4>6. Total(BaseOf, S) \in Int
        BY <4>2, <4>3, TotalRemove
      <4>7. Total(PxBaseOf, S) \in Int
        BY <4>2, <4>3, TotalRemove
      <4>8. QED BY <4>4, <4>5, <4>6, <4>7
    <3>14. Totals(p, rows).weight \in Int
      <4> DEFINE w == [t \in rows |-> Weight(pools[<<p, t>>])]
      <4>1. \A t \in rows : w[t] \in Int
        <5>1. ASSUME NEW t \in rows PROVE Weight(pools[<<p, t>>]) \in Int
          <6>1. t \in Minutes
            BY <2>5
          <6>2. RowWeight(pools[<<p, t>>])
            BY <1>1, <2>1, <6>1, RowNear
          <6>3. QED BY <6>2 DEF RowWeight
        <5>2. QED BY <5>1
      <4>2. \A t \in rows : w[t] = Weight(pools[<<p, t>>])
        OBVIOUS
      <4> HIDE DEF w
      <4>3. Total(w, rows) \in Int
        BY <2>5, <4>1, TotalRemove
      <4>4. QED BY <2>5, <4>2, <4>3, WeightTotal
    <3> HIDE DEF S, price, exact, base
    <3>15. c.open = done[Min(S)].price /\ c.close = done[Max(S)].price
      BY <2>5, <3>8, <3>10
    <3>16. c.totals.trades = Cardinality(S) /\ c.totals.volume_base = base
      BY <2>5, <3>12, <3>13
    <3>17. 2 * (c.totals.weight - Unit * exact) \in -base..base
      <4>1. c.totals.weight \in Int /\ Near(c.totals.weight, exact, base)
            /\ exact \in Int /\ base \in Int
        BY <2>5, <3>12, <3>13, <3>14
      <4> DEFINE e == 2 * (c.totals.weight - Unit * exact)
      <4>2. e <= base /\ 0 - base <= e
        BY <4>1 DEF Near
      <4>3. e \in Int /\ base \in Int
        BY <4>1, CandlesAssumption
      <4> HIDE DEF e
      <4>4. e \in -base..base
        BY <4>2, <4>3
      <4>5. QED BY <4>4 DEF e
    <3>18. QED BY <3>11, <3>15, <3>16, <3>17
  <2>7. c.start = b
    BY <2>5
  <2> HIDE DEF b
  <2>8. QED BY <2>6, <2>7 DEF p, i, from, legacy
<1>2. IInv => CandlesMatchFacts
  BY <1>1 DEF CandlesMatchFacts
<1>3. QED BY <1>2, Invariance, PTL
-----------------------------------------------------------------------------
(* The candles of a window together. *)
LEMMA CandleTotal ==
  ASSUME NEW S, IsFiniteSet(S), NEW k, NEW f, \A c \in S : f[c] = c.totals[k]
  PROVE  MapThenSumSet(LAMBDA c : c.totals[k], S) = Total(f, S)
<1> DEFINE F(c) == c.totals[k]
<1>1. PICK g : Unrolls(g, f, S)
  BY UnrollsExists
<1>2. \A s \in SUBSET S : s # {} => f[CHOOSE x \in s : TRUE] = F(CHOOSE x \in s : TRUE)
  OBVIOUS
<1> DEFINE D(h) == h = [s \in SUBSET S |->
                    IF s = {} THEN 0
                    ELSE F(CHOOSE x \in s : TRUE) + h[s \ {CHOOSE x \in s : TRUE}]]
           h == CHOOSE u : D(u)
<1>3. D(g)
  <2> HIDE DEF F
  <2>1. QED BY <1>1, <1>2, ChoiceIn DEF Unrolls, Choice
<1>4. MapThenSumSet(LAMBDA c : c.totals[k], S) = h[S] /\ D(h)
  <2>1. MapThenSumSet(LAMBDA c : c.totals[k], S) = h[S]
    BY DEF MapThenSumSet, MapThenFoldSet
  <2> HIDE DEF D
  <2>2. D(h)
    BY <1>3
  <2>3. QED BY <2>1, <2>2
<1> HIDE DEF h
<1>5. Unrolls(h, f, S)
  <2> HIDE DEF F
  <2>1. QED BY <1>2, <1>4, ChoiceIn DEF Unrolls, Choice
<1>6. h[S] = Total(f, S)
  <2> HIDE DEF F
  <2>1. QED BY <1>5, Unrolled
<1>7. QED BY <1>4, <1>6

\* The candles partition the rows of the window by their starts.
LEMMA Partition ==
  ASSUME IInv, NEW p \in Pools, NEW i \in Nat \ {0}, NEW from, NEW legacy
  PROVE  LET cs == PoolCandles(p, i, from, legacy)
             W == InWindow(p, from)
             R(b) == {t \in W : Start(t, i) = b} IN
         /\ IsFiniteSet(cs)
         /\ \A c \in cs : /\ c.totals = Totals(p, R(c.start)) /\ R(c.start) # {}
                          /\ c.close = pools[<<p, Max(R(c.start))>>].last
                          /\ c = Candle(p, R(c.start), c.start, legacy)
         /\ \A t \in W : \E c \in cs : t \in R(c.start)
<1> DEFINE cs == PoolCandles(p, i, from, legacy)
           W == InWindow(p, from)
           R(b) == {t \in W : Start(t, i) = b}
           B == {Start(t, i) : t \in W}
<1>1. IsFiniteSet(W) /\ W \subseteq Int
  BY Window
<1>2. cs = {Candle(p, R(b), b, legacy) : b \in B}
  BY DEF PoolCandles
<1>3. IsFiniteSet(cs)
  <2> DEFINE e == [t \in W |-> Start(t, i)]
             f == [b \in B |-> Candle(p, R(b), b, legacy)]
  <2>1. B = {e[t] : t \in W} /\ cs = {f[b] : b \in B}
    BY <1>2
  <2>2. IsFiniteSet({e[t] : t \in W})
    <3> HIDE DEF e, W
    <3>1. QED BY <1>1, ImageFinite
  <2>3. IsFiniteSet(B)
    BY <2>1, <2>2
  <2>4. IsFiniteSet({f[b] : b \in B})
    <3> HIDE DEF f, B
    <3>1. QED BY <2>3, ImageFinite
  <2>5. QED BY <2>1, <2>4
<1>4. ASSUME NEW b \in B
      PROVE  LET c == Candle(p, R(b), b, legacy) IN
             /\ c.start = b /\ R(b) # {} /\ c.totals = Totals(p, R(b))
             /\ c.close = pools[<<p, Max(R(b))>>].last
  <2>1. R(b) # {} /\ R(b) \subseteq InWindow(p, from)
    OBVIOUS
  <2> HIDE DEF R
  <2>2. QED BY <2>1, CandlePrices
<1>5. ASSUME NEW t \in W PROVE \E c \in cs : t \in R(c.start)
  <2>1. Start(t, i) \in B /\ t \in R(Start(t, i))
    OBVIOUS
  <2> HIDE DEF R, B, cs
  <2>2. QED BY <1>2, <1>4, <2>1
<1> HIDE DEF R, B, cs
<1>6. \A c \in cs : /\ c.totals = Totals(p, R(c.start)) /\ R(c.start) # {}
                    /\ c.close = pools[<<p, Max(R(c.start))>>].last
                    /\ c = Candle(p, R(c.start), c.start, legacy)
  BY <1>2, <1>4
<1>7. QED BY <1>3, <1>5, <1>6 DEF R, cs

\* Asked at the same moment for the same window, GetPoolCandles of any length
\* and GetPoolMetrics agree: on the trades, on both volumes and on the price.
THEOREM EndpointsDoAgree == Spec => []EndpointsAgree
<1>1. ASSUME IInv, NEW q \in Candles
      PROVE  LET cs == Asks(q) m == PoolMetrics(q.pool, q.from) IN
             /\ \A k \in {"trades", "volume_base", "volume_quote"} :
                  MapThenSumSet(LAMBDA c : c.totals[k], cs) = m.totals[k]
             /\ cs # {} => \E c \in cs : /\ \A d \in cs : d.start <= c.start
                                         /\ c.close = m.last_price
  <2> DEFINE p == q.pool
             i == q.length
             from == q.from
             legacy == q.legacy
             cs == PoolCandles(p, i, from, legacy)
             W == InWindow(p, from)
             R(b) == {t \in W : Start(t, i) = b}
             m == PoolMetrics(p, from)
  <2>1. p \in Pools /\ i \in Nat \ {0}
    BY CandlesAssumption DEF Candles
  <2> HIDE DEF p, i, from, legacy
  <2>2. /\ IsFiniteSet(cs)
        /\ \A c \in cs : /\ c.totals = Totals(p, R(c.start)) /\ R(c.start) # {}
                         /\ c.close = pools[<<p, Max(R(c.start))>>].last
                         /\ c = Candle(p, R(c.start), c.start, legacy)
        /\ \A t \in W : \E c \in cs : t \in R(c.start)
    BY <1>1, <2>1, Partition
  <2>3. /\ IsFiniteSet(W) /\ W \subseteq Int
        /\ \A t \in W : t \in Minutes
    BY <1>1, <2>1, Window DEF InWindow
  <2>4. /\ m.totals = Totals(p, W)
        /\ W # {} => m.last_price = pools[<<p, Max(W)>>].last
    BY DEF PoolMetrics, LastRow
  <2> HIDE DEF cs, W, m
  <2>5. \A c \in cs : IsFiniteSet(R(c.start)) /\ R(c.start) \subseteq W
    BY <2>3, FS_Subset
  <2>6. ASSUME NEW k \in {"trades", "volume_base", "volume_quote"}
        PROVE  MapThenSumSet(LAMBDA c : c.totals[k], cs) = m.totals[k]
    <3> DEFINE f == [t \in W |-> pools[<<p, t>>][k]]
               e == [c \in cs |-> c.totals[k]]
               P == [c \in cs |-> R(c.start)]
    <3>1. \A S : Totals(p, S)[k] = Sum(p, S, k)
      BY DEF Totals
    <3>2. \A t \in W : f[t] \in Int
      <4>1. \A t \in W : pools[<<p, t>>] \in PoolRow
        BY <1>1, <2>1, <2>3 DEF IInv, RowInv
      <4>2. QED BY <4>1 DEF PoolRow
    <3>3. ASSUME NEW c \in cs PROVE e[c] = Total(f, P[c])
      <4> DEFINE S == R(c.start)
      <4>1. IsFiniteSet(S) /\ \A t \in S : f[t] = pools[<<p, t>>][k]
        BY <2>5
      <4>2. e[c] = Sum(p, S, k)
        BY <2>2, <3>1
      <4>3. P[c] = S
        OBVIOUS
      <4> HIDE DEF S, f, e, P
      <4>4. Sum(p, S, k) = Total(f, S)
        BY <4>1, SumTotal
      <4>5. QED BY <4>2, <4>3, <4>4
    <3>4. \A c, d \in cs : c # d => P[c] \cap P[d] = {}
      <4>1. \A c, d \in cs : c # d => c.start # d.start
        <5> DEFINE K(b) == Candle(p, R(b), b, legacy)
        <5>1. \A c \in cs : c = K(c.start)
          BY <2>2
        <5> HIDE DEF K
        <5>2. QED BY <5>1
      <4>2. QED BY <4>1
    <3>5. \A t : t \in W <=> \E c \in cs : t \in P[c]
      BY <2>2
    <3>6. \A c \in cs : IsFiniteSet(P[c]) /\ P[c] \subseteq W
      BY <2>5
    <3>7. \A c \in cs : e[c] = c.totals[k]
      OBVIOUS
    <3>8. \A t \in W : f[t] = pools[<<p, t>>][k]
      OBVIOUS
    <3> HIDE DEF f, e, P
    <3>9. Total(e, cs) = Total(f, W)
      <4>1. \A c \in cs : IsFiniteSet(P[c])
        BY <3>6
      <4>2. \A c \in cs : \A t \in P[c] : f[t] \in Int
        BY <3>2, <3>6
      <4>3. QED BY <2>2, <3>3, <3>4, <3>5, <4>1, <4>2, TotalParts
    <3>10. MapThenSumSet(LAMBDA c : c.totals[k], cs) = Total(e, cs)
      BY <2>2, <3>7, CandleTotal
    <3>11. m.totals[k] = Total(f, W)
      <4>1. Sum(p, W, k) = Total(f, W)
        <5>1. IsFiniteSet(W)
          BY <2>3
        <5>2. QED BY <3>8, <5>1, SumTotal
      <4>2. QED BY <2>4, <3>1, <4>1
    <3>12. QED BY <3>9, <3>10, <3>11
  <2>7. ASSUME cs # {}
        PROVE  \E c \in cs : (\A d \in cs : d.start <= c.start) /\ c.close = m.last_price
    <3> DEFINE z == Max(W)
    <3>1. W # {}
      BY <2>2, <2>7
    <3>2. z \in W /\ \A t \in W : t <= z
      BY <2>3, <3>1, MaxOf
    <3>3. PICK c \in cs : z \in R(c.start)
      BY <2>2, <3>2
    <3>4. c.start = Start(z, i)
      BY <3>3
    <3>5. Max(R(c.start)) = z
      <4> DEFINE S == R(c.start)
      <4>1. S \subseteq Int /\ z \in S /\ \A t \in S : t <= z
        BY <2>3, <3>2, <3>3
      <4> HIDE DEF S, z
      <4>2. QED BY <4>1, MaxIs DEF S
    <3>6. ASSUME NEW d \in cs PROVE d.start <= c.start
      <4>1. PICK t \in R(d.start) : TRUE
        BY <2>2
      <4>2. t \in Int /\ z \in Int /\ t <= z /\ d.start = Start(t, i)
        BY <2>3, <3>2, <4>1
      <4>3. QED BY <2>1, <3>4, <4>2, StartMonotone
    <3>7. c.close = m.last_price
      BY <2>2, <2>4, <3>1, <3>5
    <3>8. QED BY <3>6, <3>7
  <2>8. QED BY <2>6, <2>7 DEF cs, m, p, i, from, legacy, Asks
<1>2. IInv => EndpointsAgree
  BY <1>1 DEF EndpointsAgree
<1>3. QED BY <1>2, Invariance, PTL
-----------------------------------------------------------------------------
(* A BalanceManager's volume. *)
LEMMA BmRow ==
  ASSUME IInv, NEW m \in BMs, NEW p \in Pools, NEW t \in Minutes
  PROVE  LET a == bms[<<m, p, t>>]
             made == MakerFills(m, p, {t}) took == TakerFills(m, p, {t}) IN
         /\ a.volume_quote = Total(QuoteOf, made) + Total(QuoteOf, took)
         /\ IsFiniteSet(made) /\ IsFiniteSet(took)
         /\ made \subseteq DOMAIN done /\ took \subseteq DOMAIN done
         /\ a.trades > 0 <=> made # {} \/ took # {}
<1> DEFINE a == bms[<<m, p, t>>]
           made == MakerFills(m, p, {t})
           took == TakerFills(m, p, {t})
<1>1. BmSums(a, made, took) /\ Passing
  BY DEF IInv
<1>2. made \subseteq DOMAIN done /\ took \subseteq DOMAIN done
  BY DEF MakerFills, TakerFills, Passed
<1> HIDE DEF made, took, a
<1>3. IsFiniteSet(made) /\ Cardinality(made) \in Nat
  BY <1>1, <1>2, PassedFinite
<1>4. IsFiniteSet(took) /\ Cardinality(took) \in Nat
  BY <1>1, <1>2, PassedFinite
<1>5. (Cardinality(made) = 0 <=> made = {}) /\ (Cardinality(took) = 0 <=> took = {})
  BY <1>3, <1>4, FS_EmptySet
<1>6. a.trades = Cardinality(made) + Cardinality(took)
  BY <1>1 DEF BmSums
<1>7. a.trades > 0 <=> made # {} \/ took # {}
  BY <1>3, <1>4, <1>5, <1>6
<1>8. a.volume_quote = Total(QuoteOf, made) + Total(QuoteOf, took)
  BY <1>1 DEF BmSums
<1>9. QED BY <1>2, <1>3, <1>4, <1>7, <1>8 DEF made, took, a

LEMMA BmRowsFinite ==
  ASSUME IInv, NEW m \in BMs, NEW p \in Pools, NEW from
  PROVE  IsFiniteSet(BmRows(m, p, from)) /\ BmRows(m, p, from) \subseteq Minutes
<1> DEFINE minute == [j \in DOMAIN done |-> done[j].minute]
           D == {minute[j] : j \in DOMAIN done}
<1>1. IsFiniteSet(DOMAIN done)
  BY PassedFinite DEF IInv
<1>2. IsFiniteSet(D)
  BY <1>1, ImageFinite
<1>3. ASSUME NEW t \in BmRows(m, p, from) PROVE t \in D
  <2>1. t \in Minutes /\ bms[<<m, p, t>>].trades > 0
    BY DEF BmRows
  <2>2. MakerFills(m, p, {t}) # {} \/ TakerFills(m, p, {t}) # {}
    BY <2>1, BmRow
  <2>3. PICK j \in DOMAIN done : done[j].minute = t
    BY <2>2 DEF MakerFills, TakerFills, Passed
  <2>4. QED BY <2>3
<1>4. IsFiniteSet(BmRows(m, p, from))
  <2> HIDE DEF D
  <2>1. BmRows(m, p, from) \subseteq D
    BY <1>3
  <2>2. QED BY <1>2, <2>1, FS_Subset
<1>5. QED BY <1>4 DEF BmRows

LEMMA BmQuotesTotal ==
  ASSUME NEW m, NEW p, NEW from, IsFiniteSet(BmRows(m, p, from)), NEW f,
         \A t \in BmRows(m, p, from) : f[t] = bms[<<m, p, t>>].volume_quote
  PROVE  BmQuotes(m, p, from) = Total(f, BmRows(m, p, from))
<1> DEFINE F(t) == bms[<<m, p, t>>].volume_quote
           S == BmRows(m, p, from)
<1>1. PICK g : Unrolls(g, f, S)
  BY UnrollsExists
<1>2. \A s \in SUBSET S : s # {} => f[CHOOSE x \in s : TRUE] = F(CHOOSE x \in s : TRUE)
  OBVIOUS
<1> DEFINE D(h) == h = [s \in SUBSET S |->
                    IF s = {} THEN 0
                    ELSE F(CHOOSE x \in s : TRUE) + h[s \ {CHOOSE x \in s : TRUE}]]
           h == CHOOSE u : D(u)
<1>3. D(g)
  <2> HIDE DEF F, S
  <2>1. QED BY <1>1, <1>2, ChoiceIn DEF Unrolls, Choice
<1>4. BmQuotes(m, p, from) = h[S] /\ D(h)
  <2>1. BmQuotes(m, p, from) = h[S]
    BY DEF MapThenSumSet, MapThenFoldSet, BmQuotes
  <2> HIDE DEF D
  <2>2. D(h)
    BY <1>3
  <2>3. QED BY <2>1, <2>2
<1> HIDE DEF h
<1>5. Unrolls(h, f, S)
  <2> HIDE DEF F, S
  <2>1. QED BY <1>2, <1>4, ChoiceIn DEF Unrolls, Choice
<1>6. h[S] = Total(f, S)
  <2> HIDE DEF F, S
  <2>1. QED BY <1>5, Unrolled DEF S
<1>7. QED BY <1>4, <1>6

\* The sums over pools.
LEMMA AnswerTotal ==
  ASSUME NEW m, NEW from, NEW S, IsFiniteSet(S), NEW f,
         \A p \in S : f[p] = BmQuotes(m, p, from)
  PROVE  BmVolume(m, from, S).total = Total(f, S)
<1> DEFINE F(p) == BmQuotes(m, p, from)
<1>1. PICK g : Unrolls(g, f, S)
  BY UnrollsExists
<1>2. \A s \in SUBSET S : s # {} => f[CHOOSE x \in s : TRUE] = F(CHOOSE x \in s : TRUE)
  OBVIOUS
<1> DEFINE D(h) == h = [s \in SUBSET S |->
                    IF s = {} THEN 0
                    ELSE F(CHOOSE x \in s : TRUE) + h[s \ {CHOOSE x \in s : TRUE}]]
           h == CHOOSE u : D(u)
<1>3. D(g)
  <2> HIDE DEF F
  <2>1. QED BY <1>1, <1>2, ChoiceIn DEF Unrolls, Choice
<1>4. BmVolume(m, from, S).total = h[S] /\ D(h)
  <2>1. BmVolume(m, from, S).total = h[S]
    BY DEF MapThenSumSet, MapThenFoldSet, BmVolume
  <2> HIDE DEF D
  <2>2. D(h)
    BY <1>3
  <2>3. QED BY <2>1, <2>2
<1> HIDE DEF h
<1>5. Unrolls(h, f, S)
  <2> HIDE DEF F
  <2>1. QED BY <1>2, <1>4, ChoiceIn DEF Unrolls, Choice
<1>6. h[S] = Total(f, S)
  <2> HIDE DEF F
  <2>1. QED BY <1>5, Unrolled
<1>7. QED BY <1>4, <1>6

LEMMA FactTotal ==
  ASSUME NEW m, NEW window, NEW S, IsFiniteSet(S), NEW f,
         \A p \in S : f[p] = BmFact(m, p, window)
  PROVE  MapThenSumSet(LAMBDA p : BmFact(m, p, window), S) = Total(f, S)
<1> DEFINE F(p) == BmFact(m, p, window)
<1>1. PICK g : Unrolls(g, f, S)
  BY UnrollsExists
<1>2. \A s \in SUBSET S : s # {} => f[CHOOSE x \in s : TRUE] = F(CHOOSE x \in s : TRUE)
  OBVIOUS
<1> DEFINE D(h) == h = [s \in SUBSET S |->
                    IF s = {} THEN 0
                    ELSE F(CHOOSE x \in s : TRUE) + h[s \ {CHOOSE x \in s : TRUE}]]
           h == CHOOSE u : D(u)
<1>3. D(g)
  <2> HIDE DEF F
  <2>1. QED BY <1>1, <1>2, ChoiceIn DEF Unrolls, Choice
<1>4. MapThenSumSet(LAMBDA p : BmFact(m, p, window), S) = h[S] /\ D(h)
  <2>1. MapThenSumSet(LAMBDA p : BmFact(m, p, window), S) = h[S]
    BY DEF MapThenSumSet, MapThenFoldSet
  <2> HIDE DEF D
  <2>2. D(h)
    BY <1>3
  <2>3. QED BY <2>1, <2>2
<1> HIDE DEF h
<1>5. Unrolls(h, f, S)
  <2> HIDE DEF F
  <2>1. QED BY <1>2, <1>4, ChoiceIn DEF Unrolls, Choice
<1>6. h[S] = Total(f, S)
  <2> HIDE DEF F
  <2>1. QED BY <1>5, Unrolled
<1>7. QED BY <1>4, <1>6

\* The column of one side sums up to that side's fills in the window.
LEMMA MadeTotal ==
  ASSUME IInv, NEW m \in BMs, NEW p \in Pools, NEW from
  PROVE  LET R == BmRows(m, p, from)
             M == {t \in Minutes : t >= from} IN
         Total([t \in R |-> Total(QuoteOf, MakerFills(m, p, {t}))], R)
           = Total(QuoteOf, MakerFills(m, p, M))
<1> DEFINE R == BmRows(m, p, from)
           M == {t \in Minutes : t >= from}
           P == [t \in R |-> MakerFills(m, p, {t})]
           e == [t \in R |-> Total(QuoteOf, MakerFills(m, p, {t}))]
           V == MakerFills(m, p, M)
<1>1. Passing /\ IsFiniteSet(R) /\ R \subseteq Minutes
  BY BmRowsFinite DEF IInv
<1>2. \A j \in DOMAIN done : QuoteOf[j] \in Int
  BY <1>1, Columns
<1>3. \A t \in R : IsFiniteSet(MakerFills(m, p, {t})) /\ MakerFills(m, p, {t}) \subseteq DOMAIN done
  BY <1>1, BmRow
<1>4. ASSUME NEW j \in V PROVE \E t \in R : j \in P[t]
  <2>1. done[j].minute \in M /\ j \in MakerFills(m, p, {done[j].minute})
    BY DEF MakerFills, Passed
  <2>2. bms[<<m, p, done[j].minute>>].trades > 0
    BY <2>1, BmRow
  <2>3. done[j].minute \in R
    BY <2>1, <2>2 DEF BmRows
  <2>4. QED BY <2>1, <2>3
<1>5. ASSUME NEW t \in R, NEW j \in P[t] PROVE j \in V
  <2>1. t \in M
    BY DEF BmRows
  <2>2. QED BY <2>1 DEF MakerFills, Passed
<1>6. \A t, u \in R : t # u => P[t] \cap P[u] = {}
  BY DEF MakerFills, Passed
<1>7. \A t \in R : e[t] = Total(QuoteOf, P[t])
  OBVIOUS
<1>8. \A t \in R : IsFiniteSet(P[t])
  BY <1>3
<1>9. \A t \in R : \A x \in P[t] : QuoteOf[x] \in Int
  BY <1>2, <1>3
<1> HIDE DEF R, M, P, e, V
<1>10. \A j : j \in V <=> \E t \in R : j \in P[t]
  BY <1>4, <1>5
<1>11. Total(e, R) = Total(QuoteOf, V)
  BY <1>1, <1>6, <1>7, <1>8, <1>9, <1>10, TotalParts
<1>12. QED BY <1>11 DEF R, M, e, V

LEMMA TookTotal ==
  ASSUME IInv, NEW m \in BMs, NEW p \in Pools, NEW from
  PROVE  LET R == BmRows(m, p, from)
             M == {t \in Minutes : t >= from} IN
         Total([t \in R |-> Total(QuoteOf, TakerFills(m, p, {t}))], R)
           = Total(QuoteOf, TakerFills(m, p, M))
<1> DEFINE R == BmRows(m, p, from)
           M == {t \in Minutes : t >= from}
           P == [t \in R |-> TakerFills(m, p, {t})]
           e == [t \in R |-> Total(QuoteOf, TakerFills(m, p, {t}))]
           V == TakerFills(m, p, M)
<1>1. Passing /\ IsFiniteSet(R) /\ R \subseteq Minutes
  BY BmRowsFinite DEF IInv
<1>2. \A j \in DOMAIN done : QuoteOf[j] \in Int
  BY <1>1, Columns
<1>3. \A t \in R : IsFiniteSet(TakerFills(m, p, {t})) /\ TakerFills(m, p, {t}) \subseteq DOMAIN done
  BY <1>1, BmRow
<1>4. ASSUME NEW j \in V PROVE \E t \in R : j \in P[t]
  <2>1. done[j].minute \in M /\ j \in TakerFills(m, p, {done[j].minute})
    BY DEF TakerFills, Passed
  <2>2. bms[<<m, p, done[j].minute>>].trades > 0
    BY <2>1, BmRow
  <2>3. done[j].minute \in R
    BY <2>1, <2>2 DEF BmRows
  <2>4. QED BY <2>1, <2>3
<1>5. ASSUME NEW t \in R, NEW j \in P[t] PROVE j \in V
  <2>1. t \in M
    BY DEF BmRows
  <2>2. QED BY <2>1 DEF TakerFills, Passed
<1>6. \A t, u \in R : t # u => P[t] \cap P[u] = {}
  BY DEF TakerFills, Passed
<1>7. \A t \in R : e[t] = Total(QuoteOf, P[t])
  OBVIOUS
<1>8. \A t \in R : IsFiniteSet(P[t])
  BY <1>3
<1>9. \A t \in R : \A x \in P[t] : QuoteOf[x] \in Int
  BY <1>2, <1>3
<1> HIDE DEF R, M, P, e, V
<1>10. \A j : j \in V <=> \E t \in R : j \in P[t]
  BY <1>4, <1>5
<1>11. Total(e, R) = Total(QuoteOf, V)
  BY <1>1, <1>6, <1>7, <1>8, <1>9, <1>10, TotalParts
<1>12. QED BY <1>11 DEF R, M, e, V

\* What is summed for a pool is the fact, and nothing where there are no rows.
LEMMA PoolVolume ==
  ASSUME IInv, NEW m \in BMs, NEW p \in Pools, NEW from
  PROVE  /\ BmQuotes(m, p, from) = BmFact(m, p, {t \in Minutes : t >= from})
         /\ BmQuotes(m, p, from) \in Nat
         /\ BmRows(m, p, from) = {} => BmQuotes(m, p, from) = 0
<1> DEFINE R == BmRows(m, p, from)
           M == {t \in Minutes : t >= from}
           made == [t \in R |-> Total(QuoteOf, MakerFills(m, p, {t}))]
           took == [t \in R |-> Total(QuoteOf, TakerFills(m, p, {t}))]
           quote == [t \in R |-> bms[<<m, p, t>>].volume_quote]
<1>1. Passing /\ IsFiniteSet(R) /\ R \subseteq Minutes
  BY BmRowsFinite DEF IInv
<1>2. \A j \in DOMAIN done : QuoteOf[j] \in Nat
  BY <1>1, Columns
<1>3. ASSUME NEW t \in R
      PROVE  made[t] \in Nat /\ took[t] \in Nat /\ quote[t] = made[t] + took[t]
  <2>1. t \in Minutes
    BY <1>1
  <2>2. /\ IsFiniteSet(MakerFills(m, p, {t})) /\ IsFiniteSet(TakerFills(m, p, {t}))
        /\ MakerFills(m, p, {t}) \subseteq DOMAIN done
        /\ TakerFills(m, p, {t}) \subseteq DOMAIN done
        /\ bms[<<m, p, t>>].volume_quote = Total(QuoteOf, MakerFills(m, p, {t}))
                                           + Total(QuoteOf, TakerFills(m, p, {t}))
    BY <2>1, BmRow
  <2>3. \A j \in MakerFills(m, p, {t}) : QuoteOf[j] \in Nat
    BY <1>2, <2>2
  <2>4. Total(QuoteOf, MakerFills(m, p, {t})) \in Nat
    BY <2>2, <2>3, TotalNat
  <2>5. \A j \in TakerFills(m, p, {t}) : QuoteOf[j] \in Nat
    BY <1>2, <2>2
  <2>6. Total(QuoteOf, TakerFills(m, p, {t})) \in Nat
    BY <2>2, <2>5, TotalNat
  <2>7. QED BY <2>2, <2>4, <2>6
<1>4. \A t \in R : quote[t] = bms[<<m, p, t>>].volume_quote
  OBVIOUS
<1>5. /\ Total(made, R) = Total(QuoteOf, MakerFills(m, p, M))
      /\ Total(took, R) = Total(QuoteOf, TakerFills(m, p, M))
  <2>1. Total(made, R) = Total(QuoteOf, MakerFills(m, p, M))
    BY MadeTotal
  <2>2. Total(took, R) = Total(QuoteOf, TakerFills(m, p, M))
    BY TookTotal
  <2>3. QED BY <2>1, <2>2
<1>6. /\ IsFiniteSet(MakerFills(m, p, M)) /\ MakerFills(m, p, M) \subseteq DOMAIN done
      /\ IsFiniteSet(TakerFills(m, p, M)) /\ TakerFills(m, p, M) \subseteq DOMAIN done
  <2>1. MakerFills(m, p, M) \subseteq DOMAIN done /\ TakerFills(m, p, M) \subseteq DOMAIN done
    BY DEF MakerFills, TakerFills, Passed
  <2> HIDE DEF M
  <2>2. QED BY <1>1, <2>1, PassedFinite
<1> HIDE DEF M, made, took, quote
<1>7. BmFact(m, p, M) = Total(QuoteOf, MakerFills(m, p, M))
                        + Total(QuoteOf, TakerFills(m, p, M))
  <2>1. \A j \in DOMAIN done : QuoteOf[j] = Quote(j)
    BY DEF QuoteOf, Quote
  <2> DEFINE S == MakerFills(m, p, M)
             T == TakerFills(m, p, M)
  <2>2. MapThenSumSet(Quote, S) = Total(QuoteOf, S)
    <3>1. IsFiniteSet(S) /\ \A j \in S : QuoteOf[j] = Quote(j)
      BY <1>6, <2>1
    <3> HIDE DEF S
    <3>2. QED BY <3>1, QuoteTotal
  <2>3. MapThenSumSet(Quote, T) = Total(QuoteOf, T)
    <3>1. IsFiniteSet(T) /\ \A j \in T : QuoteOf[j] = Quote(j)
      BY <1>6, <2>1
    <3> HIDE DEF T
    <3>2. QED BY <3>1, QuoteTotal
  <2>4. QED BY <2>2, <2>3 DEF BmFact
<1>8. BmQuotes(m, p, from) = Total(quote, R)
  BY <1>1, <1>4, BmQuotesTotal
<1> HIDE DEF R
<1>9. Total(quote, R) = Total(made, R) + Total(took, R)
  <2>1. \A t \in R : made[t] \in Int /\ took[t] \in Int
    BY <1>3
  <2>2. \A t \in R : quote[t] = made[t] + took[t]
    BY <1>3
  <2>3. QED BY <1>1, <2>1, <2>2, TotalPlus
<1>10. Total(quote, R) \in Nat
  <2>1. \A t \in R : quote[t] \in Nat
    <3>1. \A t \in R : made[t] + took[t] \in Nat
      BY <1>3
    <3>2. QED BY <1>3, <3>1
  <2>2. QED BY <1>1, <2>1, TotalNat
<1>11. R = {} => Total(quote, R) = 0
  BY TotalEmpty
<1>12. QED BY <1>5, <1>7, <1>8, <1>9, <1>10, <1>11 DEF R, M

\* GetBMVolume credits the manager with what it made and took in each pool of
\* the window; an answer cut short adds up to less, never to more.
THEOREM BmVolumesMatch == Spec => []BmVolumeMatchesFacts
<1>1. ASSUME IInv, NEW m \in BMs, NEW from \in Minutes, NEW filter \in SUBSET Pools,
             NEW got \in SUBSET Asked(m, from, filter)
      PROVE  LET window == {t \in Minutes : t >= from}
                 facts == MapThenSumSet(LAMBDA p : BmFact(m, p, window), filter)
                 answer == BmVolume(m, from, got) IN
             /\ \A p \in got : answer.breakdown[p] = BmFact(m, p, window)
             /\ answer.total <= facts
             /\ got = Asked(m, from, filter) => answer.total = facts
  <2> DEFINE window == {t \in Minutes : t >= from}
             facts == MapThenSumSet(LAMBDA p : BmFact(m, p, window), filter)
             answer == BmVolume(m, from, got)
             f == [p \in filter |-> BmFact(m, p, window)]
             rest == filter \ got
  <2>1. got \subseteq filter
    BY DEF Asked
  <2>2. \A p \in filter :
          /\ BmQuotes(m, p, from) = BmFact(m, p, window)
          /\ BmFact(m, p, window) \in Nat
          /\ BmRows(m, p, from) = {} => BmFact(m, p, window) = 0
    <3>1. ASSUME NEW p \in filter
          PROVE /\ BmQuotes(m, p, from) = BmFact(m, p, window)
                /\ BmQuotes(m, p, from) \in Nat
                /\ BmRows(m, p, from) = {} => BmQuotes(m, p, from) = 0
      <4>1. p \in Pools
        OBVIOUS
      <4>2. QED BY <1>1, <4>1, PoolVolume
    <3> HIDE DEF window
    <3>2. QED BY <3>1
  <2>3. \A p \in got : answer.breakdown[p] = BmFact(m, p, window)
    <3>1. \A p \in got : answer.breakdown[p] = BmQuotes(m, p, from)
      BY DEF BmVolume
    <3> HIDE DEF window, answer
    <3>2. QED BY <2>1, <2>2, <3>1
  <2>4. IsFiniteSet(filter) /\ IsFiniteSet(got) /\ IsFiniteSet(rest)
    BY <2>1, CandlesAssumption, FS_Subset
  <2> HIDE DEF window
  <2>5. \A p \in filter : f[p] = BmFact(m, p, window)
    OBVIOUS
  <2> HIDE DEF f
  <2>6. facts = Total(f, filter)
    BY <2>4, <2>5, FactTotal
  <2>7. answer.total = Total(f, got)
    <3>1. \A p \in got : f[p] = BmQuotes(m, p, from)
      BY <2>1, <2>2, <2>5
    <3>2. QED BY <2>4, <3>1, AnswerTotal
  <2> HIDE DEF facts, answer
  <2>8. Total(f, filter) = Total(f, got) + Total(f, rest)
    <3>1. got \cup rest = filter /\ got \cap rest = {}
      BY <2>1
    <3>2. \A p \in got \cup rest : f[p] \in Int
      BY <2>2, <2>5, <3>1
    <3> HIDE DEF rest
    <3>3. Total(f, got \cup rest) = Total(f, got) + Total(f, rest)
      BY <2>4, <3>1, <3>2, TotalUnion
    <3>4. QED BY <3>1, <3>3
  <2>9. Total(f, got) \in Nat
    <3>1. \A p \in got : f[p] \in Nat
      BY <2>1, <2>2, <2>5
    <3>2. QED BY <2>4, <3>1, TotalNat
  <2>10. Total(f, rest) \in Nat
    <3>1. \A p \in rest : f[p] \in Nat
      BY <2>2, <2>5
    <3> HIDE DEF rest
    <3>2. QED BY <2>4, <3>1, TotalNat
  <2>11. ASSUME got = Asked(m, from, filter) PROVE Total(f, rest) = 0
    <3>1. \A p \in rest : BmRows(m, p, from) = {}
      BY <2>11 DEF Asked
    <3>2. \A p \in rest : f[p] = 0
      BY <2>2, <2>5, <3>1
    <3> HIDE DEF rest
    <3>3. QED BY <2>4, <3>2, TotalZero
  <2> HIDE DEF rest
  <2>12. answer.total <= facts
    BY <2>6, <2>7, <2>8, <2>9, <2>10
  <2>13. got = Asked(m, from, filter) => answer.total = facts
    BY <2>6, <2>7, <2>8, <2>9, <2>11
  <2>14. QED BY <2>3, <2>12, <2>13 DEF window, facts, answer
<1>2. IInv => BmVolumeMatchesFacts
  BY <1>1 DEF BmVolumeMatchesFacts
<1>3. QED BY <1>2, Invariance, PTL
=============================================================================
