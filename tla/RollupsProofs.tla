--------------------------- MODULE RollupsProofs ---------------------------
(* What holds of the rows after any number of fills, whatever their        *)
(* prices, sizes, pools and managers.                                      *)
EXTENDS Rollups, FiniteSetTheorems, WellFoundedInduction, TLAPS
-----------------------------------------------------------------------------
(* Sums over finite sets.  MapThenSumSet takes away an element it chooses  *)
(* again and again; here is that for a function f, and that any element    *)
(* will do.                                                                *)
Choice(s) == CHOOSE x \in s : TRUE

Unrolls(g, f, S) ==
  g = [s \in SUBSET S |->
         IF s = {} THEN 0 ELSE f[Choice(s)] + g[s \ {Choice(s)}]]

Total(f, S) == (CHOOSE g : Unrolls(g, f, S))[S]

LEMMA Induction ==
  ASSUME NEW A, 0 \in A, \A n \in Nat : n \in A => n + 1 \in A
  PROVE  Nat \subseteq A
<1>1. SUFFICES ASSUME Nat \ A # {} PROVE FALSE
  OBVIOUS
<1>2. PICK x \in Nat \ A : \A y \in Nat \ A : ~(<<y, x>> \in OpToRel(<, Nat))
  BY <1>1, WFMin, NatLessThanWellFounded
<1>3. \A y \in Nat \ A : ~(y < x)
  BY <1>2 DEF OpToRel
<1>4. x - 1 \in Nat /\ x - 1 < x /\ (x - 1) + 1 = x
  <2>1. x \in Nat /\ x # 0
    BY <1>2
  <2>2. QED BY <2>1
<1>5. x - 1 \in A
  BY <1>3, <1>4
<1>6. QED BY <1>2, <1>4, <1>5

LEMMA ChoiceIn ==
  ASSUME NEW s, s # {}
  PROVE  Choice(s) \in s
BY DEF Choice

\* One element less.
LEMMA Smaller ==
  ASSUME NEW S, IsFiniteSet(S), NEW x \in S
  PROVE  /\ IsFiniteSet(S \ {x}) /\ Cardinality(S) \in Nat \ {0}
         /\ Cardinality(S \ {x}) = Cardinality(S) - 1
<1>1. IsFiniteSet(S \ {x}) /\ Cardinality(S \ {x}) = Cardinality(S) - 1
  BY FS_RemoveElement
<1>2. Cardinality(S) \in Nat /\ Cardinality(S) # 0
  BY FS_CardinalityType, FS_EmptySet
<1>3. QED BY <1>1, <1>2

\* The recursion defines a function ...
LEMMA UnrollsExists ==
  ASSUME NEW f, NEW S, IsFiniteSet(S)
  PROVE  \E g : Unrolls(g, f, S)
<1> DEFINE Upto(n) == {s \in SUBSET S : Cardinality(s) <= n}
           Next1(g, s) == IF s = {} THEN 0 ELSE f[Choice(s)] + g[s \ {Choice(s)}]
           Good(g, n) == \A s \in Upto(n) : g[s] = Next1(g, s)
           A == {n \in Nat : \E g : Good(g, n)}
<1>1. \A s \in SUBSET S : IsFiniteSet(s) /\ Cardinality(s) \in Nat
  BY FS_Subset, FS_CardinalityType
<1>2. 0 \in A
  <2> DEFINE g == [s \in SUBSET S |-> 0]
  <2>1. \A s \in Upto(0) : s = {}
    BY <1>1, FS_EmptySet
  <2>2. Good(g, 0)
    BY <2>1
  <2>3. QED BY <2>2
<1>3. ASSUME NEW n \in Nat, n \in A PROVE n + 1 \in A
  <2>1. PICK g : Good(g, n)
    BY <1>3
  <2> DEFINE h == [s \in SUBSET S |-> IF Cardinality(s) <= n THEN g[s] ELSE Next1(g, s)]
  <2>2. ASSUME NEW s \in Upto(n + 1) PROVE h[s] = Next1(h, s)
    <3>1. CASE s = {}
      <4>1. Cardinality(s) = 0
        BY <3>1, FS_EmptySet
      <4>2. s \in Upto(n) /\ h[s] = g[s]
        BY <4>1
      <4>3. QED BY <2>1, <3>1, <4>2
    <3>2. CASE s # {}
      <4> DEFINE t == s \ {Choice(s)}
      <4>1. t \in SUBSET S /\ Cardinality(t) = Cardinality(s) - 1
        BY <1>1, <3>2, ChoiceIn, Smaller
      <4>2. Cardinality(t) <= n
        BY <1>1, <4>1
      <4>3. h[t] = g[t]
        BY <4>1, <4>2
      <4>4. h[s] = Next1(g, s)
        BY <2>1, <1>1
      <4>5. QED BY <3>2, <4>3, <4>4
    <3>3. QED BY <3>1, <3>2
  <2>3. Good(h, n + 1)
    BY <2>2
  <2> HIDE DEF Good, h
  <2>4. \E u : Good(u, n + 1)
    BY <2>3
  <2>5. QED BY <2>4
<1>4. Cardinality(S) \in A
  <2> HIDE DEF A
  <2>1. Nat \subseteq A
    BY <1>2, <1>3, Induction
  <2>2. QED BY <1>1, <2>1
<1>5. PICK g : Good(g, Cardinality(S))
  BY <1>4
<1>6. Upto(Cardinality(S)) = SUBSET S
  BY FS_Subset
<1> DEFINE h == [s \in SUBSET S |-> g[s]]
<1>7. ASSUME NEW s \in SUBSET S PROVE h[s] = Next1(h, s)
  <2>1. g[s] = Next1(g, s)
    BY <1>5, <1>6
  <2>2. CASE s = {}
    BY <2>1, <2>2
  <2>3. CASE s # {}
    <3>1. s \ {Choice(s)} \in SUBSET S
      OBVIOUS
    <3>2. QED BY <2>1, <2>3, <3>1
  <2>4. QED BY <2>2, <2>3
<1>8. h = [s \in SUBSET S |-> Next1(h, s)]
  BY <1>7
<1>9. Unrolls(h, f, S)
  BY <1>8 DEF Unrolls
<1>10. QED BY <1>9

\* ... and only one; on a smaller set, and for a function with the same
\* values, the same.
LEMMA UnrollsUnique ==
  ASSUME NEW f, NEW e, NEW S, IsFiniteSet(S), NEW T \in SUBSET S,
         \A x \in T : f[x] = e[x],
         NEW g, NEW h, Unrolls(g, f, S), Unrolls(h, e, T)
  PROVE  g[T] = h[T]
<1> DEFINE A == {n \in Nat : \A s \in SUBSET T : Cardinality(s) <= n => g[s] = h[s]}
<1>1. \A s \in SUBSET T : IsFiniteSet(s) /\ Cardinality(s) \in Nat
  BY FS_Subset, FS_CardinalityType
<1>2. ASSUME NEW s \in SUBSET T, s # {}
      PROVE  /\ g[s] = f[Choice(s)] + g[s \ {Choice(s)}]
             /\ h[s] = e[Choice(s)] + h[s \ {Choice(s)}]
             /\ f[Choice(s)] = e[Choice(s)]
  <2>1. s \in SUBSET S /\ Choice(s) \in T
    BY <1>2, ChoiceIn
  <2>2. QED BY <1>2, <2>1 DEF Unrolls
<1>3. g[{}] = 0 /\ h[{}] = 0
  BY DEF Unrolls
<1>4. 0 \in A
  <2>1. \A s \in SUBSET T : Cardinality(s) <= 0 => s = {}
    BY <1>1, FS_EmptySet
  <2>2. QED BY <1>3, <2>1
<1>5. ASSUME NEW n \in Nat, n \in A PROVE n + 1 \in A
  <2>1. ASSUME NEW s \in SUBSET T, Cardinality(s) <= n + 1 PROVE g[s] = h[s]
    <3>1. CASE s = {}
      BY <1>3, <3>1
    <3>2. CASE s # {}
      <4>1. /\ s \ {Choice(s)} \in SUBSET T
            /\ Cardinality(s \ {Choice(s)}) = Cardinality(s) - 1
        BY <1>1, <3>2, ChoiceIn, Smaller
      <4>2. g[s \ {Choice(s)}] = h[s \ {Choice(s)}]
        BY <1>1, <1>5, <2>1, <4>1
      <4>3. QED BY <1>2, <3>2, <4>2
    <3>3. QED BY <3>1, <3>2
  <2>2. QED BY <2>1
<1>6. Cardinality(T) \in A
  <2> HIDE DEF A
  <2>1. Nat \subseteq A
    BY <1>4, <1>5, Induction
  <2>2. QED BY <1>1, <2>1
<1>7. QED BY <1>1, <1>6

LEMMA TotalUnrolls ==
  ASSUME NEW f, NEW e, NEW S, IsFiniteSet(S), NEW T \in SUBSET S,
         \A x \in T : f[x] = e[x], NEW g, Unrolls(g, f, S)
  PROVE  g[T] = Total(e, T)
<1>1. IsFiniteSet(T)
  BY FS_Subset
<1>2. Unrolls(CHOOSE h : Unrolls(h, e, T), e, T)
  BY <1>1, UnrollsExists
<1>3. QED BY <1>2, UnrollsUnique DEF Total

LEMMA Unrolled ==
  ASSUME NEW f, NEW S, IsFiniteSet(S), NEW g, Unrolls(g, f, S)
  PROVE  g[S] = Total(f, S)
<1>1. \A x \in S : f[x] = f[x]
  OBVIOUS
<1>2. S \in SUBSET S
  OBVIOUS
<1>3. QED BY <1>1, <1>2, TotalUnrolls

\* The sum over no element, and over the elements but any one of them.
LEMMA TotalEmpty ==
  ASSUME NEW f
  PROVE  Total(f, {}) = 0
<1>1. PICK g : Unrolls(g, f, {})
  BY UnrollsExists, FS_EmptySet
<1>2. g[{}] = Total(f, {})
  BY <1>1, Unrolled, FS_EmptySet
<1>3. g[{}] = 0
  BY <1>1 DEF Unrolls
<1>4. QED BY <1>2, <1>3

LEMMA TotalRemove ==
  ASSUME NEW f, NEW S, IsFiniteSet(S), \A x \in S : f[x] \in Int
  PROVE  /\ Total(f, S) \in Int
         /\ \A y \in S : Total(f, S) = f[y] + Total(f, S \ {y})
<1>1. PICK g : Unrolls(g, f, S)
  BY UnrollsExists
<1>2. \A T \in SUBSET S : g[T] = Total(f, T)
  BY <1>1, TotalUnrolls
<1>3. \A R \in SUBSET S : IsFiniteSet(R) /\ Cardinality(R) \in Nat
  BY FS_Subset, FS_CardinalityType
<1> DEFINE Fine(R) == g[R] \in Int /\ \A y \in R : g[R] = f[y] + g[R \ {y}]
           A == {n \in Nat : \A R \in SUBSET S : Cardinality(R) <= n => Fine(R)}
<1>4. 0 \in A
  <2>1. \A R \in SUBSET S : Cardinality(R) <= 0 => R = {}
    BY <1>3, FS_EmptySet
  <2>2. g[{}] = 0
    BY <1>1 DEF Unrolls
  <2>3. Fine({})
    BY <2>2
  <2> HIDE DEF Fine
  <2>4. QED BY <2>1, <2>3
<1>5. ASSUME NEW n \in Nat, n \in A PROVE n + 1 \in A
  <2>1. ASSUME NEW R \in SUBSET S, Cardinality(R) <= n + 1, R # {} PROVE Fine(R)
    <3> DEFINE c == Choice(R)
    <3>1. c \in R /\ g[R] = f[c] + g[R \ {c}]
      BY <1>1, <2>1, ChoiceIn DEF Unrolls
    <3>2. ASSUME NEW y \in R
          PROVE  /\ R \ {y} \in SUBSET S /\ Cardinality(R \ {y}) <= n
                 /\ f[y] \in Int
      <4>1. Cardinality(R \ {y}) = Cardinality(R) - 1
        BY <1>3, Smaller
      <4>2. QED BY <1>3, <2>1, <4>1
    <3>3. \A y \in R : Fine(R \ {y}) /\ f[y] \in Int
      BY <1>5, <3>2
    <3>4. g[R] \in Int
      <4>1. g[R \ {c}] \in Int /\ f[c] \in Int
        BY <3>1, <3>3
      <4>2. QED BY <3>1, <4>1
    <3>5. ASSUME NEW y \in R PROVE g[R] = f[y] + g[R \ {y}]
      <4>1. CASE y = c
        BY <3>1, <4>1
      <4>2. CASE y # c
        <5> DEFINE Q == R \ {y, c}
        <5>1. y \in R \ {c} /\ c \in R \ {y}
          BY <3>1, <4>2
        <5>2. (R \ {c}) \ {y} = Q /\ (R \ {y}) \ {c} = Q
          OBVIOUS
        <5>3. g[R \ {c}] = f[y] + g[Q]
          BY <3>1, <3>3, <5>1, <5>2
        <5>4. g[R \ {y}] = f[c] + g[Q]
          BY <3>3, <5>1, <5>2
        <5>5. Cardinality(Q) <= n
          <6>1. IsFiniteSet(R \ {c}) /\ Cardinality(R \ {c}) \in Nat
            BY <1>3, <3>1, <3>2
          <6>2. Cardinality(Q) = Cardinality(R \ {c}) - 1
            BY <5>1, <5>2, <6>1, Smaller
          <6>3. QED BY <3>1, <3>2, <6>1, <6>2
        <5>6. g[Q] \in Int
          BY <1>5, <5>5
        <5>7. f[c] \in Int /\ f[y] \in Int
          BY <3>1, <3>2
        <5> HIDE DEF Q, c
        <5>8. QED BY <3>1, <5>3, <5>4, <5>6, <5>7
      <4>3. QED BY <4>1, <4>2
    <3>6. QED BY <3>4, <3>5
  <2>2. ASSUME NEW R \in SUBSET S, Cardinality(R) <= n + 1, R = {} PROVE Fine(R)
    BY <1>1, <2>2 DEF Unrolls
  <2> HIDE DEF Fine
  <2>3. QED BY <2>1, <2>2
<1>6. Fine(S)
  <2>1. Cardinality(S) \in A
    <3> HIDE DEF A
    <3>1. Nat \subseteq A
      BY <1>4, <1>5, Induction
    <3>2. QED BY <1>3, <3>1
  <2>2. QED BY <1>3, <2>1
<1>7. QED BY <1>2, <1>6

LEMMA TotalAdd ==
  ASSUME NEW f, NEW S, IsFiniteSet(S), NEW x, x \notin S,
         \A y \in S \cup {x} : f[y] \in Int
  PROVE  Total(f, S \cup {x}) = Total(f, S) + f[x]
<1>1. IsFiniteSet(S \cup {x})
  BY FS_AddElement
<1>2. Total(f, S \cup {x}) = f[x] + Total(f, (S \cup {x}) \ {x})
  BY <1>1, TotalRemove
<1>3. (S \cup {x}) \ {x} = S
  OBVIOUS
<1>4. Total(f, S) \in Int /\ f[x] \in Int
  BY TotalRemove
<1>5. Total(f, S \cup {x}) = f[x] + Total(f, S)
  BY <1>2, <1>3
<1>6. QED BY <1>4, <1>5

LEMMA TotalSame ==
  ASSUME NEW f, NEW e, NEW S, IsFiniteSet(S), \A x \in S : f[x] = e[x]
  PROVE  Total(f, S) = Total(e, S)
<1>1. PICK g : Unrolls(g, f, S)
  BY UnrollsExists
<1>2. g[S] = Total(f, S) /\ g[S] = Total(e, S)
  BY <1>1, TotalUnrolls
<1>3. QED BY <1>2

\* What holds of no element, and with one more whenever it held without it,
\* holds of all.
LEMMA FiniteInduction ==
  ASSUME NEW U, IsFiniteSet(U), NEW A, {} \in A,
         \A s \in SUBSET U : \A x \in U \ s : s \in A => s \cup {x} \in A
  PROVE  U \in A
<1>1. \A s \in SUBSET U : IsFiniteSet(s) /\ Cardinality(s) \in Nat
  BY FS_Subset, FS_CardinalityType
<1> DEFINE B == {n \in Nat : \A s \in SUBSET U : Cardinality(s) = n => s \in A}
<1>2. 0 \in B
  BY <1>1, FS_EmptySet
<1>3. ASSUME NEW n \in Nat, n \in B PROVE n + 1 \in B
  <2>1. ASSUME NEW s \in SUBSET U, Cardinality(s) = n + 1 PROVE s \in A
    <3> DEFINE x == Choice(s)
               t == s \ {x}
    <3>1. s # {}
      BY <1>1, <2>1, FS_EmptySet
    <3>2. x \in s /\ t \in SUBSET U /\ x \in U \ t /\ t \cup {x} = s
      BY <3>1, ChoiceIn
    <3>3. Cardinality(t) = n
      BY <1>1, <2>1, <3>2, Smaller
    <3>4. t \in A
      BY <1>3, <3>2, <3>3
    <3> HIDE DEF x, t
    <3>5. t \cup {x} \in A
      BY <3>2, <3>4
    <3>6. QED BY <3>2, <3>5
  <2>2. QED BY <2>1
<1>4. Cardinality(U) \in B
  <2> HIDE DEF B
  <2>1. Nat \subseteq B
    BY <1>2, <1>3, Induction
  <2>2. QED BY <1>1, <2>1
<1>5. QED BY <1>4

LEMMA TotalUnion ==
  ASSUME NEW f, NEW S, NEW T, IsFiniteSet(S), IsFiniteSet(T), S \cap T = {},
         \A x \in S \cup T : f[x] \in Int
  PROVE  Total(f, S \cup T) = Total(f, S) + Total(f, T)
<1> DEFINE A == {s \in SUBSET T : Total(f, S \cup s) = Total(f, S) + Total(f, s)}
<1>1. Total(f, S) \in Int
  BY TotalRemove
<1>2. {} \in A
  <2>1. S \cup {} = S
    OBVIOUS
  <2>2. Total(f, S) = Total(f, S) + Total(f, {})
    BY <1>1, TotalEmpty
  <2>3. QED BY <2>1, <2>2
<1>3. ASSUME NEW s \in SUBSET T, NEW x \in T \ s, s \in A PROVE s \cup {x} \in A
  <2>1. IsFiniteSet(s) /\ IsFiniteSet(S \cup s)
    BY FS_Subset, FS_Union
  <2>2. x \notin S \cup s /\ S \cup (s \cup {x}) = (S \cup s) \cup {x}
    BY <1>3
  <2>3. Total(f, (S \cup s) \cup {x}) = Total(f, S \cup s) + f[x]
    BY <2>1, <2>2, TotalAdd
  <2>4. Total(f, s \cup {x}) = Total(f, s) + f[x]
    BY <1>3, <2>1, TotalAdd
  <2>5. Total(f, s) \in Int /\ f[x] \in Int
    BY <2>1, TotalRemove
  <2>6. Total(f, S \cup s) = Total(f, S) + Total(f, s)
    BY <1>3
  <2>7. Total(f, S \cup (s \cup {x})) = Total(f, S) + Total(f, s \cup {x})
    <3>1. (Total(f, S) + Total(f, s)) + f[x] = Total(f, S) + (Total(f, s) + f[x])
      BY <1>1, <2>5
    <3>2. Total(f, S \cup (s \cup {x})) = (Total(f, S) + Total(f, s)) + f[x]
      BY <2>2, <2>3, <2>6
    <3>3. QED BY <2>4, <3>1, <3>2
  <2>8. QED BY <1>3, <2>7
<1>4. T \in A
  <2> HIDE DEF A
  <2>1. QED BY <1>2, <1>3, FiniteInduction
<1>5. QED BY <1>4

\* The sum of the sums over disjoint parts.
LEMMA TotalParts ==
  ASSUME NEW T, IsFiniteSet(T), NEW P, \A t \in T : IsFiniteSet(P[t]),
         \A t, u \in T : t # u => P[t] \cap P[u] = {},
         NEW f, \A t \in T : \A x \in P[t] : f[x] \in Int,
         NEW e, \A t \in T : e[t] = Total(f, P[t]),
         NEW V, \A x : x \in V <=> \E t \in T : x \in P[t]
  PROVE  Total(e, T) = Total(f, V)
<1> DEFINE U(s) == UNION {P[t] : t \in s}
           A == {s \in SUBSET T : IsFiniteSet(U(s)) /\ Total(e, s) = Total(f, U(s))}
<1>1. {} \in A
  <2>1. U({}) = {}
    OBVIOUS
  <2>2. IsFiniteSet({}) /\ Total(e, {}) = 0 /\ Total(f, {}) = 0
    BY FS_EmptySet, TotalEmpty
  <2>3. QED BY <2>1, <2>2
<1>2. ASSUME NEW s \in SUBSET T, NEW x \in T \ s, s \in A PROVE s \cup {x} \in A
  <2>1. IsFiniteSet(s) /\ IsFiniteSet(U(s)) /\ Total(e, s) = Total(f, U(s))
    BY <1>2, FS_Subset
  <2>2. U(s \cup {x}) = U(s) \cup P[x]
    OBVIOUS
  <2>3. U(s) \cap P[x] = {}
    OBVIOUS
  <2>4. \A y \in U(s) \cup P[x] : f[y] \in Int
    OBVIOUS
  <2> HIDE DEF U
  <2>5. IsFiniteSet(U(s) \cup P[x])
    BY <2>1, FS_Union
  <2>6. Total(f, U(s) \cup P[x]) = Total(f, U(s)) + Total(f, P[x])
    BY <2>1, <2>3, <2>4, TotalUnion
  <2>7. \A t \in T : e[t] \in Int
    <3>1. \A t \in T : Total(f, P[t]) \in Int
      BY TotalRemove
    <3>2. QED BY <3>1
  <2>8. Total(e, s \cup {x}) = Total(e, s) + e[x]
    <3>1. \A y \in s \cup {x} : e[y] \in Int
      BY <2>7
    <3>2. QED BY <2>1, <3>1, TotalAdd
  <2>9. Total(e, s \cup {x}) = Total(f, U(s \cup {x}))
    BY <2>1, <2>2, <2>6, <2>8
  <2>10. QED BY <2>2, <2>5, <2>9
<1>3. T \in A
  <2> HIDE DEF A
  <2>1. QED BY <1>1, <1>2, FiniteInduction
<1>4. V = U(T)
  OBVIOUS
<1>5. QED BY <1>3, <1>4

\* Counting is summing ones.
LEMMA TotalOnes ==
  ASSUME NEW f, NEW S, IsFiniteSet(S), \A x \in S : f[x] = 1
  PROVE  Total(f, S) = Cardinality(S)
<1> DEFINE A == {s \in SUBSET S : Total(f, s) = Cardinality(s)}
<1>1. {} \in A
  BY TotalEmpty, FS_EmptySet
<1>2. ASSUME NEW s \in SUBSET S, NEW x \in S \ s, s \in A PROVE s \cup {x} \in A
  <2>1. IsFiniteSet(s)
    BY FS_Subset
  <2>2. \A y \in s \cup {x} : f[y] \in Int
    BY <1>2
  <2>3. Total(f, s \cup {x}) = Total(f, s) + 1
    BY <1>2, <2>1, <2>2, TotalAdd
  <2>4. Cardinality(s \cup {x}) = Cardinality(s) + 1
    BY <2>1, FS_AddElement
  <2>5. QED BY <1>2, <2>3, <2>4
<1>3. S \in A
  <2> HIDE DEF A
  <2>1. QED BY <1>1, <1>2, FiniteInduction
<1>4. QED BY <1>3

\* Sums of naturals, of zeros and of sums.
LEMMA TotalNat ==
  ASSUME NEW f, NEW S, IsFiniteSet(S), \A x \in S : f[x] \in Nat
  PROVE  Total(f, S) \in Nat
<1> DEFINE A == {s \in SUBSET S : Total(f, s) \in Nat}
<1>1. {} \in A
  BY TotalEmpty
<1>2. ASSUME NEW s \in SUBSET S, NEW x \in S \ s, s \in A PROVE s \cup {x} \in A
  <2>1. IsFiniteSet(s)
    BY FS_Subset
  <2>2. \A y \in s \cup {x} : f[y] \in Int
    BY <1>2
  <2>3. Total(f, s \cup {x}) = Total(f, s) + f[x]
    BY <1>2, <2>1, <2>2, TotalAdd
  <2>4. QED BY <1>2, <2>3
<1>3. S \in A
  <2> HIDE DEF A
  <2>1. QED BY <1>1, <1>2, FiniteInduction
<1>4. QED BY <1>3

LEMMA TotalZero ==
  ASSUME NEW f, NEW S, IsFiniteSet(S), \A x \in S : f[x] = 0
  PROVE  Total(f, S) = 0
<1> DEFINE A == {s \in SUBSET S : Total(f, s) = 0}
<1>1. {} \in A
  BY TotalEmpty
<1>2. ASSUME NEW s \in SUBSET S, NEW x \in S \ s, s \in A PROVE s \cup {x} \in A
  <2>1. IsFiniteSet(s)
    BY FS_Subset
  <2>2. \A y \in s \cup {x} : f[y] \in Int
    BY <1>2
  <2>3. Total(f, s \cup {x}) = Total(f, s) + f[x]
    BY <1>2, <2>1, <2>2, TotalAdd
  <2>4. QED BY <1>2, <2>3
<1>3. S \in A
  <2> HIDE DEF A
  <2>1. QED BY <1>1, <1>2, FiniteInduction
<1>4. QED BY <1>3

LEMMA TotalPlus ==
  ASSUME NEW f, NEW e, NEW d, NEW S, IsFiniteSet(S),
         \A x \in S : f[x] \in Int /\ e[x] \in Int,
         \A x \in S : d[x] = f[x] + e[x]
  PROVE  Total(d, S) = Total(f, S) + Total(e, S)
<1> DEFINE A == {s \in SUBSET S : /\ Total(d, s) = Total(f, s) + Total(e, s)
                                   /\ Total(f, s) \in Int /\ Total(e, s) \in Int}
<1>1. {} \in A
  BY TotalEmpty
<1>2. ASSUME NEW s \in SUBSET S, NEW x \in S \ s, s \in A PROVE s \cup {x} \in A
  <2>1. IsFiniteSet(s)
    BY FS_Subset
  <2>2. /\ \A y \in s \cup {x} : f[y] \in Int
        /\ \A y \in s \cup {x} : e[y] \in Int
        /\ \A y \in s \cup {x} : d[y] \in Int
    BY <1>2
  <2>3. Total(f, s \cup {x}) = Total(f, s) + f[x]
    BY <1>2, <2>1, <2>2, TotalAdd
  <2>4. Total(e, s \cup {x}) = Total(e, s) + e[x]
    BY <1>2, <2>1, <2>2, TotalAdd
  <2>5. Total(d, s \cup {x}) = Total(d, s) + d[x]
    BY <1>2, <2>1, <2>2, TotalAdd
  <2>6. Total(f, s) \in Int /\ Total(e, s) \in Int /\ f[x] \in Int /\ e[x] \in Int
    BY <1>2
  <2>7. Total(d, s) = Total(f, s) + Total(e, s) /\ d[x] = f[x] + e[x]
    BY <1>2
  <2>8. QED BY <1>2, <2>3, <2>4, <2>5, <2>6, <2>7
<1>3. S \in A
  <2> HIDE DEF A
  <2>1. QED BY <1>1, <1>2, FiniteInduction
<1>4. QED BY <1>3
-----------------------------------------------------------------------------
(* The rows. *)
PoolRow ==
  [trades : Nat, volume_base : Nat, volume_quote : Nat, maker_volume : Nat,
   taker_volume : Nat, sum_px_base : Nat,
   open : Nat \cup {NoPrice}, high : Nat \cup {NoPrice},
   low : Nat \cup {NoPrice}, last : Nat \cup {NoPrice}]

\* A row without fills has no prices and no volume; one with fills has all
\* four prices.
PricesSet(a) ==
  IF a.trades = 0
  THEN /\ {a.open, a.high, a.low, a.last} = {NoPrice}
       /\ a.volume_base = 0 /\ a.sum_px_base = 0
  ELSE {a.open, a.high, a.low, a.last} \subseteq Nat

WellFormed(a) ==
  a.trades > 0 => /\ {a.open, a.last} \subseteq a.low..a.high
                  /\ a.low * a.volume_base <= a.sum_px_base
                  /\ a.sum_px_base <= a.high * a.volume_base

RowInv(a) ==
  /\ a \in PoolRow
  /\ PricesSet(a) /\ WellFormed(a)
  /\ a.maker_volume + a.taker_volume = a.volume_quote

(* The fills passed, as columns to sum. *)
BaseOf   == [j \in DOMAIN done |-> done[j].base]
QuoteOf  == [j \in DOMAIN done |-> done[j].quote]
PxBaseOf == [j \in DOMAIN done |-> done[j].price * done[j].base]

\* The passes are in the order of the minutes.
Passing ==
  /\ done \in Seq(Fill)
  /\ \A i, j \in DOMAIN done : i <= j => done[i].minute <= done[j].minute

\* A row counts and adds up the fills of its minute, and has the prices of the
\* first, the last, a highest and a lowest of them.
Sums(a, S) ==
  /\ a.trades = Cardinality(S)
  /\ a.volume_base = Total(BaseOf, S) /\ a.volume_quote = Total(QuoteOf, S)
  /\ a.sum_px_base = Total(PxBaseOf, S)

Extremes(a, S) ==
  S # {} =>
    /\ \E j \in S : a.open = done[j].price /\ \A i \in S : j <= i
    /\ \E j \in S : a.last = done[j].price /\ \A i \in S : i <= j
    /\ \E j \in S : a.high = done[j].price /\ \A i \in S : done[i].price <= a.high
    /\ \E j \in S : a.low = done[j].price /\ \A i \in S : a.low <= done[i].price

BmEntry == [trades : Nat, volume_quote : Nat, maker_volume : Nat, taker_volume : Nat]

BmSums(a, made, took) ==
  /\ a \in BmEntry
  /\ a.trades = Cardinality(made) + Cardinality(took)
  /\ a.maker_volume = Total(QuoteOf, made) /\ a.taker_volume = Total(QuoteOf, took)
  /\ a.volume_quote = a.maker_volume + a.taker_volume

\* The inductive invariant, of each row.
IInv ==
  /\ Passing
  /\ DOMAIN pools = Pools \X Minutes
  /\ \A k \in Pools \X Minutes : RowInv(pools[k])
  /\ \A p \in Pools, t \in Minutes :
       /\ Sums(pools[<<p, t>>], Passed(p, {t}))
       /\ Extremes(pools[<<p, t>>], Passed(p, {t}))
  /\ DOMAIN bms = BMs \X Pools \X Minutes
  /\ \A m \in BMs, p \in Pools, t \in Minutes :
       BmSums(bms[<<m, p, t>>], MakerFills(m, p, {t}), TakerFills(m, p, {t}))
-----------------------------------------------------------------------------
(* Arithmetic of a weighted sum's bounds. *)

LEMMA Products ==
  ASSUME NEW x \in Nat, NEW y \in Nat, NEW v \in Nat, x <= y
  PROVE  x * v <= y * v
<1>1. PICK d \in Nat : y = x + d
  <2>1. y - x \in Nat /\ y = x + (y - x)
    OBVIOUS
  <2>2. QED BY <2>1
<1>2. y * v = x * v + d * v /\ d * v \in Nat /\ x * v \in Nat
  BY <1>1
<1>3. QED BY <1>2

\* A lower price bounds the old sum and the new summand, and so their sum.
LEMMA LowerBound ==
  ASSUME NEW l \in Nat, NEW m \in Nat, NEW x \in Nat, NEW v \in Nat,
         NEW s \in Nat, NEW b \in Nat,
         m <= l, m <= x, l * v <= s
  PROVE  m * (v + b) <= s + x * b
<1>1. m * (v + b) = m * v + m * b
  OBVIOUS
<1>2. m * v <= l * v /\ m * b <= x * b
  BY Products
<1>3. m * v \in Nat /\ m * b \in Nat /\ l * v \in Nat /\ x * b \in Nat
  OBVIOUS
<1>4. QED BY <1>1, <1>2, <1>3

LEMMA UpperBound ==
  ASSUME NEW h \in Nat, NEW m \in Nat, NEW x \in Nat, NEW v \in Nat,
         NEW s \in Nat, NEW b \in Nat,
         h <= m, x <= m, s <= h * v
  PROVE  s + x * b <= m * (v + b)
<1>1. m * (v + b) = m * v + m * b
  OBVIOUS
<1>2. h * v <= m * v /\ x * b <= m * b
  BY Products
<1>3. m * v \in Nat /\ m * b \in Nat /\ h * v \in Nat /\ x * b \in Nat
  OBVIOUS
<1>4. QED BY <1>1, <1>2, <1>3
-----------------------------------------------------------------------------
\* One more fill keeps a row's invariant.
LEMMA AddToPoolKeeps ==
  ASSUME NEW a, NEW f \in Fill, RowInv(a)
  PROVE  RowInv(AddToPool(a, f))
<1> DEFINE r == AddToPool(a, f)
<1>1. /\ f.price \in Nat /\ f.base \in Nat /\ f.quote \in Nat
      /\ f.sell \in BOOLEAN /\ f.price * f.base \in Nat
  <2>1. f.price \in Nat /\ f.base \in Nat /\ f.quote \in Nat /\ f.sell \in BOOLEAN
    BY RollupsAssumption DEF Fill
  <2>2. QED BY <2>1
<1>2. /\ a.trades \in Nat /\ a.volume_base \in Nat /\ a.volume_quote \in Nat
      /\ a.maker_volume \in Nat /\ a.taker_volume \in Nat /\ a.sum_px_base \in Nat
  BY DEF RowInv, PoolRow
<1>3. /\ r.trades = a.trades + 1 /\ r.volume_base = a.volume_base + f.base
      /\ r.volume_quote = a.volume_quote + f.quote
      /\ r.sum_px_base = a.sum_px_base + f.price * f.base
      /\ r.maker_volume = a.maker_volume + MakerShare(f)
      /\ r.taker_volume = a.taker_volume + TakerShare(f)
      /\ r.open = Opening(a.open, f.price) /\ r.high = Highest(a.high, f.price)
      /\ r.low = Lowest(a.low, f.price) /\ r.last = f.price
  BY DEF AddToPool
<1>4. MakerShare(f) \in Nat /\ TakerShare(f) \in Nat
      /\ MakerShare(f) + TakerShare(f) = f.quote
  BY <1>1 DEF MakerShare, TakerShare
<1>5. CASE a.trades = 0
  <2>1. /\ a.open = NoPrice /\ a.high = NoPrice /\ a.low = NoPrice
        /\ a.volume_base = 0 /\ a.sum_px_base = 0
    BY <1>5 DEF RowInv, PricesSet
  <2>2. r.open = f.price /\ r.high = f.price /\ r.low = f.price
    BY <1>3, <2>1, RollupsAssumption DEF Opening, Highest, Lowest
  <2>3. r.volume_base = f.base /\ r.sum_px_base = f.price * f.base
    BY <1>1, <1>3, <2>1
  <2>4. r \in PoolRow
    BY <1>1, <1>2, <1>3, <1>4, <2>2, <2>3 DEF PoolRow, AddToPool
  <2>5. WellFormed(r) /\ PricesSet(r)
    BY <1>1, <1>2, <1>3, <2>2, <2>3 DEF WellFormed, PricesSet
  <2>6. r.maker_volume + r.taker_volume = r.volume_quote
    BY <1>1, <1>2, <1>3, <1>4 DEF RowInv
  <2>7. QED BY <2>4, <2>5, <2>6 DEF RowInv
<1>6. CASE a.trades # 0
  <2>1. /\ a.open \in Nat /\ a.high \in Nat /\ a.low \in Nat /\ a.last \in Nat
        /\ {a.open, a.last} \subseteq a.low..a.high
        /\ a.low * a.volume_base <= a.sum_px_base
        /\ a.sum_px_base <= a.high * a.volume_base
    BY <1>2, <1>6 DEF RowInv, PricesSet, WellFormed
  <2>2. /\ r.open = a.open
        /\ r.low \in Nat /\ r.low <= a.low /\ r.low <= f.price
        /\ r.high \in Nat /\ a.high <= r.high /\ f.price <= r.high
    BY <1>1, <1>3, <2>1, RollupsAssumption DEF Opening, Highest, Lowest
  <2> HIDE DEF r
  <2>3. r.low * r.volume_base <= r.sum_px_base
    <3>1. r.low * (a.volume_base + f.base) <= a.sum_px_base + f.price * f.base
      BY <1>1, <1>2, <2>1, <2>2, LowerBound, Zenon
    <3>2. QED BY <3>1, <1>3
  <2>4. r.sum_px_base <= r.high * r.volume_base
    <3>1. a.sum_px_base + f.price * f.base <= r.high * (a.volume_base + f.base)
      BY <1>1, <1>2, <2>1, <2>2, UpperBound, Zenon
    <3>2. QED BY <3>1, <1>3
  <2> USE DEF r
  <2>5. {r.open, r.last} \subseteq r.low..r.high
    BY <1>1, <1>3, <2>1, <2>2
  <2>6. r \in PoolRow
    BY <1>1, <1>2, <1>3, <1>4, <2>1, <2>2 DEF PoolRow, AddToPool
  <2>7. PricesSet(r)
    BY <1>1, <1>2, <1>3, <2>1, <2>2 DEF PricesSet
  <2>8. r.maker_volume + r.taker_volume = r.volume_quote
    BY <1>1, <1>2, <1>3, <1>4 DEF RowInv
  <2>9. QED BY <2>3, <2>4, <2>5, <2>6, <2>7, <2>8 DEF RowInv, WellFormed
<1>7. QED BY <1>5, <1>6

\* What one more fill adds: itself, at the end, to its pool and its two sides.
LEMMA OneMore ==
  ASSUME Passing, NEW f \in Samples, Add(f), NEW p, NEW M
  PROVE  LET n == Len(done) + 1
             with(c, S) == IF c THEN S \cup {n} ELSE S
             here == f.pool = p /\ f.minute \in M IN
         /\ n \in Nat /\ done' \in Seq(Fill) /\ DOMAIN done = 1..(n - 1)
         /\ DOMAIN done' = 1..n /\ done'[n] = f /\ f \in Fill
         /\ \A j \in DOMAIN done : done'[j] = done[j]
         /\ Passed(p, M)' = with(here, Passed(p, M))
         /\ \A m : /\ MakerFills(m, p, M)' = with(here /\ f.maker = m, MakerFills(m, p, M))
                   /\ TakerFills(m, p, M)' = with(here /\ f.taker = m, TakerFills(m, p, M))
<1> DEFINE n == Len(done) + 1
           with(c, S) == IF c THEN S \cup {n} ELSE S
           here == f.pool = p /\ f.minute \in M
<1>1. f \in Fill /\ done \in Seq(Fill) /\ done' = Append(done, f)
  BY SamplesAssumption DEF Passing, Add
<1>2. /\ n \in Nat /\ done' \in Seq(Fill) /\ DOMAIN done = 1..(n - 1)
      /\ DOMAIN done' = 1..n /\ done'[n] = f
      /\ \A j \in DOMAIN done : done'[j] = done[j]
  BY <1>1
<1>3. DOMAIN done' = DOMAIN done \cup {n} /\ n \notin DOMAIN done
  BY <1>2
<1>4. Passed(p, M)' = with(here, Passed(p, M))
  BY <1>2, <1>3 DEF Passed
<1>5. \A m : /\ MakerFills(m, p, M)' = with(here /\ f.maker = m, MakerFills(m, p, M))
             /\ TakerFills(m, p, M)' = with(here /\ f.taker = m, TakerFills(m, p, M))
  BY <1>2, <1>3, <1>4 DEF MakerFills, TakerFills, Passed
<1>6. QED BY <1>1, <1>2, <1>4, <1>5

\* The fills passed are finitely many, and so are those of a pool or a side.
LEMMA PassedFinite ==
  ASSUME Passing, NEW S, S \subseteq DOMAIN done
  PROVE  IsFiniteSet(S) /\ Cardinality(S) \in Nat /\ S \subseteq Nat
<1>1. DOMAIN done = 1..Len(done) /\ Len(done) \in Nat
  BY DEF Passing
<1>2. IsFiniteSet(1..Len(done))
  BY <1>1, FS_Interval
<1>3. IsFiniteSet(S)
  BY <1>1, <1>2, FS_Subset
<1>4. QED BY <1>1, <1>3, FS_CardinalityType

LEMMA FillFields ==
  ASSUME NEW f \in Fill
  PROVE  /\ f.price \in Nat /\ f.base \in Nat /\ f.quote \in Nat
         /\ f.price * f.base \in Nat /\ f.sell \in BOOLEAN
         /\ f.minute \in Int /\ f.minute \in Minutes /\ f.pool \in Pools
         /\ f.taker \in BMs /\ f.maker \in BMs \cup {NoBm} /\ NoBm \notin BMs
<1>1. /\ f.price \in Nat /\ f.base \in Nat /\ f.quote \in Nat
      /\ f.sell \in BOOLEAN /\ f.minute \in Int /\ f.minute \in Minutes
      /\ f.pool \in Pools /\ f.taker \in BMs /\ f.maker \in BMs \cup {NoBm}
  BY RollupsAssumption DEF Fill
<1>2. QED BY <1>1, RollupsAssumption

LEMMA Columns ==
  ASSUME Passing
  PROVE  \A j \in DOMAIN done :
           /\ BaseOf[j] = done[j].base /\ BaseOf[j] \in Nat
           /\ QuoteOf[j] = done[j].quote /\ QuoteOf[j] \in Nat
           /\ PxBaseOf[j] = done[j].price * done[j].base /\ PxBaseOf[j] \in Nat
           /\ done[j].price \in Nat
<1>1. ASSUME NEW j \in DOMAIN done PROVE done[j] \in Fill
  BY DEF Passing
<1>2. QED BY <1>1, FillFields DEF BaseOf, QuoteOf, PxBaseOf

LEMMA ColumnsStep ==
  ASSUME Passing, NEW f \in Samples, Add(f)
  PROVE  LET n == Len(done) + 1 IN
         /\ BaseOf'[n] = f.base /\ QuoteOf'[n] = f.quote
         /\ PxBaseOf'[n] = f.price * f.base
         /\ \A j \in DOMAIN done :
              /\ BaseOf'[j] = BaseOf[j] /\ QuoteOf'[j] = QuoteOf[j]
              /\ PxBaseOf'[j] = PxBaseOf[j] /\ n # j
<1> DEFINE n == Len(done) + 1
<1>1. /\ DOMAIN done = 1..(n - 1) /\ DOMAIN done' = 1..n /\ done'[n] = f /\ n \in Nat
      /\ \A j \in DOMAIN done : done'[j] = done[j]
  BY OneMore
<1>2. n \in DOMAIN done' /\ \A j \in DOMAIN done : j \in DOMAIN done' /\ n # j
  <2>1. n \in 1..n
    <3>1. n \in Nat /\ n # 0
      BY DEF Passing
    <3>2. QED BY <3>1
  <2>2. \A j \in 1..(n - 1) : j \in 1..n /\ n # j
    BY <1>1
  <2>3. QED BY <1>1, <2>1, <2>2
<1>3. /\ BaseOf'[n] = f.base /\ QuoteOf'[n] = f.quote
      /\ PxBaseOf'[n] = f.price * f.base
  BY <1>1, <1>2 DEF BaseOf, QuoteOf, PxBaseOf
<1>4. \A j \in DOMAIN done :
              /\ BaseOf'[j] = BaseOf[j] /\ QuoteOf'[j] = QuoteOf[j]
              /\ PxBaseOf'[j] = PxBaseOf[j]
  BY <1>1, <1>2 DEF BaseOf, QuoteOf, PxBaseOf
<1>5. QED BY <1>2, <1>3, <1>4

LEMMA PassingStep ==
  ASSUME Passing, NEW f \in Samples, Add(f)
  PROVE  Passing'
<1> DEFINE n == Len(done) + 1
<1>1. /\ n \in Nat /\ done' \in Seq(Fill) /\ DOMAIN done = 1..(n - 1)
      /\ DOMAIN done' = 1..n /\ done'[n] = f /\ f \in Fill
      /\ \A j \in DOMAIN done : done'[j] = done[j]
  BY OneMore
<1>2. \A j \in DOMAIN done : done[j].minute <= f.minute
  BY DEF Add
<1>3. ASSUME NEW i \in DOMAIN done', NEW j \in DOMAIN done', i <= j
      PROVE  done'[i].minute <= done'[j].minute
  <2>1. CASE j = n /\ i = n
    BY <1>1, <2>1, FillFields
  <2>2. CASE j = n /\ i # n
    <3>1. i \in DOMAIN done
      BY <1>1, <2>2
    <3>2. QED BY <1>1, <1>2, <2>2, <3>1
  <2>3. CASE j # n
    <3>1. i \in DOMAIN done /\ j \in DOMAIN done
      BY <1>1, <1>3, <2>3
    <3>2. QED BY <1>1, <1>3, <3>1 DEF Passing
  <2>4. QED BY <2>1, <2>2, <2>3
<1>4. QED BY <1>1, <1>3 DEF Passing

\* A fill adds to the row of its pool and minute, and to no other.
LEMMA PoolRowStep ==
  ASSUME IInv, NEW f \in Samples, Add(f), NEW p \in Pools, NEW t \in Minutes
  PROVE  pools'[<<p, t>>] =
           IF f.pool = p /\ f.minute = t THEN AddToPool(pools[<<p, t>>], f)
                                        ELSE pools[<<p, t>>]
<1>1. pools' = [pools EXCEPT ![<<f.pool, f.minute>>] = AddToPool(@, f)]
  BY DEF Add
<1>2. <<p, t>> \in DOMAIN pools
  BY DEF IInv
<1>3. <<p, t>> = <<f.pool, f.minute>> <=> f.pool = p /\ f.minute = t
  OBVIOUS
<1>4. QED BY <1>1, <1>2, <1>3

LEMMA SumsStep ==
  ASSUME IInv, NEW f \in Samples, Add(f), NEW p \in Pools, NEW t \in Minutes
  PROVE  Sums(pools[<<p, t>>], Passed(p, {t}))'
<1> DEFINE n == Len(done) + 1
           a == pools[<<p, t>>]
           S == Passed(p, {t})
<1>1. Passing /\ Sums(a, S) /\ a \in PoolRow
  BY DEF IInv, RowInv
<1>2. S \subseteq DOMAIN done
  BY DEF Passed
<1>3. IsFiniteSet(S) /\ Cardinality(S) \in Nat
  BY <1>1, <1>2, PassedFinite
<1>4. f.price \in Nat /\ f.base \in Nat /\ f.quote \in Nat /\ f.price * f.base \in Nat
  BY <1>1, OneMore, FillFields
<1>5. /\ BaseOf'[n] = f.base /\ QuoteOf'[n] = f.quote /\ PxBaseOf'[n] = f.price * f.base
      /\ \A j \in S : /\ BaseOf[j] = BaseOf'[j] /\ QuoteOf[j] = QuoteOf'[j]
                       /\ PxBaseOf[j] = PxBaseOf'[j]
      /\ n \notin S
  BY <1>1, <1>2, ColumnsStep
<1>6. \A j \in S : BaseOf[j] \in Int /\ QuoteOf[j] \in Int /\ PxBaseOf[j] \in Int
  <2>1. \A j \in DOMAIN done : BaseOf[j] \in Nat /\ QuoteOf[j] \in Nat /\ PxBaseOf[j] \in Nat
    BY <1>1, Columns
  <2> HIDE DEF S
  <2>2. QED BY <1>2, <2>1
<1>7. /\ Total(BaseOf', S) = Total(BaseOf, S)
      /\ Total(BaseOf', S \cup {n}) = Total(BaseOf, S) + f.base
  <2> HIDE DEF S, n
  <2>1. \A j \in S : BaseOf[j] = BaseOf'[j] /\ BaseOf[j] \in Int
    BY <1>5, <1>6
  <2>2. BaseOf'[n] \in Int /\ n \notin S
    BY <1>4, <1>5
  <2>3. Total(BaseOf', S) = Total(BaseOf, S)
    BY <1>3, <2>1, TotalSame
  <2>4. \A j \in S \cup {n} : BaseOf'[j] \in Int
    BY <2>1, <2>2
  <2>5. Total(BaseOf', S \cup {n}) = Total(BaseOf', S) + BaseOf'[n]
    BY <1>3, <2>2, <2>4, TotalAdd
  <2>6. QED BY <1>5, <2>3, <2>5
<1>8. /\ Total(QuoteOf', S) = Total(QuoteOf, S)
      /\ Total(QuoteOf', S \cup {n}) = Total(QuoteOf, S) + f.quote
  <2> HIDE DEF S, n
  <2>1. \A j \in S : QuoteOf[j] = QuoteOf'[j] /\ QuoteOf[j] \in Int
    BY <1>5, <1>6
  <2>2. QuoteOf'[n] \in Int /\ n \notin S
    BY <1>4, <1>5
  <2>3. Total(QuoteOf', S) = Total(QuoteOf, S)
    BY <1>3, <2>1, TotalSame
  <2>4. \A j \in S \cup {n} : QuoteOf'[j] \in Int
    BY <2>1, <2>2
  <2>5. Total(QuoteOf', S \cup {n}) = Total(QuoteOf', S) + QuoteOf'[n]
    BY <1>3, <2>2, <2>4, TotalAdd
  <2>6. QED BY <1>5, <2>3, <2>5
<1>9. /\ Total(PxBaseOf', S) = Total(PxBaseOf, S)
      /\ Total(PxBaseOf', S \cup {n}) = Total(PxBaseOf, S) + f.price * f.base
  <2> HIDE DEF S, n
  <2>1. \A j \in S : PxBaseOf[j] = PxBaseOf'[j] /\ PxBaseOf[j] \in Int
    BY <1>5, <1>6
  <2>2. PxBaseOf'[n] \in Int /\ n \notin S
    BY <1>4, <1>5
  <2>3. Total(PxBaseOf', S) = Total(PxBaseOf, S)
    BY <1>3, <2>1, TotalSame
  <2>4. \A j \in S \cup {n} : PxBaseOf'[j] \in Int
    BY <2>1, <2>2
  <2>5. Total(PxBaseOf', S \cup {n}) = Total(PxBaseOf', S) + PxBaseOf'[n]
    BY <1>3, <2>2, <2>4, TotalAdd
  <2>6. QED BY <1>5, <2>3, <2>5
<1>10. CASE f.pool = p /\ f.minute = t
  <2>1. a' = AddToPool(a, f)
    BY <1>10, PoolRowStep
  <2>2. /\ a'.trades = a.trades + 1 /\ a'.volume_base = a.volume_base + f.base
        /\ a'.volume_quote = a.volume_quote + f.quote
        /\ a'.sum_px_base = a.sum_px_base + f.price * f.base
    BY <2>1 DEF AddToPool
  <2>3. S' = S \cup {n}
    BY <1>1, <1>10, OneMore
  <2>4. Cardinality(S \cup {n}) = Cardinality(S) + 1
    BY <1>3, <1>5, FS_AddElement
  <2> HIDE DEF a, S, n
  <2>5. /\ a'.trades = Cardinality(S')
        /\ a'.volume_base = Total(BaseOf', S')
        /\ a'.volume_quote = Total(QuoteOf', S')
        /\ a'.sum_px_base = Total(PxBaseOf', S')
    BY <1>1, <1>7, <1>8, <1>9, <2>2, <2>3, <2>4 DEF Sums
  <2>6. QED BY <2>5 DEF Sums, a, S
<1>11. CASE ~(f.pool = p /\ f.minute = t)
  <2>1. a' = a /\ S' = S
    BY <1>1, <1>11, OneMore, PoolRowStep
  <2> HIDE DEF a, S, n
  <2>2. /\ a'.trades = Cardinality(S')
        /\ a'.volume_base = Total(BaseOf', S')
        /\ a'.volume_quote = Total(QuoteOf', S')
        /\ a'.sum_px_base = Total(PxBaseOf', S')
    BY <1>1, <1>7, <1>8, <1>9, <2>1 DEF Sums
  <2>3. QED BY <2>2 DEF Sums, a, S
<1>12. QED BY <1>10, <1>11

LEMMA ExtremesStep ==
  ASSUME IInv, NEW f \in Samples, Add(f), NEW p \in Pools, NEW t \in Minutes
  PROVE  Extremes(pools[<<p, t>>], Passed(p, {t}))'
<1> DEFINE n == Len(done) + 1
           a == pools[<<p, t>>]
           S == Passed(p, {t})
<1>1. Passing /\ Sums(a, S) /\ Extremes(a, S) /\ RowInv(a)
  BY DEF IInv
<1>2. S \subseteq DOMAIN done
  BY DEF Passed
<1>3. IsFiniteSet(S) /\ Cardinality(S) \in Nat /\ S \subseteq Nat
  BY <1>1, <1>2, PassedFinite
<1>4. f.price \in Nat
  BY <1>1, OneMore, FillFields
<1>5. /\ n \in Nat /\ DOMAIN done = 1..(n - 1) /\ done'[n] = f
      /\ \A j \in S : done'[j] = done[j] /\ done[j].price \in Nat /\ j <= n
  <2>1. /\ n \in Nat /\ DOMAIN done = 1..(n - 1) /\ done'[n] = f
        /\ \A j \in DOMAIN done : done'[j] = done[j]
    BY <1>1, OneMore
  <2>2. \A j \in DOMAIN done : done[j].price \in Nat
    BY <1>1, Columns
  <2> HIDE DEF S, n
  <2>3. \A j \in DOMAIN done : j <= n
    BY <2>1
  <2>4. QED BY <1>2, <2>1, <2>2, <2>3
<1>6. CASE f.pool = p /\ f.minute = t
  <2>1. a' = AddToPool(a, f) /\ S' = S \cup {n}
    BY <1>1, <1>6, OneMore, PoolRowStep
  <2>2. /\ a'.open = Opening(a.open, f.price) /\ a'.high = Highest(a.high, f.price)
        /\ a'.low = Lowest(a.low, f.price) /\ a'.last = f.price
    BY <2>1 DEF AddToPool
  <2>3. CASE S = {}
    <3>1. a.trades = 0
      BY <1>1, <2>3, FS_EmptySet DEF Sums
    <3>2. a.open = NoPrice /\ a.high = NoPrice /\ a.low = NoPrice
      BY <1>1, <3>1 DEF RowInv, PricesSet
    <3>3. a'.open = f.price /\ a'.high = f.price /\ a'.low = f.price
      BY <2>2, <3>2 DEF Opening, Highest, Lowest
    <3>4. S' = {n}
      BY <2>1, <2>3
    <3> HIDE DEF a, S
    <3>5. Extremes(a, S)'
      <4>1. n <= n /\ f.price <= f.price
        BY <1>4, <1>5
      <4>2. QED BY <1>5, <2>2, <3>3, <3>4, <4>1 DEF Extremes
    <3>6. QED BY <3>5 DEF Extremes, a, S
  <2>4. CASE S # {}
    <3>1. a.trades # 0
      BY <1>1, <1>3, <2>4, FS_EmptySet DEF Sums
    <3>2. a.open \in Nat /\ a.high \in Nat /\ a.low \in Nat
      BY <1>1, <3>1 DEF RowInv, PricesSet
    <3>3. NoPrice \notin Nat
      BY RollupsAssumption
    <3>4. a'.open = a.open
      BY <2>2, <3>2, <3>3 DEF Opening
    <3>5. /\ a'.high \in {a.high, f.price} /\ a.high <= a'.high /\ f.price <= a'.high
          /\ a'.low \in {a.low, f.price} /\ a'.low <= a.low /\ a'.low <= f.price
          /\ a'.high \in Nat /\ a'.low \in Nat
      BY <1>4, <2>2, <3>2, <3>3 DEF Highest, Lowest
    <3>6. /\ \E j \in S : a.open = done[j].price /\ \A i \in S : j <= i
          /\ \E j \in S : a.high = done[j].price /\ \A i \in S : done[i].price <= a.high
          /\ \E j \in S : a.low = done[j].price /\ \A i \in S : a.low <= done[i].price
      BY <1>1, <2>4 DEF Extremes
    <3> HIDE DEF a, S, n
    <3>7. \E j \in S' : a'.open = done'[j].price /\ \A i \in S' : j <= i
      BY <1>5, <2>1, <3>4, <3>6
    <3>8. \E j \in S' : a'.last = done'[j].price /\ \A i \in S' : i <= j
      <4>1. n <= n
        BY <1>5
      <4>2. QED BY <1>5, <2>1, <2>2, <4>1
    <3>9. \E j \in S' : a'.high = done'[j].price /\ \A i \in S' : done'[i].price <= a'.high
      <4>1. \A i \in S : done[i].price <= a'.high
        BY <1>5, <3>2, <3>5, <3>6
      <4>2. \A i \in S' : done'[i].price <= a'.high
        BY <1>5, <2>1, <3>5, <4>1
      <4>3. \E j \in S' : a'.high = done'[j].price
        BY <1>5, <2>1, <3>5, <3>6
      <4>4. QED BY <4>2, <4>3
    <3>10. \E j \in S' : a'.low = done'[j].price /\ \A i \in S' : a'.low <= done'[i].price
      <4>1. \A i \in S : a'.low <= done[i].price
        BY <1>5, <3>2, <3>5, <3>6
      <4>2. \A i \in S' : a'.low <= done'[i].price
        BY <1>5, <2>1, <3>5, <4>1
      <4>3. \E j \in S' : a'.low = done'[j].price
        BY <1>5, <2>1, <3>5, <3>6
      <4>4. QED BY <4>2, <4>3
    <3>11. QED BY <3>7, <3>8, <3>9, <3>10 DEF Extremes, a, S
  <2>5. QED BY <2>3, <2>4
<1>7. CASE ~(f.pool = p /\ f.minute = t)
  <2>1. a' = a /\ S' = S
    BY <1>1, <1>7, OneMore, PoolRowStep
  <2> HIDE DEF a, S, n
  <2>2. Extremes(a, S)'
    BY <1>1, <1>5, <2>1 DEF Extremes
  <2>3. QED BY <2>2 DEF a, S
<1>8. QED BY <1>6, <1>7

\* One side's fill adds to one entry, and to no other.
LEMMA UpdateBmDomain ==
  ASSUME NEW M, DOMAIN M = BMs \X Pools \X Minutes, NEW b, NEW f, NEW s
  PROVE  DOMAIN UpdateBm(M, b, f, s) = BMs \X Pools \X Minutes
BY DEF UpdateBm

\* The effect of a fill on an entry: up to twice, as maker and as taker.
LEMMA BmRowStep ==
  ASSUME IInv, NEW f \in Samples, Add(f),
         NEW m \in BMs, NEW p \in Pools, NEW t \in Minutes
  PROVE  LET a == bms[<<m, p, t>>]
             made == f.maker = m /\ f.pool = p /\ f.minute = t
             took == f.taker = m /\ f.pool = p /\ f.minute = t
             b == bms'[<<m, p, t>>]
             of(c, q) == IF c THEN q ELSE 0 IN
         /\ DOMAIN bms' = BMs \X Pools \X Minutes
         /\ b \in BmEntry
         /\ b.trades = a.trades + of(made, 1) + of(took, 1)
         /\ b.maker_volume = a.maker_volume + of(made, f.quote)
         /\ b.taker_volume = a.taker_volume + of(took, f.quote)
         /\ b.volume_quote = b.maker_volume + b.taker_volume
<1> DEFINE a == bms[<<m, p, t>>]
           made == f.maker = m /\ f.pool = p /\ f.minute = t
           took == f.taker = m /\ f.pool = p /\ f.minute = t
           mid == UpdateBm(bms, f.maker, f, TRUE)
           b == bms'[<<m, p, t>>]
           c == mid[<<m, p, t>>]
           of(x, q) == IF x THEN q ELSE 0
<1>1. f \in Fill /\ DOMAIN bms = BMs \X Pools \X Minutes /\ Passing
  BY SamplesAssumption DEF IInv
<1>2. a \in BmEntry /\ a.volume_quote = a.maker_volume + a.taker_volume
  BY DEF IInv, BmSums
<1>3. f.maker \in BMs \cup {NoBm} /\ f.taker \in BMs \cup {NoBm} /\ f.quote \in Nat
  BY <1>1, FillFields
<1> DEFINE k == <<m, p, t>>
<1>4. k \in BMs \X Pools \X Minutes /\ NoBm \notin BMs
  BY RollupsAssumption
<1>5. /\ DOMAIN mid = BMs \X Pools \X Minutes
      /\ k # <<f.maker, f.pool, f.minute>> => mid[k] = bms[k]
      /\ k = <<f.maker, f.pool, f.minute>> =>
           mid[k] = [trades       |-> bms[k].trades + 1,
                     volume_quote |-> bms[k].volume_quote + f.quote,
                     maker_volume |-> bms[k].maker_volume + Credit(f, TRUE),
                     taker_volume |-> bms[k].taker_volume + Credit(f, ~TRUE)]
  <2> HIDE DEF k
  <2>1. DOMAIN mid = BMs \X Pools \X Minutes
    BY <1>1, UpdateBmDomain
  <2>2. ASSUME k # <<f.maker, f.pool, f.minute>> PROVE mid[k] = bms[k]
    BY <1>1, <1>4, <2>2 DEF UpdateBm
  <2>3. ASSUME k = <<f.maker, f.pool, f.minute>>
        PROVE mid[k] = [trades       |-> bms[k].trades + 1,
                     volume_quote |-> bms[k].volume_quote + f.quote,
                     maker_volume |-> bms[k].maker_volume + Credit(f, TRUE),
                     taker_volume |-> bms[k].taker_volume + Credit(f, ~TRUE)]
    <3>1. k # <<NoBm, f.pool, f.minute>>
      BY <1>4
    <3>2. QED BY <1>1, <1>4, <2>3, <3>1 DEF UpdateBm
  <2>4. QED BY <2>1, <2>2, <2>3
<1>6. /\ DOMAIN bms' = BMs \X Pools \X Minutes
      /\ k # <<f.taker, f.pool, f.minute>> => bms'[k] = mid[k]
      /\ k = <<f.taker, f.pool, f.minute>> =>
           bms'[k] = [trades       |-> mid[k].trades + 1,
                      volume_quote |-> mid[k].volume_quote + f.quote,
                      maker_volume |-> mid[k].maker_volume + Credit(f, FALSE),
                      taker_volume |-> mid[k].taker_volume + Credit(f, ~FALSE)]
  <2>1. bms' = UpdateBm(mid, f.taker, f, FALSE)
    BY DEF Add
  <2> HIDE DEF k, mid
  <2>2. DOMAIN bms' = BMs \X Pools \X Minutes
    BY <1>5, <2>1, UpdateBmDomain
  <2>3. ASSUME k # <<f.taker, f.pool, f.minute>> PROVE bms'[k] = mid[k]
    BY <1>4, <1>5, <2>1, <2>3 DEF UpdateBm
  <2>4. ASSUME k = <<f.taker, f.pool, f.minute>>
        PROVE bms'[k] = [trades       |-> mid[k].trades + 1,
                      volume_quote |-> mid[k].volume_quote + f.quote,
                      maker_volume |-> mid[k].maker_volume + Credit(f, FALSE),
                      taker_volume |-> mid[k].taker_volume + Credit(f, ~FALSE)]
    <3>1. k # <<NoBm, f.pool, f.minute>>
      BY <1>4
    <3>2. QED BY <1>4, <1>5, <2>1, <2>4, <3>1 DEF UpdateBm
  <2>5. QED BY <2>2, <2>3, <2>4
<1>7. /\ c = IF made THEN [trades       |-> a.trades + 1,
                           volume_quote |-> a.volume_quote + f.quote,
                           maker_volume |-> a.maker_volume + f.quote,
                           taker_volume |-> a.taker_volume + 0]
                     ELSE a
      /\ b = IF took THEN [trades       |-> c.trades + 1,
                           volume_quote |-> c.volume_quote + f.quote,
                           maker_volume |-> c.maker_volume + 0,
                           taker_volume |-> c.taker_volume + f.quote]
                     ELSE c
  <2> HIDE DEF mid
  <2>1. QED BY <1>5, <1>6 DEF Credit
<1> HIDE DEF a, b, c, mid, made, took, k
<1>8. /\ a.trades \in Nat /\ a.volume_quote \in Nat
      /\ a.maker_volume \in Nat /\ a.taker_volume \in Nat
  BY <1>2 DEF BmEntry
<1>9. /\ c \in BmEntry /\ c.trades = a.trades + of(made, 1)
      /\ c.maker_volume = a.maker_volume + of(made, f.quote)
      /\ c.taker_volume = a.taker_volume
      /\ c.volume_quote = c.maker_volume + c.taker_volume
  BY <1>2, <1>3, <1>7, <1>8 DEF BmEntry
<1>10. /\ c.trades \in Nat /\ c.volume_quote \in Nat
       /\ c.maker_volume \in Nat /\ c.taker_volume \in Nat
  BY <1>9 DEF BmEntry
<1>11. /\ b \in BmEntry /\ b.trades = c.trades + of(took, 1)
       /\ b.maker_volume = c.maker_volume
       /\ b.taker_volume = c.taker_volume + of(took, f.quote)
       /\ b.volume_quote = b.maker_volume + b.taker_volume
  BY <1>3, <1>7, <1>9, <1>10 DEF BmEntry
<1>12. QED BY <1>6, <1>9, <1>11 DEF a, b, made, took

\* One more fill, on one side or not, adds it to that side's count and sum.
LEMMA SideStep ==
  ASSUME Passing, NEW f \in Samples, Add(f), NEW S, S \subseteq DOMAIN done,
         NEW c \in BOOLEAN
  PROVE  LET n == Len(done) + 1
             T == IF c THEN S \cup {n} ELSE S IN
         /\ Cardinality(S) \in Nat
         /\ Cardinality(T) = Cardinality(S) + (IF c THEN 1 ELSE 0)
         /\ Total(QuoteOf, S) \in Int
         /\ Total(QuoteOf', T) = Total(QuoteOf, S) + (IF c THEN f.quote ELSE 0)
<1> DEFINE n == Len(done) + 1
<1>1. IsFiniteSet(S) /\ Cardinality(S) \in Nat
  BY PassedFinite
<1>2. f.quote \in Nat
  BY OneMore, FillFields
<1>3. /\ QuoteOf'[n] = f.quote /\ n \notin S
      /\ \A j \in S : QuoteOf[j] = QuoteOf'[j]
  BY ColumnsStep
<1>4. \A j \in S : QuoteOf[j] \in Int
  <2>1. \A j \in DOMAIN done : QuoteOf[j] \in Nat
    BY Columns
  <2>2. QED BY <2>1
<1> HIDE DEF n
<1>5. Cardinality(S \cup {n}) = Cardinality(S) + 1
  BY <1>1, <1>3, FS_AddElement
<1>6. Total(QuoteOf', S) = Total(QuoteOf, S)
  BY <1>1, <1>3, TotalSame
<1>7. \A j \in S \cup {n} : QuoteOf'[j] \in Int
  BY <1>2, <1>3, <1>4
<1>8. Total(QuoteOf', S \cup {n}) = Total(QuoteOf', S) + QuoteOf'[n]
  BY <1>1, <1>3, <1>7, TotalAdd
<1>9. Total(QuoteOf, S) \in Int
  BY <1>1, <1>4, TotalRemove
<1>10. QED BY <1>1, <1>3, <1>5, <1>6, <1>8, <1>9 DEF n

LEMMA Appended ==
  ASSUME Passing, NEW f \in Samples, Add(f)
  PROVE  LET n == Len(done) + 1 IN
         /\ DOMAIN done' = DOMAIN done \cup {n} /\ done'[n] = f
         /\ \A j \in DOMAIN done : n # j /\ done'[j] = done[j]
<1> DEFINE n == Len(done) + 1
<1>1. /\ n \in Nat /\ DOMAIN done = 1..(n - 1) /\ DOMAIN done' = 1..n /\ done'[n] = f
      /\ \A j \in DOMAIN done : done'[j] = done[j]
  BY OneMore
<1>2. n \in Nat \ {0}
  BY DEF Passing
<1> HIDE DEF n
<1>3. QED BY <1>1, <1>2 DEF n

LEMMA BmStep ==
  ASSUME IInv, NEW f \in Samples, Add(f),
         NEW m \in BMs, NEW p \in Pools, NEW t \in Minutes
  PROVE  BmSums(bms[<<m, p, t>>], MakerFills(m, p, {t}), TakerFills(m, p, {t}))'
<1> DEFINE n == Len(done) + 1
           a == bms[<<m, p, t>>]
           made == MakerFills(m, p, {t})
           took == TakerFills(m, p, {t})
           makes == f.maker = m /\ f.pool = p /\ f.minute = t
           takes == f.taker = m /\ f.pool = p /\ f.minute = t
<1>1. Passing /\ BmSums(a, made, took)
  BY DEF IInv
<1>2. made \subseteq DOMAIN done /\ took \subseteq DOMAIN done
  BY DEF MakerFills, TakerFills, Passed
<1>3. /\ made' = IF makes THEN made \cup {n} ELSE made
      /\ took' = IF takes THEN took \cup {n} ELSE took
  <2>1. /\ DOMAIN done' = DOMAIN done \cup {n} /\ done'[n] = f
        /\ \A j \in DOMAIN done : n # j /\ done'[j] = done[j]
    BY <1>1, Appended
  <2> HIDE DEF n
  <2>2. made' = IF makes THEN made \cup {n} ELSE made
    <3>1. CASE makes
      BY <2>1, <3>1 DEF MakerFills, Passed
    <3>2. CASE ~makes
      BY <2>1, <3>2 DEF MakerFills, Passed
    <3>3. QED BY <3>1, <3>2
  <2>3. took' = IF takes THEN took \cup {n} ELSE took
    <3>1. CASE takes
      BY <2>1, <3>1 DEF TakerFills, Passed
    <3>2. CASE ~takes
      BY <2>1, <3>2 DEF TakerFills, Passed
    <3>3. QED BY <3>1, <3>2
  <2>4. QED BY <2>2, <2>3
<1>4. /\ a' \in BmEntry
      /\ a'.trades = a.trades + (IF makes THEN 1 ELSE 0) + (IF takes THEN 1 ELSE 0)
      /\ a'.maker_volume = a.maker_volume + (IF makes THEN f.quote ELSE 0)
      /\ a'.taker_volume = a.taker_volume + (IF takes THEN f.quote ELSE 0)
      /\ a'.volume_quote = a'.maker_volume + a'.taker_volume
  BY BmRowStep
<1>5. /\ a.trades = Cardinality(made) + Cardinality(took)
      /\ a.maker_volume = Total(QuoteOf, made) /\ a.taker_volume = Total(QuoteOf, took)
  BY <1>1 DEF BmSums
<1> HIDE DEF a, made, took
<1>6. /\ Cardinality(made) \in Nat
      /\ Cardinality(made') = Cardinality(made) + (IF makes THEN 1 ELSE 0)
      /\ Total(QuoteOf', made') = Total(QuoteOf, made) + (IF makes THEN f.quote ELSE 0)
  BY <1>1, <1>2, <1>3, SideStep
<1>7. /\ Cardinality(took) \in Nat
      /\ Cardinality(took') = Cardinality(took) + (IF takes THEN 1 ELSE 0)
      /\ Total(QuoteOf', took') = Total(QuoteOf, took) + (IF takes THEN f.quote ELSE 0)
  BY <1>1, <1>2, <1>3, SideStep
<1> HIDE DEF makes, takes
<1>8. /\ a'.trades = Cardinality(made') + Cardinality(took')
      /\ a'.maker_volume = Total(QuoteOf', made')
      /\ a'.taker_volume = Total(QuoteOf', took')
  BY <1>4, <1>5, <1>6, <1>7
<1>9. QED BY <1>4, <1>8 DEF BmSums, a, made, took

LEMMA InitIInv == Init => IInv
<1>1. SUFFICES ASSUME Init PROVE IInv
  OBVIOUS
<1>2. RowInv(NoPool)
  BY DEF RowInv, PoolRow, PricesSet, WellFormed, NoPool
<1>3. done = <<>> /\ DOMAIN done = {}
  BY <1>1 DEF Init
<1>4. Passing
  BY <1>3 DEF Passing
<1>5. \A p, M : /\ Passed(p, M) = {}
                /\ \A m : MakerFills(m, p, M) = {} /\ TakerFills(m, p, M) = {}
  BY <1>3 DEF Passed, MakerFills, TakerFills
<1>6. Sums(NoPool, {}) /\ Extremes(NoPool, {})
  BY TotalEmpty, FS_EmptySet DEF Sums, Extremes, NoPool
<1>7. BmSums(NoEntry, {}, {})
  BY TotalEmpty, FS_EmptySet DEF BmSums, BmEntry, NoEntry
<1>8. /\ DOMAIN pools = Pools \X Minutes
      /\ \A k \in Pools \X Minutes : pools[k] = NoPool
  BY <1>1 DEF Init
<1>9. /\ DOMAIN bms = BMs \X Pools \X Minutes
      /\ \A k \in BMs \X Pools \X Minutes : bms[k] = NoEntry
  BY <1>1 DEF Init
<1>10. ASSUME NEW p \in Pools, NEW t \in Minutes
       PROVE  /\ Sums(pools[<<p, t>>], Passed(p, {t}))
              /\ Extremes(pools[<<p, t>>], Passed(p, {t}))
  <2>1. pools[<<p, t>>] = NoPool
    BY <1>8
  <2>2. Passed(p, {t}) = {}
    BY <1>5
  <2>3. QED BY <1>6, <2>1, <2>2
<1>11. ASSUME NEW m \in BMs, NEW p \in Pools, NEW t \in Minutes
       PROVE  BmSums(bms[<<m, p, t>>], MakerFills(m, p, {t}), TakerFills(m, p, {t}))
  <2>1. bms[<<m, p, t>>] = NoEntry
    BY <1>9
  <2>2. MakerFills(m, p, {t}) = {} /\ TakerFills(m, p, {t}) = {}
    BY <1>5
  <2>3. QED BY <1>7, <2>1, <2>2
<1>12. QED BY <1>2, <1>4, <1>8, <1>9, <1>10, <1>11 DEF IInv

LEMMA StepKeepsIInv == IInv /\ [Next]_vars => IInv'
<1>1. SUFFICES ASSUME IInv, [Next]_vars PROVE IInv'
  OBVIOUS
<1>2. ASSUME NEW f \in Samples, Add(f) PROVE IInv'
  <2>1. f \in Fill /\ <<f.pool, f.minute>> \in Pools \X Minutes
    BY SamplesAssumption DEF Fill
  <2>2. pools' = [pools EXCEPT ![<<f.pool, f.minute>>] = AddToPool(@, f)]
    BY <1>2 DEF Add
  <2>3. RowInv(AddToPool(pools[<<f.pool, f.minute>>], f))
    BY <1>1, <2>1, AddToPoolKeeps DEF IInv
  <2>4. /\ DOMAIN pools' = Pools \X Minutes
        /\ \A k \in Pools \X Minutes : RowInv(pools'[k])
    BY <1>1, <2>1, <2>2, <2>3 DEF IInv
  <2>5. Passing'
    BY <1>1, <1>2, PassingStep DEF IInv
  <2>6. \A p \in Pools, t \in Minutes :
          /\ Sums(pools[<<p, t>>], Passed(p, {t}))'
          /\ Extremes(pools[<<p, t>>], Passed(p, {t}))'
    BY <1>1, <1>2, SumsStep, ExtremesStep
  <2>7. DOMAIN bms' = BMs \X Pools \X Minutes
    <3>1. /\ f \in Fill /\ f.maker \in BMs \cup {NoBm} /\ f.taker \in BMs \cup {NoBm}
          /\ DOMAIN bms = BMs \X Pools \X Minutes
      BY <1>1, <2>1, FillFields DEF IInv
    <3>2. QED BY <1>2, <3>1 DEF Add, UpdateBm
  <2>8. \A m \in BMs, p \in Pools, t \in Minutes :
          BmSums(bms[<<m, p, t>>], MakerFills(m, p, {t}), TakerFills(m, p, {t}))'
    BY <1>1, <1>2, BmStep
  <2>9. QED BY <2>4, <2>5, <2>6, <2>7, <2>8 DEF IInv
<1>3. CASE UNCHANGED vars
  <2>1. done' = done /\ pools' = pools /\ bms' = bms
    BY <1>3 DEF vars
  <2>2. Passing' = Passing
    BY <2>1 DEF Passing
  <2>3. BaseOf' = BaseOf /\ QuoteOf' = QuoteOf /\ PxBaseOf' = PxBaseOf
    BY <2>1 DEF BaseOf, QuoteOf, PxBaseOf
  <2>4. \A p \in Pools, t \in Minutes :
          /\ Sums(pools[<<p, t>>], Passed(p, {t}))' = Sums(pools[<<p, t>>], Passed(p, {t}))
          /\ Extremes(pools[<<p, t>>], Passed(p, {t}))' = Extremes(pools[<<p, t>>], Passed(p, {t}))
    BY <2>1, <2>3 DEF Sums, Extremes, Passed
  <2>5. \A m \in BMs, p \in Pools, t \in Minutes :
          BmSums(bms[<<m, p, t>>], MakerFills(m, p, {t}), TakerFills(m, p, {t}))'
            = BmSums(bms[<<m, p, t>>], MakerFills(m, p, {t}), TakerFills(m, p, {t}))
    BY <2>1, <2>3 DEF BmSums, MakerFills, TakerFills, Passed
  <2>6. QED BY <1>1, <2>1, <2>2, <2>4, <2>5 DEF IInv
<1>4. QED BY <1>1, <1>2, <1>3 DEF Next
-----------------------------------------------------------------------------
\* The invariant holds of every row in every reachable state.
THEOREM Invariance == Spec => []IInv
BY InitIInv, StepKeepsIInv, PTL DEF Spec

\* compute_rollups never produces a malformed candle: low and high bound open,
\* close and the vwap, after any fills, also ones of base size 0.
THEOREM CandlesAreWellFormed == Spec => []CandlesWellFormed
<1>1. IInv => CandlesWellFormed
  BY DEF IInv, RowInv, WellFormed, CandlesWellFormed
<1>2. QED BY <1>1, Invariance, PTL

\* Each fill's quote volume goes to one of a pool's two sides, never to both
\* and never to none.
THEOREM SidesArePartition == Spec => []SidesPartitionVolume
<1>1. IInv => SidesPartitionVolume
  BY DEF IInv, RowInv, SidesPartitionVolume
<1>2. QED BY <1>1, Invariance, PTL

\* The column sums of the properties, which MapThenSumSet unrolls, are Totals.
LEMMA BaseTotal ==
  ASSUME NEW S, IsFiniteSet(S), NEW f, \A j \in S : f[j] = Base(j)
  PROVE  MapThenSumSet(Base, S) = Total(f, S)
<1>1. PICK g : Unrolls(g, f, S)
  BY UnrollsExists
<1>2. \A s \in SUBSET S :
        s # {} => f[CHOOSE x \in s : TRUE] = Base(CHOOSE x \in s : TRUE)
  OBVIOUS
<1> DEFINE D(h) == h = [s \in SUBSET S |->
                    IF s = {} THEN 0
                    ELSE Base(CHOOSE x \in s : TRUE) + h[s \ {CHOOSE x \in s : TRUE}]]
           h == CHOOSE u : D(u)
<1>3. D(g)
  BY <1>1, <1>2, ChoiceIn DEF Unrolls, Choice
<1>4. MapThenSumSet(Base, S) = h[S] /\ D(h)
  <2>1. MapThenSumSet(Base, S) = h[S]
    BY DEF MapThenSumSet, MapThenFoldSet
  <2> HIDE DEF D
  <2>2. D(h)
    BY <1>3
  <2>3. QED BY <2>1, <2>2
<1> HIDE DEF h
<1>5. Unrolls(h, f, S)
  BY <1>2, <1>4, ChoiceIn DEF Unrolls, Choice
<1>6. h[S] = Total(f, S)
  BY <1>5, Unrolled
<1>7. QED BY <1>4, <1>6

LEMMA QuoteTotal ==
  ASSUME NEW S, IsFiniteSet(S), NEW f, \A j \in S : f[j] = Quote(j)
  PROVE  MapThenSumSet(Quote, S) = Total(f, S)
<1>1. PICK g : Unrolls(g, f, S)
  BY UnrollsExists
<1>2. \A s \in SUBSET S :
        s # {} => f[CHOOSE x \in s : TRUE] = Quote(CHOOSE x \in s : TRUE)
  OBVIOUS
<1> DEFINE D(h) == h = [s \in SUBSET S |->
                    IF s = {} THEN 0
                    ELSE Quote(CHOOSE x \in s : TRUE) + h[s \ {CHOOSE x \in s : TRUE}]]
           h == CHOOSE u : D(u)
<1>3. D(g)
  BY <1>1, <1>2, ChoiceIn DEF Unrolls, Choice
<1>4. MapThenSumSet(Quote, S) = h[S] /\ D(h)
  <2>1. MapThenSumSet(Quote, S) = h[S]
    BY DEF MapThenSumSet, MapThenFoldSet
  <2> HIDE DEF D
  <2>2. D(h)
    BY <1>3
  <2>3. QED BY <2>1, <2>2
<1> HIDE DEF h
<1>5. Unrolls(h, f, S)
  BY <1>2, <1>4, ChoiceIn DEF Unrolls, Choice
<1>6. h[S] = Total(f, S)
  BY <1>5, Unrolled
<1>7. QED BY <1>4, <1>6

\* A least and a greatest element are the Min and the Max.
LEMMA MinIs ==
  ASSUME NEW S, S \subseteq Int, NEW x \in S, \A y \in S : x <= y
  PROVE  Min(S) = x
<1>1. Min(S) \in S /\ \A y \in S : Min(S) <= y
  BY DEF Min
<1>2. Min(S) <= x /\ x <= Min(S) /\ x \in Int /\ Min(S) \in Int
  BY <1>1
<1>3. QED BY <1>2

LEMMA MaxIs ==
  ASSUME NEW S, S \subseteq Int, NEW x \in S, \A y \in S : y <= x
  PROVE  Max(S) = x
<1>1. Max(S) \in S /\ \A y \in S : y <= Max(S)
  BY DEF Max
<1>2. Max(S) <= x /\ x <= Max(S) /\ x \in Int /\ Max(S) \in Int
  BY <1>1
<1>3. QED BY <1>2

\* Every row of compute_rollups counts each fill of its pool and minute once
\* and no other, adds up their base and quote sizes, and has the prices of the
\* first and the last of them, after any fills.
THEOREM PoolRowsHoldTotals == Spec => []PoolRowsAreTotals
<1>1. ASSUME IInv, NEW p \in Pools, NEW t \in Minutes
      PROVE  LET S == Passed(p, {t}) a == pools[<<p, t>>] IN
             /\ a.trades = Cardinality(S)
             /\ a.volume_base = MapThenSumSet(Base, S)
             /\ a.volume_quote = MapThenSumSet(Quote, S)
             /\ S # {} => /\ a.open = done[Min(S)].price
                          /\ a.last = done[Max(S)].price
  <2> DEFINE S == Passed(p, {t})
             a == pools[<<p, t>>]
  <2>1. Passing /\ Sums(a, S) /\ Extremes(a, S)
    BY <1>1 DEF IInv
  <2>2. S \subseteq DOMAIN done
    BY DEF Passed
  <2>3. IsFiniteSet(S) /\ S \subseteq Nat
    BY <2>1, <2>2, PassedFinite
  <2>4. \A j \in S : BaseOf[j] = Base(j) /\ QuoteOf[j] = Quote(j)
    BY <2>2 DEF BaseOf, QuoteOf, Base, Quote
  <2> HIDE DEF S, a
  <2>5. /\ MapThenSumSet(Base, S) = Total(BaseOf, S)
        /\ MapThenSumSet(Quote, S) = Total(QuoteOf, S)
    <3>1. MapThenSumSet(Base, S) = Total(BaseOf, S)
      BY <2>3, <2>4, BaseTotal
    <3>2. MapThenSumSet(Quote, S) = Total(QuoteOf, S)
      BY <2>3, <2>4, QuoteTotal
    <3>3. QED BY <3>1, <3>2
  <2>6. ASSUME S # {}
        PROVE  a.open = done[Min(S)].price /\ a.last = done[Max(S)].price
    <3>1. PICK j \in S : a.open = done[j].price /\ \A i \in S : j <= i
      BY <2>1, <2>6 DEF Extremes
    <3>2. PICK k \in S : a.last = done[k].price /\ \A i \in S : i <= k
      BY <2>1, <2>6 DEF Extremes
    <3>3. S \subseteq Int
      BY <2>3
    <3>4. Min(S) = j /\ Max(S) = k
      BY <3>1, <3>2, <3>3, MinIs, MaxIs
    <3>5. QED BY <3>1, <3>2, <3>4
  <2>7. /\ a.trades = Cardinality(S)
        /\ a.volume_base = Total(BaseOf, S) /\ a.volume_quote = Total(QuoteOf, S)
    BY <2>1 DEF Sums
  <2>8. QED BY <2>5, <2>6, <2>7 DEF S, a
<1>2. IInv => PoolRowsAreTotals
  BY <1>1 DEF PoolRowsAreTotals
<1>3. QED BY <1>2, Invariance, PTL

\* update_bm credits a BalanceManager with each fill it made and each one it
\* took, and with no other; it counts the fills it took part in as long as
\* none of them is with itself.
THEOREM BmRowsHoldTotals == Spec => []BmRowsAreTotals
<1>1. ASSUME IInv, NEW m \in BMs, NEW p \in Pools, NEW t \in Minutes
      PROVE  LET made == MakerFills(m, p, {t}) took == TakerFills(m, p, {t})
                 a == bms[<<m, p, t>>] IN
             /\ a.maker_volume = MapThenSumSet(Quote, made)
             /\ a.taker_volume = MapThenSumSet(Quote, took)
             /\ a.volume_quote = a.maker_volume + a.taker_volume
             /\ made \cap took = {} =>
                  a.trades = Cardinality(TookPartIn(m, p, {t}))
  <2> DEFINE made == MakerFills(m, p, {t})
             took == TakerFills(m, p, {t})
             a == bms[<<m, p, t>>]
  <2>1. Passing /\ BmSums(a, made, took)
    BY <1>1 DEF IInv
  <2>2. made \subseteq DOMAIN done /\ took \subseteq DOMAIN done
    BY DEF MakerFills, TakerFills, Passed
  <2>3. \A j \in DOMAIN done : QuoteOf[j] = Quote(j)
    BY DEF QuoteOf, Quote
  <2> HIDE DEF made, took, a
  <2>4. MapThenSumSet(Quote, made) = Total(QuoteOf, made)
    <3>1. IsFiniteSet(made)
      BY <2>1, <2>2, PassedFinite
    <3>2. \A j \in made : QuoteOf[j] = Quote(j)
      BY <2>2, <2>3
    <3>3. QED BY <3>1, <3>2, QuoteTotal
  <2>5. MapThenSumSet(Quote, took) = Total(QuoteOf, took)
    <3>1. IsFiniteSet(took)
      BY <2>1, <2>2, PassedFinite
    <3>2. \A j \in took : QuoteOf[j] = Quote(j)
      BY <2>2, <2>3
    <3>3. QED BY <3>1, <3>2, QuoteTotal
  <2>6. ASSUME made \cap took = {}
        PROVE  a.trades = Cardinality(made \cup took)
    <3>1. IsFiniteSet(made) /\ IsFiniteSet(took)
      BY <2>1, <2>2, PassedFinite
    <3>2. Cardinality(made \cup took)
            = Cardinality(made) + Cardinality(took) - Cardinality(made \cap took)
      BY <3>1, FS_Union
    <3>3. Cardinality(made \cap took) = 0
      BY <2>6, FS_EmptySet
    <3>4. Cardinality(made) \in Nat /\ Cardinality(took) \in Nat
      BY <3>1, FS_CardinalityType
    <3>5. Cardinality(made \cup took) = Cardinality(made) + Cardinality(took)
      BY <3>2, <3>3, <3>4
    <3>6. QED BY <3>5, <2>1 DEF BmSums
  <2>7. a.maker_volume = MapThenSumSet(Quote, made)
    BY <2>1, <2>4 DEF BmSums
  <2>8. a.taker_volume = MapThenSumSet(Quote, took)
    BY <2>1, <2>5 DEF BmSums
  <2>9. a.volume_quote = a.maker_volume + a.taker_volume
    BY <2>1 DEF BmSums
  <2>10. made \cup took = TookPartIn(m, p, {t})
    BY DEF TookPartIn, made, took
  <2>11. QED BY <2>6, <2>7, <2>8, <2>9, <2>10 DEF made, took, a
<1>2. IInv => BmRowsAreTotals
  BY <1>1 DEF BmRowsAreTotals
<1>3. QED BY <1>2, Invariance, PTL
=============================================================================
