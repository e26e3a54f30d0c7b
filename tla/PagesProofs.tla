---------------------------- MODULE PagesProofs ----------------------------
(* What a walk over the pages yields for any rows, limits, window and      *)
(* bounds, whatever is committed and however far the clock goes between    *)
(* two requests.                                                           *)
EXTENDS Pages, TLAPS, FiniteSetTheorems, WellFoundedInduction

Position == Nat \X Nat

\* Row f stands for e: it is of the same millisecond, and of the same position
\* where there are no fractions.
Ties(f, e) == Ms(f) = Ms(e) /\ (WholeMs => At(f) = At(e))

\* Some row that was received stands for e.
Covered(e) == \E i \in DOMAIN pages : \E f \in pages[i] : Ties(f, e)

\* Position p does not come before row e, to the millisecond; and not at all
\* where there are no fractions.
NotBefore(p, e) == p[1] <= Ms(e) /\ (WholeMs => ~Precedes(p, At(e)))

(***************************************************************************)
(* The inductive invariant.  The cursor is a position no received row      *)
(* comes after; and, with a limit in range, every row there was at the     *)
(* first request is covered, comes after the cursor, or is too old now.    *)
(***************************************************************************)
CursorIsLast ==
  /\ (cursor = NoCursor /\ ~done) => pages = <<>>
  /\ cursor # NoCursor => \A i \in DOMAIN pages : \A e \in pages[i] :
                            NotBefore(cursor, e)

Ahead ==
  (pages # <<>> /\ limit \in 1..MaxLimit) =>
    \A e \in first : InWindow(e) =>
      Covered(e) \/ (cursor # NoCursor /\ Precedes(cursor, At(e)))

IInv ==
  /\ WalkTypes /\ first \subseteq Facts
  /\ done => cursor = NoCursor
  /\ pages = <<>> => cursor = NoCursor /\ ~done
  /\ CursorIsLast /\ PagesDescend /\ Ahead
-----------------------------------------------------------------------------
(* Positions. *)

LEMMA DivBounds ==
  ASSUME NEW a \in Nat
  PROVE  /\ a \div PerMs \in Nat
         /\ (a \div PerMs) * PerMs \in Nat
         /\ (a \div PerMs) * PerMs <= a
         /\ a < (a \div PerMs) * PerMs + PerMs
BY PagesAssumption

LEMMA PositionOfRow ==
  ASSUME time \in Times, NEW e \in Rows
  PROVE  /\ time[e] \in Nat /\ Ms(e) \in Nat /\ CpSeq[e] \in Nat
         /\ At(e) \in Position /\ At(e)[1] = Ms(e) /\ At(e)[2] = CpSeq[e]
         /\ Sorted(e) \in Position /\ Sorted(e)[1] = time[e]
         /\ Sorted(e)[2] = CpSeq[e]
<1>1. time[e] \in Nat /\ CpSeq[e] \in Nat
  BY PagesAssumption
<1>2. PerMs \div 2 \in Nat /\ PerMs \in Nat
  BY PagesAssumption
<1>3. Ms(e) \in Nat
  BY <1>1, <1>2, DivBounds DEF Ms
<1>4. QED BY <1>1, <1>3 DEF At, Sorted, Position

\* Rounding keeps the order of times.
LEMMA MsMonotone ==
  ASSUME time \in Times, NEW e \in Rows, NEW f \in Rows, time[e] <= time[f]
  PROVE  Ms(e) <= Ms(f)
<1> DEFINE h == PerMs \div 2
           k == (time[e] + h) \div PerMs
           m == (time[f] + h) \div PerMs
<1>1. h \in Nat /\ PerMs \in Nat /\ time[e] \in Nat /\ time[f] \in Nat
  BY PagesAssumption
<1> HIDE DEF h
<1>2. /\ k \in Nat /\ m \in Nat /\ k * PerMs \in Nat /\ m * PerMs \in Nat
      /\ k * PerMs <= time[e] + h /\ time[f] + h < m * PerMs + PerMs
  <2>1. time[e] + h \in Nat /\ time[f] + h \in Nat
    BY <1>1
  <2>2. QED BY <2>1, DivBounds
<1> HIDE DEF k, m
<1>3. k * PerMs < m * PerMs + PerMs
  BY <1>1, <1>2
<1>4. ASSUME m < k PROVE FALSE
  <2>1. k - (m + 1) \in Nat /\ k = m + 1 + (k - (m + 1))
    BY <1>2, <1>4
  <2>2. PICK d \in Nat : k = m + 1 + d
    BY <2>1
  <2>3. k * PerMs = m * PerMs + PerMs + d * PerMs /\ d * PerMs \in Nat
    BY <1>1, <1>2, <2>2
  <2>4. QED BY <1>1, <1>2, <1>3, <2>3
<1>5. QED BY <1>2, <1>4 DEF Ms, h, k, m

\* A row that does not come before another in the query's order has not the
\* later millisecond, nor, without fractions, the earlier position.
LEMMA SortedTells ==
  ASSUME time \in Times, Wanted \subseteq Rows, NEW e \in Wanted, NEW f \in Wanted,
         ~Precedes(Sorted(e), Sorted(f))
  PROVE  Ms(e) <= Ms(f) /\ (WholeMs => ~Precedes(At(e), At(f)))
<1>1. /\ time[e] \in Nat /\ time[f] \in Nat /\ Ms(e) \in Nat /\ Ms(f) \in Nat
      /\ CpSeq[e] \in Nat /\ CpSeq[f] \in Nat
  BY PositionOfRow
<1>2. time[e] <= time[f] /\ (time[e] = time[f] => CpSeq[e] <= CpSeq[f])
  BY <1>1 DEF Precedes, Sorted
<1>3. Ms(e) <= Ms(f)
  BY <1>2, MsMonotone
<1>4. ASSUME WholeMs, Ms(e) = Ms(f) PROVE time[e] = time[f]
  <2>1. time[e] = PerMs * Ms(e) /\ time[f] = PerMs * Ms(f)
    BY <1>4 DEF WholeMs
  <2>2. QED BY <2>1, <1>4
<1>5. QED BY <1>1, <1>2, <1>3, <1>4 DEF Precedes, At

\* The order of positions is total and transitive.
LEMMA Orders ==
  ASSUME NEW p \in Position, NEW q \in Position, NEW r \in Position
  PROVE  /\ p = q \/ Precedes(p, q) \/ Precedes(q, p)
         /\ ~Precedes(q, p) /\ Precedes(q, r) => Precedes(p, r)
         /\ Precedes(p, q) => ~Precedes(q, p)
<1>1. /\ p[1] \in Nat /\ p[2] \in Nat /\ q[1] \in Nat /\ q[2] \in Nat
      /\ r[1] \in Nat /\ r[2] \in Nat
      /\ p = <<p[1], p[2]>> /\ q = <<q[1], q[2]>>
  BY DEF Position
<1>2. QED BY <1>1 DEF Precedes

LEMMA LeastNat ==
  ASSUME NEW T, T \subseteq Nat, T # {}
  PROVE  \E x \in T : \A y \in T : x <= y
<1>1. PICK x \in T : \A y \in T : ~(<<y, x>> \in OpToRel(<, Nat))
  BY WFMin, NatLessThanWellFounded
<1>2. \A y \in T : ~(y < x)
  BY <1>1 DEF OpToRel
<1>3. QED BY <1>2

\* A page that is not empty has a last row.
LEMMA LastIsLast ==
  ASSUME time \in Times, NEW P, P \subseteq Wanted, P # {}
  PROVE  \E g \in P : /\ Last(P) = At(g) /\ Last(P) \in Position
                      /\ \A e \in P : ~Precedes(Sorted(g), Sorted(e))
                      /\ \A e \in P : NotBefore(Last(P), e)
<1> DEFINE Q == {Sorted(e) : e \in P}
<1>0. P \subseteq Rows /\ Wanted \subseteq Rows
  BY PagesAssumption
<1>1. Q \subseteq Position /\ Q # {}
  BY <1>0, PositionOfRow
<1>2. PICK t \in {p[1] : p \in Q} : \A y \in {p[1] : p \in Q} : t <= y
  <2>1. {p[1] : p \in Q} \subseteq Nat /\ {p[1] : p \in Q} # {}
    BY <1>1 DEF Position
  <2>2. QED BY <2>1, LeastNat
<1>3. PICK z \in {p[2] : p \in {p \in Q : p[1] = t}} :
        \A y \in {p[2] : p \in {p \in Q : p[1] = t}} : z <= y
  <2>1. /\ {p[2] : p \in {p \in Q : p[1] = t}} \subseteq Nat
        /\ {p[2] : p \in {p \in Q : p[1] = t}} # {}
    BY <1>1, <1>2 DEF Position
  <2>2. QED BY <2>1, LeastNat
<1>4. PICK h \in P : Sorted(h)[1] = t /\ Sorted(h)[2] = z
  BY <1>3
<1>5. \A e \in P : ~Precedes(Sorted(h), Sorted(e))
  <2>1. SUFFICES ASSUME NEW e \in P PROVE ~Precedes(Sorted(h), Sorted(e))
    OBVIOUS
  <2>2. Sorted(e) \in Q /\ Sorted(e) \in Position /\ Sorted(h) \in Position
    BY <1>1
  <2>3. t <= Sorted(e)[1]
    BY <1>2, <2>2
  <2>4. Sorted(e)[1] = t => z <= Sorted(e)[2]
    BY <1>3, <2>2
  <2>5. /\ t \in Nat /\ z \in Nat /\ Sorted(e)[1] \in Nat /\ Sorted(e)[2] \in Nat
    BY <1>4, <2>2 DEF Position
  <2>6. QED BY <1>4, <2>3, <2>4, <2>5 DEF Precedes
<1> DEFINE g == CHOOSE e \in P : \A f \in P : ~Precedes(Sorted(e), Sorted(f))
<1>6. g \in P /\ \A e \in P : ~Precedes(Sorted(g), Sorted(e))
  BY <1>5
<1>7. Last(P) = At(g)
  BY DEF Last
<1> HIDE DEF g, Q
<1>8. At(g) \in Position /\ At(g)[1] = Ms(g)
  BY <1>0, <1>6, PositionOfRow
<1>9. \A e \in P : NotBefore(At(g), e)
  <2>1. SUFFICES ASSUME NEW e \in P PROVE NotBefore(At(g), e)
    OBVIOUS
  <2>2. g \in Wanted /\ e \in Wanted /\ ~Precedes(Sorted(g), Sorted(e))
    BY <1>6
  <2>3. Ms(g) <= Ms(e) /\ (WholeMs => ~Precedes(At(g), At(e)))
    BY <1>0, <2>2, SortedTells
  <2>4. QED BY <1>8, <2>3 DEF NotBefore
<1>10. QED BY <1>6, <1>7, <1>8, <1>9
-----------------------------------------------------------------------------
(* One page. *)

LEMMA FactsFinite ==
  ASSUME NEW S, S \subseteq Rows
  PROVE  IsFiniteSet(S) /\ Cardinality(S) \in Nat
BY PagesAssumption, FS_Subset, FS_CardinalityType

LEMMA ClampedInRange ==
  ASSUME limit \in 1..MaxLimit
  PROVE  Clamped(limit) = limit
BY PagesAssumption DEF Clamped

\* With a limit in range, a row that was asked for is on the page, ties with
\* the page's last row, or comes after the next cursor.
LEMMA PageCovers ==
  ASSUME time \in Times, limit \in 1..MaxLimit, NEW P \in FirstRows(AfterCursor, Clamped(limit)),
         NEW e \in AfterCursor
  PROVE  \/ \E f \in P : Ties(f, e)
         \/ NextCursor(P) # NoCursor /\ Precedes(NextCursor(P), At(e))
<1>1. AfterCursor \subseteq Rows /\ AfterCursor \subseteq Wanted
  BY DEF AfterCursor, Visible, Facts
<1>2. /\ P \subseteq AfterCursor
      /\ Cardinality(P) = IF Cardinality(AfterCursor) < limit
                          THEN Cardinality(AfterCursor) ELSE limit
      /\ \A g \in P, f \in AfterCursor \ P : ~Precedes(Sorted(f), Sorted(g))
  BY ClampedInRange DEF FirstRows
<1>3. CASE e \in P
  BY <1>3 DEF Ties
<1>4. CASE e \notin P
  <2>1. Cardinality(P) = limit /\ P # {}
    <3>1. P # AfterCursor
      BY <1>4
    <3>2. Cardinality(AfterCursor) # Cardinality(P)
      BY <1>1, <1>2, <3>1, FactsFinite, FS_Subset
    <3>3. Cardinality(P) = limit
      BY <1>2, <3>2
    <3>4. limit # 0 /\ Cardinality({}) = 0
      BY FS_EmptySet, PagesAssumption
    <3>5. QED BY <3>3, <3>4
  <2>2. PICK f \in P : Last(P) = At(f) /\ Last(P) \in Position
    BY <1>1, <1>2, <2>1, LastIsLast
  <2>3. /\ NextCursor(P) = At(f) /\ At(f) \in Position /\ At(e) \in Position
        /\ At(f)[1] = Ms(f) /\ At(e)[1] = Ms(e)
    BY <1>1, <1>2, <2>1, <2>2, PositionOfRow DEF NextCursor
  <2>4. Ms(e) <= Ms(f) /\ (WholeMs => ~Precedes(At(e), At(f)))
    <3>1. ~Precedes(Sorted(e), Sorted(f)) /\ e \in Wanted /\ f \in Wanted
      BY <1>1, <1>2, <1>4
    <3>2. QED BY <3>1, SortedTells, PagesAssumption
  <2>5. At(f) # NoCursor
    BY <2>3, PagesAssumption DEF Position
  <2>6. CASE Precedes(At(f), At(e))
    BY <2>3, <2>5, <2>6
  <2>7. CASE ~Precedes(At(f), At(e))
    <3>1. Ms(e) \in Nat /\ Ms(f) \in Nat
      BY <2>3 DEF Position
    <3>2. ~(Ms(f) > Ms(e))
      BY <2>3, <2>7 DEF Precedes
    <3>3. WholeMs => At(f) = At(e)
      BY <2>3, <2>4, <2>7, Orders
    <3>4. QED BY <2>4, <3>1, <3>2, <3>3 DEF Ties
  <2>8. QED BY <2>6, <2>7
<1>5. QED BY <1>3, <1>4
-----------------------------------------------------------------------------
LEMMA InitIInv == WalkInit => IInv
<1>1. SUFFICES ASSUME WalkInit PROVE IInv
  OBVIOUS
<1>2. WalkTypes /\ first \subseteq Facts
  <2>1. <<>> \in Seq(SUBSET Wanted)
    OBVIOUS
  <2>2. processed \in -1..LastSeq /\ now \in 0..LastNow /\ limit \in Limits
        /\ time \in Times /\ cursor = NoCursor /\ pages = <<>> /\ first = {} /\ done = FALSE
    BY <1>1 DEF WalkInit
  <2>3. QED BY <2>1, <2>2 DEF WalkTypes
<1>3. CursorIsLast /\ PagesDescend /\ Ahead
  BY <1>1 DEF WalkInit, CursorIsLast, PagesDescend, Ahead
<1>4. QED BY <1>1, <1>2, <1>3 DEF WalkInit, IInv

\* The steps between two requests.
LEMMA WorldKeepsIInv ==
  ASSUME IInv, IndexNext \/ Tick \/ UNCHANGED walkVars
  PROVE  IInv'
<1>1. /\ UNCHANGED <<time, limit, cursor, pages, first, done>>
      /\ processed \in Int /\ processed' \in -1..LastSeq /\ processed <= processed'
      /\ now \in Int /\ now' \in 0..LastNow /\ now <= now'
  BY PagesAssumption DEF IInv, WalkTypes, IndexNext, Tick, walkVars
<1>2. WalkTypes'
  BY <1>1 DEF IInv, WalkTypes
<1>3. first' \subseteq Facts'
  <2>1. \A e \in Rows : Checkpoint[e] \in Int
    BY PagesAssumption
  <2>2. QED BY <1>1, <2>1 DEF IInv, Facts
<1>4. \A e \in Rows : InWindow(e)' => InWindow(e)
  <2>1. \A e \in Rows : time[e] \in Nat /\ Window \in Nat
    BY PagesAssumption DEF IInv, WalkTypes
  <2>2. QED BY <1>1, <2>1 DEF InWindow
<1>5. CursorIsLast' /\ PagesDescend'
  <2>1. WholeMs' = WholeMs /\ \A e : Ms(e)' = Ms(e) /\ At(e)' = At(e)
    BY <1>1 DEF WholeMs, Ms, At
  <2>2. CursorIsLast'
    BY <1>1, <2>1 DEF IInv, CursorIsLast, NotBefore, Precedes
  <2>3. PagesDescend'
    BY <1>1, <2>1 DEF IInv, PagesDescend, Precedes
  <2>4. QED BY <2>2, <2>3
<1>6. Ahead'
  <2>1. first \subseteq Rows
    BY PagesAssumption DEF IInv, WalkTypes
  <2>2. QED BY <1>1, <1>4, <2>1 DEF IInv, Ahead, Covered, Ties, WholeMs, Ms, At
<1>7. QED BY <1>1, <1>2, <1>3, <1>5, <1>6 DEF IInv

LEMMA ReadPageKeepsIInv ==
  ASSUME IInv, ReadPage
  PROVE  IInv'
<1>1. PICK P \in FirstRows(AfterCursor, Clamped(limit)) :
        /\ pages' = Append(pages, P)
        /\ cursor' = NextCursor(P)
        /\ done' = (cursor' = NoCursor)
  BY DEF ReadPage
<1>2. /\ UNCHANGED <<processed, now, time, limit>> /\ ~done /\ time \in Times
      /\ first' = IF pages = <<>> THEN Visible ELSE first
  BY DEF ReadPage, IInv, WalkTypes
<1>3. /\ P \subseteq AfterCursor /\ AfterCursor \subseteq Visible
      /\ Visible \subseteq Facts \cap Wanted /\ P \subseteq Rows
      /\ P \subseteq Wanted
  BY DEF FirstRows, AfterCursor, Visible, Facts
<1>4. /\ pages \in Seq(SUBSET Wanted) /\ pages' \in Seq(SUBSET Wanted)
      /\ Len(pages') = Len(pages) + 1 /\ pages'[Len(pages) + 1] = P
      /\ \A i \in DOMAIN pages : i \in DOMAIN pages' /\ pages'[i] = pages[i]
      /\ \A i \in DOMAIN pages' : i \in DOMAIN pages \/ i = Len(pages) + 1
      /\ pages' # <<>>
  <2>1. pages \in Seq(SUBSET Wanted) /\ P \in SUBSET Wanted
    BY <1>3 DEF IInv, WalkTypes
  <2>2. QED BY <1>1, <2>1
<1>5. \/ cursor' = NoCursor
      \/ /\ cursor' \in Position
         /\ \A e \in P : NotBefore(cursor', e)
         /\ \E f \in P : cursor' = At(f)
  BY <1>1, <1>2, <1>3, LastIsLast DEF NextCursor
<1>6. WalkTypes'
  BY <1>1, <1>2, <1>3, <1>4, <1>5 DEF IInv, WalkTypes, Position
<1>7. first' \subseteq Facts'
  BY <1>2, <1>3 DEF IInv, Facts
\* Whatever was received before precedes the new page.
<1>8. \A i \in DOMAIN pages : \A e \in pages[i], f \in P :
        Ms(e) >= Ms(f) /\ (WholeMs => Precedes(At(e), At(f)))
  <2>1. SUFFICES ASSUME NEW i \in DOMAIN pages, NEW e \in pages[i], NEW f \in P
                 PROVE  Ms(e) >= Ms(f) /\ (WholeMs => Precedes(At(e), At(f)))
    OBVIOUS
  <2>2. cursor # NoCursor
    BY <1>2, <1>4, <2>1 DEF IInv, CursorIsLast
  <2>3. NotBefore(cursor, e) /\ Precedes(cursor, At(f))
    BY <1>3, <2>2 DEF IInv, CursorIsLast, AfterCursor
  <2>4. e \in Rows
    BY <1>4, PagesAssumption
  <2>5. /\ At(e) \in Position /\ At(f) \in Position /\ cursor \in Position
        /\ At(f)[1] = Ms(f)
    BY <1>2, <1>3, <2>2, <2>4, PositionOfRow DEF IInv, WalkTypes, Position
  <2>6. Ms(e) >= Ms(f)
    <3>1. cursor[1] \in Nat /\ Ms(e) \in Nat /\ Ms(f) \in Nat
      BY <1>2, <1>3, <2>4, <2>5, PositionOfRow DEF Position
    <3>2. cursor[1] <= Ms(e) /\ Ms(f) <= cursor[1]
      BY <2>3, <2>5, <3>1 DEF NotBefore, Precedes
    <3>3. QED BY <3>1, <3>2
  <2>7. WholeMs => Precedes(At(e), At(f))
    BY <2>3, <2>5, Orders DEF NotBefore
  <2>8. QED BY <2>6, <2>7
<1>9. WholeMs' = WholeMs /\ \A e : Ms(e)' = Ms(e) /\ At(e)' = At(e)
  BY <1>2 DEF WholeMs, Ms, At
<1>10. PagesDescend'
  <2>1. SUFFICES ASSUME NEW i \in DOMAIN pages', NEW j \in DOMAIN pages', i < j,
                        NEW e \in pages'[i], NEW f \in pages'[j]
                 PROVE  Ms(e) >= Ms(f) /\ (WholeMs => Precedes(At(e), At(f)))
    BY <1>9 DEF PagesDescend, Precedes
  <2>2. DOMAIN pages = 1..Len(pages) /\ Len(pages) \in Nat
    BY <1>4
  <2>3. i \in DOMAIN pages
    BY <1>4, <2>1, <2>2
  <2>4. CASE j \in DOMAIN pages
    BY <1>4, <2>1, <2>3, <2>4 DEF IInv, PagesDescend
  <2>5. CASE j = Len(pages) + 1
    BY <1>4, <1>8, <2>1, <2>3, <2>5
  <2>6. QED BY <1>4, <2>4, <2>5
<1>11. CursorIsLast'
  <2>1. SUFFICES ASSUME cursor' # NoCursor, NEW i \in DOMAIN pages',
                        NEW e \in pages'[i]
                 PROVE  NotBefore(cursor', e)
    BY <1>1, <1>4, <1>9 DEF CursorIsLast, NotBefore, Precedes
  <2>2. CASE i \in DOMAIN pages
    <3>1. PICK f \in P : cursor' = At(f)
      BY <1>5, <2>1
    <3>2. Ms(e) >= Ms(f) /\ (WholeMs => Precedes(At(e), cursor'))
      BY <1>4, <1>8, <2>1, <2>2, <3>1
    <3>3. e \in Rows /\ f \in Rows
      BY <1>3, <1>4, <2>2, PagesAssumption
    <3>4. /\ At(e) \in Position /\ cursor' \in Position
          /\ cursor'[1] = Ms(f) /\ Ms(e) \in Nat /\ Ms(f) \in Nat
      BY <1>2, <3>1, <3>3, PositionOfRow
    <3>5. WholeMs => ~Precedes(cursor', At(e))
      BY <3>2, <3>4, Orders
    <3>6. QED BY <3>2, <3>4, <3>5 DEF NotBefore
  <2>3. CASE i = Len(pages) + 1
    BY <1>4, <1>5, <2>1, <2>3
  <2>4. QED BY <1>4, <2>2, <2>3
<1>12. Ahead'
  <2>1. SUFFICES ASSUME limit \in 1..MaxLimit, NEW e \in first', InWindow(e)
                 PROVE  \/ Covered(e)'
                        \/ cursor' # NoCursor /\ Precedes(cursor', At(e))
    BY <1>2, <1>9 DEF Ahead, InWindow, Precedes
  <2>2. Covered(e) => Covered(e)'
    BY <1>4, <1>9 DEF Covered, Ties
  <2>3. e \in AfterCursor \/ Covered(e)
    <3>1. CASE pages = <<>>
      <4>1. cursor = NoCursor
        BY <3>1 DEF IInv
      <4>2. QED BY <1>2, <3>1, <4>1 DEF AfterCursor
    <3>2. CASE pages # <<>>
      <4>1. e \in first /\ first \subseteq Wanted /\ first \subseteq Facts
        BY <1>2, <3>2 DEF IInv, WalkTypes
      <4>2. Covered(e) \/ Precedes(cursor, At(e))
        BY <2>1, <3>2, <4>1 DEF IInv, Ahead
      <4>3. QED BY <2>1, <4>1, <4>2 DEF AfterCursor, Visible
    <3>3. QED BY <3>1, <3>2
  <2>4. CASE e \in AfterCursor
    <3>1. (\E f \in P : Ties(f, e)) => Covered(e)'
      BY <1>4, <1>9 DEF Covered, Ties
    <3>2. QED BY <1>1, <1>2, <2>1, <2>4, <3>1, PageCovers
  <2>5. QED BY <2>2, <2>3, <2>4
<1>13. QED BY <1>1, <1>4, <1>6, <1>7, <1>10, <1>11, <1>12 DEF IInv

LEMMA StepKeepsIInv == IInv /\ [WalkNext]_walkVars => IInv'
BY WorldKeepsIInv, ReadPageKeepsIInv DEF WalkNext
-----------------------------------------------------------------------------
\* The invariant holds in every reachable state.
THEOREM Invariance == WalkSpec => []IInv
BY InitIInv, StepKeepsIInv, PTL DEF WalkSpec

\* Types, also of cursors: a next_cursor is the position of a row.
THEOREM TypeCorrect == WalkSpec => []WalkTypes
<1>1. IInv => WalkTypes
  BY DEF IInv
<1>2. QED BY <1>1, Invariance, PTL

\* The comparison with the cursor and the order of the query make pages
\* descend, and no row comes twice where times are whole milliseconds, with
\* every limit.
THEOREM WalkDescends == WalkSpec => []PagesDescend
<1>1. IInv => PagesDescend
  BY DEF IInv
<1>2. QED BY <1>1, Invariance, PTL

\* A walk that the handler ends (no next_cursor), with a limit the store does
\* not clamp, has passed over nothing but ties.
THEOREM WalkMissesOnlyTies == WalkSpec => []OnlyTiesMissed
<1>1. IInv => OnlyTiesMissed
  <2>1. SUFFICES ASSUME IInv, done, limit \in 1..MaxLimit,
                        NEW e \in first, InWindow(e)
                 PROVE  \E i \in DOMAIN pages, f \in Wanted :
                          /\ f \in pages[i] /\ Ms(f) = Ms(e)
                          /\ WholeMs => At(f) = At(e)
    BY DEF OnlyTiesMissed
  <2>2. Covered(e)
    BY <2>1 DEF IInv, Ahead
  <2>3. \A i \in DOMAIN pages : pages[i] \subseteq Wanted
    BY <2>1 DEF IInv, WalkTypes
  <2>4. QED BY <2>2, <2>3 DEF Covered, Ties
<1>2. QED BY <1>1, Invariance, PTL
=============================================================================
