------------------------- MODULE TradeStreamProofs -------------------------
(* What the client of a stream is sent for any trades, any backlog, page   *)
(* and channel sizes, any number of connections and of other requests,     *)
(* whatever is committed and whoever fails in between.                     *)
EXTENDS TradeStream, TLAPS, FiniteSetTheorems, SequenceTheorems

Position == 1..Len(Sent)

\* Of every state, also once the connection is closed.
Types ==
  /\ indexed \in -1..LastSeq /\ base \in -1..indexed
  /\ rows \subseteq Facts \cap Wanted /\ cur \in Nat
  /\ out \in Seq(Trades) /\ received \in Seq(Trades)
  /\ replayed \in Nat
  /\ stream \notin {"backlog rows", "rows"} => rows = {}

\* The backlog query is the only one whose rows are not after the cursor: they
\* are what it had seen, in time order.
BacklogPart ==
  /\ Backlogged => replayed = Len(Sent)
  /\ stream = "backlog" => cur = 0
  /\ Backlogged /\ cur # 0 =>
       \E t \in Facts : cur = Key[t] /\ Checkpoint[t] <= base
  /\ stream = "backlog rows" =>
       \A r \in rows : /\ Checkpoint[r] <= base
                       /\ \A i \in Position : Before(Sent[i], r)
  /\ replayed <= Len(Sent)
  /\ \A i, j \in 1..replayed : i < j => Before(Sent[i], Sent[j])

\* The cursor is the key of a trade, no live trade is beyond it, and the rows
\* at hand are the next ones.
CursorPart ==
  /\ cur # 0 => \E t \in Facts : cur = Key[t]
  /\ \A i \in Position : i > replayed => Key[Sent[i]] <= cur
  /\ replayed > 0 => Key[Sent[replayed]] <= cur
  /\ stream = "rows" =>
       \A r \in rows : /\ Key[r] > cur
                       /\ \A t \in Facts \cap Wanted :
                            cur < Key[t] /\ Key[t] < Key[r] => t \in rows

Ordered ==
  \A i, j \in Position :
    (replayed <= i /\ i < j /\ 0 < i) => Key[Sent[i]] < Key[Sent[j]]

Covered ==
  \A t \in Facts \cap Wanted :
    Checkpoint[t] > base /\ Key[t] <= cur => t \in ToSet(Sent)

(***************************************************************************)
(* The inductive invariant, and its part about a connection that lives.    *)
(***************************************************************************)
Alive == BacklogPart /\ CursorPart /\ Ordered /\ Covered
IInv == Types /\ (handler # "closed" => Alive)
-----------------------------------------------------------------------------
(* Trades, their orders and what has been sent. *)

LEMMA TradeTypes ==
  ASSUME NEW t \in Trades
  PROVE  Key[t] \in Nat \ {0} /\ Time[t] \in Nat /\ Checkpoint[t] \in Int
BY StreamAssumption

LEMMA SameKey ==
  ASSUME NEW t \in Trades, NEW u \in Trades, Key[t] = Key[u]
  PROVE  t = u
BY StreamAssumption

\* The time order is a strict order, and total.
LEMMA TimeOrder ==
  ASSUME NEW t \in Trades, NEW u \in Trades, NEW v \in Trades
  PROVE  /\ ~Before(t, t)
         /\ t = u \/ Before(t, u) \/ Before(u, t)
         /\ Before(t, u) /\ Before(u, v) => Before(t, v)
BY TradeTypes, SameKey DEF Before

\* A trade that comes with a later checkpoint has a greater key.
LEMMA LaterKey ==
  ASSUME NEW t \in Trades, NEW u \in Trades, Checkpoint[t] < Checkpoint[u]
  PROVE  Key[t] < Key[u]
BY StreamAssumption

LEMMA SentType ==
  ASSUME Types
  PROVE  /\ Sent \in Seq(Trades) /\ Len(Sent) \in Nat
         /\ \A i \in Position : Sent[i] \in Trades
<1>1. received \in Seq(Trades) /\ out \in Seq(Trades)
  BY DEF Types
<1>2. Sent \in Seq(Trades)
  BY <1>1 DEF Sent
<1>3. QED BY <1>2 DEF Position

LEMMA Ranges ==
  ASSUME Types
  PROVE  /\ indexed \in Int /\ base \in Int /\ cur \in Nat /\ replayed \in Nat
         /\ -1 <= indexed /\ -1 <= base /\ base <= indexed
<1>1. LastSeq \in Int
  BY StreamAssumption
<1>2. indexed \in -1..LastSeq /\ base \in -1..indexed
  BY DEF Types
<1>3. indexed \in Int /\ -1 <= indexed
  BY <1>1, <1>2
<1>4. base \in Int /\ -1 <= base /\ base <= indexed
  BY <1>2, <1>3
<1>5. cur \in Nat /\ replayed \in Nat
  BY DEF Types
<1>6. QED BY <1>3, <1>4, <1>5

\* The oldest rows are those with the least keys.
LEMMA OldestFirst ==
  ASSUME NEW S, S \subseteq Trades, NEW n \in Nat,
         NEW r \in Oldest(S, n), NEW t \in S, Key[t] < Key[r]
  PROVE  t \in Oldest(S, n)
<1> DEFINE Below(x) == {u \in S : Key[u] < Key[x]}
<1>1. Below(t) \subseteq Below(r)
  <2>1. SUFFICES ASSUME NEW u \in S, Key[u] < Key[t] PROVE Key[u] < Key[r]
    OBVIOUS
  <2>2. Key[u] \in Nat /\ Key[t] \in Nat /\ Key[r] \in Nat
    BY TradeTypes DEF Oldest
  <2>3. QED BY <2>1, <2>2
<1>2. IsFiniteSet(Below(r)) /\ IsFiniteSet(Below(t))
  BY StreamAssumption, FS_Subset
<1>3. Cardinality(Below(t)) <= Cardinality(Below(r))
  BY <1>1, <1>2, FS_Subset
<1>4. Cardinality(Below(t)) \in Nat /\ Cardinality(Below(r)) \in Nat
  BY <1>2, FS_CardinalityType
<1>5. Cardinality(Below(r)) < n
  BY DEF Oldest
<1>6. QED BY <1>3, <1>4, <1>5 DEF Oldest
-----------------------------------------------------------------------------
LEMMA InitIInv == Init => IInv
<1>1. SUFFICES ASSUME Init PROVE IInv
  OBVIOUS
<1>2. Types
  <2>1. <<>> \in Seq(Trades) /\ indexed \in -1..LastSeq /\ -1 \in -1..indexed
    BY <1>1, StreamAssumption DEF Init
  <2>2. QED BY <1>1, <2>1 DEF Init, Types
<1>3. Sent = <<>> /\ Len(Sent) = 0 /\ Position = {}
  BY <1>1 DEF Init, Sent, Position
<1>4. BacklogPart /\ CursorPart /\ Ordered
  BY <1>1, <1>3 DEF Init, BacklogPart, CursorPart, Ordered, Backlogged
<1>5. Covered
  BY <1>1, TradeTypes, StreamAssumption DEF Init, Covered, Facts
<1>6. QED BY <1>2, <1>4, <1>5 DEF IInv, Alive

\* Steps of others.
LEMMA OthersKeepIInv ==
  ASSUME IInv, handler' # "closed" => handler # "closed",
         UNCHANGED <<indexed, stream, rows, cur, out, received, replayed, base>>
  PROVE  IInv'
<1>1. Sent' = Sent /\ Position' = Position /\ Facts' = Facts
  BY DEF Sent, Position, Facts
<1>2. Types'
  BY <1>1 DEF IInv, Types
<1>3. Backlogged' = Backlogged
  BY DEF Backlogged
<1>4. BacklogPart => BacklogPart'
  BY <1>1, <1>3 DEF BacklogPart
<1>5. CursorPart => CursorPart'
  BY <1>1 DEF CursorPart
<1>6. Ordered => Ordered'
  BY <1>1 DEF Ordered
<1>7. Covered => Covered'
  BY <1>1 DEF Covered
<1>8. QED BY <1>2, <1>4, <1>5, <1>6, <1>7 DEF IInv, Alive

LEMMA IndexNextKeepsIInv ==
  ASSUME IInv, IndexNext
  PROVE  IInv'
<1>1. /\ indexed' = indexed + 1 /\ indexed < LastSeq /\ LastSeq \in Nat
      /\ UNCHANGED <<stream, rows, cur, out, handler, received, replayed, base>>
  BY StreamAssumption DEF IndexNext
<1>2. Sent' = Sent /\ Position' = Position
  BY <1>1 DEF Sent, Position
<1>3. indexed \in Int /\ Facts \subseteq Facts' /\ Facts \subseteq Trades
      /\ Facts' \subseteq Trades
      /\ \A t \in Facts', u \in Facts : t \in Facts \/ Key[u] < Key[t]
  <2>1. indexed \in Int /\ -1 <= indexed
    BY Ranges DEF IInv
  <2>2. \A t \in Trades : Checkpoint[t] \in Int
    BY TradeTypes
  <2>3. \A t \in Facts', u \in Facts : t \in Facts \/ Checkpoint[u] < Checkpoint[t]
    BY <1>1, <2>1, <2>2 DEF Facts
  <2>4. Facts \subseteq Facts' /\ Facts \subseteq Trades /\ Facts' \subseteq Trades
    BY <1>1, <2>1, <2>2 DEF Facts
  <2>5. QED BY <2>1, <2>3, <2>4, LaterKey
<1>4. Types'
  <2>1. indexed' \in -1..LastSeq /\ base' \in -1..indexed'
    BY <1>1, <1>3, Ranges DEF IInv
  <2>2. QED BY <1>1, <1>3, <2>1 DEF IInv, Types
<1>5. ASSUME handler # "closed" PROVE Alive'
  <2>1. Alive
    BY <1>5 DEF IInv
  <2>2. BacklogPart'
    BY <1>1, <1>2, <1>3, <2>1 DEF Alive, BacklogPart, Backlogged
  <2>3. CursorPart'
    <3>1. \A r \in rows, t \in Facts' \cap Wanted : Key[t] < Key[r] => t \in Facts
      <4>1. \A t \in Facts' : Key[t] \in Int
        BY <1>3, TradeTypes
      <4>2. SUFFICES ASSUME NEW r \in rows, NEW t \in Facts', Key[t] < Key[r]
                     PROVE  t \in Facts
        OBVIOUS
      <4>3. r \in Facts /\ r \in Facts'
        BY <1>3 DEF IInv, Types
      <4>4. QED BY <1>3, <4>1, <4>2, <4>3
    <3>2. QED BY <1>1, <1>2, <1>3, <2>1, <3>1 DEF Alive, CursorPart
  <2>4. Ordered'
    BY <1>1, <1>2, <2>1 DEF Alive, Ordered
  <2>5. Covered'
    <3>1. SUFFICES ASSUME NEW t \in Facts' \cap Wanted,
                          Checkpoint[t] > base, Key[t] <= cur
                   PROVE  t \in ToSet(Sent)
      BY <1>1, <1>2 DEF Covered
    <3>2. Key[t] \in Nat \ {0} /\ cur \in Nat
      BY <1>3, TradeTypes DEF IInv, Types
    <3>3. PICK u \in Facts : cur = Key[u]
      BY <2>1, <3>1, <3>2 DEF Alive, CursorPart
    <3>4. t \in Facts
      BY <1>3, <3>1, <3>2, <3>3
    <3>5. QED BY <2>1, <3>1, <3>4 DEF Alive, Covered
  <2>6. QED BY <2>2, <2>3, <2>4, <2>5 DEF Alive
<1>6. QED BY <1>1, <1>4, <1>5 DEF IInv
-----------------------------------------------------------------------------
(* Steps of the stream. *)

\* One more trade in the channel is one more that has been sent.
LEMMA SentGrows ==
  ASSUME Types, NEW t \in Trades, out' = Append(out, t), received' = received
  PROVE  /\ Len(Sent)' = Len(Sent) + 1 /\ Sent'[Len(Sent) + 1] = t
         /\ \A i \in Position : Sent'[i] = Sent[i]
         /\ \A i \in Position' : i \in Position \/ i = Len(Sent) + 1
         /\ Position' = 1..(Len(Sent) + 1)
         /\ ToSet(Sent)' = ToSet(Sent) \cup {t}
         /\ out' \in Seq(Trades)
<1>1. received \in Seq(Trades) /\ out \in Seq(Trades)
  BY DEF Types
<1>2. Sent' = Append(Sent, t)
  BY <1>1 DEF Sent
<1>3. Sent \in Seq(Trades)
  BY SentType
<1>4. /\ Len(Sent)' = Len(Sent) + 1 /\ Sent'[Len(Sent) + 1] = t
      /\ \A i \in Position : Sent'[i] = Sent[i]
  BY <1>2, <1>3 DEF Position
<1>5. Position' = 1..(Len(Sent) + 1) /\ Len(Sent) \in Nat
  BY <1>3, <1>4 DEF Position
<1>6. DOMAIN Sent = Position /\ DOMAIN Sent' = Position'
  BY <1>2, <1>3 DEF Position
<1>7. \A i \in Position' : i \in Position \/ i = Len(Sent) + 1
  BY <1>5 DEF Position
<1>8. Position \subseteq Position' /\ Len(Sent) + 1 \in Position'
  BY <1>5 DEF Position
<1>9. ToSet(Sent)' = ToSet(Sent) \cup {t}
  BY <1>4, <1>6, <1>7, <1>8 DEF ToSet
<1>10. QED BY <1>1, <1>4, <1>5, <1>7, <1>9

LEMMA QueryBacklogKeepsIInv ==
  ASSUME IInv, QueryBacklog
  PROVE  IInv'
<1>1. /\ stream = "backlog" /\ stream' = "backlog rows"
      /\ rows' = Newest(Facts \cap Wanted, BacklogSize) /\ base' = indexed
      /\ UNCHANGED <<indexed, handler, received, cur, out, replayed>>
  BY DEF QueryBacklog, StreamTo
<1>2. Sent' = Sent /\ Position' = Position /\ Facts' = Facts
  BY <1>1 DEF Sent, Position, Facts
<1>3. rows' \subseteq Facts \cap Wanted
  BY <1>1 DEF Newest
<1>4. Types'
  <2>1. indexed \in Int /\ -1 <= indexed
    BY Ranges DEF IInv
  <2>2. base' = indexed
    BY <1>1
  <2>3. indexed' = indexed
    BY <1>1
  <2>4. base' \in -1..indexed'
    BY <2>1, <2>2, <2>3
  <2>5. QED BY <1>1, <1>2, <1>3, <2>4 DEF IInv, Types
<1>5. ASSUME handler # "closed" PROVE Alive'
  <2>1. cur = 0 /\ replayed = Len(Sent) /\ Alive /\ Types
    BY <1>1, <1>5 DEF IInv, Alive, BacklogPart, Backlogged
  <2>2. BacklogPart'
    <3>1. \A r \in rows' : Checkpoint[r] <= indexed
      BY <1>3 DEF Facts
    <3>2. Position = {}
      <4>1. SUFFICES ASSUME NEW i \in Position PROVE FALSE
        OBVIOUS
      <4>2. i \in 1..replayed /\ 1 <= replayed /\ Sent[i] \in Trades
            /\ replayed > 0 /\ Sent[replayed] \in Trades
        BY <2>1, SentType, Ranges DEF Position
      <4>3. Key[Sent[replayed]] <= 0
        BY <2>1, <4>2 DEF Alive, CursorPart
      <4>4. QED BY <4>2, <4>3, TradeTypes
    <3>3. QED BY <1>1, <1>2, <2>1, <3>1, <3>2 DEF Alive, BacklogPart, Backlogged
  <2>3. CursorPart' /\ Ordered'
    BY <1>1, <1>2, <2>1 DEF Alive, CursorPart, Ordered
  <2>4. Covered'
    <3>1. SUFFICES ASSUME NEW t \in Facts, Key[t] <= 0 PROVE FALSE
      BY <1>1, <1>2, <2>1 DEF Covered
    <3>2. QED BY <3>1, TradeTypes DEF Facts
  <2>5. QED BY <2>2, <2>3, <2>4 DEF Alive
<1>6. QED BY <1>1, <1>4, <1>5 DEF IInv

LEMMA SendBacklogKeepsIInv ==
  ASSUME IInv, SendBacklog
  PROVE  IInv'
<1>1. PICK t \in rows : /\ \A u \in rows \ {t} : Before(t, u)
                        /\ rows' = rows \ {t}
                        /\ out' = Append(out, t)
                        /\ cur' = Key[t]
  BY DEF SendBacklog
<1>2. /\ stream = "backlog rows" /\ stream' = "backlog rows"
      /\ replayed' = replayed + 1
      /\ UNCHANGED <<indexed, handler, received, base>>
  BY DEF SendBacklog, StreamTo
<1>3. Types /\ Facts' = Facts /\ t \in Facts /\ t \in Trades /\ t \in Wanted
      /\ Key[t] \in Nat \ {0}
  BY <1>2, TradeTypes DEF IInv, Types, Facts
<1>4. /\ Len(Sent)' = Len(Sent) + 1 /\ Sent'[Len(Sent) + 1] = t
      /\ \A i \in Position : Sent'[i] = Sent[i]
      /\ \A i \in Position' : i \in Position \/ i = Len(Sent) + 1
      /\ Position' = 1..(Len(Sent) + 1)
      /\ out' \in Seq(Trades)
  BY <1>1, <1>2, <1>3, SentGrows
<1>5. Types'
  <2>1. replayed \in Nat
    BY <1>3, Ranges
  <2>2. replayed' = replayed + 1
    BY <1>2
  <2>3. replayed' \in Nat
    BY <2>1, <2>2
  <2>4. rows' \subseteq Facts' \cap Wanted
    BY <1>1, <1>3 DEF Types
  <2>5. QED BY <1>1, <1>2, <1>3, <1>4, <2>3, <2>4 DEF Types
<1>6. ASSUME handler # "closed" PROVE Alive'
  <2>1. /\ replayed = Len(Sent) /\ Len(Sent) \in Nat /\ Position = 1..Len(Sent)
        /\ Checkpoint[t] <= base /\ \A i \in Position : Before(Sent[i], t)
        /\ \A i \in Position : Sent[i] \in Trades
    BY <1>2, <1>3, <1>6, SentType
       DEF IInv, Alive, BacklogPart, Backlogged, Position
  <2>2. replayed' = Len(Sent) + 1
    <3>1. replayed' = replayed + 1
      BY <1>2
    <3>2. QED BY <2>1, <3>1
  <2>3. BacklogPart'
    <3>1. \A r \in rows' : \A i \in Position' : Before(Sent'[i], r)
      BY <1>1, <1>2, <1>4, <1>6 DEF IInv, Alive, BacklogPart
    <3>2. \A i, j \in Position' : i < j => Before(Sent'[i], Sent'[j])
      <4>1. SUFFICES ASSUME NEW i \in Position', NEW j \in Position', i < j
                     PROVE  Before(Sent'[i], Sent'[j])
        OBVIOUS
      <4>2. i \in Position
        BY <1>4, <2>1, <4>1
      <4>3. CASE j \in Position
        BY <1>4, <1>6, <2>1, <4>1, <4>2, <4>3 DEF IInv, Alive, BacklogPart
      <4>4. CASE j = Len(Sent) + 1
        BY <1>4, <2>1, <4>2, <4>4
      <4>5. QED BY <1>4, <4>3, <4>4
    <3>3. \A r \in rows' : Checkpoint[r] <= base
      BY <1>1, <1>2, <1>6 DEF IInv, Alive, BacklogPart
    <3>4. replayed' = Len(Sent)' /\ 1..replayed' = Position'
          /\ replayed' <= Len(Sent)'
      BY <1>4, <2>1, <2>2
    <3>5. \E u \in Facts' : cur' = Key[u] /\ Checkpoint[u] <= base'
      BY <1>1, <1>2, <1>3, <2>1
    <3>6. stream' # "backlog" /\ base' = base
      BY <1>2
    <3>7. QED BY <3>1, <3>2, <3>3, <3>4, <3>5, <3>6 DEF BacklogPart
  <2>4. CursorPart'
    <3>1. Sent'[replayed'] = t /\ replayed' \in Nat
          /\ \A i \in Position' : ~(i > replayed')
      BY <1>4, <2>1, <2>2
    <3>2. Key[t] <= Key[t]
      BY <1>3
    <3>3. cur' = Key[t] /\ t \in Facts' /\ stream' # "rows"
      BY <1>1, <1>2, <1>3
    <3>4. QED BY <3>1, <3>2, <3>3 DEF CursorPart
  <2>5. Ordered'
    <3>1. \A i, j \in Position' : ~(replayed' <= i /\ i < j)
      BY <1>4, <2>1, <2>2
    <3>2. QED BY <3>1 DEF Ordered
  <2>6. Covered'
    <3>1. SUFFICES ASSUME NEW u \in Facts \cap Wanted, Checkpoint[u] > base,
                          Key[u] <= Key[t]
                   PROVE  FALSE
      BY <1>1, <1>2, <1>3 DEF Covered
    <3>2. Checkpoint[t] < Checkpoint[u] /\ u \in Trades
      BY <1>3, <2>1, <3>1, TradeTypes, Ranges DEF Facts
    <3>3. QED BY <1>3, <3>1, <3>2, LaterKey, TradeTypes
  <2>7. QED BY <2>3, <2>4, <2>5, <2>6 DEF Alive
<1>7. QED BY <1>2, <1>5, <1>6 DEF IInv

LEMMA PollKeepsIInv ==
  ASSUME IInv, Poll
  PROVE  IInv'
<1>1. /\ rows' = Oldest({t \in Facts \cap Wanted : Key[t] > cur}, PageSize)
      /\ stream' = "rows"
      /\ UNCHANGED <<indexed, handler, received, cur, out, replayed, base>>
  BY DEF Poll, StreamTo
<1>2. Sent' = Sent /\ Position' = Position /\ Facts' = Facts
  BY <1>1 DEF Sent, Position, Facts
<1>3. rows' \subseteq {t \in Facts \cap Wanted : Key[t] > cur}
  BY <1>1 DEF Oldest
<1>4. Types'
  BY <1>1, <1>2, <1>3 DEF IInv, Types
<1>5. ASSUME handler # "closed" PROVE Alive'
  <2>1. Alive /\ Types
    BY <1>5 DEF IInv
  <2>2. BacklogPart'
    BY <1>1, <1>2, <2>1 DEF Alive, BacklogPart, Backlogged
  <2>3. CursorPart'
    <3>1. \A r \in rows', t \in Facts \cap Wanted :
            cur < Key[t] /\ Key[t] < Key[r] => t \in rows'
      <4>1. SUFFICES ASSUME NEW r \in rows', NEW t \in Facts \cap Wanted,
                            cur < Key[t], Key[t] < Key[r]
                     PROVE  t \in rows'
        OBVIOUS
      <4> DEFINE S == {u \in Facts \cap Wanted : Key[u] > cur}
      <4>2. S \subseteq Trades
        BY DEF Facts
      <4>3. Key[t] > cur
        BY <2>1, <4>1, TradeTypes, Ranges DEF Facts
      <4>4. t \in S
        BY <4>3
      <4>5. PageSize \in Nat
        BY StreamAssumption
      <4>6. rows' = Oldest(S, PageSize)
        BY <1>1
      <4> HIDE DEF S
      <4>7. QED BY <4>1, <4>2, <4>4, <4>5, <4>6, OldestFirst
    <3>2. QED BY <1>1, <1>2, <1>3, <2>1, <3>1 DEF Alive, CursorPart
  <2>4. Ordered' /\ Covered'
    BY <1>1, <1>2, <2>1 DEF Alive, Ordered, Covered
  <2>5. QED BY <2>2, <2>3, <2>4 DEF Alive
<1>6. QED BY <1>1, <1>4, <1>5 DEF IInv

LEMMA SendRowKeepsIInv ==
  ASSUME IInv, SendRow
  PROVE  IInv'
<1>1. PICK t \in rows : /\ \A u \in rows : Key[t] <= Key[u]
                        /\ rows' = rows \ {t}
                        /\ out' = Append(out, t)
                        /\ cur' = Key[t]
  BY DEF SendRow
<1>2. /\ stream = "rows" /\ stream' = "rows"
      /\ UNCHANGED <<indexed, handler, received, base, replayed>>
  BY DEF SendRow, StreamTo
<1>3. Types /\ Facts' = Facts /\ t \in Facts /\ t \in Trades /\ t \in Wanted
      /\ Key[t] \in Nat \ {0} /\ rows \subseteq Trades
  BY <1>2, TradeTypes DEF IInv, Types, Facts
<1>4. /\ Len(Sent)' = Len(Sent) + 1 /\ Sent'[Len(Sent) + 1] = t
      /\ \A i \in Position : Sent'[i] = Sent[i]
      /\ \A i \in Position' : i \in Position \/ i = Len(Sent) + 1
      /\ Position' = 1..(Len(Sent) + 1)
      /\ ToSet(Sent)' = ToSet(Sent) \cup {t}
      /\ out' \in Seq(Trades)
  BY <1>1, <1>2, <1>3, SentGrows
<1>5. Types'
  <2>1. rows' \subseteq Facts' \cap Wanted /\ cur' \in Nat
    BY <1>1, <1>3 DEF Types
  <2>2. QED BY <1>2, <1>3, <1>4, <2>1 DEF Types
<1>6. ASSUME handler # "closed" PROVE Alive'
  <2>1. Alive /\ Len(Sent) \in Nat /\ Position = 1..Len(Sent)
        /\ \A i \in Position : Sent[i] \in Trades /\ Key[Sent[i]] \in Nat
    BY <1>3, <1>6, SentType, TradeTypes DEF IInv, Position
  <2>2. cur \in Nat /\ replayed \in Nat /\ replayed <= Len(Sent)
        /\ cur < Key[t]
    <3>1. cur \in Nat /\ replayed \in Nat
      BY <1>3, Ranges
    <3>2. replayed <= Len(Sent) /\ Key[t] > cur
      BY <1>1, <1>2, <2>1 DEF Alive, BacklogPart, CursorPart
    <3>3. QED BY <1>3, <3>1, <3>2
  \* No live trade, nor the last one of the backlog, is beyond the cursor.
  <2>3. \A i \in Position : replayed <= i => Key[Sent[i]] <= cur
    <3>1. SUFFICES ASSUME NEW i \in Position, replayed <= i
                   PROVE  Key[Sent[i]] <= cur
      OBVIOUS
    <3>2. CASE i = replayed
      BY <2>1, <2>2, <3>2 DEF Alive, CursorPart
    <3>3. CASE i # replayed
      <4>1. i > replayed
        BY <2>1, <2>2, <3>1, <3>3
      <4>2. QED BY <2>1, <4>1 DEF Alive, CursorPart
    <3>4. QED BY <3>2, <3>3
  <2>4. BacklogPart'
    <3>1. \A i \in 1..replayed : i \in Position
      BY <2>1, <2>2
    <3>2. \A i, j \in 1..replayed : i < j => Before(Sent'[i], Sent'[j])
      BY <1>4, <2>1, <3>1 DEF Alive, BacklogPart
    <3>3. replayed' = replayed /\ replayed <= Len(Sent)'
      BY <1>2, <1>4, <2>1, <2>2
    <3>4. stream' = "rows"
      BY <1>2
    <3>5. QED BY <3>2, <3>3, <3>4 DEF BacklogPart, Backlogged
  <2>5. CursorPart'
    <3>1. \A i \in Position' : replayed <= i => Key[Sent'[i]] <= Key[t]
      <4>1. SUFFICES ASSUME NEW i \in Position', replayed <= i
                     PROVE  Key[Sent'[i]] <= Key[t]
        OBVIOUS
      <4>2. CASE i \in Position
        <5>1. Key[Sent[i]] <= cur /\ Sent'[i] = Sent[i] /\ Key[Sent[i]] \in Nat
          BY <1>4, <2>1, <2>3, <4>1, <4>2
        <5>2. QED BY <1>3, <2>2, <5>1
      <4>3. CASE i = Len(Sent) + 1
        BY <1>3, <1>4, <4>3
      <4>4. QED BY <1>4, <4>2, <4>3
    <3>2. replayed > 0 => replayed \in Position'
      BY <1>4, <2>1, <2>2
    <3>3. \A r \in rows' : Key[r] > Key[t]
      <4>1. SUFFICES ASSUME NEW r \in rows' PROVE Key[r] > Key[t]
        OBVIOUS
      <4>2. r # t /\ Key[t] <= Key[r] /\ r \in Trades /\ Key[r] \in Nat
        BY <1>1, <1>3, TradeTypes
      <4>3. Key[r] # Key[t]
        BY <1>3, <4>2, SameKey
      <4>4. QED BY <1>3, <4>2, <4>3
    <3>4. \A r \in rows', u \in Facts \cap Wanted :
            Key[t] < Key[u] /\ Key[u] < Key[r] => u \in rows'
      <4>1. SUFFICES ASSUME NEW r \in rows', NEW u \in Facts \cap Wanted,
                            Key[t] < Key[u], Key[u] < Key[r]
                     PROVE  u \in rows'
        OBVIOUS
      <4>2. Key[u] \in Nat
        BY TradeTypes DEF Facts
      <4>3. cur < Key[u] /\ u # t
        BY <1>3, <2>2, <4>1, <4>2
      <4>4. u \in rows
        BY <1>1, <1>2, <2>1, <4>1, <4>3 DEF Alive, CursorPart
      <4>5. QED BY <1>1, <4>3, <4>4
    <3>5. cur' = Key[t] /\ t \in Facts' /\ replayed' = replayed
      BY <1>1, <1>2, <1>3
    <3>6. \A i \in Position' : i > replayed => replayed <= i
      BY <1>4, <2>1, <2>2
    <3>7. QED BY <1>3, <2>2, <3>1, <3>2, <3>3, <3>4, <3>5, <3>6 DEF CursorPart
  <2>6. Ordered'
    <3>1. SUFFICES ASSUME NEW i \in Position', NEW j \in Position',
                          replayed <= i, i < j, 0 < i
                   PROVE  Key[Sent'[i]] < Key[Sent'[j]]
      BY <1>2 DEF Ordered
    <3>2. i \in Position
      BY <1>4, <2>1, <3>1
    <3>3. CASE j \in Position
      BY <1>4, <2>1, <3>1, <3>2, <3>3 DEF Alive, Ordered
    <3>4. CASE j = Len(Sent) + 1
      <4>1. Key[Sent[i]] <= cur /\ Sent'[i] = Sent[i] /\ Key[Sent[i]] \in Nat
            /\ Sent'[j] = t
        BY <1>4, <2>1, <2>3, <3>1, <3>2, <3>4
      <4>2. QED BY <1>3, <2>2, <4>1
    <3>5. QED BY <1>4, <3>3, <3>4
  <2>7. Covered'
    <3>1. SUFFICES ASSUME NEW u \in Facts \cap Wanted, Checkpoint[u] > base,
                          Key[u] <= Key[t]
                   PROVE  u \in ToSet(Sent) \cup {t}
      BY <1>1, <1>2, <1>3, <1>4 DEF Covered
    <3>2. u \in Trades /\ Key[u] \in Nat
      BY TradeTypes DEF Facts
    <3>3. CASE Key[u] <= cur
      BY <2>1, <3>1, <3>3 DEF Alive, Covered
    <3>4. CASE cur < Key[u] /\ Key[u] < Key[t]
      <4>1. u \in rows
        BY <1>1, <1>2, <2>1, <3>4 DEF Alive, CursorPart
      <4>2. QED BY <1>1, <1>3, <3>2, <3>4, <4>1
    <3>5. CASE Key[u] = Key[t]
      BY <1>3, <3>2, <3>5, SameKey
    <3>6. QED BY <1>3, <2>2, <3>1, <3>2, <3>3, <3>4, <3>5
  <2>8. QED BY <2>4, <2>5, <2>6, <2>7 DEF Alive
<1>7. QED BY <1>2, <1>5, <1>6 DEF IInv

\* Every step of the stream that leaves no rows and sends nothing.
LEMMA PausesKeepIInv ==
  ASSUME IInv, rows' = {}, stream' \notin {"backlog", "backlog rows", "rows"},
         UNCHANGED <<indexed, cur, out, handler, received, replayed, base>>
  PROVE  IInv'
<1>1. Sent' = Sent /\ Position' = Position /\ Facts' = Facts
  BY DEF Sent, Position, Facts
<1>2. Types'
  BY <1>1 DEF IInv, Types
<1>3. BacklogPart => BacklogPart'
  BY <1>1 DEF BacklogPart, Backlogged
<1>4. CursorPart => CursorPart'
  BY <1>1 DEF CursorPart
<1>5. Ordered => Ordered'
  BY <1>1 DEF Ordered
<1>6. Covered => Covered'
  BY <1>1 DEF Covered
<1>7. QED BY <1>2, <1>3, <1>4, <1>5, <1>6 DEF IInv, Alive

LEMMA StreamStepsKeepIInv ==
  ASSUME IInv, StreamSteps \/ Canceled \/ StreamFails
  PROVE  IInv'
<1>1. stream \notin {"backlog rows", "rows"} => rows = {}
  BY DEF IInv, Types
<1>2. CASE RowsSent
  BY <1>2, PausesKeepIInv DEF RowsSent, StreamTo
<1>3. CASE Wake \/ CloseOut \/ CloseDone
  BY <1>1, <1>3, PausesKeepIInv DEF Wake, CloseOut, CloseDone, StreamTo
<1>4. CASE Canceled \/ StreamFails
  BY <1>4, PausesKeepIInv DEF Canceled, StreamFails, StreamReturns
<1>5. QED
  BY <1>2, <1>3, <1>4, QueryBacklogKeepsIInv, SendBacklogKeepsIInv,
     PollKeepsIInv, SendRowKeepsIInv DEF StreamSteps
-----------------------------------------------------------------------------
(* Steps of the handler. *)

\* An event taken from the channel and written was sent before and after.
LEMMA HeadMoves ==
  ASSUME NEW r \in Seq(Trades), NEW o \in Seq(Trades), o # <<>>
  PROVE  Append(r, Head(o)) \o Tail(o) = r \o o
<1> DEFINE s == Append(r, Head(o)) \o Tail(o)
           t == r \o o
<1>1. /\ Head(o) \in Trades /\ Tail(o) \in Seq(Trades)
      /\ Append(r, Head(o)) \in Seq(Trades)
  BY HeadTailProperties, AppendProperties
<1>2. s \in Seq(Trades) /\ t \in Seq(Trades)
  BY <1>1, ConcatProperties
<1>3. Len(s) = Len(t)
  BY <1>1
<1>4. \A i \in 1..Len(s) : s[i] = t[i]
  BY <1>1
<1>5. QED BY <1>2, <1>3, <1>4, SeqEqual

LEMMA ForwardKeepsIInv ==
  ASSUME IInv, Forward
  PROVE  IInv'
<1>1. /\ out # <<>> /\ out' = Tail(out) /\ received' = Append(received, Head(out))
      /\ handler = "select"
      /\ UNCHANGED <<indexed, stream, rows, cur, replayed, base>>
  BY DEF Forward
<1>2. received \in Seq(Trades) /\ out \in Seq(Trades)
  BY DEF IInv, Types
<1>3. received' \in Seq(Trades) /\ out' \in Seq(Trades)
  BY <1>1, <1>2
<1>4. Types'
  BY <1>1, <1>3 DEF IInv, Types, Facts
<1>5. received' \o out' = received \o out
  BY <1>1, <1>2, HeadMoves
<1>6. Sent' = Sent
  BY <1>5 DEF Sent
<1>7. Position' = Position /\ Facts' = Facts /\ Backlogged' = Backlogged
  BY <1>1, <1>6 DEF Position, Facts, Backlogged
<1>8. BacklogPart => BacklogPart'
  BY <1>1, <1>6, <1>7 DEF BacklogPart
<1>9. CursorPart => CursorPart'
  BY <1>1, <1>6, <1>7 DEF CursorPart
<1>10. Ordered => Ordered'
  BY <1>1, <1>6, <1>7 DEF Ordered
<1>11. Covered => Covered'
  BY <1>1, <1>6, <1>7 DEF Covered
<1>12. QED BY <1>1, <1>4, <1>8, <1>9, <1>10, <1>11 DEF IInv, Alive

\* The other steps of the handler: once closed, it stays so.
LEMMA HandlerKeepsIInv ==
  ASSUME IInv, Ping \/ Written \/ WriteFails \/ HandlerEnds
  PROVE  IInv'
<1>1. /\ UNCHANGED <<indexed, stream, rows, cur, out, received, replayed, base>>
      /\ handler # "closed"
  BY DEF Ping, Written, WriteFails, HandlerEnds, HandlerTo
<1>2. QED BY <1>1, OthersKeepIInv

LEMMA StepKeepsIInv == IInv /\ [Next]_vars => IInv'
<1>1. SUFFICES ASSUME IInv, [Next]_vars PROVE IInv'
  OBVIOUS
<1>2. CASE Client \/ (\E r \in Requests : RequestAsks(r) \/ RequestServed(r))
  BY <1>1, <1>2, OthersKeepIInv DEF Client, ClientMoves, RequestAsks, RequestServed
<1>3. CASE UNCHANGED vars
  BY <1>1, <1>3, OthersKeepIInv DEF vars
<1>4. CASE IndexNext
  BY <1>1, <1>4, IndexNextKeepsIInv
<1>5. CASE StreamSteps \/ Canceled \/ StreamFails
  BY <1>1, <1>5, StreamStepsKeepIInv
<1>6. CASE Forward \/ Ping \/ Written \/ WriteFails \/ HandlerEnds
  BY <1>1, <1>6, ForwardKeepsIInv, HandlerKeepsIInv
<1>7. QED BY <1>1, <1>2, <1>3, <1>4, <1>5, <1>6 DEF Next
-----------------------------------------------------------------------------
(* The queue for database connections. *)

\* Of every state, too: the stream is in the queue exactly while a query of its
\* own waits or has rows open.
Queue ==
  /\ IsInjective(pool) /\ pool \in Seq(Requests \cup {"stream"})
  /\ "stream" \in ToSet(pool) <=> stream \in {"backlog", "poll", "rows"}
  /\ stream \in Streaming \cup {"stopped", "out closed", "done"}
  /\ sent \in BOOLEAN /\ Len(out) <= ChanSize /\ faults \in 0..MaxFaults
  /\ handler \in {"select", "writing", "pinging", "closed"}
  /\ client \in {"reads", "stalls", "gone"}

\* What the assumption says of single constants.
LEMMA Constant ==
  /\ LastSeq \in Nat /\ ChanSize \in Nat /\ MaxFaults \in Nat
  /\ "stream" \notin Requests
<1>1. {LastSeq, BacklogSize, PageSize, ChanSize, Conns, MaxFaults} \subseteq Nat
  BY StreamAssumption
<1>2. "stream" \notin Requests
  BY StreamAssumption
<1>3. QED BY <1>1, <1>2

LEMMA Asking ==
  ASSUME NEW S, NEW p \in Seq(S), IsInjective(p), NEW x \in S, x \notin ToSet(p)
  PROVE  /\ Ask(x, p) \in Seq(S) /\ IsInjective(Ask(x, p))
         /\ ToSet(Ask(x, p)) = ToSet(p) \cup {x}
<1> DEFINE q == Append(p, x)
           n == Len(p)
<1>1. q \in Seq(S) /\ n \in Nat /\ DOMAIN p = 1..n /\ DOMAIN q = 1..(n + 1)
      /\ q[n + 1] = x /\ \A i \in 1..n : q[i] = p[i]
  BY AppendProperties
<1> HIDE DEF q, n
<1>2. \A i \in 1..(n + 1) : i \in 1..n \/ i = n + 1
  BY <1>1
<1>3. 1..n \subseteq 1..(n + 1) /\ n + 1 \in 1..(n + 1)
  BY <1>1
<1>4. \A i \in 1..n : p[i] # x
  BY <1>1 DEF ToSet
<1>5. IsInjective(q)
  BY <1>1, <1>2, <1>4 DEF IsInjective
<1>6. ToSet(q) = ToSet(p) \cup {x}
  BY <1>1, <1>2, <1>3 DEF ToSet
<1>7. QED BY <1>1, <1>5, <1>6 DEF Ask, q

\* What is given back was in one place of the queue; the others move up.
LEMMA Returning ==
  ASSUME NEW S, NEW p \in Seq(S), IsInjective(p), NEW x
  PROVE  /\ GiveBack(x, p) \in Seq(S) /\ IsInjective(GiveBack(x, p))
         /\ ToSet(GiveBack(x, p)) = ToSet(p) \ {x}
<1> DEFINE n == Len(p)
<1>1. n \in Nat /\ DOMAIN p = 1..n
  OBVIOUS
<1>2. CASE \A i \in 1..n : p[i] # x
  <2>1. GiveBack(x, p) = p
    BY <1>2 DEF GiveBack, RemoveFirst
  <2>2. x \notin ToSet(p)
    BY <1>1, <1>2 DEF ToSet
  <2>3. QED BY <2>1, <2>2
<1>3. ASSUME NEW k \in 1..n, p[k] = x
      PROVE  /\ GiveBack(x, p) \in Seq(S) /\ IsInjective(GiveBack(x, p))
             /\ ToSet(GiveBack(x, p)) = ToSet(p) \ {x}
  <2> DEFINE I == {i \in 1..n : p[i] = x}
             q == SubSeq(p, 1, k - 1) \o SubSeq(p, k + 1, n)
             Old(i) == IF i < k THEN i ELSE i + 1
  <2>1. I = {k}
    BY <1>1, <1>3 DEF IsInjective
  <2>2. SelectInSeq(p, LAMBDA v : v = x) = k
    <3>1. I # {} /\ SelectInSeq(p, LAMBDA v : v = x) = Min(I)
      BY <2>1 DEF SelectInSeq
    <3>2. Min({k}) = k
      BY <1>1, <1>3 DEF Min
    <3>3. QED BY <2>1, <3>1, <3>2
  <2>3. GiveBack(x, p) = q
    <3>1. GiveBack(x, p) = RemoveAt(p, SelectInSeq(p, LAMBDA v : v = x))
      BY <1>3 DEF GiveBack, RemoveFirst
    <3>2. QED BY <2>2, <3>1 DEF RemoveAt
  <2>4. /\ k \in Nat /\ k <= n /\ 1 <= k
        /\ q \in Seq(S) /\ Len(q) = n - 1
        /\ \A i \in 1..(n - 1) : q[i] = p[Old(i)]
    <3>1. k \in Nat /\ k <= n /\ 1 <= k
      BY <1>1, <1>3
    <3> DEFINE A == SubSeq(p, 1, k - 1)
               B == SubSeq(p, k + 1, n)
    <3>2. A \in Seq(S) /\ Len(A) = k - 1 /\ \A i \in 1..(k - 1) : A[i] = p[i]
      <4>1. /\ 1 \in 1..(n + 1) /\ k - 1 \in Int /\ k - 1 <= n
            /\ \A i \in 1..(k - 1) : i \in 1..n
        BY <1>1, <3>1
      <4>2. QED BY <1>1, <3>1, <4>1
    <3>3. B \in Seq(S) /\ Len(B) = n - k /\ \A i \in 1..(n - k) : B[i] = p[k + i]
      <4>1. \A i \in (k + 1)..n : p[i] \in S
        BY <1>1, <3>1
      <4>2. B = [i \in 1..(n - k) |-> p[k + i]]
        BY <1>1, <3>1
      <4>3. \A i \in 1..(n - k) : k + i \in 1..n
        BY <1>1, <3>1
      <4>4. n - k \in Nat /\ k \in Int
        BY <1>1, <3>1
      <4> HIDE DEF B, n
      <4>5. \A i \in 1..(n - k) : p[k + i] \in S
        BY <1>1, <4>3
      <4>6. B \in Seq(S)
        BY <4>2, <4>4, <4>5
      <4>7. Len(B) = n - k /\ \A i \in 1..(n - k) : B[i] = p[k + i]
        BY <4>2, <4>4
      <4>8. QED BY <4>6, <4>7
    <3>4. q = A \o B
      OBVIOUS
    <3> HIDE DEF A, B, q, n
    <3>5. q \in Seq(S) /\ Len(q) = n - 1
          /\ \A i \in 1..(n - 1) : q[i] = IF i < k THEN A[i] ELSE B[i - (k - 1)]
      <4>1. q \in Seq(S) /\ Len(q) = Len(A) + Len(B)
        BY <3>2, <3>3, <3>4, ConcatProperties
      <4>2. \A i \in 1..(Len(A) + Len(B)) :
              q[i] = IF i <= Len(A) THEN A[i] ELSE B[i - Len(A)]
        BY <3>2, <3>3, <3>4, ConcatProperties
      <4>3. Len(A) + Len(B) = n - 1
        BY <1>1, <3>1, <3>2, <3>3
      <4>4. \A i \in 1..(n - 1) : i <= Len(A) <=> i < k
        BY <1>1, <3>1, <3>2
      <4>5. QED BY <3>2, <4>1, <4>2, <4>3, <4>4
    <3>6. ASSUME NEW i \in 1..(n - 1) PROVE q[i] = p[Old(i)]
      <4>1. CASE i < k
        <5>1. i \in 1..(k - 1) /\ q[i] = A[i]
          BY <1>1, <3>1, <3>5, <4>1
        <5>2. QED BY <3>2, <4>1, <5>1
      <4>2. CASE ~(i < k)
        <5>1. i - (k - 1) \in 1..(n - k) /\ k + (i - (k - 1)) = i + 1
          BY <1>1, <3>1, <4>2
        <5>2. q[i] = B[i - (k - 1)]
          BY <3>5, <4>2
        <5>3. B[i - (k - 1)] = p[k + (i - (k - 1))]
          BY <3>3, <5>1
        <5>4. QED BY <4>2, <5>1, <5>2, <5>3
      <4>3. QED BY <4>1, <4>2
    <3>7. QED BY <3>1, <3>5, <3>6
  <2>5. DOMAIN q = 1..(n - 1)
    <3>1. q \in Seq(S) /\ Len(q) = n - 1
      BY <2>4
    <3> HIDE DEF q, n
    <3>2. QED BY <3>1
  <2> HIDE DEF q, n
  <2>6. /\ \A i \in 1..(n - 1) : Old(i) \in 1..n /\ Old(i) # k
        /\ \A i, j \in 1..(n - 1) : Old(i) = Old(j) => i = j
        /\ \A j \in 1..n : j # k => \E i \in 1..(n - 1) : Old(i) = j
    <3>1. \A i \in 1..(n - 1) : Old(i) \in 1..n /\ Old(i) # k
      BY <1>1, <2>4
    <3>2. \A i, j \in 1..(n - 1) : Old(i) = Old(j) => i = j
      BY <1>1, <2>4
    <3>3. ASSUME NEW j \in 1..n, j # k PROVE \E i \in 1..(n - 1) : Old(i) = j
      <4>1. CASE j < k
        <5>1. j \in 1..(n - 1) /\ Old(j) = j
          BY <1>1, <2>4, <4>1
        <5>2. QED BY <5>1
      <4>2. CASE j > k
        <5>1. j - 1 \in 1..(n - 1) /\ Old(j - 1) = j
          BY <1>1, <2>4, <4>2
        <5>2. QED BY <5>1
      <4>3. QED BY <1>1, <2>4, <3>3, <4>1, <4>2
    <3>4. QED BY <3>1, <3>2, <3>3
  <2> HIDE DEF Old
  <2>7. IsInjective(q)
    BY <1>1, <2>4, <2>5, <2>6 DEF IsInjective
  <2>8. \A j \in 1..n : p[j] = x => j = k
    BY <1>1, <1>3 DEF IsInjective
  <2>9. ToSet(q) = ToSet(p) \ {x}
    <3>1. ASSUME NEW y \in ToSet(q) PROVE y \in ToSet(p) /\ y # x
      <4>1. PICK i \in 1..(n - 1) : y = q[i]
        BY <2>5 DEF ToSet
      <4>2. y = p[Old(i)] /\ Old(i) \in 1..n /\ Old(i) # k
        BY <2>4, <2>6, <4>1
      <4>3. QED BY <1>1, <2>8, <4>2 DEF ToSet
    <3>2. ASSUME NEW y \in ToSet(p), y # x PROVE y \in ToSet(q)
      <4>1. PICK j \in 1..n : y = p[j]
        BY <1>1 DEF ToSet
      <4>2. j # k
        BY <1>3, <3>2, <4>1
      <4>3. PICK i \in 1..(n - 1) : Old(i) = j
        BY <2>6, <4>2
      <4>4. y = q[i]
        BY <2>4, <4>1, <4>3
      <4>5. QED BY <2>5, <4>4 DEF ToSet
    <3>3. QED BY <3>1, <3>2
  <2>10. QED BY <2>3, <2>4, <2>7, <2>9
<1>4. QED BY <1>2, <1>3

\* Whoever asks is not in the queue yet, whoever leaves it was in one place.
LEMMA QueueKept ==
  ASSUME IInv, Queue, [Next]_vars
  PROVE  Queue'
<1> DEFINE All == Requests \cup {"stream"}
<1>1. pool \in Seq(All) /\ IsInjective(pool) /\ "stream" \in All
  BY DEF Queue
<1>2. ChanSize \in Nat /\ MaxFaults \in Nat /\ Len(out) \in Nat /\ out \in Seq(Trades)
  <2>1. out \in Seq(Trades)
    BY DEF IInv, Types
  <2>2. QED BY <2>1, Constant
<1>3. ASSUME NEW x
      PROVE  /\ GiveBack(x, pool) \in Seq(All) /\ IsInjective(GiveBack(x, pool))
             /\ ToSet(GiveBack(x, pool)) = ToSet(pool) \ {x}
  <2> HIDE DEF All
  <2>1. QED BY <1>1, Returning
<1>4. ASSUME NEW x \in All, x \notin ToSet(pool)
      PROVE  /\ Ask(x, pool) \in Seq(All) /\ IsInjective(Ask(x, pool))
             /\ ToSet(Ask(x, pool)) = ToSet(pool) \cup {x}
  <2> HIDE DEF All
  <2>1. QED BY <1>1, <1>4, Asking
<1>5. /\ Ask("stream", GiveBack("stream", pool)) \in Seq(All)
      /\ IsInjective(Ask("stream", GiveBack("stream", pool)))
      /\ "stream" \in ToSet(Ask("stream", GiveBack("stream", pool)))
  <2> DEFINE q == GiveBack("stream", pool)
  <2>1. q \in Seq(All) /\ IsInjective(q) /\ "stream" \notin ToSet(q)
    BY <1>3
  <2> HIDE DEF q, All
  <2>2. ToSet(Ask("stream", q)) = ToSet(q) \cup {"stream"}
        /\ Ask("stream", q) \in Seq(All) /\ IsInjective(Ask("stream", q))
    BY <1>1, <2>1, Asking
  <2>3. QED BY <2>2 DEF q
<1>6. CASE \/ IndexNext \/ Client \/ Ping \/ Written \/ WriteFails \/ HandlerEnds
           \/ UNCHANGED vars
  BY <1>6 DEF Queue, IndexNext, Client, ClientMoves, Ping, Written, WriteFails,
              HandlerEnds, HandlerTo, vars
<1>7. ASSUME NEW r \in Requests, RequestAsks(r) \/ RequestServed(r)
      PROVE  Queue'
  <2>1. r # "stream" /\ r \in All
    BY StreamAssumption
  <2>2. UNCHANGED <<stream, sent, out, faults, handler, client>>
    BY <1>7 DEF RequestAsks, RequestServed
  <2>3. /\ pool' \in Seq(All) /\ IsInjective(pool')
        /\ "stream" \in ToSet(pool') <=> "stream" \in ToSet(pool)
    <3>1. CASE RequestAsks(r)
      BY <1>4, <2>1, <3>1 DEF RequestAsks
    <3>2. CASE RequestServed(r)
      BY <1>3, <2>1, <3>2 DEF RequestServed
    <3>3. QED BY <1>7, <3>1, <3>2
  <2>4. QED BY <2>2, <2>3 DEF Queue
<1>8. CASE Forward
  <2>1. out' = Tail(out) /\ out # <<>> /\ Len(out) <= ChanSize
        /\ handler' = "writing"
        /\ UNCHANGED <<stream, sent, client, pool, faults>>
    BY <1>8 DEF Forward, Queue
  <2>2. Len(out') \in Nat /\ Len(out') <= Len(out)
    BY <1>2, <2>1
  <2>3. Len(out') <= ChanSize
    BY <1>2, <2>1, <2>2
  <2>4. QED BY <2>1, <2>3 DEF Queue
<1>9. CASE QueryBacklog
  BY <1>3, <1>9 DEF QueryBacklog, StreamTo, Queue, Streaming
<1>10. CASE SendBacklog
  <2>1. PICK t \in rows : out' = Append(out, t)
    BY <1>10 DEF SendBacklog
  <2>2. Len(out') = Len(out) + 1
    BY <1>2, <2>1
  <2>3. Len(out) < ChanSize
    BY <1>10 DEF SendBacklog
  <2>4. Len(out') <= ChanSize
    BY <1>2, <2>2, <2>3
  <2>5. QED BY <1>10, <2>4 DEF SendBacklog, StreamTo, Queue, Streaming
<1>11. CASE Poll
  BY <1>11 DEF Poll, StreamTo, Queue, Streaming
<1>12. CASE SendRow
  <2>1. PICK t \in rows : out' = Append(out, t)
    BY <1>12 DEF SendRow
  <2>2. Len(out') = Len(out) + 1
    BY <1>2, <2>1
  <2>3. Len(out) < ChanSize
    BY <1>12 DEF SendRow
  <2>4. Len(out') <= ChanSize
    BY <1>2, <2>2, <2>3
  <2>5. QED BY <1>12, <2>4 DEF SendRow, StreamTo, Queue, Streaming
<1>13. CASE RowsSent
  BY <1>3, <1>5, <1>13 DEF RowsSent, StreamTo, Queue, Streaming
<1>14. CASE Wake
  <2>1. "stream" \notin ToSet(pool)
    BY <1>14 DEF Wake, Queue
  <2>2. QED BY <1>1, <1>4, <1>14, <2>1 DEF Wake, StreamTo, Queue, Streaming
<1>15. CASE CloseOut \/ CloseDone
  BY <1>15 DEF CloseOut, CloseDone, StreamTo, Queue, Streaming
<1>16. CASE Canceled \/ StreamFails
  <2>1. faults' = faults \/ (faults > 0 /\ faults' = faults - 1)
    BY <1>16 DEF Canceled, StreamFails
  <2>2. faults \in 0..MaxFaults
    BY DEF Queue
  <2>3. faults' \in 0..MaxFaults
    BY <1>2, <2>1, <2>2
  <2>4. QED BY <1>3, <1>16, <2>3
        DEF Canceled, StreamFails, StreamReturns, Queue, Streaming
<1>17. QED
  BY <1>6, <1>7, <1>8, <1>9, <1>10, <1>11, <1>12, <1>13, <1>14, <1>15, <1>16
  DEF Next, StreamSteps
-----------------------------------------------------------------------------
\* The invariant holds in every reachable state.
THEOREM Invariance == Spec => []IInv
BY InitIInv, StepKeepsIInv, PTL DEF Spec

\* In the queue of the connection pool nobody stands twice, and the stream only
\* while it queries.
THEOREM QueueInvariance == Spec => []Queue
<1>1. Init => Queue
  <2>1. SUFFICES ASSUME Init PROVE Queue
    OBVIOUS
  <2>2. pool = <<"stream">> /\ out = <<>>
    BY <2>1 DEF Init
  <2>3. pool \in Seq(Requests \cup {"stream"}) /\ IsInjective(pool)
    BY <2>2 DEF IsInjective
  <2>4. "stream" \in ToSet(pool)
    BY <2>2 DEF ToSet
  <2>5. Len(out) <= ChanSize /\ faults \in 0..MaxFaults
    BY <2>1, <2>2, Constant DEF Init
  <2>6. QED BY <2>1, <2>3, <2>4, <2>5 DEF Init, Queue, Streaming
<1>2. IInv /\ Queue /\ [Next]_vars => Queue'
  BY QueueKept
<1>3. QED BY <1>1, <1>2, Invariance, PTL DEF Spec

\* The types of a connection and of the queue it shares with other requests,
\* in which nobody stands twice.
THEOREM TypeCorrect == Spec => []TypeOK
<1>1. IInv /\ Queue => TypeOK
  <2>1. SUFFICES ASSUME IInv, Queue PROVE TypeOK
    OBVIOUS
  <2>2. base \in -1..LastSeq
    <3>1. LastSeq \in Int /\ indexed \in -1..LastSeq /\ base \in -1..indexed
      <4>1. LastSeq \in Int
        BY Constant
      <4>2. QED BY <2>1, <4>1 DEF IInv, Types
    <3>2. indexed \in Int
      BY <3>1
    <3>3. QED BY <3>1, <3>2
  <2>3. ToSet(pool) \subseteq Requests \cup {"stream"}
    <3>1. pool \in Seq(Requests \cup {"stream"})
      BY <2>1 DEF Queue
    <3>2. \A i \in DOMAIN pool : pool[i] \in Requests \cup {"stream"}
      BY <3>1
    <3>3. QED BY <3>2 DEF ToSet
  <2>4. QED BY <2>1, <2>2, <2>3 DEF IInv, Types, Queue, TypeOK
<1>2. QED BY <1>1, Invariance, QueueInvariance, PTL

\* A stream that sleeps, sends its backlog or is over, however it ended, neither
\* holds a database connection nor stands in the way of those who want one.
THEOREM NoConnectionKept ==
  Spec => [](stream \in {"backlog rows", "sleep", "stopped", "out closed", "done"}
               => "stream" \notin ToSet(pool))
<1>1. Queue => (stream \in {"backlog rows", "sleep", "stopped", "out closed", "done"}
                  => "stream" \notin ToSet(pool))
  BY DEF Queue
<1>2. QED BY <1>1, QueueInvariance, PTL

\* Polling by cursor, page by page, passes over no trade that a checkpoint
\* brought after the backlog query.
THEOREM NoTradeSkipped == Spec => []NothingSkipped
<1>1. IInv => NothingSkipped
  BY DEF IInv, Alive, Covered, NothingSkipped
<1>2. QED BY <1>1, Invariance, PTL

\* What follows the backlog is in strict order of (checkpoint, tx_digest,
\* event_seq), across polls.
THEOREM LiveIsOrdered == Spec => []LiveInOrder
<1>1. IInv => LiveInOrder
  <2>1. SUFFICES ASSUME IInv, handler # "closed",
                        NEW i \in DOMAIN Live, NEW j \in DOMAIN Live, i < j
                 PROVE  Key[Live[i]] < Key[Live[j]]
    BY DEF LiveInOrder
  <2>2. Sent \in Seq(Trades) /\ Len(Sent) \in Nat /\ replayed \in Nat
        /\ replayed <= Len(Sent)
    BY <2>1, SentType, Ranges DEF IInv, Alive, BacklogPart
  <2>3. DOMAIN Live = 1..(Len(Sent) - replayed)
        /\ \A k \in DOMAIN Live : Live[k] = Sent[replayed + k]
    BY <2>2 DEF Live
  <2>4. /\ replayed + i \in Position /\ replayed + j \in Position
        /\ replayed <= replayed + i /\ replayed + i < replayed + j
        /\ 0 < replayed + i
    BY <2>1, <2>2, <2>3 DEF Position
  <2>5. Key[Sent[replayed + i]] < Key[Sent[replayed + j]]
    BY <2>1, <2>4 DEF IInv, Alive, Ordered
  <2>6. QED BY <2>3, <2>5
<1>2. QED BY <1>1, Invariance, PTL

\* Handing over from time order to key order repeats a trade of the backlog only
\* if one after it in time has the lesser key.
THEOREM RepeatsAreOvertaken == Spec => []OnlyOvertakenRepeat
<1>1. IInv => OnlyOvertakenRepeat
  <2>1. SUFFICES ASSUME IInv, handler # "closed",
                        NEW i \in DOMAIN Sent, NEW j \in DOMAIN Sent, i < j,
                        Sent[i] = Sent[j]
                 PROVE  \E k \in i..replayed : /\ Before(Sent[i], Sent[k])
                                               /\ Key[Sent[k]] < Key[Sent[i]]
    BY DEF OnlyOvertakenRepeat
  <2>2. Sent \in Seq(Trades) /\ Len(Sent) \in Nat /\ replayed \in Nat
        /\ replayed <= Len(Sent) /\ Alive
    BY <2>1, SentType, Ranges DEF IInv, Alive, BacklogPart
  <2>3. /\ i \in Position /\ j \in Position /\ i \in Nat /\ j \in Nat /\ 0 < i
        /\ Sent[i] \in Trades /\ Sent[j] \in Trades /\ Key[Sent[i]] \in Nat
    BY <2>1, <2>2, TradeTypes DEF Position
  <2>4. ~(replayed <= i)
    <3>1. SUFFICES ASSUME replayed <= i PROVE FALSE
      OBVIOUS
    <3>2. Key[Sent[i]] < Key[Sent[j]]
      BY <2>1, <2>2, <2>3, <3>1 DEF Alive, Ordered
    <3>3. QED BY <2>1, <2>3, <3>2
  <2>5. ~(j <= replayed)
    <3>1. SUFFICES ASSUME j <= replayed PROVE FALSE
      OBVIOUS
    <3>2. i \in 1..replayed /\ j \in 1..replayed
      BY <2>2, <2>3, <2>4, <3>1
    <3>3. Before(Sent[i], Sent[j])
      BY <2>1, <2>2, <3>2 DEF Alive, BacklogPart
    <3>4. QED BY <2>1, <2>3, <3>3, TimeOrder
  <2>6. /\ replayed \in Position /\ replayed \in i..replayed
        /\ i \in 1..replayed /\ replayed \in 1..replayed /\ i < replayed
        /\ replayed < j /\ 0 < replayed
    BY <2>2, <2>3, <2>4, <2>5 DEF Position
  <2>7. Before(Sent[i], Sent[replayed])
    BY <2>2, <2>6 DEF Alive, BacklogPart
  <2>8. Key[Sent[replayed]] < Key[Sent[j]]
    BY <2>2, <2>3, <2>6 DEF Alive, Ordered
  <2>9. QED BY <2>1, <2>6, <2>7, <2>8
<1>2. QED BY <1>1, Invariance, PTL
=============================================================================
