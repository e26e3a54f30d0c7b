----------------------------- MODULE MCIndexer -----------------------------
(* Two minutes of two checkpoints each.  Checkpoint 0 holds a fill and an  *)
(* order event, 1 a fill and one that does not deserialize, 2 a fill and   *)
(* an order event, 3 a fill the database refuses where it is poison.  On   *)
(* the second network a fill each in 0 and 1.                              *)
EXTENDS Indexer

CONSTANTS testnet, mainnet, f0, f1, f2, f3, g1, o0, o2, h0, h1

MCFills  == {f0, f1, f2, f3, g1}
MCOrders == {o0, o2}
MCAt == [e \in MCFills \cup MCOrders |->
          <<testnet, CASE e \in {f0, o0} -> 0
                       [] e \in {f1, g1} -> 1
                       [] e \in {f2, o2} -> 2
                       [] e = f3 -> 3>>]
MCMinuteOf == [c \in Networks \X (0..LastSeq) |-> c[2] \div 2]

TwoNetFills == {f0, f1, h0, h1}
TwoNetAt == [e \in TwoNetFills |->
              <<IF e \in {f0, f1} THEN testnet ELSE mainnet,
                IF e \in {f0, h0} THEN 0 ELSE 1>>]

MCPoison == {<<testnet, 3>>}
=============================================================================
