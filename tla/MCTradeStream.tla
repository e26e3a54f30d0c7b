--------------------------- MODULE MCTradeStream ---------------------------
(* Four trades in three checkpoints, u on a pool nobody asked for.         *)
EXTENDS TradeStream
CONSTANTS t1, t2, t3, t4, u, r1, r2

MCTrades == {t1, t2, t3, t4, u}
MCRequests == {r1, r2}
MCWanted == {t1, t2, t3, t4}
MCCheckpoint == [t \in MCTrades |->
  CASE t = t1 -> 0 [] t \in {t2, t3, u} -> 1 [] t = t4 -> 2]
MCKey == [t \in MCTrades |->
  CASE t = t1 -> 1 [] t = t2 -> 2 [] t = u -> 3 [] t = t3 -> 4 [] t = t4 -> 5]

\* Checkpoint 1 spans two commits; t3 has the greater digest, and is older.
OlderLater == [MCCheckpoint EXCEPT ![t2] = 2, ![u] = 2, ![t4] = 3]
=============================================================================
