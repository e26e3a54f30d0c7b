----------------------------- MODULE MCCandles -----------------------------
(* Up to three fills in four minutes.  Some vary the price and the base     *)
(* size, empty ones among them, on one pool: the candles; the others vary  *)
(* the pool and the two sides, a manager with itself and no maker among    *)
(* them: the accounts.                                                     *)
EXTENDS Candles

CONSTANTS p1, p2, bm1, bm2

MCPools == {p1, p2}
MCBMs == {bm1, bm2}
MCMinutes == 0..3
MCSamples ==
  [minute : MCMinutes, pool : {p1}, maker : {bm1}, taker : {bm2}, sell : {TRUE},
   price : {1, 2, 3}, base : {0, 2}, quote : {1}]
  \cup
  [minute : {0, 2}, pool : MCPools, maker : MCBMs \cup {NoBm}, taker : {bm1},
   sell : BOOLEAN, price : {2}, base : {2}, quote : {5}]

MCLegacy == {{}, {0}, {0, 2}, {1}}
=============================================================================
