-------------------------- MODULE MCRollupWriters --------------------------
(* Checkpoint 0, indexed already, in minute 0, 1 and 2 in minute 1.  Fills *)
(* f0 and g0 of checkpoint 0 on two pools, f1 of 1 and f2 of 2 on the      *)
(* first.                                                                  *)
EXTENDS RollupWriters

CONSTANTS testnet, f0, g0, f1, f2, p, q, a, b, live, replay, again

MCFills == {f0, g0, f1, f2}
MCAt == [e \in MCFills |->
          <<testnet, CASE e \in {f0, g0} -> 0 [] e = f1 -> 1 [] OTHER -> 2>>]
MCMinuteOf == [c \in Networks \X (0..LastSeq) |-> (c[2] + 1) \div 2]
MCPoolOf == [e \in MCFills |-> IF e = g0 THEN q ELSE p]
MCBmsOf == [e \in MCFills |-> IF e = f1 THEN {a, b} ELSE {a}]

Ingesting(n) == [kind |-> "ingest", from |-> n, to |-> n]
Replaying(m, n) == [kind |-> "replay", from |-> m, to |-> n]

\* The live indexer, and a replay of the minute it writes.
OpenMinute == [w \in Writers |->
  IF w = live THEN <<Ingesting(1), Ingesting(2)>>
  ELSE IF w = replay THEN <<Replaying(0, 2)>> ELSE <<>>]

\* The live indexer in minute 1, two replays of minute 0.
ClosedMinute == [w \in Writers |->
  IF w = live THEN <<Ingesting(1), Ingesting(2)>> ELSE <<Replaying(0, 0)>>]

\* Two indexers on one database by mistake, one started over at 0.
TwoIndexers == [w \in Writers |->
  IF w = live THEN <<Ingesting(1), Ingesting(2)>>
  ELSE IF w = replay THEN <<Ingesting(0), Ingesting(1), Ingesting(2)>>
  ELSE <<>>]

Scenarios == {OpenMinute, ClosedMinute, TwoIndexers}
JustOpen == {OpenMinute}
=============================================================================
