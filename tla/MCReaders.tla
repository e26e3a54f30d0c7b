----------------------------- MODULE MCReaders -----------------------------
(* The walk: six rows in three checkpoints, one on another pool; the clock *)
(* passes the window's end of the oldest; three ticks are a millisecond.   *)
(* The searches: two API requests at once, with their cache; one that may  *)
(* fail; or `status` in a longer history: it first asks for 2 and may go   *)
(* up to 8.                                                                *)
EXTENDS Readers
CONSTANTS e1, e2, e3, e4, e5, x, r1, r2, status

MCWanted == {e1, e2, e3, e4, e5}
MCRows == MCWanted \cup {x}
MCCheckpoint == [e \in MCRows |->
  CASE e = e1 -> 0 [] e \in {e2, e3, e5, x} -> 1 [] e = e4 -> 2]

\* The event of e5 is older than that of the checkpoint before.
WholeTimes == [e \in MCRows |-> IF e = e5 THEN 0 ELSE 3 * MCCheckpoint[e]]

\* e2 and e5 got their times from the clock, in e3's millisecond.
MCTimes == {WholeTimes, [WholeTimes EXCEPT ![e2] = 4, ![e5] = 2]}
MCWholeTimes == {WholeTimes}

\* e2 and e3 are the first events of two transactions of one commit.
MCCpSeq == [e \in MCRows |->
  CASE e = e1 -> 0 [] e \in {e2, e3} -> 1 [] e = x -> 2 [] e = e5 -> 3 [] e = e4 -> 4]

MCApi == {r1, r2}
MCCli == {status}
WalkOnly == {[askers |-> {}, maxHead |-> 2, faults |-> 0]}
MCScenarios == WalkOnly \cup
  {[askers |-> MCApi, maxHead |-> 2, faults |-> 0],
   [askers |-> {r1}, maxHead |-> 2, faults |-> 1],
   [askers |-> MCCli, maxHead |-> 9, faults |-> 1]}
=============================================================================
