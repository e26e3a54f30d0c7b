------------------------------ MODULE Readers ------------------------------
(***************************************************************************)
(* The readers of the API beside the indexer: the walk of a client over    *)
(* pages (Pages) and the requests for the status (LatestProbe).  All that  *)
(* they share is the indexer's commit, which moves the progress row and    *)
(* makes the checkpoint's rows visible, and neither of them writes         *)
(* anything the other reads; a behaviour has one of them.                  *)
(***************************************************************************)
EXTENDS Pages, LatestProbe

walk  == <<now, time, limit, cursor, pages, first, done>>
probe == <<scenario, head, pc, low, high, seen, answer, cached, fresh, began,
           cachedFrom, behind, faults>>
vars == <<processed, walk, probe>>

Walking == scenario.askers = {}

\* Nobody walks: the walk's limit and clock do not matter.
Init ==
  /\ ProbeInit /\ WalkInit
  /\ ~Walking => /\ now = LastNow
                 /\ limit = DefaultLimit
                 /\ time = CHOOSE t \in Times : TRUE

\* A commit is one step of both.
Commit == Index /\ IF Walking THEN IndexNext ELSE UNCHANGED walk

Published == Publish /\ UNCHANGED walk

Read == Walking /\ (Tick \/ ReadPage) /\ UNCHANGED probe

Probes ==
  \/ Expire /\ UNCHANGED walk
  \/ \E a \in Askers :
       /\ ReadProgress(a) \/ Search(a) \/ Fails(a)
       /\ UNCHANGED walk

Next == Commit \/ Published \/ Read \/ Probes

\* A search goes on: its HTTP client has a time-out.
Spec == Init /\ [][Next]_vars
             /\ \A a \in Askers : WF_vars(Search(a) /\ UNCHANGED walk)
-----------------------------------------------------------------------------
\* The types of both.  The other properties are those of the two modules.
TypeOK == WalkTypes /\ ProbeTypes
=============================================================================
