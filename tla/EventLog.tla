------------------------------ MODULE EventLog ------------------------------
(***************************************************************************)
(* What several builds of the indexer promise of the events on one         *)
(* database: each finds the events of its own packages in a checkpoint;    *)
(* what one of them has indexed stays, whoever indexes what afterwards,    *)
(* and nothing is there that none of them found.                           *)
(***************************************************************************)
EXTENDS Integers

CONSTANTS Builds, Networks,
  Found   \* Found[b][m][k]: the events build b finds in m's k-th checkpoint

VARIABLES
  processed,  \* the progress row
  indexed,    \* the events that have a row
  rewound     \* an indexer runs on from before the row went back

Init == processed = -1 /\ indexed = {} /\ rewound = FALSE

\* Checkpoint number k - 1, the next one or one that is done.
Index(b, m, k) ==
  /\ k - 1 <= processed + 1 \/ (rewound /\ k - 1 <= 1)
  /\ processed' = IF k - 1 > processed THEN k - 1 ELSE processed
  /\ indexed' = indexed \cup Found[b][m][k]
  /\ UNCHANGED rewound

\* The schema is applied again: "checkpoint 0 is done" reads like a new
\* database.  An indexer that runs goes on with 1, one that starts indexes 0 a
\* second time.
Rewind ==
  /\ processed = 0 /\ processed' = -1 /\ rewound' \in BOOLEAN
  /\ UNCHANGED indexed

\* The last such indexer is gone.
Forget == rewound /\ ~rewound' /\ UNCHANGED <<processed, indexed>>

Next ==
  \/ \E b \in Builds, m \in Networks :
       \E k \in DOMAIN Found[b][m] : Index(b, m, k)
  \/ Rewind \/ Forget

Spec == Init /\ [][Next]_<<processed, indexed, rewound>>
=============================================================================
