------------------------------ MODULE Progress ------------------------------
(***************************************************************************)
(* What the readers of the database share: how far the indexer has         *)
(* committed.  The rows of a checkpoint and its number become visible in   *)
(* one step (Indexer, Commit).                                             *)
(***************************************************************************)
VARIABLE
  processed  \* indexer_state.processed_checkpoint
=============================================================================
