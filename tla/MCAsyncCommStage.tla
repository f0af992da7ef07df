-------------------------- MODULE MCAsyncCommStage --------------------------
(* Instances of AsyncCommStage for TLC. *)
EXTENDS AsyncCommStage

=============================================================================
