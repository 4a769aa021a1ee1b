---------------------------- MODULE MCCheckpoint ----------------------------
(***************************************************************************)
(* Instances of Checkpoint for TLC: one member that consumes, saves, dies  *)
(* and resumes, a table of two groups, so that the group a resume creates  *)
(* is not the one that died, a cleaner, and a ring of one or two slots.    *)
(***************************************************************************)
EXTENDS Checkpoint
=============================================================================
