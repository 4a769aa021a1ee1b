---------------------------- MODULE MCLifecycle -----------------------------
(***************************************************************************)
(* Instances of Lifecycle for TLC: a producer, a consumer and a tool, two  *)
(* objects, so that a queue is unlinked and created again, and one slot,   *)
(* so that one message fills the queue.                                    *)
(***************************************************************************)
EXTENDS Lifecycle

OneGeometry == {<<1, 2>>}
=============================================================================
