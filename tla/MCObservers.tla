---------------------------- MODULE MCObservers ----------------------------
(***************************************************************************)
(* Instances of Observers for TLC: a ring of two slots, messages without   *)
(* content, and a percentage out of 2, which tells an empty, a             *)
(* half-full and a full queue apart without wrapping the product.          *)
(***************************************************************************)
EXTENDS Observers
============================================================================
