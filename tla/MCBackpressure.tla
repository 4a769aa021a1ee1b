--------------------------- MODULE MCBackpressure ---------------------------
(***************************************************************************)
(* Instances of Backpressure for TLC: one or two slots, one content, one   *)
(* spin before the first sleep and two retries at most, so that every loop *)
(* goes through each of its phases and comes back.                         *)
(***************************************************************************)
EXTENDS Backpressure
=============================================================================
