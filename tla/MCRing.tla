------------------------------- MODULE MCRing -------------------------------
(***************************************************************************)
(* Instances of Ring for TLC.  Ring_fifo.cfg: two slots, so that full,     *)
(* empty and half-full buffers occur and a slot is reused while the other  *)
(* is read, and counters of two bits, so that they wrap many times.        *)
(* Ring_truncation.cfg: payloads that are too long for the length field.   *)
(* Ring_interleaved.cfg: pushes between reserve and commit.                *)
(***************************************************************************)
EXTENDS Ring
=============================================================================
