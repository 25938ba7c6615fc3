----------------------------- MODULE SpscRingMC -----------------------------
(***************************************************************************)
(* SpscRing for TLC: three slots and five operations, so that the ring     *)
(* fills and both indexes wrap around more than once.                      *)
(***************************************************************************)
EXTENDS SpscRing
=============================================================================
