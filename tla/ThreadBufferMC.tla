--------------------------- MODULE ThreadBufferMC ---------------------------
(***************************************************************************)
(* Small instances of ThreadBuffer for TLC: two producers and two          *)
(* consumers, so that both mutexes matter, and fewer slots than operations *)
(* so that the array fills, empties and wraps around.                      *)
(***************************************************************************)
EXTENDS ThreadBuffer
=============================================================================
