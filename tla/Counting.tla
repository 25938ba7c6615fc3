------------------------------ MODULE Counting ------------------------------
(***************************************************************************)
(* How many threads or processes are at given positions of their program.  *)
(***************************************************************************)
EXTENDS Integers, FiniteSets

\* Of threads, whose positions are pc, those at one of the positions of S.
Count(threads, pc, S) == Cardinality({t \in threads : pc[t] \in S})
=============================================================================
