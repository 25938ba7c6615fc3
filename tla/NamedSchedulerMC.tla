-------------------------- MODULE NamedSchedulerMC --------------------------
(***************************************************************************)
(* NamedScheduler for TLC: two client processes, one with a single thread. *)
(***************************************************************************)
EXTENDS NamedScheduler, TLC

CONSTANTS t1, t2, t3
TwoClients == t1 :> "A" @@ t2 :> "A" @@ t3 :> "B"
=============================================================================
