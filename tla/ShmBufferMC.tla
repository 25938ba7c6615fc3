---------------------------- MODULE ShmBufferMC -----------------------------
(***************************************************************************)
(* ShmBuffer for TLC: two consumers, so that their mutex matters, and more *)
(* operations than the two slots.  Launched once, there are two producers  *)
(* too; with two launches of each program, one is enough.                  *)
(***************************************************************************)
EXTENDS ShmBuffer

Plan(order, producers, launches, killed) ==
    [order |-> order, producers |-> producers, consumers |-> {"c1", "c2"},
     runs |-> launches, kills |-> killed]

SmallPlans ==
    {Plan("orderly", {"p1", "p2"}, 1, 1), Plan("overlapping", {"p1", "p2"}, 1, 0),
     Plan("orderly", {"p1", "p2"}, 1, 0), Plan("orderly", {"p1"}, 2, 0),
     Plan("orderly", {"p1"}, 2, 2), Plan("overlapping", {"p1"}, 2, 0)}
=============================================================================
