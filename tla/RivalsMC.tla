------------------------------ MODULE RivalsMC ------------------------------
(***************************************************************************)
(* ShmRivals and FileRivals for TLC, each checked by itself: two producer  *)
(* programs beside a consumer, one of the three killed, and two launches   *)
(* of a single producer program.  The first state chooses the system, and  *)
(* the variables that only the other one has are 0.                        *)
(***************************************************************************)
EXTENDS Integers, Sequences

CONSTANTS BUFFER_SIZE, NUM_OPERATIONS

VARIABLES system, names, objs, plan
VARIABLES pmain, pstep, ppc, pops, cmain, cstep, cpc, cops, pruns, cruns, kills
VARIABLES rmain, rstep, rpc, rops, rruns
VARIABLES phandle, chandle, rhandle                 \* ShmRivals only
VARIABLES file, psem, csem, index, rsem, rindex     \* FileRivals only

both == <<names, objs, plan, pmain, pstep, ppc, pops, cmain, cstep, cpc, cops, pruns, cruns,
          kills, rmain, rstep, rpc, rops, rruns>>
shm == <<phandle, chandle, rhandle>>
bufferfile == <<file, psem, csem, index, rsem, rindex>>

Plan(producers, consumers, launches, killed, seconds) ==
    [order |-> "overlapping", producers |-> producers, consumers |-> consumers,
     runs |-> launches, kills |-> killed, rivals |-> seconds]

SmallPlans == {Plan({"p1", "p2"}, {"c1"}, 1, 0, 1), Plan({"p1"}, {"c1"}, 1, 1, 1),
               Plan({"p1"}, {"c1", "c2"}, 2, 0, 0)}

Sh == INSTANCE ShmRivals WITH Plans <- SmallPlans
Fi == INSTANCE FileRivals WITH Plans <- SmallPlans

ASSUME RivalsMCAssumption ==
    /\ Sh!ShmAssumption /\ Sh!RivalsAssumption /\ Fi!FileAssumption /\ Fi!RivalsAssumption

Init == \/ /\ system = "shm" /\ Sh!RivalInit
           /\ file = 0 /\ psem = 0 /\ csem = 0 /\ index = 0 /\ rsem = 0 /\ rindex = 0
        \/ /\ system = "file" /\ Fi!RivalInit
           /\ phandle = 0 /\ chandle = 0 /\ rhandle = 0

Next == /\ UNCHANGED system
        /\ \/ system = "shm" /\ Sh!RivalNext /\ UNCHANGED bufferfile
           \/ system = "file" /\ Fi!RivalNext /\ UNCHANGED shm

Spec == Init /\ [][Next]_<<system, both, shm, bufferfile>>

-----------------------------------------------------------------------------
\* The properties of the modules, under the names they have there.
BufferGuarded == system = "shm" => Sh!BufferGuarded
FileGuarded == system = "file" => Fi!FileGuarded
=============================================================================
