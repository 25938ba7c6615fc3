----------------------------- MODULE FileRivals -----------------------------
(***************************************************************************)
(* FileBuffer with a second producer program beside the first one: nothing *)
(* in exercises/02/sol/e3/producer.c keeps a user from starting it twice.  *)
(* Its set-up empties the file without taking sem_cs (common.c line 6) and *)
(* replaces the semaphores.                                                *)
(***************************************************************************)
EXTENDS FileBuffer

VARIABLES rmain, rstep, rsem, rpc, rops, rindex, rruns  \* the second producer program

rvars == <<rmain, rstep, rsem, rpc, rops, rindex, rruns>>

\* The same program, with names, objs, the file and the consumer in common.
R == INSTANCE FileBuffer WITH pmain <- rmain, pstep <- rstep, psem <- rsem, ppc <- rpc,
                              pops <- rops, index <- rindex, pruns <- rruns

\* rivals bounds the launches of the second program: none where the user is
\* to launch in order, and where there is one, each program is launched once
\* (what a failed launch left behind would go on beside the next one).
RivalsAssumption ==
    \A p \in Plans : \/ p.rivals = 0
                     \/ p.rivals = 1 /\ p.runs = 1 /\ p.order = "overlapping"

RivalInit ==
    /\ Init
    /\ rmain = "idle" /\ rstep = 1 /\ rsem = [nm \in Names |-> 0] /\ rruns = 0
    /\ rpc = [p \in Producers |-> "none"] /\ rops = [p \in Producers |-> 0]
    /\ rindex = [t \in Children |-> 0]

RivalLaunch == rruns < plan.rivals /\ R!LaunchProducer

RivalProgram == RivalLaunch \/ R!SetupStep \/ R!JoinProducers

RivalStep == /\ \/ RivalProgram \/ R!KillProducer
                \/ \E p \in Producers : R!Producer(p)
             /\ UNCHANGED <<pvars, index, pruns>>

RivalNext == (Next /\ UNCHANGED rvars) \/ RivalStep

RivalSpec == RivalInit /\ [][RivalNext]_<<vars, rvars>>

-----------------------------------------------------------------------------
(* Properties. *)

\* The children in the file, each with the semaphore it took for that.
Inside == {<<"first", p, psem["cs"]>> :
               p \in {q \in Producers : ppc[q] \in {"load", "store", "advance"}}}
          \cup {<<"second", p, rsem["cs"]>> :
               p \in {q \in Producers : rpc[q] \in {"load", "store", "advance"}}}
          \cup {<<"consumer", c, csem["cs"]>> :
               c \in {d \in Consumers : cpc[d] \in {"load", "read", "advance"}}}

\* sem_cs keeps apart the children that have the same one, of whatever
\* programs they are.  It is all that keeps them apart, and each producer
\* makes its own: so the write_index a producer has read is still the one in
\* the file when it writes the next one back, however the launches of the
\* producer and of the consumer overlap, as long as nobody starts a second
\* producer beside the first one.
FileGuarded == /\ \A s, t \in Inside : s[3] = t[3] => s = t
               /\ rruns = 0 => WriteIndexStable
=============================================================================
