----------------------------- MODULE ShmRivals ------------------------------
(***************************************************************************)
(* ShmBuffer with a second producer program beside the first one: nothing  *)
(* in exercises/03/sol/e2/producer.c keeps a user from starting it twice.  *)
(* Its set-up unlinks and creates the semaphores (lines 121-132) before    *)
(* O_EXCL may refuse it the memory (line 74).                              *)
(***************************************************************************)
EXTENDS ShmBuffer

VARIABLES rmain, rstep, rhandle, rpc, rops, rruns  \* the second producer program

rvars == <<rmain, rstep, rhandle, rpc, rops, rruns>>

\* The same program, with names and objs and the consumer in common.
R == INSTANCE ShmBuffer WITH pmain <- rmain, pstep <- rstep, phandle <- rhandle,
                             ppc <- rpc, pops <- rops, pruns <- rruns

\* rivals bounds the launches of the second program: none where the user is
\* to launch in order.
RivalsAssumption ==
    \A p \in Plans : p.rivals \in Nat /\ (p.order = "orderly" => p.rivals = 0)

RivalInit ==
    /\ Init
    /\ rmain = "idle" /\ rstep = 1 /\ rhandle = [nm \in Names |-> 0]
    /\ rpc = [p \in Producers |-> "none"] /\ rops = [p \in Producers |-> 0] /\ rruns = 0

RivalLaunch == rruns < plan.rivals /\ R!LaunchProducer

RivalProgram == RivalLaunch \/ R!SetupStep \/ R!JoinProducers \/ R!PDestroyStep

RivalStep == /\ \/ RivalProgram \/ R!KillProducer
                \/ \E p \in Producers : R!ProduceChild(p)
             /\ UNCHANGED <<pvars, pruns>>

RivalNext == (Next /\ UNCHANGED rvars) \/ RivalStep

RivalSpec == RivalInit /\ [][RivalNext]_<<vars, rvars>>

-----------------------------------------------------------------------------
(* Properties. *)

PastSetUp == {"run", "destroy"}

\* Whose children write to a buffer: however often and whenever the producer
\* is started, two of its launches are never past their set-ups at once, also
\* when one was killed, since O_EXCL (producer.c line 74) refuses the second;
\* and with what: they share the semaphores with the children that read from
\* it, even if the user does not wait between launches, as long as nobody
\* starts a second producer beside the first one, which replaces them.
BufferGuarded == /\ ~ (pmain \in PastSetUp /\ rmain \in PastSetUp)
                 /\ rruns = 0 => SameBuffer
=============================================================================
