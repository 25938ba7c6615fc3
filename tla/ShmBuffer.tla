----------------------------- MODULE ShmBuffer -----------------------------
(***************************************************************************)
(* exercises/03/sol/e2: a producer program and a consumer program, each a  *)
(* main process and its forked children, around a circular array in POSIX  *)
(* shared memory and four named semaphores.                                *)
(*                                                                         *)
(* Either program may be killed and run again.                             *)
(***************************************************************************)
EXTENDS Integers, FiniteSets, NamedObjects, Ring

CONSTANTS BUFFER_SIZE, NUM_OPERATIONS,
          Plans        \* how the programs are built, launched and killed

\* order is how the user launches the programs, producers and consumers are
\* the children they fork; runs and kills are bounds: launches of each
\* program, kills of programs.

\* OPS_PER_x divide NUM_OPERATIONS, which exceeds BUFFER_SIZE (common.h).
ASSUME ShmAssumption ==
    /\ BUFFER_SIZE \in Nat \ {0} /\ NUM_OPERATIONS \in Nat /\ NUM_OPERATIONS > BUFFER_SIZE
    /\ \A p \in Plans :
          /\ p.order \in {"orderly", "overlapping"}
          /\ p.runs \in Nat /\ p.kills \in Nat
          /\ IsFiniteSet(p.producers) /\ p.producers # {}
          /\ IsFiniteSet(p.consumers) /\ p.consumers # {}
          /\ p.producers \cap p.consumers = {}
          /\ NUM_OPERATIONS % Cardinality(p.producers) = 0
          /\ NUM_OPERATIONS % Cardinality(p.consumers) = 0

VARIABLES
    plan,                                \* one of Plans
    pmain, pstep, phandle, ppc, pops,    \* the producer program
    cmain, cstep, chandle, cpc, cops,    \* the consumer program
    pruns, cruns, kills                  \* launches and kills so far

pvars == <<pmain, pstep, phandle, ppc, pops>>
cvars == <<cmain, cstep, chandle, cpc, cops>>
counts == <<pruns, cruns, kills, plan>>
vars == <<names, objs, pvars, cvars, counts>>

\* Launched one pair at a time, the consumer when the producer has set up;
\* in the order "overlapping" the producer and the consumer at any time, each
\* of them when its own earlier launch has ended (two producers at a time:
\* ShmRivals).
Orderly == plan.order # "overlapping"
MayKill == kills < plan.kills
Undisturbed == Orderly /\ plan.kills = 0

Producers == UNION {p.producers : p \in Plans}
Consumers == UNION {p.consumers : p \in Plans}
OPS_PER_PRODUCER == NUM_OPERATIONS \div Cardinality(plan.producers)
OPS_PER_CONSUMER == NUM_OPERATIONS \div Cardinality(plan.consumers)

\* The plan's children start at pc; there are no others.
Forked(all, children, pc) == [t \in all |-> IF t \in children THEN pc ELSE "none"]

Names == {"filled", "empty", "cs_prod", "cs_cons", "mem"}

\* The value an object is created with; stored and taken are history.
Fresh == [filled |-> Semaphore(0), empty |-> Semaphore(BUFFER_SIZE),
          cs_prod |-> Semaphore(1), cs_cons |-> Semaphore(1),
          mem |-> [buf |-> [i \in 0 .. BUFFER_SIZE - 1 |-> <<>>],
                   read_index |-> 0, write_index |-> 0,
                   stored |-> <<>>, taken |-> <<>>]]

Setup_Mem == << <<"unlink", "mem">>,     \* defect: stale or not, the memory goes too
                <<"unlink", "filled">>, <<"unlink", "empty">>, <<"unlink", "cs_prod">>,
                <<"unlink", "cs_cons">>, <<"create", "filled">>, <<"create", "empty">>,
                <<"create", "cs_prod">>, <<"create", "mem">> >>

\* The calls of initSemaphores and initMemory in their order ...
Setup == << <<"unlink", "filled">>, <<"unlink", "empty">>, <<"unlink", "cs_prod">>,
            <<"unlink", "cs_cons">>, <<"create", "filled">>, <<"create", "empty">>,
            <<"create", "cs_prod">>, <<"create", "mem">> >>
\* ... of openSemaphores and openMemory ...
Connect == << <<"open", "filled">>, <<"open", "empty">>, <<"create", "cs_cons">>,
              <<"open", "mem">> >>
\* ... of closeMemory in the producer, closeAndDestroySemaphores in the
\* consumer, where a name that is not there is an error.
PDestroy_Wrong == <<"remove", "filled">>     \* defect: another name is removed

PDestroy == <<"remove", "mem">>
CDestroy == << <<"remove", "filled">>, <<"remove", "empty">>,
               <<"remove", "cs_prod">>, <<"remove", "cs_cons">> >>

-----------------------------------------------------------------------------
Init ==
    /\ names = [nm \in Names |-> 0] /\ objs = <<>>
    /\ pmain = "idle" /\ pstep = 1 /\ phandle = [nm \in Names |-> 0]
    /\ cmain = "idle" /\ cstep = 1 /\ chandle = [nm \in Names |-> 0]
    /\ ppc = [p \in Producers |-> "none"] /\ pops = [p \in Producers |-> 0]
    /\ cpc = [c \in Consumers |-> "none"] /\ cops = [c \in Consumers |-> 0]
    /\ pruns = 0 /\ cruns = 0 /\ kills = 0 /\ plan \in Plans

-----------------------------------------------------------------------------
(* The producer program: its main process. *)

LaunchProducer ==
    /\ pmain \in {"idle", "done", "failed", "killed"} /\ pruns < plan.runs
    /\ Orderly => pruns = cruns /\ cmain \in {"idle", "done", "failed", "killed"}
    /\ pmain' = "setup" /\ pstep' = 1 /\ pruns' = pruns + 1
    /\ UNCHANGED <<names, objs, phandle, ppc, pops, cvars, cruns, kills, plan>>

SetupStep ==
    /\ pmain = "setup"
    /\ LET op == Setup[pstep]
           last == pstep = Len(Setup)
       IN  \/ /\ Succeeds(op) /\ Perform(op, Fresh[op[2]])
              /\ phandle' = IF op[1] = "create"
                            THEN [phandle EXCEPT ![op[2]] = HandleOf(op)] ELSE phandle
              /\ pmain' = IF last THEN "run" ELSE "setup"
              /\ pstep' = IF last THEN 1 ELSE pstep + 1
              /\ ppc' = IF last THEN Forked(Producers, plan.producers, "wait_empty") ELSE ppc
              /\ pops' = IF last THEN [p \in Producers |-> OPS_PER_PRODUCER] ELSE pops
           \/ /\ ~Succeeds(op) /\ pmain' = "failed"
              /\ UNCHANGED <<names, objs, pstep, phandle, ppc, pops>>
    /\ UNCHANGED <<cvars, counts>>

JoinProducers ==
    /\ pmain = "run" /\ \A p \in plan.producers : ppc[p] = "exit"
    /\ pmain' = "destroy"
    /\ UNCHANGED <<names, objs, pstep, phandle, ppc, pops, cvars, counts>>

PDestroyStep ==
    /\ pmain = "destroy"
    /\ Succeeds(PDestroy) /\ Perform(PDestroy, 0) /\ pmain' = "done"
    /\ UNCHANGED <<pstep, phandle, ppc, pops, cvars, counts>>

-----------------------------------------------------------------------------
(* The consumer program: its main process. *)

LaunchConsumer ==
    /\ cmain \in {"idle", "done", "failed", "killed"} /\ cruns < plan.runs
    /\ Orderly => cruns < pruns /\ pmain \notin {"idle", "setup"}
    /\ cmain' = "connect" /\ cstep' = 1 /\ cruns' = cruns + 1
    /\ chandle' = [nm \in Names |-> 0]
    /\ UNCHANGED <<names, objs, pvars, cpc, cops, pruns, kills, plan>>

ConnectStep ==
    /\ cmain = "connect"
    /\ LET op == Connect[cstep]
           last == cstep = Len(Connect)
       IN  \/ /\ Succeeds(op) /\ Perform(op, Fresh[op[2]])
              /\ chandle' = [chandle EXCEPT ![op[2]] = HandleOf(op)]
              /\ cmain' = IF last THEN "run" ELSE "connect"
              /\ cstep' = IF last THEN 1 ELSE cstep + 1
              /\ cpc' = IF last THEN Forked(Consumers, plan.consumers, "wait_filled") ELSE cpc
              /\ cops' = IF last THEN [c \in Consumers |-> OPS_PER_CONSUMER] ELSE cops
           \/ /\ ~Succeeds(op) /\ cmain' = "failed"
              /\ UNCHANGED <<names, objs, cstep, chandle, cpc, cops>>
    /\ UNCHANGED <<pvars, counts>>

JoinConsumers ==
    /\ cmain = "run" /\ \A c \in plan.consumers : cpc[c] = "exit"
    /\ cmain' = "destroy"
    /\ UNCHANGED <<names, objs, cstep, chandle, cpc, cops, pvars, counts>>

CDestroyStep ==
    /\ cmain = "destroy"
    /\ LET op == CDestroy[cstep]
           last == cstep = Len(CDestroy)
       IN  \/ /\ Succeeds(op) /\ Perform(op, Fresh[op[2]])
              /\ cmain' = IF last THEN "done" ELSE "destroy"
              /\ cstep' = IF last THEN 1 ELSE cstep + 1
           \/ /\ ~Succeeds(op) /\ cmain' = "failed" /\ UNCHANGED <<names, objs, cstep>>
    /\ UNCHANGED <<chandle, cpc, cops, pvars, counts>>

-----------------------------------------------------------------------------
(* The children: produce and consume. *)

Wrapped(i) == IF i + 1 = BUFFER_SIZE THEN 0 ELSE i + 1

PMove(p, from, to) ==
    /\ ppc[p] = from /\ ppc' = [ppc EXCEPT ![p] = to]
    /\ UNCHANGED <<names, pmain, pstep, phandle, cvars, counts>>

\* The value is abstracted to who stored it and when.
ProduceChild(p) ==
    LET m == phandle["mem"] IN
    \/ PMove(p, "wait_empty", "wait_cs") /\ SemWait(phandle["empty"]) /\ UNCHANGED pops
    \/ PMove(p, "wait_cs", "write") /\ SemWait(phandle["cs_prod"]) /\ UNCHANGED pops
    \/ /\ PMove(p, "write", "advance") /\ UNCHANGED pops
       /\ objs' = [objs EXCEPT ![m].buf[objs[m].write_index] = <<p, pops[p]>>,
                               ![m].stored = Append(@, <<p, pops[p]>>)]
    \/ /\ PMove(p, "advance", "post_cs") /\ UNCHANGED pops
       /\ objs' = [objs EXCEPT ![m].write_index = Wrapped(@)]
    \/ PMove(p, "post_cs", "post_filled") /\ SemPost(phandle["cs_prod"]) /\ UNCHANGED pops
    \/ /\ PMove(p, "post_filled", IF pops[p] > 1 THEN "wait_empty" ELSE "exit")
       /\ SemPost(phandle["filled"]) /\ pops' = [pops EXCEPT ![p] = @ - 1]

CMove(c, from, to) ==
    /\ cpc[c] = from /\ cpc' = [cpc EXCEPT ![c] = to]
    /\ UNCHANGED <<names, cmain, cstep, chandle, pvars, counts>>

ConsumeChild(c) ==
    LET m == chandle["mem"] IN
    \/ CMove(c, "wait_filled", "wait_cs") /\ SemWait(chandle["filled"]) /\ UNCHANGED cops
    \/ CMove(c, "wait_cs", "read") /\ SemWait(chandle["cs_cons"]) /\ UNCHANGED cops
    \/ /\ CMove(c, "read", "advance") /\ UNCHANGED cops
       /\ objs' = [objs EXCEPT ![m].taken = Append(@, objs[m].buf[objs[m].read_index])]
    \/ /\ CMove(c, "advance", "post_cs") /\ UNCHANGED cops
       /\ objs' = [objs EXCEPT ![m].read_index = Wrapped(@)]
    \/ CMove(c, "post_cs", "post_empty") /\ SemPost(chandle["cs_cons"]) /\ UNCHANGED cops
    \/ /\ CMove(c, "post_empty", IF cops[c] > 1 THEN "wait_filled" ELSE "exit")
       /\ SemPost(chandle["empty"]) /\ cops' = [cops EXCEPT ![c] = @ - 1]

-----------------------------------------------------------------------------
(* A program is killed with its children (Ctrl-C on its terminal). *)

KillProducer ==
    /\ pmain \in {"setup", "run", "destroy"} /\ MayKill
    /\ pmain' = "killed" /\ ppc' = [p \in Producers |-> "none"] /\ kills' = kills + 1
    /\ UNCHANGED <<names, objs, pstep, phandle, pops, cvars, pruns, cruns, plan>>

KillConsumer ==
    /\ cmain \in {"connect", "run", "destroy"} /\ MayKill
    /\ cmain' = "killed" /\ cpc' = [c \in Consumers |-> "none"] /\ kills' = kills + 1
    /\ UNCHANGED <<names, objs, cstep, chandle, cops, pvars, pruns, cruns, plan>>

Ended == {"idle", "done", "failed", "killed"}
Terminated == pmain \in Ended /\ cmain \in Ended /\ UNCHANGED vars

Programs == \/ LaunchProducer \/ SetupStep \/ JoinProducers \/ PDestroyStep
            \/ LaunchConsumer \/ ConnectStep \/ JoinConsumers \/ CDestroyStep

Next == \/ Programs \/ KillProducer \/ KillConsumer \/ Terminated
        \/ \E p \in Producers : ProduceChild(p)
        \/ \E c \in Consumers : ConsumeChild(c)

Spec == Init /\ [][Next]_vars

\* Every process runs; the user launches what is left to launch.
FairSpec == /\ Spec /\ WF_vars(Programs)
            /\ \A p \in Producers : WF_vars(ProduceChild(p))
            /\ \A c \in Consumers : WF_vars(ConsumeChild(c))

-----------------------------------------------------------------------------
(* Properties. *)

\* A launch of both programs creates at most five objects.
Objects == UNION {1 .. 5 * p.runs : p \in Plans}

IsMemory(o) == o \in DOMAIN objs /\ "buf" \in DOMAIN objs[o]

\* Each memory object is a queue; before it exists, an empty one.
Contents(m) == Window(m.buf, BUFFER_SIZE, Len(m.taken), Len(m.stored) - Len(m.taken))

Queues == INSTANCE ValueQueue WITH
    Buffers <- Objects, Capacity <- BUFFER_SIZE,
    Values <- Producers \X (1 .. NUM_OPERATIONS),
    queue <- [o \in Objects |-> IF IsMemory(o) THEN Contents(objs[o]) ELSE <<>>],
    delivered <- [o \in Objects |-> IF IsMemory(o) THEN objs[o].taken ELSE <<>>]

\* Every shared memory object is a FIFO, from its creation on: the children
\* that write to it never overwrite what waits, and the ones that read from
\* it never read a slot twice or too early.  The plans either launch in order,
\* and then programs may be killed, or in any order and nothing is killed: a
\* consumer that replaces a killed one, on what the producers left in filled,
\* may else connect to the memory of the producers' next launch.  After a kill
\* this rests on O_EXCL (producer.c line 73), which refuses the memory left
\* over: its indexes do not fit the new semaphores.
ImplementsQueue == Queues!QueueSpec

\* Children that share the memory share the semaphores that guard it, even
\* if the user does not wait between launches of the producer and of the
\* consumer (one of each at a time; see ShmRivals).
SameBuffer == plan.kills = 0 /\ pmain = "run" /\ cmain = "run" /\ phandle["mem"] = chandle["mem"]
                  => \A nm \in {"filled", "empty"} : phandle[nm] = chandle[nm]

\* Launched in order, no program finds a name taken or missing: the
\* producer's shm_unlink waits for its children, who cannot finish before a
\* consumer has mapped the object (NUM_OPERATIONS > BUFFER_SIZE).
NoneFails == Undisturbed => pmain # "failed" /\ cmain # "failed"

\* Moreover every pair of launches runs to its end, and together the two
\* programs remove every name: the producer the memory, the consumer the
\* semaphores (consumer.c lines 132-147).
BothComplete == Undisturbed =>
    /\ []NoneFails
    /\ <>(/\ pruns = plan.runs /\ cruns = plan.runs /\ pmain = "done" /\ cmain = "done"
          /\ \A nm \in Names : names[nm] = 0)
=============================================================================
