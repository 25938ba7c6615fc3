----------------------------- MODULE FileBuffer -----------------------------
(***************************************************************************)
(* exercises/02/sol/e3: producers and consumers, the children of two       *)
(* programs, around a circular array in a FILE.  One semaphore (cs) guards *)
(* the file, which has one content for everybody: it is rewritten in place *)
(* by the next launch of the producer program and never removed.           *)
(***************************************************************************)
EXTENDS Integers, FiniteSets, NamedObjects, Ring

CONSTANTS BUFFER_SIZE, NUM_OPERATIONS,
          Plans        \* how the programs are built, launched and killed

\* order is how the user launches the programs, producers and consumers are
\* the children they fork; runs and kills are bounds: launches of each
\* program, kills of programs.

ASSUME FileAssumption ==
    /\ BUFFER_SIZE \in Nat \ {0} /\ NUM_OPERATIONS \in Nat /\ NUM_OPERATIONS > BUFFER_SIZE
    /\ \A p \in Plans :
          /\ p.order \in {"orderly", "overlapping"}
          /\ p.runs \in Nat /\ p.kills \in Nat
          /\ IsFiniteSet(p.producers) /\ p.producers # {}
          /\ IsFiniteSet(p.consumers) /\ p.consumers # {}
          /\ p.producers \cap p.consumers = {}
          /\ NUM_OPERATIONS % Cardinality(p.producers) = 0
          /\ NUM_OPERATIONS % Cardinality(p.consumers) = 0

VARIABLES
    plan,                            \* one of Plans
    file,                            \* the file; stored and taken are history
    pmain, pstep, psem, ppc, pops,   \* the producer program, its semaphores
    cmain, cstep, csem, cpc, cops,   \* the consumer program, its semaphores
    index,                           \* each child's read_index or write_index
    pruns, cruns, kills              \* launches and kills so far

pvars == <<pmain, pstep, psem, ppc, pops>>
cvars == <<cmain, cstep, csem, cpc, cops>>
counts == <<pruns, cruns, kills, plan>>
vars == <<names, objs, file, pvars, cvars, index, counts>>

\* Launched one pair at a time, the consumer when the producer has set up;
\* in the order "overlapping" the producer and the consumer at any time, each
\* of them when its own earlier launch has ended (two producers at a time:
\* FileRivals).
Orderly == plan.order # "overlapping"
MayKill == kills < plan.kills
Undisturbed == Orderly /\ plan.kills = 0

Producers == UNION {p.producers : p \in Plans}
Consumers == UNION {p.consumers : p \in Plans}
OPS_PER_PRODUCER == NUM_OPERATIONS \div Cardinality(plan.producers)
OPS_PER_CONSUMER == NUM_OPERATIONS \div Cardinality(plan.consumers)

\* The plan's children start at pc; there are no others.
Forked(all, children, pc) == [t \in all |-> IF t \in children THEN pc ELSE "none"]

Following(i) == (i + 1) % BUFFER_SIZE

Names == {"filled", "empty", "cs"}
Fresh == [filled |-> Semaphore(0), empty |-> Semaphore(BUFFER_SIZE), cs |-> Semaphore(1)]
Children == Producers \cup Consumers

\* The calls of main and initSemaphores, of openSemaphores, and of
\* closeAndDestroySemaphores, in their order.
Setup_Keeps == << <<"truncate">>, <<"fill">>,      \* defect: what a kill left stays
                  <<"create", "filled">>, <<"create", "empty">>, <<"create", "cs">> >>

Setup == << <<"truncate">>, <<"fill">>,
            <<"unlink", "filled">>, <<"unlink", "empty">>, <<"unlink", "cs">>,
            <<"create", "filled">>, <<"create", "empty">>, <<"create", "cs">> >>
Connect == << <<"open", "filled">>, <<"open", "empty">>, <<"open", "cs">> >>

Destroy_NotCs == << <<"remove", "filled">>, <<"remove", "empty">>,   \* defect: cs is
                    <<"remove", "empty">> >>                          \* not removed

Destroy == << <<"remove", "filled">>, <<"remove", "empty">>, <<"remove", "cs">> >>

-----------------------------------------------------------------------------
Zeros == [i \in 0 .. BUFFER_SIZE - 1 |-> <<>>]

\* exists: access(BUFFER_FILENAME) finds it; length: 0 if it ends before
\* read_index, 1 if before write_index, which is its last integer, else 2.
Init ==
    /\ names = [nm \in Names |-> 0] /\ objs = <<>>
    /\ file = [exists |-> FALSE, length |-> 0, read_index |-> 0, write_index |-> 0,
               cells |-> Zeros, stored |-> <<>>, taken |-> <<>>]
    /\ pmain = "idle" /\ pstep = 1 /\ psem = [nm \in Names |-> 0]
    /\ cmain = "idle" /\ cstep = 1 /\ csem = [nm \in Names |-> 0]
    /\ ppc = [p \in Producers |-> "none"] /\ pops = [p \in Producers |-> 0]
    /\ cpc = [c \in Consumers |-> "none"] /\ cops = [c \in Consumers |-> 0]
    /\ index = [t \in Children |-> 0]
    /\ pruns = 0 /\ cruns = 0 /\ kills = 0 /\ plan \in Plans

Ended == {"idle", "done", "failed", "killed"}

-----------------------------------------------------------------------------
(* The producer program: its main process. *)

LaunchProducer ==
    /\ pmain \in Ended /\ pruns < plan.runs
    /\ Orderly => pruns = cruns /\ cmain \in Ended
    /\ pmain' = "setup" /\ pstep' = 1 /\ pruns' = pruns + 1
    /\ UNCHANGED <<names, objs, file, psem, ppc, pops, cvars, index, cruns, kills, plan>>

\* fopen "wb" empties the file at once, the zeros come with fclose; what a
\* write beyond its end skips reads as zeros too.
InitFile(op) ==
    /\ op[1] \in {"truncate", "fill"}
    /\ file' = [exists |-> TRUE, length |-> IF op[1] = "fill" THEN 2 ELSE 0,
                read_index |-> 0, write_index |-> 0, cells |-> Zeros,
                stored |-> <<>>, taken |-> <<>>]
    /\ UNCHANGED <<names, objs, psem>>

InitSemaphore(op) ==
    /\ op[1] \in {"unlink", "create"} /\ Succeeds(op) /\ Perform(op, Fresh[op[2]])
    /\ psem' = IF op[1] = "create" THEN [psem EXCEPT ![op[2]] = HandleOf(op)] ELSE psem
    /\ UNCHANGED file

SetupStep ==
    LET last == pstep = Len(Setup) IN
    /\ pmain = "setup" /\ (InitFile(Setup[pstep]) \/ InitSemaphore(Setup[pstep]))
    /\ pmain' = IF last THEN "run" ELSE "setup"
    /\ pstep' = pstep + 1
    /\ ppc' = IF last THEN Forked(Producers, plan.producers, "wait_empty") ELSE ppc
    /\ pops' = IF last THEN [p \in Producers |-> OPS_PER_PRODUCER] ELSE pops
    /\ UNCHANGED <<cvars, index, counts>>

JoinProducers_None ==     \* defect: does not wait for its children
    /\ pmain = "run"
    /\ pmain' = "done"
    /\ UNCHANGED <<names, objs, file, pstep, psem, ppc, pops, cvars, index, counts>>

\* A child that met a short file ends the main process; the others stay.
JoinProducers ==
    /\ pmain = "run"
    /\ \/ (\A p \in plan.producers : ppc[p] = "exit") /\ pmain' = "done"
       \/ (\E p \in Producers : ppc[p] = "crashed") /\ pmain' = "failed"
    /\ UNCHANGED <<names, objs, file, pstep, psem, ppc, pops, cvars, index, counts>>

-----------------------------------------------------------------------------
(* The consumer program: its main process. *)

\* What a launch that failed left behind waits for the cs that its crashed
\* child has: from here on it is left alone.
LaunchConsumer ==
    /\ cmain \in Ended /\ cruns < plan.runs
    /\ Orderly => cruns < pruns /\ pmain \notin {"idle", "setup"}
    /\ cmain' = IF file.exists THEN "connect" ELSE "failed"
    /\ cstep' = 1 /\ cruns' = cruns + 1 /\ cpc' = [c \in Consumers |-> "none"]
    /\ UNCHANGED <<names, objs, file, pvars, csem, cops, index, pruns, kills, plan>>

ConnectStep ==
    LET op == Connect[cstep]
        last == cstep = Len(Connect)
    IN  /\ cmain = "connect" /\ Succeeds(op)
        /\ csem' = [csem EXCEPT ![op[2]] = HandleOf(op)]
        /\ cmain' = IF last THEN "run" ELSE "connect"
        /\ cstep' = IF last THEN 1 ELSE cstep + 1
        /\ cpc' = IF last THEN Forked(Consumers, plan.consumers, "wait_filled") ELSE cpc
        /\ cops' = IF last THEN [c \in Consumers |-> OPS_PER_CONSUMER] ELSE cops
        /\ UNCHANGED <<names, objs, file, pvars, index, counts>>

JoinConsumers ==
    /\ cmain = "run" /\ \A c \in plan.consumers : cpc[c] = "exit"
    /\ cmain' = "destroy"
    /\ UNCHANGED <<names, objs, file, cstep, csem, cpc, cops, pvars, index, counts>>

DestroyStep ==
    LET last == cstep = Len(Destroy) IN
    /\ cmain = "destroy" /\ Succeeds(Destroy[cstep]) /\ Perform(Destroy[cstep], 0)
    /\ cmain' = IF last THEN "done" ELSE "destroy"
    /\ cstep' = IF last THEN 1 ELSE cstep + 1
    /\ UNCHANGED <<file, csem, cpc, cops, pvars, index, counts>>

\* A semaphore that is missing, or a child that met a short file and exited
\* with an error, ends the main process; the other children stay.
ConsumerFails ==
    /\ \/ cmain = "connect" /\ ~Succeeds(Connect[cstep])
       \/ cmain = "destroy" /\ ~Succeeds(Destroy[cstep])
       \/ cmain = "run" /\ \E c \in Consumers : cpc[c] = "crashed"
    /\ cmain' = "failed"
    /\ UNCHANGED <<names, objs, file, cstep, csem, cpc, cops, pvars, index, counts>>

-----------------------------------------------------------------------------
(* The children: produce with writeToBufferFile, consume with              *)
(* readFromBufferFile.  The value is abstracted to who stored it and when. *)

PMove(p, from, to) ==
    /\ ppc[p] = from /\ ppc' = [ppc EXCEPT ![p] = to]
    /\ UNCHANGED <<names, pmain, pstep, psem, cvars, counts>>

PSem(p) ==
    \/ PMove(p, "wait_empty", "wait_cs") /\ SemWait(psem["empty"]) /\ UNCHANGED pops
    \/ PMove(p, "wait_cs", "load") /\ SemWait(psem["cs"]) /\ UNCHANGED pops
    \/ PMove(p, "post_cs", "post_filled") /\ SemPost(psem["cs"]) /\ UNCHANGED pops
    \/ /\ PMove(p, "post_filled", IF pops[p] > 1 THEN "wait_empty" ELSE "exit")
       /\ SemPost(psem["filled"]) /\ pops' = [pops EXCEPT ![p] = @ - 1]

WriteToBufferFile(p) ==
    \/ /\ file.length = 2 /\ PMove(p, "load", "store")
       /\ index' = [index EXCEPT ![p] = file.write_index] /\ UNCHANGED file
    \/ file.length < 2 /\ PMove(p, "load", "crashed") /\ UNCHANGED <<index, file>>
    \/ /\ PMove(p, "store", "advance") /\ UNCHANGED index
       /\ file' = [file EXCEPT !.cells[index[p]] = <<p, pops[p]>>,
                               !.stored = Append(@, <<p, pops[p]>>)]
    \/ /\ PMove(p, "advance", "post_cs") /\ UNCHANGED index
       /\ file' = [file EXCEPT !.write_index = Following(index[p]), !.length = 2]

CMove(c, from, to) ==
    /\ cpc[c] = from /\ cpc' = [cpc EXCEPT ![c] = to]
    /\ UNCHANGED <<names, cmain, cstep, csem, pvars, counts>>

CSem(c) ==
    \/ CMove(c, "wait_filled", "wait_cs") /\ SemWait(csem["filled"]) /\ UNCHANGED cops
    \/ CMove(c, "wait_cs", "load") /\ SemWait(csem["cs"]) /\ UNCHANGED cops
    \/ CMove(c, "post_cs", "post_empty") /\ SemPost(csem["cs"]) /\ UNCHANGED cops
    \/ /\ CMove(c, "post_empty", IF cops[c] > 1 THEN "wait_filled" ELSE "exit")
       /\ SemPost(csem["empty"]) /\ cops' = [cops EXCEPT ![c] = @ - 1]

ReadFromBufferFile_Stays(c) ==     \* defect: the index is not written back
    \/ /\ file.length > 0 /\ CMove(c, "load", "read")
       /\ index' = [index EXCEPT ![c] = file.read_index] /\ UNCHANGED file
    \/ /\ CMove(c, "read", "post_cs") /\ UNCHANGED index
       /\ file' = [file EXCEPT !.taken = Append(@, file.cells[index[c]])]

ReadFromBufferFile(c) ==
    \/ /\ file.length > 0 /\ CMove(c, "load", "read")
       /\ index' = [index EXCEPT ![c] = file.read_index] /\ UNCHANGED file
    \/ file.length = 0 /\ CMove(c, "load", "crashed") /\ UNCHANGED <<index, file>>
    \/ /\ CMove(c, "read", "advance") /\ UNCHANGED index
       /\ file' = [file EXCEPT !.taken = Append(@, file.cells[index[c]])]
    \/ /\ CMove(c, "advance", "post_cs") /\ UNCHANGED index
       /\ file' = [file EXCEPT !.read_index = Following(index[c]),
                               !.length = IF @ = 0 THEN 1 ELSE @]

Producer(p) == \/ PSem(p) /\ UNCHANGED <<file, index>>
               \/ WriteToBufferFile(p) /\ UNCHANGED <<objs, pops>>
Consumer(c) == \/ CSem(c) /\ UNCHANGED <<file, index>>
               \/ ReadFromBufferFile(c) /\ UNCHANGED <<objs, cops>>

-----------------------------------------------------------------------------
(* A program is killed with its children (Ctrl-C on its terminal). *)

KillProducer ==
    /\ pmain \in {"setup", "run"} /\ MayKill
    /\ pmain' = "killed" /\ ppc' = [p \in Producers |-> "none"] /\ kills' = kills + 1
    /\ UNCHANGED <<names, objs, file, pstep, psem, pops, cvars, index, pruns, cruns, plan>>

KillConsumer ==
    /\ cmain \in {"connect", "run", "destroy"} /\ MayKill
    /\ cmain' = "killed" /\ cpc' = [c \in Consumers |-> "none"] /\ kills' = kills + 1
    /\ UNCHANGED <<names, objs, file, cstep, csem, cops, pvars, index, pruns, cruns, plan>>

Terminated == pmain \in Ended /\ cmain \in Ended /\ UNCHANGED vars

Programs == \/ LaunchProducer \/ SetupStep \/ JoinProducers
            \/ LaunchConsumer \/ ConnectStep \/ JoinConsumers \/ ConsumerFails \/ DestroyStep

Next == \/ Programs \/ KillProducer \/ KillConsumer \/ Terminated
        \/ \E p \in Producers : Producer(p)
        \/ \E c \in Consumers : Consumer(c)

Spec == Init /\ [][Next]_vars

\* Every process runs; the user launches what is left to launch.
FairSpec == /\ Spec /\ WF_vars(Programs)
            /\ \A p \in Producers : WF_vars(Producer(p))
            /\ \A c \in Consumers : WF_vars(Consumer(c))

-----------------------------------------------------------------------------
(* Properties. *)

InFile(t) == \/ t \in Producers /\ ppc[t] \in {"load", "store", "advance"}
             \/ t \in Consumers /\ cpc[t] \in {"load", "read", "advance"}

\* One child at a time has the file open, of both programs together, also
\* when programs are killed (producer.c line 59: "sem_cs to enforce mutual
\* exclusion").
OneInFile == Orderly => Cardinality({t \in Children : InFile(t)}) <= 1

\* The last launch of the producer got past its set-up.
SetUp == Orderly /\ pstep > Len(Setup)

Queue == INSTANCE ValueQueue WITH
    Buffers <- {"file"}, Capacity <- BUFFER_SIZE,
    Values <- Producers \X (1 .. NUM_OPERATIONS),
    queue <- [b \in {"file"} |->
                IF ~SetUp THEN <<>>
                ELSE Window(file.cells, BUFFER_SIZE, Len(file.taken),
                            Len(file.stored) - Len(file.taken))],
    delivered <- [b \in {"file"} |-> IF SetUp THEN file.taken ELSE <<>>]

\* Launched in order, the file is a FIFO of BUFFER_SIZE values that the set-up
\* of the producer empties, also when programs are killed and launched again:
\* each value is read once, in the order of the stores.  (A set-up that is killed may leave
\* the new file with the old semaphores, until the next one.)
ImplementsQueue == Queue!RenewedSpec

\* Whatever kills left behind, a later launch of the producer replaces the
\* file's content and the semaphores (producer.c line 50), so that it and the
\* consumer launched after it run to their end.
RecoversAfterKills == (Orderly /\ pmain = "setup" /\ kills = plan.kills)
                          ~> (pmain = "done" /\ cmain = "done")

\* The write_index a producer has read is still the one in the file when it
\* writes the next one back (common.c lines 24-43).
WriteIndexStable == \A p \in Producers :
    ppc[p] \in {"store", "advance"} => file.length = 2 /\ index[p] = file.write_index

\* Launched in order, no program finds a semaphore or the file missing, no
\* child meets a short file, and every pair of launches runs to its end and
\* removes the semaphores.
BothComplete == Undisturbed =>
    /\ [](cmain # "failed")
    /\ <>(/\ pruns = plan.runs /\ cruns = plan.runs /\ pmain = "done" /\ cmain = "done"
          /\ \A nm \in Names : names[nm] = 0)
=============================================================================
