----------------------------- MODULE Riepilogo -----------------------------
(***************************************************************************)
(* exercises/05/sol/e1: a main process and its children meet at a barrier  *)
(* of two semaphores; each child then launches batches of threads that     *)
(* append its identity to a file, until main raises a flag in shared       *)
(* memory; main then reads the file and names the most frequent writer.    *)
(***************************************************************************)
EXTENDS Integers, Sequences, FiniteSets

CONSTANTS n, m,       \* children, and threads in a batch
          Rounds,     \* bound: batches of a child before main wakes up
          ForkFails   \* whether a fork may fail

RiepilogoAssumption == n \in Nat \ {0} /\ m \in Nat \ {0} /\ Rounds \in Nat \ {0}

Children == 0 .. n - 1
Threads == 0 .. m - 1

VARIABLES
    mpc, i,                                   \* main, and its loop counter
    mainWait, childrenWait, criticalSection,  \* the semaphores' values
    data,                                     \* the flag in shared memory
    file,                                     \* accesses.log
    cpc, round,                               \* the children
    tpc,                                      \* their threads
    max_child_id                              \* what main reports, -1 before

sems == <<mainWait, childrenWait, criticalSection>>
vars == <<mpc, i, sems, data, file, cpc, round, tpc, max_child_id>>

Accesses(c) == Cardinality({k \in DOMAIN file : file[k] = c})     \* access_stats[c]

-----------------------------------------------------------------------------
\* main has created the flag, the file and the semaphores, and starts to fork.
Init ==
    /\ mpc = "fork" /\ i = 0 /\ data = 0 /\ file = <<>>
    /\ mainWait = 0 /\ childrenWait = 0 /\ criticalSection = 1
    /\ cpc = [c \in Children |-> "none"] /\ round = [c \in Children |-> 0]
    /\ tpc = [c \in Children |-> [k \in Threads |-> "none"]]
    /\ max_child_id = -1

-----------------------------------------------------------------------------
(* main and mainProcess. *)

\* A loop of n turns: turn by turn while i < n, then on to the next part.
Turn(here, next) ==
    /\ mpc = here
    /\ IF i + 1 < n THEN i' = i + 1 /\ mpc' = here ELSE i' = 0 /\ mpc' = next

Fork ==
    /\ Turn("fork", "await") /\ cpc' = [cpc EXCEPT ![i] = "ready"]
    /\ UNCHANGED <<sems, data, file, round, tpc, max_child_id>>

\* main exits at once, and leaves the children it has forked.
ForkFailure ==
    /\ ForkFails /\ mpc = "fork" /\ mpc' = "failed"
    /\ UNCHANGED <<i, sems, data, file, cpc, round, tpc, max_child_id>>

AwaitChild ==
    /\ Turn("await", "release") /\ mainWait > 0 /\ mainWait' = mainWait - 1
    /\ UNCHANGED <<childrenWait, criticalSection, data, file, cpc, round, tpc, max_child_id>>

ReleaseChild ==
    /\ Turn("release", "sleep") /\ childrenWait' = childrenWait + 1
    /\ UNCHANGED <<mainWait, criticalSection, data, file, cpc, round, tpc, max_child_id>>

WakeUp ==
    /\ mpc = "sleep" /\ data' = 1 /\ mpc' = "wait"
    /\ UNCHANGED <<i, sems, file, cpc, round, tpc, max_child_id>>

WaitChild ==
    /\ Turn("wait", "parse")
    /\ \E c \in Children : cpc[c] = "exited" /\ cpc' = [cpc EXCEPT ![c] = "reaped"]
    /\ UNCHANGED <<sems, data, file, round, tpc, max_child_id>>

\* The first child with the most accesses.
ParseOutput ==
    /\ mpc = "parse" /\ mpc' = "done"
    /\ max_child_id' = CHOOSE c \in Children :
           /\ \A d \in Children : Accesses(d) <= Accesses(c)
           /\ \A d \in 0 .. c - 1 : Accesses(d) < Accesses(c)
    /\ UNCHANGED <<i, sems, data, file, cpc, round, tpc>>

Main == \/ Fork \/ AwaitChild \/ ReleaseChild \/ WakeUp \/ WaitChild \/ ParseOutput

-----------------------------------------------------------------------------
(* childProcess. *)

CMove(c, from, to) ==
    /\ cpc[c] = from /\ cpc' = [cpc EXCEPT ![c] = to]
    /\ UNCHANGED <<mpc, i, criticalSection, data, file, max_child_id>>

Ready(c) ==
    /\ CMove(c, "ready", "blocked") /\ mainWait' = mainWait + 1
    /\ UNCHANGED <<childrenWait, round, tpc>>

Begin_NoWait(c) ==     \* defect: the child does not wait for main
    /\ CMove(c, "blocked", "create")
    /\ UNCHANGED <<mainWait, childrenWait, round, tpc>>

Begin(c) ==
    /\ CMove(c, "blocked", "create")
    /\ childrenWait > 0 /\ childrenWait' = childrenWait - 1
    /\ UNCHANGED <<mainWait, round, tpc>>

\* The threads start as they are created, one by one.
Create(c) ==
    /\ \E k \in Threads :
          /\ tpc[c][k] = "none" /\ \A l \in 0 .. k - 1 : tpc[c][l] # "none"
          /\ CMove(c, "create", IF k = m - 1 THEN "join" ELSE "create")
          /\ tpc' = [tpc EXCEPT ![c][k] = "wait"]
    /\ UNCHANGED <<mainWait, childrenWait, round>>

Join_None(c) ==     \* defect: the threads are not joined
    /\ CMove(c, "join", "check") /\ UNCHANGED tpc
    /\ round' = [round EXCEPT ![c] = @ + 1] /\ UNCHANGED <<mainWait, childrenWait>>

Join(c) ==
    /\ CMove(c, "join", "check") /\ \A k \in Threads : tpc[c][k] = "exited"
    /\ tpc' = [tpc EXCEPT ![c] = [k \in Threads |-> "none"]]
    /\ round' = [round EXCEPT ![c] = @ + 1] /\ UNCHANGED <<mainWait, childrenWait>>

Check(c) ==
    /\ CMove(c, "check", IF data = 1 THEN "exited" ELSE "create")
    /\ data = 0 => round[c] < Rounds
    /\ UNCHANGED <<mainWait, childrenWait, round, tpc>>

Child(c) == Ready(c) \/ Begin(c) \/ Create(c) \/ Join(c) \/ Check(c)

-----------------------------------------------------------------------------
(* thread_function. *)

TMove(c, k, from, to) ==
    /\ tpc[c][k] = from /\ tpc' = [tpc EXCEPT ![c][k] = to]
    /\ UNCHANGED <<mpc, i, mainWait, childrenWait, data, cpc, round, max_child_id>>

Enter(c, k) == /\ TMove(c, k, "wait", "append")
               /\ criticalSection > 0 /\ criticalSection' = criticalSection - 1
               /\ UNCHANGED file

Append_(c, k) == /\ TMove(c, k, "append", "post")
                 /\ file' = Append(file, c) /\ UNCHANGED criticalSection

Exit(c, k) == /\ TMove(c, k, "post", "exited")
              /\ criticalSection' = criticalSection + 1 /\ UNCHANGED file

Thread(c, k) == Enter(c, k) \/ Append_(c, k) \/ Exit(c, k)

-----------------------------------------------------------------------------
Next == \/ Main \/ ForkFailure
        \/ \E c \in Children : Child(c) \/ \E k \in Threads : Thread(c, k)

Spec == Init /\ [][Next]_vars

\* Every process and thread runs, and sleep() returns.
FairSpec == /\ Spec /\ WF_vars(Main)
            /\ \A c \in Children : WF_vars(Child(c)) /\ \A k \in Threads : WF_vars(Thread(c, k))

-----------------------------------------------------------------------------
(* Properties. *)

\* No thread starts before every child is ready (lines 184-186 of the source),
\* although the children pass the barrier one by one.
Barrier == (\E c \in Children : cpc[c] \in {"create", "join", "check"})
               => \A c \in Children : cpc[c] \notin {"none", "ready"}

\* Unless a fork failed, the flag ends every child and main reports; and then
\* the file holds every access there will ever be: each child's whole batches,
\* and max_child_id is the most frequent child (item 4a of the header: "a
\* process must wait for the end of currently executing threads").
Final == mpc = "done" =>
             /\ \A c \in Children : cpc[c] = "reaped" /\ Accesses(c) = m * round[c]
             /\ \A c \in Children : round[c] <= round[max_child_id]

ReportIsFinal == []Final /\ <>(mpc \in {"done", "failed"})
=============================================================================
