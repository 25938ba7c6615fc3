----------------------------- MODULE Scheduler -----------------------------
(***************************************************************************)
(* exercises/01/sol/e3: at every ENTER main spawns a burst of detached     *)
(* threads, which a counting semaphore admits to the resources.  At the    *)
(* end of its input main destroys and frees the semaphore.                 *)
(***************************************************************************)
EXTENDS Integers, FiniteSets

CONSTANTS NUM_RESOURCES, THREAD_BURST, NUM_TASKS,
          Bursts          \* bound: ENTERs

SchedulerAssumption ==
    NUM_RESOURCES \in Nat \ {0} /\ THREAD_BURST \in Nat /\ NUM_TASKS \in Nat /\ Bursts \in Nat

VARIABLES
    dpc, thread_ID, toSpawn,     \* the driver: pc, next ID, threads left in the burst
    semaphore, freed,            \* its value; whether it has been freed
    thpc, tasks                  \* the threads: pc, tasks done

schedVars == <<dpc, thread_ID, toSpawn, semaphore, freed, thpc, tasks>>

Ids == 0 .. Bursts * THREAD_BURST - 1

Init ==
    /\ dpc = "read" /\ thread_ID = 0 /\ toSpawn = 0
    /\ semaphore = NUM_RESOURCES /\ freed = FALSE
    /\ thpc = [t \in Ids |-> "none"] /\ tasks = [t \in Ids |-> 0]

-----------------------------------------------------------------------------
(* The driver: main. *)

Enter == /\ dpc = "read" /\ thread_ID + THREAD_BURST - 1 \in Ids
         /\ dpc' = "spawn" /\ toSpawn' = THREAD_BURST
         /\ UNCHANGED <<thread_ID, semaphore, freed, thpc, tasks>>

Spawn == /\ dpc = "spawn" /\ toSpawn' = toSpawn - 1 /\ thread_ID' = thread_ID + 1
         /\ dpc' = IF toSpawn = 1 THEN "read" ELSE "spawn"
         /\ thpc' = [thpc EXCEPT ![thread_ID] = "wait"]
         /\ UNCHANGED <<semaphore, freed, tasks>>

\* A thread that cannot be created ends the process.
SpawnFails == /\ dpc = "spawn" /\ dpc' = "failed"
              /\ UNCHANGED <<thread_ID, toSpawn, semaphore, freed, thpc, tasks>>

\* pthread_exit lets the threads run on.
EndOfInput == /\ dpc = "read" /\ dpc' = "exited" /\ freed' = TRUE
              /\ UNCHANGED <<thread_ID, toSpawn, semaphore, thpc, tasks>>

-----------------------------------------------------------------------------
(* client. *)

Move(t, from, to) == /\ dpc # "failed" /\ thpc[t] = from /\ thpc' = [thpc EXCEPT ![t] = to]
                     /\ UNCHANGED <<dpc, thread_ID, toSpawn, freed>>

\* On a semaphore that has been freed sem_wait and sem_post may do anything:
\* succeed, or block, or end the process.
Freed(t, from, to) ==
    /\ freed /\ UNCHANGED <<semaphore, tasks>>
    /\ \/ \E next \in {to, "blocked"} : Move(t, from, next)
       \/ /\ thpc[t] = from /\ dpc' = "failed"
          /\ UNCHANGED <<thread_ID, toSpawn, freed, thpc>>

SemWait_NotCounted(t) ==     \* defect: the value is only tested
    \/ /\ ~freed /\ Move(t, "wait", "work") /\ semaphore > 0 /\ UNCHANGED <<semaphore, tasks>>
    \/ Freed(t, "wait", "work")

SemWait(t) ==
    \/ /\ ~freed /\ Move(t, "wait", "work") /\ UNCHANGED tasks
       /\ semaphore > 0 /\ semaphore' = semaphore - 1
    \/ Freed(t, "wait", "work")

Work(t) == /\ Move(t, "work", IF tasks[t] = NUM_TASKS THEN "post" ELSE "work")
           /\ tasks' = [tasks EXCEPT ![t] = IF @ = NUM_TASKS THEN @ ELSE @ + 1]
           /\ UNCHANGED semaphore

SemPost(t) ==
    \/ /\ ~freed /\ Move(t, "post", "exited") /\ semaphore' = semaphore + 1 /\ UNCHANGED tasks
    \/ Freed(t, "post", "exited")

Client(t) == SemWait(t) \/ Work(t) \/ SemPost(t)

-----------------------------------------------------------------------------
Next == Enter \/ Spawn \/ SpawnFails \/ EndOfInput \/ \E t \in Ids : Client(t)

\* The driver and the threads run.
Fairness == WF_schedVars(Spawn) /\ \A t \in Ids : WF_schedVars(Client(t))

Spec == Init /\ [][Next]_schedVars /\ Fairness

-----------------------------------------------------------------------------
(* Properties. *)

Holding == {t \in Ids : thpc[t] \in {"work", "post"}}

\* Until the input ends, no more than NUM_RESOURCES threads hold one, those of
\* all bursts together.
WithinResources == ~freed => Cardinality(Holding) <= NUM_RESOURCES

\* And a thread is served unless the input ends or the process does.
ResourcesShared ==
    /\ []WithinResources
    /\ \A t \in Ids : (thpc[t] = "wait") ~> (thpc[t] = "exited" \/ freed \/ dpc = "failed")
=============================================================================
