--------------------------- MODULE NamedScheduler ---------------------------
(***************************************************************************)
(* exercises/02/sol/e2: a server creates a named semaphore of              *)
(* NUM_RESOURCES tokens and removes it when it is interrupted; the threads *)
(* of client processes open it by name, take a token, work and give the    *)
(* token back.  sem_wait makes no promise about the order of its callers.  *)
(***************************************************************************)
EXTENDS Integers, FiniteSets, NamedObjects

CONSTANTS Servers,        \* launches of the server, overlapping or not
          Threads,        \* the threads of all clients
          ClientOf,       \* the process of each thread
          NUM_RESOURCES,
          Kills           \* bound: processes that end at once

ASSUME SchedulerAssumption == /\ NUM_RESOURCES \in Nat \ {0} /\ Kills \in Nat
                              /\ IsFiniteSet(Threads)

VARIABLES
    spc, ssem,       \* each server: control, its semaphore
    tpc, tsem,       \* each thread: control, its semaphore
    kills

vars == <<names, objs, spc, ssem, tpc, tsem, kills>>
SEMAPHORE_NAME == "scheduler"

Init == /\ names = [nm \in {SEMAPHORE_NAME} |-> 0] /\ objs = <<>>
        /\ spc = [s \in Servers |-> "idle"] /\ ssem = [s \in Servers |-> 0]
        /\ tpc = [t \in Threads |-> "none"] /\ tsem = [t \in Threads |-> 0]
        /\ kills = 0

Call(kind) == <<kind, SEMAPHORE_NAME>>

-----------------------------------------------------------------------------
(* The server.  SIGINT may come at any time: before setQuitHandler it ends *)
(* the process, after it runs cleanup.                                     *)

SMove(s, from, to) == spc[s] = from /\ spc' = [spc EXCEPT ![s] = to]

RemoveOld(s) ==
    /\ SMove(s, "idle", "create") /\ Perform(Call("unlink"), 0)
    /\ UNCHANGED <<ssem, tpc, tsem, kills>>

Create_Unlimited(s) ==     \* defect: one token more than resources
    /\ Succeeds(Call("create")) /\ SMove(s, "create", "install")
    /\ Perform(Call("create"), Semaphore(NUM_RESOURCES + 1))
    /\ ssem' = [ssem EXCEPT ![s] = HandleOf(Call("create"))]
    /\ UNCHANGED <<tpc, tsem, kills>>

Create(s) ==
    /\ Succeeds(Call("create")) /\ SMove(s, "create", "install")
    /\ Perform(Call("create"), Semaphore(NUM_RESOURCES))
    /\ ssem' = [ssem EXCEPT ![s] = HandleOf(Call("create"))]
    /\ UNCHANGED <<tpc, tsem, kills>>

CreateFails(s) ==
    /\ ~Succeeds(Call("create")) /\ SMove(s, "create", "failed")
    /\ UNCHANGED <<names, objs, ssem, tpc, tsem, kills>>

SetQuitHandler(s) ==
    /\ SMove(s, "install", "serve")
    /\ UNCHANGED <<names, objs, ssem, tpc, tsem, kills>>

Interrupt(s) ==
    /\ \/ SMove(s, "create", "interrupted") \/ SMove(s, "install", "interrupted")
       \/ SMove(s, "serve", "cleanup")
    /\ UNCHANGED <<names, objs, ssem, tpc, tsem, kills>>

\* sem_close ends no use that others make of the semaphore.
Cleanup(s) ==
    /\ Succeeds(Call("remove")) /\ SMove(s, "cleanup", "done")
    /\ Perform(Call("remove"), 0)
    /\ UNCHANGED <<ssem, tpc, tsem, kills>>

CleanupFails(s) ==
    /\ ~Succeeds(Call("remove")) /\ SMove(s, "cleanup", "failed")
    /\ UNCHANGED <<names, objs, ssem, tpc, tsem, kills>>

Server(s) == \/ RemoveOld(s) \/ Create(s) \/ CreateFails(s) \/ SetQuitHandler(s)
             \/ Cleanup(s) \/ CleanupFails(s)

-----------------------------------------------------------------------------
(* A client thread. *)

TMove(t, from, to) == tpc[t] = from /\ tpc' = [tpc EXCEPT ![t] = to]

Spawn(t) ==
    /\ TMove(t, "none", "open")
    /\ UNCHANGED <<names, objs, spc, ssem, tsem, kills>>

Open(t) ==
    /\ Succeeds(Call("open")) /\ TMove(t, "open", "wait")
    /\ tsem' = [tsem EXCEPT ![t] = HandleOf(Call("open"))]
    /\ UNCHANGED <<names, objs, spc, ssem, kills>>

\* All threads of a process end with it; the tokens they hold are lost.
Die(client) ==
    tpc' = [t \in Threads |-> IF ClientOf[t] = client /\ tpc[t] # "done"
                              THEN "dead" ELSE tpc[t]]

OpenFails(t) ==
    /\ ~Succeeds(Call("open")) /\ tpc[t] = "open" /\ Die(ClientOf[t])
    /\ UNCHANGED <<names, objs, spc, ssem, tsem, kills>>

\* Any of the threads in sem_wait may take a token: the order in which they
\* came does not matter.
Acquire(t) ==
    /\ TMove(t, "wait", "use") /\ SemWait(tsem[t])
    /\ UNCHANGED <<names, spc, ssem, tsem, kills>>

Release_Lost(t) ==     \* defect: the token is not given back
    /\ TMove(t, "use", "done")
    /\ UNCHANGED <<names, objs, spc, ssem, tsem, kills>>

Release(t) ==
    /\ TMove(t, "use", "done") /\ SemPost(tsem[t])
    /\ UNCHANGED <<names, spc, ssem, tsem, kills>>

Thread(t) == Open(t) \/ OpenFails(t) \/ Acquire(t) \/ Release(t)

-----------------------------------------------------------------------------
(* A process ends at once: killed, or a client whose pthread_create fails. *)

KillServer(s) ==
    /\ kills < Kills /\ kills' = kills + 1
    /\ \E from \in {"create", "install", "serve"} : SMove(s, from, "killed")
    /\ UNCHANGED <<names, objs, ssem, tpc, tsem>>

KillClient(t) ==
    /\ kills < Kills /\ kills' = kills + 1
    /\ tpc[t] \notin {"none", "done", "dead"} /\ Die(ClientOf[t])
    /\ UNCHANGED <<names, objs, spc, ssem, tsem>>

Terminated == /\ \A s \in Servers : spc[s] \in {"idle", "interrupted", "done", "failed", "killed"}
              /\ \A t \in Threads : tpc[t] \in {"none", "done", "dead"}
              /\ UNCHANGED vars

Next == \/ \E s \in Servers : Server(s) \/ Interrupt(s) \/ KillServer(s)
        \/ \E t \in Threads : Spawn(t) \/ Thread(t) \/ KillClient(t)
        \/ Terminated

Spec == Init /\ [][Next]_vars

\* Threads and servers run; nobody has to launch or interrupt anything.
FairSpec == /\ Spec
            /\ \A t \in Threads : WF_vars(Thread(t))
            /\ \A s \in Servers : WF_vars(spc[s] # "idle" /\ Server(s))

-----------------------------------------------------------------------------
(* Properties. *)

Using(o) == {t \in Threads : tsem[t] = o /\ tpc[t] = "use"}

\* No more threads than resources hold tokens of one semaphore, whatever
\* servers and clients are killed.
LimitPerSemaphore == \A o \in DOMAIN objs : Cardinality(Using(o)) <= NUM_RESOURCES

\* What the server prints is right: the resources that are not available
\* are in use (server.c line 128), as long as no client process has
\* ended with tokens in hand.
ReportIsRight == \A s \in Servers :
    spc[s] = "serve" /\ (\A t \in Threads : tpc[t] # "dead") =>
        NUM_RESOURCES - objs[ssem[s]].value = Cardinality(Using(ssem[s]))

\* A thread that has opened the semaphore gets its turn, even if the server
\* has removed the name meanwhile, and then ends: unless a client process has
\* ended, with the tokens its threads held.
Served == \A t \in Threads :
    (tpc[t] = "wait") ~> (tpc[t] = "done" \/ \E u \in Threads : tpc[u] = "dead")

\* server.c lines 61-62: "the named semaphore cannot remain in the system
\* after the server terminates!"
NameRemoved == (\A s \in Servers : spc[s] \in {"interrupted", "done"})
                   => names[SEMAPHORE_NAME] = 0
=============================================================================
