----------------------- MODULE NamedScheduler_proofs -----------------------
(***************************************************************************)
(* NamedScheduler for any number of servers, threads and resources: the    *)
(* limit of each semaphore and the server's report.  The argument counts   *)
(* the tokens of every semaphore that was ever created, as a name says     *)
(* nothing of the semaphores it denoted before.                            *)
(***************************************************************************)
EXTENDS NamedScheduler, FiniteSetTheorems, SequenceTheorems, TLAPS

\* Servers from sem_open on, and threads from theirs to sem_post.
Created == {"install", "serve", "cleanup"}
Opened == {"wait", "use"}

TypeOK ==
    /\ names \in [{SEMAPHORE_NAME} -> 0 .. Len(objs)]
    /\ objs \in Seq([value : Nat])
    /\ spc \in [Servers -> {"idle", "create", "install", "serve", "cleanup",
                            "interrupted", "done", "failed", "killed"}]
    /\ ssem \in [Servers -> 0 .. Len(objs)]
    /\ tpc \in [Threads -> {"none", "open", "wait", "use", "done", "dead"}]
    /\ tsem \in [Threads -> 0 .. Len(objs)]
    /\ kills \in Nat

\* Who is past its sem_open has a semaphore.
HandlesValid ==
    /\ \A s \in Servers : spc[s] \in Created => ssem[s] \in DOMAIN objs
    /\ \A t \in Threads : tpc[t] \in Opened => tsem[t] \in DOMAIN objs

AllLive == \A t \in Threads : tpc[t] # "dead"

\* The tokens of a semaphore, in it or in use, are never more than
\* NUM_RESOURCES, and all of them unless a client process has ended.
TokensBounded == \A o \in DOMAIN objs :
    /\ objs[o].value + Cardinality(Using(o)) <= NUM_RESOURCES
    /\ AllLive => objs[o].value + Cardinality(Using(o)) = NUM_RESOURCES

IInv == TypeOK /\ HandlesValid /\ TokensBounded

-----------------------------------------------------------------------------
(* Who uses a semaphore. *)

\* The users of a semaphore are finitely many.
LEMMA UsingFinite ==
    ASSUME NEW o
    PROVE  IsFiniteSet(Using(o)) /\ Cardinality(Using(o)) \in Nat
<1>1. IsFiniteSet(Threads)
  BY SchedulerAssumption DEF SchedulerAssumption
<1>2. Using(o) \in SUBSET Threads
  BY DEF Using
<1>3. IsFiniteSet(Using(o))
  BY <1>1, <1>2, FS_Subset
<1> QED BY <1>3, FS_CardinalityType

\* A semaphore's value is a number of tokens, and so is the limit.
LEMMA ValueType ==
    ASSUME TypeOK, NEW o \in DOMAIN objs
    PROVE  objs[o] \in [value : Nat] /\ objs[o].value \in Nat /\ NUM_RESOURCES \in Nat
<1>1. objs \in Seq([value : Nat]) /\ o \in 1 .. Len(objs)
  BY DEF TypeOK
<1>2. objs[o] \in [value : Nat]
  BY <1>1, ElementOfSeq
<1>3. objs[o].value \in Nat
  BY <1>2
<1> QED BY <1>2, <1>3, SchedulerAssumption DEF SchedulerAssumption

\* If the users stay, and no value and no process moves between the living and
\* the dead, tokens stay bounded.
LEMMA TokensKept ==
    ASSUME TypeOK, TokensBounded, UNCHANGED objs,
           \A o \in DOMAIN objs : Using(o)' = Using(o), AllLive' => AllLive
    PROVE  TokensBounded'
<1> SUFFICES ASSUME NEW o \in DOMAIN objs'
             PROVE  /\ objs'[o].value + Cardinality(Using(o)') <= NUM_RESOURCES
                    /\ AllLive' => objs'[o].value + Cardinality(Using(o)') = NUM_RESOURCES
  BY DEF TokensBounded
<1>1. o \in DOMAIN objs /\ objs'[o] = objs[o] /\ Using(o)' = Using(o)
  OBVIOUS
<1> QED BY <1>1 DEF TokensBounded

\* A thread that is and was not in "use" changes no set of users.
LEMMA UsingKept ==
    ASSUME TypeOK, NEW t \in Threads, NEW from, NEW to, TMove(t, from, to),
           from \notin {"use", "dead"}, to # "use",
           \A u \in Threads \ {t} : tsem'[u] = tsem[u]
    PROVE  (\A o : Using(o)' = Using(o)) /\ (AllLive' => AllLive)
<1>1. /\ tpc[t] = from /\ tpc'[t] = to
      /\ \A u \in Threads \ {t} : tpc'[u] = tpc[u]
  BY DEF TMove, TypeOK
<1> QED BY <1>1 DEF Using, AllLive

-----------------------------------------------------------------------------
(* Every step keeps the invariant. *)

\* The steps of a server that call nothing on the name, or fail.
LEMMA ControlKeeps ==
    ASSUME IInv, NEW s \in Servers, NEW to,
           spc' = [spc EXCEPT ![s] = to], ssem[s] \in DOMAIN objs \/ to \notin Created,
           to \in {"idle", "create", "install", "serve", "cleanup", "interrupted",
                   "done", "failed", "killed"},
           names' \in [{SEMAPHORE_NAME} -> 0 .. Len(objs)], kills' \in Nat,
           UNCHANGED <<objs, ssem, tpc, tsem>>
    PROVE  IInv'
<1>1. TypeOK'
  BY DEF IInv, TypeOK
<1>2. HandlesValid'
  BY DEF IInv, TypeOK, HandlesValid
<1>3. TokensBounded'
  BY TokensKept DEF IInv, Using, AllLive
<1> QED BY <1>1, <1>2, <1>3 DEF IInv

\* sem_open of a server adds a semaphore that nobody uses yet.
LEMMA CreateKeeps ==
    ASSUME IInv, NEW s \in Servers, Create(s)
    PROVE  IInv'
<1> DEFINE new == Len(objs) + 1
<1>1. /\ objs' = Append(objs, Semaphore(NUM_RESOURCES)) /\ UNCHANGED <<tpc, tsem, kills>>
      /\ names' = [names EXCEPT ![SEMAPHORE_NAME] = new]
      /\ spc' = [spc EXCEPT ![s] = "install"] /\ ssem' = [ssem EXCEPT ![s] = new]
  BY DEF Create, SMove, Perform, Call, HandleOf
<1>2. Semaphore(NUM_RESOURCES) \in [value : Nat] /\ Semaphore(NUM_RESOURCES).value = NUM_RESOURCES
  BY SchedulerAssumption DEF SchedulerAssumption, Semaphore
<1>3. /\ objs' \in Seq([value : Nat]) /\ Len(objs') = new /\ Len(objs) \in Nat
      /\ objs'[new].value = NUM_RESOURCES
      /\ \A o \in DOMAIN objs : o \in DOMAIN objs' /\ objs'[o] = objs[o]
      /\ DOMAIN objs' = DOMAIN objs \cup {new} /\ DOMAIN objs = 1 .. Len(objs)
  BY <1>1, <1>2 DEF IInv, TypeOK
<1>4. TypeOK'
  BY <1>1, <1>3 DEF IInv, TypeOK
<1>5. HandlesValid'
  BY <1>1, <1>3 DEF IInv, TypeOK, HandlesValid
<1>6. \A o : Using(o)' = Using(o)
  BY <1>1 DEF Using
<1>7. Using(new) = {}
  BY <1>3 DEF Using, IInv, HandlesValid, Opened
<1>8. TokensBounded'
  <2> SUFFICES ASSUME NEW o \in DOMAIN objs'
               PROVE  /\ objs'[o].value + Cardinality(Using(o)') <= NUM_RESOURCES
                      /\ AllLive' => objs'[o].value + Cardinality(Using(o)') = NUM_RESOURCES
    BY DEF TokensBounded
  <2>1. CASE o = new
    <3>1. Using(o)' = {} /\ objs'[o].value = NUM_RESOURCES
      BY <2>1, <1>3, <1>6, <1>7
    <3>2. Cardinality(Using(o)') = 0 /\ NUM_RESOURCES \in Nat
      BY <3>1, FS_EmptySet, SchedulerAssumption DEF SchedulerAssumption
    <3> QED BY <3>1, <3>2
  <2>2. CASE o \in DOMAIN objs
    BY <2>2, <1>1, <1>3, <1>6 DEF IInv, TokensBounded, AllLive
  <2> QED BY <2>1, <2>2, <1>3
<1> QED BY <1>4, <1>5, <1>8 DEF IInv

\* Whatever a server does, its user and its killer included.
LEMMA ServerKeeps ==
    ASSUME IInv, NEW s \in Servers, Server(s) \/ Interrupt(s) \/ KillServer(s)
    PROVE  IInv'
<1> USE DEF IInv, TypeOK, HandlesValid, Created, SMove
<1>1. CASE RemoveOld(s)
  <2>1. /\ UNCHANGED <<objs, ssem, tpc, tsem, kills>> /\ spc' = [spc EXCEPT ![s] = "create"]
        /\ names' = [names EXCEPT ![SEMAPHORE_NAME] = 0]
    BY <1>1 DEF RemoveOld, Perform, Call
  <2>2. names' \in [{SEMAPHORE_NAME} -> 0 .. Len(objs)] /\ kills' \in Nat
    BY <2>1
  <2> QED BY <2>1, <2>2, ControlKeeps
<1>2. CASE Create(s)
  BY <1>2, CreateKeeps
<1>3. CASE CreateFails(s)
  BY <1>3, ControlKeeps DEF CreateFails
<1>4. CASE SetQuitHandler(s)
  BY <1>4, ControlKeeps DEF SetQuitHandler
<1>5. CASE Interrupt(s)
  BY <1>5, ControlKeeps DEF Interrupt
<1>6. CASE Cleanup(s)
  <2>1. /\ spc[s] = "cleanup" /\ spc' = [spc EXCEPT ![s] = "done"]
        /\ UNCHANGED <<objs, ssem, tpc, tsem, kills>>
        /\ names' = [names EXCEPT ![SEMAPHORE_NAME] = 0]
    BY <1>6 DEF Cleanup, Perform, Call
  <2>2. names' \in [{SEMAPHORE_NAME} -> 0 .. Len(objs)] /\ kills' \in Nat
    BY <2>1
  <2> QED BY <2>1, <2>2, ControlKeeps
<1>7. CASE CleanupFails(s)
  BY <1>7, ControlKeeps DEF CleanupFails
<1>8. CASE KillServer(s)
  <2>1. /\ spc' = [spc EXCEPT ![s] = "killed"] /\ kills' = kills + 1
        /\ UNCHANGED <<names, objs, ssem, tpc, tsem>>
    BY <1>8 DEF KillServer
  <2>2. names' \in [{SEMAPHORE_NAME} -> 0 .. Len(objs)] /\ kills' \in Nat
    BY <2>1
  <2> QED BY <2>1, <2>2, ControlKeeps
<1> QED BY <1>1, <1>2, <1>3, <1>4, <1>5, <1>6, <1>7, <1>8 DEF Server

\* A thread is created, or opens the semaphore.
LEMMA ArrivalKeeps ==
    ASSUME IInv, NEW t \in Threads, Spawn(t) \/ Open(t)
    PROVE  IInv'
<1>1. CASE Spawn(t)
  <2>1. TypeOK' /\ HandlesValid'
    BY <1>1 DEF Spawn, TMove, IInv, TypeOK, HandlesValid, Opened
  <2>2. TokensBounded'
    BY <1>1, UsingKept, TokensKept DEF Spawn, IInv
  <2> QED BY <2>1, <2>2 DEF IInv
<1>2. CASE Open(t)
  <2>1. names[SEMAPHORE_NAME] \in DOMAIN objs
    BY <1>2 DEF Open, Succeeds, Call, IInv, TypeOK
  <2>2. tsem' = [tsem EXCEPT ![t] = names[SEMAPHORE_NAME]] /\ TMove(t, "open", "wait")
        /\ UNCHANGED <<names, objs, spc, ssem, kills>>
    BY <1>2 DEF Open, HandleOf, Call
  <2>3. TypeOK' /\ HandlesValid'
    BY <2>1, <2>2 DEF TMove, IInv, TypeOK, HandlesValid, Opened
  <2>4. \A u \in Threads \ {t} : tsem'[u] = tsem[u]
    BY <2>2 DEF IInv, TypeOK
  <2>5. TokensBounded'
    BY <2>2, <2>4, UsingKept, TokensKept DEF IInv
  <2> QED BY <2>3, <2>5 DEF IInv
<1> QED BY <1>1, <1>2

\* sem_wait: the token goes from the semaphore to the thread.
LEMMA AcquireKeeps ==
    ASSUME IInv, NEW t \in Threads, Acquire(t)
    PROVE  IInv'
<1> DEFINE sem == tsem[t]
<1>1. /\ tpc[t] = "wait" /\ tpc' = [tpc EXCEPT ![t] = "use"]
      /\ objs[sem].value > 0 /\ objs' = [objs EXCEPT ![sem].value = @ - 1]
      /\ UNCHANGED <<names, spc, ssem, tsem, kills>>
  BY DEF Acquire, TMove, SemWait
<1>2. sem \in DOMAIN objs /\ objs[sem] \in [value : Nat]
  <2>1. sem \in DOMAIN objs
    BY <1>1 DEF IInv, HandlesValid, Opened
  <2> QED BY <2>1, ValueType DEF IInv
<1>3. /\ objs' \in Seq([value : Nat]) /\ Len(objs') = Len(objs) /\ DOMAIN objs' = DOMAIN objs
      /\ objs'[sem].value = objs[sem].value - 1
      /\ \A o \in DOMAIN objs \ {sem} : objs'[o] = objs[o]
  BY <1>1, <1>2 DEF IInv, TypeOK
<1>4. TypeOK' /\ HandlesValid'
  BY <1>1, <1>3 DEF IInv, TypeOK, HandlesValid, Opened
<1>5. /\ Using(sem)' = Using(sem) \cup {t} /\ t \notin Using(sem)
      /\ \A o : o # sem => Using(o)' = Using(o)
      /\ AllLive' => AllLive
  BY <1>1 DEF Using, AllLive, IInv, TypeOK
<1>6. Cardinality(Using(sem)') = Cardinality(Using(sem)) + 1
  BY <1>5, UsingFinite, FS_AddElement
<1>7. TokensBounded'
  <2> SUFFICES ASSUME NEW o \in DOMAIN objs'
               PROVE  /\ objs'[o].value + Cardinality(Using(o)') <= NUM_RESOURCES
                      /\ AllLive' => objs'[o].value + Cardinality(Using(o)') = NUM_RESOURCES
    BY DEF TokensBounded
  <2>1. CASE o = sem
    <3>1. objs[sem].value \in Nat /\ NUM_RESOURCES \in Nat /\ Cardinality(Using(sem)) \in Nat
      BY <1>2, ValueType, UsingFinite DEF IInv
    <3>2. /\ objs[sem].value + Cardinality(Using(sem)) <= NUM_RESOURCES
          /\ AllLive => objs[sem].value + Cardinality(Using(sem)) = NUM_RESOURCES
      BY <1>2 DEF IInv, TokensBounded
    <3>3. objs'[o].value = objs'[sem].value /\ Using(o)' = Using(sem)'
      BY <2>1, <1>1
    <3>4. /\ objs'[o].value = objs[sem].value - 1
          /\ Cardinality(Using(o)') = Cardinality(Using(sem)) + 1
      BY <3>3, <1>3, <1>6
    <3> QED BY <3>1, <3>2, <3>4, <1>5
  <2>2. CASE o # sem
    BY <2>2, <1>3, <1>5 DEF IInv, TokensBounded
  <2> QED BY <2>1, <2>2
<1> QED BY <1>4, <1>7 DEF IInv

\* sem_post: the thread gives its token back.
LEMMA ReleaseKeeps ==
    ASSUME IInv, NEW t \in Threads, Release(t)
    PROVE  IInv'
<1> DEFINE sem == tsem[t]
<1>1. /\ tpc[t] = "use" /\ tpc' = [tpc EXCEPT ![t] = "done"]
      /\ objs' = [objs EXCEPT ![sem].value = @ + 1]
      /\ UNCHANGED <<names, spc, ssem, tsem, kills>>
  BY DEF Release, TMove, SemPost
<1>2. sem \in DOMAIN objs /\ objs[sem] \in [value : Nat]
  <2>1. sem \in DOMAIN objs
    BY <1>1 DEF IInv, HandlesValid, Opened
  <2> QED BY <2>1, ValueType DEF IInv
<1>3. /\ objs' \in Seq([value : Nat]) /\ Len(objs') = Len(objs) /\ DOMAIN objs' = DOMAIN objs
      /\ objs'[sem].value = objs[sem].value + 1
      /\ \A o \in DOMAIN objs \ {sem} : objs'[o] = objs[o]
  BY <1>1, <1>2 DEF IInv, TypeOK
<1>4. TypeOK' /\ HandlesValid'
  BY <1>1, <1>3 DEF IInv, TypeOK, HandlesValid, Opened
<1>5. /\ Using(sem)' = Using(sem) \ {t} /\ t \in Using(sem)
      /\ \A o : o # sem => Using(o)' = Using(o)
      /\ AllLive' => AllLive
  BY <1>1 DEF Using, AllLive, IInv, TypeOK
<1>6. Cardinality(Using(sem)') = Cardinality(Using(sem)) - 1
  BY <1>5, UsingFinite, FS_RemoveElement
<1>7. TokensBounded'
  <2> SUFFICES ASSUME NEW o \in DOMAIN objs'
               PROVE  /\ objs'[o].value + Cardinality(Using(o)') <= NUM_RESOURCES
                      /\ AllLive' => objs'[o].value + Cardinality(Using(o)') = NUM_RESOURCES
    BY DEF TokensBounded
  <2>1. CASE o = sem
    <3>1. objs[sem].value \in Nat /\ NUM_RESOURCES \in Nat /\ Cardinality(Using(sem)) \in Nat
      BY <1>2, ValueType, UsingFinite DEF IInv
    <3>2. /\ objs[sem].value + Cardinality(Using(sem)) <= NUM_RESOURCES
          /\ AllLive => objs[sem].value + Cardinality(Using(sem)) = NUM_RESOURCES
      BY <1>2 DEF IInv, TokensBounded
    <3>3. objs'[o].value = objs'[sem].value /\ Using(o)' = Using(sem)'
      BY <2>1, <1>1
    <3>4. /\ objs'[o].value = objs[sem].value + 1
          /\ Cardinality(Using(o)') = Cardinality(Using(sem)) - 1
      BY <3>3, <1>3, <1>6
    <3> QED BY <3>1, <3>2, <3>4, <1>5
  <2>2. CASE o # sem
    BY <2>2, <1>3, <1>5 DEF IInv, TokensBounded
  <2> QED BY <2>1, <2>2
<1> QED BY <1>4, <1>7 DEF IInv

\* A client process ends: its threads use nothing any more, and their tokens
\* are in no semaphore.
LEMMA DeathKeeps ==
    ASSUME IInv, NEW t \in Threads, tpc[t] \notin {"done", "dead"}, Die(ClientOf[t]),
           kills' \in Nat, UNCHANGED <<names, objs, spc, ssem, tsem>>
    PROVE  IInv'
<1>1. /\ tpc' \in [Threads -> {"none", "open", "wait", "use", "done", "dead"}]
      /\ tpc'[t] = "dead"
      /\ \A u \in Threads : tpc'[u] \in {tpc[u], "dead"}
  BY DEF Die, IInv, TypeOK
<1>2. TypeOK' /\ HandlesValid'
  BY <1>1 DEF IInv, TypeOK, HandlesValid, Opened
<1>3. TokensBounded'
  <2> SUFFICES ASSUME NEW o \in DOMAIN objs
               PROVE  objs[o].value + Cardinality(Using(o)') <= NUM_RESOURCES
    BY <1>1 DEF TokensBounded, AllLive
  <2>1. Using(o)' \in SUBSET Using(o)
    BY <1>1 DEF Using
  <2>2. /\ Cardinality(Using(o)') <= Cardinality(Using(o))
        /\ Cardinality(Using(o)') \in Nat /\ Cardinality(Using(o)) \in Nat
    BY <2>1, UsingFinite, FS_Subset, FS_CardinalityType
  <2>3. objs[o].value \in Nat /\ NUM_RESOURCES \in Nat
    BY ValueType DEF IInv
  <2> QED BY <2>2, <2>3 DEF IInv, TokensBounded
<1> QED BY <1>2, <1>3 DEF IInv

\* Whatever a thread does, its creator and its killer included.
LEMMA ThreadKeeps ==
    ASSUME IInv, NEW t \in Threads, Spawn(t) \/ Thread(t) \/ KillClient(t)
    PROVE  IInv'
<1>1. CASE Spawn(t) \/ Open(t)
  BY <1>1, ArrivalKeeps
<1>2. CASE OpenFails(t)
  BY <1>2, DeathKeeps DEF OpenFails, IInv, TypeOK
<1>3. CASE Acquire(t)
  BY <1>3, AcquireKeeps
<1>4. CASE Release(t)
  BY <1>4, ReleaseKeeps
<1>5. CASE KillClient(t)
  BY <1>5, DeathKeeps DEF KillClient, IInv, TypeOK
<1> QED BY <1>1, <1>2, <1>3, <1>4, <1>5 DEF Thread

-----------------------------------------------------------------------------
(* The invariant, and what follows from it. *)

LEMMA InitHolds == Init => IInv
<1> SUFFICES ASSUME Init
             PROVE  IInv
  OBVIOUS
<1>1. objs = <<>> /\ Len(objs) = 0 /\ DOMAIN objs = {}
  BY DEF Init
<1>2. TypeOK
  BY <1>1 DEF Init, TypeOK
<1> QED BY <1>1, <1>2 DEF Init, IInv, HandlesValid, TokensBounded, Created, Opened

LEMMA StutterKeeps ==
    ASSUME IInv, UNCHANGED vars
    PROVE  IInv'
BY DEF vars, IInv, TypeOK, HandlesValid, TokensBounded, AllLive, Using

\* The invariant is inductive: whatever servers, clients, their users and
\* SIGINT do, the tokens of every semaphore ever created are accounted for.
THEOREM Invariant == Spec => []IInv
<1>1. IInv /\ [Next]_vars => IInv'
  <2> SUFFICES ASSUME IInv, [Next]_vars
               PROVE  IInv'
    OBVIOUS
  <2>1. ASSUME NEW s \in Servers, Server(s) \/ Interrupt(s) \/ KillServer(s)
        PROVE  IInv'
    BY <2>1, ServerKeeps
  <2>2. ASSUME NEW t \in Threads, Spawn(t) \/ Thread(t) \/ KillClient(t)
        PROVE  IInv'
    BY <2>2, ThreadKeeps
  <2>3. CASE Terminated \/ UNCHANGED vars
    BY <2>3, StutterKeeps DEF Terminated
  <2> QED BY <2>1, <2>2, <2>3 DEF Next
<1> QED BY InitHolds, <1>1, PTL DEF Spec

\* No more than NUM_RESOURCES threads hold tokens of one semaphore (server.c
\* line 79), however servers and clients come and go.
THEOREM Limit == Spec => []LimitPerSemaphore
<1>1. IInv => LimitPerSemaphore
  <2> SUFFICES ASSUME IInv, NEW o \in DOMAIN objs
               PROVE  Cardinality(Using(o)) <= NUM_RESOURCES
    BY DEF LimitPerSemaphore
  <2>1. objs[o].value \in Nat /\ NUM_RESOURCES \in Nat
    BY ValueType DEF IInv
  <2> QED BY <2>1, UsingFinite DEF IInv, TokensBounded
<1> QED BY <1>1, Invariant, PTL

\* What a server prints of its semaphore is right (server.c line 128) as long
\* as no client process has ended with tokens in hand.
THEOREM Report == Spec => []ReportIsRight
<1>1. IInv => ReportIsRight
  <2> SUFFICES ASSUME IInv, NEW s \in Servers, spc[s] = "serve", AllLive
               PROVE  NUM_RESOURCES - objs[ssem[s]].value = Cardinality(Using(ssem[s]))
    BY DEF ReportIsRight, AllLive
  <2>1. ssem[s] \in DOMAIN objs
    BY DEF IInv, HandlesValid, Created
  <2>2. objs[ssem[s]].value \in Nat /\ NUM_RESOURCES \in Nat
    BY <2>1, ValueType DEF IInv
  <2> QED BY <2>1, <2>2, UsingFinite DEF IInv, TokensBounded
<1> QED BY <1>1, Invariant, PTL
=============================================================================
