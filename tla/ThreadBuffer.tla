---------------------------- MODULE ThreadBuffer ----------------------------
(***************************************************************************)
(* exercises/02/sol/e1/producer_consumer.c: NUM_PRODUCERS and              *)
(* NUM_CONSUMERS threads around one circular array, synchronised by two    *)
(* counting semaphores (e, n) and two binary ones (s1, s2).                *)
(*                                                                         *)
(* Each semaphore operation and each access to shared memory is a step of  *)
(* its own; the slot store and the index update are two steps, and so are  *)
(* the load and the store of deposit += transactions[read_index].  What    *)
(* touches only the thread's own memory (numOps--, the loop test) rides    *)
(* with the step before it.                                                *)
(***************************************************************************)
EXTENDS Integers, Sequences, Counting, Ring

CONSTANTS Producers, Consumers,                 \* the threads
          BUFFER_SIZE, INITIAL_DEPOSIT, MAX_TRANSACTION,
          OPS_PER_PRODUCER, OPS_PER_CONSUMER

\* The last conjunct is the #error of lines 43-45.
ASSUME BufferAssumption ==
    /\ IsFiniteSet(Producers) /\ IsFiniteSet(Consumers)
    /\ BUFFER_SIZE \in Nat \ {0}
    /\ INITIAL_DEPOSIT \in Int
    /\ MAX_TRANSACTION \in Nat \ {0}
    /\ OPS_PER_PRODUCER \in Nat /\ OPS_PER_CONSUMER \in Nat
    /\ OPS_PER_CONSUMER * Cardinality(Consumers) =
           OPS_PER_PRODUCER * Cardinality(Producers)

VARIABLES
    transactions, read_index, write_index, deposit,  \* the shared data
    e, n, s1, s2,                                    \* the semaphores' values
    ppc, item, pops,   \* producers: control, currentTransaction, numOps
    cpc, reg, cops,    \* consumers: control, register of the sum, numOps
    main,              \* control of the main thread
    stored, taken      \* history: what was stored, how much of it was taken

sharedVars == <<transactions, read_index, write_index, deposit, e, n, s1, s2>>
prodVars == <<ppc, item, pops>>
consVars == <<cpc, reg, cops>>
vars == <<sharedVars, prodVars, consVars, main, stored, taken>>

Slots == 0 .. BUFFER_SIZE - 1

\* The amount made of rand() % (2 * MAX_TRANSACTION).
RandomTransaction(amount) ==
    IF amount >= MAX_TRANSACTION THEN MAX_TRANSACTION - (amount + 1)
                                 ELSE amount + 1

Amounts == {RandomTransaction(a) : a \in 0 .. 2 * MAX_TRANSACTION - 1}

Running == main \notin {"done", "failed"}

-----------------------------------------------------------------------------
Init ==
    /\ transactions = [i \in Slots |-> 0]
    /\ read_index = 0 /\ write_index = 0 /\ deposit = INITIAL_DEPOSIT
    /\ e = BUFFER_SIZE /\ n = 0 /\ s1 = 1 /\ s2 = 1
    /\ ppc = [p \in Producers |-> "none"]
    /\ item = [p \in Producers |-> 0]
    /\ pops = [p \in Producers |-> OPS_PER_PRODUCER]
    /\ cpc = [c \in Consumers |-> "none"]
    /\ reg = [c \in Consumers |-> 0]
    /\ cops = [c \in Consumers |-> OPS_PER_CONSUMER]
    /\ main = "create"
    /\ stored = <<>> /\ taken = 0

-----------------------------------------------------------------------------
(* Producer threads: performTransactions. *)

PLoop(k) == IF k > 0 THEN "produce" ELSE "exit"   \* while (args->numOps > 0)

PStep(p, from, to) == Running /\ ppc[p] = from /\ ppc' = [ppc EXCEPT ![p] = to]

Produce(p) ==
    /\ PStep(p, "produce", "wait_e")
    /\ \E x \in Amounts : item' = [item EXCEPT ![p] = x]
    /\ UNCHANGED <<transactions, read_index, write_index, deposit, e, n, s1, s2,
                   pops, consVars, main, stored, taken>>

WaitEmpty_Full(p) ==     \* defect: a full array does not block
    /\ PStep(p, "wait_e", "wait_s1")
    /\ UNCHANGED <<sharedVars, item, pops, consVars, main, stored, taken>>

WaitEmpty(p) ==
    /\ PStep(p, "wait_e", "wait_s1")
    /\ e > 0 /\ e' = e - 1
    /\ UNCHANGED <<transactions, read_index, write_index, deposit, n, s1, s2,
                   item, pops, consVars, main, stored, taken>>

WaitWrite_Unlocked(p) ==     \* defect: no mutual exclusion of producers
    /\ PStep(p, "wait_s1", "write")
    /\ UNCHANGED <<sharedVars, item, pops, consVars, main, stored, taken>>

WaitWrite(p) ==
    /\ PStep(p, "wait_s1", "write")
    /\ s1 > 0 /\ s1' = s1 - 1
    /\ UNCHANGED <<transactions, read_index, write_index, deposit, e, n, s2,
                   item, pops, consVars, main, stored, taken>>

Write(p) ==
    /\ PStep(p, "write", "advance")
    /\ transactions' = [transactions EXCEPT ![write_index] = item[p]]
    /\ stored' = Append(stored, item[p])
    /\ UNCHANGED <<read_index, write_index, deposit, e, n, s1, s2,
                   item, pops, consVars, main, taken>>

AdvanceWrite_NoWrap(p) ==     \* defect: the index does not wrap around
    /\ PStep(p, "advance", "post_s1")
    /\ write_index' = write_index + 1
    /\ UNCHANGED <<transactions, read_index, deposit, e, n, s1, s2,
                   item, pops, consVars, main, stored, taken>>

AdvanceWrite(p) ==
    /\ PStep(p, "advance", "post_s1")
    /\ write_index' = (write_index + 1) % BUFFER_SIZE
    /\ UNCHANGED <<transactions, read_index, deposit, e, n, s1, s2,
                   item, pops, consVars, main, stored, taken>>

PostWrite(p) ==
    /\ PStep(p, "post_s1", "post_n")
    /\ s1' = s1 + 1
    /\ UNCHANGED <<transactions, read_index, write_index, deposit, e, n, s2,
                   item, pops, consVars, main, stored, taken>>

PostFilled(p) ==
    /\ PStep(p, "post_n", PLoop(pops[p] - 1))
    /\ n' = n + 1
    /\ pops' = [pops EXCEPT ![p] = @ - 1]
    /\ UNCHANGED <<transactions, read_index, write_index, deposit, e, s1, s2,
                   item, consVars, main, stored, taken>>

Producer(p) == \/ Produce(p) \/ WaitEmpty(p) \/ WaitWrite(p) \/ Write(p)
               \/ AdvanceWrite(p) \/ PostWrite(p) \/ PostFilled(p)

-----------------------------------------------------------------------------
(* Consumer threads: processTransactions. *)

CLoop(k) == IF k > 0 THEN "wait_n" ELSE "exit"    \* while (args->numOps > 0)

CStep(c, from, to) == Running /\ cpc[c] = from /\ cpc' = [cpc EXCEPT ![c] = to]

WaitFilled(c) ==
    /\ CStep(c, "wait_n", "wait_s2")
    /\ n > 0 /\ n' = n - 1
    /\ UNCHANGED <<transactions, read_index, write_index, deposit, e, s1, s2,
                   prodVars, reg, cops, main, stored, taken>>

WaitRead_Unlocked(c) ==     \* defect: no mutual exclusion of consumers
    /\ CStep(c, "wait_s2", "load")
    /\ UNCHANGED <<sharedVars, prodVars, reg, cops, main, stored, taken>>

WaitRead(c) ==
    /\ CStep(c, "wait_s2", "load")
    /\ s2 > 0 /\ s2' = s2 - 1
    /\ UNCHANGED <<transactions, read_index, write_index, deposit, e, n, s1,
                   prodVars, reg, cops, main, stored, taken>>

Load(c) ==
    /\ CStep(c, "load", "add")
    /\ reg' = [reg EXCEPT ![c] = deposit + transactions[read_index]]
    /\ UNCHANGED <<transactions, read_index, write_index, deposit, e, n, s1, s2,
                   prodVars, cops, main, stored, taken>>

Add(c) ==
    /\ CStep(c, "add", "advance")
    /\ deposit' = reg[c]
    /\ taken' = taken + 1
    /\ UNCHANGED <<transactions, read_index, write_index, e, n, s1, s2,
                   prodVars, reg, cops, main, stored>>

AdvanceRead_Skips(c) ==     \* defect: the index skips a slot
    /\ CStep(c, "advance", "post_s2")
    /\ read_index' = (read_index + 2) % BUFFER_SIZE
    /\ UNCHANGED <<transactions, write_index, deposit, e, n, s1, s2,
                   prodVars, reg, cops, main, stored, taken>>

AdvanceRead(c) ==
    /\ CStep(c, "advance", "post_s2")
    /\ read_index' = (read_index + 1) % BUFFER_SIZE
    /\ UNCHANGED <<transactions, write_index, deposit, e, n, s1, s2,
                   prodVars, reg, cops, main, stored, taken>>

PostRead(c) ==
    /\ CStep(c, "post_s2", "post_e")
    /\ s2' = s2 + 1
    /\ UNCHANGED <<transactions, read_index, write_index, deposit, e, n, s1,
                   prodVars, reg, cops, main, stored, taken>>

PostEmpty_Lost(c) ==     \* defect: the free slot is not announced
    /\ CStep(c, "post_e", CLoop(cops[c] - 1))
    /\ cops' = [cops EXCEPT ![c] = @ - 1]
    /\ UNCHANGED <<sharedVars, prodVars, reg, main, stored, taken>>

PostEmpty(c) ==
    /\ CStep(c, "post_e", CLoop(cops[c] - 1))
    /\ e' = e + 1
    /\ cops' = [cops EXCEPT ![c] = @ - 1]
    /\ UNCHANGED <<transactions, read_index, write_index, deposit, n, s1, s2,
                   prodVars, reg, main, stored, taken>>

Consumer(c) == \/ WaitFilled(c) \/ WaitRead(c) \/ Load(c) \/ Add(c)
               \/ AdvanceRead(c) \/ PostRead(c) \/ PostEmpty(c)

-----------------------------------------------------------------------------
(* The main thread creates the producers, then the consumers, joins the    *)
(* producers, then the consumers, prints the deposit and destroys the      *)
(* semaphores.  A failed pthread_create ends the whole process.            *)

AllCreated == /\ \A p \in Producers : ppc[p] # "none"
              /\ \A c \in Consumers : cpc[c] # "none"

CreateProducer(p) ==
    /\ main = "create" /\ PStep(p, "none", PLoop(pops[p]))
    /\ UNCHANGED <<sharedVars, item, pops, consVars, main, stored, taken>>

CreateConsumer(c) ==
    /\ main = "create" /\ CStep(c, "none", CLoop(cops[c]))
    /\ \A p \in Producers : ppc[p] # "none"
    /\ UNCHANGED <<sharedVars, prodVars, reg, cops, main, stored, taken>>

CreateFails ==
    /\ main = "create" /\ ~AllCreated
    /\ main' = "failed"
    /\ UNCHANGED <<sharedVars, prodVars, consVars, stored, taken>>

JoinProducers ==
    /\ main = "create" /\ AllCreated
    /\ \A p \in Producers : ppc[p] = "exit"
    /\ main' = "join"
    /\ UNCHANGED <<sharedVars, prodVars, consVars, stored, taken>>

JoinConsumers ==
    /\ main = "join"
    /\ \A c \in Consumers : cpc[c] = "exit"
    /\ main' = "report"
    /\ UNCHANGED <<sharedVars, prodVars, consVars, stored, taken>>

ReportAndExit ==
    /\ main = "report" /\ main' = "done"
    /\ UNCHANGED <<sharedVars, prodVars, consVars, stored, taken>>

\* What the main thread does of its own accord; CreateFails is the system's.
Main == \/ \E p \in Producers : CreateProducer(p)
        \/ \E c \in Consumers : CreateConsumer(c)
        \/ JoinProducers \/ JoinConsumers \/ ReportAndExit

Terminated == ~Running /\ UNCHANGED vars

Next == \/ Main \/ CreateFails
        \/ \E p \in Producers : Producer(p)
        \/ \E c \in Consumers : Consumer(c)
        \/ Terminated

Spec == Init /\ [][Next]_vars

\* The operating system runs every thread that can run.  sem_wait needs no
\* stronger fairness: a thread does finitely many operations, so none can
\* take another's token for ever.
FairSpec == /\ Spec /\ WF_vars(Main)
            /\ \A p \in Producers : WF_vars(Producer(p))
            /\ \A c \in Consumers : WF_vars(Consumer(c))

-----------------------------------------------------------------------------
(* Properties. *)

PPcs == {"none", "produce", "wait_e", "wait_s1", "write", "advance",
         "post_s1", "post_n", "exit"}
CPcs == {"none", "wait_n", "wait_s2", "load", "add", "advance",
         "post_s2", "post_e", "exit"}

\* Every variable stays in its type; the semaphores never exceed the values
\* main gave them (no sem_post too many), and the indexes stay in the array.
TypeOK ==
    /\ transactions \in [Slots -> Int] /\ deposit \in Int
    /\ read_index \in Slots /\ write_index \in Slots
    /\ e \in 0 .. BUFFER_SIZE /\ n \in 0 .. BUFFER_SIZE
    /\ s1 \in 0 .. 1 /\ s2 \in 0 .. 1
    /\ ppc \in [Producers -> PPcs] /\ cpc \in [Consumers -> CPcs]
    /\ item \in [Producers -> Int] /\ reg \in [Consumers -> Int]
    /\ pops \in [Producers -> Nat] /\ cops \in [Consumers -> Nat]
    /\ main \in {"create", "join", "report", "done", "failed"}
    /\ stored \in Seq(Int) /\ taken \in Nat

\* A producer never stores into the slot a consumer is reading: the two
\* mutexes are different, so only e and n keep the two sides apart
\* (lines 98-103 against 131-136).
NoSlotRace ==
    \A p \in Producers, c \in Consumers :
        ppc[p] = "write" /\ cpc[c] \in {"load", "add"}
            => write_index # read_index

\* Every slot is accounted for: free (e), filled (n), or held by a thread
\* between its wait and its post (lines 98-110 and 131-145).
ProducersAt(S) == Count(Producers, ppc, S)
ConsumersAt(S) == Count(Consumers, cpc, S)

PHolding == {"wait_s1", "write", "advance", "post_s1", "post_n"}
CHolding == {"wait_s2", "load", "add", "advance", "post_s2", "post_e"}
EmptyHeld  == ProducersAt(PHolding)
FilledHeld == ConsumersAt(CHolding)

TokensConserved == e + EmptyHeld + n + FilledHeld = BUFFER_SIZE

Pending == Len(stored) - taken     \* stored and not yet taken

SumOf(s) == LET sum[i \in 0 .. Len(s)] == IF i = 0 THEN 0 ELSE sum[i-1] + s[i]
            IN  sum[Len(s)]

\* No lost update of deposit (line 135) and nothing left behind: what main
\* prints at line 220 is the sum of all that all producers stored.
FinalDeposit ==
    main \in {"report", "done"} =>
        /\ Len(stored) = OPS_PER_PRODUCER * Cardinality(Producers)
        /\ deposit = INITIAL_DEPOSIT + SumOf(stored)

Queue == INSTANCE TransactionQueue WITH
    Transactions <- Amounts, Capacity <- BUFFER_SIZE,
    InitialDeposit <- INITIAL_DEPOSIT, deposit <- deposit,
    queue <- Window(transactions, BUFFER_SIZE, taken, Pending)

\* The circular array is a FIFO of BUFFER_SIZE transactions: a put is the
\* store into the slot, a take the update of deposit (the header, lines
\* 11-19, and line 55, "a circular array acting as a FIFO queue").
ImplementsQueue == Queue!QueueSpec

\* No thread waits for ever: the operations of both sides match (lines
\* 43-45), so main always gets past its joins (lines 210-218) and exits.
Completes == <>~Running

-----------------------------------------------------------------------------
(* The inductive invariant behind NoSlotRace and ImplementsQueue. *)

PStored  == {"advance", "post_s1", "post_n"}           \* stored, n not posted
PInside  == {"write", "advance", "post_s1"}            \* between s1's wait, post
CReading == {"wait_s2", "load", "add"}                 \* n taken, not yet added
CInside  == {"load", "add", "advance", "post_s2"}      \* between s2's wait, post

JustStored == ProducersAt(PStored)
Writers    == ProducersAt(PInside)
WriteLag   == ProducersAt({"advance"})   \* stores not yet in write_index
Reading    == ConsumersAt(CReading)
Readers    == ConsumersAt(CInside)
ReadLag    == ConsumersAt({"advance"})   \* takes not yet in read_index

FilledMatches == Pending = n + JustStored + Reading
OneWriter     == s1 + Writers = 1
OneReader     == s2 + Readers = 1
WriteIndexAt  == write_index = (Len(stored) - WriteLag) % BUFFER_SIZE
ReadIndexAt   == read_index = (taken - ReadLag) % BUFFER_SIZE
RegisterFresh == \A c \in Consumers :
                    cpc[c] = "add" => reg[c] = deposit + transactions[read_index]
ItemsDrawn    == \A p \in Producers :
                    ppc[p] \in PHolding \cup {"wait_e"} => item[p] \in Amounts
OpsLeft       == /\ \A p \in Producers : ppc[p] \notin {"none", "exit"} => pops[p] > 0
                 /\ \A c \in Consumers : cpc[c] \notin {"none", "exit"} => cops[c] > 0

\* The semaphores' values, the indexes and the threads' positions agree:
\* what is pending is what n counts and the threads hold, each index is the
\* number of completed accesses modulo BUFFER_SIZE, and a consumer's sum is
\* still current when it stores it.
IInv == /\ TypeOK /\ TokensConserved /\ FilledMatches /\ OneWriter /\ OneReader
        /\ WriteIndexAt /\ ReadIndexAt /\ RegisterFresh /\ ItemsDrawn /\ OpsLeft
=============================================================================
