------------------------------ MODULE SpscRing ------------------------------
(***************************************************************************)
(* exercises/03/sol/e3: one producer process and one consumer process      *)
(* spin on the indexes of a circular array in shared memory, without       *)
(* semaphores, atomics or fences.  On the x86 machines the Makefile builds *)
(* for, a store waits in the FIFO store buffer of its processor (psb, csb) *)
(* before it reaches memory, and a processor sees its own stores early.    *)
(* The object's name may still denote what a killed run left behind.       *)
(***************************************************************************)
EXTENDS Integers, Sequences, Ring

CONSTANTS BUFFER_SIZE, MAX_TRANSACTION, NUM_OPERATIONS,
          STORE_BUFFER        \* bound: stores a processor holds back

ASSUME SpscAssumption ==
    /\ BUFFER_SIZE \in Nat \ {0, 1} /\ MAX_TRANSACTION \in Nat \ {0}
    /\ NUM_OPERATIONS \in Nat /\ NUM_OPERATIONS >= BUFFER_SIZE
    /\ STORE_BUFFER \in Nat \ {0}

VARIABLES
    name,        \* what SH_MEM_NAME denotes: "none", "old" or "new"
    sized,       \* the objects that ftruncate has given their size
    buf, read_index, write_index,        \* the memory of each object
    ppc, mine, value, pops, psb,         \* the producer: its object, store buffer
    cpc, seen, got, localSum, cops, csb, \* the consumer: its object, store buffer
    published                            \* history: stores of write_index visible

objVars == <<name, sized>>
memVars == <<buf, read_index, write_index, published>>
prodVars == <<ppc, mine, value, pops, psb>>
consVars == <<cpc, seen, got, localSum, cops, csb>>
vars == <<objVars, memVars, prodVars, consVars>>

Slots == 0 .. BUFFER_SIZE - 1
Objects == {"old", "new"}
Zeros == [i \in Slots |-> 0]
Amounts == (-MAX_TRANSACTION .. MAX_TRANSACTION) \ {0}
Following(i) == (i + 1) % BUFFER_SIZE

\* A store is <<"index", v>> or <<"buf", v, slot>>.  The processor that issued
\* the stores of sb sees the last index among them, else the one in memory.
OwnIndex(sb, mem) ==
    LET held == {i \in 1 .. Len(sb) : sb[i][1] = "index"}
    IN  IF held = {} THEN mem
        ELSE sb[CHOOSE i \in held : \A j \in held : j <= i][2]

MyWrite == OwnIndex(psb, write_index[mine])
MyRead  == OwnIndex(csb, read_index[seen])

-----------------------------------------------------------------------------
\* A run that was killed leaves nothing, an object without a size, or one
\* with any indexes and values.
Init ==
    /\ name \in {"none", "old"} /\ sized \in SUBSET {"old"}
    /\ \E r, w \in Slots :
          /\ sized = {} => r = 0 /\ w = 0
          /\ read_index = [old |-> r, new |-> 0] /\ write_index = [old |-> w, new |-> 0]
    /\ name = "none" => sized = {}
    /\ buf = [old |-> [i \in Slots |-> MAX_TRANSACTION], new |-> Zeros]
    /\ ppc = "unlink" /\ mine = "none" /\ value = 0 /\ pops = NUM_OPERATIONS /\ psb = <<>>
    /\ cpc = "open" /\ seen = "none" /\ got = 0 /\ localSum = 0
    /\ cops = NUM_OPERATIONS /\ csb = <<>>
    /\ published = 0

-----------------------------------------------------------------------------
(* The producer: initMemory, produce, closeMemory. *)

PStep(from, to) == ppc = from /\ ppc' = to

PreventiveUnlink_None ==      \* defect: what a killed run left keeps its name
    /\ PStep("unlink", "create")
    /\ UNCHANGED <<objVars, memVars, mine, value, pops, psb, consVars>>

PreventiveUnlink ==
    /\ PStep("unlink", "create") /\ name' = "none"
    /\ UNCHANGED <<sized, memVars, mine, value, pops, psb, consVars>>

\* O_CREAT without O_EXCL.
CreateMemory ==
    /\ PStep("create", "truncate")
    /\ name' = IF name = "none" THEN "new" ELSE name
    /\ mine' = name'
    /\ UNCHANGED <<sized, memVars, value, pops, psb, consVars>>

\* ftruncate; a new object is zero before the memset already.
SizeMemory ==
    /\ PStep("truncate", "produce") /\ sized' = sized \cup {mine}
    /\ buf' = [buf EXCEPT ![mine] = Zeros]
    /\ read_index' = [read_index EXCEPT ![mine] = 0]
    /\ write_index' = [write_index EXCEPT ![mine] = 0]
    /\ UNCHANGED <<name, published, mine, value, pops, psb, consVars>>

ChooseValue ==
    /\ PStep("produce", "spin") /\ value' \in Amounts
    /\ UNCHANGED <<objVars, memVars, mine, pops, psb, consVars>>

\* The test of the busy wait that ends it; one that fails changes nothing.
NotFull_All ==        \* defect: no slot is sacrificed, a full array is overwritten
    /\ PStep("spin", "write")
    /\ UNCHANGED <<objVars, memVars, mine, value, pops, psb, consVars>>

NotFull ==
    /\ PStep("spin", "write") /\ Following(MyWrite) # read_index[mine]
    /\ UNCHANGED <<objVars, memVars, mine, value, pops, psb, consVars>>

WriteSlot ==
    /\ PStep("write", "advance") /\ Len(psb) < STORE_BUFFER
    /\ psb' = Append(psb, <<"buf", value, MyWrite>>)
    /\ UNCHANGED <<objVars, memVars, mine, value, pops, consVars>>

AdvanceWrite ==
    /\ PStep("advance", IF pops > 1 THEN "produce" ELSE "sleep")
    /\ Len(psb) < STORE_BUFFER
    /\ psb' = Append(psb, <<"index", Following(MyWrite)>>)
    /\ pops' = pops - 1
    /\ UNCHANGED <<objVars, memVars, mine, value, consVars>>

\* After a second's sleep; the mappings of the consumer stay.
CloseMemory ==
    /\ PStep("sleep", "exit") /\ name' = "none"
    /\ UNCHANGED <<sized, memVars, mine, value, pops, psb, consVars>>

Producer == \/ PreventiveUnlink \/ CreateMemory \/ SizeMemory \/ ChooseValue
            \/ NotFull \/ WriteSlot \/ AdvanceWrite \/ CloseMemory

-----------------------------------------------------------------------------
(* The consumer: openMemory, consume, closeMemory. *)

CStep(from, to) == cpc = from /\ cpc' = to

OpenFails ==
    /\ name = "none" /\ CStep("open", "failed")
    /\ UNCHANGED <<objVars, memVars, prodVars, seen, got, localSum, cops, csb>>

OpenMemory ==
    /\ name # "none" /\ CStep("open", "spin") /\ seen' = name
    /\ UNCHANGED <<objVars, memVars, prodVars, got, localSum, cops, csb>>

\* The first access to an object that has no size yet raises SIGBUS.
BusError ==
    /\ seen \notin sized /\ CStep("spin", "failed")
    /\ UNCHANGED <<objVars, memVars, prodVars, seen, got, localSum, cops, csb>>

NotEmpty ==
    /\ seen \in sized /\ MyRead # write_index[seen] /\ CStep("spin", "read")
    /\ UNCHANGED <<objVars, memVars, prodVars, seen, got, localSum, cops, csb>>

ReadSlot ==
    /\ CStep("read", "advance") /\ got' = buf[seen][MyRead]
    /\ UNCHANGED <<objVars, memVars, prodVars, seen, localSum, cops, csb>>

AdvanceRead_Stuck ==  \* defect: the slot is not given back
    /\ CStep("advance", IF cops > 1 THEN "spin" ELSE "done")
    /\ localSum' = localSum + got /\ cops' = cops - 1
    /\ UNCHANGED <<objVars, memVars, prodVars, seen, got, csb>>

AdvanceRead ==
    /\ CStep("advance", IF cops > 1 THEN "spin" ELSE "done")
    /\ Len(csb) < STORE_BUFFER
    /\ csb' = Append(csb, <<"index", Following(MyRead)>>)
    /\ localSum' = localSum + got /\ cops' = cops - 1
    /\ UNCHANGED <<objVars, memVars, prodVars, seen, got>>

Consumer == \/ OpenFails \/ OpenMemory \/ BusError \/ NotEmpty
            \/ ReadSlot \/ AdvanceRead

-----------------------------------------------------------------------------
(* The processors write their oldest store to memory. *)

DrainProducer ==
    /\ psb # <<>> /\ psb' = Tail(psb)
    /\ LET s == Head(psb)
       IN  \/ /\ s[1] = "buf" /\ buf' = [buf EXCEPT ![mine][s[3]] = s[2]]
              /\ UNCHANGED <<write_index, published>>
           \/ /\ s[1] = "index" /\ write_index' = [write_index EXCEPT ![mine] = s[2]]
              /\ published' = published + 1 /\ UNCHANGED buf
    /\ UNCHANGED <<objVars, read_index, ppc, mine, value, pops, consVars>>

DrainConsumer ==
    /\ csb # <<>> /\ csb' = Tail(csb)
    /\ read_index' = [read_index EXCEPT ![seen] = Head(csb)[2]]
    /\ UNCHANGED <<objVars, buf, write_index, published, prodVars,
                   cpc, seen, got, localSum, cops>>

\* Both have ended, or spin for ever on indexes that nobody changes.
Terminated == /\ \/ cpc \in {"done", "failed"}
                 \/ cpc = "spin" /\ seen \in sized /\ MyRead = write_index[seen]
              /\ \/ ppc = "exit"
                 \/ ppc = "spin" /\ Following(MyWrite) = read_index[mine]
              /\ psb = <<>> /\ csb = <<>> /\ UNCHANGED vars

Next == Producer \/ Consumer \/ DrainProducer \/ DrainConsumer \/ Terminated

Spec == Init /\ [][Next]_vars

\* Both processes run and every processor empties its store buffer; a busy
\* wait whose test keeps failing is a stutter.
FairSpec == /\ Spec /\ WF_vars(Producer) /\ WF_vars(Consumer)
            /\ WF_vars(DrainProducer) /\ WF_vars(DrainConsumer)

-----------------------------------------------------------------------------
(* Properties. *)

\* While the consumer reads a slot no store to that slot is on its way, not
\* even one that is still in the producer's store buffer: the one sacrificed
\* slot is enough without a mutex (producer.c lines 134-141).
NoSlotRace ==
    cpc = "read" /\ seen = mine =>
        /\ \A i \in DOMAIN psb : psb[i][1] = "buf" => psb[i][3] # MyRead
        /\ ppc = "write" => MyWrite # MyRead

\* The values the consumer has taken from the producer's object.
Taken == IF seen = mine THEN NUM_OPERATIONS - cops ELSE 0

Queue == INSTANCE TransactionQueue WITH
    Transactions <- Amounts, Capacity <- BUFFER_SIZE - 1, InitialDeposit <- 0,
    queue <- IF mine = "none" THEN <<>>
             ELSE Window(buf[mine], BUFFER_SIZE, Taken, published - Taken),
    deposit <- IF seen = mine THEN localSum ELSE 0

\* The producer's object is a FIFO of BUFFER_SIZE - 1 transactions: a put is
\* the moment write_index reaches memory, a take the consumer's store of
\* read_index.  A consumer launched too early reads what a killed run left,
\* but in another object, thanks to the shm_unlink (producer.c line 66).
ImplementsQueue == Queue!QueueSpec

\* A consumer that has mapped the producer's object, sized, or is launched
\* after that, reads all of its values, whatever a killed run left; and the
\* producer gets past its last busy wait and removes the object.
BothFinish == (mine \in sized /\ ((seen = mine /\ cpc # "failed") \/ cpc = "open"))
                  ~> (cpc = "done" /\ ppc = "exit")
=============================================================================
