# A verification project for soreca

TLA+ models, TLC runs and TLAPS proofs for the solved exercises of this
repository (`src/src/exercises/NN/sol/eK`, written `NN/eK` below): about twenty
small concurrent and networked C programs in the style of university exams on
operating systems and networks. Each is small enough to be modelled whole;
what makes them hard is how their threads and processes interleave, what
the kernel objects they share go through when a program is killed or launched
twice, and how pipes, FIFOs, TCP and UDP split, delay and lose what is sent.

Contents: 1 inventory, 2 plan, 3 the modules and the code, 4 the runs, 5 bounds,
6 fairness, 7 the proofs, 8 where the code and its comments disagree,
9 what is only model-checked and what is left out, 10 how to run it all.

## 1. Inventory

For each program: its state, its operations, how its parts interact, what is
hard about it, and what makes it correct.

### Bounded buffers

**Thread bounded buffer, 02/e1** (`producer_consumer.c`). State: the circular
array `transactions`, `read_index`, `write_index`, `deposit`, semaphores `e`
(free slots), `n` (filled slots), `s1`, `s2` (one mutex per side). Threads:
`NUM_PRODUCERS` producers, `NUM_CONSUMERS` consumers, main (create, join,
print). Interaction: shared memory and semaphores. Hard: the two sides hold
*different* mutexes, so only the counting semaphores keep a store and a read
apart; `deposit += x` is a load and a store; `s1` is posted before `n`.
Correct: no slot is read and written at once, no token is lost, the array is a
FIFO, the printed deposit is the sum of all that was stored, all threads end.

**Lock-free ring, 03/e3** (`producer.c`, `consumer.c`). State: a shared memory
object with `buf`, `read_index`, `write_index` (plain ints). Two processes
that spin on each other's index. Hard: no atomics, fences or semaphores, so
everything depends on the order in which stores become visible; the name may
denote what a killed run left, with any indexes, or an object that has no size
yet. Correct: the producer's object is a FIFO of `BUFFER_SIZE - 1` values,
whatever was left before; both processes get out of their busy waits.

**Shared memory M:N buffer, 03/e2** (`producer.c`, `consumer.c`). State: one
shared memory object and four named semaphores. Two main processes create, open,
unlink; their forked children run the buffer of 02/e1. Hard: two programs
launched separately share five names, of which each removes some; a kill leaves
any of them behind. Correct: each memory object is a FIFO from its creation on;
launched in order, both programs finish and no name is left; two producers are
never in one memory; who shares the memory shares the semaphores.

**File buffer, 02/e3** (`producer.c`, `consumer.c`, `common.c`). State: a *file*
with the array and both indexes, three named semaphores (`sem_cs`, empty,
filled). As above, but every access is an `fopen`/`fread`/`fwrite` under
`sem_cs`, and the file is rewritten in place by each launch. Hard: index,
element and index again are separate accesses; `initFile` truncates without
`sem_cs`, and nothing keeps a user from starting a second producer; kills leave a file
and counts of different launches. Correct: one child in the
file at a time, the file is a FIFO between set-ups, launches recover from kills.

### Admission

**Named semaphore scheduler, 02/e2** (`server.c`, `client.c`, `util.c`). State: one
named semaphore that counts resources, a signal handler. The server creates it
and prints its value; the threads of several client processes open, wait,
work, post. Hard: SIGINT at any instruction, restarts of the server with old
clients around, a client process that ends with tokens in hand. Correct: no
more than `NUM_RESOURCES` threads hold one, the report is right, who waits is
served, the name is gone when the server is.

**Burst scheduler, 01/e3** (`scheduler.c`). A semaphore of main's heap admits
detached threads to resources; at the end of its input main frees the semaphore
under threads that still use it. Correct: the limit holds and threads are
served, as long as the input lasts.

### Threads and processes that work together

**Adding threads, 01/e1 and 01/e2** (`concurrent_threads.c`). Threads add a value
`m` times, each to a variable of its own or all to one under a semaphore. Hard:
the index is passed by pointer; a load and a store per addition; unsigned
wrap-around. Correct: the sum that main prints is the expected one.

**Access log of children, 05/e1** (`riepilogo.c`). Children announce
themselves, pass a barrier made of one counting semaphore, then run batches of
threads that append to a file under a semaphore until main raises a flag in shared
memory; main then counts the accesses. Hard: barrier tokens are anonymous; the
flag is read between batches only; a failed fork. Correct: nobody starts before
all are ready; what main counts is final.

**Requester and worker, 03/e1** (`req_wrk.c`). A process and its forked worker
exchange an array in shared memory with two semaphores. Hard: the names are
removed and recreated by a second launch. Correct: a launch whose set-up
succeeds prints the squares.

### Byte streams between processes

**Pipe, 04/e2** (`main.c`): writer and reader children share a pipe smaller
than a message, a mutex on each side. Hard: partial transfers, descriptors that
keep the pipe open, a child killed in the middle of a message. Correct: a
received message is one message in one piece, and all arrive.

**FIFO echo, 04/e3** (`echo.c`, `client.c`, `rw.c`): two FIFOs, blocking opens, reads one
byte at a time up to a newline. Hard: the order of the opens, FIFOs that an earlier session
has left, what ends a line and the conversation, who removes the FIFOs. Correct: each
line is echoed; QUIT ends both (it does not, see section 8).

**FIFO of values, 06/e1** (`producer.c`, `consumer.c`): children of two programs
through one FIFO. Hard: the end of the file and SIGPIPE depend on every copy of
a descriptor. Correct: each value is read once; no process waits for ever.

**Block copy, 04/e1** (`copy.c`): read and write in blocks that may be
transferred in part. Correct: what is written is the source, byte for byte.

### Network servers

**TCP echo servers, 07/e1 and 08/e1** (`server.c`, `client.c`): one sequential
server, and one program compiled as serial, process per connection, or thread per
connection. State: accept queue, descriptor copies, the address structure, buffers. Hard:
descriptors inherited over `fork`, an address handed to a thread, clients that leave
without QUIT or reset, SIGPIPE. Correct: each client gets its own lines and its
own address, each connection is closed, and the server goes on serving; with a
process per connection no connection ends it, only a `fork` that fails.

**Date server, 06/e2** (`server.c`, `client.c`): one command, one answer, close. Hard:
parts, resets. Correct: the whole date or nothing but an end.

**UDP echo, 07/e2** (`server.c`, `client.c`): one buffer and one address for all clients. Hard:
loss, duplicates and reordering, no timeout. Correct: an answer goes to who asked.

**VPN tunnel, 10/e2** (`vpn.c`, compiled for each end): routing rules added and
deleted by commands, a signal handler, a `select` loop between a TUN device and
a UDP socket. Hard: signals at any point, commands that fail, the order of set-up, buffers
used by both directions, datagrams of third parties. Correct: rules are removed; a host gets
what came from outside and none of its own packets.

**DNS server, 10/e1** (`main.c`): decodes questions into linked lists, resolves,
encodes, frees. Hard: lists built backwards, damaged datagrams, heap blocks on
every path. Correct: the questions and their answers come back, nothing leaked.

**HTTP server, 09/e1** (`server.c`): one thread per connection; one `recv`, a
regular expression, percent decoding, a file. Hard: the descriptor handed to the
thread, split requests, a thread that cannot be created. Correct: a client gets the file that it
asked for.

### Not modelled

The `NN/src/eK` directories are the same programs with parts left out for the
student, and are not complete programs. `01/sol/performance.c` reads a clock
for the printed timings of 01/e2 and takes part in no synchronisation.

## 2. Plan

Order: what several exercises rest on first, then everything around it.

1. The bounded buffer: an abstract FIFO (`TransactionQueue`), the thread buffer
   that implements it, its inductive invariant and its proofs. *Done.*
2. The buffers of separate programs: the lock-free ring under the memory model
   of the processor, shared memory, and a file, over one module of named
   kernel objects (`NamedObjects`). *Done*; the ring implements `TransactionQueue`, the
   other two implement `ValueQueue`, all proved, with their mutual
   exclusion and the safety of their launches; a second producer program beside the first
   (`ShmRivals`, `FileRivals`), *done, proved*.
3. Admission by a named semaphore with restarts and signals: *done, the limit and
   the report proved*; the four echo servers: *done, their safety proved*.
4. The other programs, as small modules in two composites: `ChannelsMC` for those that
   talk through a channel, *done, model-checked*; `Standalone` for the others, *done, model-checked,
   and the safety of six of its seven programs proved*.
5. Proofs that are left: the codecs of `Dns` (`AnswersAsAsked`) and `Http` (`OwnFile`), which
   need an induction over data (section 9); the safety halves of the other six systems of `ChannelsMC`.
6. More models, of less weight: the names of the objects and killed children in
   `Riepilogo`; a second launch of the echo and date servers on a port in use; a second
   consumer program beside the first in 02/e3 and 03/e2.

Compositions: `Standalone` and `ChannelsMC` instantiate seven programs each. `ShmRivals` and
`FileRivals` extend `ShmBuffer` and `FileBuffer` and instantiate them once more, for the second
producer; `RivalsMC` instantiates both. `NamedObjects` is extended by `ShmBuffer`, `FileBuffer`,
`NamedScheduler` and `ReqWorker`; `Ring` by the four buffers, of which
`ThreadBuffer` and `SpscRing` instantiate `TransactionQueue` and the other two
`ValueQueue`. Programs that interact are modelled together in
one module (producer with consumer, server with clients, both ends of the tunnel).

## 3. The modules and the code

Every step of a model is one access to something shared: a semaphore operation, a
load or a store of shared memory, a call on a name, a transfer on a stream. What
touches only the memory of a thread rides with the step before it. A program counter per
thread or process (`ppc`, `cpc`, `tpc`, ...) names the next call. Variables have
the names of the source where one exists; history variables, which no guard
reads, are marked in the declarations. Operators whose comment says `defect` are
variants of an action with a plausible bug; they are not part of any behaviour, and each
property is known to fail for at least one of them.

| module | models | how |
|---|---|---|
| `TransactionQueue` | the promise of a bounded buffer | `Put` and `Take` on a sequence, the deposit |
| `ValueQueue` | the promise of a buffer that is created again and again | `Put`, `Take` and `Renew` on one FIFO per buffer, and all that was ever taken from it |
| `Ring` | the view of a circular array as a sequence | one operator, `Window` |
| `ThreadBuffer` | 02/e1 | every `sem_wait`/`sem_post`, slot access and index update of both kinds of threads; `deposit +=` as load and store; create, join, report; a failed `pthread_create` |
| `SpscRing` | 03/e3 | both processes, with a FIFO store buffer each (x86); name, size and memory of two objects, the producer's and one a killed run has left with any indexes |
| `NamedObjects` | `sem_open`, `shm_open`, unlink (external) | names and objects apart: who has opened an object keeps it when the name goes |
| `ShmBuffer` | 03/e2 | the calls of both mains as lists of `<<kind, name>>`, the loops of the children; `plan` says who is launched how often, in what order, and how many kills there may be |
| `ShmRivals` | 03/e2 | a second program of `producer.c`: `ShmBuffer` instantiated again, with the names, the objects and the consumer in common |
| `FileBuffer` | 02/e3 | the same with a file: open, truncate, read of the index, element, write of the index; reading a file that is being rewritten |
| `FileRivals` | 02/e3 | a second program of `producer.c`, in the same way, with the file in common too |
| `NamedScheduler` | 02/e2 | several launches of the server, SIGINT before and after `setQuitHandler`, threads of several clients, kills |
| `EchoServer` | 07/e1, 08/e1 | one model with `server` in `first`, `serial`, `mproc`, `mthread`; `holders` are the processes that have the descriptor, `addrs` what the address pointers point to; streams in units of line bodies and newlines; `fork` and `pthread_create` may fail (`CreationFails`); 07's client may send a line without newline (`cut`) |
| `Riepilogo` | 05/e1 | main, children, threads, the three semaphores, the flag, the file of accesses |
| `Adders` | 01/e1, 01/e2 | `Exclusive` selects the exercise; arithmetic modulo `ULONG_MAX + 1` |
| `Scheduler` | 01/e3 | driver and detached threads; after `free` a semaphore call may do anything |
| `Pipe` | 04/e2 | the pipe as a bounded sequence, parts of a message, copies of the write end |
| `FifoEcho` | 04/e3 | names that may be an old session's FIFOs, each unlink and `mkfifo`, the two opens of each side, reads one unit at a time, lines with and without newline, QUIT, the end of the input, removal |
| `FifoValues` | 06/e1 | launches, opens, values, ends of file, SIGPIPE, kills |
| `ReqWorker` | 03/e1 | two launches over the same names, the worker element by element |
| `TimeServer` | 06/e2 | accept, partial recv and send, close, kills and resets |
| `UdpEcho` | 07/e2 | datagrams as a bag (any order), losses, duplicates, one buffer and one address |
| `Vpn` | 10/e2 | rules one by one, each of which may fail to be added or deleted, the routes that go with the device, handler, bind, loop with both buffers, signals, and a third party that sends to both sockets (`Stranger`) |
| `Dns` | 10/e1 | bytes of a datagram to a list of questions, list of answers, and back; heap blocks counted |
| `Http` | 09/e1 | accept, the heap block with the descriptor, `pthread_create` and its failure, recv, parsing, percent decoding, response |
| `Copy` | 04/e1 | partial reads and writes at two file positions |
| `Standalone` | 05/e1, 01/e1, 01/e2, 01/e3, 10/e1, 04/e1, 10/e2 | the seven programs side by side |
| `*MC` | | instances for TLC |
| `Counting` | how many threads are at given positions | one operator, `Count` |
| `Lemmas` | | what the proofs share: remainders, `Window`, `Count`, least and greatest elements |
| `ThreadBuffer_proofs`, `SpscRing_proofs`, `ShmBuffer_proofs`, `FileBuffer_proofs`, `NamedScheduler_proofs`, `EchoServer_proofs`, `Standalone_proofs` | | proofs about the module they are named after |

`Standalone` and `ChannelsMC` each hold several independent programs, instantiated
side by side; the first state picks one, the variables of the others keep
their initial values, and the fairness of each module applies to the chosen
one. The state space is the sum of the programs', not a product. `Standalone` leaves the
programs' parameters open, as the proofs are for all of them, and `StandaloneMC` adds the
values for TLC; `ChannelsMC` has its values inside. `RivalsMC` does the same for `ShmRivals` and
`FileRivals`.

**A second producer.** Nothing in `producer.c` of 03/e2 and 02/e3 keeps a user from starting it
while an earlier start of it runs. In `ShmBuffer` and `FileBuffer` there is one program of each kind,
started again when it has ended (`LaunchProducer`); `ShmRivals` and `FileRivals` add the program
beside it. The second program is the same module, instantiated with variables of its own (`rmain`,
`rpc`, ...), so that its actions are those that `producer.c` has, not a copy of them. `plan.rivals` bounds its
launches. In 03/e2 it replaces the semaphores (`producer.c:121-132`) and then fails at `O_EXCL`
(line 74) if the memory is there; in 02/e3 it empties the file and goes on to the end.

**The two abstract queues.** `TransactionQueue` is what the threads of 02/e1 and
the processes of 03/e3 implement: one queue that lives as long as the program,
and a deposit. `ValueQueue` is what 02/e3 and 03/e2 implement: their buffers
outlive a program and are replaced by the next one. In `ShmBuffer` every shared
memory object is a buffer of its own, and its contents are the window of the
slots between the values taken and the values stored. There is one queue for every number that
an object can have (`Objects`, five per launch of both programs); that of a
semaphore, or of an object not created yet, is empty. As `ValueQueue!QueueSpec`
has no step that empties a buffer, a launch that initialised the memory of an
earlier one would violate it. In `FileBuffer` there is one file; `Renew` is the
end of a set-up, and from `initFile` to there the queue is mapped to an empty one,
so that nothing is claimed of a file whose set-up was killed half way. In
`SpscRing` the queue is that of the producer's object: a put is the moment
`write_index` leaves the store buffer, and a take is the consumer's store of
`read_index`.

The thread buffer in detail, as it carries the proofs:

| `ThreadBuffer` | `02/e1/producer_consumer.c` |
|---|---|
| `Produce` | `performRandomTransaction` draws an amount |
| `WaitEmpty`, `WaitWrite` | `sem_wait(&e)`, `sem_wait(&s1)` |
| `Write`, `AdvanceWrite` | the store into the slot, the new `write_index` |
| `PostWrite`, `PostFilled` | `sem_post(&s1)`, `sem_post(&n)`, end of the loop |
| `WaitFilled`, `WaitRead` | `sem_wait(&n)`, `sem_wait(&s2)` |
| `Load`, `Add` | the two halves of `deposit += transactions[read_index]` |
| `AdvanceRead`, `PostRead`, `PostEmpty` | the new `read_index`, `sem_post(&s2)`, `sem_post(&e)` |
| `CreateProducer`, `CreateConsumer`, `CreateFails` | the creation loops of main |
| `JoinProducers`, `JoinConsumers`, `ReportAndExit` | joins, print, exit |

## 4. The runs

| run | instance | properties and what they show |
|---|---|---|
| `thread_buffer` | 2 producers, 2 consumers, 2 slots, 2 operations each | `NoSlotRace`, `TokensConserved`, `IInv`: what keeps the two mutexes apart; `FinalDeposit`: no lost update; `ImplementsQueue`: a FIFO, although `s1` is posted before `n`; `Completes`: no thread waits for ever |
| `spsc_ring` | 3 slots, 5 values, store buffers of 4; nothing, an unsized object or one with any indexes left by a killed run | `NoSlotRace`: one sacrificed slot is enough, store buffers included; `ImplementsQueue`: the preventive `shm_unlink` keeps what was left away from the new run; `BothFinish`: the busy waits end |
| `shm_buffer` | 2 slots, 2 consumers; 2 producers launched once or 1 launched twice; in order, in order with 1 or 2 kills, or overlapping | `ImplementsQueue`: every memory object is a FIFO, in all six plans; `BothComplete`: in order nothing fails (`NoneFails`), all ends, no name is left |
| `file_buffer` | the same | `OneInFile`, `ImplementsQueue`, `RecoversAfterKills`, `BothComplete` |
| `rivals` | 03/e2 and 02/e3, 1 slot, 2 operations: a second producer program beside the first one (2 producers; 1 producer and a kill), and 2 consumers with two launches of one producer program | `BufferGuarded`: two producers never get into one memory, and without a second one who shares the memory shares its semaphores; `FileGuarded`: who took the same `sem_cs` is alone in the file, and without a second producer no write index is lost |
| `named_scheduler` | 2 servers, 2 client processes with 2 and 1 threads, 2 resources, 1 kill | `LimitPerSemaphore`, `ReportIsRight`, `Served` |
| `named_scheduler_name` | 1 server | finding: `NameRemoved` fails |
| `echo_server` | 4 kinds of server, 2 clients, 2 lines, queue of 1 | `OwnEcho`, `OwnAddress`; `ForkIsolates`: who has sent a whole line is answered, with a process per connection also when main has failed to fork, elsewhere unless main has died; `ClosedWhenDone`, `Welcomed` |
| `echo_server_first` | the server of 07/e1 | finding: `HandlesSequentially` fails |
| `standalone` | log: 2 children of 2 threads, 2 rounds; adders: 3 threads of one addition, 2 of three, 3-bit numbers; scheduler: 2 bursts of 2, 2 resources; 2 DNS queries of 1 or 2 questions over 3 names; a copy of 5 bytes; a tunnel with 3 rules, 1 packet each way and 1 datagram of a third party | `Barrier`, `ReportIsFinal`, `NoLostAdds`, `ResourcesShared`, `AnswersAsAsked`, `Copied`, `StopsClean`, `OnlyFromOutside` |
| `channels` | seven small systems, see `ChannelsMC`; 2 HTTP clients and 2 files, one asked for in the wrong case | `AllReceived`, `Converses`, `ValuesConsumed`, `SquaresPrinted`, `DateServed`, `EchoedToSender`, `OwnFile` |
| `channels_eof` | the same | finding: `EOFIsDetected` fails |

Deadlock is checked where programs that end do so by an explicit `Terminated`
step that needs everybody to have ended (`thread_buffer`, `spsc_ring`). In the
other runs the system may really stop: users need not launch or type anything more, servers
wait in `accept`, and a program that was killed leaves others waiting. Whether anybody
waits who should not is what the liveness properties of those runs say.

## 5. Bounds

- Buffers: two slots (three in the ring, one of which is sacrificed) and more
  operations than slots: the array fills, empties and wraps around. Two
  threads on at least one side make each mutex matter.
- The ring's store buffers hold 4 stores: two whole transactions (a slot and an
  index each) may be on their way at once.
- Kills: at any point, one in a single launch of 2 producers and 2 consumers, two over two launches of 1
  and 2, so that the launch after a kill meets whatever it left and may be killed in its turn.
  `RecoversAfterKills` starts when the allowed kills have happened.
- Launches: two of each program are enough for one to meet the remains, or the running
  half, of another. Two producers with two launches each only multiply the
  interleavings within a launch, which the plans with one launch have. The ring has
  one launch of the producer, over an object with any indexes.
- A second producer program: one slot and two operations already make both programs
  store while a consumer reads; one launch of each and one kill. In 02/e3 each program is launched once
  where there are two (`RivalsAssumption`), as children that a failed launch left would go on beside
  the next one.
- Network: two clients, so that one may disturb the other; lines and datagrams
  of two units and transfers of any part of them; one lost and one duplicated datagram; one
  datagram of a third party at either end of the tunnel.
- The tunnel has three rules: of the client's, the last two are routes over its device, which go when
  it is closed, and one is not.
- `ULONG_MAX` is 7: the adders wrap around. Values are compared modulo
  8, as unsigned arithmetic does. No other counter of the programs comes near
  the limits of its type: they count operations of a run.
- DNS: names with labels of one to three bytes, types with and without a record and
  one that is not there (A, TXT, NS), a datagram that breaks off anywhere.
- No symmetry is used: properties are temporal in most runs.

## 6. Fairness

Weak fairness for each thread or process (`WF_vars(Producer(p))`, ...): the
operating system runs whoever can run. No strong fairness is assumed, of semaphores
in particular: a waiting thread may be overtaken by all others, but each does finitely many
operations in these programs. A failing test of a busy wait is a stutter, so a spinning
process neither blocks nor counts as progress. In `SpscRing` every processor
empties its store buffer, as x86 processors do in finite time.

Nothing is assumed of users and signals, with two exceptions: in `ShmBuffer`,
`FileBuffer` and `FifoValues` the user goes on to launch the programs that the plan
says, as the headers ask ("the producer must be launched before the
consumer"). Kills, signals, lost and duplicated datagrams and damaged queries have no fairness: they may
happen or not.

## 7. The proofs

### The thread buffer

`ThreadBuffer_proofs` proves, for every number of threads, slots,
operations and amounts that satisfy `BufferAssumption`:

| theorem | statement |
|---|---|
| `Invariant` | `Spec => []IInv` |
| `TypeCorrect` | `Spec => []TypeOK`: in particular `e`, `n` never exceed `BUFFER_SIZE`, `s1`, `s2` never exceed 1 |
| `NoRace` | `Spec => []NoSlotRace` |
| `Tokens` | `Spec => []TokensConserved` |
| `Refinement` | `Spec => ImplementsQueue`: the program implements `TransactionQueue` |
| `Deposit` | `Spec => []FinalDeposit`: main prints the sum of all that was stored |

*Assumptions.* `BufferAssumption`: finitely many threads, at least one slot,
integer amounts, and as many takes as puts (the `#error` of lines 43-45; only
`Deposit` and the liveness `Completes` need that last part).

*Why `IInv`.* None of the properties is inductive by itself. Take `NoSlotRace`: that
a producer about to store and a consumer about to read are at different
slots follows from where the indexes are, and that from how many
transactions are pending, and that from the semaphores and from who is where between
a wait and a post. `IInv` says it all at once:

- `TokensConserved`: `e`, `n` and the threads between a wait and a post make `BUFFER_SIZE`;
- `FilledMatches`: stored and not taken = `n`, plus producers that have stored and not posted `n`, plus consumers that hold a token of `n` and have not taken;
- `OneWriter`, `OneReader`: a mutex and the threads inside it make 1;
- `WriteIndexAt`, `ReadIndexAt`: each index is its number of accesses modulo `BUFFER_SIZE`, one less while a thread is about to advance it;
- `RegisterFresh`: the sum a consumer has computed is still the right one when it stores it;
- `ItemsDrawn`, `OpsLeft`: what is stored was drawn, who is in the loop has operations left.

*The argument.* Threads are counted by position (`Count`): a step moves one thread, so
every count changes by at most one (`CountMove`, `ProducerMove`, `ConsumerMove`). One
lemma per action (`WriteKeeps`, `AddKeeps`, ...) shows the ten conjuncts, from the
change of the counts and linear arithmetic. `WriterAlone` and `ReaderAlone` say what a thread
inside its mutex may rely on. With them the slots at both ends of the
pending window differ, as two positions less than `BUFFER_SIZE` apart have different
remainders (`ModDistinct` of `Lemmas`).

*Refinement.* The abstract queue is `Window(transactions, BUFFER_SIZE, taken,
Pending)`. `Write` appends to it (`WindowPut`), `Add` takes its first element
(`WindowTake`) and adds it to the deposit, and every other step, the updates of the
indexes included, leaves it alone. The lemmas about `Window` have no state of
their own, so `SpscRing_proofs` uses them too.

*The deposit.* `DInv` adds to `IInv` that the operations done are what was stored, less the
transactions of producers that have not finished the turn of their loop (`StoresCounted`, and
`TakesCounted` for the other side); that main is past a join only when those it joined have exited;
that each slot holds what was stored at its position (`Held`); and that there is a list of
balances, one after each transaction taken, of which `deposit` is the last (`Balanced`). When main
reports, all operations are done, so by `BufferAssumption` as many were taken as stored. That the last balance is
`INITIAL_DEPOSIT + SumOf(stored)` would be an induction over the sequence; the library's
induction theorems cannot be used here, so `SumIsLastBalance` takes the least index at which
`SumOf`'s function and the balances would differ (`LeastNat`) and refutes it.

### The lock-free ring

`SpscRing_proofs` proves, for every size of the array, number of operations, depth of
the store buffers, and whatever object a killed run has left:

| theorem | statement |
|---|---|
| `Invariant` | `Spec => []IInv` |
| `SlotsApart` | `Spec => []NoSlotRace` |
| `Refinement` | `Spec => ImplementsQueue`: a FIFO of `BUFFER_SIZE - 1` transactions |

*Assumptions.* `SpscAssumption`: at least two slots, as one is sacrificed, and
`NUM_OPERATIONS >= BUFFER_SIZE`.

*Why `IInv`.* There is no mutex and no counter: the processes know each other by two indexes, each
of which lags behind its writer as long as it is in a store buffer. `IInv` gives every index an
unbounded *position*, of which it is the remainder. `Positions` says what a store buffer
holds: the producer's a segment of slot, index, slot, index, ... in program order,
from the first store not yet in memory on (`Waiting`), the consumer's indexes only (`Returns`).
`Order` is the heart: what is read is at most what is published, that at most what is
issued, and that at most `BUFFER_SIZE - 1` past what has been seen freed. So the stores still in
the producer's buffer are of slots that differ from the one being read.
`Names` and `Starts` say that the consumer can reach an index only in an
object the producer has made its own or in the old one, which is of no concern to the queue.

*Refinement.* A put is the drain of `write_index`, a take the store of
`read_index`; `Values` gives the value on its way, and `WindowPut`, `WindowTake` the rest.

### Shared memory

`ShmBuffer_proofs` proves, for all plans, numbers of children, slots and
operations that satisfy `ShmAssumption`:

| theorem | statement |
|---|---|
| `Invariant` | `Spec => []IInv` |
| `SharedBuffer` | `RivalSpec => []BufferGuarded`: with a second producer program, whenever it is launched and whatever is killed |
| `NoFailure` | `Spec => []NoneFails`, the safety half of `BothComplete` |
| `ShmIsQueue` | `Spec /\ (Orderly \/ plan.kills = 0) => ImplementsQueue`: every memory object implements `ValueQueue` |

*Assumptions.* Finitely many children on each side, whose numbers divide `NUM_OPERATIONS` (the
`#error` of `common.h:26`), and `NUM_OPERATIONS > BUFFER_SIZE`, as the values of `common.h` have it. That
one is needed: with fewer operations the producers could finish before a consumer has come.

*Why `IInv`.* `SameBuffer` compares the handles of two programs, which were opened at different
times while a third event, a set-up or a removal, may have replaced what the names denote. So for plans
without kills `IInv` says what each name denotes at each step of a set-up (`Setting`), how long the
name `filled` outlives its program (`Filled`), and which handles a consumer that is
still connecting has got so far (`Connecting`). All rests on one fact: *the producers' main can get past its
`wait` only after a consumer has given slots back*. Until one is there, free slots and slots taken
make `BUFFER_SIZE` (`Unposted`); all operations together take more (`AllTaken`), so some
producer still waits. Hence a memory object is not removed, and no later launch
replaces the semaphores, between the moment a consumer opens them and the moment it maps the memory.

*A second producer* (`RInv`). `SameBuffer`, which `IInv` contains for plans without kills, holds only
where nobody starts a second producer: that one replaces the semaphores before it fails, and a consumer
launched then has the new ones and the old memory (`BufferGuarded` with its hypothesis `rruns = 0` dropped is false,
which TLC finds at once). What is left with a second producer is that `O_EXCL` keeps it out of the memory.
`OneAtWork` says how: while one of the producers is past its set-up the name `mem` exists, so that
the set-up of the other one can only fail. `FirstOnly` carries `IInv` along until the second program is launched.

*In order.* `OInv` adds `Ordered`, which says which names exist at each step when the user
waits: every `sem_open`, `shm_open` and `sem_unlink` finds what it needs.

*Refinement.* The hypothesis covers all plans of the run: launches in order with any number of
kills, or in any order with none. It is needed: with one slot, two operations, two
overlapping launches and one kill, TLC finds a consumer that replaces a killed one, takes tokens the
producers left in `filled`, and then maps the memory of their next launch. `QInv` says how the semaphores,
the indexes and the contents of a memory object go together, in four groups:

- *Balance.* Every token of `filled`, every consumer that holds one and every producer that will
  post one is a value that waits in the memory (`CBalance`), and likewise for `empty` and the free slots
  (`PBalance`). These are inequalities, since a kill loses tokens and never makes any. The two
  programs may or may not share the memory, so each has its own statement, about its own handles, in
  which the children of the other count only if the handles are equal (`Posting`, `Returning`).
- *Mutexes and indexes.* `COne` and `POne` bound the holders of each mutex by one; `ReadAt` and
  `WriteAt` make each index the number of values taken or stored modulo `BUFFER_SIZE`, one less while a child
  is about to advance it.
- *Who shares what.* `Prepared` and `Joining` follow the set-up and the connection step by step;
  `Together` says that two programs that run share the memory and both counting semaphores, or none of them.
- *Between launches.* `Left` is what the producers left for a consumer that may still connect (`Free`);
  `Claimed` says that where a consumer program has run, the name `cs_cons` keeps the next one out as long as
  `filled` can be opened. `Kinds`, `Distinct` and `Accounted` say what each object is, and that
  there are no more than `Objects` names.

That a connecting consumer gets semaphores of one launch follows in launches in order from the
order, and in the others, which nobody kills, from the part of `IInv` about them. With that, a store of a
producer is a `Put` on the queue of its memory (`ProduceImplements`), a read of a consumer a `Take`
(`ConsumeImplements`), and no other step changes a queue (`ProgramsAreNew`): the creation of a memory object
adds an empty one, where before there was none.

### The file buffer

`FileBuffer_proofs` proves, for all plans, kills included, that satisfy `FileAssumption`:

| theorem | statement |
|---|---|
| `Invariant` | `Spec => []IInv` |
| `FileMutex` | `Spec => []OneInFile` |
| `NoLostWrite` | `RivalsAssumption` implies `RivalSpec => []FileGuarded`: with a second producer program, however the launches overlap and whatever is killed |
| `FileIsQueue` | `Spec => ImplementsQueue`: the file implements `ValueQueue` with `Renew` |

*Why `IInv`.* The children that have the file open wait for `sem_cs`, but for *which* semaphore depends on
the launch that their program has opened it from. `Tokens` is about every semaphore used
as `cs`: it has at most one token, and who holds it is alone. `Paired` says that the consumer program of
launches in order has the `cs` of the last producer program, if that got past its
set-up. `Handles` keeps `cs` apart from the two counting semaphores, whose value may
be anything. `WriteIndexStable` follows from `IInv` while one producer program runs at a time: then nothing but the
producer inside `cs` writes the index, also if it is launched again beside a consumer.

*A second producer* (`RInv`). A set-up empties the file without `sem_cs` and makes a new one, so with two producers
children of both are in the file together, each with its own semaphore. `OneHolder` says what is left: those that have
taken the same semaphore, of the two producers and the consumer, whose three handles may be any mixture, are at most
one, and it is counted with the semaphore's value. `FirstOnly` carries `IInv` along until the second program
is launched, `Once` that each program is launched once if there are two.

*Refinement.* `QInv` adds what the refinement needs for launches in order, however many are killed:

- `Own`: the semaphores of the last launch of the producer are the ones it has created so far, with
  their initial values until the set-up ends, and under their names until the consumer has opened them;
- `Partner`: so the consumer program launched next opens the same three, before it forks;
- `NewFile`: after `initFile`, until the end of the set-up, both indexes are 0 and nothing is stored;
- `Balance`: tokens, children that hold one and children that will post one are at most the
  values, or the free slots, of the file. A kill loses tokens, hence no equality. Consumers of
  an earlier launch, whose main failed and left them behind (`ConsumerFails`), do not
  count (`Taking`);
- `WriteAt`, `ReadAt`: the index in the file, or the one read from it, is the next slot on its side;
- `Pops`: what a producer stores is a value of the queue.

With `OneInFile`, which `IInv` gives, a store is a `Put` and a read a `Take` (`WindowPut`,
`WindowTake`); the last step of a set-up is a `Renew`, because the queue is empty before and after it.

### The scheduler

`NamedScheduler_proofs` proves, for every number of servers, clients, threads
and resources that satisfy `SchedulerAssumption` (finitely many threads, at
least one resource):

| theorem | statement |
|---|---|
| `Invariant` | `Spec => []IInv` |
| `Limit` | `Spec => []LimitPerSemaphore` |
| `Report` | `Spec => []ReportIsRight` |

*Why `IInv`.* The limit says nothing of the value of a semaphore, and a name says nothing of the
semaphores that it denoted before a server removed it, which clients may still use. So
`TokensBounded` speaks of every object ever created: its value and its users
together never exceed `NUM_RESOURCES`, and are exactly that many while no client process has
ended. `HandlesValid` adds that who is past its `sem_open` holds a semaphore that exists, so
that a new one starts without users (`CreateKeeps`).

*The argument.* Servers change no user and, apart from `sem_open`, no semaphore
(`ControlKeeps`); `sem_wait` and `sem_post` move one token between a semaphore
and its users (`AcquireKeeps`, `ReleaseKeeps`); the end of a process only takes users
away, after which the sum is no longer claimed to be exact (`DeathKeeps`).

### The echo servers

`EchoServer_proofs` proves, for all four servers, and any clients, lines and queue lengths that
satisfy `EchoAssumption`:

| theorem | statement |
|---|---|
| `Invariant` | `Spec => []IInv` |
| `Welcoming` | `Spec => []OwnAddress` |
| `Echoing` | `Spec => []OwnEcho` |
| `Closed` | `Spec => []ClosedWhenDone` |
| `Isolation` | `Spec => []Isolated`, the safety half of `ForkIsolates` |

*Assumptions.* `EchoAssumption`: there is a client, and no client is called `"main"`, as a
child process is not its parent. The clients need not be finitely many.

*Why `IInv`.* What a client is sent passes through its user, the stream to the server, the line being read,
the answer being sent and the stream back. `Conserved` puts the parts together: what was sent and what is in
transit make exactly the stream that the client is owed, welcome first, as long as the client is there.
`Turns` adds for 07/e1, where client and server take turns, how much it has been shown.
`Addresses` says that a handler which has not yet formatted the welcome finds its client's address
where main left it, because the serial server and the processes do not return to main before,
and the threads each have a block of their own. `Held` says who has each
descriptor; that a connection which is over is in nobody's table follows. `Loops` says where each kind of
main loop can be, and `Resets` that a process dies only by its own client. `CreationFails` ends the process that accepts, with all its
threads (`EndProcess`); the connection it had just accepted is then nobody's (`Orphan`). `Cut` says of a line of 07 without its
newline that it stays in the server's buffer. So `Isolated` says of `mproc` that no connection ends the process that
accepts (`mpc # "dead"`), and not that nothing does: a `fork` that fails leaves it `"failed"`.

### The programs that stand alone

`Standalone_proofs` proves, for any parameters that satisfy `StandaloneAssumption`, which is what each
module assumes of its own:

| theorem | statement |
|---|---|
| `Invariant` | `Spec => []IInv` |
| `BarrierKept` | `Spec => []Barrier`: no child creates a thread before all have announced themselves (05/e1) |
| `ReportFinal` | `Spec => []Ri!Final`, the safety half of `ReportIsFinal` (05/e1) |
| `ResourcesKept` | `Spec => []Sc!WithinResources`, the safety half of `ResourcesShared` (01/e3) |
| `SumsExpected` | `Spec => [](Own!ReportsExpected /\ One!ReportsExpected)`, the safety half of `NoLostAdds` (01/e1, 01/e2) |
| `OutsideOnly` | `Spec => []OnlyFromOutside` (10/e2) |
| `RulesGone` | `Spec => []VP!NoRuleLeft`, the safety half of `StopsClean` (10/e2) |
| `CopyExact` | `Spec => []Co!CopiedSoFar`, the safety half of `Copied` (04/e1) |

`IInv` has a part for each program. A step is a step of one of them and leaves the variables of the others alone
(`EachAlone`), so that each part is shown to be inductive by itself.

*The access log* (`RiInv`). The tokens of the barrier are anonymous, so they can only be counted: `main_wait` and main's turns
make the children that have arrived (`Arrivals`), `children_wait` and the children that passed it make the turns of
main's release loop (`Releases`). As main releases after `n` turns of the first loop, all `n` have
arrived by then (`CountAll`). For the report, `Reaped` counts the children waited for, and
`Appended` the records of each child: whole batches, and the threads of the current one that have
appended.

*The burst scheduler* (`ScInv`). Until main frees the semaphore, its value and the threads that hold a resource
make `NUM_RESOURCES`, those of all bursts together; a thread not spawned yet does nothing, so that a new burst
holds nothing.

*The adding threads.* With a variable each (`OwnInv`), the variable holds the thread's additions so far, and what main
has added up are those of the threads it has joined. With one variable (`OneInv`), `OneAlone` is the mutual
exclusion, in which what a thread has loaded is still the value when it stores; `OneSum` makes the value `v` times
the number of all additions made, wrapped (`Made`, the cardinality of the set of pairs of a thread and a turn, so that
no sum over threads is needed); when all have ended these are `n * m` pairs (`AllMade`). The lemmas on
remainders say that wrapping at each addition is wrapping once.

*The tunnel* (`VpInv`). A clean-up has removed all rules before the one it is at (`Cleaned`), also when a second signal
starts it again; rules that went with the device are gone from it too, and the command for them fails, which is not an exit with
status 0. `Peer` follows packets through the device, the sockets and the buffer of both directions. The ends
answer whoever sent last, so a packet of the client's own host could come back to it only if the client sent to itself,
and that it never does: a datagram at its socket is the server's or a third party's.

*The block copy* (`CopyInv`). The block is what was read last; what is not yet written of it is what the
destination lacks of what has been read, however calls are split. What a longer old file has behind that is
not claimed to be anything (section 8).

### On the instances

TLC checks `IInv` of `ThreadBuffer` and every property named above on the small instances too, as
part of the runs. The other inductive invariants were model-checked on instances of the same size, or
larger, before they were proved. `Isolated`, `NoneFails`, `Final`, `WithinResources`,
`ReportsExpected`, `NoRuleLeft` and `CopiedSoFar` are the parts of a checked property
that the proof system can treat; the rest of `ForkIsolates`, `BothComplete`, `ReportIsFinal`, `ResourcesShared`,
`NoLostAdds`, `StopsClean` and `Copied` is liveness. Run `named_scheduler` checks the limit and the report with two servers,
where a client killed with a token in hand and a semaphore that has lost its name both occur.

## 8. Where the code and its comments disagree

Shown by a run:

- `02/e2/server.c:105`: the handler that removes the semaphore is installed
  after it is created; SIGINT in between leaves the name (line 61 says it
  cannot remain). Run `named_scheduler_name`.
- `07/e1/server.c:98`: a client that leaves without QUIT makes the handler read
  0 bytes for ever, and no other client is handled (line 207). Run `echo_server_first`.
- `04/e2/main.c:119`: readers close their write end "to allow EOF detection if
  all writers terminate", but the parent keeps its own while it waits for them: after a
  writer was killed a reader waits for ever. Run `channels_eof`.

Stated as definitions that no run checks, because the code does not satisfy them:

- `FifoEcho!QuitEnds` (`04/e3/echo.c:25-26`): QUIT is compared with its newline counted
  (line 124), so it is echoed; the echo process ends by SIGPIPE or at the end of the file,
  and the FIFOs stay.
- `Vpn!CleanedBeforeExit` (`10/e2/vpn.c:237`): rules survive a signal before the
  handler is installed, a failed `udp_bind`, a command that fails (`run` exits, lines 96-102), and a
  signal during the clean-up. The client's clean-up after an error in the loop never gets through: `close(tun_fd)`
  (line 351) takes the routes over the device away, and the `ip route del` of the first of them fails.
- `Dns!Authoritative` (`10/e1/main.c:502`): the bit is not in what is sent.
  `Dns!QuestionsCopied` (line 156, "copied 1:1"): two questions come back in reverse order.
  `AnswersAsAsked` is therefore silent about the bit and allows any order.
- `Http!FoundInAnyCase` (`09/e1/server.c:22`): the search that ignores case is never called.
  `OwnFile` allows both answers where only the case differs.
- `Copy!OverwritesFile` (`04/e1/copy.c:149`): a longer old file keeps its end, as it is
  opened without `O_TRUNC`. `Copied` claims nothing of what is behind the copy.

Seen in the models, and not stated as a property:

- 02/e2: after a restart of the server, old and new clients use different
  semaphores and together may exceed the limit of `server.c:28`. `client.c:108` speaks of first
  come, first served; POSIX semaphores do not promise it, and the model does not assume it.
- 03/e2: after a kill the memory's name stays, and each later launch fails at
  `O_EXCL` (`producer.c:74`) until somebody removes it. `ImplementsQueue` shows what the flag is good for:
  without it the relaunch pairs new semaphores with old indexes, and TLC finds values
  overwritten and read twice.
- 03/e2: a consumer launched while a producer replaces stale semaphores may open some of the old
  ones and some of the new. Together with a kill (overlapping launches *after* a killed one,
  which no plan of the run has) this breaks `ImplementsQueue`: a consumer that has opened the old
  `filled` and then maps the new memory reads a slot before it is stored. The consumer
  "expects the shared memory and the semaphores to already exist" (`consumer.c:20`).
- 03/e2: a second producer, started beside a running one, leaves it and its consumers with semaphores
  that have no name, and a consumer launched then waits for values with the new ones; `BufferGuarded` claims what
  `O_EXCL` keeps.
- 02/e3: a second producer empties the file under the children of the first, who may exit with
  `sem_cs` taken, and both write over each other's index; `FileGuarded` claims what the semaphores keep.
- 04/e3 and 07/e1: after a line without newline (longer than the client's buffer, or the last of
  a file; `04/e3/client.c:87`) both programs wait in a read for ever; `Converses` and `OwnEcho` name
  that. 08/e1 is safe from it, as its client puts a newline over the last character (`client.c:111`).
- 04/e3: a client started before the echo process finds the FIFOs of a session that QUIT ended, opens
  one, and waits for ever when the echo process unlinks it.
- 08/e1: the parent never reaps its children, and `handle_error` ends it when `fork` fails (`server.c:176`);
  `ForkIsolates` says that the connections it has accepted are still served then.
- 09/e1: when no thread can be created the connection stays open and unanswered (`server.c:305`), and
  `pthread_detach` gets a thread id that was never set; `OwnFile` excuses that connection.
- 10/e2: `recvfrom` takes a datagram from anybody and makes that the peer (`vpn.c:334`).
- 02/e3: overlapping launches share the file but not `sem_cs`; `OneInFile` and `ImplementsQueue` are
  therefore claimed of launches that do not overlap. A consumer launched on what a killed set-up
  has left reads values that nobody stored (new file, old counts).
- 03/e1: when two launches overlap, the second `sem_unlink` of a name fails and ends its program
  after the squares have been printed.
- 08/e1: a client that resets its connection may end the serial and the threaded server
  (`server.c:94`, and SIGPIPE); `Welcomed` excuses a dead server. The client takes
  whatever one `recv` returns for the whole answer (`client.c:134`).
- 07/e2: a lost datagram leaves the client in `recvfrom` for ever (`client.c:127`), and after a
  duplicated one it takes each answer for that to the next line; `EchoedToSender` excuses both.
- 09/e1: a request of which the first `recv` returns a part only is not answered
  (`server.c:210`).
- 04/e2: the parent compares the result of `wait` with 1 instead of -1
  (`main.c:244`), so a failing `wait` would go unnoticed.

## 9. What is only model-checked, and what is left out

All liveness is left to TLC, as the proof system does not treat fairness and `ENABLED`:
`Completes`, `BothFinish`, `Served`, `Welcomed`, `RecoversAfterKills`, and the liveness of `BothComplete`,
`ForkIsolates` and of the properties named in "On the instances".

Of the safety properties of single programs, two are not proved: `AnswersAsAsked` and `OwnFile` (with its liveness).
They compare the result of a decoder that goes through a datagram or a request byte by byte with what was encoded, and that
is an induction over the data; the theorem would be about recursive functions, for which the library's induction
theorems cannot be used. The other six systems of `channels` are checked on their instances only, the safety halves of their
properties (messages in one piece, each value read once, an answer to who asked) included.

Left out of the modelled programs, because they end the process at once and
say nothing about the interaction: failures of system calls that the code answers with
`handle_error`, unless a property depends on them (`shm_open`, `sem_open`, `fork`,
`pthread_create`, `unlink` are modelled where it does); a second consumer program beside the first (02/e3, 03/e2); interrupted calls where the
code repeats them; output formats, logging, random amounts' distribution and sleeps. In `Dns`
the counts of other sections and flags that are always 0; in `Vpn` what the commands do
beyond a rule; in `Http` the contents of the directory beyond a constant. `PROJECT.json`
lists per component what was left out.

Kernel objects (semaphores, names, pipes, sockets, TUN) are modelled as the programs use
them and marked external in the map.

## 10. How to run it

    tlc -workers 2 -config ThreadBuffer.cfg ThreadBufferMC
    tlapm ThreadBuffer_proofs.tla

and in the same way every module and configuration that `PROJECT.json` names together under
`runs`, and every module under `theorems`. The longest runs take about three
minutes on two cores, and the largest state space has about 550 000 states (`rivals`, in some
seconds, as it has no liveness); the proofs of all
eight modules take about half an hour, ten minutes of it those of `ShmBuffer_proofs`.
