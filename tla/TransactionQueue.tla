-------------------------- MODULE TransactionQueue --------------------------
(***************************************************************************)
(* What every bounded buffer of the repository promises to its users: a    *)
(* FIFO of at most Capacity transactions, from which each transaction is   *)
(* taken once, in the order in which it was put, and added to a deposit.   *)
(* The buffers of modules ThreadBuffer and SpscRing implement it.          *)
(***************************************************************************)
EXTENDS Integers, Sequences

CONSTANTS Transactions,   \* the amounts a producer may put
          Capacity,       \* how many transactions wait at most
          InitialDeposit  \* the deposit before the first transaction

VARIABLES queue,    \* the transactions put and not yet taken, oldest first
          deposit   \* the balance of the transactions taken

queueVars == <<queue, deposit>>

QueueInit == queue = <<>> /\ deposit = InitialDeposit

Put(x) == /\ Len(queue) < Capacity
          /\ queue' = Append(queue, x)
          /\ UNCHANGED deposit

Take == /\ queue # <<>>
        /\ deposit' = deposit + Head(queue)
        /\ queue' = Tail(queue)

QueueNext == Take \/ \E x \in Transactions : Put(x)

QueueSpec == QueueInit /\ [][QueueNext]_queueVars
=============================================================================
