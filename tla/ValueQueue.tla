----------------------------- MODULE ValueQueue -----------------------------
(***************************************************************************)
(* What the buffers that processes share by name promise (exercises/02 and *)
(* 03): each is a FIFO of at most Capacity values, from which each value   *)
(* is delivered once, in the order in which it was put.  A buffer that a   *)
(* later launch may reinitialise in place is also emptied as a whole.      *)
(* Module ShmBuffer implements QueueSpec, FileBuffer RenewedSpec.          *)
(***************************************************************************)
EXTENDS Integers, Sequences

CONSTANTS Buffers,    \* the buffers there may ever be
          Values,     \* what may be put
          Capacity    \* how many values wait in a buffer at most

VARIABLES queue,      \* of each buffer: the values put and not yet taken
          delivered   \* of each buffer: the values taken, oldest first

queueVars == <<queue, delivered>>

QueueInit == /\ queue = [b \in Buffers |-> <<>>]
             /\ delivered = [b \in Buffers |-> <<>>]

Put(b, v) == /\ Len(queue[b]) < Capacity
             /\ queue' = [queue EXCEPT ![b] = Append(@, v)]
             /\ UNCHANGED delivered

Take(b) == /\ queue[b] # <<>>
           /\ delivered' = [delivered EXCEPT ![b] = Append(@, Head(queue[b]))]
           /\ queue' = [queue EXCEPT ![b] = Tail(@)]

\* Whatever was in the buffer is dropped.
Renew(b) == /\ queue' = [queue EXCEPT ![b] = <<>>]
            /\ delivered' = [delivered EXCEPT ![b] = <<>>]

QueueNext == \E b \in Buffers : Take(b) \/ \E v \in Values : Put(b, v)

QueueSpec == QueueInit /\ [][QueueNext]_queueVars

RenewedSpec ==
    QueueInit /\ [][QueueNext \/ \E b \in Buffers : Renew(b)]_queueVars
=============================================================================
