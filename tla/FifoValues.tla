----------------------------- MODULE FifoValues -----------------------------
(***************************************************************************)
(* exercises/06/sol/e1: the children of a producer program send integers   *)
(* through a FIFO to the children of a consumer program.  An integer is    *)
(* written and read at once, being shorter than PIPE_BUF.                  *)
(***************************************************************************)
EXTENDS Integers, SequencesExt

CONSTANTS NUM_PRODUCERS, NUM_CONSUMERS, OPS_PER_PRODUCER, OPS_PER_CONSUMER,
          FifoSize,                 \* integers that fit in the FIFO
          FifoRuns, FifoKills       \* bounds: pairs of launches, killed children

FifoAssumption ==
    /\ FifoSize \in Nat \ {0} /\ FifoRuns \in Nat /\ FifoKills \in Nat
    /\ OPS_PER_PRODUCER * NUM_PRODUCERS = OPS_PER_CONSUMER * NUM_CONSUMERS

VARIABLES
    exists, fifo,               \* whether FIFO_NAME exists; the values in it
    prod, numOpsP,              \* the producer's main; what its children are to do
    cons, numOpsC,              \* the consumer's main; what its children are to do
    values, fruns, fkills       \* history: values read; launches, kills

prodVars == <<prod, numOpsP>>
consVars == <<cons, numOpsC>>
fifoVars == <<exists, fifo, prodVars, consVars, values, fruns, fkills>>

P == 1 .. NUM_PRODUCERS
C == 1 .. NUM_CONSUMERS

\* A child with no operation left is gone.
Init ==
    /\ exists = FALSE /\ fifo = <<>> /\ prod = "idle" /\ cons = "idle"
    /\ numOpsP = [p \in P |-> 0] /\ numOpsC = [c \in C |-> 0]
    /\ values = <<>> /\ fruns = 0 /\ fkills = 0

Over == {"idle", "done", "failed"}
ChildLeft == \E t \in {numOpsP, numOpsC} : \E x \in DOMAIN t : t[x] > 0

\* Whether some process can still write, or read.
HasWriter_Kept == prod # "idle"     \* defect: a reader holds a write end too

HasWriter == prod = "run" \/ \E p \in P : numOpsP[p] > 0
HasReader == cons = "run" \/ \E c \in C : numOpsC[c] > 0

-----------------------------------------------------------------------------
\* The user launches the producer when nothing of the last pair is left.
\* initFIFO creates the name and waits for a reader; the name must be new.
LaunchProducer ==
    /\ prod \in Over /\ cons \in Over /\ ~ChildLeft /\ fruns < FifoRuns
    /\ fruns' = fruns + 1 /\ values' = <<>> /\ cons' = "idle"
    /\ exists' = TRUE /\ prod' = IF exists THEN "failed" ELSE "open"
    /\ UNCHANGED <<fifo, numOpsP, numOpsC, fkills>>

\* openFIFO lets both programs go on, and they fork.
LaunchConsumer ==
    /\ prod = "open" /\ prod' = "run" /\ cons' = "run" /\ fifo' = <<>>
    /\ numOpsP' = [p \in P |-> OPS_PER_PRODUCER]
    /\ numOpsC' = [c \in C |-> OPS_PER_CONSUMER]
    /\ UNCHANGED <<exists, values, fruns, fkills>>

\* produce with writeValue.  Without a reader SIGPIPE ends the child.
Produce(p) ==
    /\ numOpsP[p] > 0
    /\ \/ /\ HasReader /\ Len(fifo) < FifoSize
          /\ fifo' = Append(fifo, <<p, numOpsP[p]>>)
          /\ numOpsP' = [numOpsP EXCEPT ![p] = @ - 1]
       \/ ~HasReader /\ numOpsP' = [numOpsP EXCEPT ![p] = 0] /\ UNCHANGED fifo
    /\ UNCHANGED <<exists, prod, consVars, values, fruns, fkills>>

\* consume with readValue.  At the end of file the child fails, and then main.
Consume(c) ==
    /\ numOpsC[c] > 0
    /\ \/ /\ fifo # <<>> /\ fifo' = Tail(fifo)
          /\ values' = Append(values, Head(fifo))
          /\ numOpsC' = [numOpsC EXCEPT ![c] = @ - 1] /\ UNCHANGED cons
       \/ /\ fifo = <<>> /\ ~HasWriter /\ UNCHANGED <<fifo, values>>
          /\ numOpsC' = [numOpsC EXCEPT ![c] = 0] /\ cons' = "failed"
    /\ UNCHANGED <<exists, prodVars, fruns, fkills>>

EndProducer ==
    /\ prod = "run" /\ (\A p \in P : numOpsP[p] = 0) /\ prod' = "done"
    /\ UNCHANGED <<exists, fifo, numOpsP, consVars, values, fruns, fkills>>

\* closeFIFO removes the name.
EndConsumer ==
    /\ cons = "run" /\ (\A c \in C : numOpsC[c] = 0) /\ cons' = "done"
    /\ exists' = FALSE
    /\ UNCHANGED <<fifo, numOpsC, prodVars, values, fruns, fkills>>

KillChild ==
    /\ fkills < FifoKills /\ fkills' = fkills + 1
    /\ \/ \E p \in P : numOpsP[p] > 0 /\ numOpsP' = [numOpsP EXCEPT ![p] = 0] /\ UNCHANGED numOpsC
       \/ \E c \in C : numOpsC[c] > 0 /\ numOpsC' = [numOpsC EXCEPT ![c] = 0] /\ UNCHANGED numOpsP
    /\ UNCHANGED <<exists, fifo, prod, cons, values, fruns>>

Mains == LaunchConsumer \/ EndProducer \/ EndConsumer

Next == \/ LaunchProducer \/ Mains \/ KillChild
        \/ \E p \in P : Produce(p)
        \/ \E c \in C : Consume(c)

\* Every process runs, and the user launches the consumer after the producer.
Fairness == /\ WF_fifoVars(Mains)
            /\ \A p \in P : WF_fifoVars(Produce(p))
            /\ \A c \in C : WF_fifoVars(Consume(c))

Spec == Init /\ [][Next]_fifoVars /\ Fairness

-----------------------------------------------------------------------------
(* Properties. *)

\* No value is read twice; when both programs are done and nobody was killed,
\* all of them have been read and the name is gone; and whatever child is
\* killed no process waits for ever: the others see the end of the file, or
\* SIGPIPE (consumer.c lines 84-85).
ValuesConsumed ==
    /\ []IsInjective(values)
    /\ [](prod = "done" /\ cons = "done" /\ fkills = 0 =>
              Len(values) = NUM_PRODUCERS * OPS_PER_PRODUCER /\ ~exists)
    /\ (prod \notin Over) ~> (prod \in Over /\ cons \in Over /\ ~ChildLeft)
=============================================================================
