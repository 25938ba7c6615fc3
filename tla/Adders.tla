------------------------------- MODULE Adders -------------------------------
(***************************************************************************)
(* exercises/01/sol/e1 and e2: threads add a value many times over.  In e1 *)
(* each has a variable of its own and main adds them up; in e2 they share  *)
(* one variable under a semaphore.                                         *)
(***************************************************************************)
EXTENDS Integers

CONSTANTS n, m, v,      \* the arguments: threads, iterations, value
          Exclusive,    \* TRUE in e2, FALSE in e1
          ULONG_MAX     \* the greatest unsigned long

AddersAssumption ==
    /\ n \in Nat /\ m \in Nat /\ v \in Int /\ Exclusive \in BOOLEAN
    /\ ULONG_MAX \in Nat

VARIABLES
    apc, i,                        \* main, and its loop counter
    wpc, thread_idx, iter, reg,    \* the threads: pc, index, iterations done, register
    shared, sem, value             \* the variables, the semaphore, the result

addVars == <<apc, i, wpc, thread_idx, iter, reg, shared, sem, value>>

Indexes == 0 .. n - 1
Wrap(x) == x % (ULONG_MAX + 1)

Init ==
    /\ apc = "create" /\ i = 0
    /\ wpc = [t \in Indexes |-> "none"] /\ thread_idx = [t \in Indexes |-> 0]
    /\ iter = [t \in Indexes |-> 0] /\ reg = [t \in Indexes |-> 0]
    /\ shared = [t \in Indexes |-> 0] /\ sem = 1 /\ value = 0

-----------------------------------------------------------------------------
(* main. *)

Create ==
    /\ apc = "create"
    /\ IF i < n THEN wpc' = [wpc EXCEPT ![i] = "index"] /\ i' = i + 1 /\ UNCHANGED apc
                ELSE apc' = "join" /\ i' = 0 /\ UNCHANGED wpc
    /\ UNCHANGED <<thread_idx, iter, reg, shared, sem, value>>

\* exit() ends the threads too.
CreateFails == /\ apc = "create" /\ i < n /\ apc' = "failed"
               /\ UNCHANGED <<i, wpc, thread_idx, iter, reg, shared, sem, value>>

\* e1 collects as it joins, e2 has the sum already.
JoinThread ==
    /\ apc = "join"
    /\ IF i < n THEN /\ wpc[i] = "exited" /\ i' = i + 1 /\ UNCHANGED apc
                     /\ value' = IF Exclusive THEN value ELSE Wrap(value + shared[i])
                ELSE /\ apc' = "done" /\ UNCHANGED i
                     /\ value' = IF Exclusive /\ n > 0 THEN shared[0] ELSE value
    /\ UNCHANGED <<wpc, thread_idx, iter, reg, shared, sem>>

Main == Create \/ JoinThread

-----------------------------------------------------------------------------
(* thread_work. *)

Move(t, from, to) == /\ apc # "failed" /\ wpc[t] = from /\ wpc' = [wpc EXCEPT ![t] = to]
                     /\ UNCHANGED <<apc, i, value>>

ReadIndex_OfMain(t) ==     \* defect: the threads are passed the address of i
    /\ Move(t, "index", "wait")
    /\ thread_idx' = [thread_idx EXCEPT ![t] = IF Exclusive THEN 0 ELSE i % n]
    /\ UNCHANGED <<iter, reg, shared, sem>>

\* e1: *arg, an element of thread_ids that nobody changes.
ReadIndex(t) ==
    /\ Move(t, "index", "wait")
    /\ thread_idx' = [thread_idx EXCEPT ![t] = IF Exclusive THEN 0 ELSE t]
    /\ UNCHANGED <<iter, reg, shared, sem>>

Enter(t) ==
    /\ Move(t, "wait", IF iter[t] < m THEN "load" ELSE "exited")
    /\ IF Exclusive /\ iter[t] < m THEN sem > 0 /\ sem' = sem - 1 ELSE UNCHANGED sem
    /\ UNCHANGED <<thread_idx, iter, reg, shared>>

\* The addition is a load and a store; v is converted to unsigned long.
Load(t) == /\ Move(t, "load", "store") /\ reg' = [reg EXCEPT ![t] = shared[thread_idx[t]]]
           /\ UNCHANGED <<thread_idx, iter, shared, sem>>

Store(t) == /\ Move(t, "store", "post")
            /\ shared' = [shared EXCEPT ![thread_idx[t]] = Wrap(reg[t] + v)]
            /\ UNCHANGED <<thread_idx, iter, reg, sem>>

Leave(t) == /\ Move(t, "post", "wait") /\ iter' = [iter EXCEPT ![t] = @ + 1]
            /\ sem' = IF Exclusive THEN sem + 1 ELSE sem
            /\ UNCHANGED <<thread_idx, reg, shared>>

Thread(t) == ReadIndex(t) \/ Enter(t) \/ Load(t) \/ Store(t) \/ Leave(t)

-----------------------------------------------------------------------------
Next == Main \/ CreateFails \/ \E t \in Indexes : Thread(t)

Fairness == WF_addVars(Main) /\ \A t \in Indexes : WF_addVars(Thread(t))

Spec == Init /\ [][Next]_addVars /\ Fairness

-----------------------------------------------------------------------------
(* Properties. *)

expected_value == Wrap(n * m * v)

\* What main reports is the expected value, so no adds are lost, for a negative
\* value and on overflow too.
ReportsExpected == apc = "done" => value = expected_value

\* And main always reports.
NoLostAdds == []ReportsExpected /\ <>(apc \in {"done", "failed"})
=============================================================================
