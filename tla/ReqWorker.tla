----------------------------- MODULE ReqWorker -----------------------------
(***************************************************************************)
(* exercises/03/sol/e1: a requester puts numbers in shared memory, and the *)
(* worker it has forked replaces them by their squares; two semaphores     *)
(* order them.  The program may be launched again before it has ended.     *)
(***************************************************************************)
EXTENDS Integers, FiniteSets, NamedObjects

CONSTANTS Launches,     \* launches of the program
          NUM           \* numbers in the shared memory

ReqAssumption == NUM \in Nat \ {0}

VARIABLES
    rpcs, rstep, rhandle,     \* each launch's main: pc, call, its objects
    wpcs, wnext,              \* its worker, and the next index it treats
    printed                   \* what the requester prints

reqVars == <<names, objs, rpcs, rstep, rhandle, wpcs, wnext, printed>>

Names == {"req", "wrk", "mem"}
Fresh == [req |-> Semaphore(0), wrk |-> Semaphore(0),
          mem |-> [x \in 0 .. NUM - 1 |-> 0]]

\* The calls of main before fork() and after wait().
Setup == << <<"unlink", "req">>, <<"unlink", "wrk">>, <<"unlink", "mem">>,
            <<"create", "req">>, <<"create", "wrk">>, <<"create", "mem">> >>
Cleanup == << <<"remove", "req">>, <<"remove", "wrk">>, <<"remove", "mem">> >>

Init ==
    /\ names = [nm \in Names |-> 0] /\ objs = <<>>
    /\ rpcs = [r \in Launches |-> "start"] /\ rstep = [r \in Launches |-> 1]
    /\ rhandle = [r \in Launches |-> [nm \in Names |-> 0]]
    /\ wpcs = [r \in Launches |-> "none"] /\ wnext = [r \in Launches |-> 0]
    /\ printed = [r \in Launches |-> <<>>]

RMove(r, from, to) == rpcs[r] = from /\ rpcs' = [rpcs EXCEPT ![r] = to]

Start(r) == RMove(r, "start", "setup") /\ UNCHANGED <<names, objs, rstep, rhandle, wpcs, wnext, printed>>

\* A sequence of calls; the first one that fails ends the program.
Calls(r, here, ops, next) ==
    LET op == ops[rstep[r]]
        last == rstep[r] = Len(ops)
    IN  \/ /\ RMove(r, here, IF last THEN next ELSE here) /\ Succeeds(op)
           /\ Perform(op, Fresh[op[2]])
           /\ rstep' = [rstep EXCEPT ![r] = IF last THEN 1 ELSE @ + 1]
           /\ rhandle' = IF op[1] = "create" THEN [rhandle EXCEPT ![r][op[2]] = HandleOf(op)]
                                             ELSE rhandle
        \/ /\ RMove(r, here, "failed") /\ ~Succeeds(op)
           /\ UNCHANGED <<names, objs, rstep, rhandle>>

SetUp(r) == /\ rpcs[r] = "setup" /\ Calls(r, "setup", Setup, "fill")
            /\ wpcs' = [wpcs EXCEPT ![r] = IF rpcs'[r] = "fill" THEN "wait" ELSE @]
            /\ UNCHANGED <<wnext, printed>>

\* request: the data, the signal to the worker, and the wait for its answer.
Request(r) ==
    /\ \/ /\ RMove(r, "fill", "post") /\ UNCHANGED printed
          /\ objs' = [objs EXCEPT ![rhandle[r].mem] = [x \in DOMAIN @ |-> x]]
       \/ RMove(r, "post", "await") /\ SemPost(rhandle[r].wrk) /\ UNCHANGED printed
       \/ RMove(r, "await", "print") /\ SemWait(rhandle[r].req) /\ UNCHANGED printed
       \/ /\ RMove(r, "print", "join") /\ UNCHANGED objs
          /\ printed' = [printed EXCEPT ![r] = objs[rhandle[r].mem]]
    /\ UNCHANGED <<names, rstep, rhandle, wpcs, wnext>>

Join(r) == /\ RMove(r, "join", "cleanup") /\ wpcs[r] = "exited"
           /\ UNCHANGED <<names, objs, rstep, rhandle, wpcs, wnext, printed>>

CleanUp(r) == /\ rpcs[r] = "cleanup" /\ Calls(r, "cleanup", Cleanup, "done")
              /\ UNCHANGED <<wpcs, wnext, printed>>

Work_Opens(r) ==     \* defect: the worker opens the memory by its name again
    /\ \/ /\ wpcs[r] = "wait" /\ SemWait(rhandle[r].wrk)
          /\ wpcs' = [wpcs EXCEPT ![r] = IF names.mem = 0 THEN "exited" ELSE "square"]
          /\ UNCHANGED wnext
       \/ /\ wpcs[r] = "square" /\ wnext' = [wnext EXCEPT ![r] = NUM]
          /\ objs' = IF names.mem = 0 THEN objs
                     ELSE [objs EXCEPT ![names.mem] = [x \in DOMAIN @ |-> @[x] * @[x]]]
          /\ wpcs' = [wpcs EXCEPT ![r] = "post"]
       \/ /\ wpcs[r] = "post" /\ SemPost(rhandle[r].req)
          /\ wpcs' = [wpcs EXCEPT ![r] = "exited"] /\ UNCHANGED wnext
    /\ UNCHANGED <<names, rpcs, rstep, rhandle, printed>>

\* work: element by element.
Work(r) ==
    /\ \/ /\ wpcs[r] = "wait" /\ SemWait(rhandle[r].wrk)
          /\ wpcs' = [wpcs EXCEPT ![r] = "square"] /\ UNCHANGED wnext
       \/ /\ wpcs[r] = "square" /\ wnext' = [wnext EXCEPT ![r] = @ + 1]
          /\ objs' = [objs EXCEPT ![rhandle[r].mem][wnext[r]] = @ * @]
          /\ wpcs' = [wpcs EXCEPT ![r] = IF wnext[r] + 1 = NUM THEN "post" ELSE @]
       \/ /\ wpcs[r] = "post" /\ SemPost(rhandle[r].req)
          /\ wpcs' = [wpcs EXCEPT ![r] = "exited"] /\ UNCHANGED wnext
    /\ UNCHANGED <<names, rpcs, rstep, rhandle, printed>>

Main(r) == SetUp(r) \/ Request(r) \/ Join(r) \/ CleanUp(r)

Next == \E r \in Launches : Start(r) \/ Main(r) \/ Work(r)

Fairness == \A r \in Launches : WF_reqVars(Main(r)) /\ WF_reqVars(Work(r))

Spec == Init /\ [][Next]_reqVars /\ Fairness

-----------------------------------------------------------------------------
\* However launches overlap, and replace one another's names, a launch whose
\* set-up succeeds prints the square of every number, because the worker
\* inherits the objects and does not look the names up (req_wrk.c lines 36-42).
SquaresPrinted == \A r \in Launches :
    /\ [](rpcs[r] \in {"join", "cleanup", "done"} =>
              printed[r] = [x \in 0 .. NUM - 1 |-> x * x])
    /\ (rpcs[r] = "fill") ~> (rpcs[r] \in {"done", "failed"} /\ printed[r] # <<>>)
=============================================================================
