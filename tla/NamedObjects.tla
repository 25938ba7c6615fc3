---------------------------- MODULE NamedObjects ----------------------------
(***************************************************************************)
(* POSIX named semaphores and shared memory, as the programs of            *)
(* exercises/02, 03 and 05 use them.  What a name denotes and the objects  *)
(* are kept apart: a process that has opened an object keeps it when its   *)
(* name is unlinked or given to a new object.                              *)
(***************************************************************************)
EXTENDS Naturals, Sequences

VARIABLES names,  \* what each name denotes: the number of an object, 0: nothing
          objs    \* the objects: semaphores, and memory

\* A call is <<kind, name>>: "unlink" ignores its result and "remove" does
\* not; "create" is sem_open or shm_open with O_CREAT | O_EXCL, and "open"
\* without O_CREAT.
Succeeds(op) == CASE op[1] = "unlink" -> TRUE
                  [] op[1] = "create" -> names[op[2]] = 0
                  [] op[1] \in {"open", "remove"} -> names[op[2]] # 0

\* A created object starts as fresh.
Perform(op, fresh) ==
    /\ names' = [names EXCEPT ![op[2]] =
                     CASE op[1] \in {"unlink", "remove"} -> 0
                       [] op[1] = "create" -> Len(objs) + 1
                       [] op[1] = "open" -> @]
    /\ objs' = IF op[1] = "create" THEN Append(objs, fresh) ELSE objs

\* The object the call hands to its caller.
HandleOf(op) == IF op[1] = "create" THEN Len(objs) + 1 ELSE names[op[2]]

Semaphore(v) == [value |-> v]

SemWait_Interrupted(o) ==     \* defect: a sem_wait that a signal ends goes unnoticed
    /\ objs[o].value >= 0
    /\ objs' = [objs EXCEPT ![o].value = IF @ > 0 THEN @ - 1 ELSE 0]

SemWait(o) == objs[o].value > 0 /\ objs' = [objs EXCEPT ![o].value = @ - 1]
SemPost(o) == objs' = [objs EXCEPT ![o].value = @ + 1]
=============================================================================
