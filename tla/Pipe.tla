-------------------------------- MODULE Pipe --------------------------------
(***************************************************************************)
(* exercises/04/sol/e2: writers and readers, children of one process,      *)
(* exchange long messages over an anonymous pipe.  A message does not fit  *)
(* in the pipe, so it goes through in parts, under one mutex per side.     *)
(***************************************************************************)
EXTENDS Integers, SequencesExt

CONSTANTS Writers, Readers,     \* WRITERS_COUNT and READERS_COUNT children
          MSG_COUNT, MSG_ELEMS,
          Capacity,             \* elements that fit in the pipe
          PipeKills             \* bound: children that are killed

PipeAssumption ==
    /\ MSG_ELEMS \in Nat \ {0} /\ Capacity \in Nat \ {0} /\ PipeKills \in Nat
    /\ MSG_COUNT % Cardinality(Writers) = 0 /\ MSG_COUNT % Cardinality(Readers) = 0

VARIABLES
    pmain, todo,           \* the parent, and the children it is yet to fork
    pipe, writeEnds,       \* the elements in the pipe, who can write to it
    read_mutex, write_mutex,
    wpc, wleft, wsent,     \* writers: messages left, elements written
    rpc, rleft, rdata,     \* readers: messages left, data
    received, pkills       \* history

wVars == <<wpc, wleft, wsent, write_mutex>>
rVars == <<rpc, rleft, rdata, read_mutex, received>>
pipeVars == <<pmain, todo, pipe, writeEnds, wVars, rVars, pkills>>

Init ==
    /\ pmain = "fork" /\ todo = SetToSeq(Readers) \o SetToSeq(Writers)
    /\ pipe = <<>> /\ writeEnds = {"main"} /\ read_mutex = 1 /\ write_mutex = 1
    /\ wpc = [w \in Writers |-> "none"] /\ wsent = [w \in Writers |-> 0]
    /\ wleft = [w \in Writers |-> MSG_COUNT \div Cardinality(Writers)]
    /\ rpc = [r \in Readers |-> "none"] /\ rdata = [r \in Readers |-> <<>>]
    /\ rleft = [r \in Readers |-> MSG_COUNT \div Cardinality(Readers)]
    /\ received = {} /\ pkills = 0

-----------------------------------------------------------------------------
(* The parent.  It keeps both ends of the pipe. *)

Fork ==
    /\ pmain = "fork" /\ todo' = Tail(todo)
    /\ pmain' = IF Len(todo) = 1 THEN "wait" ELSE "fork"
    /\ writeEnds' = writeEnds \cup {Head(todo)}
    /\ IF Head(todo) \in Readers
       THEN rpc' = [rpc EXCEPT ![Head(todo)] = "close"] /\ UNCHANGED wpc
       ELSE wpc' = [wpc EXCEPT ![Head(todo)] = "wait"] /\ UNCHANGED rpc
    /\ UNCHANGED <<pipe, wleft, wsent, write_mutex, rleft, rdata, read_mutex, received, pkills>>

Ended == {"exited", "failed", "killed"}

\* A child that was killed counts as one that exited: WEXITSTATUS is 0.
Wait ==
    /\ pmain = "wait"
    /\ \/ /\ \A r \in Readers : rpc[r] \in Ended \ {"failed"}
          /\ \A w \in Writers : wpc[w] \in Ended
          /\ pmain' = "done"
       \/ (\E r \in Readers : rpc[r] = "failed") /\ pmain' = "failed"
    /\ writeEnds' = writeEnds \ {"main"}
    /\ UNCHANGED <<todo, pipe, wVars, rVars, pkills>>

-----------------------------------------------------------------------------
(* writer and write_to_pipe. *)

WMove(w, from, to) ==
    /\ wpc[w] = from /\ wpc' = [wpc EXCEPT ![w] = to]
    /\ UNCHANGED <<pmain, todo, rVars, pkills>>

WLock(w) == /\ WMove(w, "wait", "write") /\ write_mutex > 0
            /\ write_mutex' = write_mutex - 1
            /\ UNCHANGED <<pipe, writeEnds, wleft, wsent>>

\* write() takes as many elements as it likes and fit.
WriteToPipe_Once(w) ==     \* defect: the rest of a partial write is dropped
    \E k \in 1 .. MSG_ELEMS - wsent[w] :
        /\ Len(pipe) + k <= Capacity
        /\ pipe' = pipe \o [x \in 1 .. k |-> <<w, wleft[w]>>]
        /\ WMove(w, "write", "post") /\ wsent' = [wsent EXCEPT ![w] = 0]
        /\ UNCHANGED <<writeEnds, wleft, write_mutex>>

WriteToPipe(w) ==
    \E k \in 1 .. MSG_ELEMS - wsent[w] :
        LET last == wsent[w] + k = MSG_ELEMS IN
        /\ Len(pipe) + k <= Capacity
        /\ pipe' = pipe \o [x \in 1 .. k |-> <<w, wleft[w]>>]
        /\ WMove(w, "write", IF last THEN "post" ELSE "write")
        /\ wsent' = [wsent EXCEPT ![w] = IF last THEN 0 ELSE @ + k]
        /\ UNCHANGED <<writeEnds, wleft, write_mutex>>

WPost(w) ==
    LET last == wleft[w] = 1 IN
    /\ WMove(w, "post", IF last THEN "exited" ELSE "wait")
    /\ write_mutex' = write_mutex + 1
    /\ wleft' = [wleft EXCEPT ![w] = @ - 1]
    /\ writeEnds' = IF last THEN writeEnds \ {w} ELSE writeEnds
    /\ UNCHANGED <<pipe, wsent>>

Writer(w) == WLock(w) \/ WriteToPipe(w) \/ WPost(w)

-----------------------------------------------------------------------------
(* reader and read_from_pipe. *)

RMove(r, from, to) ==
    /\ rpc[r] = from /\ rpc' = [rpc EXCEPT ![r] = to]
    /\ UNCHANGED <<pmain, todo, wVars, pkills>>

CloseWriteEnd(r) == /\ RMove(r, "close", "wait") /\ writeEnds' = writeEnds \ {r}
                    /\ UNCHANGED <<pipe, rleft, rdata, read_mutex, received>>

RLock(r) == /\ RMove(r, "wait", "read") /\ read_mutex > 0
            /\ read_mutex' = read_mutex - 1
            /\ UNCHANGED <<pipe, writeEnds, rleft, rdata, received>>

\* read() returns some of what is there; at the end of file the reader exits.
ReadFromPipe(r) ==
    /\ UNCHANGED <<writeEnds, rleft, read_mutex, received>>
    /\ \/ \E k \in 1 .. MSG_ELEMS - Len(rdata[r]) :
             /\ k <= Len(pipe) /\ pipe' = SubSeq(pipe, k + 1, Len(pipe))
             /\ rdata' = [rdata EXCEPT ![r] = @ \o SubSeq(pipe, 1, k)]
             /\ RMove(r, "read", IF Len(rdata[r]) + k = MSG_ELEMS THEN "post" ELSE "read")
       \/ /\ pipe = <<>> /\ writeEnds = {} /\ RMove(r, "read", "failed")
          /\ UNCHANGED <<pipe, rdata>>

RPost(r) ==
    /\ RMove(r, "post", IF rleft[r] = 1 THEN "exited" ELSE "wait")
    /\ read_mutex' = read_mutex + 1
    /\ rleft' = [rleft EXCEPT ![r] = @ - 1] /\ rdata' = [rdata EXCEPT ![r] = <<>>]
    /\ received' = received \cup {rdata[r]}
    /\ UNCHANGED <<pipe, writeEnds>>

Reader(r) == CloseWriteEnd(r) \/ RLock(r) \/ ReadFromPipe(r) \/ RPost(r)

-----------------------------------------------------------------------------
\* A child is killed from outside, its descriptors closed, its mutex kept.
KillChild ==
    /\ pkills < PipeKills /\ pkills' = pkills + 1
    /\ \/ \E w \in Writers : /\ wpc[w] \notin Ended \cup {"none"}
                             /\ wpc' = [wpc EXCEPT ![w] = "killed"]
                             /\ writeEnds' = writeEnds \ {w} /\ UNCHANGED rpc
       \/ \E r \in Readers : /\ rpc[r] \notin Ended \cup {"none"}
                             /\ rpc' = [rpc EXCEPT ![r] = "killed"]
                             /\ writeEnds' = writeEnds \ {r} /\ UNCHANGED wpc
    /\ UNCHANGED <<pmain, todo, pipe, wleft, wsent, write_mutex, rleft, rdata,
                   read_mutex, received>>

Next == \/ Fork \/ Wait \/ KillChild
        \/ \E w \in Writers : Writer(w)
        \/ \E r \in Readers : Reader(r)

Fairness == /\ WF_pipeVars(Fork \/ Wait)
            /\ \A w \in Writers : WF_pipeVars(Writer(w))
            /\ \A r \in Readers : WF_pipeVars(Reader(r))

Spec == Init /\ [][Next]_pipeVars /\ Fairness

-----------------------------------------------------------------------------
(* Properties. *)

is_msg_ok(data) == \A x \in 1 .. Len(data) : data[x] = data[1]

\* Every message that a reader takes is one message of one writer, in one
\* piece, however writes and reads are split and even when a child is killed
\* in the middle of one (main.c line 28: "readers verify that the received
\* array contains consistent values"); and if nobody is killed every message
\* arrives, and the parent ends.
AllReceived ==
    /\ [](\A data \in received : Len(data) = MSG_ELEMS /\ is_msg_ok(data))
    /\ [](pkills = 0) => <>(pmain = "done" /\ Cardinality(received) = MSG_COUNT)

\* main.c line 119: closing the write end "is mandatory to allow EOF detection
\* if all writers terminate".  When all writers have terminated, no reader
\* waits for ever in read().
EOFIsDetected == \A r \in Readers :
    (rpc[r] = "read" /\ \A w \in Writers : wpc[w] \in Ended) ~> (rpc[r] # "read")
=============================================================================
