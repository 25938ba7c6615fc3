----------------------------- MODULE TimeServer -----------------------------
(***************************************************************************)
(* exercises/06/sol/e2: a TCP server that answers one command with the     *)
(* date and closes, one client after the other.  TCP splits what is sent   *)
(* as it likes; a client may be killed at any point.                       *)
(***************************************************************************)
EXTENDS Integers, SequencesExt

CONSTANTS Clients,
          command_len, answer_len     \* bytes of SERVER_COMMAND and of an answer

TimeServerAssumption == command_len \in Nat \ {0} /\ answer_len \in Nat \ {0}

VARIABLES
    spc, client_desc, recv_bytes, bytes_sent,     \* the server
    answer,                                       \* send_buf
    queue,                                        \* connections to accept
    tpc, sent, recv_buf,                          \* the clients
    up, down, shut                                \* bytes on their way; closed by the server

srvVars == <<spc, client_desc, recv_bytes, bytes_sent, answer, shut>>
cliVars == <<tpc, sent, recv_buf>>
timeVars == <<srvVars, cliVars, queue, up, down>>

NoClient == <<>>

Init ==
    /\ spc = "accept" /\ client_desc = NoClient /\ recv_bytes = 0 /\ bytes_sent = 0
    /\ answer = "none" /\ queue = <<>> /\ shut = {}
    /\ tpc = [c \in Clients |-> "start"] /\ sent = [c \in Clients |-> 0]
    /\ recv_buf = [c \in Clients |-> <<>>]
    /\ up = [c \in Clients |-> 0] /\ down = [c \in Clients |-> <<>>]

Gone == {"done", "failed", "killed"}

-----------------------------------------------------------------------------
(* The server: main and connection_handler. *)

Accept ==
    /\ spc = "accept" /\ queue # <<>> /\ spc' = "recv"
    /\ client_desc' = Head(queue) /\ queue' = Tail(queue) /\ recv_bytes' = 0 /\ bytes_sent' = 0
    /\ UNCHANGED <<answer, shut, cliVars, up, down>>

Answer(n) == IF n = command_len THEN "date" ELSE "INVALID REQUEST"

\* recv() returns some of what is there, or 0 when the client has closed.
RecvCommand_Single ==     \* defect: one recv() is taken for the command
    /\ spc = "recv" /\ spc' = "send"
    /\ \E k \in 1 .. up[client_desc] :
          /\ up' = [up EXCEPT ![client_desc] = @ - k]
          /\ recv_bytes' = recv_bytes + k /\ answer' = Answer(recv_bytes + k)
    /\ UNCHANGED <<client_desc, bytes_sent, shut, queue, cliVars, down>>

RecvCommand ==
    /\ spc = "recv"
    /\ \E k \in 0 .. up[client_desc] :
          LET ends == k = 0 \/ recv_bytes + k >= command_len IN
          /\ k = 0 => up[client_desc] = 0 /\ tpc[client_desc] \in Gone
          /\ up' = [up EXCEPT ![client_desc] = @ - k] /\ recv_bytes' = recv_bytes + k
          /\ spc' = IF ends THEN "send" ELSE "recv"
          /\ answer' = IF ends THEN Answer(recv_bytes + k) ELSE answer
    /\ UNCHANGED <<client_desc, bytes_sent, shut, queue, cliVars, down>>

\* Bytes for a client that is gone are dropped, and from the second send() on
\* SIGPIPE ends the server.
SendAnswer ==
    /\ spc = "send"
    /\ \/ \E k \in 1 .. answer_len - bytes_sent :
             /\ bytes_sent' = bytes_sent + k
             /\ spc' = IF bytes_sent + k = answer_len THEN "close" ELSE "send"
             /\ down' = IF tpc[client_desc] \in Gone THEN down
                        ELSE [down EXCEPT ![client_desc] = @ \o [x \in 1 .. k |-> answer]]
             /\ UNCHANGED shut
       \/ /\ tpc[client_desc] \in Gone /\ bytes_sent > 0
          /\ spc' = "dead" /\ shut' = Clients /\ UNCHANGED <<bytes_sent, down>>
    /\ UNCHANGED <<client_desc, recv_bytes, answer, queue, cliVars, up>>

Close ==
    /\ spc = "close" /\ spc' = "accept" /\ shut' = shut \cup {client_desc}
    /\ client_desc' = NoClient
    /\ UNCHANGED <<recv_bytes, bytes_sent, answer, queue, cliVars, up, down>>

Server == Accept \/ RecvCommand \/ SendAnswer \/ Close

-----------------------------------------------------------------------------
(* The client: main. *)

Connect(c) ==
    /\ tpc[c] = "start"
    /\ IF spc = "dead" THEN tpc' = [tpc EXCEPT ![c] = "failed"] /\ UNCHANGED queue
                       ELSE tpc' = [tpc EXCEPT ![c] = "send"] /\ queue' = Append(queue, c)
    /\ UNCHANGED <<srvVars, sent, recv_buf, up, down>>

SendCommand(c) ==
    /\ tpc[c] = "send"
    /\ IF c \in shut THEN tpc' = [tpc EXCEPT ![c] = "failed"] /\ UNCHANGED <<sent, up>>
       ELSE \E k \in 1 .. command_len - sent[c] :
               /\ sent' = [sent EXCEPT ![c] = @ + k] /\ up' = [up EXCEPT ![c] = @ + k]
               /\ tpc' = [tpc EXCEPT ![c] = IF sent[c] + k = command_len THEN "recv" ELSE "send"]
    /\ UNCHANGED <<srvVars, recv_buf, queue, down>>

\* Up to the end of the stream.  A server that died resets the connection or
\* closes it.
RecvAnswer(c) ==
    /\ tpc[c] = "recv"
    /\ \/ \E k \in 1 .. Len(down[c]) :
             /\ recv_buf' = [recv_buf EXCEPT ![c] = @ \o SubSeq(down[c], 1, k)]
             /\ down' = [down EXCEPT ![c] = SubSeq(@, k + 1, Len(@))] /\ UNCHANGED tpc
       \/ /\ down[c] = <<>> /\ c \in shut
          /\ \E end \in {"done"} \cup (IF spc = "dead" THEN {"failed"} ELSE {}) :
                 tpc' = [tpc EXCEPT ![c] = end]
          /\ UNCHANGED <<recv_buf, down>>
    /\ UNCHANGED <<srvVars, sent, queue, up>>

Client(c) == SendCommand(c) \/ RecvAnswer(c)

Kill(c) == /\ tpc[c] \in {"send", "recv"} /\ tpc' = [tpc EXCEPT ![c] = "killed"]
           /\ UNCHANGED <<srvVars, sent, recv_buf, queue, up, down>>

-----------------------------------------------------------------------------
Next == Server \/ \E c \in Clients : Connect(c) \/ Client(c) \/ Kill(c)

\* The server and every client that was launched run.
Fairness == WF_timeVars(Server) /\ \A c \in Clients : WF_timeVars(Client(c))

Spec == Init /\ [][Next]_timeVars /\ Fairness

-----------------------------------------------------------------------------
(* Properties. *)

\* However the transfers are split, and whichever other client is killed in
\* the middle of its own, a client that connects ends; if the server lives it
\* prints the whole date, never a part of it and never INVALID REQUEST.
DateServed == \A c \in Clients :
    /\ [](tpc[c] = "done" /\ spc # "dead" => recv_buf[c] = [x \in 1 .. answer_len |-> "date"])
    /\ (tpc[c] \in {"send", "recv"}) ~> (tpc[c] \in Gone)
=============================================================================
