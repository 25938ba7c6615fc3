----------------------------- MODULE EchoServer -----------------------------
(***************************************************************************)
(* The TCP echo servers and their clients: exercises/07/sol/e1 ("first")   *)
(* and exercises/08/sol/e1 compiled as "serial", "mproc" (a child process  *)
(* per connection) or "mthread" (a detached thread per connection).        *)
(*                                                                         *)
(* A byte stream is a sequence of units: the body of a line, and its       *)
(* newline.  A client may say nothing, leave without QUIT, or be killed,   *)
(* and the main loop may fail to create a process or a thread.             *)
(***************************************************************************)
EXTENDS Integers, SequencesExt

CONSTANTS Clients, Servers, MAX_CONN_QUEUE,
          Lines         \* bound: the lines a user types before QUIT

ASSUME EchoAssumption ==
    /\ Servers \subseteq {"first", "serial", "mproc", "mthread"}
    /\ MAX_CONN_QUEUE \in Nat \ {0} /\ Lines \in Nat
    /\ Clients # {} /\ "main" \notin Clients     \* a child is not its parent

VARIABLES
    server,               \* which server runs, one of Servers
    backlog, mpc,         \* connections to accept; the main loop
    cur, slot, addrs,     \* client_desc, client_addr and what addresses hold
    hpc, arg, hbuf, out,  \* the handlers: pc, address, line read, units to send
    holders, dead,        \* processes holding a connection; dead processes
    c2s, s2c, reset,      \* the streams, and connections the client has reset
    cpc, cbuf, typed, shown    \* the clients; shown is history

mainVars == <<mpc, cur, slot, addrs>>
hVars == <<hpc, arg, hbuf, out>>
net == <<c2s, s2c, reset>>
cVars == <<cpc, cbuf, typed, shown>>
vars == <<server, backlog, mainVars, hVars, holders, dead, net, cVars>>

NL == <<"nl", 0>>
Quit == << <<"quit", 0>>, NL >>      \* SERVER_COMMAND
Line(k) == << <<"line", k>>, NL >>
Welcome(who) == << <<"hi", who>> >>    \* one unit, that ends with a newline

Gone(c) == cpc[c] = "gone"

\* The process that accepts has ended: a handler's death ended it, or it could
\* not create the handler of the connection just accepted, now an orphan.
Down == mpc \in {"dead", "failed"}
Orphan(c) == Down /\ c = cur /\ hpc[c] = "none"
Released(c) == (hpc[c] # "none" \/ Orphan(c)) /\ holders[c] = {}

\* The process that executes the handler of c's connection.
ProcessOf_Main(c) == "main"     \* defect: the connection is handled in the parent

ProcessOf(c) == IF server = "mproc" THEN c ELSE "main"

-----------------------------------------------------------------------------
Init ==
    /\ server \in Servers /\ backlog = <<>>
    /\ mpc = "accept" /\ cur \in {CHOOSE c \in Clients : TRUE} /\ slot = 1
    /\ addrs = << "zero" >>
    /\ hpc = [c \in Clients |-> "none"] /\ arg = [c \in Clients |-> 0]
    /\ hbuf = [c \in Clients |-> <<>>] /\ out = [c \in Clients |-> <<>>]
    /\ holders = [c \in Clients |-> {}] /\ dead = {}
    /\ c2s = [c \in Clients |-> <<>>] /\ s2c = [c \in Clients |-> <<>>]
    /\ reset = [c \in Clients |-> FALSE]
    /\ cpc = [c \in Clients |-> "start"] /\ cbuf = [c \in Clients |-> <<>>]
    /\ typed = [c \in Clients |-> 0] /\ shown = [c \in Clients |-> <<>>]

-----------------------------------------------------------------------------
(* The main loop of the server. *)

Accept ==
    /\ mpc = "accept" /\ backlog # <<>>
    /\ cur' = Head(backlog) /\ backlog' = Tail(backlog)
    /\ holders' = [holders EXCEPT ![Head(backlog)] = {"main"}]
    /\ addrs' = [addrs EXCEPT ![slot] = Head(backlog)]
    /\ mpc' = "dispatch"
    /\ UNCHANGED <<server, slot, hVars, dead, net, cVars>>

Begin(a) == hpc' = [hpc EXCEPT ![cur] = "start"] /\ arg' = [arg EXCEPT ![cur] = a]

\* first and serial: the handler is called; main goes on when it returns.
Call ==
    /\ server \in {"first", "serial"} /\ mpc = "dispatch" /\ Begin(slot) /\ mpc' = "called"
    /\ UNCHANGED <<server, backlog, cur, slot, addrs, hbuf, out, holders, dead, net, cVars>>

Return ==
    /\ mpc = "called" /\ hpc[cur] = "done" /\ mpc' = "accept"
    /\ addrs' = [addrs EXCEPT ![slot] = IF server = "serial" THEN "zero" ELSE @]
    /\ UNCHANGED <<server, backlog, cur, slot, hVars, holders, dead, net, cVars>>

\* mproc: fork copies client_addr and the descriptor; the parent closes its own.
Fork ==
    /\ server = "mproc" /\ mpc = "dispatch"
    /\ addrs' = Append(addrs, addrs[slot]) /\ Begin(Len(addrs) + 1)
    /\ holders' = [holders EXCEPT ![cur] = @ \cup {cur}]
    /\ mpc' = "parent"
    /\ UNCHANGED <<server, backlog, cur, slot, hbuf, out, dead, net, cVars>>

CloseInParent_Not ==     \* defect: the descriptor is left open
    /\ mpc = "parent" /\ mpc' = "accept"
    /\ addrs' = [addrs EXCEPT ![slot] = "zero"] /\ UNCHANGED holders
    /\ UNCHANGED <<server, backlog, cur, slot, hVars, dead, net, cVars>>

CloseInParent ==
    /\ mpc = "parent" /\ mpc' = "accept"
    /\ addrs' = [addrs EXCEPT ![slot] = "zero"]
    /\ holders' = [holders EXCEPT ![cur] = @ \ {"main"}]
    /\ UNCHANGED <<server, backlog, cur, slot, hVars, dead, net, cVars>>

\* mthread: the thread is handed client_addr, and main allocates another one.
CreateThread ==
    /\ server = "mthread" /\ mpc = "dispatch" /\ Begin(slot) /\ mpc' = "alloc"
    /\ UNCHANGED <<server, backlog, cur, slot, addrs, hbuf, out, holders, dead, net, cVars>>

AllocAddress_Reset ==     \* defect: the one client_addr is reset and reused
    /\ mpc = "alloc" /\ mpc' = "accept"
    /\ addrs' = [addrs EXCEPT ![slot] = "zero"] /\ UNCHANGED slot
    /\ UNCHANGED <<server, backlog, cur, hVars, holders, dead, net, cVars>>

AllocAddress ==
    /\ mpc = "alloc" /\ mpc' = "accept"
    /\ addrs' = Append(addrs, "zero") /\ slot' = Len(addrs) + 1
    /\ UNCHANGED <<server, backlog, cur, hVars, holders, dead, net, cVars>>

\* A process ends, and with it its handlers; its descriptors are closed.
EndProcess(p) ==
    /\ dead' = dead \cup {p}
    /\ hpc' = [d \in Clients |-> IF hpc[d] # "none" /\ ProcessOf(d) = p THEN "done" ELSE hpc[d]]
    /\ holders' = [d \in Clients |-> holders[d] \ {p}]

\* fork or pthread_create fails (the parent of mproc never reaps its children),
\* and handle_error ends the process that accepts.
CreationFails ==
    /\ server \in {"mproc", "mthread"} /\ mpc = "dispatch"
    /\ EndProcess("main") /\ mpc' = "failed"
    /\ UNCHANGED <<server, backlog, cur, slot, addrs, arg, hbuf, out, net, cVars>>

Main == \/ Accept \/ Call \/ Return \/ Fork \/ CloseInParent
        \/ CreateThread \/ AllocAddress \/ CreationFails

-----------------------------------------------------------------------------
(* connection_handler. *)

HMove(c, from, to) == hpc[c] = from /\ hpc' = [hpc EXCEPT ![c] = to]
HKeep == UNCHANGED <<server, backlog, mainVars, holders, dead, cVars>>

Start(c) ==
    /\ HMove(c, "start", "send")
    /\ out' = [out EXCEPT ![c] = Welcome(addrs[arg[c]])]
    /\ HKeep /\ UNCHANGED <<arg, hbuf, net>>

\* send() takes some of the units; a client that is gone drops them and resets.
Send(c) ==
    /\ ~reset[c]
    /\ \E n \in 1 .. Len(out[c]) :
          /\ HMove(c, "send", IF n = Len(out[c]) THEN "recv" ELSE "send")
          /\ out' = [out EXCEPT ![c] = SubSeq(@, n + 1, Len(@))]
          /\ s2c' = [s2c EXCEPT ![c] = IF Gone(c) THEN @ ELSE @ \o SubSeq(out[c], 1, n)]
    /\ reset' = [reset EXCEPT ![c] = Gone(c)]
    /\ HKeep /\ UNCHANGED <<arg, hbuf, c2s>>

\* The line ends at a newline or at the end of the stream (recv returns 0).
\* An empty line ends the handler, but not in "first", which goes on reading.
Ends(line) == line = Quit \/ (server # "first" /\ line = <<>>)

EndOfLine_NoEmpty(c, line) ==     \* defect: the end of the stream is not noticed
    /\ HMove(c, "recv", IF line = Quit THEN "close"
                        ELSE IF line = <<>> THEN "recv" ELSE "send")
    /\ hbuf' = [hbuf EXCEPT ![c] = <<>>]
    /\ out' = [out EXCEPT ![c] = line]

EndOfLine_Short(c, line) ==     \* defect: the newline is left to the next line
    /\ HMove(c, "recv", IF Ends(line) THEN "close"
                        ELSE IF line = <<>> THEN "recv" ELSE "send")
    /\ hbuf' = [hbuf EXCEPT ![c] = <<>>]
    /\ out' = [out EXCEPT ![c] = IF Len(line) > 1 THEN SubSeq(line, 1, Len(line) - 1) ELSE line]

EndOfLine(c, line) ==
    /\ HMove(c, "recv", IF Ends(line) THEN "close"
                        ELSE IF line = <<>> THEN "recv" ELSE "send")
    /\ hbuf' = [hbuf EXCEPT ![c] = <<>>]
    /\ out' = [out EXCEPT ![c] = line]

Recv(c) ==
    /\ hpc[c] = "recv" /\ HKeep /\ UNCHANGED <<arg, s2c, reset>>
    /\ \/ /\ c2s[c] # <<>> /\ c2s' = [c2s EXCEPT ![c] = Tail(@)]
          /\ LET line == Append(hbuf[c], Head(c2s[c])) IN
             IF Head(c2s[c]) = NL THEN EndOfLine(c, line)
             ELSE hbuf' = [hbuf EXCEPT ![c] = line] /\ UNCHANGED <<hpc, out>>
       \/ /\ c2s[c] = <<>> /\ Gone(c) /\ ~reset[c]
          /\ EndOfLine(c, hbuf[c]) /\ UNCHANGED c2s

Close(c) ==
    /\ HMove(c, "close", "done")
    /\ holders' = [holders EXCEPT ![c] = @ \ {ProcessOf(c)}]
    /\ addrs' = [addrs EXCEPT ![arg[c]] = IF server = "mthread" THEN "freed" ELSE @]
    /\ UNCHANGED <<server, backlog, mpc, cur, slot, arg, hbuf, out, dead, net, cVars>>

\* A send to a connection that was reset (SIGPIPE), or a recv from it
\* (handle_error), ends the process with all its connections.
Die(c) ==
    LET p == ProcessOf(c) IN
    /\ reset[c] /\ hpc[c] \in {"send", "recv"} /\ (hpc[c] = "recv" => c2s[c] = <<>>)
    /\ EndProcess(p) /\ mpc' = IF p = "main" THEN "dead" ELSE mpc
    /\ UNCHANGED <<server, backlog, cur, slot, addrs, arg, hbuf, out, net, cVars>>

Handler(c) == Start(c) \/ Send(c) \/ Recv(c) \/ Close(c) \/ Die(c)

-----------------------------------------------------------------------------
(* The clients. *)

CMove(c, from, to) == cpc[c] \in from /\ cpc' = [cpc EXCEPT ![c] = to]
CKeep == UNCHANGED <<server, mainVars, hVars, holders, dead>>
Waiting == {"welcome", "response", "cut"}

Connect(c) ==
    /\ IF Down THEN CMove(c, {"start"}, "gone") /\ UNCHANGED backlog
       ELSE /\ CMove(c, {"start"}, "welcome") /\ Len(backlog) < MAX_CONN_QUEUE
            /\ backlog' = Append(backlog, c)
    /\ CKeep /\ UNCHANGED <<net, cbuf, typed, shown>>

\* One recv() takes what is there; 07's client goes on up to a newline.
ClientRecv(c) ==
    /\ cpc[c] \in Waiting
    /\ \E n \in 1 .. Len(s2c[c]) :
          LET buf == cbuf[c] \o SubSeq(s2c[c], 1, n)
              whole == server = "first" => buf[Len(buf)][1] \in {"hi", "nl"}
          IN  /\ s2c' = [s2c EXCEPT ![c] = SubSeq(@, n + 1, Len(@))]
              /\ cbuf' = [cbuf EXCEPT ![c] = IF whole THEN <<>> ELSE buf]
              /\ IF whole THEN /\ CMove(c, Waiting, "prompt")
                               /\ shown' = [shown EXCEPT ![c] = @ \o buf]
                          ELSE UNCHANGED <<cpc, shown>>
    /\ CKeep /\ UNCHANGED <<backlog, c2s, reset, typed>>

\* The server has closed: recv() returns 0, or fails if the server had
\* not read all that was sent.
ClientEnd(c) ==
    /\ cpc[c] \in Waiting /\ s2c[c] = <<>>
    /\ Released(c) \/ (Down /\ hpc[c] = "none")
    /\ CMove(c, Waiting, IF Released(c) /\ c2s[c] = <<>> THEN "prompt" ELSE "gone")
    /\ cbuf' = [cbuf EXCEPT ![c] = <<>>]
    /\ CKeep /\ UNCHANGED <<backlog, net, typed, shown>>

\* The user types a line, and the client sends it.  The client of 07 sends what
\* fgets returned, which has no newline when the line is longer than its buffer
\* or the last of a file; 08's puts a newline over the last character.
Type(c) ==
    /\ typed[c] < Lines /\ typed' = [typed EXCEPT ![c] = @ + 1]
    /\ \/ /\ CMove(c, {"prompt"}, "response")
          /\ c2s' = [c2s EXCEPT ![c] = @ \o Line(typed[c] + 1)]
       \/ /\ server = "first" /\ CMove(c, {"prompt"}, "cut")
          /\ c2s' = [c2s EXCEPT ![c] = Append(@, Line(typed[c] + 1)[1])]
    /\ CKeep /\ UNCHANGED <<backlog, s2c, reset, cbuf, shown>>

\* QUIT, the end of stdin, or a kill (in the middle of a send for the last
\* one): closing a socket with unread data resets the connection.
Leave(c) ==
    /\ \/ CMove(c, {"prompt"}, "gone") /\ c2s' = [c2s EXCEPT ![c] = @ \o Quit]
       \/ CMove(c, {"prompt"} \cup Waiting, "gone") /\ UNCHANGED c2s
       \/ CMove(c, {"prompt"}, "gone") /\ c2s' = [c2s EXCEPT ![c] = Append(@, Line(0)[1])]
    /\ reset' = [reset EXCEPT ![c] = s2c[c] # <<>>]
    /\ CKeep /\ UNCHANGED <<backlog, s2c, cbuf, typed, shown>>

ClientReacts(c) == ClientRecv(c) \/ ClientEnd(c)
User(c) == Connect(c) \/ Type(c) \/ Leave(c)

-----------------------------------------------------------------------------
Next == \/ Main
        \/ \E c \in Clients : Handler(c) \/ ClientReacts(c) \/ User(c)

Spec == Init /\ [][Next]_vars

\* The programs run; nothing is assumed of the users.
FairSpec == /\ Spec /\ WF_vars(Main)
            /\ \A c \in Clients : WF_vars(Handler(c)) /\ WF_vars(ClientReacts(c))

-----------------------------------------------------------------------------
(* Properties. *)

\* What the user of c typed, and what c's client has been sent.
TypedUnits(c) ==
    [u \in 1 .. 2 * typed[c] |-> IF u % 2 = 1 THEN <<"line", (u + 1) \div 2>> ELSE NL]
Sent(c) == shown[c] \o cbuf[c] \o s2c[c]

\* After the welcome a client is sent the lines its own user typed, in their
\* order and nothing else, whatever the other connections do; and the client
\* of 07, which reads up to the newline, prompts its user when all is echoed.
OwnEcho == \A c \in Clients :
    /\ (Sent(c) # <<>> => IsPrefix(Tail(Sent(c)), TypedUnits(c)))
    /\ server = "first" /\ cpc[c] = "prompt" /\ ~Released(c) =>
          Tail(Sent(c)) = TypedUnits(c)

\* Each client is welcomed with its own address, although main goes on to
\* accept with client_addr (server.c line 254: "Resetting fields in a shared
\* client_addr would cause data races!").
OwnAddress == \A c \in Clients :
    server # "first" /\ Sent(c) # <<>> => Sent(c)[1] = <<"hi", c>>

\* With a process per connection no connection ends the process that accepts
\* them (a fork that fails does), and the other processes that die are those
\* of clients that reset their own connection.
Isolated == server = "mproc" => mpc # "dead" /\ \A p \in dead \ {"main"} : reset[p]

\* A user whose line was sent whole, with its newline, is shown an answer:
\* with a process per connection even when the process that accepts ends, and
\* by the other servers unless it does.
ForkIsolates ==
    /\ server = "mproc" => []Isolated
    /\ \A c \in Clients :
          (cpc[c] = "response") ~>
             (cpc[c] \in {"prompt", "gone"} \/ (server # "mproc" /\ Down))

\* A connection that is over is closed by every process that held it
\* (server.c line 168), so that its client sees the end of the stream.
ClosedWhenDone == mpc = "accept" => \A c \in Clients : hpc[c] = "done" => holders[c] = {}

Waits(c) == cpc[c] = "welcome"
OthersLeft(c) == \A d \in Clients \ {c} : Gone(d)
Attended(c) == cpc[c] # "welcome" \/ Down

\* A client that is connected is welcomed: by mproc and mthread whatever the
\* others do, by the serial server when the others have left, in whatever way
\* they did; unless the process that accepts has ended.
Welcomed == server # "first" =>
    \A c \in Clients :
        (Waits(c) /\ (server = "serial" => OthersLeft(c))) ~> Attended(c)

\* 07/sol/e1/server.c line 207: "Loop to handle incoming connections
\* sequentially".  A connection that comes after a client has left without
\* QUIT is never handled: recv returns 0 for ever.
HandlesSequentially == \A c \in Clients : (Waits(c) /\ OthersLeft(c)) ~> Attended(c)
=============================================================================
