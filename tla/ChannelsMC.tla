----------------------------- MODULE ChannelsMC -----------------------------
(***************************************************************************)
(* Small systems for TLC, each checked by itself: Pipe, FifoEcho,          *)
(* FifoValues, ReqWorker, TimeServer, UdpEcho and Http.  The first state   *)
(* chooses the one that runs, and the variables of the others keep their   *)
(* initial values.                                                         *)
(***************************************************************************)
EXTENDS Integers, Sequences

CONSTANTS w1, w2, r1, r2, l1, l2, k1, k2

VARIABLE system
VARIABLES pmain, todo, pipe, writeEnds, read_mutex, write_mutex, wpc, wleft, wsent,
          rpc, rleft, rdata, received, pkills
VARIABLES fifo_names, echo_fifo, client_fifo, epc, made, eopen, ebuf, lpc, lopen, lines, cut,
          answers
VARIABLES exists, fifo, prod, numOpsP, cons, numOpsC, values, fruns, fkills
VARIABLES names, objs, rpcs, rstep, rhandle, wpcs, wnext, printed
VARIABLES spc, client_desc, recv_bytes, bytes_sent, answer, queue, tpc, sent, recv_buf, up,
          down, shut
VARIABLES buf, client_addr, upc, net, kpc, msg, typed, shown, lost, copied
VARIABLES alive, hpc, arg, conn, file_name, response, httpc, wanted, out, in, split

pipeVars == <<pmain, todo, pipe, writeEnds, read_mutex, write_mutex, wpc, wleft, wsent,
              rpc, rleft, rdata, received, pkills>>
echoVars == <<fifo_names, echo_fifo, client_fifo, epc, made, eopen, ebuf, lpc, lopen, lines,
              cut, answers>>
fifoVars == <<exists, fifo, prod, numOpsP, cons, numOpsC, values, fruns, fkills>>
reqVars == <<names, objs, rpcs, rstep, rhandle, wpcs, wnext, printed>>
timeVars == <<spc, client_desc, recv_bytes, bytes_sent, answer, queue, tpc, sent, recv_buf,
              up, down, shut>>
udpVars == <<buf, client_addr, upc, net, kpc, msg, typed, shown, lost, copied>>
httpVars == <<alive, hpc, arg, conn, file_name, response, httpc, wanted, out, in, split>>

\* " .txt", which has to be encoded and has a type, and "X", which is asked
\* for as "x".
Directory == [name \in {<<32, 46, 116, 120, 116>>, <<88>>} |-> name]
Names == {<<32, 46, 116, 120, 116>>, <<120>>}

\* Messages of two elements, of which the pipe holds one and a half; two
\* messages a child.
Pi == INSTANCE Pipe WITH Writers <- {w1, w2}, Readers <- {r1, r2}, MSG_COUNT <- 4,
          MSG_ELEMS <- 2, Capacity <- 3, PipeKills <- 1
FE == INSTANCE FifoEcho WITH EchoLines <- 2
FV == INSTANCE FifoValues WITH NUM_PRODUCERS <- 2, NUM_CONSUMERS <- 2,
          OPS_PER_PRODUCER <- 2, OPS_PER_CONSUMER <- 2, FifoSize <- 2, FifoRuns <- 2,
          FifoKills <- 1
RW == INSTANCE ReqWorker WITH Launches <- {l1, l2}, NUM <- 3
TS == INSTANCE TimeServer WITH Clients <- {k1, k2}, command_len <- 3, answer_len <- 3
UE == INSTANCE UdpEcho WITH Clients <- {k1, k2}, Typed <- 3, Losses <- 1, Copies <- 1
H == INSTANCE Http WITH Clients <- {k1, k2}, Files <- Directory, FileNames <- Names

ASSUME ChannelsAssumption ==
    /\ Pi!PipeAssumption /\ FE!EchoLinesAssumption /\ FV!FifoAssumption /\ RW!ReqAssumption
    /\ TS!TimeServerAssumption /\ UE!UdpAssumption

Init == /\ system \in {"pipe", "echo", "values", "request", "time", "udp", "http"}
        /\ Pi!Init /\ FE!Init /\ FV!Init /\ RW!Init /\ TS!Init /\ UE!Init /\ H!Init
        /\ system # "echo" => fifo_names = [f \in {"echo", "client"} |-> "none"]
        /\ system # "http" => wanted = CHOOSE w \in [{k1, k2} -> Names] : TRUE

Next ==
    /\ UNCHANGED system
    /\ IF system = "pipe" THEN Pi!Next ELSE UNCHANGED pipeVars
    /\ IF system = "echo" THEN FE!Next ELSE UNCHANGED echoVars
    /\ IF system = "values" THEN FV!Next ELSE UNCHANGED fifoVars
    /\ IF system = "request" THEN RW!Next ELSE UNCHANGED reqVars
    /\ IF system = "time" THEN TS!Next ELSE UNCHANGED timeVars
    /\ IF system = "udp" THEN UE!Next ELSE UNCHANGED udpVars
    /\ IF system = "http" THEN H!Next ELSE UNCHANGED httpVars

vars == <<system, pipeVars, echoVars, fifoVars, reqVars, timeVars, udpVars, httpVars>>

\* The fairness of each module, for the chosen one.
Fairness ==
    /\ WF_pipeVars(system = "pipe" /\ (Pi!Fork \/ Pi!Wait))
    /\ \A w \in {w1, w2} : WF_pipeVars(system = "pipe" /\ Pi!Writer(w))
    /\ \A r \in {r1, r2} : WF_pipeVars(system = "pipe" /\ Pi!Reader(r))
    /\ WF_echoVars(system = "echo" /\ FE!Echo) /\ WF_echoVars(system = "echo" /\ FE!Client)
    /\ WF_fifoVars(system = "values" /\ FV!Mains)
    /\ \A p \in FV!P : WF_fifoVars(system = "values" /\ FV!Produce(p))
    /\ \A c \in FV!C : WF_fifoVars(system = "values" /\ FV!Consume(c))
    /\ \A r \in {l1, l2} : /\ WF_reqVars(system = "request" /\ RW!Main(r))
                           /\ WF_reqVars(system = "request" /\ RW!Work(r))
    /\ WF_timeVars(system = "time" /\ TS!Server) /\ WF_udpVars(system = "udp" /\ UE!Handler)
    /\ \A c \in {k1, k2} : /\ WF_timeVars(system = "time" /\ TS!Client(c))
                           /\ WF_udpVars(system = "udp" /\ UE!Response(c))
                           /\ WF_httpVars(system = "http" /\ H!Accept(c))
                           /\ WF_httpVars(system = "http" /\ H!Thread(c))
                           /\ WF_httpVars(system = "http" /\ (H!SendRequest(c) \/ H!EndOfStream(c)))

Spec == Init /\ [][Next]_vars /\ Fairness

-----------------------------------------------------------------------------
\* The properties of the modules, under the names they have there.
AllReceived == system = "pipe" => Pi!AllReceived
Converses == system = "echo" => FE!Converses
ValuesConsumed == system = "values" => FV!ValuesConsumed
SquaresPrinted == system = "request" => RW!SquaresPrinted
DateServed == system = "time" => TS!DateServed
EchoedToSender == system = "udp" => UE!EchoedToSender
OwnFile == system = "http" => H!OwnFile

\* Stated by the source, and not true of it.
EOFIsDetected == system = "pipe" => Pi!EOFIsDetected
=============================================================================
