------------------------------ MODULE FifoEcho ------------------------------
(***************************************************************************)
(* exercises/04/sol/e3: an echo process and a client, around two FIFOs     *)
(* that the echo process creates.  A line is two units: its text and its   *)
(* newline.  QUIT_COMMAND is a text without newline.  The names may be     *)
(* those of FIFOs that an earlier session has left.                        *)
(***************************************************************************)
EXTENDS Integers, SequencesExt

CONSTANTS EchoLines          \* bound: lines typed before QUIT

EchoLinesAssumption == EchoLines \in Nat

VARIABLES
    fifo_names,                  \* whose FIFO each name is: none's, an old, a new one
    echo_fifo, client_fifo,      \* what is in the new ones
    epc, made, eopen, ebuf,      \* the echo process: calls on names, FIFOs opened
    lpc, lopen, lines,           \* the client, and the lines it has sent
    cut,                         \* the last of them has no newline
    answers                      \* history: what the client has read

fifos == <<fifo_names, echo_fifo, client_fifo>>
eVars == <<epc, made, eopen, ebuf>>
lVars == <<lpc, lopen, lines, cut, answers>>
echoVars == <<fifos, eVars, lVars>>

NL == <<"nl", 0>>
Text(k) == << <<"line", k>>, NL >>     \* line 0 is the welcome
QUIT_COMMAND == << <<"QUIT", 0>> >>

Init ==
    /\ fifo_names \in [{"echo", "client"} -> {"none", "old"}]
    /\ echo_fifo = <<>> /\ client_fifo = <<>>
    /\ epc = "mkfifo" /\ made = 0 /\ eopen = 0 /\ ebuf = <<>>
    /\ lpc = "start" /\ lopen = 0 /\ lines = 0 /\ cut = FALSE /\ answers = <<>>

Over == {"done", "failed"}

\* The order in which each process opens the FIFOs.
EchoOrder == <<"echo", "client">>
ClientOrder_Swapped == <<"client", "echo">>     \* defect: the other order

ClientOrder == <<"echo", "client">>

\* A process that has come to the open of f, waiting there or past it.
Reached(order, opened, f) == \E k \in 1 .. Len(order) : order[k] = f /\ k <= opened + 1

-----------------------------------------------------------------------------
(* The echo process. *)

\* Both unlink, then both mkfifo.
Making == << <<"echo", "none">>, <<"client", "none">>, <<"echo", "new">>, <<"client", "new">> >>

MakeFIFOs ==
    /\ epc = "mkfifo" /\ made' = made + 1
    /\ epc' = IF made' = Len(Making) THEN "open" ELSE "mkfifo"
    /\ fifo_names' = [fifo_names EXCEPT ![Making[made'][1]] = Making[made'][2]]
    /\ UNCHANGED <<echo_fifo, client_fifo, eopen, ebuf, lVars>>

\* open() waits for the other end.
EchoOpens ==
    /\ epc = "open" /\ lpc \in {"open", "answer"}
    /\ Reached(ClientOrder, lopen, EchoOrder[eopen + 1])
    /\ eopen' = eopen + 1
    /\ epc' = IF eopen + 1 = Len(EchoOrder) THEN "welcome" ELSE "open"
    /\ UNCHANGED <<fifos, made, ebuf, lVars>>

\* writeMsg: at most PIPE_BUF bytes, written at once; SIGPIPE without a reader.
EchoWrites(from, msg) ==
    /\ epc = from
    /\ IF lpc \in Over THEN epc' = "failed" /\ UNCHANGED echo_fifo
                       ELSE epc' = "read" /\ echo_fifo' = echo_fifo \o msg
    /\ ebuf' = <<>>
    /\ UNCHANGED <<fifo_names, client_fifo, made, eopen, lVars>>

\* readOneByOne, up to the newline; the end of the file is an error.
EchoReads ==
    /\ epc = "read"
    /\ \/ /\ client_fifo # <<>> /\ client_fifo' = Tail(client_fifo)
          /\ ebuf' = Append(ebuf, Head(client_fifo))
          /\ epc' = IF Head(client_fifo) = NL THEN "check" ELSE "read"
       \/ /\ client_fifo = <<>> /\ lpc \in Over /\ epc' = "failed"
          /\ UNCHANGED <<client_fifo, ebuf>>
    /\ UNCHANGED <<fifo_names, echo_fifo, made, eopen, lVars>>

\* All that was read, its newline included, is compared with QUIT_COMMAND.
IsQuit == Len(ebuf) = Len(QUIT_COMMAND) /\ IsPrefix(QUIT_COMMAND, ebuf)

CheckQuit ==
    \/ ~IsQuit /\ EchoWrites("check", ebuf)
    \/ /\ IsQuit /\ epc = "check" /\ epc' = "done"     \* cleanFIFOs
       /\ fifo_names' = [f \in DOMAIN fifo_names |-> "none"]
       /\ UNCHANGED <<echo_fifo, client_fifo, made, eopen, ebuf, lVars>>

Echo == MakeFIFOs \/ EchoOpens \/ EchoWrites("welcome", Text(0)) \/ EchoReads \/ CheckQuit

-----------------------------------------------------------------------------
(* The client. *)

\* The client calls open() on a name: it fails, or it waits for the echo
\* process, or for ever, if the FIFO is one that nobody will open again.
Opening(f) == CASE fifo_names[f] = "none" -> "failed"
                [] fifo_names[f] = "new" -> "open"
                [] fifo_names[f] = "old" -> "stranded"

Launch == /\ lpc = "start" /\ lpc' = Opening(ClientOrder[1])
          /\ UNCHANGED <<fifos, eVars, lopen, lines, cut, answers>>

ClientOpens ==
    /\ lpc = "open" /\ epc # "mkfifo" /\ Reached(EchoOrder, eopen, ClientOrder[lopen + 1])
    /\ lopen' = lopen + 1
    /\ lpc' = IF lopen' = Len(ClientOrder) THEN "answer" ELSE Opening(ClientOrder[lopen' + 1])
    /\ UNCHANGED <<fifos, eVars, lines, cut, answers>>

ClientReads ==
    /\ lpc = "answer"
    /\ \/ /\ echo_fifo # <<>> /\ echo_fifo' = Tail(echo_fifo)
          /\ answers' = Append(answers, Head(echo_fifo))
          /\ lpc' = IF Head(echo_fifo) = NL THEN "prompt" ELSE "answer"
       \/ /\ echo_fifo = <<>> /\ epc \in Over /\ lpc' = "failed"
          /\ UNCHANGED <<echo_fifo, answers>>
    /\ UNCHANGED <<fifo_names, client_fifo, eVars, lopen, lines, cut>>

\* fgets gives a line with its newline, or the first part of a line that is
\* too long for buf, or a last one that ends without it.
Type ==
    /\ lpc = "prompt" /\ lines < EchoLines /\ lpc' = "answer" /\ lines' = lines + 1
    /\ \/ client_fifo' = client_fifo \o Text(lines + 1) /\ UNCHANGED cut
       \/ client_fifo' = Append(client_fifo, Head(Text(lines + 1))) /\ cut' = TRUE
    /\ UNCHANGED <<fifo_names, echo_fifo, eVars, lopen, answers>>

\* The newline of fgets is sent, but not compared with QUIT_COMMAND.
TypeQuit ==
    /\ lpc = "prompt" /\ lpc' = "done"
    /\ client_fifo' = client_fifo \o QUIT_COMMAND \o <<NL>>
    /\ UNCHANGED <<fifo_names, echo_fifo, eVars, lopen, lines, cut, answers>>

EndOfInput == /\ lpc = "prompt" /\ lpc' = "failed"
              /\ UNCHANGED <<fifos, eVars, lopen, lines, cut, answers>>

Client == ClientOpens \/ ClientReads

-----------------------------------------------------------------------------
Next == Echo \/ Launch \/ Client \/ Type \/ TypeQuit \/ EndOfInput

\* Both programs run; nothing is assumed of the user.
Fairness == WF_echoVars(Echo) /\ WF_echoVars(Client)

Spec == Init /\ [][Next]_echoVars /\ Fairness

-----------------------------------------------------------------------------
(* Properties. *)

\* A client that opens the FIFOs of this echo process, whatever names were
\* there before and whenever it is launched, is answered: neither program
\* waits for ever in open() (echo.c lines 95-96, "in the exact same sequential
\* order ... to avoid deadlocks") nor in a read, unless a line came without
\* its newline; and what a client has been sent when it prompts is the welcome
\* and its own lines.
Converses == /\ (lpc \in {"open", "answer"}) ~> (lpc = "prompt" \/ cut)
             /\ [](lpc = "prompt" => answers = FlattenSeq([k \in 1 .. lines + 1 |-> Text(k - 1)]))

\* echo.c lines 25-26: "echoes them back, until the specific QUIT_COMMAND is
\* received"; the process then removes the FIFOs.
QuitEnds == (lpc = "done") ~> (epc = "done" /\ \A f \in DOMAIN fifo_names : fifo_names[f] = "none")
=============================================================================
