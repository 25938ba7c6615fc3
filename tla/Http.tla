-------------------------------- MODULE Http --------------------------------
(***************************************************************************)
(* exercises/09/sol/e1: a server that answers GET requests, one thread for *)
(* each connection.  A request is a sequence of characters between two     *)
(* marks, "GET /" and " HTTP/1"; TCP splits it as it likes.                *)
(***************************************************************************)
EXTENDS Integers, SequencesExt

CONSTANTS Clients,
          Files,         \* name |-> content: the directory
          FileNames      \* what clients ask for

VARIABLES
    alive,                            \* whether the server runs
    hpc, arg, conn, file_name,        \* the threads, one for each connection
    response,                         \* what they send
    httpc, wanted, out, in, split     \* the clients: pc, file, bytes to send and on
                                      \* their way; history: the request was split

threadVars == <<hpc, arg, conn, file_name, response>>
clientVars == <<httpc, wanted, out, split>>
httpVars == <<alive, threadVars, clientVars, in>>

-----------------------------------------------------------------------------
(* Characters. *)

Percent == 37
Period == 46
Lower(s) == [x \in DOMAIN s |-> IF s[x] \in 65 .. 90 THEN s[x] + 32 ELSE s[x]]
Hex(c) == CHOOSE h \in 0 .. 15 : c \in {48 + h, 87 + h, 55 + h} /\ (h < 10 <=> c < 58)

url_decode_Last(text) ==     \* defect: a sequence at the end is not decoded
    LET dec[i \in 1 .. Len(text) + 3] ==
            IF i > Len(text) THEN <<>>
            ELSE IF text[i] = Percent /\ i + 2 < Len(text)
                 THEN <<16 * Hex(text[i + 1]) + Hex(text[i + 2])>> \o dec[i + 3]
                 ELSE <<text[i]>> \o dec[i + 1]
    IN  dec[1]

\* %hh, wherever two more characters follow.
url_decode(text) ==
    LET dec[i \in 1 .. Len(text) + 3] ==
            IF i > Len(text) THEN <<>>
            ELSE IF text[i] = Percent /\ i + 2 <= Len(text)
                 THEN <<16 * Hex(text[i + 1]) + Hex(text[i + 2])>> \o dec[i + 3]
                 ELSE <<text[i]>> \o dec[i + 1]
    IN  dec[1]

\* What follows the last period, unless that begins the name.
get_file_extension(name) ==
    LET periods == {x \in DOMAIN name : name[x] = Period} IN
    IF periods \subseteq {1} THEN <<>> ELSE SubSeq(name, Max(periods) + 1, Len(name))

MimeTypes == <<104, 116, 109, 108>> :> "text/html" @@ <<104, 116, 109>> :> "text/html"
             @@ <<116, 120, 116>> :> "text/plain" @@ <<106, 112, 103>> :> "image/jpeg"
             @@ <<106, 112, 101, 103>> :> "image/jpeg" @@ <<112, 110, 103>> :> "image/png"

get_mime_type(ext) == IF Lower(ext) \in DOMAIN MimeTypes THEN MimeTypes[Lower(ext)]
                      ELSE "application/octet-stream"

NotFound == [status |-> 404, type |-> "text/plain", body |-> <<>>]
NoResponse == [status |-> 0, type |-> "", body |-> <<>>]

\* The file is opened under the name that was asked for.
build_http_response(name) ==
    IF name \in DOMAIN Files
    THEN [status |-> 200, type |-> get_mime_type(get_file_extension(name)), body |-> Files[name]]
    ELSE NotFound

-----------------------------------------------------------------------------
(* Requests, as clients write them. *)

GET == -1
HTTP == -2
Plain == {Period} \cup 48 .. 57 \cup 65 .. 90 \cup 97 .. 122
HexDigit(h) == IF h < 10 THEN 48 + h ELSE 87 + h
UrlEncode(name) ==
    FlattenSeq([x \in DOMAIN name |->
        IF name[x] \in Plain THEN <<name[x]>>
        ELSE <<Percent, HexDigit(name[x] \div 16), HexDigit(name[x] % 16)>>])
Request(name) == <<GET>> \o UrlEncode(name) \o <<HTTP>>

\* Bound: TCP splits what it carries in half, or not at all.
Pieces(text) == {(Len(text) + 1) \div 2, Len(text)} \ {0}

\* The regular expression of handle_client, on what one recv() gave.
Matches(text) == HTTP \in {text[x] : x \in DOMAIN text}
Name(text) == url_decode(SubSeq(text, 2, Len(text) - 1))

None == "none"

Init ==
    /\ alive = TRUE
    /\ hpc = [c \in Clients |-> None] /\ arg = [c \in Clients |-> None]
    /\ conn = [c \in Clients |-> None] /\ file_name = [c \in Clients |-> <<>>]
    /\ response = [c \in Clients |-> NoResponse]
    /\ httpc = [c \in Clients |-> "start"] /\ wanted \in [Clients -> FileNames]
    /\ out = [c \in Clients |-> Request(wanted[c])] /\ in = [c \in Clients |-> <<>>]
    /\ split = [c \in Clients |-> FALSE]

-----------------------------------------------------------------------------
(* main: a block is allocated for every connection. *)

Accept_OneBlock(c) ==     \* defect: the threads share the variable of main
    /\ alive /\ httpc[c] # "start" /\ hpc[c] = None
    /\ hpc' = [hpc EXCEPT ![c] = "start"]
    /\ arg' = [d \in Clients |-> c]
    /\ UNCHANGED <<alive, conn, file_name, response, clientVars, in>>

\* When no thread can be created, main goes on and nobody handles or closes
\* the connection; what pthread_detach does to the thread_id that was not set
\* is undefined: it is refused, or the server dies.
Accept(c) ==
    /\ alive /\ httpc[c] # "start" /\ hpc[c] = None
    /\ \/ /\ hpc' = [hpc EXCEPT ![c] = "start"] /\ UNCHANGED alive
          /\ arg' = [arg EXCEPT ![c] = c]
       \/ /\ hpc' = [hpc EXCEPT ![c] = "unhandled"] /\ alive' \in BOOLEAN
          /\ UNCHANGED arg
    /\ UNCHANGED <<conn, file_name, response, clientVars, in>>

-----------------------------------------------------------------------------
(* handle_client, in the thread that was created for the connection t. *)

Move(t, from, to) == alive /\ hpc[t] = from /\ hpc' = [hpc EXCEPT ![t] = to]

GetDescriptor(t) ==
    /\ Move(t, "start", "recv") /\ conn' = [conn EXCEPT ![t] = arg[t]]
    /\ UNCHANGED <<alive, arg, file_name, response, clientVars, in>>

Gone == {"killed", "done"}

\* One recv() is taken for the request; the client may also have left.
Recv(t) ==
    LET c == conn[t] IN
    /\ hpc[t] = "recv"
    /\ \/ \E k \in Pieces(in[c]) :
             LET text == SubSeq(in[c], 1, k) IN
             /\ in' = [in EXCEPT ![c] = SubSeq(@, k + 1, Len(@))]
             /\ Move(t, "recv", IF Matches(text) THEN "send" ELSE "close")
             /\ file_name' = IF Matches(text) THEN [file_name EXCEPT ![t] = Name(text)] ELSE file_name
             /\ split' = [split EXCEPT ![c] = ~Matches(text)]
       \/ /\ in[c] = <<>> /\ httpc[c] \in Gone /\ Move(t, "recv", "close")
          /\ UNCHANGED <<in, file_name, split>>
    /\ UNCHANGED <<alive, arg, conn, response, httpc, wanted, out>>

\* One send() for the response; if the client has left, SIGPIPE may end the
\* server.
Send(t) ==
    /\ \/ /\ Move(t, "send", "close") /\ UNCHANGED alive
          /\ response' = IF httpc[conn[t]] \in Gone THEN response
                         ELSE [response EXCEPT ![conn[t]] = build_http_response(file_name[t])]
       \/ /\ hpc[t] = "send" /\ httpc[conn[t]] \in Gone /\ alive /\ alive' = FALSE
          /\ UNCHANGED <<hpc, response>>
    /\ UNCHANGED <<arg, conn, file_name, clientVars, in>>

Close(t) ==
    /\ Move(t, "close", "closed")
    /\ UNCHANGED <<alive, arg, conn, file_name, response, clientVars, in>>

Thread(t) == GetDescriptor(t) \/ Recv(t) \/ Send(t) \/ Close(t)

-----------------------------------------------------------------------------
(* The clients: they send a request, in pieces, and read up to the end. *)

Connect(c) == /\ alive /\ httpc[c] = "start" /\ httpc' = [httpc EXCEPT ![c] = "send"]
              /\ UNCHANGED <<alive, threadVars, wanted, out, split, in>>

SendRequest(c) ==
    /\ httpc[c] = "send"
    /\ \E k \in Pieces(out[c]) :
          /\ in' = [in EXCEPT ![c] = @ \o SubSeq(out[c], 1, k)]
          /\ out' = [out EXCEPT ![c] = SubSeq(@, k + 1, Len(@))]
          /\ httpc' = [httpc EXCEPT ![c] = IF k = Len(out[c]) THEN "await" ELSE "send"]
    /\ UNCHANGED <<alive, threadVars, wanted, split>>

Closed(c) == ~alive \/ \E t \in Clients : conn[t] = c /\ hpc[t] = "closed"

EndOfStream(c) == /\ httpc[c] \in {"send", "await"} /\ Closed(c)
                  /\ httpc' = [httpc EXCEPT ![c] = "done"]
                  /\ UNCHANGED <<alive, threadVars, wanted, out, split, in>>

Kill(c) == /\ httpc[c] \in {"send", "await"} /\ httpc' = [httpc EXCEPT ![c] = "killed"]
           /\ UNCHANGED <<alive, threadVars, wanted, out, split, in>>

-----------------------------------------------------------------------------
Next == \E c \in Clients : \/ Accept(c) \/ Thread(c) \/ Kill(c)
                           \/ Connect(c) \/ SendRequest(c) \/ EndOfStream(c)

Fairness == \A c \in Clients : /\ WF_httpVars(Accept(c)) /\ WF_httpVars(Thread(c))
                               /\ WF_httpVars(SendRequest(c) \/ EndOfStream(c))

Spec == Init /\ [][Next]_httpVars /\ Fairness

-----------------------------------------------------------------------------
(* Properties. *)

Found(file) == [status |-> 200, type |-> get_mime_type(get_file_extension(file)),
                body |-> Files[file]]

\* For a name that only differs in case from that of a file, the answer may be
\* that file or that there is none: which it should be is below.
Expected(name) ==
    IF name \in DOMAIN Files THEN {Found(name)}
    ELSE {NotFound} \cup {Found(file) : file \in {f \in DOMAIN Files : Lower(f) = Lower(name)}}

\* However the threads interleave, a client is answered with the file that it
\* asked for itself, its name decoded, unless the first recv() had only a part
\* of the request.
OwnAnswer == \A c \in Clients :
    httpc[c] = "done" /\ alive => \/ response[c] \in Expected(wanted[c])
                                  \/ split[c] /\ response[c] = NoResponse

\* And every connection for which a thread was created ends.
OwnFile ==
    /\ []OwnAnswer
    /\ \A c \in Clients : (httpc[c] = "send") ~> (httpc[c] \in Gone \/ hpc[c] = "unhandled")

\* server.c line 22: "Searches for the file case-insensitively in the local
\* directory".
FoundInAnyCase == \A c \in Clients : response[c] = NotFound =>
    \A name \in DOMAIN Files : Lower(name) # Lower(wanted[c])
=============================================================================
