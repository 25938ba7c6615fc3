------------------------------- MODULE UdpEcho -------------------------------
(***************************************************************************)
(* exercises/07/sol/e2: a UDP echo server without connections, and its     *)
(* clients.  Datagrams may be lost, duplicated, and overtake one another;  *)
(* the server answers the address of the last datagram.                    *)
(***************************************************************************)
EXTENDS Integers, Sequences, Bags

CONSTANTS Clients,
          Typed,      \* bound: lines typed by a user, QUIT included
          Losses, Copies    \* bounds: datagrams lost, datagrams duplicated

UdpAssumption == Typed \in Nat /\ Losses \in Nat /\ Copies \in Nat

VARIABLES
    buf, client_addr, upc,     \* the server
    net,                       \* the bag of datagrams <<from, to, message>>
    kpc, msg, typed,           \* the clients, and the lines each has typed
    shown,                     \* history: the last answer a client has printed
    lost, copied               \* history: datagrams lost, duplicated

hostVars == <<buf, client_addr, upc>>
userVars == <<kpc, msg, typed, shown>>
faults == <<lost, copied>>
udpVars == <<hostVars, userVars, net, faults>>

None == <<"", 0>>
QUIT(c) == <<c, 0>>
Server == "server"

Init ==
    /\ buf = None /\ client_addr = "none" /\ upc = "recvfrom" /\ net = EmptyBag
    /\ kpc = [c \in Clients |-> "prompt"] /\ msg = [c \in Clients |-> None]
    /\ typed = [c \in Clients |-> 0] /\ shown = [c \in Clients |-> None]
    /\ lost = 0 /\ copied = 0

Arrives(d, to) == BagIn(d, net) /\ d[2] = to /\ net' = net (-) SetToBag({d})
Sends(from, to, m) == net' = net (+) SetToBag({<<from, to, m>>})

-----------------------------------------------------------------------------
(* connection_handler. *)

RecvFrom_KeepsAddress ==     \* defect: the address of the first client is kept
    /\ upc = "recvfrom"
    /\ \E d \in BagToSet(net) :
          /\ Arrives(d, Server) /\ buf' = d[3]
          /\ client_addr' = IF client_addr = "none" THEN d[1] ELSE client_addr
          /\ upc' = IF d[3] = QUIT(d[1]) THEN "recvfrom" ELSE "sendto"
    /\ UNCHANGED <<userVars, faults>>

\* A QUIT is ignored.
RecvFrom ==
    /\ upc = "recvfrom"
    /\ \E d \in BagToSet(net) :
          /\ Arrives(d, Server) /\ buf' = d[3] /\ client_addr' = d[1]
          /\ upc' = IF d[3] = QUIT(d[1]) THEN "recvfrom" ELSE "sendto"
    /\ UNCHANGED <<userVars, faults>>

SendTo ==
    /\ upc = "sendto" /\ upc' = "recvfrom"
    /\ Sends(Server, client_addr, buf)
    /\ UNCHANGED <<buf, client_addr, userVars, faults>>

Handler == RecvFrom \/ SendTo

-----------------------------------------------------------------------------
(* The client: main. *)

Type(c) ==
    /\ kpc[c] = "prompt" /\ typed[c] < Typed /\ typed' = [typed EXCEPT ![c] = @ + 1]
    /\ \E m \in {QUIT(c), <<c, typed[c] + 1>>} :
          /\ msg' = [msg EXCEPT ![c] = m] /\ Sends(c, Server, m)
          /\ kpc' = [kpc EXCEPT ![c] = IF m = QUIT(c) THEN "done" ELSE "recvfrom"]
    /\ UNCHANGED <<hostVars, shown, faults>>

EndOfInput(c) == /\ kpc[c] = "prompt" /\ kpc' = [kpc EXCEPT ![c] = "failed"]
                 /\ UNCHANGED <<hostVars, net, msg, typed, shown, faults>>

Response(c) ==
    /\ kpc[c] = "recvfrom" /\ kpc' = [kpc EXCEPT ![c] = "prompt"]
    /\ \E d \in BagToSet(net) :
          Arrives(d, c) /\ shown' = [shown EXCEPT ![c] = d[3]]
    /\ UNCHANGED <<hostVars, msg, typed, faults>>

Lose == /\ lost < Losses /\ lost' = lost + 1
        /\ \E d \in BagToSet(net) : net' = net (-) SetToBag({d})
        /\ UNCHANGED <<hostVars, userVars, copied>>

Duplicate == /\ copied < Copies /\ copied' = copied + 1
             /\ \E d \in BagToSet(net) : net' = net (+) SetToBag({d})
             /\ UNCHANGED <<hostVars, userVars, lost>>

-----------------------------------------------------------------------------
Next == Handler \/ Lose \/ Duplicate
        \/ \E c \in Clients : Type(c) \/ EndOfInput(c) \/ Response(c)

\* The server and the clients run; nothing is assumed of the users.
Fairness == WF_udpVars(Handler) /\ \A c \in Clients : WF_udpVars(Response(c))

Spec == Init /\ [][Next]_udpVars /\ Fairness

-----------------------------------------------------------------------------
(* Properties. *)

\* However the datagrams of several clients mix, a client is shown lines its
\* own user has typed, and when it prompts again the last one, unless a
\* datagram was duplicated: nothing ties an answer to its line.  It waits for
\* ever only for a datagram that was lost (the client has no timeout,
\* client.c line 127).
EchoedToSender == \A c \in Clients :
    /\ [](kpc[c] = "prompt" => shown[c] = msg[c] \/ copied > 0)
    /\ [](shown[c] # None => shown[c][1] = c /\ shown[c][2] \in 1 .. typed[c])
    /\ (kpc[c] = "recvfrom") ~> (kpc[c] = "prompt" \/ lost > 0)
=============================================================================
