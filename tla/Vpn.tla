-------------------------------- MODULE Vpn --------------------------------
(***************************************************************************)
(* exercises/10/sol/e2: the two ends of a tunnel, one program compiled     *)
(* twice.  Each end changes the routing rules of its host, forwards        *)
(* packets between its TUN device and a UDP socket, and takes its rules    *)
(* away on a signal or on an error.  The sockets take datagrams from       *)
(* anybody: besides the two ends, a third party sends some.                *)
(***************************************************************************)
EXTENDS Integers, FiniteSets

CONSTANTS Rules,       \* commands of setup_route_table that add a rule
          Packets      \* bound: packets that the host of an end sends, and
                       \* datagrams of the third party

VpnAssumption == Rules \in Nat \ {0} /\ Packets \in Nat

Ends == {"server", "client"}
Senders == Ends \cup {"stranger"}

VARIABLES
    vpc, step, rules,       \* an end: pc, rule it is at; the rules of its host
    client_addr,            \* where it sends: an end, or the third party
    tun_buf, udp_buf,
    read, written,          \* packets that a sender sent; history: written to TUN
    socket                  \* datagrams at each end's socket: <<from, packet>>

vpnVars == <<vpc, step, rules, client_addr, tun_buf, udp_buf, read, written, socket>>
bufVars == <<client_addr, tun_buf, udp_buf, read, written, socket>>

All == 1 .. Rules

\* The client's last two rules, 0/1 and 128/1, are routes over its device:
\* the kernel drops them when the device is closed, or with the process.
TunRoutes(e) == IF e = "client" THEN {k \in All : k > Rules - 2} ELSE {}

\* BIND_HOST is where the server first sends: to itself.
Init ==
    /\ vpc = [e \in Ends |-> "start"] /\ step = [e \in Ends |-> 1] /\ rules = [e \in Ends |-> {}]
    /\ client_addr = [e \in Ends |-> "server"]
    /\ tun_buf = [e \in Ends |-> <<>>] /\ udp_buf = [e \in Ends |-> <<>>]
    /\ read = [p \in Senders |-> 0] /\ written = [e \in Ends |-> {}]
    /\ socket = [e \in Ends |-> {}]

Loop == {"select", "tun", "tun+udp", "udp"}
HasSocket(e) == vpc[e] \in Loop

Move(e, from, to) == vpc[e] = from /\ vpc' = [vpc EXCEPT ![e] = to]

CloseTun(e, from, to) ==
    Move(e, from, to) /\ rules' = [rules EXCEPT ![e] = @ \ TunRoutes(e)]

-----------------------------------------------------------------------------
(* Start and end. *)

Start(e) ==     \* tun_alloc, ifconfig
    /\ \E next \in {"setup", "failed"} : Move(e, "start", next)
    /\ UNCHANGED <<step, rules, bufVars>>

\* run() ends the process when a command fails.
SetupRoute(e) ==
    /\ \/ /\ Move(e, "setup", IF step[e] = Rules THEN "handler" ELSE "setup")
          /\ rules' = [rules EXCEPT ![e] = @ \cup {step[e]}]
          /\ step' = [step EXCEPT ![e] = IF @ = Rules THEN 1 ELSE @ + 1]
       \/ CloseTun(e, "setup", "failed") /\ UNCHANGED step
    /\ UNCHANGED bufVars

InstallHandler(e) == Move(e, "handler", "bind") /\ UNCHANGED <<step, rules, bufVars>>

UdpBind(e) ==     \* main returns 1 when it fails
    /\ \/ Move(e, "bind", "select") /\ UNCHANGED rules
       \/ CloseTun(e, "bind", "failed")
    /\ UNCHANGED <<step, bufVars>>

CleanupRoute_Skips(e, here) ==     \* defect: the first rule is forgotten
    /\ Move(e, here, IF step[e] = Rules THEN "exited" ELSE here)
    /\ rules' = [rules EXCEPT ![e] = @ \ ({step[e]} \ {1})]
    /\ step' = [step EXCEPT ![e] = IF @ = Rules THEN 1 ELSE @ + 1] /\ UNCHANGED bufVars

\* run() ends the process when the deletion fails: because the rule is not
\* there, or for whatever reason ("refused").
CleanupRoute(e, here) ==
    /\ \/ /\ step[e] \in rules[e]
          /\ Move(e, here, IF step[e] = Rules THEN "exited" ELSE here)
          /\ rules' = [rules EXCEPT ![e] = @ \ {step[e]}]
          /\ step' = [step EXCEPT ![e] = IF @ = Rules THEN 1 ELSE @ + 1]
       \/ /\ CloseTun(e, here, IF step[e] \in rules[e] THEN "refused" ELSE "failed")
          /\ UNCHANGED step
    /\ UNCHANGED bufVars

\* SIGHUP, SIGINT or SIGTERM: before the handler is installed the process
\* dies; then the handler cleans up, even if main is doing so.
Signal(e) ==
    /\ \/ \E from \in {"start", "setup", "handler"} : CloseTun(e, from, "killed")
       \/ /\ \E from \in Loop \cup {"bind", "cleanup"} : Move(e, from, "signal")
          /\ UNCHANGED rules
    /\ step' = [step EXCEPT ![e] = 1] /\ UNCHANGED bufVars

-----------------------------------------------------------------------------
(* The loop. *)

\* select() reports what is readable; a datagram with a bad checksum is
\* reported too, and then is not there.
Select(e) ==
    /\ \/ /\ read[e] < Packets
          /\ \E next \in {"tun"} \cup (IF socket[e] # {} THEN {"tun+udp"} ELSE {}) :
                 Move(e, "select", next)
       \/ Move(e, "select", "udp")
    /\ UNCHANGED <<step, rules, bufVars>>

Packet(p, k) == <<p, k>>

\* The datagram is lost, or it comes to the socket of its destination.
Arrives(e, d) ==
    \/ UNCHANGED socket
    \/ /\ client_addr[e] \in Ends /\ HasSocket(client_addr[e])
       /\ socket' = [socket EXCEPT ![client_addr[e]] = @ \cup {<<e, d>>}]

ReadTun_NoEncrypt(e) ==     \* defect: what was in udp_buf is sent
    /\ \/ Move(e, "tun", "select")
       \/ Move(e, "tun+udp", "udp")
    /\ read' = [read EXCEPT ![e] = @ + 1]
    /\ tun_buf' = [tun_buf EXCEPT ![e] = Packet(e, read[e] + 1)]
    /\ Arrives(e, udp_buf[e])
    /\ UNCHANGED <<step, rules, client_addr, udp_buf, written>>

ReadTun(e) ==     \* read, encrypt, sendto
    /\ \/ Move(e, "tun", "select")
       \/ Move(e, "tun+udp", "udp")
    /\ read' = [read EXCEPT ![e] = @ + 1]
    /\ tun_buf' = [tun_buf EXCEPT ![e] = Packet(e, read[e] + 1)]
    /\ udp_buf' = [udp_buf EXCEPT ![e] = Packet(e, read[e] + 1)]
    /\ Arrives(e, Packet(e, read[e] + 1))
    /\ UNCHANGED <<step, rules, client_addr, written>>

\* recvfrom, decrypt, write; whoever sent the datagram is answered next.
ReadUdp(e) ==
    /\ Move(e, "udp", "select")
    /\ \E d \in socket[e] :
          /\ socket' = [socket EXCEPT ![e] = @ \ {d}]
          /\ client_addr' = [client_addr EXCEPT ![e] = d[1]]
          /\ udp_buf' = [udp_buf EXCEPT ![e] = d[2]] /\ tun_buf' = [tun_buf EXCEPT ![e] = d[2]]
          /\ written' = [written EXCEPT ![e] = @ \cup {d[2]}]
    /\ UNCHANGED <<step, rules, read>>

\* read, sendto, recvfrom and write may fail: the loop is left, and tun_fd
\* is closed before the cleanup.
LoopError(e) ==
    /\ \E from \in Loop : CloseTun(e, from, "cleanup")
    /\ UNCHANGED <<step, bufVars>>

\* A datagram of a third party.  The client's socket has a port, which it is
\* not bound to, from the first sendto on.
Stranger(e) ==
    /\ HasSocket(e) /\ (e = "client" => read[e] > 0) /\ read["stranger"] < Packets
    /\ read' = [read EXCEPT !["stranger"] = @ + 1]
    /\ socket' = [socket EXCEPT
           ![e] = @ \cup {<<"stranger", Packet("stranger", read["stranger"] + 1)>>}]
    /\ UNCHANGED <<vpc, step, rules, client_addr, tun_buf, udp_buf, written>>

-----------------------------------------------------------------------------
Main(e) ==
    \/ Start(e) \/ SetupRoute(e) \/ InstallHandler(e) \/ UdpBind(e)
    \/ CleanupRoute(e, "cleanup") \/ CleanupRoute(e, "signal")
    \/ Select(e) \/ ReadTun(e) \/ ReadUdp(e) \/ LoopError(e)

Next == \E e \in Ends : Main(e) \/ Signal(e) \/ Stranger(e)

Fairness == \A e \in Ends : WF_vpnVars(Main(e))

Spec == Init /\ [][Next]_vpnVars /\ Fairness

-----------------------------------------------------------------------------
(* Properties. *)

\* An end that exits with status 0 has taken its rules away.
NoRuleLeft == \A e \in Ends : vpc[e] = "exited" => rules[e] = {}

\* And a handler that starts with all the rules there, as the first signal in
\* the loop finds them, never comes to a rule that is missing, whatever comes
\* next: it ends with all of them deleted, or at a command that fails
\* although its rule is there (vpn.c lines 236-237).
StopsClean ==
    /\ []NoRuleLeft
    /\ \A e \in Ends : (vpc[e] = "signal" /\ rules[e] = All) ~> (vpc[e] \in {"exited", "refused"})

\* The host of the client gets what came from outside: packets of the
\* server's host, or of a third party; neither its own, nor what a buffer
\* that both directions use still holds.
OnlyFromOutside ==
    \A d \in written["client"] :
        \E p \in {"server", "stranger"} : \E k \in 1 .. read[p] : d = Packet(p, k)

\* vpn.c line 237: "Ensures the route table gets cleaned before this process
\* exits".
CleanedBeforeExit ==
    \A e \in Ends : vpc[e] \in {"exited", "failed", "refused", "killed"} => rules[e] = {}
=============================================================================
