---------------------------- MODULE EchoServerMC ----------------------------
(***************************************************************************)
(* EchoServer for TLC: two clients, so that connections overlap, and one   *)
(* place in the queue of connections.                                      *)
(***************************************************************************)
EXTENDS EchoServer
=============================================================================
