------------------------------- MODULE MCSocket -------------------------------
(* Constants of the TLC runs of SocketServer.                               *)
EXTENDS SocketServer, TLC

Perms == Permutations(Worker)
=============================================================================
