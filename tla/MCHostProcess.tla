---------------------------- MODULE MCHostProcess ----------------------------
(* HostProcess with small sets for TLC. *)
EXTENDS HostProcess
CONSTANTS c1, c2
MCClients == {c1, c2}
=============================================================================
