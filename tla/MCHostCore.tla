----------------------------- MODULE MCHostCore -----------------------------
(* HostCore with small sets for TLC. *)
EXTENDS HostCore

CONSTANTS c1, p, q

MCClient == {c1}
MCId == {p, q}
=============================================================================
