----------------------------- MODULE MCLocalView -----------------------------
(* LocalView with small sets for TLC. *)
EXTENDS LocalView
CONSTANT r1
MCOneReader == {r1}
=============================================================================
