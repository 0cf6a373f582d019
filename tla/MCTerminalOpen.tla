--------------------------- MODULE MCTerminalOpen ---------------------------
(* TerminalOpen with small sets for TLC. *)
EXTENDS TerminalOpen, TLC
CONSTANTS p1, p2
MCPanes == {p1, p2}
MCPane == {p1}
=============================================================================
