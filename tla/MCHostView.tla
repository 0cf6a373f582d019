----------------------------- MODULE MCHostView -----------------------------
(* HostView with small sets for TLC. *)
EXTENDS HostView, TLC
CONSTANTS r1, r2
MCOneReader == {r1}
MCTwoReaders == {r1, r2}
(* Readers differ in nothing but their names. *)
Symmetry == Permutations(Reader)
=============================================================================
