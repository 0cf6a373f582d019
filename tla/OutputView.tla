----------------------------- MODULE OutputView -----------------------------
(***************************************************************************)
(* What a terminal session promises to whoever looks at it: a view shows a *)
(* growing prefix of the session's output, and falls behind only for a     *)
(* while.                                                                  *)
(***************************************************************************)
EXTENDS Naturals

CONSTANT Reader

VARIABLES
  made,    \* bytes the session has put out
  shown    \* reader -> bytes of them that its view reflects

outputVars == <<made, shown>>

Init == made = 0 /\ shown = [r \in Reader |-> 0]

(* A read from the terminal, or a term.feed, adds output. *)
Make == made' = made + 1 /\ UNCHANGED shown

(* A view moves on, by a chunk of output or at once with a snapshot. *)
Show(r) ==
  /\ shown[r] < made
  /\ \E n \in (shown[r] + 1)..made : shown' = [shown EXCEPT ![r] = n]
  /\ UNCHANGED made

Next == Make \/ \E r \in Reader : Show(r)

Spec == Init /\ [][Next]_outputVars /\ \A r \in Reader : WF_outputVars(Show(r))
=============================================================================
