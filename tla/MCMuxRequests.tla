---------------------------- MODULE MCMuxRequests ----------------------------
(* MuxRequests with small sets for TLC: an attach, and one other call that may
   be of every kind.  Streams and subscriptions do not share state, so that a
   third call meets nothing a second one does not. *)
EXTENDS MuxRequests
CONSTANTS view, other
MCCall == {view, other}
MCMay == [c \in MCCall |-> IF c = view THEN {"attach"} ELSE Kind \ {"attach"}]
=============================================================================
