---------------------------- MODULE MCSessionNews ----------------------------
(* SessionNews with small sets for TLC.  Subscribers share nothing but the host,
   so that each behaviour follows one of them: a terminal or the app's
   listener. *)
EXTENDS SessionNews
CONSTANTS view, tabs, agent
MCLink == {view}
MCListener == {tabs}
MCProgram == {agent}
MCInit ==
  /\ session = [i \in Inc |-> Unborn] /\ listed = None /\ closing = None
  /\ \E c \in Consumer :
       consumer = [d \in Consumer |-> IF d = c THEN NewConsumer ELSE Over(NewConsumer)]
  /\ behind = FALSE /\ changes = 0 /\ drops = 0
MCSpec == MCInit /\ [][Next]_vars /\ Fairness
=============================================================================
