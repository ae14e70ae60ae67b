-------------------------- MODULE MCDaemonLifecycle --------------------------
(***************************************************************************)
(* Instances of DaemonLifecycle for TLC.                                   *)
(***************************************************************************)
EXTENDS DaemonLifecycleProperties

CONSTANTS h1, h2

MCConfigPath == [b \in Build |-> 1]

(* Builds only differ by being different: the first hook has the first.    *)
MCInit == Init /\ hook[h1].build = 1
MCSpec == MCInit /\ [][Next]_vars /\ Fairness
==============================================================================
