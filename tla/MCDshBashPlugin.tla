--------------------------- MODULE MCDshBashPlugin ---------------------------
(***************************************************************************)
(* Instances of DshBashPlugin for TLC.                                     *)
(***************************************************************************)
EXTENDS DshBashPlugin

CONSTANTS c1, c2
==============================================================================
