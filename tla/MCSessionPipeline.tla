-------------------------- MODULE MCSessionPipeline --------------------------
(***************************************************************************)
(* Instances of the persistence pipeline for TLC.  The checkpoint interval *)
(* is smaller than the retained tail and larger than half of it, as in the *)
(* code (25 and 32).                                                       *)
(***************************************************************************)
EXTENDS SessionPipelineInvariant
==============================================================================
