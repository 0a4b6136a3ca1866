-------------------------- MODULE MCSessionPipeline --------------------------
(* Instances of SessionPipeline for TLC: the cfg files choose the cameras.   *)
EXTENDS SessionPipeline, TLC

=============================================================================
