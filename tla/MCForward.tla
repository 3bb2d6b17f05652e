----------------------------- MODULE MCForward -----------------------------
(* Instances of Forward for TLC, given by Forward.cfg and ForwardFlow.cfg. *)
EXTENDS Forward, TLC
=============================================================================
