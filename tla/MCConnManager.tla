--------------------------- MODULE MCConnManager ---------------------------
(* Instances of ConnManager for TLC, given by ConnManager.cfg.  Links and  *)
(* callers are interchangeable, but the run checks liveness, for which     *)
(* TLC must see every state: no symmetry.                                  *)
EXTENDS ConnManager, TLC
=============================================================================
