---------------------------- MODULE MCSelfUpdate ----------------------------
(* Instances of SelfUpdate for TLC, given by SelfUpdate.cfg,               *)
(* UpdateFails.cfg and UpdateGap.cfg.  Updates are interchangeable.        *)
EXTENDS SelfUpdate, TLC

Symmetry == Permutations(Updates)
=============================================================================
