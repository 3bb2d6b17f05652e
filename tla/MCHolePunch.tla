---------------------------- MODULE MCHolePunch ----------------------------
(* Instances of HolePunch for TLC.                                         *)
EXTENDS HolePunch, TLC

Interchangeable == Permutations(Peers) \cup Permutations(Paths)
=============================================================================
