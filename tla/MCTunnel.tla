------------------------------ MODULE MCTunnel ------------------------------
(* Instances of Tunnel for TLC, given by Tunnel.cfg, HostStuck.cfg and     *)
(* LateClient.cfg.  Clients are interchangeable, but all check liveness,   *)
(* for which TLC must see every state: no symmetry.                        *)
EXTENDS Tunnel, TLC
=============================================================================
