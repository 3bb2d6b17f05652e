---------------------------- MODULE MCRendezvous ----------------------------
(* Instances of Rendezvous for TLC.                                        *)
EXTENDS Rendezvous, TLC

CONSTANTS h1, h2, c1, c2, k1

SingleCode == [c \in Conns |-> k1]

\* Connections of one role are interchangeable when there is a single code.
Alike == Permutations(Hosts) \cup Permutations(Clients)

\* Peers coming and going with no operator and no clock: what is left when the
\* question is how sessions pair.
PeersOnly == Init /\ [][\E c \in Conns : Handler(c) \/ Peer(c)]_vars

\* A server nobody administers.
Unattended ==
  Init /\ [][(\E c \in Conns : Handler(c) \/ Peer(c)) \/ Sweep \/ ClockTick]_vars
=============================================================================
