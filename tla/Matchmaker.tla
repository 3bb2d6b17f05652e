----------------------------- MODULE Matchmaker -----------------------------
(***************************************************************************)
(* What the rendezvous server promises its peers, said without sessions,   *)
(* handlers or routes: a connection is matched at most once, with a        *)
(* connection of the other role and the same code; it is introduced to its *)
(* partner and to nobody else, and told to go after that; and the server   *)
(* carries datagrams between partners over a link that opens when they are *)
(* matched, may be cut at any time, and never opens again.                 *)
(***************************************************************************)
CONSTANTS Conns, Hosts, Clients, CodeOf

VARIABLES
  partner,    \* partner[c]: {} until c is matched, then the one it was matched with
  heard,      \* heard[c]: whom c has been introduced to
  went,       \* the connections told to go
  lost,       \* the connections that can no longer be told anything
  linked,     \* the connections whose datagrams the server would carry
  delivered   \* delivered[c]: the connections whose datagrams were carried to c

vars == <<partner, heard, went, lost, linked, delivered>>

Init ==
  /\ partner = [c \in Conns |-> {}]
  /\ heard = [c \in Conns |-> {}]
  /\ went = {} /\ lost = {} /\ linked = {}
  /\ delivered = [c \in Conns |-> {}]

Match(h, c) ==
  /\ CodeOf[h] = CodeOf[c]
  /\ partner[h] = {} /\ partner[c] = {}
  /\ partner' = [partner EXCEPT ![h] = {c}, ![c] = {h}]
  /\ linked' = linked \cup {h, c}
  /\ UNCHANGED <<heard, went, lost, delivered>>

Introduce(c) ==
  /\ c \notin lost
  /\ partner[c] # {}
  /\ heard' = [heard EXCEPT ![c] = partner[c]]
  /\ UNCHANGED <<partner, went, lost, linked, delivered>>

\* A connection sets off only once it and its partner know of each other, or
\* its partner is past being told.
SetOff(c) ==
  /\ c \notin lost
  /\ heard[c] # {}
  /\ \A d \in heard[c] : d \in lost \/ heard[d] = {c}
  /\ went' = went \cup {c}
  /\ UNCHANGED <<partner, heard, lost, linked, delivered>>

Lose(c) ==
  /\ lost' = lost \cup {c}
  /\ UNCHANGED <<partner, heard, went, linked, delivered>>

Cut ==
  /\ linked' \subseteq linked
  /\ UNCHANGED <<partner, heard, went, lost, delivered>>

Carry(c) ==
  /\ c \in went /\ c \in linked
  /\ delivered' = [d \in Conns |-> IF d \in heard[c] THEN delivered[d] \cup {c}
                                                     ELSE delivered[d]]
  /\ UNCHANGED <<partner, heard, went, lost, linked>>

Next ==
  \/ \E h \in Hosts, c \in Clients : Match(h, c)
  \/ \E c \in Conns : Introduce(c) \/ SetOff(c) \/ Lose(c) \/ Carry(c)
  \/ Cut

Spec == Init /\ [][Next]_vars

=============================================================================
