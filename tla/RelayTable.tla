----------------------------- MODULE RelayTable -----------------------------
(***************************************************************************)
(* The relay routing table of the rendezvous server (Server.relays in      *)
(* internal/signal/server.go): one route per relay token, written by the   *)
(* UDP loop (serveUDP), by pairing (pairLocked), by the background sweep   *)
(* (gcRelay) and by the admin API.  Every one of these runs under s.mu, so *)
(* each is one step.                                                       *)
(*                                                                         *)
(* A connection is issued exactly one token (randToken), so a token is     *)
(* named by the connection it was issued to.  A route's address is         *)
(* abstracted to whether the server knows it, and its "seen" stamp to the  *)
(* whole minutes since then.                                               *)
(***************************************************************************)
EXTENDS Naturals

CONSTANTS
  Conns,      \* the connections, and so the relay tokens, of a run
  None,       \* the empty peer token of a route nobody has paired yet
  RelayTTL,   \* relayTTL, in ticks of the clock
  PruneAges,  \* the idle windows the prune endpoint accepts, in ticks
  MaxIdle     \* bound: idle times are counted up to here and no further

ASSUME ConnsAssumption == None \notin Conns

ASSUME IdleAssumption ==
  RelayTTL \in Nat /\ MaxIdle \in Nat /\ PruneAges \subseteq Nat

VARIABLES
  relays,    \* the routes, by token: a function whose domain is the live tokens
  delivered  \* delivered[c]: the tokens whose relayed datagrams went out to c

tableVars == <<relays, delivered>>

Route == [peer : Conns \cup {None}, known : BOOLEAN, idle : 0..MaxIdle]

TableTypeOK ==
  /\ DOMAIN relays \subseteq Conns
  /\ \A t \in DOMAIN relays : relays[t] \in Route
  /\ delivered \in [Conns -> SUBSET Conns]

TableInit ==
  /\ relays = [t \in {} |-> None]
  /\ delivered = [c \in Conns |-> {}]

-----------------------------------------------------------------------------
(* What the handlers do to the table while they hold the mutex.            *)

PeerOf(t) == IF t \in DOMAIN relays THEN relays[t].peer ELSE None

\* The address datagrams for token p are sent to is known.
Reachable(p) == p \in DOMAIN relays /\ relays[p].known

Put(t, route) ==
  [u \in DOMAIN relays \cup {t} |-> IF u = t THEN route ELSE relays[u]]

Without(T) == [u \in DOMAIN relays \ T |-> relays[u]]

\* A datagram carrying token t refreshes its route, creating it if need be.
NoteSender(t) == Put(t, [peer |-> PeerOf(t), known |-> TRUE, idle |-> 0])

\* Faulty variant: the stamp of a new route is left at the zero time.
PairedUnstamped(t, p) ==
  IF t \in DOMAIN relays THEN [relays[t] EXCEPT !.peer = p]
                         ELSE [peer |-> p, known |-> FALSE, idle |-> MaxIdle + 1]

\* pairLocked: point token t at peer p, keeping what the route already knows.
Paired(t, p) ==
  IF t \in DOMAIN relays THEN [relays[t] EXCEPT !.peer = p]
                         ELSE [peer |-> p, known |-> FALSE, idle |-> 0]

\* Faulty variant: the host's own token passed twice.
WireToSelf(host, client) ==
  [u \in DOMAIN relays \cup {host, client} |->
     CASE u = host   -> Paired(host, host)
       [] u = client -> Paired(client, host)
       [] OTHER      -> relays[u]]

\* The two pairLocked calls of tryPair.
Wire(host, client) ==
  [u \in DOMAIN relays \cup {host, client} |->
     CASE u = host   -> Paired(host, client)
       [] u = client -> Paired(client, host)
       [] OTHER      -> relays[u]]

IdleBeyond(age) == {t \in DOMAIN relays : relays[t].idle > age}

-----------------------------------------------------------------------------
(* The UDP loop.                                                           *)

\* An empty payload: the sender is remembered and told its own address.
Reflect(t) == relays' = NoteSender(t) /\ UNCHANGED delivered

\* A payload: forwarded to the paired token, or dropped when there is none or
\* the server does not know where it is.
Relay(t) ==
  LET to == {p \in {PeerOf(t)} : Reachable(p)}
  IN  /\ relays' = NoteSender(t)
      /\ delivered' =
           [c \in Conns |-> IF c \in to THEN delivered[c] \cup {t} ELSE delivered[c]]

-----------------------------------------------------------------------------
(* The clock, the sweep and the admin API.                                 *)

Tick ==
  /\ relays' = [t \in DOMAIN relays |->
                  [relays[t] EXCEPT !.idle = IF @ < MaxIdle THEN @ + 1 ELSE @]]
  /\ UNCHANGED delivered

GcRelay ==
  /\ relays' = Without(IdleBeyond(RelayTTL))
  /\ UNCHANGED delivered

PruneRelays(age) ==
  /\ relays' = Without(IdleBeyond(age))
  /\ UNCHANGED delivered

DeleteRelay(t) ==
  /\ t \in DOMAIN relays
  /\ relays' = Without({t, relays[t].peer})
  /\ UNCHANGED delivered

=============================================================================
