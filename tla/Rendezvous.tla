----------------------------- MODULE Rendezvous -----------------------------
(***************************************************************************)
(* The rendezvous server (internal/signal/server.go, api.go): WebSocket    *)
(* handlers that register peers into a session by code, pair a host with a *)
(* client once both are ready and tell both to go; the relay table they    *)
(* wire (RelayTable); and the admin operations that cut across them.       *)
(*                                                                         *)
(* There is one process per WebSocket connection: the goroutine running    *)
(* handleWS.  Its program counter is stage[c].  Whatever a handler does    *)
(* under s.mu is one step; each write to a WebSocket, which happens after  *)
(* the mutex is released, is a step of its own.                            *)
(*                                                                         *)
(* A session object is named by the connection that created it, so a code  *)
(* whose entry was deleted and created again names a different object.     *)
(***************************************************************************)
EXTENDS RelayTable, FiniteSets

CONSTANTS
  Hosts,    \* the connections whose hello announces the role "host"
  Clients,  \* the connections whose hello announces the role "client"
  Codes,    \* session codes
  CodeOf    \* the code each connection's hello carries

ASSUME RolesAssumption ==
  /\ Conns = Hosts \cup Clients
  /\ Hosts \cap Clients = {}
  /\ CodeOf \in [Conns -> Codes]

VARIABLES
  stage,     \* where each connection's handler is
  open,      \* the connections whose WebSocket is still up
  public,    \* the connections that have learned their public address
  ready,     \* the connections whose ready channel has been closed
  sessOf,    \* the session object a handler registered into (its local sess)
  sessions,  \* Server.sessions, by code
  members,   \* session.peers of each session object
  pairOf,    \* whom each session object paired; {} while session.paired is false
  told,      \* the messages written to each connection
  heardOf,   \* the peer named in the Paired message written to each connection
  closing    \* connections an admin delete has collected and not closed yet

sessVars == <<sessOf, sessions, members, pairOf>>
wireVars == <<told, heardOf>>
vars == <<stage, open, public, ready, sessVars, wireVars, closing, tableVars>>

\* The handler has yet to write Reflected; is in its read loop; is between
\* close(pc.ready) and tryPair's Lock; has four messages left to write; has
\* failed a read and not run its deferred cleanup; has returned.
Telling == {"tellHost", "tellClient", "goHost", "goClient"}
Live == {"registered", "reading", "pairing", "leaving"} \cup Telling
Stages == {"new", "done"} \cup Live

\* Error messages are left out: whoever is sent one is closed right after.
Messages == {"reflected", "paired", "go"}

SameRole(c, d) == c \in Hosts <=> d \in Hosts
HostIn(S) == S \cap Hosts
ClientIn(S) == S \cap Clients

TypeOK ==
  /\ TableTypeOK
  /\ stage \in [Conns -> Stages]
  /\ open \subseteq Conns /\ public \subseteq Conns /\ ready \subseteq Conns
  /\ closing \subseteq Conns
  /\ sessOf \in [Conns -> Conns]
  /\ DOMAIN sessions \subseteq Codes
  /\ \A k \in DOMAIN sessions : sessions[k] \in Conns
  /\ members \in [Conns -> SUBSET Conns]
  /\ pairOf \in [Conns -> SUBSET Conns]
  /\ told \in [Conns -> SUBSET Messages]
  /\ heardOf \in [Conns -> SUBSET Conns]

Init ==
  /\ TableInit
  /\ stage = [c \in Conns |-> "new"]
  /\ open = {} /\ public = {} /\ ready = {} /\ closing = {}
  /\ sessOf = [c \in Conns |-> c]     \* read only once c has registered
  /\ sessions = [k \in {} |-> None]
  /\ members = [c \in Conns |-> {}]
  /\ pairOf = [c \in Conns |-> {}]
  /\ told = [c \in Conns |-> {}]
  /\ heardOf = [c \in Conns |-> {}]

-----------------------------------------------------------------------------
(* Helpers shared by the handlers.                                         *)

Goto(c, where) == stage' = [stage EXCEPT ![c] = where]

\* peerConn.send: a write reaches a connection that is still up, and an error
\* from one that is not is ignored.
Send(to, msg) ==
  told' = [c \in Conns |-> IF c \in to \cap open THEN told[c] \cup {msg} ELSE told[c]]

\* Faulty variant: the entry is left behind.
WithoutCodeForgotten(k) == [j \in DOMAIN sessions |-> sessions[j]]

WithoutCode(k) == [j \in DOMAIN sessions \ {k} |-> sessions[j]]

\* The session object the code leads to, or the new one c's handler creates.
Lookup(c) == IF CodeOf[c] \in DOMAIN sessions THEN sessions[CodeOf[c]] ELSE c

\* Faulty variant: the role is only guarded once the session has paired.
RoleTakenOncePaired(c) ==
  pairOf[Lookup(c)] # {} /\ \E d \in members[Lookup(c)] : SameRole(c, d)

RoleTaken(c) == \E d \in members[Lookup(c)] : SameRole(c, d)

-----------------------------------------------------------------------------
(* handleWS: the handshake.                                                *)

\* The first message is not a usable hello: an error, and the handler returns.
RefuseHello(c) ==
  /\ stage[c] = "new"
  /\ Goto(c, "done")
  /\ UNCHANGED <<open, public, ready, sessVars, wireVars, closing, tableVars>>

\* The role is already connected for this code.
RefuseRole(c) ==
  /\ stage[c] = "new"
  /\ RoleTaken(c)
  /\ Goto(c, "done")
  /\ UNCHANGED <<open, public, ready, sessVars, wireVars, closing, tableVars>>

Register(c) ==
  /\ stage[c] = "new"
  /\ ~RoleTaken(c)
  /\ Goto(c, "registered")
  /\ open' = open \cup {c}
  /\ sessOf' = [sessOf EXCEPT ![c] = Lookup(c)]
  /\ sessions' = [k \in DOMAIN sessions \cup {CodeOf[c]} |->
                    IF k = CodeOf[c] THEN Lookup(c) ELSE sessions[k]]
  /\ members' = [members EXCEPT ![Lookup(c)] = @ \cup {c}]
  /\ UNCHANGED <<public, ready, pairOf, wireVars, closing, tableVars>>

\* The token and the UDP address go out after the mutex is released.
SendReflected(c) ==
  /\ stage[c] = "registered"
  /\ Goto(c, "reading")
  /\ Send({c}, "reflected")
  /\ UNCHANGED <<open, public, ready, sessVars, heardOf, closing, tableVars>>

-----------------------------------------------------------------------------
(* handleWS: the read loop, tryPair and the deferred cleanup.              *)

\* Faulty variant: pairing is attempted for a client's ready only.
ReadReadyOfClients(c) ==
  /\ stage[c] = "reading"
  /\ c \in public \ ready
  /\ ready' = ready \cup {c}
  /\ Goto(c, IF c \in Clients THEN "pairing" ELSE "reading")
  /\ UNCHANGED <<open, public, sessVars, wireVars, closing, tableVars>>

\* The peer's ready message, sent once it knows its public address, may still
\* be read after the peer has gone.
ReadReady(c) ==
  /\ stage[c] = "reading"
  /\ c \in public \ ready
  /\ ready' = ready \cup {c}
  /\ Goto(c, "pairing")
  /\ UNCHANGED <<open, public, sessVars, wireVars, closing, tableVars>>

\* Faulty variant: a session may pair again.
CanPairAgain(s) ==
  /\ HostIn(members[s]) # {} /\ ClientIn(members[s]) # {}
  /\ members[s] \subseteq ready

\* Both roles are present and ready, and the session has not paired before.
CanPair(s) ==
  /\ HostIn(members[s]) # {} /\ ClientIn(members[s]) # {}
  /\ pairOf[s] = {}
  /\ members[s] \subseteq ready

TryPair(c) ==
  /\ stage[c] = "pairing"
  /\ CanPair(sessOf[c])
  /\ pairOf' = [pairOf EXCEPT ![sessOf[c]] = members[sessOf[c]]]
  /\ \E host \in HostIn(members[sessOf[c]]), client \in ClientIn(members[sessOf[c]]) :
       relays' = Wire(host, client)
  /\ Goto(c, "tellHost")
  /\ UNCHANGED <<open, public, ready, sessOf, sessions, members, wireVars,
                 closing, delivered>>

TryPairReturns(c) ==
  /\ stage[c] = "pairing"
  /\ ~CanPair(sessOf[c])
  /\ Goto(c, "reading")
  /\ UNCHANGED <<open, public, ready, sessVars, wireVars, closing, tableVars>>

\* One of the two Paired messages: the other peer's addresses and fingerprint.
TellPaired(c, from, to, other, next) ==
  /\ stage[c] = from
  /\ Send(to, "paired")
  /\ heardOf' = [d \in Conns |-> IF d \in to \cap open THEN heardOf[d] \cup other
                                                        ELSE heardOf[d]]
  /\ Goto(c, next)
  /\ UNCHANGED <<open, public, ready, sessVars, closing, tableVars>>

TellGo(c, from, to, next) ==
  /\ stage[c] = from
  /\ Send(to, "go")
  /\ Goto(c, next)
  /\ UNCHANGED <<open, public, ready, sessVars, heardOf, closing, tableVars>>

\* The host and client tryPair read under the mutex, kept in its locals.
PairHost(c) == HostIn(pairOf[sessOf[c]])
PairClient(c) == ClientIn(pairOf[sessOf[c]])

\* Faulty variant: the client's Paired message is skipped.
TellHostOnly(c) == TellPaired(c, "tellHost", PairHost(c), PairClient(c), "goHost")

TellHost(c)   == TellPaired(c, "tellHost", PairHost(c), PairClient(c), "tellClient")
TellClient(c) == TellPaired(c, "tellClient", PairClient(c), PairHost(c), "goHost")
GoHost(c)     == TellGo(c, "goHost", PairHost(c), "goClient")
GoClient(c)   == TellGo(c, "goClient", PairClient(c), "reading")

\* Faulty variant: the handler returns without its deferred cleanup.
ReadErrorReturns(c) ==
  /\ stage[c] = "reading"
  /\ c \notin open
  /\ Goto(c, "done")
  /\ UNCHANGED <<open, public, ready, sessVars, wireVars, closing, tableVars>>

\* The read loop's error: the WebSocket is down.
ReadError(c) ==
  /\ stage[c] = "reading"
  /\ c \notin open
  /\ Goto(c, "leaving")
  /\ UNCHANGED <<open, public, ready, sessVars, wireVars, closing, tableVars>>

\* The deferred function.  The session entry is deleted by code, whichever
\* session object that code leads to by now; relay routes are left alone.
Cleanup(c) ==
  LET s == sessOf[c]
  IN  /\ stage[c] = "leaving"
      /\ members' = [members EXCEPT ![s] = @ \ {c}]
      /\ sessions' = IF c \in members[s] /\ members[s] \ {c} = {}
                     THEN WithoutCode(CodeOf[c]) ELSE sessions
      /\ Goto(c, "done")
      /\ UNCHANGED <<open, public, ready, sessOf, pairOf, wireVars, closing, tableVars>>

-----------------------------------------------------------------------------
(* The peers: what signal.Dial and the sockets it returns do to the server. *)

\* The WebSocket goes away: the peer closed it, died, or was cut off.
Drop(c) ==
  /\ c \in open
  /\ open' = open \ {c}
  /\ UNCHANGED <<stage, public, ready, sessVars, wireVars, closing, tableVars>>

\* A reflection probe, repeated until an answer - which may be lost - arrives.
\* A peer whose WebSocket is down by then never gets to say it is ready.
ReflectProbe(c) ==
  /\ "reflected" \in told[c]
  /\ c \notin public
  /\ Reflect(c)
  /\ public' \in {public, public \cup ({c} \cap open)}
  /\ UNCHANGED <<stage, open, ready, sessVars, wireVars, closing>>

\* A datagram sent through the server by a peer that was told to go.
RelayDatagram(c) ==
  /\ "go" \in told[c]
  /\ Relay(c)
  /\ UNCHANGED <<stage, open, public, ready, sessVars, wireVars, closing>>

-----------------------------------------------------------------------------
(* The admin API and the background sweep.                                 *)

\* handleDeleteSession up to Unlock.
DeleteSession(k) ==
  /\ k \in DOMAIN sessions
  /\ closing' = closing \cup members[sessions[k]]
  /\ relays' = Without(members[sessions[k]])
  /\ sessions' = WithoutCode(k)
  /\ UNCHANGED <<stage, open, public, ready, sessOf, members, pairOf, wireVars, delivered>>

\* Its loop over the collected peers, outside the mutex.
CloseConn(c) ==
  /\ c \in closing
  /\ open' = open \ {c}
  /\ closing' = closing \ {c}
  /\ UNCHANGED <<stage, public, ready, sessVars, wireVars, tableVars>>

Unsignaled == UNCHANGED <<stage, open, public, ready, sessVars, wireVars, closing>>

AdminDeleteRelay(c) == DeleteRelay(c) /\ Unsignaled
AdminPrune == (\E age \in PruneAges : PruneRelays(age)) /\ Unsignaled
Sweep == GcRelay /\ Unsignaled
ClockTick == Tick /\ Unsignaled

-----------------------------------------------------------------------------
Handler(c) ==
  \/ SendReflected(c) \/ ReadReady(c) \/ TryPair(c) \/ TryPairReturns(c)
  \/ TellHost(c) \/ TellClient(c) \/ GoHost(c) \/ GoClient(c)
  \/ ReadError(c) \/ Cleanup(c)

Peer(c) ==
  \/ RefuseHello(c) \/ RefuseRole(c) \/ Register(c)
  \/ Drop(c) \/ ReflectProbe(c) \/ RelayDatagram(c)

Admin ==
  \/ \E k \in Codes : DeleteSession(k)
  \/ \E c \in Conns : CloseConn(c) \/ AdminDeleteRelay(c)
  \/ AdminPrune

Next ==
  \/ \E c \in Conns : Handler(c) \/ Peer(c)
  \/ Admin \/ Sweep \/ ClockTick

Spec == Init /\ [][Next]_vars

-----------------------------------------------------------------------------
(* Properties.                                                             *)

\* handleWS's deferred cleanup is the only thing that gives a role back: a
\* connection holds its role in exactly one session object, the one its handler
\* registered into, from registration until its cleanup has run - also while an
\* admin delete has taken that session out of the map.
SlotIffLive ==
  \A c, s \in Conns : c \in members[s] <=> (stage[c] \in Live /\ sessOf[c] = s)

\* No two connected peers of a session have the same role or different codes,
\* however registrations, cleanups and admin deletes interleave.
OneOfEachRole ==
  \A s \in Conns : \A c, d \in members[s] :
    CodeOf[c] = CodeOf[d] /\ (SameRole(c, d) => c = d)

\* A session that a code leads to has a peer of that code in it: no entry of the
\* sessions map outlives its last peer, and none is filed under another code.
NoEmptySession ==
  \A k \in DOMAIN sessions :
    /\ members[sessions[k]] # {}
    /\ \A c \in members[sessions[k]] : CodeOf[c] = k

\* The server's bookkeeping of who is where is right, at every moment between two
\* handlers' locked sections.
SessionsAreWhole == SlotIffLive /\ OneOfEachRole /\ NoEmptySession

Partners(c, d) ==
  /\ c # d /\ pairOf[sessOf[c]] = {c, d} /\ sessOf[c] = sessOf[d]
  /\ ~SameRole(c, d) /\ CodeOf[c] = CodeOf[d]

\* tryPair introduces peers to each other and to nobody else: a peer named in a
\* Paired message has the other role and the same code, has said it is ready,
\* and is itself never introduced to a third connection.
IntroducedToEachOther ==
  \A c \in Conns : \A d \in heardOf[c] :
    /\ Partners(c, d) /\ heardOf[c] = {d} /\ heardOf[d] \subseteq {c}
    /\ {c, d} \subseteq ready

\* A peer that is told to go has been introduced, and its partner has been
\* introduced too unless its WebSocket was gone; the client is told last.
GoMeansIntroduced ==
  \A c \in Conns : "go" \in told[c] =>
    /\ heardOf[c] # {}
    /\ \A d \in heardOf[c] :
         /\ d \in open => c \in heardOf[d]
         /\ (c \in Clients /\ d \in open) => "go" \in told[d]

\* The relay table only ever links the two peers of one pairing, and a relayed
\* datagram only ever reaches the peer its sender was introduced to - whatever
\* the sweep, prunes, deletes and late datagrams did to the table meanwhile.
RelayWithinPair ==
  /\ \A t \in DOMAIN relays : relays[t].peer # None => Partners(t, relays[t].peer)
  /\ \A c \in Conns : \A d \in delivered[c] : heardOf[d] = {c}

\* "Deleting the relay routes does cut a pair that never got a direct path":
\* once a paired token has lost its link, by an admin operation or the sweep,
\* no later datagram, registration or pairing restores it.
CutStaysCut ==
  [][\A c \in Conns :
       (c \in pairOf[sessOf[c]] /\ PeerOf(c) = None) => (PeerOf(c) = None)']_vars

PartnerOf == [c \in Conns |-> IF c \in pairOf[sessOf[c]] THEN pairOf[sessOf[c]] \ {c} ELSE {}]
Went == {c \in Conns : "go" \in told[c]}
Lost == {c \in Conns : stage[c] # "new" /\ c \notin open}
Linked == {c \in Conns : PeerOf(c) # None}

Promise == INSTANCE Matchmaker WITH
  partner <- PartnerOf, heard <- heardOf, went <- Went, lost <- Lost, linked <- Linked

\* The server implements the Matchmaker, whatever its handlers' interleaving:
\* what its sessions, handlers and routes do amounts to matching each
\* connection at most once and carrying datagrams over links that only close.
Matchmaking == Promise!Spec

-----------------------------------------------------------------------------
(* The inductive invariant: the properties above and what keeps them true. *)

\* A connection that has not registered has left no trace, and names no session
\* object that anybody else uses.
NewIsFresh ==
  /\ \A c \in Conns : stage[c] = "new" =>
       c \notin open /\ sessOf[c] = c /\ pairOf[c] = {}
  /\ \A c \in Conns : sessOf[c] # c => stage[sessOf[c]] # "new"
  /\ \A k \in DOMAIN sessions : stage[sessions[k]] # "new"

\* What a session paired is a host and a client of one code, both ready, that
\* registered into it.
PairsAreReal ==
  \A s \in Conns : pairOf[s] # {} =>
    \E h \in Hosts, c \in Clients :
      /\ pairOf[s] = {h, c} /\ {h, c} \subseteq ready
      /\ sessOf[h] = s /\ sessOf[c] = s /\ CodeOf[h] = CodeOf[c]
      /\ stage[h] # "new" /\ stage[c] # "new"

HeardWithinPair == \A c \in Conns : \A d \in heardOf[c] : Partners(c, d)

\* How far the handler that paired has got with its four messages.
TellersProgress ==
  \A t \in Conns : stage[t] \in Telling =>
    /\ t \in pairOf[sessOf[t]]
    /\ \A h \in PairHost(t), c \in PairClient(t) :
         /\ stage[t] \in {"tellClient", "goHost", "goClient"} /\ h \in open
            => c \in heardOf[h]
         /\ stage[t] \in {"goHost", "goClient"} /\ c \in open => h \in heardOf[c]
         /\ stage[t] = "goClient" /\ h \in open => "go" \in told[h]

SessionInv == SlotIffLive /\ OneOfEachRole /\ NoEmptySession /\ NewIsFresh
PairingInv == PairsAreReal /\ HeardWithinPair /\ TellersProgress /\ GoMeansIntroduced
IInv == TypeOK /\ SessionInv /\ PairingInv /\ RelayWithinPair

-----------------------------------------------------------------------------
(* Liveness.  A handler's goroutine is always scheduled again: its reads   *)
(* return once the connection is down and its writes do not block for      *)
(* ever, TCP giving up on a dead peer.  Nothing is assumed of the peers,   *)
(* of the operator or of the clock.                                        *)
Fairness == \A c \in Conns : WF_vars(Handler(c)) /\ WF_vars(CloseConn(c))

FairSpec == Spec /\ Fairness

\* A peer whose WebSocket is down gives its role back, wherever its handler
\* was when the connection broke - also while it was telling two peers to go.
LeaverFreesRole ==
  \A c \in Conns :
    (stage[c] \in Live /\ c \notin open) ~> (\A s \in Conns : c \notin members[s])

\* When the last peer of a session is gone, the session is gone: once no
\* handler is left, the sessions map is empty.
LastOneOut ==
  [](((open = {}) /\ (\A c \in Conns : stage[c] # "new")) => <>(DOMAIN sessions = {}))

\* A broken connection is noticed wherever its handler was, and leaves nothing
\* behind.
LeavingIsNoticed == LeaverFreesRole /\ LastOneOut

\* A host and a client that are both ready in a session that has not paired are
\* both told to go, unless one of them goes away first: whichever handler gets
\* to tryPair last finds the other ready.
ReadyPeersMeet ==
  \A h \in Hosts, c \in Clients :
    (h \in ready /\ c \in ready /\ pairOf[sessOf[h]] = {} /\ {h, c} \subseteq members[sessOf[h]])
    ~> (("go" \in told[h] /\ "go" \in told[c]) \/ h \notin open \/ c \notin open)

\* The safety in ReadyPeersMeet: a host and a client that are both ready in a
\* session that has not paired have a handler on its way to tryPair, which will
\* find them so, whatever handlers and operator do in the meantime.
NoReadyPairMissed ==
  \A s \in Conns : \A h \in HostIn(members[s]), c \in ClientIn(members[s]) :
    {h, c} \subseteq ready /\ pairOf[s] = {} => "pairing" \in {stage[h], stage[c]}

\* Who is ready has registered, been told its UDP address and learned it.
ReadyHaveReflected ==
  \A c \in ready : c \in public /\ stage[c] \notin {"new", "registered"}

-----------------------------------------------------------------------------
(* What the repository says of the server and the code does not do.        *)

\* server.go, of tryPair: it "fires once both peers are ready, exchanging
\* addresses/fingerprint and telling both to begin connecting".
ReadyPeersArePaired ==
  \A s \in Conns : \A h \in HostIn(members[s]), c \in ClientIn(members[s]) :
    (h \in ready /\ c \in ready /\ stage[h] = "reading" /\ stage[c] = "reading")
    => h \in pairOf[s] \/ c \in pairOf[s]

\* api.go, of an admin delete: "The read loop's own defer removes the peer and
\* then the session" - its own session, and not one a later peer opened under
\* the same code, whose peers would become unreachable for newcomers.
ConnectedPeersAreFound ==
  \A c \in Conns :
    (stage[c] = "reading" /\ c \in open /\ c \notin closing)
    => CodeOf[c] \in DOMAIN sessions /\ sessions[CodeOf[c]] = sessOf[c]

\* server.go, of the routes pairing fills in: the address a route was reflected
\* at "is where the first relayed datagram goes, before the peer has sent one of
\* its own" - so a linked peer can be relayed to.
LinkedPeersAreReachable ==
  \A t \in DOMAIN relays : relays[t].peer # None => Reachable(t)

-----------------------------------------------------------------------------
(* When it does so all the same: while no operator deletes a session, and  *)
(* while neither the operator nor the sweep removes a route.               *)

PeersAct == (\E c \in Conns : Handler(c) \/ Peer(c)) \/ ClockTick
RoutesAge == Sweep \/ AdminPrune \/ \E c \in Conns : AdminDeleteRelay(c)

SessionsUndeleted == Init /\ [][PeersAct \/ RoutesAge]_vars
RoutesUndeleted == Init /\ [][PeersAct]_vars

\* A connection is found under its code as long as its handler lives.
LiveAreFound ==
  \A c \in Conns : stage[c] \in Live =>
    CodeOf[c] \in DOMAIN sessions /\ sessions[CodeOf[c]] = sessOf[c]

\* The server knows where whoever has learned its public address is.
ReflectedAreReachable == \A c \in public : Reachable(c)

=============================================================================
