-------------------------- MODULE RendezvousProofs --------------------------
(***************************************************************************)
(* Theorems about the rendezvous server, for any set of connections, any   *)
(* codes and any relay TTL.                                                *)
(***************************************************************************)
EXTENDS Rendezvous, TLAPS

USE DEF Goto

-----------------------------------------------------------------------------
(* Type correctness.                                                       *)

\* A freshly made server is well typed.
LEMMA InitType == Init => TypeOK
  BY RolesAssumption DEF Init, TypeOK, TableInit, TableTypeOK, Stages

\* What the operators on the relay table return is a table again.
LEMMA NoteSenderType ==
  ASSUME TableTypeOK, NEW t \in Conns, relays' = NoteSender(t)
  PROVE  DOMAIN relays' \subseteq Conns /\ \A u \in DOMAIN relays' : relays'[u] \in Route
  BY IdleAssumption DEF TableTypeOK, NoteSender, Put, PeerOf, Route

\* Wiring a pair returns a well-typed table.
LEMMA WireType ==
  ASSUME TableTypeOK, NEW h \in Conns, NEW c \in Conns, relays' = Wire(h, c)
  PROVE  DOMAIN relays' \subseteq Conns /\ \A u \in DOMAIN relays' : relays'[u] \in Route
<1>1. ASSUME NEW t \in Conns, NEW p \in Conns PROVE Paired(t, p) \in Route
  BY IdleAssumption DEF TableTypeOK, Paired, Route
<1> QED
  BY <1>1 DEF TableTypeOK, Wire

\* Removing routes returns a well-typed table.
LEMMA WithoutType ==
  ASSUME TableTypeOK, NEW T, relays' = Without(T)
  PROVE  DOMAIN relays' \subseteq Conns /\ \A u \in DOMAIN relays' : relays'[u] \in Route
  BY DEF TableTypeOK, Without

\* A clock tick keeps idle times within their bound.
LEMMA TickType ==
  ASSUME TableTypeOK, Tick
  PROVE  DOMAIN relays' \subseteq Conns /\ \A u \in DOMAIN relays' : relays'[u] \in Route
  BY IdleAssumption DEF TableTypeOK, Tick, Route

\* The session object a hello leads to is one a connection created.
LEMMA LookupType ==
  ASSUME TypeOK, NEW c \in Conns
  PROVE  Lookup(c) \in Conns
  BY DEF TypeOK, Lookup

\* Every step keeps every variable's type.
LEMMA TypeStep == TypeOK /\ [Next]_vars => TypeOK'
<1> SUFFICES ASSUME TypeOK, [Next]_vars PROVE TypeOK'
  OBVIOUS
<1> USE DEF sessVars, wireVars, tableVars
<1>1. ASSUME NEW c \in Conns, RefuseHello(c) \/ RefuseRole(c) PROVE TypeOK'
  BY <1>1 DEF RefuseHello, RefuseRole, TypeOK, TableTypeOK, Stages
<1>2. ASSUME NEW c \in Conns, Register(c) PROVE TypeOK'
  BY <1>2, LookupType, RolesAssumption DEF Register, TypeOK, TableTypeOK, Stages, Live
<1>3. ASSUME NEW c \in Conns, SendReflected(c) PROVE TypeOK'
  BY <1>3 DEF SendReflected, Send, Messages, TypeOK, TableTypeOK, Stages, Live
<1>4. ASSUME NEW c \in Conns, ReadReady(c) \/ TryPairReturns(c) \/ ReadError(c)
      PROVE  TypeOK'
  BY <1>4 DEF ReadReady, TryPairReturns, ReadError, TypeOK, TableTypeOK, Stages, Live
<1>5. ASSUME NEW c \in Conns, TryPair(c) PROVE TypeOK'
  <2>1. PICK h \in Conns, d \in Conns : relays' = Wire(h, d)
    BY <1>5, RolesAssumption DEF TryPair, HostIn, ClientIn
  <2>2. TableTypeOK'
    BY <1>5, <2>1, WireType DEF TryPair, TypeOK, TableTypeOK
  <2> QED
    BY <1>5, <2>2 DEF TryPair, TypeOK, Stages, Live, Telling
<1>6. ASSUME NEW c \in Conns, TellHost(c) \/ TellClient(c) PROVE TypeOK'
  <2>1. /\ PairHost(c) \subseteq Conns
        /\ PairClient(c) \subseteq Conns
    BY DEF TypeOK, PairHost, PairClient, HostIn, ClientIn
  <2>2. ASSUME NEW from, NEW to, NEW other \in SUBSET Conns, NEW next \in Stages,
               TellPaired(c, from, to, other, next)
        PROVE  TypeOK'
    <3>1. told' \in [Conns -> SUBSET Messages]
      BY <2>2 DEF TellPaired, Send, Messages, TypeOK
    <3>2. heardOf' \in [Conns -> SUBSET Conns]
      BY <2>2 DEF TellPaired, TypeOK
    <3> QED
      BY <2>2, <3>1, <3>2 DEF TellPaired, TypeOK, TableTypeOK
  <2> QED
    BY <1>6, <2>1, <2>2 DEF TellHost, TellClient, Stages, Live, Telling
<1>7. ASSUME NEW c \in Conns, GoHost(c) \/ GoClient(c) PROVE TypeOK'
  BY <1>7 DEF GoHost, GoClient, TellGo, Send, Messages, TypeOK, TableTypeOK,
              Stages, Live, Telling
<1>8. ASSUME NEW c \in Conns, Cleanup(c) PROVE TypeOK'
  BY <1>8 DEF Cleanup, WithoutCode, TypeOK, TableTypeOK, Stages
<1>9. ASSUME NEW c \in Conns, Drop(c) \/ CloseConn(c) PROVE TypeOK'
  BY <1>9 DEF Drop, CloseConn, TypeOK, TableTypeOK
<1>10. ASSUME NEW c \in Conns, ReflectProbe(c) PROVE TypeOK'
  <2>1. TableTypeOK'
    BY <1>10, NoteSenderType DEF ReflectProbe, Reflect, TypeOK, TableTypeOK
  <2> QED
    BY <1>10, <2>1 DEF ReflectProbe, TypeOK
<1>11. ASSUME NEW c \in Conns, RelayDatagram(c) PROVE TypeOK'
  <2>1. DOMAIN relays' \subseteq Conns /\ \A u \in DOMAIN relays' : relays'[u] \in Route
    BY <1>11, NoteSenderType DEF RelayDatagram, Relay, TypeOK
  <2>2. delivered' \in [Conns -> SUBSET Conns]
    BY <1>11 DEF RelayDatagram, Relay, TypeOK, TableTypeOK
  <2> QED
    BY <1>11, <2>1, <2>2 DEF RelayDatagram, TypeOK, TableTypeOK
<1>12. ASSUME NEW k \in Codes, DeleteSession(k) PROVE TypeOK'
  <2>1. TableTypeOK'
    BY <1>12, WithoutType DEF DeleteSession, TypeOK, TableTypeOK
  <2> QED
    BY <1>12, <2>1 DEF DeleteSession, WithoutCode, TypeOK
<1>13. ASSUME NEW c \in Conns, AdminDeleteRelay(c) PROVE TypeOK'
  <2>1. TableTypeOK'
    BY <1>13, WithoutType DEF AdminDeleteRelay, DeleteRelay, TypeOK, TableTypeOK
  <2> QED
    BY <1>13, <2>1 DEF AdminDeleteRelay, Unsignaled, TypeOK
<1>14. CASE AdminPrune \/ Sweep
  <2>1. TableTypeOK'
    BY <1>14, WithoutType DEF AdminPrune, PruneRelays, Sweep, GcRelay, TypeOK, TableTypeOK
  <2> QED
    BY <1>14, <2>1 DEF AdminPrune, Sweep, Unsignaled, TypeOK
<1>15. CASE ClockTick
  <2>1. TableTypeOK'
    BY <1>15, TickType DEF ClockTick, Tick, TypeOK, TableTypeOK
  <2> QED
    BY <1>15, <2>1 DEF ClockTick, Unsignaled, TypeOK
<1>16. CASE UNCHANGED vars
  BY <1>16 DEF vars, TypeOK, TableTypeOK
<1> QED
  BY <1>1, <1>2, <1>3, <1>4, <1>5, <1>6, <1>7, <1>8, <1>9, <1>10, <1>11, <1>12,
     <1>13, <1>14, <1>15, <1>16 DEF Next, Handler, Peer, Admin

\* Every variable keeps its type, whatever the handlers, the peers, the
\* operator and the clock do.
THEOREM TypeCorrect == Spec => []TypeOK
  BY InitType, TypeStep, PTL DEF Spec

-----------------------------------------------------------------------------
(* Sessions: who is in which, and what the codes lead to.                  *)

\* The steps that leave the membership of every session alone: no handler
\* starts or ends, no connection comes up, and only a session with members pairs.
SessionFrame ==
  /\ UNCHANGED <<sessOf, sessions, members>>
  /\ open' \subseteq open
  /\ \A d \in Conns :
       /\ stage'[d] \in Live <=> stage[d] \in Live
       /\ stage'[d] = "new" => stage[d] = "new"
       /\ pairOf'[d] # pairOf[d] => members[d] # {}

\* A connection that has not registered names a session object with no members.
LEMMA FreshIsEmpty ==
  ASSUME TypeOK, SessionInv, NEW c \in Conns, stage[c] = "new"
  PROVE  members[c] = {}
  BY DEF TypeOK, SessionInv, SlotIffLive, NewIsFresh, Live, Telling

\* A step that changes nobody's membership keeps the sessions whole.
LEMMA FrameKeepsSessions ==
  ASSUME TypeOK, TypeOK', SessionInv, SessionFrame
  PROVE  SessionInv'
<1>1. SlotIffLive'
  BY DEF SessionInv, SlotIffLive, SessionFrame
<1>2. OneOfEachRole' /\ NoEmptySession'
  BY DEF SessionInv, OneOfEachRole, NoEmptySession, SessionFrame, SameRole
<1>3. NewIsFresh'
  <2>1. ASSUME NEW c \in Conns, stage'[c] = "new"
        PROVE  c \notin open' /\ sessOf'[c] = c /\ pairOf'[c] = {}
    BY <2>1, FreshIsEmpty DEF SessionInv, NewIsFresh, SessionFrame
  <2>2. ASSUME NEW c \in Conns, sessOf'[c] # c PROVE stage'[sessOf'[c]] # "new"
    BY <2>2 DEF TypeOK, SessionInv, NewIsFresh, SessionFrame
  <2>3. ASSUME NEW k \in DOMAIN sessions' PROVE stage'[sessions'[k]] # "new"
    BY <2>3 DEF TypeOK, SessionInv, NewIsFresh, SessionFrame
  <2> QED
    BY <2>1, <2>2, <2>3 DEF NewIsFresh
<1> QED
  BY <1>1, <1>2, <1>3 DEF SessionInv

\* A registration keeps the sessions whole: the role was free under the mutex,
\* and a new session object is one nobody else uses.
LEMMA RegisterKeepsSessions ==
  ASSUME TypeOK, TypeOK', SessionInv, NEW c \in Conns, Register(c)
  PROVE  SessionInv'
<1> DEFINE s == Lookup(c)
<1>1. s \in Conns
  BY LookupType
<1>2. /\ stage[c] = "new"
      /\ stage' = [stage EXCEPT ![c] = "registered"]
      /\ open' = open \cup {c}
      /\ sessOf' = [sessOf EXCEPT ![c] = s]
      /\ sessions' = [k \in DOMAIN sessions \cup {CodeOf[c]} |->
                        IF k = CodeOf[c] THEN s ELSE sessions[k]]
      /\ members' = [members EXCEPT ![s] = @ \cup {c}]
      /\ pairOf' = pairOf
  BY DEF Register
<1>3. \A d \in members[s] : ~SameRole(c, d)
  BY DEF Register, RoleTaken
<1>4. \A d \in members[s] : CodeOf[d] = CodeOf[c]
  BY FreshIsEmpty, <1>2 DEF Lookup, SessionInv, NoEmptySession
<1>5. \A t \in Conns : c \notin members[t]
  BY <1>2 DEF SessionInv, SlotIffLive, Live, Telling
<1> HIDE DEF s
<1>6. SlotIffLive'
  <2> SUFFICES ASSUME NEW d \in Conns, NEW t \in Conns
               PROVE  d \in members'[t] <=> (stage'[d] \in Live /\ sessOf'[d] = t)
    BY DEF SlotIffLive
  <2>1. CASE d = c
    BY <1>1, <1>2, <1>5, <2>1 DEF TypeOK, Live
  <2>2. CASE d # c
    BY <1>1, <1>2, <2>2 DEF TypeOK, SessionInv, SlotIffLive
  <2> QED
    BY <2>1, <2>2
<1>7. OneOfEachRole'
  <2> SUFFICES ASSUME NEW t \in Conns, NEW d \in members'[t], NEW e \in members'[t]
               PROVE  CodeOf[d] = CodeOf[e] /\ (SameRole(d, e) => d = e)
    BY DEF OneOfEachRole, SameRole
  <2>1. CASE t # s
    BY <1>1, <1>2, <2>1 DEF TypeOK, SessionInv, OneOfEachRole
  <2>2. CASE t = s
    <3>1. d \in members[s] \cup {c} /\ e \in members[s] \cup {c}
      BY <1>1, <1>2, <2>2 DEF TypeOK
    <3> QED
      BY <1>1, <1>3, <1>4, <3>1 DEF SessionInv, OneOfEachRole, SameRole
  <2> QED
    BY <2>1, <2>2
<1>8. NoEmptySession'
  <2> SUFFICES ASSUME NEW k \in DOMAIN sessions'
               PROVE  /\ members'[sessions'[k]] # {}
                      /\ \A d \in members'[sessions'[k]] : CodeOf[d] = k
    BY DEF NoEmptySession
  <2>1. CASE k = CodeOf[c]
    BY <1>1, <1>2, <1>4, <2>1 DEF TypeOK
  <2>2. CASE k # CodeOf[c]
    <3>1. k \in DOMAIN sessions /\ sessions'[k] = sessions[k] /\ sessions[k] \in Conns
      BY <1>2, <2>2 DEF TypeOK
    <3>2. sessions[k] # s
      <4>1. CASE CodeOf[c] \in DOMAIN sessions
        BY <4>1, <2>2, <3>1 DEF s, Lookup, SessionInv, NoEmptySession
      <4>2. CASE CodeOf[c] \notin DOMAIN sessions
        BY <4>2, <1>2, <3>1 DEF s, Lookup, SessionInv, NewIsFresh
      <4> QED
        BY <4>1, <4>2
    <3> QED
      BY <1>1, <1>2, <3>1, <3>2 DEF TypeOK, SessionInv, NoEmptySession
  <2> QED
    BY <2>1, <2>2
<1>9. NewIsFresh'
  <2>1. s = c \/ stage[s] # "new"
    BY DEF s, Lookup, SessionInv, NewIsFresh
  <2> QED
    BY <1>1, <1>2, <2>1 DEF TypeOK, SessionInv, NewIsFresh
<1> QED
  BY <1>6, <1>7, <1>8, <1>9 DEF SessionInv

\* The deferred cleanup gives back one slot, and takes the session entry along
\* when the session it emptied is the one the code leads to.
LEMMA CleanupKeepsSessions ==
  ASSUME TypeOK, TypeOK', SessionInv, NEW c \in Conns, Cleanup(c)
  PROVE  SessionInv'
<1> DEFINE s == sessOf[c]
<1>1. /\ stage[c] = "leaving"
      /\ stage' = [stage EXCEPT ![c] = "done"]
      /\ members' = [members EXCEPT ![s] = @ \ {c}]
      /\ UNCHANGED <<open, sessOf, pairOf>>
      /\ DOMAIN sessions' \subseteq DOMAIN sessions
      /\ \A k \in DOMAIN sessions' : sessions'[k] = sessions[k]
  BY DEF Cleanup, WithoutCode, sessVars
<1>2. s \in Conns /\ c \in members[s]
  BY <1>1 DEF TypeOK, SessionInv, SlotIffLive, Live
<1>3. SlotIffLive'
  BY <1>1, <1>2 DEF TypeOK, SessionInv, SlotIffLive, Live, Telling
<1>4. OneOfEachRole'
  <2>1. \A t \in Conns : members'[t] \subseteq members[t]
    BY <1>1 DEF TypeOK
  <2> QED
    BY <2>1 DEF SessionInv, OneOfEachRole, SameRole
<1>5. NoEmptySession'
  <2> SUFFICES ASSUME NEW k \in DOMAIN sessions'
               PROVE  /\ members'[sessions[k]] # {}
                      /\ \A d \in members'[sessions[k]] : CodeOf[d] = k
    BY <1>1 DEF NoEmptySession
  <2>1. k \in DOMAIN sessions /\ sessions[k] \in Conns
    BY <1>1 DEF TypeOK
  <2>2. CASE sessions[k] = s /\ members[s] \ {c} = {}
    <3>1. k = CodeOf[c]
      BY <1>2, <2>1, <2>2 DEF SessionInv, NoEmptySession
    <3>2. k \notin DOMAIN sessions'
      BY <1>2, <2>2, <3>1 DEF Cleanup, WithoutCode
    <3> QED
      BY <3>2
  <2>3. CASE ~(sessions[k] = s /\ members[s] \ {c} = {})
    BY <1>1, <1>2, <2>1, <2>3 DEF TypeOK, SessionInv, NoEmptySession
  <2> QED
    BY <2>2, <2>3
<1>6. NewIsFresh'
  BY <1>1 DEF TypeOK, SessionInv, NewIsFresh
<1> QED
  BY <1>3, <1>4, <1>5, <1>6 DEF SessionInv

\* Every step keeps the sessions whole.
LEMMA SessionStep == TypeOK /\ SessionInv /\ [Next]_vars => SessionInv'
<1> SUFFICES ASSUME TypeOK, SessionInv, [Next]_vars PROVE SessionInv'
  OBVIOUS
<1> USE DEF sessVars
<1>0. TypeOK'
  BY TypeStep
<1>1. ASSUME NEW c \in Conns, RefuseHello(c) \/ RefuseRole(c) PROVE SessionFrame
  BY <1>1 DEF RefuseHello, RefuseRole, SessionFrame, TypeOK, Live, Telling
<1>2. ASSUME NEW c \in Conns, SendReflected(c) \/ ReadReady(c) \/ TryPairReturns(c) \/ ReadError(c)
      PROVE  SessionFrame
  BY <1>2 DEF SendReflected, ReadReady, TryPairReturns, ReadError, SessionFrame, TypeOK, Live, Telling
<1>3. ASSUME NEW c \in Conns, TryPair(c) PROVE SessionFrame
  BY <1>3 DEF TryPair, CanPair, HostIn, SessionFrame, TypeOK, Live, Telling
<1>4. ASSUME NEW c \in Conns, TellHost(c) \/ TellClient(c) \/ GoHost(c) \/ GoClient(c)
      PROVE  SessionFrame
  BY <1>4 DEF TellHost, TellClient, GoHost, GoClient, TellPaired, TellGo, SessionFrame,
              TypeOK, Live, Telling
<1>5. ASSUME NEW c \in Conns, Drop(c) \/ CloseConn(c) \/ ReflectProbe(c) \/ RelayDatagram(c)
                             \/ AdminDeleteRelay(c)
      PROVE  SessionFrame
  BY <1>5 DEF Drop, CloseConn, ReflectProbe, RelayDatagram, AdminDeleteRelay, Unsignaled,
              SessionFrame
<1>6. ASSUME AdminPrune \/ Sweep \/ ClockTick PROVE SessionFrame
  BY <1>6 DEF AdminPrune, Sweep, ClockTick, Unsignaled, SessionFrame
<1>7. ASSUME UNCHANGED vars PROVE SessionFrame
  BY <1>7 DEF vars, SessionFrame
<1>8. ASSUME NEW k \in Codes, DeleteSession(k) PROVE SessionInv'
  BY <1>8 DEF DeleteSession, WithoutCode, SessionInv, SlotIffLive, OneOfEachRole, SameRole,
              NoEmptySession, NewIsFresh
<1>9. SessionFrame => SessionInv'
  BY <1>0, FrameKeepsSessions
<1> QED
  BY <1>0, <1>1, <1>2, <1>3, <1>4, <1>5, <1>6, <1>7, <1>8, <1>9,
     RegisterKeepsSessions, CleanupKeepsSessions DEF Next, Handler, Peer, Admin

\* A freshly made server has no sessions.
LEMMA InitSessions == Init => SessionInv
  BY DEF Init, SessionInv, SlotIffLive, OneOfEachRole, NoEmptySession, NewIsFresh, Live, Telling

\* Registration, cleanup and admin deletes, in any interleaving and for any
\* codes, keep one holder per role and leave no session behind its last peer.
THEOREM SessionsStayWhole == Spec => []SessionsAreWhole
<1>1. Init => TypeOK /\ SessionInv
  BY InitType, InitSessions
<1>2. TypeOK /\ SessionInv /\ [Next]_vars => TypeOK' /\ SessionInv'
  BY TypeStep, SessionStep
<1>3. SessionInv => SessionsAreWhole
  BY DEF SessionInv, SessionsAreWhole
<1> QED
  BY <1>1, <1>2, <1>3, PTL DEF Spec

-----------------------------------------------------------------------------
(* Pairing: who was paired, introduced and told to go.                     *)


\* What no step undoes: a registered connection stays in its session and, once
\* down, stays down; a pairing stands; what was said stays said.
Grows ==
  /\ \A c \in Conns : stage[c] # "new" =>
       /\ stage'[c] # "new" /\ sessOf'[c] = sessOf[c]
       /\ c \in open' => c \in open
  /\ \A s \in Conns : pairOf[s] # {} => pairOf'[s] = pairOf[s]
  /\ ready \subseteq ready'
  /\ \A c \in Conns : heardOf[c] \subseteq heardOf'[c] /\ told[c] \subseteq told'[c]

\* No step takes back a registration, a pairing or a word that was said.
LEMMA StepGrows ==
  ASSUME TypeOK, [Next]_vars
  PROVE  Grows
<1> USE DEF sessVars, wireVars
<1>1. ASSUME NEW c \in Conns, RefuseHello(c) \/ RefuseRole(c) \/ ReadReady(c)
                             \/ TryPairReturns(c) \/ ReadError(c) \/ Cleanup(c)
      PROVE  Grows
  BY <1>1 DEF RefuseHello, RefuseRole, ReadReady, TryPairReturns, ReadError, Cleanup,
              TypeOK, Grows
<1>2. ASSUME NEW c \in Conns, Register(c) PROVE Grows
  BY <1>2 DEF Register, TypeOK, Grows
<1>3. ASSUME NEW c \in Conns, SendReflected(c) PROVE Grows
  BY <1>3 DEF SendReflected, Send, TypeOK, Grows
<1>4. ASSUME NEW c \in Conns, TryPair(c) PROVE Grows
  BY <1>4 DEF TryPair, CanPair, TypeOK, Grows
<1>5. ASSUME NEW c \in Conns, NEW from, NEW to, NEW other, NEW next,
             TellPaired(c, from, to, other, next), next # "new"
      PROVE  Grows
  BY <1>5 DEF TellPaired, Send, TypeOK, Grows
<1>6. ASSUME NEW c \in Conns, TellHost(c) \/ TellClient(c) PROVE Grows
  BY <1>5, <1>6 DEF TellHost, TellClient
<1>7. ASSUME NEW c \in Conns, GoHost(c) \/ GoClient(c) PROVE Grows
  BY <1>7 DEF GoHost, GoClient, TellGo, Send, TypeOK, Grows
<1>8. ASSUME NEW c \in Conns, Drop(c) \/ CloseConn(c) \/ ReflectProbe(c) \/ RelayDatagram(c)
                             \/ AdminDeleteRelay(c)
      PROVE  Grows
  BY <1>8 DEF Drop, CloseConn, ReflectProbe, RelayDatagram, AdminDeleteRelay, Unsignaled, Grows
<1>9. ASSUME NEW k \in Codes, DeleteSession(k) PROVE Grows
  BY <1>9 DEF DeleteSession, Grows
<1>10. ASSUME AdminPrune \/ Sweep \/ ClockTick PROVE Grows
  BY <1>10 DEF AdminPrune, Sweep, ClockTick, Unsignaled, Grows
<1>11. ASSUME UNCHANGED vars PROVE Grows
  BY <1>11 DEF vars, Grows
<1> QED
  BY <1>1, <1>2, <1>3, <1>4, <1>6, <1>7, <1>8, <1>9, <1>10, <1>11 DEF Next, Handler, Peer, Admin

\* A member of a paired session is one half of a partnership.
LEMMA PairedHavePartners ==
  ASSUME TypeOK, PairsAreReal, NEW c \in Conns, c \in pairOf[sessOf[c]]
  PROVE  \E h \in Hosts, d \in Clients :
           /\ PairHost(c) = {h} /\ PairClient(c) = {d} /\ c \in {h, d}
           /\ Partners(h, d) /\ Partners(d, h)
           /\ {h, d} \subseteq ready /\ stage[h] # "new" /\ stage[d] # "new"
<1>1. PICK h \in Hosts, d \in Clients :
        /\ pairOf[sessOf[c]] = {h, d} /\ {h, d} \subseteq ready
        /\ sessOf[h] = sessOf[c] /\ sessOf[d] = sessOf[c] /\ CodeOf[h] = CodeOf[d]
        /\ stage[h] # "new" /\ stage[d] # "new"
  BY DEF PairsAreReal, TypeOK
<1>2. PairHost(c) = {h} /\ PairClient(c) = {d}
  BY <1>1, RolesAssumption DEF PairHost, PairClient, HostIn, ClientIn
<1>3. Partners(h, d) /\ Partners(d, h)
  BY <1>1, RolesAssumption DEF Partners, SameRole
<1> QED
  BY <1>1, <1>2, <1>3

\* Partners were paired, are ready and have registered; a connection has one.
LEMMA PartnersAreReal ==
  ASSUME TypeOK, PairsAreReal, NEW c \in Conns, NEW d \in Conns, Partners(c, d)
  PROVE  /\ Partners(d, c) /\ {c, d} \subseteq ready
         /\ stage[c] # "new" /\ stage[d] # "new"
         /\ \A e \in Conns : Partners(c, e) => e = d
<1>1. c \in pairOf[sessOf[c]]
  BY DEF Partners
<1>2. pairOf[sessOf[c]] = {c, d}
  BY DEF Partners
<1>3. Partners(d, c)
  BY DEF Partners, SameRole
<1>4. {c, d} \subseteq ready /\ stage[c] # "new" /\ stage[d] # "new"
  <2>1. PICK h \in Hosts, e \in Clients :
          /\ pairOf[sessOf[c]] = {h, e} /\ {h, e} \subseteq ready
          /\ stage[h] # "new" /\ stage[e] # "new"
    BY <1>1 DEF PairsAreReal, TypeOK
  <2> QED
    BY <1>2, <2>1
<1>5. \A e \in Conns : Partners(c, e) => e = d
  BY <1>2 DEF Partners
<1> QED
  BY <1>3, <1>4, <1>5

\* A partnership outlives every step.
LEMMA PartnersStay ==
  ASSUME TypeOK, PairsAreReal, Grows, NEW c \in Conns, NEW d \in Conns, Partners(c, d)
  PROVE  Partners(c, d)'
<1>1. stage[c] # "new" /\ stage[d] # "new"
  BY PartnersAreReal
<1>2. sessOf'[c] = sessOf[c] /\ sessOf'[d] = sessOf[d]
  BY <1>1 DEF Grows
<1>3. pairOf'[sessOf[c]] = pairOf[sessOf[c]]
  BY DEF Grows, Partners, TypeOK
<1> QED
  BY <1>2, <1>3 DEF Partners, SameRole

\* A session pairs a ready host and client of its own, and does so once.
LEMMA PairsStep ==
  ASSUME TypeOK, SessionInv, PairsAreReal, Grows, [Next]_vars
  PROVE  PairsAreReal'
<1> SUFFICES ASSUME NEW s \in Conns, pairOf'[s] # {}
             PROVE  \E h \in Hosts, c \in Clients :
                      /\ pairOf'[s] = {h, c} /\ {h, c} \subseteq ready'
                      /\ sessOf'[h] = s /\ sessOf'[c] = s /\ CodeOf[h] = CodeOf[c]
                      /\ stage'[h] # "new" /\ stage'[c] # "new"
  BY DEF PairsAreReal
<1>1. CASE pairOf[s] # {}
  <2>1. PICK h \in Hosts, c \in Clients :
          /\ pairOf[s] = {h, c} /\ {h, c} \subseteq ready
          /\ sessOf[h] = s /\ sessOf[c] = s /\ CodeOf[h] = CodeOf[c]
          /\ stage[h] # "new" /\ stage[c] # "new"
    BY <1>1 DEF PairsAreReal
  <2> QED
    BY <1>1, <2>1, RolesAssumption DEF Grows
<1>2. CASE pairOf[s] = {}
  <2>1. PICK t \in Conns : TryPair(t) /\ sessOf[t] = s
    <3>1. pairOf' # pairOf
      BY <1>2
    <3>2. ASSUME NEW c \in Conns, Handler(c) PROVE TryPair(c)
      <4>1. /\ ~SendReflected(c) /\ ~ReadReady(c) /\ ~TryPairReturns(c)
            /\ ~ReadError(c) /\ ~Cleanup(c)
        BY <3>1 DEF SendReflected, ReadReady, TryPairReturns, ReadError, Cleanup, sessVars
      <4>2. ~TellHost(c) /\ ~TellClient(c) /\ ~GoHost(c) /\ ~GoClient(c)
        BY <3>1 DEF TellHost, TellClient, GoHost, GoClient, TellPaired, TellGo, sessVars
      <4> QED
        BY <3>2, <4>1, <4>2 DEF Handler
    <3>3. ~(\E c \in Conns : Peer(c))
      BY <3>1 DEF Peer, RefuseHello, RefuseRole, Register, Drop, ReflectProbe, RelayDatagram, sessVars
    <3>4. ~Admin /\ ~Sweep /\ ~ClockTick /\ ~Unsignaled
      BY <3>1 DEF Admin, DeleteSession, CloseConn, AdminDeleteRelay, AdminPrune, Sweep,
         ClockTick, Unsignaled, sessVars
    <3>5. PICK t \in Conns : TryPair(t)
      BY <3>1, <3>2, <3>3, <3>4 DEF Next, vars, sessVars
    <3> QED
      BY <1>2, <3>5 DEF TryPair, TypeOK
  <2>2. pairOf'[s] = members[s] /\ members[s] \subseteq ready /\ UNCHANGED <<ready, sessOf>>
    BY <2>1 DEF TryPair, CanPair, TypeOK
  <2>3. PICK h \in Hosts, c \in Clients : h \in members[s] /\ c \in members[s]
    BY <2>1 DEF TryPair, CanPair, HostIn, ClientIn
  <2>4. /\ \A d \in members[s] : d \in {h, c}
        /\ CodeOf[h] = CodeOf[c]
    BY <2>3, RolesAssumption DEF SessionInv, OneOfEachRole, SameRole, TypeOK
  <2>5. \A d \in members[s] : sessOf[d] = s /\ stage[d] # "new"
    BY RolesAssumption DEF SessionInv, SlotIffLive, TypeOK, Live, Telling
  <2> QED
    BY <2>2, <2>3, <2>4, <2>5, RolesAssumption DEF Grows
<1> QED
  BY <1>1, <1>2

\* A Paired message names the partner of the peer it is written to.
LEMMA TellPairedKeepsHeard ==
  ASSUME TypeOK, PairsAreReal, HeardWithinPair, NEW t \in Conns, t \in pairOf[sessOf[t]],
         \/ TellHost(t)
         \/ TellClient(t)
  PROVE  \A c \in Conns : \A d \in heardOf'[c] : Partners(c, d)
<1>1. PICK h \in Hosts, d \in Clients :
        /\ PairHost(t) = {h} /\ PairClient(t) = {d}
        /\ Partners(h, d) /\ Partners(d, h)
  BY PairedHavePartners
<1>2. h \in Conns /\ d \in Conns
  BY RolesAssumption
<1>3. CASE TellHost(t)
  <2>1. \A c \in Conns : heardOf'[c] = heardOf[c] \/ (c = h /\ heardOf'[c] = heardOf[c] \cup {d})
    BY <1>1, <1>3 DEF TellHost, TellPaired, TypeOK
  <2> QED
    BY <1>1, <2>1 DEF HeardWithinPair
<1>4. CASE TellClient(t)
  <2>1. \A c \in Conns : heardOf'[c] = heardOf[c] \/ (c = d /\ heardOf'[c] = heardOf[c] \cup {h})
    BY <1>1, <1>4 DEF TellClient, TellPaired, TypeOK
  <2> QED
    BY <1>1, <2>1 DEF HeardWithinPair
<1> QED
  BY <1>3, <1>4

\* A Paired message names the partner, whichever handler writes it.
LEMMA HeardStep ==
  ASSUME TypeOK, PairsAreReal, HeardWithinPair, TellersProgress, Grows, [Next]_vars
  PROVE  HeardWithinPair'
<1>1. \A c \in Conns : \A d \in heardOf'[c] : Partners(c, d)
  <2>1. CASE heardOf' = heardOf
    BY <2>1 DEF HeardWithinPair
  <2>2. CASE heardOf' # heardOf
    <3>1. PICK t \in Conns : TellHost(t) \/ TellClient(t)
      BY <2>2 DEF Next, vars, wireVars, Handler, Peer, Admin, RefuseHello, RefuseRole, Register,
         SendReflected, ReadReady, TryPair, TryPairReturns, GoHost,
         GoClient, TellGo, ReadError, Cleanup, Drop, ReflectProbe, RelayDatagram,
         DeleteSession, CloseConn, AdminDeleteRelay, AdminPrune, Sweep, ClockTick, Unsignaled
    <3>2. t \in pairOf[sessOf[t]]
      BY <3>1 DEF TellHost, TellClient, TellPaired, TellersProgress, Telling
    <3> QED
      BY <3>1, <3>2, TellPairedKeepsHeard
  <2> QED
    BY <2>1, <2>2
<1>2. TypeOK'
  BY TypeStep
<1> QED
  BY <1>1, <1>2, PartnersStay DEF HeardWithinPair, TypeOK

\* Only a connection's own handler moves it on once it has registered.
LEMMA OwnHandlerMoves ==
  ASSUME TypeOK, [Next]_vars, NEW t \in Conns
  PROVE  \/ stage'[t] = stage[t] \/ Handler(t)
         \/ RefuseHello(t) \/ RefuseRole(t) \/ Register(t)
<1>1. ASSUME NEW c \in Conns, c # t, Handler(c) PROVE stage'[t] = stage[t]
  BY <1>1 DEF Handler, SendReflected, ReadReady, TryPair, TryPairReturns, TellHost, TellClient,
     GoHost, GoClient, TellPaired, TellGo, ReadError, Cleanup, TypeOK
<1>2. ASSUME NEW c \in Conns, c # t, Peer(c) PROVE stage'[t] = stage[t]
  BY <1>2 DEF Peer, RefuseHello, RefuseRole, Register, Drop, ReflectProbe, RelayDatagram, TypeOK
<1>3. ASSUME Drop(t) \/ ReflectProbe(t) \/ RelayDatagram(t) PROVE stage' = stage
  BY <1>3 DEF Drop, ReflectProbe, RelayDatagram
<1>4. ASSUME Admin \/ Sweep \/ ClockTick \/ UNCHANGED vars PROVE stage' = stage
  BY <1>4 DEF Admin, DeleteSession, CloseConn, AdminDeleteRelay, AdminPrune, Sweep, ClockTick,
              Unsignaled, vars
<1> QED
  BY <1>1, <1>2, <1>3, <1>4 DEF Next, Peer

\* "go" is only ever written by the last two steps of the handler that paired.
LEMMA OnlyTellersSayGo ==
  ASSUME TypeOK, [Next]_vars, NEW c \in Conns, "go" \in told'[c], "go" \notin told[c]
  PROVE  \E t \in Conns : GoHost(t) \/ GoClient(t)
<1>1. ASSUME NEW t \in Conns, Handler(t), ~GoHost(t), ~GoClient(t) PROVE "go" \notin told'[c]
  <2>1. CASE SendReflected(t) \/ TellHost(t) \/ TellClient(t)
    BY <2>1 DEF SendReflected, TellHost, TellClient, TellPaired, Send, TypeOK
  <2>2. CASE ReadReady(t) \/ TryPair(t) \/ TryPairReturns(t) \/ ReadError(t) \/ Cleanup(t)
    BY <2>2 DEF ReadReady, TryPair, TryPairReturns, ReadError, Cleanup, wireVars
  <2> QED
    BY <1>1, <2>1, <2>2 DEF Handler
<1>2. ASSUME NEW t \in Conns, Peer(t) PROVE told' = told
  BY <1>2 DEF Peer, RefuseHello, RefuseRole, Register, Drop, ReflectProbe, RelayDatagram, wireVars
<1>3. ASSUME Admin \/ Sweep \/ ClockTick \/ UNCHANGED vars PROVE told' = told
  BY <1>3 DEF Admin, DeleteSession, CloseConn, AdminDeleteRelay, AdminPrune, Sweep, ClockTick,
              Unsignaled, vars, wireVars
<1> QED
  BY <1>1, <1>2, <1>3 DEF Next

\* The handler that paired writes its four messages in order.
LEMMA TellersStep ==
  ASSUME TypeOK, SessionInv, PairsAreReal, TellersProgress, Grows, [Next]_vars
  PROVE  TellersProgress'
<1> SUFFICES ASSUME NEW t \in Conns, stage'[t] \in Telling
             PROVE  /\ t \in pairOf'[sessOf'[t]]
                    /\ \A h \in PairHost(t)', c \in PairClient(t)' :
                         /\ stage'[t] \in {"tellClient", "goHost", "goClient"} /\ h \in open'
                            => c \in heardOf'[h]
                         /\ stage'[t] \in {"goHost", "goClient"} /\ c \in open'
                            => h \in heardOf'[c]
                         /\ stage'[t] = "goClient" /\ h \in open' => "go" \in told'[h]
  BY DEF TellersProgress
<1>1. CASE TryPair(t)
  <2>1. t \in members[sessOf[t]]
    BY <1>1 DEF TryPair, SessionInv, SlotIffLive, TypeOK, Live
  <2> QED
    BY <1>1, <2>1 DEF TryPair, TypeOK
<1>2. CASE stage[t] \in Telling
  <2>1. t \in pairOf[sessOf[t]] /\ stage[t] # "new"
    BY <1>2 DEF TellersProgress, Telling
  <2>2. sessOf'[t] = sessOf[t] /\ pairOf'[sessOf'[t]] = pairOf[sessOf[t]]
    BY <2>1 DEF Grows, TypeOK
  <2>3. PairHost(t)' = PairHost(t) /\ PairClient(t)' = PairClient(t)
    BY <2>2 DEF PairHost, PairClient, HostIn, ClientIn
  <2>4. PICK h \in Hosts, c \in Clients :
          /\ PairHost(t) = {h} /\ PairClient(t) = {c}
          /\ stage[h] # "new" /\ stage[c] # "new"
    BY <2>1, PairedHavePartners
  <2>5. /\ h \in open' => h \in open
        /\ c \in open' => c \in open
        /\ heardOf[h] \subseteq heardOf'[h] /\ heardOf[c] \subseteq heardOf'[c]
        /\ told[h] \subseteq told'[h]
    BY <2>4, RolesAssumption DEF Grows
  <2>6. /\ stage[t] \in {"tellClient", "goHost", "goClient"} /\ h \in open => c \in heardOf[h]
        /\ stage[t] \in {"goHost", "goClient"} /\ c \in open => h \in heardOf[c]
        /\ stage[t] = "goClient" /\ h \in open => "go" \in told[h]
    BY <1>2, <2>4 DEF TellersProgress
  <2> SUFFICES
        /\ stage'[t] \in {"tellClient", "goHost", "goClient"} /\ h \in open' => c \in heardOf'[h]
        /\ stage'[t] \in {"goHost", "goClient"} /\ c \in open' => h \in heardOf'[c]
        /\ stage'[t] = "goClient" /\ h \in open' => "go" \in told'[h]
    BY <2>1, <2>2, <2>3, <2>4
  <2>7. CASE stage'[t] = stage[t]
    BY <2>5, <2>6, <2>7
  <2>8. CASE TellHost(t)
    BY <2>4, <2>8, RolesAssumption DEF TellHost, TellPaired, TypeOK
  <2>9. CASE TellClient(t)
    BY <2>4, <2>5, <2>6, <2>9, RolesAssumption DEF TellClient, TellPaired, TypeOK
  <2>10. CASE GoHost(t)
    BY <2>4, <2>5, <2>6, <2>10, RolesAssumption DEF GoHost, TellGo, Send, TypeOK
  <2>11. CASE GoClient(t)
    BY <2>11 DEF GoClient, TellGo, TypeOK, Telling
  <2>12. \/ stage'[t] = stage[t]
         \/ TellHost(t) \/ TellClient(t) \/ GoHost(t) \/ GoClient(t)
    BY <1>2, OwnHandlerMoves DEF Handler, RefuseHello, RefuseRole, Register, SendReflected,
       ReadReady, TryPair, TryPairReturns, ReadError, Cleanup, Telling
  <2> QED
    BY <2>7, <2>8, <2>9, <2>10, <2>11, <2>12
<1>3. stage[t] \in Telling \/ TryPair(t)
  <2>1. ASSUME RefuseHello(t) \/ RefuseRole(t) \/ Register(t) \/ SendReflected(t) \/ ReadReady(t)
               \/ TryPairReturns(t) \/ ReadError(t) \/ Cleanup(t)
        PROVE  stage'[t] \notin Telling
    BY <2>1 DEF RefuseHello, RefuseRole, Register, SendReflected, ReadReady, TryPairReturns,
                ReadError, Cleanup, Telling, TypeOK
  <2>2. TellHost(t) \/ TellClient(t) \/ GoHost(t) \/ GoClient(t) => stage[t] \in Telling
    BY DEF TellHost, TellClient, TellPaired, GoHost, GoClient, TellGo, Telling
  <2> QED
    BY <2>1, <2>2, OwnHandlerMoves DEF Handler
<1> QED
  BY <1>1, <1>2, <1>3

\* Go is written after both Paired messages have been.
LEMMA GoStep ==
  ASSUME TypeOK, PairsAreReal, HeardWithinPair, HeardWithinPair', TellersProgress,
         GoMeansIntroduced, Grows, PairsAreReal', [Next]_vars
  PROVE  GoMeansIntroduced'
<1>0. TypeOK'
  BY TypeStep
<1> SUFFICES ASSUME NEW c \in Conns, "go" \in told'[c]
             PROVE  /\ heardOf'[c] # {}
                    /\ \A d \in heardOf'[c] :
                         /\ d \in open' => c \in heardOf'[d]
                         /\ (c \in Clients /\ d \in open') => "go" \in told'[d]
  BY DEF GoMeansIntroduced
<1>1. ASSUME NEW e \in heardOf[c],
             e \in open => c \in heardOf[e],
             (c \in Clients /\ e \in open) => "go" \in told[e]
      PROVE  /\ heardOf'[c] # {}
             /\ \A d \in heardOf'[c] :
                  /\ d \in open' => c \in heardOf'[d]
                  /\ (c \in Clients /\ d \in open') => "go" \in told'[d]
  <2>1. e \in Conns /\ Partners(c, e)
    BY <1>1 DEF HeardWithinPair, TypeOK
  <2>2. stage[e] # "new"
    BY <2>1, PartnersAreReal
  <2>3. /\ e \in open' => e \in open
        /\ heardOf[c] \subseteq heardOf'[c] /\ heardOf[e] \subseteq heardOf'[e]
        /\ told[e] \subseteq told'[e]
    BY <2>1, <2>2 DEF Grows
  <2>4. \A d \in heardOf'[c] : d = e
    <3>1. \A d \in heardOf'[c] : Partners(c, d)' /\ Partners(c, e)'
      BY <1>1, <2>3 DEF HeardWithinPair
    <3> QED
      BY <3>1 DEF Partners
  <2> QED
    BY <1>1, <2>3, <2>4
<1>2. CASE "go" \in told[c]
  BY <1>1, <1>2 DEF GoMeansIntroduced
<1>3. CASE "go" \notin told[c]
  <2>1. PICK t \in Conns : GoHost(t) \/ GoClient(t)
    BY <1>3, OnlyTellersSayGo
  <2>2. stage[t] \in Telling
    BY <2>1 DEF GoHost, GoClient, TellGo, Telling
  <2>3. t \in pairOf[sessOf[t]]
    BY <2>2 DEF TellersProgress
  <2>4. PICK h \in Hosts, d \in Clients : PairHost(t) = {h} /\ PairClient(t) = {d}
    BY <2>3, PairedHavePartners
  <2>5. CASE GoHost(t)
    <3>1. c = h /\ c \in open /\ stage[t] = "goHost"
      BY <1>3, <2>4, <2>5 DEF GoHost, TellGo, Send, TypeOK
    <3>2. d \in heardOf[h] /\ (d \in open => h \in heardOf[d])
      BY <2>2, <2>4, <3>1 DEF TellersProgress
    <3> QED
      BY <1>1, <3>1, <3>2, RolesAssumption
  <2>6. CASE GoClient(t)
    <3>1. c = d /\ c \in open /\ stage[t] = "goClient"
      BY <1>3, <2>4, <2>6 DEF GoClient, TellGo, Send, TypeOK
    <3>2. h \in heardOf[d] /\ (h \in open => d \in heardOf[h] /\ "go" \in told[h])
      BY <2>2, <2>4, <3>1 DEF TellersProgress
    <3> QED
      BY <1>1, <3>1, <3>2, RolesAssumption
  <2> QED
    BY <2>1, <2>5, <2>6
<1> QED
  BY <1>2, <1>3

\* Every step keeps what is known of pairs and introductions.
LEMMA PairingStep == TypeOK /\ SessionInv /\ PairingInv /\ [Next]_vars => PairingInv'
<1> SUFFICES ASSUME TypeOK, SessionInv, PairingInv, [Next]_vars PROVE PairingInv'
  OBVIOUS
<1>1. Grows
  BY StepGrows
<1>2. PairsAreReal'
  BY <1>1, PairsStep DEF PairingInv
<1>3. HeardWithinPair'
  BY <1>1, HeardStep DEF PairingInv
<1>4. TellersProgress'
  BY <1>1, TellersStep DEF PairingInv
<1>5. GoMeansIntroduced'
  BY <1>1, <1>2, <1>3, GoStep DEF PairingInv
<1> QED
  BY <1>2, <1>3, <1>4, <1>5 DEF PairingInv

\* Nobody is paired or introduced at first.
LEMMA InitPairing == Init => PairingInv
  BY DEF Init, PairingInv, PairsAreReal, HeardWithinPair, TellersProgress,
         GoMeansIntroduced, Telling

-----------------------------------------------------------------------------
(* Relaying: which tokens the table links, and where datagrams went.       *)

\* What tryPair pairs and wires: the only two members of its session.
LEMMA TryPairWires ==
  ASSUME TypeOK, SessionInv, NEW c \in Conns, TryPair(c)
  PROVE  \E h \in Hosts, d \in Clients :
           /\ relays' = Wire(h, d)
           /\ Partners(h, d)' /\ Partners(d, h)'
           /\ pairOf[sessOf[h]] = {} /\ pairOf[sessOf[d]] = {}
           /\ pairOf' = [pairOf EXCEPT ![sessOf[c]] = {h, d}]
           /\ sessOf[h] = sessOf[c] /\ sessOf[d] = sessOf[c]
<1> DEFINE s == sessOf[c]
<1>1. /\ pairOf[s] = {} /\ sessOf' = sessOf /\ s \in Conns
      /\ pairOf' = [pairOf EXCEPT ![s] = members[s]]
  BY DEF TryPair, CanPair, TypeOK
<1>2. PICK h \in HostIn(members[s]), d \in ClientIn(members[s]) : relays' = Wire(h, d)
  BY DEF TryPair
<1>3. h \in Hosts /\ d \in Clients /\ h \in members[s] /\ d \in members[s]
  BY <1>2 DEF HostIn, ClientIn
<1>4. members[s] = {h, d} /\ CodeOf[h] = CodeOf[d]
  BY <1>1, <1>3, RolesAssumption DEF SessionInv, OneOfEachRole, SameRole, TypeOK
<1>5. sessOf[h] = s /\ sessOf[d] = s
  BY <1>1, <1>3, RolesAssumption DEF SessionInv, SlotIffLive
<1>6. Partners(h, d)' /\ Partners(d, h)'
  BY <1>1, <1>3, <1>4, <1>5, RolesAssumption DEF Partners, SameRole, TypeOK
<1> QED
  BY <1>1, <1>2, <1>3, <1>4, <1>5, <1>6

\* A step leaves a token's link alone or removes it, unless it is the pairing
\* of a session that had not paired.
LEMMA LinkStep ==
  ASSUME TypeOK, SessionInv, [Next]_vars, NEW t \in Conns
  PROVE  \/ PeerOf(t)' \in {None, PeerOf(t)}
         \/ pairOf[sessOf[t]] = {} /\ \E p \in Conns : PeerOf(t)' = p /\ Partners(t, p)'
<1>1. ASSUME relays' = relays PROVE PeerOf(t)' = PeerOf(t)
  BY <1>1 DEF PeerOf
<1>2. ASSUME NEW T, relays' = Without(T) PROVE PeerOf(t)' \in {None, PeerOf(t)}
  BY <1>2 DEF Without, PeerOf
<1>3. ASSUME NEW u \in Conns, relays' = NoteSender(u) PROVE PeerOf(t)' = PeerOf(t)
  BY <1>3 DEF NoteSender, Put, PeerOf
<1>4. ASSUME NEW c \in Conns, TryPair(c)
      PROVE  \/ PeerOf(t)' = PeerOf(t)
             \/ pairOf[sessOf[t]] = {} /\ \E p \in Conns : PeerOf(t)' = p /\ Partners(t, p)'
  <2>1. PICK h \in Hosts, d \in Clients :
          /\ relays' = Wire(h, d) /\ Partners(h, d)' /\ Partners(d, h)'
          /\ pairOf[sessOf[h]] = {} /\ pairOf[sessOf[d]] = {}
    BY <1>4, TryPairWires
  <2>2. h \in Conns /\ d \in Conns /\ h # d
    BY RolesAssumption
  <2>3. CASE t \notin {h, d}
    BY <2>1, <2>3 DEF Wire, PeerOf
  <2>4. CASE t = h
    <3>1. PeerOf(t)' = d
      BY <2>1, <2>2, <2>4 DEF Wire, PeerOf, Paired, TypeOK, TableTypeOK, Route
    <3> QED
      BY <2>1, <2>2, <2>4, <3>1
  <2>5. CASE t = d
    <3>1. PeerOf(t)' = h
      BY <2>1, <2>2, <2>5 DEF Wire, PeerOf, Paired, TypeOK, TableTypeOK, Route
    <3> QED
      BY <2>1, <2>2, <2>5, <3>1
  <2> QED
    BY <2>3, <2>4, <2>5
<1>5. CASE ClockTick
  BY <1>5 DEF ClockTick, Tick, PeerOf, TypeOK, TableTypeOK, Route
<1>6. ASSUME NEW c \in Conns, Handler(c), ~TryPair(c) PROVE relays' = relays
  BY <1>6 DEF Handler, SendReflected, ReadReady, TryPairReturns, TellHost, TellClient,
     GoHost, GoClient, TellPaired, TellGo, ReadError, Cleanup, tableVars
<1>7. ASSUME NEW c \in Conns, Peer(c) PROVE relays' = relays \/ relays' = NoteSender(c)
  BY <1>7 DEF Peer, RefuseHello, RefuseRole, Register, Drop, ReflectProbe, Reflect,
     RelayDatagram, Relay, tableVars
<1>8. ASSUME Admin \/ Sweep \/ UNCHANGED vars
      PROVE  relays' = relays \/ \E T : relays' = Without(T)
  BY <1>8 DEF Admin, DeleteSession, CloseConn, AdminDeleteRelay, DeleteRelay, AdminPrune,
     PruneRelays, Sweep, GcRelay, vars, tableVars
<1> QED
  BY <1>1, <1>2, <1>3, <1>4, <1>5, <1>6, <1>7, <1>8 DEF Next

LinksWithinPair ==
  \A t \in DOMAIN relays : \A p \in Conns : relays[t].peer = p => Partners(t, p)

\* What the table links before a step is a partnership after it.
LEMMA LinksStep ==
  ASSUME TypeOK, SessionInv, PairsAreReal, LinksWithinPair, Grows, [Next]_vars
  PROVE  LinksWithinPair'
<1> SUFFICES ASSUME NEW t \in DOMAIN relays', NEW p \in Conns, relays'[t].peer = p
             PROVE  Partners(t, p)'
  BY DEF LinksWithinPair
<1>1. t \in Conns /\ PeerOf(t)' = p
  BY TypeStep DEF TypeOK, TableTypeOK, PeerOf
<1>2. CASE PeerOf(t) = p
  <2>1. t \in DOMAIN relays /\ relays[t].peer = p
    BY <1>2, ConnsAssumption DEF PeerOf
  <2>2. Partners(t, p)
    BY <2>1 DEF LinksWithinPair
  <2> QED
    BY <1>1, <2>2, PartnersStay
<1>3. CASE \E q \in Conns : PeerOf(t)' = q /\ Partners(t, q)'
  BY <1>1, <1>3
<1> QED
  BY <1>1, <1>2, <1>3, LinkStep, ConnsAssumption

\* A step carries a datagram only to the peer its sender is linked to.
LEMMA DeliveredStep ==
  ASSUME TypeOK, [Next]_vars, NEW c \in Conns, NEW d \in delivered'[c]
  PROVE  d \in delivered[c] \/ (d \in Conns /\ "go" \in told[d] /\ PeerOf(d) = c)
<1>1. ASSUME NEW e \in Conns, RelayDatagram(e)
      PROVE  d \in delivered[c] \/ (d = e /\ "go" \in told[d] /\ PeerOf(d) = c)
  BY <1>1 DEF RelayDatagram, Relay, TypeOK, TableTypeOK
<1>2. ASSUME NEW e \in Conns, Handler(e) PROVE delivered' = delivered
  BY <1>2 DEF Handler, SendReflected, ReadReady, TryPair, TryPairReturns, TellHost, TellClient,
     GoHost, GoClient, TellPaired, TellGo, ReadError, Cleanup, tableVars
<1>3. ASSUME NEW e \in Conns, Peer(e), ~RelayDatagram(e) PROVE delivered' = delivered
  BY <1>3 DEF Peer, RefuseHello, RefuseRole, Register, Drop, ReflectProbe, Reflect, tableVars
<1>4. ASSUME Admin \/ Sweep \/ ClockTick \/ UNCHANGED vars PROVE delivered' = delivered
  BY <1>4 DEF Admin, DeleteSession, CloseConn, AdminDeleteRelay, DeleteRelay, AdminPrune,
     PruneRelays, Sweep, GcRelay, ClockTick, Tick, vars, tableVars
<1> QED
  BY <1>1, <1>2, <1>3, <1>4 DEF Next

\* Every step keeps the relay table within the pairs.
LEMMA RelayStep == IInv /\ [Next]_vars => RelayWithinPair'
<1> SUFFICES ASSUME IInv, [Next]_vars PROVE RelayWithinPair'
  OBVIOUS
<1>1. Grows /\ TypeOK' /\ PairingInv'
  BY StepGrows, TypeStep, PairingStep DEF IInv
<1>2. LinksWithinPair'
  BY <1>1, LinksStep, ConnsAssumption DEF IInv, PairingInv, RelayWithinPair, LinksWithinPair
<1>3. ASSUME NEW c \in Conns, NEW d \in delivered'[c] PROVE heardOf'[d] = {c}
  <2>1. d \in Conns
    BY <1>1 DEF TypeOK, TableTypeOK
  <2>2. c \in heardOf[d]
    <3>1. CASE d \in delivered[c]
      BY <3>1 DEF IInv, RelayWithinPair
    <3>2. CASE "go" \in told[d] /\ PeerOf(d) = c
      <4>1. Partners(d, c)
        BY <2>1, <3>2, ConnsAssumption DEF PeerOf, IInv, RelayWithinPair
      <4>2. heardOf[d] # {} /\ \A e \in heardOf[d] : e \in Conns /\ Partners(d, e)
        BY <2>1, <3>2 DEF IInv, PairingInv, GoMeansIntroduced, HeardWithinPair, TypeOK
      <4> QED
        BY <2>1, <4>1, <4>2, PartnersAreReal DEF IInv, PairingInv
    <3> QED
      BY <1>3, <3>1, <3>2, DeliveredStep DEF IInv
  <2>3. c \in heardOf'[d] /\ \A e \in heardOf'[d] : Partners(d, e)'
    BY <1>1, <2>1, <2>2 DEF Grows, PairingInv, HeardWithinPair
  <2> QED
    BY <2>3 DEF Partners
<1>4. \A t \in DOMAIN relays' : relays'[t].peer # None => relays'[t].peer \in Conns
  BY <1>1 DEF TypeOK, TableTypeOK, Route
<1> QED
  BY <1>2, <1>3, <1>4 DEF RelayWithinPair, LinksWithinPair

-----------------------------------------------------------------------------
(* The theorems.                                                           *)

\* The inductive invariant holds of a freshly made server.
LEMMA InitIInv == Init => IInv
  BY InitType, InitSessions, InitPairing DEF Init, TableInit, IInv, RelayWithinPair

\* The inductive invariant is kept by every step.
LEMMA IInvStep == IInv /\ [Next]_vars => IInv'
  BY TypeStep, SessionStep, PairingStep, RelayStep DEF IInv

\* The inductive invariant holds throughout.
LEMMA Invariance == Spec => []IInv
  BY InitIInv, IInvStep, PTL DEF Spec

\* tryPair's promise: peers are introduced to each other and to nobody else,
\* after both said they are ready.
THEOREM IntroductionsAreMutual == Spec => []IntroducedToEachOther
<1>1. IInv => IntroducedToEachOther
  <2> SUFFICES ASSUME IInv, NEW c \in Conns, NEW d \in heardOf[c]
               PROVE  /\ Partners(c, d) /\ heardOf[c] = {d} /\ heardOf[d] \subseteq {c}
                      /\ {c, d} \subseteq ready
    BY DEF IntroducedToEachOther
  <2>1. d \in Conns /\ Partners(c, d)
    BY DEF IInv, PairingInv, HeardWithinPair, TypeOK
  <2>2. Partners(d, c) /\ {c, d} \subseteq ready
    BY <2>1, PartnersAreReal DEF IInv, PairingInv
  <2>3. \A e \in Conns : (Partners(c, e) => e = d) /\ (Partners(d, e) => e = c)
    BY <2>1, <2>2, PartnersAreReal DEF IInv, PairingInv
  <2> QED
    BY <2>1, <2>2, <2>3 DEF IInv, PairingInv, HeardWithinPair, TypeOK
<1> QED
  BY <1>1, Invariance, PTL

\* Whoever is told to go has been introduced, and so has its partner if it could
\* still be reached; the client is told last.
THEOREM GoFollowsIntroduction == Spec => []GoMeansIntroduced
<1>1. IInv => GoMeansIntroduced
  BY DEF IInv, PairingInv
<1> QED
  BY <1>1, Invariance, PTL

\* The relay table never links, and the UDP loop never carries a datagram
\* between, two connections that were not introduced to each other.
THEOREM RelayStaysWithinPairs == Spec => []RelayWithinPair
<1>1. IInv => RelayWithinPair
  BY DEF IInv
<1> QED
  BY <1>1, Invariance, PTL

\* Once a paired token's link is gone, nothing the server does restores it.
THEOREM CutIsFinal == Spec => CutStaysCut
<1>1. IInv /\ [Next]_vars =>
        [\A c \in Conns :
           (c \in pairOf[sessOf[c]] /\ PeerOf(c) = None) => (PeerOf(c) = None)']_vars
  BY LinkStep DEF IInv
<1> QED
  BY <1>1, Invariance, PTL DEF Spec, CutStaysCut

-----------------------------------------------------------------------------
(* tryPair misses nobody.                                                  *)

MissInv == ReadyHaveReflected /\ NoReadyPairMissed

\* A step that says nobody is ready, seats nobody and takes no handler from the
\* door of tryPair keeps the invariant.
LEMMA MissFrame ==
  ASSUME MissInv, ready' = ready, public \subseteq public',
         \A s \in Conns : members'[s] \subseteq members[s] /\ pairOf'[s] = pairOf[s],
         \A c \in Conns : stage[c] = "pairing" => stage'[c] = "pairing",
         \A c \in ready : stage'[c] \in {"new", "registered"} => stage[c] \in {"new", "registered"}
  PROVE  MissInv'
<1>1. ReadyHaveReflected'
  BY DEF MissInv, ReadyHaveReflected
<1>2. NoReadyPairMissed'
  <2> SUFFICES ASSUME NEW s \in Conns, NEW h \in HostIn(members[s])', NEW c \in ClientIn(members[s])',
                      {h, c} \subseteq ready, pairOf'[s] = {}
               PROVE  "pairing" \in {stage'[h], stage'[c]}
    BY DEF NoReadyPairMissed
  <2>1. h \in HostIn(members[s]) /\ c \in ClientIn(members[s]) /\ pairOf[s] = {}
    BY DEF HostIn, ClientIn
  <2>2. h \in Conns /\ c \in Conns
    BY <2>1, RolesAssumption DEF HostIn, ClientIn
  <2>3. "pairing" \in {stage[h], stage[c]}
    BY <2>1 DEF MissInv, NoReadyPairMissed
  <2> QED
    BY <2>2, <2>3
<1> QED
  BY <1>1, <1>2 DEF MissInv

\* A new peer is not ready, so it is part of no ready pair.
LEMMA MissRegister ==
  ASSUME TypeOK, MissInv, NEW c \in Conns, Register(c)
  PROVE  MissInv'
<1>1. /\ stage[c] = "new" /\ stage' = [stage EXCEPT ![c] = "registered"]
      /\ members' = [members EXCEPT ![Lookup(c)] = @ \cup {c}]
      /\ UNCHANGED <<public, ready, pairOf>>
  BY DEF Register
<1>2. c \notin ready
  BY <1>1 DEF MissInv, ReadyHaveReflected
<1>3. ReadyHaveReflected'
  BY <1>1, <1>2 DEF MissInv, ReadyHaveReflected, TypeOK
<1>4. ASSUME NEW s \in Conns, NEW d \in members'[s], d # c PROVE d \in members[s]
  BY <1>1, <1>4, LookupType DEF TypeOK
<1>5. NoReadyPairMissed'
  <2> SUFFICES ASSUME NEW s \in Conns, NEW h \in HostIn(members[s])', NEW d \in ClientIn(members[s])',
                      {h, d} \subseteq ready, pairOf[s] = {}
               PROVE  "pairing" \in {stage'[h], stage'[d]}
    BY <1>1 DEF NoReadyPairMissed
  <2>1. h # c /\ d # c
    BY <1>2
  <2>2. h \in HostIn(members[s]) /\ d \in ClientIn(members[s])
    BY <1>4, <2>1 DEF HostIn, ClientIn
  <2>3. "pairing" \in {stage[h], stage[d]}
    BY <2>2 DEF MissInv, NoReadyPairMissed
  <2> QED
    BY <1>1, <2>1, <2>2, <2>3 DEF TypeOK, HostIn, ClientIn
<1> QED
  BY <1>3, <1>5 DEF MissInv

\* Who says it is ready goes to tryPair itself.
LEMMA MissReadReady ==
  ASSUME TypeOK, MissInv, NEW c \in Conns, ReadReady(c)
  PROVE  MissInv'
<1>1. /\ stage[c] = "reading" /\ stage' = [stage EXCEPT ![c] = "pairing"]
      /\ c \in public /\ ready' = ready \cup {c}
      /\ UNCHANGED <<public, members, pairOf>>
  BY DEF ReadReady, sessVars
<1>2. ReadyHaveReflected'
  BY <1>1 DEF MissInv, ReadyHaveReflected, TypeOK
<1>3. NoReadyPairMissed'
  <2> SUFFICES ASSUME NEW s \in Conns, NEW h \in HostIn(members[s]), NEW d \in ClientIn(members[s]),
                      {h, d} \subseteq ready \cup {c}, pairOf[s] = {}
               PROVE  "pairing" \in {stage'[h], stage'[d]}
    BY <1>1 DEF NoReadyPairMissed
  <2>1. h \in Conns /\ d \in Conns
    BY RolesAssumption DEF HostIn, ClientIn
  <2>2. CASE c \in {h, d}
    BY <1>1, <2>2 DEF TypeOK
  <2>3. CASE c \notin {h, d}
    <3>1. "pairing" \in {stage[h], stage[d]}
      BY <2>3 DEF MissInv, NoReadyPairMissed
    <3> QED
      BY <1>1, <2>1, <2>3, <3>1 DEF TypeOK
  <2> QED
    BY <2>2, <2>3
<1> QED
  BY <1>2, <1>3 DEF MissInv

\* A handler that comes back from tryPair has paired the session, or had no ready
\* pair in it.
LEMMA MissTryPair ==
  ASSUME TypeOK, SessionInv, MissInv, NEW c \in Conns, TryPair(c) \/ TryPairReturns(c)
  PROVE  MissInv'
<1>1. /\ stage[c] = "pairing" /\ stage'[c] \in {"tellHost", "reading"}
      /\ \A d \in Conns : d # c => stage'[d] = stage[d]
      /\ UNCHANGED <<public, ready, members>>
      /\ \A s \in Conns : pairOf'[s] = {} => pairOf[s] = {}
  BY DEF TryPair, TryPairReturns, CanPair, HostIn, sessVars, TypeOK
<1>2. ReadyHaveReflected'
  BY <1>1 DEF MissInv, ReadyHaveReflected, TypeOK
<1>3. NoReadyPairMissed'
  <2> SUFFICES ASSUME NEW s \in Conns, NEW h \in HostIn(members[s]), NEW d \in ClientIn(members[s]),
                      {h, d} \subseteq ready, pairOf'[s] = {}
               PROVE  "pairing" \in {stage'[h], stage'[d]}
    BY <1>1 DEF NoReadyPairMissed
  <2>1. h \in Conns /\ d \in Conns /\ h \in members[s] /\ d \in members[s] /\ pairOf[s] = {}
    BY <1>1, RolesAssumption DEF HostIn, ClientIn
  <2>2. CASE c \notin {h, d}
    <3>1. "pairing" \in {stage[h], stage[d]}
      BY <2>1 DEF MissInv, NoReadyPairMissed
    <3> QED
      BY <1>1, <2>1, <2>2, <3>1
  <2>3. CASE c \in {h, d}
    <3>1. s = sessOf[c]
      BY <2>1, <2>3 DEF SessionInv, SlotIffLive
    <3>2. members[s] \subseteq {h, d}
      <4> SUFFICES ASSUME NEW e \in members[s] PROVE e \in {h, d}
        OBVIOUS
      <4>1. e \in Conns /\ (SameRole(e, h) \/ SameRole(e, d))
        BY RolesAssumption DEF SameRole, HostIn, ClientIn, TypeOK
      <4> QED
        BY <2>1, <4>1 DEF SessionInv, OneOfEachRole
    <3>3. CanPair(s)
      BY <2>1, <3>2 DEF CanPair
    <3>4. TryPair(c)
      BY <3>1, <3>3 DEF TryPairReturns
    <3>5. pairOf'[s] = members[s]
      BY <3>1, <3>4 DEF TryPair, TypeOK
    <3> QED
      BY <2>1, <3>5
  <2> QED
    BY <2>2, <2>3
<1> QED
  BY <1>2, <1>3 DEF MissInv

\* Every step keeps the invariant.
LEMMA MissStep == TypeOK /\ SessionInv /\ MissInv /\ [Next]_vars => MissInv'
<1> SUFFICES ASSUME TypeOK, SessionInv, MissInv, [Next]_vars PROVE MissInv'
  OBVIOUS
<1> USE DEF sessVars, wireVars
<1>1. ASSUME NEW c \in Conns, RefuseHello(c) \/ RefuseRole(c) \/ ReadError(c) PROVE MissInv'
  BY <1>1, MissFrame DEF RefuseHello, RefuseRole, ReadError, TypeOK
<1>2. ASSUME NEW c \in Conns, SendReflected(c) PROVE MissInv'
  BY <1>2, MissFrame DEF SendReflected, TypeOK
<1>3. ASSUME NEW c \in Conns, NEW from, NEW to, NEW other, NEW next \in Telling \cup {"reading"},
             from # "pairing",
             TellPaired(c, from, to, other, next) \/ TellGo(c, from, to, next)
      PROVE  MissInv'
  BY <1>3, MissFrame DEF TellPaired, TellGo, TypeOK, Telling
<1>4. ASSUME NEW c \in Conns, TellHost(c) \/ TellClient(c) \/ GoHost(c) \/ GoClient(c) PROVE MissInv'
  BY <1>3, <1>4 DEF TellHost, TellClient, GoHost, GoClient, Telling
<1>5. ASSUME NEW c \in Conns, Cleanup(c) PROVE MissInv'
  BY <1>5, MissFrame DEF Cleanup, TypeOK
<1>6. ASSUME NEW c \in Conns, Drop(c) \/ CloseConn(c) \/ RelayDatagram(c) \/ AdminDeleteRelay(c)
      PROVE  MissInv'
  BY <1>6, MissFrame DEF Drop, CloseConn, RelayDatagram, AdminDeleteRelay, Unsignaled
<1>7. ASSUME NEW c \in Conns, ReflectProbe(c) PROVE MissInv'
  BY <1>7, MissFrame DEF ReflectProbe
<1>8. ASSUME NEW k \in Codes, DeleteSession(k) PROVE MissInv'
  BY <1>8, MissFrame DEF DeleteSession
<1>9. CASE AdminPrune \/ Sweep \/ ClockTick
  BY <1>9, MissFrame DEF AdminPrune, Sweep, ClockTick, Unsignaled
<1>10. CASE UNCHANGED vars
  BY <1>10, MissFrame DEF vars
<1> QED
  BY <1>1, <1>2, <1>4, <1>5, <1>6, <1>7, <1>8, <1>9, <1>10, MissRegister, MissReadReady, MissTryPair
     DEF Next, Handler, Peer, Admin

\* No interleaving of two ready messages, registrations, cleanups and admin
\* deletes leaves a host and a client that are ready waiting for each other in a
\* session that has not paired: one of their handlers is on its way to tryPair.
THEOREM NobodyIsMissed == Spec => []NoReadyPairMissed
<1>1. Init => TypeOK /\ SessionInv /\ MissInv
  BY InitType, InitSessions DEF Init, MissInv, ReadyHaveReflected, NoReadyPairMissed, HostIn, ClientIn
<1>2. TypeOK /\ SessionInv /\ MissInv /\ [Next]_vars => TypeOK' /\ SessionInv' /\ MissInv'
  BY TypeStep, SessionStep, MissStep
<1>3. MissInv => NoReadyPairMissed
  BY DEF MissInv
<1> QED
  BY <1>1, <1>2, <1>3, PTL DEF Spec

-----------------------------------------------------------------------------
(* What holds while no operator deletes a session, and while no route is   *)
(* deleted or swept.                                                       *)

\* The parts of Next are parts of Next.
LEMMA PartsOfNext ==
  /\ [PeersAct \/ RoutesAge]_vars => [Next]_vars
  /\ [PeersAct]_vars => [PeersAct \/ RoutesAge]_vars
  BY DEF PeersAct, RoutesAge, Next, Admin

\* Steps of the handshake, of pairing and of the routes move nobody.
LEMMA FoundFrame ==
  ASSUME LiveAreFound, UNCHANGED <<sessOf, sessions>>,
         \A c \in Conns : stage'[c] \in Live => stage[c] \in Live
  PROVE  LiveAreFound'
  BY DEF LiveAreFound

\* A new peer is filed under its code, where the others of that code are.
LEMMA FoundRegister ==
  ASSUME TypeOK, LiveAreFound, NEW c \in Conns, Register(c)
  PROVE  LiveAreFound'
<1>1. /\ stage' = [stage EXCEPT ![c] = "registered"]
      /\ sessOf' = [sessOf EXCEPT ![c] = Lookup(c)]
      /\ sessions' = [k \in DOMAIN sessions \cup {CodeOf[c]} |->
                        IF k = CodeOf[c] THEN Lookup(c) ELSE sessions[k]]
  BY DEF Register
<1> SUFFICES ASSUME NEW d \in Conns, stage'[d] \in Live
             PROVE  CodeOf[d] \in DOMAIN sessions' /\ sessions'[CodeOf[d]] = sessOf'[d]
  BY DEF LiveAreFound
<1>2. CASE d = c
  BY <1>1, <1>2 DEF TypeOK
<1>3. CASE d # c
  <2>1. CodeOf[d] \in DOMAIN sessions /\ sessions[CodeOf[d]] = sessOf[d] /\ sessOf'[d] = sessOf[d]
    BY <1>1, <1>3 DEF LiveAreFound, TypeOK
  <2>2. CodeOf[d] = CodeOf[c] => Lookup(c) = sessions[CodeOf[d]]
    BY <2>1 DEF Lookup
  <2> QED
    BY <1>1, <2>1, <2>2
<1> QED
  BY <1>2, <1>3

\* The entry that a cleanup deletes is the one of its own, now empty, session.
LEMMA FoundCleanup ==
  ASSUME TypeOK, SessionInv, LiveAreFound, NEW c \in Conns, Cleanup(c)
  PROVE  LiveAreFound'
<1>1. /\ stage[c] = "leaving" /\ stage' = [stage EXCEPT ![c] = "done"] /\ sessOf' = sessOf
      /\ sessions' = IF c \in members[sessOf[c]] /\ members[sessOf[c]] \ {c} = {}
                     THEN WithoutCode(CodeOf[c]) ELSE sessions
  BY DEF Cleanup
<1> SUFFICES ASSUME NEW d \in Conns, stage'[d] \in Live
             PROVE  CodeOf[d] \in DOMAIN sessions' /\ sessions'[CodeOf[d]] = sessOf[d]
  BY <1>1 DEF LiveAreFound
<1>2. d # c /\ stage[d] \in Live
  BY <1>1 DEF TypeOK, Live, Telling
<1>3. CodeOf[d] \in DOMAIN sessions /\ sessions[CodeOf[d]] = sessOf[d]
  BY <1>2 DEF LiveAreFound
<1>4. CASE CodeOf[d] = CodeOf[c]
  <2>1. stage[c] \in Live
    BY <1>1 DEF Live
  <2>2. sessOf[d] = sessOf[c] /\ sessOf[c] \in Conns
    BY <1>3, <1>4, <2>1 DEF LiveAreFound, TypeOK
  <2>3. d \in members[sessOf[c]]
    BY <1>2, <2>2 DEF SessionInv, SlotIffLive
  <2> QED
    BY <1>1, <1>2, <1>3, <2>3
<1>5. CASE CodeOf[d] # CodeOf[c]
  BY <1>1, <1>3, <1>5 DEF WithoutCode
<1> QED
  BY <1>4, <1>5

\* Every step but the deletion of a session keeps everybody where the code leads.
LEMMA FoundStep ==
  ASSUME TypeOK, SessionInv, LiveAreFound, [PeersAct \/ RoutesAge]_vars
  PROVE  LiveAreFound'
<1> USE DEF sessVars, wireVars
<1>1. ASSUME NEW c \in Conns, RefuseHello(c) \/ RefuseRole(c) \/ ReadError(c) \/ SendReflected(c)
                             \/ ReadReady(c) \/ TryPair(c) \/ TryPairReturns(c)
      PROVE  LiveAreFound'
  BY <1>1, FoundFrame DEF RefuseHello, RefuseRole, ReadError, SendReflected, ReadReady, TryPair,
     TryPairReturns, TypeOK, Live, Telling
<1>2. ASSUME NEW c \in Conns, NEW from \in Telling, NEW to, NEW other, NEW next,
             TellPaired(c, from, to, other, next) \/ TellGo(c, from, to, next)
      PROVE  LiveAreFound'
  BY <1>2, FoundFrame DEF TellPaired, TellGo, TypeOK, Live
<1>3. ASSUME NEW c \in Conns, TellHost(c) \/ TellClient(c) \/ GoHost(c) \/ GoClient(c)
      PROVE  LiveAreFound'
  BY <1>2, <1>3 DEF TellHost, TellClient, GoHost, GoClient, Telling
<1>4. ASSUME NEW c \in Conns, Drop(c) \/ ReflectProbe(c) \/ RelayDatagram(c) \/ AdminDeleteRelay(c)
      PROVE  LiveAreFound'
  BY <1>4, FoundFrame DEF Drop, ReflectProbe, RelayDatagram, AdminDeleteRelay, Unsignaled
<1>5. CASE AdminPrune \/ Sweep \/ ClockTick
  BY <1>5, FoundFrame DEF AdminPrune, Sweep, ClockTick, Unsignaled
<1>6. CASE UNCHANGED vars
  BY <1>6, FoundFrame DEF vars
<1> QED
  BY <1>1, <1>3, <1>4, <1>5, <1>6, FoundRegister, FoundCleanup DEF PeersAct, RoutesAge, Handler, Peer

\* While no operator deletes a session, every connected peer is found under its
\* code by whoever comes, however peers come, go and replace each other: the
\* orphaned session is the work of an admin delete alone.
THEOREM ConnectedAreFound == SessionsUndeleted => []ConnectedPeersAreFound
<1>1. Init => TypeOK /\ SessionInv /\ LiveAreFound
  BY InitType, InitSessions DEF Init, LiveAreFound, Live, Telling
<1>2. TypeOK /\ SessionInv /\ LiveAreFound /\ [PeersAct \/ RoutesAge]_vars
        => TypeOK' /\ SessionInv' /\ LiveAreFound'
  BY PartsOfNext, TypeStep, SessionStep, FoundStep
<1>3. LiveAreFound => ConnectedPeersAreFound
  BY DEF LiveAreFound, ConnectedPeersAreFound, Live
<1> QED
  BY <1>1, <1>2, <1>3, PTL DEF SessionsUndeleted

\* Without sweep and operator no address is ever forgotten.
LEMMA ReachableStep ==
  ASSUME TypeOK, ReflectedAreReachable, [PeersAct]_vars
  PROVE  ReflectedAreReachable'
<1> USE DEF sessVars, wireVars, tableVars
<1>1. ASSUME public' = public, relays' = relays PROVE ReflectedAreReachable'
  BY <1>1 DEF ReflectedAreReachable, Reachable
<1>2. ASSUME NEW c \in Conns,
             \/ RefuseHello(c) \/ RefuseRole(c) \/ Register(c) \/ ReadError(c) \/ SendReflected(c)
             \/ ReadReady(c) \/ TryPairReturns(c) \/ Cleanup(c) \/ Drop(c)
             \/ TellHost(c) \/ TellClient(c) \/ GoHost(c) \/ GoClient(c)
      PROVE  ReflectedAreReachable'
  BY <1>1, <1>2 DEF RefuseHello, RefuseRole, Register, ReadError, SendReflected, ReadReady,
     TryPairReturns, Cleanup, Drop, TellHost, TellClient, GoHost, GoClient, TellPaired, TellGo
<1>3. ASSUME NEW c \in Conns, TryPair(c) PROVE ReflectedAreReachable'
  <2>1. PICK h \in Conns, d \in Conns : relays' = Wire(h, d)
    BY <1>3, RolesAssumption DEF TryPair, HostIn, ClientIn
  <2>2. ASSUME NEW t, Reachable(t) PROVE Reachable(t)'
    <3>1. t \in DOMAIN relays' /\ (t \in {h, d} => relays'[t] \in {Paired(t, h), Paired(t, d)})
          /\ (t \notin {h, d} => relays'[t] = relays[t])
      BY <2>1, <2>2 DEF Wire, Reachable
    <3>2. \A p : Paired(t, p).known
      BY <2>2 DEF Paired, Reachable, TypeOK, TableTypeOK, Route
    <3> QED
      BY <2>2, <3>1, <3>2 DEF Reachable
  <2> QED
    BY <1>3, <2>2 DEF TryPair, ReflectedAreReachable
<1>4. ASSUME NEW c \in Conns, relays' = NoteSender(c), public' \subseteq public \cup {c}
      PROVE  ReflectedAreReachable'
  BY <1>4 DEF NoteSender, Put, ReflectedAreReachable, Reachable
<1>5. ASSUME NEW c \in Conns, ReflectProbe(c) \/ RelayDatagram(c) PROVE ReflectedAreReachable'
  BY <1>4, <1>5 DEF ReflectProbe, Reflect, RelayDatagram, Relay
<1>6. CASE ClockTick
  BY <1>6 DEF ClockTick, Tick, Unsignaled, ReflectedAreReachable, Reachable, TypeOK, TableTypeOK, Route
<1>7. CASE UNCHANGED vars
  BY <1>1, <1>7 DEF vars
<1> QED
  BY <1>2, <1>3, <1>5, <1>6, <1>7 DEF PeersAct, Handler, Peer

\* While routes are neither swept nor deleted, the server can send to whoever it
\* has linked, before that peer has sent a datagram of its own: what an idle host
\* loses, it loses to the sweep.
THEOREM LinkedAreReachable == RoutesUndeleted => []LinkedPeersAreReachable
<1>1. Init => IInv /\ MissInv /\ ReflectedAreReachable
  BY InitIInv DEF Init, MissInv, ReadyHaveReflected, NoReadyPairMissed, HostIn, ClientIn,
     ReflectedAreReachable
<1>2. IInv /\ MissInv /\ ReflectedAreReachable /\ [PeersAct]_vars
        => IInv' /\ MissInv' /\ ReflectedAreReachable'
  BY PartsOfNext, IInvStep, MissStep, ReachableStep DEF IInv
<1>3. IInv /\ MissInv /\ ReflectedAreReachable => LinkedPeersAreReachable
  <2> SUFFICES ASSUME IInv, MissInv, ReflectedAreReachable,
                      NEW t \in DOMAIN relays, relays[t].peer # None
               PROVE  Reachable(t)
    BY DEF LinkedPeersAreReachable
  <2>1. t \in Conns /\ Partners(t, relays[t].peer) /\ sessOf[t] \in Conns
    BY DEF IInv, RelayWithinPair, TypeOK, TableTypeOK
  <2>2. t \in pairOf[sessOf[t]]
    BY <2>1 DEF Partners
  <2>3. t \in ready
    BY <2>1, <2>2 DEF IInv, PairingInv, PairsAreReal
  <2> QED
    BY <2>3 DEF MissInv, ReadyHaveReflected, ReflectedAreReachable
<1> QED
  BY <1>1, <1>2, <1>3, PTL DEF RoutesUndeleted

-----------------------------------------------------------------------------
(* The server implements the Matchmaker: every step is a step of it.       *)

\* The steps the Matchmaker does not see.
LEMMA Unseen ==
  ASSUME PartnerOf' = PartnerOf, heardOf' = heardOf, Went' = Went, Lost' = Lost,
         Linked' = Linked, delivered' = delivered
  PROVE  UNCHANGED Promise!vars
  BY DEF Promise!vars

\* A datagram's sender being noted changes no link.
LEMMA UnlinkedSteps ==
  ASSUME TypeOK, TypeOK', relays' = relays \/ \E u \in Conns : relays' = NoteSender(u)
  PROVE  Linked' = Linked
<1>1. ASSUME NEW u \in Conns, NEW t \in Conns, relays' = NoteSender(u)
      PROVE  PeerOf(t)' = PeerOf(t)
  BY <1>1 DEF NoteSender, Put, PeerOf
<1>2. ASSUME NEW t \in Conns, relays' = relays PROVE PeerOf(t)' = PeerOf(t)
  BY <1>2 DEF PeerOf
<1> QED
  BY <1>1, <1>2 DEF Linked

\* Whoever a connection has heard of is its partner.
LEMMA HeardIsPartner ==
  ASSUME IInv, NEW a \in Conns, NEW b \in Conns, Partners(a, b)
  PROVE  heardOf[a] \subseteq {b}
  BY PartnersAreReal DEF IInv, PairingInv, HeardWithinPair, TypeOK

\* A freshly made server is a Matchmaker that has matched nobody.
LEMMA RefinesInit == Init => Promise!Init
  BY DEF Init, TableInit, Promise!Init, PartnerOf, Went, Lost, Linked, PeerOf

\* Registration, refusals and the handler steps that say nothing.
LEMMA RefinesQuiet ==
  ASSUME IInv, TypeOK', NEW c \in Conns,
         \/ RefuseHello(c) \/ RefuseRole(c) \/ Register(c) \/ SendReflected(c) \/ ReadReady(c)
         \/ TryPairReturns(c) \/ ReadError(c) \/ Cleanup(c)
  PROVE  Promise!Next \/ UNCHANGED Promise!vars
<1> USE DEF sessVars, wireVars, tableVars
<1>1. CASE RefuseHello(c) \/ RefuseRole(c)
  <2>1. /\ PartnerOf' = PartnerOf /\ heardOf' = heardOf /\ Went' = Went
        /\ Linked' = Linked /\ delivered' = delivered
    BY <1>1 DEF RefuseHello, RefuseRole, PartnerOf, Went, Linked, PeerOf
  <2>2. Lost' = Lost \cup {c}
    BY <1>1 DEF RefuseHello, RefuseRole, Lost, IInv, TypeOK, SessionInv, NewIsFresh
  <2>3. Promise!Lose(c)
    BY <2>1, <2>2 DEF Promise!Lose
  <2> QED
    BY <2>3 DEF Promise!Next
<1>2. CASE Register(c)
  <2>1. Lookup(c) \in Conns
    BY LookupType DEF IInv
  <2>2. c \notin pairOf[sessOf[c]] /\ c \notin pairOf[Lookup(c)]
    BY <1>2, <2>1, RolesAssumption DEF Register, IInv, TypeOK, SessionInv, NewIsFresh, PairingInv,
       PairsAreReal
  <2>3. PartnerOf' = PartnerOf
    <3>1. /\ pairOf' = pairOf
          /\ sessOf'[c] = Lookup(c)
          /\ \A e \in Conns : e # c => sessOf'[e] = sessOf[e]
      BY <1>2 DEF Register, IInv, TypeOK
    <3> QED
      BY <2>2, <3>1 DEF PartnerOf
  <2>4. Lost' = Lost
    BY <1>2 DEF Register, Lost, IInv, TypeOK
  <2> QED
    BY <1>2, <2>3, <2>4, Unseen DEF Register, Went, Linked, PeerOf
<1>3. CASE SendReflected(c)
  <2>1. Went' = Went
    BY <1>3 DEF SendReflected, Send, Went, IInv, TypeOK
  <2>2. Lost' = Lost
    BY <1>3 DEF SendReflected, Lost, IInv, TypeOK
  <2> QED
    BY <1>3, <2>1, <2>2, Unseen DEF SendReflected, PartnerOf, Linked, PeerOf
<1>4. CASE ReadReady(c) \/ TryPairReturns(c) \/ ReadError(c) \/ Cleanup(c)
  <2>1. /\ UNCHANGED <<sessOf, pairOf, heardOf, told, open, relays, delivered>>
        /\ Lost' = Lost
    BY <1>4 DEF ReadReady, TryPairReturns, ReadError, Cleanup, Lost, IInv, TypeOK
  <2> QED
    BY <2>1, Unseen DEF PartnerOf, Went, Linked, PeerOf
<1> QED
  BY <1>1, <1>2, <1>3, <1>4

\* The step in which tryPair holds the mutex is the Matchmaker's match.
LEMMA RefinesTryPair ==
  ASSUME IInv, TypeOK', NEW c \in Conns, TryPair(c)
  PROVE  Promise!Next
<1>1. PICK h \in Hosts, d \in Clients :
        /\ relays' = Wire(h, d)
        /\ Partners(h, d)' /\ Partners(d, h)'
        /\ pairOf[sessOf[h]] = {} /\ pairOf[sessOf[d]] = {}
        /\ pairOf' = [pairOf EXCEPT ![sessOf[c]] = {h, d}]
        /\ sessOf[h] = sessOf[c] /\ sessOf[d] = sessOf[c]
  BY TryPairWires DEF IInv
<1>2. h \in Conns /\ d \in Conns /\ h # d
  BY RolesAssumption
<1>3. /\ UNCHANGED <<sessOf, open, told, heardOf, delivered>> /\ stage[c] = "pairing"
      /\ stage' = [stage EXCEPT ![c] = "tellHost"]
  BY DEF TryPair, wireVars
<1>4. CodeOf[h] = CodeOf[d]
  BY <1>1 DEF Partners
<1>5. PartnerOf[h] = {} /\ PartnerOf[d] = {}
  BY <1>1, <1>2 DEF PartnerOf
<1>6. PartnerOf' = [PartnerOf EXCEPT ![h] = {d}, ![d] = {h}]
  <2>1. ASSUME NEW e \in Conns, e # h, e # d PROVE PartnerOf'[e] = PartnerOf[e]
    <3>1. CASE sessOf[e] = sessOf[c]
      BY <1>1, <1>3, <2>1, <3>1 DEF PartnerOf, IInv, TypeOK
    <3>2. CASE sessOf[e] # sessOf[c]
      BY <1>1, <1>3, <2>1, <3>2 DEF PartnerOf, IInv, TypeOK
    <3> QED
      BY <3>1, <3>2
  <2>2. PartnerOf'[h] = {d} /\ PartnerOf'[d] = {h}
    BY <1>1, <1>2, <1>3 DEF PartnerOf, IInv, TypeOK
  <2>3. /\ PartnerOf = [e \in Conns |-> PartnerOf[e]]
        /\ PartnerOf' = [e \in Conns |-> PartnerOf'[e]]
    BY DEF PartnerOf
  <2> QED
    BY <2>1, <2>2, <2>3, <1>2
<1>7. Linked' = Linked \cup {h, d}
  BY <1>1, <1>2, ConnsAssumption DEF Linked, PeerOf, Wire, Paired, IInv, TypeOK, TableTypeOK, Route
<1>8. Went' = Went /\ Lost' = Lost
  BY <1>3 DEF Went, Lost, IInv, TypeOK
<1>9. Promise!Match(h, d)
  BY <1>3, <1>4, <1>5, <1>6, <1>7, <1>8 DEF Promise!Match
<1> QED
  BY <1>9 DEF Promise!Next

\* The four messages of the handler that paired.
LEMMA RefinesTelling ==
  ASSUME IInv, TypeOK', PairingInv', NEW t \in Conns,
         TellHost(t) \/ TellClient(t) \/ GoHost(t) \/ GoClient(t)
  PROVE  Promise!Next \/ UNCHANGED Promise!vars
<1> USE DEF sessVars, tableVars
<1>1. stage[t] \in Telling /\ stage[t] # "new"
  BY DEF TellHost, TellClient, GoHost, GoClient, TellPaired, TellGo, Telling
<1>2. PICK h \in Hosts, d \in Clients :
        /\ PairHost(t) = {h} /\ PairClient(t) = {d}
        /\ Partners(h, d) /\ Partners(d, h)
        /\ stage[h] # "new" /\ stage[d] # "new"
  BY <1>1, PairedHavePartners DEF IInv, PairingInv, TellersProgress
<1>3. h \in Conns /\ d \in Conns /\ PartnerOf[h] = {d} /\ PartnerOf[d] = {h}
  BY <1>2, RolesAssumption DEF PartnerOf, Partners
<1>4. PartnerOf' = PartnerOf /\ Linked' = Linked /\ UNCHANGED <<open, delivered>>
  BY DEF TellHost, TellClient, GoHost, GoClient, TellPaired, TellGo, PartnerOf, Linked, PeerOf
<1>5. Lost' = Lost
  <2>1. stage' = [stage EXCEPT ![t] = stage'[t]] /\ stage'[t] # "new"
    BY DEF TellHost, TellClient, GoHost, GoClient, TellPaired, TellGo, IInv, TypeOK
  <2> QED
    BY <1>1, <1>4, <2>1 DEF Lost, IInv, TypeOK
<1>6. ASSUME NEW a \in Conns, NEW b \in Conns, PartnerOf[a] = {b}, Partners(a, b),
             NEW from, NEW next, TellPaired(t, from, {a}, {b}, next)
      PROVE  Promise!Next \/ UNCHANGED Promise!vars
  <2>1. Went' = Went
    BY <1>6 DEF TellPaired, Send, Went, IInv, TypeOK
  <2>2. CASE a \in open
    <3>1. heardOf[a] \subseteq {b}
      BY <1>6, HeardIsPartner
    <3>2. heardOf' = [heardOf EXCEPT ![a] = PartnerOf[a]]
      <4>1. heardOf' = [e \in Conns |-> IF e = a THEN heardOf[e] \cup {b} ELSE heardOf[e]]
        BY <1>6, <2>2 DEF TellPaired
      <4>2. heardOf[a] \cup {b} = PartnerOf[a]
        BY <1>6, <3>1
      <4>3. heardOf' = [heardOf EXCEPT ![a] = heardOf[a] \cup {b}]
        BY <4>1 DEF IInv, TypeOK
      <4> QED
        BY <4>2, <4>3
    <3>3. Promise!Introduce(a)
      BY <1>4, <1>5, <1>6, <2>1, <2>2, <3>2 DEF Promise!Introduce, Lost
    <3> QED
      BY <3>3 DEF Promise!Next
  <2>3. CASE a \notin open
    BY <1>4, <1>5, <1>6, <2>1, <2>3, Unseen DEF TellPaired, IInv, TypeOK
  <2> QED
    BY <2>2, <2>3
<1>7. ASSUME NEW a \in Conns, NEW b \in Conns, Partners(a, b), stage[b] # "new",
             a \in open => b \in heardOf[a], b \in open => a \in heardOf[b],
             NEW from, NEW next, TellGo(t, from, {a}, next)
      PROVE  Promise!Next \/ UNCHANGED Promise!vars
  <2>1. heardOf' = heardOf
    BY <1>7 DEF TellGo
  <2>2. CASE a \in open
    <3>1. Went' = Went \cup {a}
      BY <1>7, <2>2 DEF TellGo, Send, Went, IInv, TypeOK
    <3>2. heardOf[a] = {b}
      BY <1>7, <2>2, HeardIsPartner
    <3>3. b \in Lost \/ heardOf[b] = {a}
      <4>1. Partners(b, a)
        BY <1>7, PartnersAreReal DEF IInv, PairingInv
      <4> QED
        BY <1>7, <4>1, HeardIsPartner DEF Lost
    <3>4. Promise!SetOff(a)
      BY <1>4, <1>5, <2>1, <2>2, <3>1, <3>2, <3>3 DEF Promise!SetOff, Lost
    <3> QED
      BY <3>4 DEF Promise!Next
  <2>3. CASE a \notin open
    <3>1. Went' = Went
      BY <1>7, <2>3 DEF TellGo, Send, Went, IInv, TypeOK
    <3> QED
      BY <1>4, <1>5, <2>1, <3>1, Unseen
  <2> QED
    BY <2>2, <2>3
<1>8. /\ stage[t] \in {"tellClient", "goHost", "goClient"} /\ h \in open => d \in heardOf[h]
      /\ stage[t] \in {"goHost", "goClient"} /\ d \in open => h \in heardOf[d]
  BY <1>1, <1>2 DEF IInv, PairingInv, TellersProgress
<1>9. CASE TellHost(t)
  BY <1>2, <1>3, <1>6, <1>9 DEF TellHost
<1>10. CASE TellClient(t)
  BY <1>2, <1>3, <1>6, <1>10 DEF TellClient
<1>11. CASE GoHost(t)
  BY <1>2, <1>3, <1>7, <1>8, <1>11 DEF GoHost, TellGo
<1>12. CASE GoClient(t)
  BY <1>2, <1>3, <1>7, <1>8, <1>12 DEF GoClient, TellGo
<1> QED
  BY <1>9, <1>10, <1>11, <1>12

\* The peers' connections breaking and their datagrams.
LEMMA RefinesPeers ==
  ASSUME IInv, TypeOK', NEW c \in Conns,
         Drop(c) \/ CloseConn(c) \/ ReflectProbe(c) \/ RelayDatagram(c)
  PROVE  Promise!Next \/ UNCHANGED Promise!vars
<1> USE DEF sessVars, wireVars, tableVars
<1>1. CASE Drop(c) \/ CloseConn(c)
  <2>1. /\ PartnerOf' = PartnerOf /\ heardOf' = heardOf /\ Went' = Went
        /\ Linked' = Linked /\ delivered' = delivered
    BY <1>1 DEF Drop, CloseConn, PartnerOf, Went, Linked, PeerOf
  <2>2. Lost' = Lost \cup {c} \/ Lost' = Lost
    BY <1>1 DEF Drop, CloseConn, Lost, IInv, TypeOK, SessionInv, NewIsFresh
  <2> QED
    BY <2>1, <2>2, Unseen DEF Promise!Lose, Promise!Next
<1>2. CASE ReflectProbe(c)
  <2>1. Linked' = Linked
    BY <1>2, UnlinkedSteps DEF ReflectProbe, Reflect, IInv
  <2> QED
    BY <1>2, <2>1, Unseen DEF ReflectProbe, Reflect, PartnerOf, Went, Lost
<1>3. CASE RelayDatagram(c)
  <2>1. Linked' = Linked
    BY <1>3, UnlinkedSteps DEF RelayDatagram, Relay, IInv
  <2>2. PartnerOf' = PartnerOf /\ heardOf' = heardOf /\ Went' = Went /\ Lost' = Lost
    BY <1>3 DEF RelayDatagram, PartnerOf, Went, Lost
  <2>3. CASE delivered' = delivered
    BY <2>1, <2>2, <2>3, Unseen
  <2>4. CASE delivered' # delivered
    <3>1. PeerOf(c) \in Conns /\ Reachable(PeerOf(c))
      BY <1>3, <2>4 DEF RelayDatagram, Relay, Reachable, IInv, TypeOK, TableTypeOK
    <3>2. Partners(c, PeerOf(c))
      BY <3>1, ConnsAssumption DEF PeerOf, IInv, RelayWithinPair
    <3>3. heardOf[c] = {PeerOf(c)}
      <4>1. heardOf[c] # {} /\ \A e \in heardOf[c] : e \in Conns /\ Partners(c, e)
        BY <1>3 DEF RelayDatagram, IInv, PairingInv, GoMeansIntroduced, HeardWithinPair, TypeOK
      <4> QED
        BY <3>1, <3>2, <4>1, PartnersAreReal DEF IInv, PairingInv
    <3>4. delivered' = [d \in Conns |-> IF d \in heardOf[c] THEN delivered[d] \cup {c}
                                                           ELSE delivered[d]]
      BY <1>3, <3>1, <3>3 DEF RelayDatagram, Relay
    <3>5. c \in Went /\ c \in Linked
      BY <1>3, <3>1, ConnsAssumption DEF RelayDatagram, Went, Linked
    <3>6. Promise!Carry(c)
      BY <2>1, <2>2, <3>4, <3>5 DEF Promise!Carry
    <3> QED
      BY <3>6 DEF Promise!Next
  <2> QED
    BY <2>3, <2>4
<1> QED
  BY <1>1, <1>2, <1>3

\* The operator, the sweep and the clock: they can only cut.
LEMMA RefinesUpkeep ==
  ASSUME IInv, TypeOK',
         \/ \E k \in Codes : DeleteSession(k)
         \/ \E c \in Conns : AdminDeleteRelay(c)
         \/ AdminPrune \/ Sweep \/ ClockTick
  PROVE  Promise!Next
<1>1. UNCHANGED <<stage, open, sessOf, pairOf, told, heardOf, delivered>>
  BY DEF DeleteSession, AdminDeleteRelay, DeleteRelay, AdminPrune, PruneRelays, Sweep, GcRelay,
         ClockTick, Tick, Unsignaled, sessVars, wireVars
<1>2. Linked' \subseteq Linked
  <2>1. CASE ClockTick
    BY <2>1 DEF ClockTick, Tick, Linked, PeerOf, IInv, TypeOK, TableTypeOK, Route
  <2>2. CASE ~ClockTick
    <3>1. \E T : relays' = Without(T)
      BY <2>2 DEF DeleteSession, AdminDeleteRelay, DeleteRelay, AdminPrune, PruneRelays, Sweep,
                  GcRelay
    <3> QED
      BY <3>1 DEF Without, Linked, PeerOf
  <2> QED
    BY <2>1, <2>2
<1>3. Promise!Cut
  BY <1>1, <1>2 DEF Promise!Cut, PartnerOf, Went, Lost
<1> QED
  BY <1>3 DEF Promise!Next

\* Every step of the server is a step of the Matchmaker or a stutter.
LEMMA RefinesStep == IInv /\ IInv' /\ [Next]_vars => [Promise!Next]_(Promise!vars)
<1> SUFFICES ASSUME IInv, IInv', [Next]_vars PROVE Promise!Next \/ UNCHANGED Promise!vars
  OBVIOUS
<1>1. TypeOK' /\ PairingInv'
  BY DEF IInv
<1>2. ASSUME UNCHANGED vars PROVE UNCHANGED Promise!vars
  BY <1>2, Unseen DEF vars, sessVars, wireVars, tableVars, PartnerOf, Went, Lost, Linked, PeerOf
<1> QED
  BY <1>1, <1>2, RefinesQuiet, RefinesTryPair, RefinesTelling, RefinesPeers, RefinesUpkeep
     DEF Next, Handler, Peer, Admin

\* The rendezvous server implements the Matchmaker: each connection is matched
\* at most once, introduced before it sets off, and carried only over links that
\* open with the match and never open again.
THEOREM ServerKeepsItsPromise == Spec => Matchmaking
  BY RefinesInit, RefinesStep, Invariance, PTL DEF Spec, Matchmaking, Promise!Spec

=============================================================================
