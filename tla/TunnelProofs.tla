---------------------------- MODULE TunnelProofs ----------------------------
(***************************************************************************)
(* Proofs about Tunnel: whatever faults strike, and whenever they do, a    *)
(* connection that lives is between the host and the client it was         *)
(* introduced to, and both know it; and a tunnel implements Line.          *)
(***************************************************************************)
EXTENDS Tunnel, TLAPS

USE PeersAssumption, FaultsAssumption DEF Peers

\* The initial states satisfy the invariant.
LEMMA InitIInv == Init => IInv
<1> SUFFICES ASSUME Init PROVE IInv
  OBVIOUS
<1>1. TypeOK
  <2>1. phase \in [Peers -> Phases]
    BY DEF Init, Phases
  <2>2. mate \in [Peers -> Peers \cup {NoPeer}] /\ told \in [Peers -> Peers \cup {NoPeer}]
    BY DEF Init
  <2>3. faults \in 0..MaxFaults
    BY DEF Init
  <2> QED BY <2>1, <2>2, <2>3 DEF Init, TypeOK
<1>2. TunnelIsMutual
  BY DEF Init, TunnelIsMutual
<1>3. MatesAreKept
  BY DEF Init, MatesAreKept
<1>4. SeatsAreKept
  BY DEF Init, SeatsAreKept
<1> QED BY <1>1, <1>2, <1>3, <1>4 DEF IInv

\* The types, action by action.
LEMMA NextTypeOK == TypeOK /\ SeatsAreKept /\ [Next]_vars => TypeOK'
<1> SUFFICES ASSUME TypeOK, SeatsAreKept, [Next]_vars PROVE TypeOK'
  OBVIOUS
<1> USE DEF TypeOK, Phases
<1>1. ASSUME NEW p \in Peers, Dial(p) PROVE TypeOK'
  BY <1>1 DEF Dial
<1>2. ASSUME NEW p \in Peers, SendReady(p) PROVE TypeOK'
  <2>1. told' \in [Peers -> Peers \cup {NoPeer}]
    BY <1>2 DEF SendReady, ReadyPair, Introduced
  <2>2. ready' \subseteq seats'
    BY <1>2 DEF SendReady, SeatsAreKept
  <2>3. paired' \in BOOLEAN
    BY <1>2 DEF SendReady
  <2> QED BY <1>2, <2>1, <2>2, <2>3 DEF SendReady
<1>3. ASSUME NEW p \in Peers, TakeGo(p) PROVE TypeOK'
  BY <1>3 DEF TakeGo
<1>4. ASSUME NEW p \in Peers, PunchEnds(p) PROVE TypeOK'
  BY <1>4 DEF PunchEnds, Hangup
<1>5. ASSUME NEW p \in Peers, Cleanup(p) PROVE TypeOK'
  BY <1>5 DEF Cleanup
<1>6. ASSUME NEW p \in Peers, Notice(p) PROVE TypeOK'
  BY <1>6 DEF Notice
<1>7. ASSUME NEW p \in Peers, DialFails(p) PROVE TypeOK'
  BY <1>7 DEF DialFails, Hangup, Fault
<1>8. ASSUME NEW p \in Peers, Crash(p) PROVE TypeOK'
  BY <1>8 DEF Crash, Hangup, Fault
<1>9. ASSUME NEW c \in Clients, Meet(c) PROVE TypeOK'
  BY <1>9 DEF Meet
<1>10. ASSUME NEW c \in Clients, HandshakeFails(c) PROVE TypeOK'
  BY <1>10 DEF HandshakeFails, Fault
<1>11. CASE LinkLost
  BY <1>11 DEF LinkLost, Fault
<1>12. CASE ServerStops
  <2>1. PICK reached \in SUBSET Peers :
          /\ told' = [p \in Peers |-> IF p \in reached THEN told[p] ELSE NoPeer]
          /\ phase' = [p \in Peers |->
               IF phase[p] = "seated" \/ (phase[p] = "waiting" /\ told'[p] = NoPeer)
               THEN "away" ELSE phase[p]]
    BY <1>12 DEF ServerStops
  <2>2. told' \in [Peers -> Peers \cup {NoPeer}]
    BY <2>1
  <2>3. phase' \in [Peers -> Phases]
    BY <2>1
  <2>4. /\ server' = FALSE /\ seats' = {} /\ ready' = {} /\ left' = {} /\ paired' = FALSE
        /\ mate' = mate /\ alive' = alive /\ smooth' = smooth
    BY <1>12 DEF ServerStops, Fault
  <2>5. faults' \in 0..MaxFaults
    BY <1>12 DEF ServerStops, Fault
  <2> QED BY <2>2, <2>3, <2>4, <2>5
<1>13. CASE ServerStarts
  BY <1>13 DEF ServerStarts
<1>14. CASE UNCHANGED vars
  BY <1>14 DEF vars
<1> QED BY <1>1, <1>2, <1>3, <1>4, <1>5, <1>6, <1>7, <1>8, <1>9, <1>10, <1>11, <1>12, <1>13, <1>14
  DEF Next, Rendezvous

\* Only those who hang up lose their seats.
LEMMA NextSeatsAreKept == TypeOK /\ SeatsAreKept /\ [Next]_vars => SeatsAreKept'
<1> SUFFICES ASSUME TypeOK, SeatsAreKept, [Next]_vars PROVE SeatsAreKept'
  OBVIOUS
<1> USE DEF TypeOK, Phases, SeatsAreKept
<1>1. ASSUME NEW q \in Peers, Dial(q) PROVE SeatsAreKept'
  <2>1. q \notin left
    BY <1>1 DEF Dial, SameRole
  <2> QED BY <1>1, <2>1 DEF Dial
<1>2. ASSUME NEW q \in Peers, SendReady(q) PROVE SeatsAreKept'
  BY <1>2 DEF SendReady, ReadyPair, Introduced
<1>3. ASSUME NEW q \in Peers, TakeGo(q) PROVE SeatsAreKept'
  BY <1>3 DEF TakeGo
<1>4. ASSUME NEW q \in Peers, PunchEnds(q) PROVE SeatsAreKept'
  BY <1>4 DEF PunchEnds, Hangup
<1>5. ASSUME NEW q \in Peers, Cleanup(q) PROVE SeatsAreKept'
  BY <1>5 DEF Cleanup
<1>6. ASSUME NEW q \in Peers, Notice(q) PROVE SeatsAreKept'
  BY <1>6 DEF Notice
<1>7. ASSUME NEW q \in Peers, DialFails(q) PROVE SeatsAreKept'
  BY <1>7 DEF DialFails, Hangup
<1>8. ASSUME NEW q \in Peers, Crash(q) PROVE SeatsAreKept'
  BY <1>8 DEF Crash, Hangup
<1>9. ASSUME NEW d \in Clients, Meet(d) PROVE SeatsAreKept'
  BY <1>9 DEF Meet
<1>10. ASSUME NEW d \in Clients, HandshakeFails(d) PROVE SeatsAreKept'
  BY <1>10 DEF HandshakeFails
<1>11. CASE LinkLost
  BY <1>11 DEF LinkLost
<1>12. CASE ServerStops
  BY <1>12 DEF ServerStops
<1>13. CASE ServerStarts
  BY <1>13 DEF ServerStarts
<1>14. CASE UNCHANGED vars
  BY <1>14 DEF vars
<1> QED BY <1>1, <1>2, <1>3, <1>4, <1>5, <1>6, <1>7, <1>8, <1>9, <1>10, <1>11, <1>12, <1>13, <1>14
  DEF Next, Rendezvous

\* A go that is on its way, or taken, is about the host.
LEMMA NextMatesAreKept == TypeOK /\ MatesAreKept /\ [Next]_vars => MatesAreKept'
<1> SUFFICES ASSUME TypeOK, MatesAreKept, [Next]_vars PROVE MatesAreKept'
  OBVIOUS
<1> USE DEF TypeOK, Phases, MatesAreKept
<1>1. ASSUME NEW q \in Peers, Dial(q) PROVE MatesAreKept'
  BY <1>1 DEF Dial
<1>2. ASSUME NEW q \in Peers, SendReady(q) PROVE MatesAreKept'
  BY <1>2 DEF SendReady, ReadyPair, Introduced
<1>3. ASSUME NEW q \in Peers, TakeGo(q) PROVE MatesAreKept'
  BY <1>3 DEF TakeGo
<1>4. ASSUME NEW q \in Peers, PunchEnds(q) PROVE MatesAreKept'
  BY <1>4 DEF PunchEnds, Hangup
<1>5. ASSUME NEW q \in Peers, Cleanup(q) PROVE MatesAreKept'
  BY <1>5 DEF Cleanup
<1>6. ASSUME NEW q \in Peers, Notice(q) PROVE MatesAreKept'
  BY <1>6 DEF Notice
<1>7. ASSUME NEW q \in Peers, DialFails(q) PROVE MatesAreKept'
  BY <1>7 DEF DialFails, Hangup
<1>8. ASSUME NEW q \in Peers, Crash(q) PROVE MatesAreKept'
  BY <1>8 DEF Crash, Hangup
<1>9. ASSUME NEW d \in Clients, Meet(d) PROVE MatesAreKept'
  BY <1>9 DEF Meet
<1>10. ASSUME NEW d \in Clients, HandshakeFails(d) PROVE MatesAreKept'
  BY <1>10 DEF HandshakeFails
<1>11. CASE LinkLost
  BY <1>11 DEF LinkLost
<1>12. CASE ServerStops
  BY <1>12 DEF ServerStops
<1>13. CASE ServerStarts
  BY <1>13 DEF ServerStarts
<1>14. CASE UNCHANGED vars
  BY <1>14 DEF vars
<1> QED BY <1>1, <1>2, <1>3, <1>4, <1>5, <1>6, <1>7, <1>8, <1>9, <1>10, <1>11, <1>12, <1>13, <1>14
  DEF Next, Rendezvous

\* Neither end moves on while the connection lives.
LEMMA NextTunnelIsMutual == TypeOK /\ MatesAreKept /\ TunnelIsMutual /\ [Next]_vars => TunnelIsMutual'
<1> SUFFICES ASSUME TypeOK, MatesAreKept, TunnelIsMutual, [Next]_vars PROVE TunnelIsMutual'
  OBVIOUS
<1> USE DEF TypeOK, Phases, MatesAreKept, TunnelIsMutual
<1>1. ASSUME NEW q \in Peers, Dial(q) PROVE TunnelIsMutual'
  BY <1>1 DEF Dial
<1>2. ASSUME NEW q \in Peers, SendReady(q) PROVE TunnelIsMutual'
  BY <1>2 DEF SendReady, ReadyPair, Introduced
<1>3. ASSUME NEW q \in Peers, TakeGo(q) PROVE TunnelIsMutual'
  BY <1>3 DEF TakeGo
<1>4. ASSUME NEW q \in Peers, PunchEnds(q) PROVE TunnelIsMutual'
  BY <1>4 DEF PunchEnds, Hangup
<1>5. ASSUME NEW q \in Peers, Cleanup(q) PROVE TunnelIsMutual'
  BY <1>5 DEF Cleanup
<1>6. ASSUME NEW q \in Peers, Notice(q) PROVE TunnelIsMutual'
  BY <1>6 DEF Notice
<1>7. ASSUME NEW q \in Peers, DialFails(q) PROVE TunnelIsMutual'
  BY <1>7 DEF DialFails, Hangup
<1>8. ASSUME NEW q \in Peers, Crash(q) PROVE TunnelIsMutual'
  BY <1>8 DEF Crash, Hangup
<1>9. ASSUME NEW d \in Clients, Meet(d) PROVE TunnelIsMutual'
  BY <1>9 DEF Meet
<1>10. ASSUME NEW d \in Clients, HandshakeFails(d) PROVE TunnelIsMutual'
  BY <1>10 DEF HandshakeFails
<1>11. CASE LinkLost
  BY <1>11 DEF LinkLost
<1>12. CASE ServerStops
  BY <1>12 DEF ServerStops
<1>13. CASE ServerStarts
  BY <1>13 DEF ServerStarts
<1>14. CASE UNCHANGED vars
  BY <1>14 DEF vars
<1> QED BY <1>1, <1>2, <1>3, <1>4, <1>5, <1>6, <1>7, <1>8, <1>9, <1>10, <1>11, <1>12, <1>13, <1>14
  DEF Next, Rendezvous

-----------------------------------------------------------------------------
(* Smooth behaviours.                                                      *)

\* The initial states are smooth ones.
LEMMA InitSmoothInv == Init => SmoothInv
<1> SUFFICES ASSUME Init PROVE SmoothInv
  OBVIOUS
<1> QED BY DEF Init, SmoothInv, HostMeetsClients, GoesAwaited, ReadyOnesWait, HostIsMet, OnItsWay

\* The host is introduced to clients only.
LEMMA NextHostMeetsClients == TypeOK /\ HostMeetsClients /\ [Next]_vars => HostMeetsClients'
<1> SUFFICES ASSUME TypeOK, HostMeetsClients, [Next]_vars PROVE HostMeetsClients'
  OBVIOUS
<1> USE DEF TypeOK, HostMeetsClients, Phases
<1>1. ASSUME NEW q \in Peers, Dial(q) PROVE HostMeetsClients'
  BY <1>1 DEF Dial, SameRole, Noticed
<1>2. ASSUME NEW q \in Peers, SendReady(q) PROVE HostMeetsClients'
  BY <1>2 DEF SendReady, ReadyPair, Introduced, Noticed
<1>3. ASSUME NEW q \in Peers, TakeGo(q) PROVE HostMeetsClients'
  BY <1>3 DEF TakeGo
<1>4. ASSUME NEW q \in Peers, PunchEnds(q) PROVE HostMeetsClients'
  BY <1>4 DEF PunchEnds, Hangup
<1>5. ASSUME NEW q \in Peers, Cleanup(q) PROVE HostMeetsClients'
  BY <1>5 DEF Cleanup
<1>6. ASSUME NEW q \in Peers, Notice(q) PROVE HostMeetsClients'
  BY <1>6 DEF Notice
<1>7. ASSUME NEW q \in Peers, DialFails(q) PROVE HostMeetsClients'
  BY <1>7 DEF DialFails, Hangup, Fault
<1>8. ASSUME NEW q \in Peers, Crash(q) PROVE HostMeetsClients'
  BY <1>8 DEF Crash, Hangup, Fault, Spared, Introducing, Expected
<1>9. ASSUME NEW d \in Clients, Meet(d) PROVE HostMeetsClients'
  BY <1>9 DEF Meet
<1>10. ASSUME NEW d \in Clients, HandshakeFails(d) PROVE HostMeetsClients'
  BY <1>10 DEF HandshakeFails, Fault, Expected
<1>11. CASE LinkLost
  BY <1>11 DEF LinkLost, Fault
<1>12. CASE ServerStops
  BY <1>12 DEF ServerStops, Fault, Spared, Introducing, Expected
<1>13. CASE ServerStarts
  BY <1>13 DEF ServerStarts
<1>14. CASE UNCHANGED vars
  BY <1>14 DEF vars
<1> QED BY <1>1, <1>2, <1>3, <1>4, <1>5, <1>6, <1>7, <1>8, <1>9, <1>10, <1>11, <1>12, <1>13, <1>14
  DEF Next, Rendezvous

\* Nobody runs away from a go.
LEMMA NextGoesAwaited == TypeOK /\ SeatsAreKept /\ GoesAwaited /\ ReadyOnesWait /\ [Next]_vars => GoesAwaited'
<1> SUFFICES ASSUME TypeOK, SeatsAreKept, GoesAwaited, ReadyOnesWait, [Next]_vars PROVE GoesAwaited'
  OBVIOUS
<1> USE DEF TypeOK, SeatsAreKept, GoesAwaited, ReadyOnesWait, Phases
<1>1. ASSUME NEW q \in Peers, Dial(q) PROVE GoesAwaited'
  BY <1>1 DEF Dial, SameRole, Noticed
<1>2. ASSUME NEW q \in Peers, SendReady(q) PROVE GoesAwaited'
  BY <1>2 DEF SendReady, ReadyPair, Introduced, Noticed
<1>3. ASSUME NEW q \in Peers, TakeGo(q) PROVE GoesAwaited'
  BY <1>3 DEF TakeGo
<1>4. ASSUME NEW q \in Peers, PunchEnds(q) PROVE GoesAwaited'
  BY <1>4 DEF PunchEnds, Hangup
<1>5. ASSUME NEW q \in Peers, Cleanup(q) PROVE GoesAwaited'
  BY <1>5 DEF Cleanup
<1>6. ASSUME NEW q \in Peers, Notice(q) PROVE GoesAwaited'
  BY <1>6 DEF Notice
<1>7. ASSUME NEW q \in Peers, DialFails(q) PROVE GoesAwaited'
  BY <1>7 DEF DialFails, Hangup, Fault
<1>8. ASSUME NEW q \in Peers, Crash(q) PROVE GoesAwaited'
  BY <1>8 DEF Crash, Hangup, Fault, Spared, Introducing, Expected
<1>9. ASSUME NEW d \in Clients, Meet(d) PROVE GoesAwaited'
  BY <1>9 DEF Meet
<1>10. ASSUME NEW d \in Clients, HandshakeFails(d) PROVE GoesAwaited'
  BY <1>10 DEF HandshakeFails, Fault, Expected
<1>11. CASE LinkLost
  BY <1>11 DEF LinkLost, Fault
<1>12. CASE ServerStops
  BY <1>12 DEF ServerStops, Fault, Spared, Introducing, Expected
<1>13. CASE ServerStarts
  BY <1>13 DEF ServerStarts
<1>14. CASE UNCHANGED vars
  BY <1>14 DEF vars
<1> QED BY <1>1, <1>2, <1>3, <1>4, <1>5, <1>6, <1>7, <1>8, <1>9, <1>10, <1>11, <1>12, <1>13, <1>14
  DEF Next, Rendezvous

\* Nobody who is ready stops waiting before the pairing, but by hanging up.
LEMMA NextReadyOnesWait == TypeOK /\ SeatsAreKept /\ GoesAwaited /\ ReadyOnesWait /\ [Next]_vars => ReadyOnesWait'
<1> SUFFICES ASSUME TypeOK, SeatsAreKept, GoesAwaited, ReadyOnesWait, [Next]_vars PROVE ReadyOnesWait'
  OBVIOUS
<1> USE DEF TypeOK, SeatsAreKept, GoesAwaited, ReadyOnesWait, Phases
<1>1. ASSUME NEW q \in Peers, Dial(q) PROVE ReadyOnesWait'
  BY <1>1 DEF Dial, SameRole, Noticed
<1>2. ASSUME NEW q \in Peers, SendReady(q) PROVE ReadyOnesWait'
  BY <1>2 DEF SendReady, ReadyPair, Introduced, Noticed
<1>3. ASSUME NEW q \in Peers, TakeGo(q) PROVE ReadyOnesWait'
  BY <1>3 DEF TakeGo
<1>4. ASSUME NEW q \in Peers, PunchEnds(q) PROVE ReadyOnesWait'
  BY <1>4 DEF PunchEnds, Hangup
<1>5. ASSUME NEW q \in Peers, Cleanup(q) PROVE ReadyOnesWait'
  BY <1>5 DEF Cleanup
<1>6. ASSUME NEW q \in Peers, Notice(q) PROVE ReadyOnesWait'
  BY <1>6 DEF Notice
<1>7. ASSUME NEW q \in Peers, DialFails(q) PROVE ReadyOnesWait'
  BY <1>7 DEF DialFails, Hangup, Fault
<1>8. ASSUME NEW q \in Peers, Crash(q) PROVE ReadyOnesWait'
  BY <1>8 DEF Crash, Hangup, Fault, Spared, Introducing, Expected
<1>9. ASSUME NEW d \in Clients, Meet(d) PROVE ReadyOnesWait'
  BY <1>9 DEF Meet
<1>10. ASSUME NEW d \in Clients, HandshakeFails(d) PROVE ReadyOnesWait'
  BY <1>10 DEF HandshakeFails, Fault, Expected
<1>11. CASE LinkLost
  BY <1>11 DEF LinkLost, Fault
<1>12. CASE ServerStops
  BY <1>12 DEF ServerStops, Fault, Spared, Introducing, Expected
<1>13. CASE ServerStarts
  BY <1>13 DEF ServerStarts
<1>14. CASE UNCHANGED vars
  BY <1>14 DEF vars
<1> QED BY <1>1, <1>2, <1>3, <1>4, <1>5, <1>6, <1>7, <1>8, <1>9, <1>10, <1>11, <1>12, <1>13, <1>14
  DEF Next, Rendezvous

\* Nobody stands the host up.
LEMMA NextHostIsMet == TypeOK /\ SeatsAreKept /\ GoesAwaited /\ ReadyOnesWait /\ HostIsMet /\ [Next]_vars => HostIsMet'
<1> SUFFICES ASSUME TypeOK, SeatsAreKept, GoesAwaited, ReadyOnesWait, HostIsMet, [Next]_vars PROVE HostIsMet'
  OBVIOUS
<1> USE DEF TypeOK, SeatsAreKept, GoesAwaited, ReadyOnesWait, HostIsMet, Phases, OnItsWay
<1>1. ASSUME NEW q \in Peers, Dial(q) PROVE HostIsMet'
  BY <1>1 DEF Dial, SameRole, Noticed
<1>2. ASSUME NEW q \in Peers, SendReady(q) PROVE HostIsMet'
  BY <1>2 DEF SendReady, ReadyPair, Introduced, Noticed
<1>3. ASSUME NEW q \in Peers, TakeGo(q) PROVE HostIsMet'
  BY <1>3 DEF TakeGo
<1>4. ASSUME NEW q \in Peers, PunchEnds(q) PROVE HostIsMet'
  BY <1>4 DEF PunchEnds, Hangup
<1>5. ASSUME NEW q \in Peers, Cleanup(q) PROVE HostIsMet'
  BY <1>5 DEF Cleanup
<1>6. ASSUME NEW q \in Peers, Notice(q) PROVE HostIsMet'
  BY <1>6 DEF Notice
<1>7. ASSUME NEW q \in Peers, DialFails(q) PROVE HostIsMet'
  BY <1>7 DEF DialFails, Hangup, Fault
<1>8. ASSUME NEW q \in Peers, Crash(q) PROVE HostIsMet'
  BY <1>8 DEF Crash, Hangup, Fault, Spared, Introducing, Expected
<1>9. ASSUME NEW d \in Clients, Meet(d) PROVE HostIsMet'
  BY <1>9 DEF Meet
<1>10. ASSUME NEW d \in Clients, HandshakeFails(d) PROVE HostIsMet'
  BY <1>10 DEF HandshakeFails, Fault, Expected
<1>11. CASE LinkLost
  BY <1>11 DEF LinkLost, Fault
<1>12. CASE ServerStops
  BY <1>12 DEF ServerStops, Fault, Spared, Introducing, Expected
<1>13. CASE ServerStarts
  BY <1>13 DEF ServerStarts
<1>14. CASE UNCHANGED vars
  BY <1>14 DEF vars
<1> QED BY <1>1, <1>2, <1>3, <1>4, <1>5, <1>6, <1>7, <1>8, <1>9, <1>10, <1>11, <1>12, <1>13, <1>14
  DEF Next, Rendezvous

-----------------------------------------------------------------------------
(* The theorems.                                                           *)

\* The invariants are kept together.
LEMMA Invariance == IInv /\ SmoothInv /\ [Next]_vars => IInv' /\ SmoothInv'
<1>1. IInv /\ [Next]_vars => IInv'
  BY NextTypeOK, NextSeatsAreKept, NextMatesAreKept, NextTunnelIsMutual DEF IInv
<1>2. IInv /\ SmoothInv /\ [Next]_vars => SmoothInv'
  BY NextHostMeetsClients, NextGoesAwaited, NextReadyOnesWait, NextHostIsMet DEF IInv, SmoothInv
<1> QED BY <1>1, <1>2

\* Every state of a tunnel has its type, whatever the faults.
THEOREM TunnelTypeCorrect == Spec => []TypeOK
<1>1. IInv => TypeOK
  BY DEF IInv
<1> QED BY InitIInv, InitSmoothInv, Invariance, <1>1, PTL DEF Spec

\* For any number of clients, and any faults: a connection that lives is between
\* the host and the client it was introduced to, and both know it.
THEOREM TunnelsAreMutual == Spec => []TunnelIsMutual
<1>1. IInv => TunnelIsMutual
  BY DEF IInv
<1> QED BY InitIInv, InitSmoothInv, Invariance, <1>1, PTL DEF Spec

\* For any number of clients: as long as no fault strikes an introduction, the
\* host never waits in an Accept without timeout for a client that will not come.
THEOREM AcceptIsAwaited == Spec => []ListensForSomebody
<1>1. IInv /\ SmoothInv => ListensForSomebody
  BY DEF IInv, TypeOK, SmoothInv, HostMeetsClients, HostIsMet, OnItsWay, ListensForSomebody
<1> QED BY InitIInv, InitSmoothInv, Invariance, <1>1, PTL DEF Spec

-----------------------------------------------------------------------------
(* The tunnel implements the line.                                         *)

LEMMA LineInit == Init => Ends!Init
  BY DEF Init, Ends!Init, Ends!Ends, Believed, Peers

\* A step that changes neither the connection nor who is connected.
LEMMA OffTheLine ==
  ASSUME TypeOK, alive' = alive,
         \A p \in Peers : (phase'[p] = "joined" <=> phase[p] = "joined")
                          /\ (phase[p] = "joined" => mate'[p] = mate[p])
  PROVE  UNCHANGED Ends!vars
<1>1. Believed' = Believed
  BY DEF Believed
<1> QED
  BY <1>1 DEF Ends!vars

LEMMA RendezvousOffTheLine ==
  ASSUME TypeOK, NEW p \in Peers, Rendezvous(p) \/ DialFails(p)
  PROVE  UNCHANGED Ends!vars
<1>1. alive' = alive /\ \A q \in Peers \ {p} : phase'[q] = phase[q] /\ mate'[q] = mate[q]
  BY DEF Rendezvous, Dial, SendReady, TakeGo, PunchEnds, Cleanup, DialFails, TypeOK
<1>2. \/ phase'[p] = phase[p] /\ mate'[p] = mate[p]
      \/ phase[p] # "joined" /\ phase'[p] # "joined"
  BY DEF Rendezvous, Dial, SendReady, TakeGo, PunchEnds, Cleanup, DialFails, TypeOK
<1> QED
  BY <1>1, <1>2, OffTheLine

\* What a step that changes one peer does to what the ends believe.
LEMMA OneEndLeaves ==
  ASSUME TypeOK, NEW p \in Peers,
         phase' = [phase EXCEPT ![p] = "away"], mate' = [mate EXCEPT ![p] = NoPeer]
  PROVE  Believed' = [Believed EXCEPT ![p] = NoPeer]
  BY DEF Believed, TypeOK

LEMMA LineStep == IInv /\ [Next]_vars => [Ends!Next]_(Ends!vars)
<1> SUFFICES ASSUME IInv, [Next]_vars PROVE Ends!Next \/ UNCHANGED Ends!vars
  OBVIOUS
<1>0. TypeOK /\ Host \in Peers /\ Clients \subseteq Peers /\ Host \notin Clients
      /\ Host # NoPeer /\ Ends!Ends = Peers
  BY PeersAssumption DEF IInv, Peers, Ends!Ends
<1>1. ASSUME NEW p \in Peers, Rendezvous(p) \/ DialFails(p) PROVE UNCHANGED Ends!vars
  BY <1>0, <1>1, RendezvousOffTheLine
<1>2. ASSUME NEW p \in Peers, Notice(p) PROVE Ends!Next \/ UNCHANGED Ends!vars
  <2>1. /\ phase[p] = "joined" /\ {p, mate[p]} \cap alive = {} /\ alive' = alive
        /\ Believed' = [Believed EXCEPT ![p] = NoPeer]
    BY <1>0, <1>2, OneEndLeaves DEF Notice
  <2>2. Believed[p] = mate[p]
    BY <2>1 DEF Believed
  <2>3. CASE mate[p] = NoPeer
    <3>1. Believed' = Believed
      BY <2>1, <2>2, <2>3 DEF Believed
    <3> QED
      BY <2>1, <3>1 DEF Ends!vars
  <2>4. CASE mate[p] # NoPeer
    <3>1. Ends!Leave(p)
      BY <2>1, <2>2, <2>4 DEF Ends!Leave
    <3> QED
      BY <1>0, <3>1 DEF Ends!Next
  <2> QED
    BY <2>3, <2>4
<1>3. ASSUME NEW p \in Peers, Crash(p) PROVE Ends!Next \/ UNCHANGED Ends!vars
  <2>1. /\ alive' = IF p = Host THEN {} ELSE alive \ {p}
        /\ Believed' = [Believed EXCEPT ![p] = NoPeer]
    BY <1>0, <1>3, OneEndLeaves DEF Crash
  <2>2. CASE Believed[p] = NoPeer
    <3>1. Believed' = Believed
      BY <2>1, <2>2 DEF Believed
    <3>2. ASSUME NEW c \in alive PROVE c \in alive'
      <4>1. c \in Clients /\ Believed[Host] = c /\ Believed[c] = Host
        BY <1>0, <3>2 DEF IInv, TypeOK, TunnelIsMutual, Believed
      <4>2. p # Host /\ p # c
        BY <1>0, <2>2, <4>1, PeersAssumption DEF Peers
      <4> QED
        BY <2>1, <3>2, <4>2
    <3>3. alive' = alive
      BY <2>1, <3>2
    <3> QED
      BY <3>1, <3>3 DEF Ends!vars
  <2>3. CASE Believed[p] # NoPeer
    <3>1. phase[p] = "joined" /\ Believed[p] = mate[p]
      BY <2>3 DEF Believed
    <3>2. CASE p = Host
      <4>1. alive \subseteq {mate[Host]}
        BY DEF IInv, TunnelIsMutual
      <4> QED
        BY <1>0, <2>1, <2>3, <3>1, <3>2, <4>1 DEF Ends!Crash, Ends!Next
    <3>3. CASE p # Host
      <4>1. p \in Clients /\ mate[p] = Host /\ Host \notin alive
        BY <1>0, <3>1, <3>3 DEF Peers, IInv, TypeOK, MatesAreKept
      <4>2. alive' = alive \ {p, Believed[p]}
        BY <2>1, <3>1, <3>3, <4>1
      <4> QED
        BY <1>0, <2>1, <2>3, <4>2 DEF Ends!Crash, Ends!Next
    <3> QED
      BY <3>2, <3>3
  <2> QED
    BY <2>2, <2>3
<1>4. ASSUME NEW c \in Clients, Meet(c) PROVE Ends!Next
  <2>1. /\ phase[c] = "meeting" /\ phase[Host] = "meeting" /\ mate[Host] = c /\ mate[c] = Host
        /\ phase' = [phase EXCEPT ![c] = "joined", ![Host] = "joined"]
        /\ mate' = mate /\ alive' = {c}
    BY <1>4 DEF Meet, IInv, MatesAreKept
  <2>2. alive = {}
    BY <2>1 DEF IInv, TunnelIsMutual
  <2>3. Believed[c] = NoPeer /\ Believed[Host] = NoPeer
    BY <1>0, <2>1 DEF Believed
  <2>4. Believed' = [Believed EXCEPT ![c] = Host, ![Host] = c]
    BY <1>0, <2>1 DEF Believed, TypeOK
  <2> QED
    BY <2>1, <2>2, <2>3, <2>4 DEF Ends!Join, Ends!Next
<1>5. ASSUME NEW c \in Clients, HandshakeFails(c) PROVE UNCHANGED Ends!vars
  BY <1>0, <1>5, OffTheLine DEF HandshakeFails, TypeOK
<1>6. CASE LinkLost
  BY <1>6 DEF LinkLost, Believed, Ends!Break, Ends!Next
<1>7. CASE ServerStops \/ ServerStarts
  <2>1. alive' = alive /\ mate' = mate
        /\ \A p \in Peers : phase'[p] = "joined" <=> phase[p] = "joined"
    BY <1>7 DEF ServerStops, ServerStarts
  <2> QED
    BY <1>0, <2>1, OffTheLine
<1>8. CASE UNCHANGED vars
  BY <1>0, <1>8, OffTheLine DEF vars
<1> QED
  BY <1>1, <1>2, <1>3, <1>4, <1>5, <1>6, <1>7, <1>8 DEF Next

\* hostOnce, ConnManager.Run, the server and the handshakes implement a line, for
\* any number of clients and whatever faults strike, smooth or not.
THEOREM TunnelImplementsLine == Spec => LineIsKept
<1> QED BY InitIInv, InitSmoothInv, Invariance, LineInit, LineStep, PTL DEF Spec, LineIsKept, Ends!Spec
=============================================================================
