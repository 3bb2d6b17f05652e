------------------------------- MODULE Tunnel -------------------------------
(***************************************************************************)
(* A tunnel from end to end: the loop of the exposing host (runExpose and  *)
(* hostOnce in cmd/relay-tunnel/main.go), the loops of its clients         *)
(* (ConnManager.Run over runConnect's dial), the one session of the        *)
(* rendezvous server they share a code for, and the QUIC handshake and     *)
(* connection between them.  It asks whether a tunnel comes back.          *)
(*                                                                         *)
(* The server is Rendezvous reduced to one code.  What HolePunch shows to  *)
(* go wrong in a punch, and any other reason for a handshake to fail, is   *)
(* one fault here.  Back-off only paces the loops and is left out.         *)
(***************************************************************************)
EXTENDS Naturals

CONSTANTS
  Host,      \* the exposing host
  Clients,   \* those who connect with the same code
  NoPeer,
  MaxFaults  \* bound: faults that strike

Peers == Clients \cup {Host}

ASSUME PeersAssumption == Host \notin Clients /\ NoPeer \notin Peers
ASSUME FaultsAssumption == MaxFaults \in Nat

VARIABLES
  phase,   \* where each peer is in its loop
  mate,    \* whom a peer was told to meet, from go to the end of the connection
  told,    \* the go on its way to each peer: whom it is told to meet
  server,  \* whether the server runs
  seats,   \* the session's peers; there is a session as long as there is one
  ready,   \* the seated whose ready channel is closed
  left,    \* the seated whose WebSocket is closed, but not yet cleaned up after
  paired,  \* session.paired
  alive,   \* the clients whose QUIC connection with the host lives
  smooth,  \* whether faults spare the introductions, see Spared
  faults   \* faults so far

vars == <<phase, mate, told, server, seats, ready, left, paired, alive, smooth, faults>>

\* Between two attempts; in Dial before ready, after it, and after go; in the
\* QUIC handshake (for the host: in Accept); connected.
Phases == {"away", "seated", "waiting", "punching", "meeting", "joined"}

TypeOK ==
  /\ phase \in [Peers -> Phases]
  /\ mate \in [Peers -> Peers \cup {NoPeer}]
  /\ told \in [Peers -> Peers \cup {NoPeer}]
  /\ server \in BOOLEAN
  /\ seats \subseteq Peers /\ ready \subseteq seats /\ left \subseteq seats
  /\ paired \in BOOLEAN
  /\ alive \subseteq Clients
  /\ smooth \in BOOLEAN
  /\ faults \in 0..MaxFaults

Init ==
  /\ phase = [p \in Peers |-> "away"]
  /\ mate = [p \in Peers |-> NoPeer]
  /\ told = [p \in Peers |-> NoPeer]
  /\ server = TRUE
  /\ seats = {} /\ ready = {} /\ left = {} /\ paired = FALSE
  /\ alive = {}
  /\ smooth \in BOOLEAN
  /\ faults = 0

-----------------------------------------------------------------------------
(* Faults.                                                                 *)

Fault == faults < MaxFaults /\ faults' = faults + 1 /\ UNCHANGED smooth

\* The host is on its way to meet c, and nobody else.
Expected(c) ==
  \/ told[Host] = c
  \/ mate[Host] = c /\ phase[Host] \in {"punching", "meeting"}

\* An introduction: from the pairing until both have left the session, and the
\* host has accepted its client.
Introducing == paired \/ \E c \in Clients : Expected(c)

\* In a smooth behaviour no fault strikes an introduction, and nobody's next
\* message comes before the server has noticed the WebSockets closed earlier.
Spared == smooth => ~Introducing
Noticed == smooth => left = {}

-----------------------------------------------------------------------------
(* Rendezvous: Dial, and the server's handlers.                            *)

SameRole(p, q) == p = q \/ {p, q} \subseteq Clients

\* The hello.  A refused one, or one to a server that is down, is tried again.
Dial(p) ==
  /\ phase[p] = "away"
  /\ server /\ Noticed
  /\ \A q \in seats : ~SameRole(p, q)
  /\ phase' = [phase EXCEPT ![p] = "seated"]
  /\ seats' = seats \cup {p}
  /\ UNCHANGED <<mate, told, server, ready, left, paired, alive, smooth, faults>>

\* p's WebSocket is closed, whichever side its handler is on.
Hangup(p) == left' = left \cup ({p} \cap seats)

\* Reflection fails.
DialFails(p) ==
  /\ phase[p] = "seated"
  /\ Fault
  /\ phase' = [phase EXCEPT ![p] = "away"]
  /\ told' = [told EXCEPT ![p] = NoPeer]
  /\ Hangup(p)
  /\ UNCHANGED <<mate, server, seats, ready, paired, alive>>

\* Faulty variant: tryPair does not look at the ready channels.
SeatedPair(rdy) == {c \in Clients : ~paired /\ {Host, c} \subseteq seats}

\* The client tryPair introduces to the host when those of rdy are ready.
ReadyPair(rdy) == {c \in Clients : ~paired /\ {Host, c} \subseteq seats \cap rdy}

\* A go is lost on a WebSocket that is closed.
Introduced(c) ==
  [p \in Peers |-> IF p \in {Host, c} \ left THEN (IF p = Host THEN c ELSE Host) ELSE told[p]]

SendReady(p) ==
  /\ phase[p] = "seated"
  /\ Noticed
  /\ phase' = [phase EXCEPT ![p] = "waiting"]
  /\ ready' = ready \cup {p}
  /\ \/ /\ ReadyPair(ready') = {}
        /\ UNCHANGED <<told, paired>>
     \/ \E c \in ReadyPair(ready') : told' = Introduced(c) /\ paired' = TRUE
  /\ UNCHANGED <<mate, server, seats, left, alive, smooth, faults>>

TakeGo(p) ==
  /\ phase[p] = "waiting"
  /\ told[p] # NoPeer
  /\ phase' = [phase EXCEPT ![p] = "punching"]
  /\ mate' = [mate EXCEPT ![p] = told[p]]
  /\ told' = [told EXCEPT ![p] = NoPeer]
  /\ UNCHANGED <<server, seats, ready, left, paired, alive, smooth, faults>>

\* Punch has returned, one way or the other, and so does Dial.
PunchEnds(p) ==
  /\ phase[p] = "punching"
  /\ phase' = [phase EXCEPT ![p] = "meeting"]
  /\ Hangup(p)
  /\ UNCHANGED <<mate, told, server, seats, ready, paired, alive, smooth, faults>>

\* Faulty variant: a ready channel survives its peer.
CleanupKeepsReady(p) ==
  /\ p \in left
  /\ seats' = seats \ {p} /\ left' = left \ {p}
  /\ paired' = (paired /\ seats' # {})
  /\ UNCHANGED <<phase, mate, told, server, ready, alive, smooth, faults>>

Cleanup(p) ==
  /\ p \in left
  /\ seats' = seats \ {p} /\ ready' = ready \ {p} /\ left' = left \ {p}
  /\ paired' = (paired /\ seats' # {})
  /\ UNCHANGED <<phase, mate, told, server, alive, smooth, faults>>

-----------------------------------------------------------------------------
(* The QUIC connection: Listen and Dial in internal/transport/quic.go.     *)

\* Faulty variant: whoever knocks is let in.
MeetAnybody(c) ==
  /\ phase[c] = "meeting" /\ phase[Host] = "meeting"
  /\ phase' = [phase EXCEPT ![c] = "joined", ![Host] = "joined"]
  /\ alive' = {c}
  /\ UNCHANGED <<mate, told, server, seats, ready, left, paired, smooth, faults>>

\* The sockets were opened for one rendezvous, and so reach one peer.
Meet(c) ==
  /\ phase[c] = "meeting" /\ phase[Host] = "meeting"
  /\ mate[Host] = c
  /\ phase' = [phase EXCEPT ![c] = "joined", ![Host] = "joined"]
  /\ alive' = {c}
  /\ UNCHANGED <<mate, told, server, seats, ready, left, paired, smooth, faults>>

\* The client's handshake times out.  The host's Accept never does.
HandshakeFails(c) ==
  /\ phase[c] = "meeting"
  /\ IF Expected(c) THEN ~smooth /\ Fault ELSE UNCHANGED <<smooth, faults>>
  /\ phase' = [phase EXCEPT ![c] = "away"]
  /\ mate' = [mate EXCEPT ![c] = NoPeer]
  /\ UNCHANGED <<told, server, seats, ready, left, paired, alive>>

\* The network parts the two.
LinkLost ==
  /\ alive # {}
  /\ Fault
  /\ alive' = {}
  /\ UNCHANGED <<phase, mate, told, server, seats, ready, left, paired>>

\* Faulty variant: only a client's connection has an idle timeout.
NoticeAsClient(p) ==
  /\ phase[p] = "joined"
  /\ p \in Clients /\ p \notin alive
  /\ phase' = [phase EXCEPT ![p] = "away"]
  /\ mate' = [mate EXCEPT ![p] = NoPeer]
  /\ UNCHANGED <<told, server, seats, ready, left, paired, alive, smooth, faults>>

\* A dead connection is noticed: ServeHost returns, Run clears and dials.
Notice(p) ==
  /\ phase[p] = "joined"
  /\ {p, mate[p]} \cap alive = {}
  /\ phase' = [phase EXCEPT ![p] = "away"]
  /\ mate' = [mate EXCEPT ![p] = NoPeer]
  /\ UNCHANGED <<told, server, seats, ready, left, paired, alive, smooth, faults>>

-----------------------------------------------------------------------------
(* Crashes.                                                                *)

\* A peer's process dies and is started again.
Crash(p) ==
  /\ Fault
  /\ Spared
  /\ phase' = [phase EXCEPT ![p] = "away"]
  /\ mate' = [mate EXCEPT ![p] = NoPeer]
  /\ told' = [told EXCEPT ![p] = NoPeer]
  /\ alive' = IF p = Host THEN {} ELSE alive \ {p}
  /\ Hangup(p)
  /\ UNCHANGED <<server, seats, ready, paired>>

\* The server stops, with the sessions it keeps in memory.  The peers still in
\* Dial see their WebSockets fail, unless a go has reached them before.
ServerStops ==
  /\ server
  /\ Fault
  /\ Spared
  /\ \E reached \in SUBSET Peers :
       /\ told' = [p \in Peers |-> IF p \in reached THEN told[p] ELSE NoPeer]
       /\ phase' = [p \in Peers |->
            IF phase[p] = "seated" \/ (phase[p] = "waiting" /\ told'[p] = NoPeer)
            THEN "away" ELSE phase[p]]
  /\ server' = FALSE
  /\ seats' = {} /\ ready' = {} /\ left' = {} /\ paired' = FALSE
  /\ UNCHANGED <<mate, alive>>

ServerStarts ==
  /\ ~server
  /\ server' = TRUE
  /\ UNCHANGED <<phase, mate, told, seats, ready, left, paired, alive, smooth, faults>>

-----------------------------------------------------------------------------
Rendezvous(p) == Dial(p) \/ SendReady(p) \/ TakeGo(p) \/ PunchEnds(p) \/ Cleanup(p)

Next ==
  \/ \E p \in Peers : Rendezvous(p) \/ Notice(p) \/ DialFails(p) \/ Crash(p)
  \/ \E c \in Clients : Meet(c) \/ HandshakeFails(c)
  \/ LinkLost \/ ServerStops \/ ServerStarts

Spec == Init /\ [][Next]_vars

\* The loops go on, timers fire, and the server is started again.
Fairness ==
  /\ \A p \in Peers :
       /\ WF_vars(Dial(p)) /\ WF_vars(SendReady(p)) /\ WF_vars(TakeGo(p))
       /\ WF_vars(PunchEnds(p)) /\ WF_vars(Cleanup(p)) /\ WF_vars(Notice(p))
  /\ \A c \in Clients : WF_vars(Meet(c)) /\ WF_vars(~Expected(c) /\ HandshakeFails(c))
  /\ WF_vars(ServerStarts)

FairSpec == Spec /\ Fairness

-----------------------------------------------------------------------------
(* Properties.                                                             *)

\* While introductions are spared, the host never sits in Accept - which has no
\* timeout - for a client that is not on its way to it.
ListensForSomebody ==
  smooth /\ phase[Host] = "meeting" =>
    \/ phase[mate[Host]] \in {"punching", "meeting"} /\ mate[mate[Host]] = Host
    \/ phase[mate[Host]] = "waiting" /\ told[mate[Host]] = Host

\* A connection that lives is between the host and the client it was told of.
TunnelIsMutual ==
  \A c \in alive :
    phase[Host] = "joined" /\ mate[Host] = c /\ phase[c] = "joined" /\ mate[c] = Host

\* Whom each end takes itself to be connected with.
Believed == [p \in Peers |-> IF phase[p] = "joined" THEN mate[p] ELSE NoPeer]

Ends == INSTANCE Line WITH peer <- Believed, line <- alive

\* The loops, the server and the handshakes between them keep the promise of a
\* line: nobody is connected with somebody who is not connected with it, a second
\* client does not come between, and no end leaves a connection that lives,
\* whatever is lost, crashes or is introduced in the meantime.
LineIsKept == Ends!Spec

\* What a client was told, it was told of the host, and it keeps it till the end.
MatesAreKept ==
  \A c \in Clients :
    /\ told[c] \in {Host, NoPeer}
    /\ phase[c] \in {"punching", "meeting", "joined"} => mate[c] = Host

\* A peer that has yet to say it is ready has its seat.
SeatsAreKept == \A p \in Peers : phase[p] = "seated" => p \in seats \ left

IInv == TypeOK /\ TunnelIsMutual /\ MatesAreKept /\ SeatsAreKept

\* What the host was told, or meets, is a client.
HostMeetsClients ==
  /\ told[Host] \in Clients \cup {NoPeer}
  /\ phase[Host] \in {"punching", "meeting"} => mate[Host] \in Clients

\* p is on its way to meet q.
OnItsWay(p, q) ==
  \/ phase[p] = "waiting" /\ told[p] = q
  \/ phase[p] \in {"punching", "meeting"} /\ mate[p] = q

\* While introductions are spared: who has a go coming is still there for it;
\* who is ready waits, until the pairing; and the host is met half way.
GoesAwaited ==
  smooth => \A p \in Peers :
    told[p] # NoPeer => paired /\ p \in seats \ left /\ phase[p] = "waiting"
ReadyOnesWait ==
  smooth /\ ~paired => \A p \in ready \ left : phase[p] = "waiting"
HostIsMet ==
  smooth => \A c \in Clients : OnItsWay(Host, c) => OnItsWay(c, Host)

SmoothInv == HostMeetsClients /\ GoesAwaited /\ ReadyOnesWait /\ HostIsMet

\* Once faults stop striking there is a tunnel again, and it stays.
Reconnects == <>[](alive # {})

\* No hello comes to a session whose pairing is not over: no other client takes
\* the seat that the introduced one has left before the host has left its own.
\* The server admits that hello, but pairs nobody in that session again for as
\* long as somebody sits in it.
InTurn == paired => \A p \in Peers : phase[p] # "seated"

\* The tunnel comes back when faults spare introductions and clients come in turn.
ReconnectsIfSpared == smooth /\ []InTurn => Reconnects

\* Out of turn it need not: the code refutes this, unless there is one client only.
ReconnectsOutOfTurn == smooth => Reconnects
=============================================================================
