----------------------------- MODULE HolePunch -----------------------------
(***************************************************************************)
(* Hole punching (Punch in internal/nat/nat.go) as Dial uses it on both    *)
(* sides (internal/signal/client.go): each peer repeats a hello on every   *)
(* candidate path, answers the hellos it hears with acks, and returns the  *)
(* path its first ack came over - or falls back to the relay when its      *)
(* deadline passes.  Nothing else tells a peer how the other one ended.    *)
(*                                                                         *)
(* A path stands for a pair of candidates: a datagram sent to a candidate  *)
(* arrives from the matching candidate of its sender, or it is a stray     *)
(* that matchCandidate drops.  The network delays, reorders and loses.     *)
(***************************************************************************)
EXTENDS Naturals

CONSTANTS
  Peers,    \* the two peers that were told to go
  Paths,    \* the candidate paths both have been told of
  MaxLoss,  \* how many datagrams the network loses
  InFlight  \* bound: datagrams of a kind, on a path, on their way at a time

ASSUME PeersAssumption == \E p \in Peers, q \in Peers : p # q /\ Peers = {p, q}
ASSUME BoundsAssumption == MaxLoss \in Nat /\ InFlight \in Nat \ {0}

VARIABLES
  works,   \* the paths that carry datagrams, fixed by the NATs in between
  forced,  \* the peers started with RT_FORCE_RELAY=1
  phase,   \* where each peer is
  heard,   \* Punch's heard: the paths a hello has come over
  via,     \* the path Punch returned, as a set
  net,     \* the datagrams on their way to each peer, by path and kind
  lost     \* datagrams lost so far

vars == <<works, forced, phase, heard, via, net, lost>>

Kinds == {"hello", "ack"}

\* Yet to be told to go; at the head of Punch's loop; in its read; back from
\* Dial with a direct connection, or with a relayed one.
Phases == {"waiting", "sending", "reading", "direct", "relay"}
Punching == {"sending", "reading"}

Other(p) == CHOOSE q \in Peers : q # p

TypeOK ==
  /\ works \subseteq Paths /\ forced \subseteq Peers
  /\ phase \in [Peers -> Phases]
  /\ heard \in [Peers -> SUBSET Paths]
  /\ via \in [Peers -> SUBSET Paths]
  /\ net \in [Peers -> [Paths -> [Kinds -> 0..InFlight]]]
  /\ lost \in 0..MaxLoss

Init ==
  /\ works \in SUBSET Paths /\ forced \in SUBSET Peers
  /\ phase = [p \in Peers |-> "waiting"]
  /\ heard = [p \in Peers |-> {}]
  /\ via = [p \in Peers |-> {}]
  /\ net = [p \in Peers |-> [k \in Paths |-> [m \in Kinds |-> 0]]]
  /\ lost = 0

-----------------------------------------------------------------------------
(* The network.                                                            *)

Taken(p, k, m) == [net[p] EXCEPT ![k][m] = @ - 1]

AtMost(n) == IF n < InFlight THEN n ELSE InFlight

\* The queue of q with copies[k][m] more datagrams of kind m on path k.
Added(q, copies) ==
  [k \in Paths |-> [m \in Kinds |->
     IF k \in works THEN AtMost(net[q][k][m] + copies[k][m]) ELSE 0]]

Sent(p, copies) == [net EXCEPT ![Other(p)] = Added(Other(p), copies)]

\* p reads a datagram and sends what it answers.
Answered(p, k, m, copies) ==
  [q \in Peers |-> IF q = p THEN Taken(p, k, m) ELSE Added(q, copies)]

Acks(k, n) == [j \in Paths |-> [m \in Kinds |-> IF j = k /\ m = "ack" THEN n ELSE 0]]

Lose(p, k, m) ==
  /\ net[p][k][m] > 0
  /\ lost < MaxLoss
  /\ net' = [net EXCEPT ![p] = Taken(p, k, m)]
  /\ lost' = lost + 1
  /\ UNCHANGED <<works, forced, phase, heard, via>>

\* The NAT of a peer that has sent nothing yet lets nothing in.
ShutOut(p, k, m) ==
  /\ phase[p] = "waiting"
  /\ net[p][k][m] > 0
  /\ net' = [net EXCEPT ![p] = Taken(p, k, m)]
  /\ UNCHANGED <<works, forced, phase, heard, via, lost>>

-----------------------------------------------------------------------------
(* Dial after go, and Punch.                                               *)

\* Faulty variant: RT_FORCE_RELAY is not looked at.
GoAsOthers(p) ==
  /\ phase[p] = "waiting"
  /\ phase' = [phase EXCEPT ![p] = "sending"]
  /\ UNCHANGED <<works, forced, heard, via, net, lost>>

Go(p) ==
  /\ phase[p] = "waiting"
  /\ phase' = [phase EXCEPT ![p] = IF p \in forced THEN "relay" ELSE "sending"]
  /\ UNCHANGED <<works, forced, heard, via, net, lost>>

\* Faulty variant: acks for whoever may be there.
AllOfRound(p) == [k \in Paths |-> [m \in Kinds |-> 1]]

\* A hello on every path, and an ack on those a hello has come over.
Round(p) == [k \in Paths |-> [m \in Kinds |-> IF m = "hello" \/ k \in heard[p] THEN 1 ELSE 0]]

SendRound(p) ==
  /\ phase[p] = "sending"
  /\ phase' = [phase EXCEPT ![p] = "reading"]
  /\ net' = Sent(p, Round(p))
  /\ UNCHANGED <<works, forced, heard, via, lost>>

\* 200 ms without a datagram, or with one that is not for Punch.
ReadNothing(p) ==
  /\ phase[p] = "reading"
  /\ phase' = [phase EXCEPT ![p] = "sending"]
  /\ UNCHANGED <<works, forced, heard, via, net, lost>>

\* Faulty variant: a read that failed leaves the last hello in the buffer.
RereadHello(p, k) ==
  /\ phase[p] = "reading"
  /\ k \in heard[p] \/ net[p][k]["hello"] > 0
  /\ heard' = [heard EXCEPT ![p] = @ \cup {k}]
  /\ net' = Answered(p, k, "hello", Acks(k, 1))
  /\ phase' = [phase EXCEPT ![p] = "sending"]
  /\ UNCHANGED <<works, forced, via, lost>>

ReadHello(p, k) ==
  /\ phase[p] = "reading"
  /\ net[p][k]["hello"] > 0
  /\ heard' = [heard EXCEPT ![p] = @ \cup {k}]
  /\ net' = Answered(p, k, "hello", Acks(k, 1))
  /\ phase' = [phase EXCEPT ![p] = "sending"]
  /\ UNCHANGED <<works, forced, via, lost>>

\* Faulty variant: two final acks.
TwoFinalAcks == 2

FinalAcks == 3

ReadAck(p, k) ==
  /\ phase[p] = "reading"
  /\ net[p][k]["ack"] > 0
  /\ via' = [via EXCEPT ![p] = {k}]
  /\ net' = Answered(p, k, "ack", Acks(k, FinalAcks))
  /\ phase' = [phase EXCEPT ![p] = "direct"]
  /\ UNCHANGED <<works, forced, heard, lost>>

\* The deadline has passed.
Expire(p) ==
  /\ phase[p] = "sending"
  /\ phase' = [phase EXCEPT ![p] = "relay"]
  /\ UNCHANGED <<works, forced, heard, via, net, lost>>

\* Six seconds are thirty rounds: a deadline does not pass while datagrams that
\* will arrive are on their way, nor while the other peer still sends some.
TimeoutCoversRounds(p) ==
  works # {} =>
    /\ phase[Other(p)] \in {"direct", "relay"}
    /\ \A k \in Paths, m \in Kinds : net[p][k][m] = 0

-----------------------------------------------------------------------------
Peer(p) ==
  \/ Go(p) \/ SendRound(p) \/ ReadNothing(p)
  \/ \E k \in Paths : ReadHello(p, k) \/ ReadAck(p, k)
  \/ TimeoutCoversRounds(p) /\ Expire(p)

Network == \E p \in Peers, k \in Paths, m \in Kinds : Lose(p, k, m) \/ ShutOut(p, k, m)

\* Both are done: the loops are left, and so is this module.
Finished == \A p \in Peers : phase[p] \in {"direct", "relay"}

Next == (\E p \in Peers : Peer(p)) \/ Network

Spec == Init /\ [][Next]_vars

-----------------------------------------------------------------------------
(* Properties.                                                             *)

\* A direct connection is over a path that has carried datagrams both ways: the
\* other peer has heard a hello on it, or answered one that this peer did.
WorksBothWays ==
  \A p \in Peers : \A k \in via[p] :
    k \in heard[Other(p)] \/ (via[Other(p)] = {k} /\ k \in heard[p])

\* Both peers reach the same verdict - what Dial promises with "a Session ready
\* for QUIC", for a direct peer and a relayed one never hear each other.
SameVerdict == Finished => \E v \in {"direct", "relay"} : \A p \in Peers : phase[p] = v

\* An ack is on its way only where a hello was heard.
AcksAnswerHellos ==
  \A p \in Peers, k \in Paths :
    net[p][k]["ack"] > 0 =>
      k \in heard[Other(p)] \/ (via[Other(p)] = {k} /\ k \in heard[p])

\* Punch returns a path once, when it ends.
OnePath == \A p \in Peers : phase[p] # "direct" => via[p] = {}

IInv == TypeOK /\ WorksBothWays /\ AcksAnswerHellos /\ OnePath

-----------------------------------------------------------------------------
(* What makes SameVerdict inductive, as long as the network cannot lose    *)
(* all the acks that Punch sends at its end.                               *)

AcksToSpare == MaxLoss < FinalAcks /\ FinalAcks <= InFlight

\* Who has not been told to go, or insists on the relay, sends nothing; ...
SilentUntilGo ==
  \A p \in Peers :
    /\ p \in forced => phase[p] \in {"waiting", "relay"}
    /\ p \in forced \/ phase[p] = "waiting" =>
         \A k \in Paths, m \in Kinds : net[Other(p)][k][m] = 0

\* ... what is on its way is on a path that works, and so is what came over; ...
PathsWork ==
  \A p \in Peers :
    /\ via[p] \subseteq works
    /\ \A k \in Paths, m \in Kinds : net[p][k][m] > 0 => k \in works

\* ... nobody gives up alone, but who insists, or when there is no way; ...
GivenUpTogether ==
  \A p \in Peers :
    phase[p] = "relay" => p \in forced \/ works = {} \/ phase[Other(p)] = "relay"

\* ... and who has left by a path left enough acks behind for the other to follow.
AcksLeftBehind ==
  \A p \in Peers : phase[p] = "direct" =>
    \/ phase[Other(p)] = "direct"
    \/ /\ phase[Other(p)] \in Punching
       /\ \E k \in via[p] : net[Other(p)][k]["ack"] + lost >= FinalAcks

VerdictInv == SilentUntilGo /\ PathsWork /\ GivenUpTogether /\ AcksLeftBehind

-----------------------------------------------------------------------------
(* Liveness.  Both loops keep going; a deadline that has passed stays      *)
(* passed until the loop looks at it; and a datagram on its way to a peer  *)
(* that keeps reading is read in the end, unless it is lost.               *)
Fairness ==
  /\ \A p \in Peers :
       WF_vars(Go(p)) /\ WF_vars(SendRound(p)) /\ WF_vars(ReadNothing(p))
       /\ SF_vars(TimeoutCoversRounds(p) /\ Expire(p))
  /\ \A p \in Peers, k \in Paths : SF_vars(ReadHello(p, k)) /\ SF_vars(ReadAck(p, k))

FairSpec == Spec /\ Fairness

\* A path that works is found, by both, when neither insists on the relay.
PathIsFound ==
  (works # {} /\ forced = {}) ~> (\A p \in Peers : phase[p] = "direct")

\* And without one, or with a peer that insists, both end on the relay.
RelayIsFound ==
  (works = {} \/ forced # {}) ~> (\A p \in Peers : phase[p] = "relay")

\* Punching ends, for both, and finds what there is to find.
BestPathIsFound == PathIsFound /\ RelayIsFound
=============================================================================
