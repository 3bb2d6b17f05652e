--------------------------- MODULE HolePunchProofs ---------------------------
(***************************************************************************)
(* Theorems about hole punching, for any set of candidate paths, any       *)
(* deadlines and any number of lost datagrams; VerdictsAgree alone needs   *)
(* some of the last acks to arrive.                                        *)
(***************************************************************************)
EXTENDS HolePunch, TLAPS

\* There are two peers, each the other's other.
LEMMA TwoPeers ==
  ASSUME NEW p \in Peers
  PROVE  /\ Other(p) \in Peers /\ Other(p) # p /\ Other(Other(p)) = p
         /\ \A q \in Peers : q = p \/ q = Other(p)
<1>1. \E q \in Peers : q # p
  BY PeersAssumption
<1>2. Other(p) \in Peers /\ Other(p) # p
  BY <1>1 DEF Other
<1>3. \E q \in Peers : q # Other(p)
  BY <1>2
<1>4. Other(Other(p)) \in Peers /\ Other(Other(p)) # Other(p)
  BY <1>3 DEF Other
<1> QED
  BY <1>2, <1>4, PeersAssumption

\* A new pair of peers satisfies the invariant.
LEMMA InitIInv == Init => IInv
  BY BoundsAssumption DEF Init, IInv, TypeOK, WorksBothWays, AcksAnswerHellos, OnePath, Phases, Kinds

\* Adding datagrams to a queue keeps it a queue.
LEMMA AddedType ==
  ASSUME TypeOK, NEW q \in Peers, NEW copies \in [Paths -> [Kinds -> Nat]]
  PROVE  Added(q, copies) \in [Paths -> [Kinds -> 0..InFlight]]
<1>1. ASSUME NEW n \in Nat PROVE AtMost(n) \in 0..InFlight
  BY <1>1, BoundsAssumption DEF AtMost
<1>2. ASSUME NEW k \in Paths, NEW m \in Kinds
      PROVE  net[q][k][m] + copies[k][m] \in Nat
  BY BoundsAssumption DEF TypeOK
<1> QED
  BY <1>1, <1>2, BoundsAssumption DEF Added

\* So does taking one out.
LEMMA TakenType ==
  ASSUME TypeOK, NEW p \in Peers, NEW k \in Paths, NEW m \in Kinds, net[p][k][m] > 0
  PROVE  Taken(p, k, m) \in [Paths -> [Kinds -> 0..InFlight]]
<1>1. net[p][k][m] - 1 \in 0..InFlight
  BY BoundsAssumption DEF TypeOK
<1> QED
  BY <1>1 DEF Taken, TypeOK

\* What the loops send are numbers of datagrams.
LEMMA CopiesType ==
  /\ \A p \in Peers : Round(p) \in [Paths -> [Kinds -> Nat]]
  /\ \A k \in Paths : Acks(k, 1) \in [Paths -> [Kinds -> Nat]]
  /\ \A k \in Paths : Acks(k, FinalAcks) \in [Paths -> [Kinds -> Nat]]
  BY DEF Round, Acks, FinalAcks

\* Every step keeps every variable's type.
LEMMA TypeStep == TypeOK /\ [Next]_vars => TypeOK'
<1> SUFFICES ASSUME TypeOK, [Next]_vars PROVE TypeOK'
  OBVIOUS
<1> DEFINE Net == [Peers -> [Paths -> [Kinds -> 0..InFlight]]]
<1>1. ASSUME NEW p \in Peers, Go(p) \/ ReadNothing(p) \/ Expire(p) PROVE TypeOK'
  BY <1>1 DEF Go, ReadNothing, Expire, TypeOK, Phases
<1>2. ASSUME NEW p \in Peers, SendRound(p) PROVE TypeOK'
  <2>1. net' \in Net
    BY <1>2, TwoPeers, AddedType, CopiesType DEF SendRound, Sent, TypeOK
  <2> QED
    BY <1>2, <2>1 DEF SendRound, TypeOK, Phases
<1>3. ASSUME NEW p \in Peers, NEW k \in Paths, ReadHello(p, k) PROVE TypeOK'
  <2>1. net' \in Net
    BY <1>3, AddedType, TakenType, CopiesType DEF ReadHello, Answered, Kinds
  <2> QED
    BY <1>3, <2>1 DEF ReadHello, TypeOK, Phases
<1>4. ASSUME NEW p \in Peers, NEW k \in Paths, ReadAck(p, k) PROVE TypeOK'
  <2>1. net' \in Net
    BY <1>4, AddedType, TakenType, CopiesType DEF ReadAck, Answered, Kinds
  <2> QED
    BY <1>4, <2>1 DEF ReadAck, TypeOK, Phases
<1>5. ASSUME NEW p \in Peers, NEW k \in Paths, NEW m \in Kinds, Lose(p, k, m) \/ ShutOut(p, k, m)
      PROVE  TypeOK'
  <2>1. net[p][k][m] > 0 /\ net' = [net EXCEPT ![p] = Taken(p, k, m)]
    BY <1>5 DEF Lose, ShutOut
  <2>2. net' \in Net
    <3>1. Taken(p, k, m) \in [Paths -> [Kinds -> 0..InFlight]]
      BY <2>1, TakenType
    <3> QED
      BY <2>1, <3>1 DEF TypeOK
  <2>3. lost' \in 0..MaxLoss
    BY <1>5, BoundsAssumption DEF Lose, ShutOut, TypeOK
  <2> QED
    BY <1>5, <2>2, <2>3 DEF Lose, ShutOut, TypeOK
<1>6. CASE UNCHANGED vars
  BY <1>6 DEF vars, TypeOK
<1> QED
  BY <1>1, <1>2, <1>3, <1>4, <1>5, <1>6 DEF Next, Peer, Network

-----------------------------------------------------------------------------
(* Acks and the paths they open.                                           *)

\* A hello has been heard, or answered, on path k: what
\* justifies both an ack on its way to p and p's verdict that k is direct.
Heard(p, k) == k \in heard[Other(p)] \/ (via[Other(p)] = {k} /\ k \in heard[p])

\* A step that leaves what was heard and returned alone, and adds no acks.
LEMMA QuietStep ==
  ASSUME IInv, TypeOK', UNCHANGED <<heard, via>>,
         \A p \in Peers : phase'[p] # "direct" => phase[p] # "direct" \/ via[p] = {},
         \A p \in Peers, k \in Paths : net'[p][k]["ack"] > 0 => net[p][k]["ack"] > 0
  PROVE  IInv'
  BY TwoPeers DEF IInv, WorksBothWays, AcksAnswerHellos, OnePath

\* An ack that was added is accounted for by what its sender has heard.
LEMMA RoundStep ==
  ASSUME IInv, TypeOK', NEW p \in Peers, SendRound(p)
  PROVE  IInv'
<1>1. ASSUME NEW q \in Peers, NEW k \in Paths, net'[q][k]["ack"] > 0 PROVE Heard(q, k)
  <2>1. CASE q = p
    BY <1>1, <2>1, TwoPeers DEF SendRound, Sent, IInv, TypeOK, AcksAnswerHellos, Heard
  <2>2. CASE q = Other(p)
    <3>1. CASE k \in heard[p]
      BY <2>2, <3>1, TwoPeers DEF Heard
    <3>2. CASE k \notin heard[p]
      <4>1. net'[q][k]["ack"] = IF k \in works THEN AtMost(net[q][k]["ack"] + 0) ELSE 0
        BY <2>2, <3>2, TwoPeers DEF SendRound, Sent, Added, Round, Kinds, IInv, TypeOK
      <4>2. net[q][k]["ack"] > 0
        BY <1>1, <4>1, BoundsAssumption DEF AtMost, IInv, TypeOK, Kinds
      <4> QED
        BY <4>2 DEF IInv, AcksAnswerHellos, Heard
    <3> QED
      BY <3>1, <3>2
  <2> QED
    BY <2>1, <2>2, TwoPeers
<1> QED
  BY <1>1 DEF SendRound, Heard, IInv, TypeOK, WorksBothWays, AcksAnswerHellos, OnePath

\* Reading a datagram adds acks to the other peer's queue only.
LEMMA AnswerStep ==
  ASSUME IInv, NEW p \in Peers, NEW j \in Paths, NEW m \in Kinds, NEW n \in Nat,
         net[p][j][m] > 0, net' = Answered(p, j, m, Acks(j, n)),
         NEW q \in Peers, NEW k \in Paths, net'[q][k]["ack"] > 0
  PROVE  net[q][k]["ack"] > 0 \/ (q = Other(p) /\ k = j)
<1>1. CASE q = p
  <2>1. net'[q][k]["ack"] = net[q][k]["ack"] \/ net'[q][k]["ack"] = net[q][k]["ack"] - 1
    BY <1>1 DEF Answered, Taken, IInv, TypeOK, Kinds
  <2> QED
    BY <2>1, BoundsAssumption DEF IInv, TypeOK, Kinds
<1>2. CASE q # p /\ k # j
  <2>1. net'[q][k]["ack"] = IF k \in works THEN AtMost(net[q][k]["ack"] + 0) ELSE 0
    BY <1>2 DEF Answered, Added, Acks, Kinds
  <2> QED
    BY <2>1, BoundsAssumption DEF AtMost, IInv, TypeOK, Kinds
<1> QED
  BY <1>1, <1>2, TwoPeers

\* The answer to a hello goes where the hello came from.
LEMMA HelloStep ==
  ASSUME IInv, TypeOK', NEW p \in Peers, NEW j \in Paths, ReadHello(p, j)
  PROVE  IInv'
<1>1. /\ heard' = [heard EXCEPT ![p] = @ \cup {j}] /\ via' = via
      /\ phase' = [phase EXCEPT ![p] = "sending"] /\ phase[p] = "reading"
  BY DEF ReadHello
<1>2. \A q \in Peers : heard[q] \subseteq heard'[q]
  BY <1>1 DEF IInv, TypeOK
<1>3. j \in heard'[p]
  BY <1>1 DEF IInv, TypeOK
<1>4. WorksBothWays'
  BY <1>1, <1>2, TwoPeers DEF IInv, WorksBothWays
<1>5. ASSUME NEW q \in Peers, NEW k \in Paths, net'[q][k]["ack"] > 0
      PROVE  Heard(q, k)'
  <2>1. net[q][k]["ack"] > 0 \/ (q = Other(p) /\ k = j)
    BY <1>5, AnswerStep DEF ReadHello, Kinds
  <2> QED
    BY <1>1, <1>2, <1>3, <2>1, TwoPeers DEF Heard, IInv, AcksAnswerHellos
<1>6. OnePath'
  BY <1>1 DEF IInv, TypeOK, OnePath
<1> QED
  BY <1>4, <1>5, <1>6 DEF IInv, AcksAnswerHellos, Heard

\* The final acks go over the path the ack came over.
LEMMA AckStep ==
  ASSUME IInv, TypeOK', NEW p \in Peers, NEW j \in Paths, ReadAck(p, j)
  PROVE  IInv'
<1>1. /\ via' = [via EXCEPT ![p] = {j}] /\ heard' = heard
      /\ phase' = [phase EXCEPT ![p] = "direct"] /\ phase[p] = "reading"
      /\ net[p][j]["ack"] > 0
  BY DEF ReadAck
<1>2. via[p] = {}
  BY <1>1 DEF IInv, OnePath
<1>3. ASSUME NEW q \in Peers, NEW k \in Paths, Heard(q, k) PROVE Heard(q, k)'
  <2>1. Other(q) \in Peers /\ heard' = heard
    BY <1>1, TwoPeers
  <2>2. ASSUME via[Other(q)] = {k} PROVE via'[Other(q)] = {k}
    <3>1. Other(q) # p
      BY <1>2, <2>2
    <3> QED
      BY <1>1, <2>1, <2>2, <3>1 DEF IInv, TypeOK
  <2> QED
    BY <1>3, <2>1, <2>2 DEF Heard
<1>4. Heard(p, j)
  BY <1>1 DEF Heard, IInv, AcksAnswerHellos
<1>5. Heard(Other(p), j)'
  <2>1. via'[p] = {j} /\ Other(Other(p)) = p /\ Other(p) \in Peers
    BY <1>1, TwoPeers DEF IInv, TypeOK
  <2> QED
    BY <1>1, <1>4, <2>1 DEF Heard
<1>6. WorksBothWays'
  <2> SUFFICES ASSUME NEW q \in Peers, NEW k \in via'[q] PROVE Heard(q, k)'
    BY DEF WorksBothWays, Heard
  <2>1. CASE q = p
    BY <1>1, <1>3, <1>4, <2>1 DEF IInv, TypeOK
  <2>2. CASE q # p
    BY <1>1, <1>3, <2>2 DEF IInv, TypeOK, WorksBothWays, Heard
  <2> QED
    BY <2>1, <2>2
<1>7. ASSUME NEW q \in Peers, NEW k \in Paths, net'[q][k]["ack"] > 0
      PROVE  Heard(q, k)'
  <2>1. net[q][k]["ack"] > 0 \/ (q = Other(p) /\ k = j)
    BY <1>7, AnswerStep DEF ReadAck, FinalAcks, Kinds
  <2> QED
    BY <1>3, <1>5, <2>1 DEF IInv, AcksAnswerHellos, Heard
<1>8. OnePath'
  BY <1>1 DEF IInv, TypeOK, OnePath
<1> QED
  BY <1>6, <1>7, <1>8 DEF IInv, AcksAnswerHellos, Heard

\* The invariant is kept by every step.
LEMMA IInvStep == IInv /\ [Next]_vars => IInv'
<1> SUFFICES ASSUME IInv, [Next]_vars PROVE IInv'
  OBVIOUS
<1>0. TypeOK'
  BY TypeStep DEF IInv
<1>1. ASSUME NEW p \in Peers, Go(p) \/ ReadNothing(p) \/ Expire(p) PROVE IInv'
  BY <1>0, <1>1, QuietStep DEF Go, ReadNothing, Expire, IInv, TypeOK, OnePath
<1>2. ASSUME NEW p \in Peers, NEW k \in Paths, NEW m \in Kinds, Lose(p, k, m) \/ ShutOut(p, k, m)
      PROVE  IInv'
  <2>1. ASSUME NEW q \in Peers, NEW j \in Paths, net'[q][j]["ack"] > 0
        PROVE  net[q][j]["ack"] > 0
    <3>1. net' = [net EXCEPT ![p] = Taken(p, k, m)]
      BY <1>2 DEF Lose, ShutOut
    <3>2. \/ net'[q][j]["ack"] = net[q][j]["ack"]
          \/ net'[q][j]["ack"] = net[q][j]["ack"] - 1
      BY <3>1 DEF Taken, IInv, TypeOK, Kinds
    <3> QED
      BY <2>1, <3>2, BoundsAssumption DEF IInv, TypeOK, Kinds
  <2> QED
    BY <1>0, <1>2, <2>1, QuietStep DEF Lose, ShutOut
<1>3. CASE UNCHANGED vars
  BY <1>0, <1>3, QuietStep DEF vars
<1> QED
  BY <1>0, <1>1, <1>2, <1>3, RoundStep, HelloStep, AckStep DEF Next, Peer, Network

\* A path that Punch returns as direct has carried datagrams both ways, whatever
\* was lost or delayed and whenever the deadlines passed.
THEOREM DirectWorksBothWays == Spec => []WorksBothWays
<1>1. IInv => WorksBothWays
  BY DEF IInv
<1> QED
  BY InitIInv, IInvStep, <1>1, PTL DEF Spec

\* No queue exceeds its bound and no more is lost than the network may lose.
THEOREM PunchTypeCorrect == Spec => []TypeOK
<1>1. IInv => TypeOK
  BY DEF IInv
<1> QED
  BY InitIInv, IInvStep, <1>1, PTL DEF Spec
-----------------------------------------------------------------------------
(* Both reach the same verdict, as long as acks are to spare.              *)

\* New peers satisfy the invariant of the verdicts.
LEMMA InitVerdictInv == Init => VerdictInv
<1> SUFFICES ASSUME Init PROVE VerdictInv
  OBVIOUS
<1>1. \A p \in Peers, k \in Paths, m \in Kinds : net[Other(p)][k][m] = 0 /\ net[p][k][m] = 0
  BY TwoPeers DEF Init
<1>2. \A p \in Peers : phase[p] = "waiting" /\ via[p] = {}
  BY DEF Init
<1>3. SilentUntilGo /\ PathsWork
  BY <1>1, <1>2 DEF SilentUntilGo, PathsWork
<1>4. GivenUpTogether /\ AcksLeftBehind
  BY <1>2 DEF GivenUpTogether, AcksLeftBehind
<1> QED
  BY <1>3, <1>4 DEF VerdictInv

\* Adding datagrams to a queue takes none away, and puts some only where a path works.
LEMMA AddedGrows ==
  ASSUME TypeOK, PathsWork, NEW q \in Peers, NEW copies \in [Paths -> [Kinds -> Nat]],
         NEW k \in Paths, NEW m \in Kinds
  PROVE  /\ Added(q, copies)[k][m] >= net[q][k][m]
         /\ Added(q, copies)[k][m] > 0 => k \in works
         /\ k \in works /\ InFlight >= copies[k][m] => Added(q, copies)[k][m] >= copies[k][m]
<1>1. net[q][k][m] \in 0..InFlight /\ copies[k][m] \in Nat
  BY DEF TypeOK
<1>2. k \notin works => net[q][k][m] = 0
  BY <1>1, BoundsAssumption DEF PathsWork
<1>3. Added(q, copies)[k][m] = IF k \in works THEN AtMost(net[q][k][m] + copies[k][m]) ELSE 0
  BY DEF Added
<1> QED
  BY <1>1, <1>2, <1>3, BoundsAssumption DEF AtMost

\* A step that sends nothing, hears nothing and ends nothing but keeps what the
\* invariant says of who is where.
LEMMA TakeStep ==
  ASSUME IInv, VerdictInv, TypeOK', NEW p \in Peers, NEW j \in Paths, NEW n \in Kinds,
         Lose(p, j, n) \/ ShutOut(p, j, n)
  PROVE  VerdictInv'
<1>1. /\ net[p][j][n] > 0 /\ net' = [net EXCEPT ![p] = Taken(p, j, n)]
      /\ UNCHANGED <<works, forced, phase, heard, via>>
  BY DEF Lose, ShutOut
<1>2. ASSUME NEW q \in Peers, NEW k \in Paths, NEW m \in Kinds
      PROVE  /\ net'[q][k][m] <= net[q][k][m] /\ net'[q][k][m] >= 0
             /\ q # p => net'[q][k][m] = net[q][k][m]
             /\ net'[q][k][m] >= net[q][k][m] - 1
  <2>1. net[q][k][m] \in 0..InFlight /\ net[p][k][m] \in 0..InFlight /\ net'[q][k][m] \in 0..InFlight
    BY DEF IInv, TypeOK
  <2>2. net'[q][k][m] = IF q = p /\ k = j /\ m = n THEN net[q][k][m] - 1 ELSE net[q][k][m]
    BY <1>1 DEF Taken, IInv, TypeOK
  <2> QED
    BY <2>1, <2>2, BoundsAssumption
<1>3. SilentUntilGo'
  <2> SUFFICES ASSUME NEW q \in Peers, q \in forced \/ phase[q] = "waiting",
                      NEW k \in Paths, NEW m \in Kinds
               PROVE  net'[Other(q)][k][m] = 0
    BY <1>1 DEF VerdictInv, SilentUntilGo
  <2>1. net[Other(q)][k][m] = 0
    BY DEF VerdictInv, SilentUntilGo
  <2>2. Other(q) \in Peers
    BY TwoPeers
  <2>3. net'[Other(q)][k][m] \in 0..InFlight
    BY <2>2 DEF TypeOK
  <2> QED
    BY <1>2, <2>1, <2>2, <2>3, BoundsAssumption
<1>4. PathsWork'
  <2> SUFFICES ASSUME NEW q \in Peers, NEW k \in Paths, NEW m \in Kinds, net'[q][k][m] > 0
               PROVE  k \in works
    BY <1>1 DEF VerdictInv, PathsWork
  <2>1. net[q][k][m] > 0
    <3>1. net[q][k][m] \in 0..InFlight /\ net'[q][k][m] \in 0..InFlight
      BY DEF IInv, TypeOK
    <3> QED
      BY <1>2, <3>1, BoundsAssumption
  <2> QED
    BY <2>1 DEF VerdictInv, PathsWork
<1>5. GivenUpTogether'
  BY <1>1 DEF VerdictInv, GivenUpTogether
<1>6. AcksLeftBehind'
  <2> SUFFICES ASSUME NEW q \in Peers, phase[q] = "direct", phase[Other(q)] # "direct"
               PROVE  /\ phase[Other(q)] \in Punching
                      /\ \E k \in via[q] : net'[Other(q)][k]["ack"] + lost' >= FinalAcks
    BY <1>1 DEF AcksLeftBehind
  <2>1. PICK k \in via[q] : net[Other(q)][k]["ack"] + lost >= FinalAcks
    BY DEF VerdictInv, AcksLeftBehind
  <2>2. phase[Other(q)] \in Punching
    BY DEF VerdictInv, AcksLeftBehind
  <2>3. Other(q) \in Peers /\ k \in Paths
    BY TwoPeers DEF IInv, TypeOK
  <2>4. /\ net[Other(q)][k]["ack"] \in 0..InFlight /\ net'[Other(q)][k]["ack"] \in 0..InFlight
        /\ lost \in 0..MaxLoss
    BY <2>3 DEF IInv, TypeOK, Kinds
  <2>5. net'[Other(q)][k]["ack"] + lost' >= net[Other(q)][k]["ack"] + lost
    <3>1. CASE Lose(p, j, n)
      <4>1. lost' = lost + 1
        BY <3>1 DEF Lose
      <4>2. net'[Other(q)][k]["ack"] >= net[Other(q)][k]["ack"] - 1
        BY <1>2, <2>3 DEF Kinds
      <4> QED
        BY <2>4, <4>1, <4>2, BoundsAssumption
    <3>2. CASE ShutOut(p, j, n)
      <4>1. phase[p] = "waiting" /\ lost' = lost
        BY <3>2 DEF ShutOut
      <4>2. Other(q) # p
        BY <2>2, <4>1 DEF Punching
      <4>3. net'[Other(q)][k]["ack"] = net[Other(q)][k]["ack"]
        BY <1>2, <2>3, <4>2 DEF Kinds
      <4> QED
        BY <2>4, <4>1, <4>3, BoundsAssumption
    <3> QED
      BY <3>1, <3>2
  <2>6. net'[Other(q)][k]["ack"] + lost' >= FinalAcks
    <3>1. lost' \in Nat
      BY BoundsAssumption DEF TypeOK
    <3> QED
      BY <2>1, <2>4, <2>5, <3>1, BoundsAssumption DEF FinalAcks
  <2> QED
    BY <2>2, <2>6
<1> QED
  BY <1>3, <1>4, <1>5, <1>6 DEF VerdictInv

\* A step of the loops: p goes from one phase to another, and may send.  What it
\* takes is never an ack, unless it leaves.
LEMMA LoopStep ==
  ASSUME IInv, VerdictInv, TypeOK', NEW p \in Peers,
         Go(p) \/ SendRound(p) \/ ReadNothing(p) \/ \E j \in Paths : ReadHello(p, j)
  PROVE  VerdictInv'
<1>1. /\ UNCHANGED <<works, forced, via, lost>>
      /\ phase[p] \in {"waiting", "sending", "reading"}
      /\ phase' = [phase EXCEPT ![p] = phase'[p]]
      /\ phase'[p] \in Punching \/ (p \in forced /\ phase[p] = "waiting" /\ phase'[p] = "relay")
      /\ phase[p] = "waiting" \/ phase'[p] \in Punching
      /\ phase'[p] \in Punching => p \notin forced
  BY DEF Go, SendRound, ReadNothing, ReadHello, Punching, IInv, TypeOK, VerdictInv, SilentUntilGo
<1>2. Other(p) \in Peers /\ Other(p) # p /\ Other(Other(p)) = p
  BY TwoPeers
<1>3. phase'[Other(p)] = phase[Other(p)]
  BY <1>1, <1>2 DEF IInv, TypeOK
<1>4. ASSUME NEW k \in Paths, NEW m \in Kinds
      PROVE  /\ net'[p][k][m] > 0 => net[p][k][m] > 0
             /\ net'[p][k]["ack"] = net[p][k]["ack"]
             /\ net'[Other(p)][k][m] >= net[Other(p)][k][m]
             /\ net'[Other(p)][k][m] > 0 => k \in works
             /\ phase[p] = "waiting" => net' = net
  <2>0. /\ net[p][k][m] \in 0..InFlight /\ net[Other(p)][k][m] \in 0..InFlight
        /\ net[Other(p)][k][m] > 0 => k \in works
    BY <1>2 DEF IInv, TypeOK, VerdictInv, PathsWork
  <2>1. CASE Go(p) \/ ReadNothing(p)
    <3>1. net' = net
      BY <2>1 DEF Go, ReadNothing
    <3> QED
      BY <2>0, <3>1, BoundsAssumption
  <2>2. CASE SendRound(p)
    <3>1. net'[p] = net[p] /\ net'[Other(p)] = Added(Other(p), Round(p)) /\ phase[p] # "waiting"
      BY <1>2, <2>2 DEF SendRound, Sent, IInv, TypeOK
    <3>2. /\ Added(Other(p), Round(p))[k][m] >= net[Other(p)][k][m]
          /\ Added(Other(p), Round(p))[k][m] > 0 => k \in works
      BY <1>2, AddedGrows, CopiesType DEF IInv, VerdictInv
    <3> QED
      BY <3>1, <3>2
  <2>3. ASSUME NEW j \in Paths, ReadHello(p, j)
        PROVE  /\ net'[p][k][m] > 0 => net[p][k][m] > 0
               /\ net'[p][k]["ack"] = net[p][k]["ack"]
               /\ net'[Other(p)][k][m] >= net[Other(p)][k][m]
               /\ net'[Other(p)][k][m] > 0 => k \in works
               /\ phase[p] = "waiting" => net' = net
    <3>1. /\ net'[p] = Taken(p, j, "hello") /\ net'[Other(p)] = Added(Other(p), Acks(j, 1))
          /\ phase[p] # "waiting"
      BY <1>2, <2>3 DEF ReadHello, Answered
    <3>2. /\ Added(Other(p), Acks(j, 1))[k][m] >= net[Other(p)][k][m]
          /\ Added(Other(p), Acks(j, 1))[k][m] > 0 => k \in works
      BY <1>2, AddedGrows, CopiesType DEF IInv, VerdictInv
    <3>3. net'[p][k]["ack"] = net[p][k]["ack"]
      BY <3>1 DEF Taken, IInv, TypeOK, Kinds
    <3>4. net'[p][k][m] = net[p][k][m] \/ net'[p][k][m] = net[p][k][m] - 1
      BY <3>1 DEF Taken, IInv, TypeOK, Kinds
    <3> QED
      BY <2>0, <3>1, <3>2, <3>3, <3>4, BoundsAssumption
  <2> QED
    BY <2>1, <2>2, <2>3
<1>5. SilentUntilGo'
  <2>1. ASSUME NEW q \in Peers, q \in forced
        PROVE  phase'[q] \in {"waiting", "relay"}
    BY <1>1, <2>1 DEF VerdictInv, SilentUntilGo, IInv, TypeOK
  <2>2. ASSUME NEW q \in Peers, q \in forced \/ phase'[q] = "waiting", NEW k \in Paths, NEW m \in Kinds
        PROVE  net'[Other(q)][k][m] = 0
    <3>1. q \in forced \/ phase[q] = "waiting"
      BY <1>1, <2>2 DEF Punching, IInv, TypeOK
    <3>2. net[Other(q)][k][m] = 0
      BY <3>1 DEF VerdictInv, SilentUntilGo
    <3>3. CASE q = p
      <4>1. phase[p] = "waiting"
        BY <1>1, <2>2, <3>3 DEF Punching
      <4> QED
        BY <1>4, <3>2, <4>1
    <3>4. CASE q = Other(p)
      <4>1. net[p][k][m] = 0 /\ net'[p][k][m] \in 0..InFlight
        BY <1>2, <3>2, <3>4 DEF TypeOK
      <4>2. ~(net'[p][k][m] > 0)
        BY <1>4, <4>1
      <4> QED
        BY <1>2, <3>4, <4>1, <4>2, BoundsAssumption
    <3> QED
      BY <3>3, <3>4, TwoPeers
  <2> QED
    BY <1>1, <2>1, <2>2 DEF SilentUntilGo
<1>6. PathsWork'
  <2>1. ASSUME NEW q \in Peers, NEW k \in Paths, NEW m \in Kinds, net'[q][k][m] > 0
        PROVE  k \in works
    <3>1. CASE q = p
      BY <1>4, <2>1, <3>1 DEF VerdictInv, PathsWork
    <3>2. CASE q = Other(p)
      BY <1>4, <2>1, <3>2
    <3> QED
      BY <3>1, <3>2, TwoPeers
  <2> QED
    BY <1>1, <2>1 DEF VerdictInv, PathsWork
<1>7. GivenUpTogether'
  <2> SUFFICES ASSUME NEW q \in Peers, phase'[q] = "relay"
               PROVE  q \in forced \/ works = {} \/ phase'[Other(q)] = "relay"
    BY <1>1 DEF GivenUpTogether
  <2>1. CASE q = p
    BY <1>1, <2>1 DEF Punching
  <2>2. CASE q # p
    <3>1. q = Other(p) /\ Other(q) = p /\ phase[q] = "relay"
      BY <1>2, <1>3, <2>2, TwoPeers
    <3>2. phase[p] # "relay"
      BY <1>1
    <3> QED
      BY <3>1, <3>2 DEF VerdictInv, GivenUpTogether
  <2> QED
    BY <2>1, <2>2
<1>8. AcksLeftBehind'
  <2> SUFFICES ASSUME NEW q \in Peers, phase'[q] = "direct", phase'[Other(q)] # "direct"
               PROVE  /\ phase'[Other(q)] \in Punching
                      /\ \E k \in via[q] : net'[Other(q)][k]["ack"] + lost >= FinalAcks
    BY <1>1 DEF AcksLeftBehind
  <2>1. q # p
    BY <1>1 DEF Punching
  <2>2. q = Other(p) /\ Other(q) = p /\ phase[q] = "direct"
    BY <1>2, <1>3, <2>1, TwoPeers
  <2>3. phase[p] \in Punching /\ \E k \in via[q] : net[p][k]["ack"] + lost >= FinalAcks
    BY <1>1, <2>2 DEF VerdictInv, AcksLeftBehind
  <2>4. phase'[p] \in Punching
    BY <1>1, <2>3 DEF Punching
  <2>5. via[q] \subseteq Paths
    BY DEF IInv, TypeOK
  <2> QED
    BY <1>4, <2>2, <2>3, <2>4, <2>5 DEF Kinds
<1> QED
  BY <1>5, <1>6, <1>7, <1>8 DEF VerdictInv

\* Who leaves by a path leaves enough acks behind for the other.
LEMMA LeaveStep ==
  ASSUME AcksToSpare, IInv, VerdictInv, TypeOK', NEW p \in Peers, NEW j \in Paths, ReadAck(p, j)
  PROVE  VerdictInv'
<1>1. /\ UNCHANGED <<works, forced, lost>>
      /\ phase[p] = "reading" /\ phase' = [phase EXCEPT ![p] = "direct"]
      /\ via' = [via EXCEPT ![p] = {j}] /\ net[p][j]["ack"] > 0
  BY DEF ReadAck
<1>2. Other(p) \in Peers /\ Other(p) # p /\ Other(Other(p)) = p
  BY TwoPeers
<1>3. /\ phase'[p] = "direct" /\ via'[p] = {j}
      /\ phase'[Other(p)] = phase[Other(p)] /\ via'[Other(p)] = via[Other(p)]
  BY <1>1, <1>2 DEF IInv, TypeOK
<1>4. net'[p] = Taken(p, j, "ack") /\ net'[Other(p)] = Added(Other(p), Acks(j, FinalAcks))
  BY <1>2 DEF ReadAck, Answered
<1>5. j \in works /\ p \notin forced
  BY <1>1 DEF VerdictInv, PathsWork, SilentUntilGo, Kinds
<1>6. Other(p) \notin forced /\ phase[Other(p)] # "waiting"
  <2>1. net[p][j]["ack"] # 0
    BY <1>1
  <2> QED
    BY <1>2, <2>1 DEF VerdictInv, SilentUntilGo, Kinds
<1>7. phase[Other(p)] # "relay"
  BY <1>1, <1>2, <1>5, <1>6 DEF VerdictInv, GivenUpTogether
<1>8. ASSUME NEW k \in Paths, NEW m \in Kinds
      PROVE  /\ net'[p][k][m] > 0 => net[p][k][m] > 0
             /\ net'[Other(p)][k][m] > 0 => k \in works
  <2>1. net'[Other(p)][k][m] > 0 => k \in works
    BY <1>2, <1>4, AddedGrows, CopiesType DEF IInv, VerdictInv
  <2>2. net'[p][k][m] = net[p][k][m] \/ net'[p][k][m] = net[p][k][m] - 1
    BY <1>4 DEF Taken, IInv, TypeOK, Kinds
  <2>3. net[p][k][m] \in 0..InFlight
    BY DEF IInv, TypeOK
  <2> QED
    BY <2>1, <2>2, <2>3, BoundsAssumption
<1>9. net'[Other(p)][j]["ack"] >= FinalAcks
  <2>1. Acks(j, FinalAcks)[j]["ack"] = FinalAcks
    BY DEF Acks, Kinds
  <2>2. Acks(j, FinalAcks) \in [Paths -> [Kinds -> Nat]] /\ "ack" \in Kinds
    BY CopiesType DEF Kinds
  <2>3. InFlight >= FinalAcks
    BY BoundsAssumption DEF AcksToSpare, FinalAcks
  <2> QED
    BY <1>2, <1>4, <1>5, <2>1, <2>2, <2>3, AddedGrows DEF IInv, VerdictInv
<1>10. SilentUntilGo'
  <2> SUFFICES ASSUME NEW q \in Peers
               PROVE  q \notin forced /\ phase'[q] # "waiting"
    BY <1>1 DEF SilentUntilGo
  <2> QED
    BY <1>1, <1>3, <1>5, <1>6, TwoPeers
<1>11. PathsWork'
  <2>1. ASSUME NEW q \in Peers, NEW k \in Paths, NEW m \in Kinds, net'[q][k][m] > 0
        PROVE  k \in works
    BY <1>8, <2>1, TwoPeers DEF VerdictInv, PathsWork
  <2>2. \A q \in Peers : via'[q] \subseteq works
    BY <1>1, <1>5 DEF VerdictInv, PathsWork, IInv, TypeOK
  <2> QED
    BY <1>1, <2>1, <2>2 DEF PathsWork
<1>12. GivenUpTogether'
  BY <1>3, <1>7, TwoPeers DEF GivenUpTogether
<1>13. AcksLeftBehind'
  <2>1. phase[Other(p)] \in Punching \cup {"direct"}
    BY <1>2, <1>6, <1>7 DEF IInv, TypeOK, Phases, Punching
  <2>2. /\ net'[Other(p)][j]["ack"] \in 0..InFlight /\ lost \in 0..MaxLoss
    BY <1>2 DEF IInv, TypeOK, Kinds
  <2>3. net'[Other(p)][j]["ack"] + lost >= FinalAcks
    BY <1>9, <2>2, BoundsAssumption DEF FinalAcks
  <2> SUFFICES ASSUME NEW q \in Peers, phase'[q] = "direct", phase'[Other(q)] # "direct"
               PROVE  /\ phase'[Other(q)] \in Punching
                      /\ \E k \in via'[q] : net'[Other(q)][k]["ack"] + lost >= FinalAcks
    BY <1>1 DEF AcksLeftBehind
  <2>4. q = p
    BY <1>2, <1>3, TwoPeers
  <2> QED
    BY <1>3, <2>1, <2>3, <2>4
<1> QED
  BY <1>10, <1>11, <1>12, <1>13 DEF VerdictInv

\* Nobody gives up while acks are on their way: some were left, and not all lost.
LEMMA ExpireStep ==
  ASSUME AcksToSpare, IInv, VerdictInv, TypeOK', NEW p \in Peers, TimeoutCoversRounds(p), Expire(p)
  PROVE  VerdictInv'
<1>1. /\ UNCHANGED <<works, forced, heard, via, net, lost>>
      /\ phase[p] = "sending" /\ phase' = [phase EXCEPT ![p] = "relay"]
  BY DEF Expire
<1>2. Other(p) \in Peers /\ Other(p) # p /\ Other(Other(p)) = p
  BY TwoPeers
<1>3. phase'[p] = "relay" /\ phase'[Other(p)] = phase[Other(p)]
  BY <1>1, <1>2 DEF IInv, TypeOK
<1>4. phase[Other(p)] # "direct"
  <2> SUFFICES ASSUME phase[Other(p)] = "direct" PROVE FALSE
    OBVIOUS
  <2>1. PICK k \in via[Other(p)] : net[p][k]["ack"] + lost >= FinalAcks
    BY <1>1, <1>2 DEF VerdictInv, AcksLeftBehind
  <2>2. k \in works /\ k \in Paths
    BY <1>2, <2>1 DEF VerdictInv, PathsWork, IInv, TypeOK
  <2>3. net[p][k]["ack"] = 0
    BY <2>2 DEF TimeoutCoversRounds, Kinds
  <2>4. lost \in 0..MaxLoss
    BY DEF IInv, TypeOK
  <2> QED
    BY <2>1, <2>3, <2>4, BoundsAssumption DEF AcksToSpare, FinalAcks
<1>5. works = {} \/ phase[Other(p)] = "relay"
  BY <1>4 DEF TimeoutCoversRounds
<1>6. SilentUntilGo'
  <2>1. \A q \in Peers : phase'[q] = "waiting" => phase[q] = "waiting"
    BY <1>1 DEF IInv, TypeOK
  <2>2. \A q \in Peers : q \in forced => phase'[q] \in {"waiting", "relay"}
    BY <1>1, <1>3, TwoPeers DEF VerdictInv, SilentUntilGo
  <2> QED
    BY <1>1, <2>1, <2>2 DEF VerdictInv, SilentUntilGo
<1>7. PathsWork'
  BY <1>1 DEF VerdictInv, PathsWork
<1>8. GivenUpTogether'
  BY <1>1, <1>2, <1>3, <1>5, TwoPeers DEF VerdictInv, GivenUpTogether
<1>9. AcksLeftBehind'
  BY <1>2, <1>3, <1>4, TwoPeers DEF AcksLeftBehind
<1> QED
  BY <1>6, <1>7, <1>8, <1>9 DEF VerdictInv

\* Every step keeps the invariant of the verdicts.
LEMMA VerdictStep ==
  ASSUME AcksToSpare
  PROVE  IInv /\ VerdictInv /\ [Next]_vars => VerdictInv'
<1> SUFFICES ASSUME IInv, VerdictInv, [Next]_vars PROVE VerdictInv'
  OBVIOUS
<1>0. TypeOK'
  BY TypeStep DEF IInv
<1>1. CASE UNCHANGED vars
  BY <1>1 DEF vars, VerdictInv, SilentUntilGo, PathsWork, GivenUpTogether, AcksLeftBehind
<1>2. ASSUME NEW p \in Peers, Peer(p) PROVE VerdictInv'
  BY <1>0, <1>2, LoopStep, LeaveStep, ExpireStep DEF Peer
<1>3. CASE Network
  BY <1>0, <1>3, TakeStep DEF Network
<1> QED
  BY <1>1, <1>2, <1>3 DEF Next

\* When both are done they have come to the same verdict: nobody gave up while the
\* other went ahead.
LEMMA VerdictInvSays == TypeOK /\ VerdictInv => SameVerdict
<1> SUFFICES ASSUME TypeOK, VerdictInv, Finished
             PROVE  \E v \in {"direct", "relay"} : \A p \in Peers : phase[p] = v
  BY DEF SameVerdict
<1>1. ASSUME NEW p \in Peers, phase[p] = "direct" PROVE phase[Other(p)] = "direct"
  <2>1. Other(p) \in Peers
    BY TwoPeers
  <2> QED
    BY <1>1, <2>1 DEF VerdictInv, AcksLeftBehind, Finished, Punching
<1>2. CASE \E p \in Peers : phase[p] = "direct"
  BY <1>1, <1>2, TwoPeers
<1>3. CASE ~\E p \in Peers : phase[p] = "direct"
  BY <1>3 DEF Finished
<1> QED
  BY <1>2, <1>3

\* Two peers that punch end with the same verdict - both direct or both relayed -
\* over any paths, whoever insists on the relay, if the network loses fewer
\* datagrams than Punch sends acks at its end and deadlines leave time to answer.
THEOREM VerdictsAgree ==
  ASSUME AcksToSpare
  PROVE  Spec => []SameVerdict
<1>1. TypeOK /\ VerdictInv => SameVerdict
  BY VerdictInvSays
<1>2. IInv => TypeOK
  BY DEF IInv
<1>3. IInv /\ VerdictInv /\ [Next]_vars => VerdictInv'
  BY VerdictStep
<1> QED
  BY InitIInv, IInvStep, InitVerdictInv, <1>1, <1>2, <1>3, PTL DEF Spec
=============================================================================
