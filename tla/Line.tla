-------------------------------- MODULE Line --------------------------------
(***************************************************************************)
(* What a tunnel promises its ends, said without the server, the loops or  *)
(* the handshakes: the host is on the line with one client at a time; both *)
(* come onto it in one step, each with the other; the line may break at    *)
(* any moment, and an end leaves it when it has broken; before that, only  *)
(* by crashing, which breaks it.                                           *)
(***************************************************************************)
CONSTANTS
  Host,     \* the one end
  Clients,  \* the other one, in turn
  NoPeer

VARIABLES
  peer,  \* whom each end takes itself to be connected with, or NoPeer
  line   \* the clients whose connection lives

vars == <<peer, line>>

Ends == Clients \cup {Host}

Init ==
  /\ peer = [p \in Ends |-> NoPeer]
  /\ line = {}

Join(c) ==
  /\ line = {}
  /\ peer[c] = NoPeer /\ peer[Host] = NoPeer
  /\ peer' = [peer EXCEPT ![c] = Host, ![Host] = c]
  /\ line' = {c}

Break ==
  /\ line # {}
  /\ line' = {}
  /\ UNCHANGED peer

Leave(p) ==
  /\ peer[p] # NoPeer
  /\ {p, peer[p]} \cap line = {}
  /\ peer' = [peer EXCEPT ![p] = NoPeer]
  /\ UNCHANGED line

Crash(p) ==
  /\ peer[p] # NoPeer
  /\ peer' = [peer EXCEPT ![p] = NoPeer]
  /\ line' = line \ {p, peer[p]}

Next ==
  \/ Break
  \/ \E c \in Clients : Join(c)
  \/ \E p \in Ends : Leave(p) \/ Crash(p)

Spec == Init /\ [][Next]_vars
=============================================================================
