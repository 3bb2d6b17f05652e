------------------------------ MODULE ConnCell ------------------------------
(***************************************************************************)
(* What the connection manager promises the local listeners, said without  *)
(* its mutex, its channels or its loop: one cell holds a connection or     *)
(* nothing; connections are published and withdrawn one after the other,   *)
(* each of them once; and a call is answered with the connection that is   *)
(* in the cell at some moment between the call and its return.             *)
(***************************************************************************)
CONSTANTS
  Links,    \* connections
  Callers,  \* who may ask for one
  None

VARIABLES
  cell,    \* the connection published, or None
  spent,   \* connections withdrawn so far
  asking,  \* the callers whose call has not returned
  taken    \* taken[w]: what w's last call was answered with, None for an error

vars == <<cell, spent, asking, taken>>

Init ==
  /\ cell = None
  /\ spent = {} /\ asking = {}
  /\ taken = [w \in Callers |-> None]

Publish(l) ==
  /\ cell = None /\ l \notin spent
  /\ cell' = l
  /\ UNCHANGED <<spent, asking, taken>>

Withdraw ==
  /\ cell # None
  /\ cell' = None /\ spent' = spent \cup {cell}
  /\ UNCHANGED <<asking, taken>>

Ask(w) ==
  /\ w \notin asking
  /\ asking' = asking \cup {w}
  /\ UNCHANGED <<cell, spent, taken>>

Return(w, l) ==
  /\ w \in asking
  /\ asking' = asking \ {w}
  /\ taken' = [taken EXCEPT ![w] = l]
  /\ UNCHANGED <<cell, spent>>

Answer(w) == cell # None /\ Return(w, cell)
GiveUp(w) == Return(w, None)

Next ==
  \/ \E l \in Links : Publish(l)
  \/ Withdraw
  \/ \E w \in Callers : Ask(w) \/ Answer(w) \/ GiveUp(w)

Spec == Init /\ [][Next]_vars
=============================================================================
