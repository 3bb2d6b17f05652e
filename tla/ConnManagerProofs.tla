-------------------------- MODULE ConnManagerProofs --------------------------
(***************************************************************************)
(* Theorems about the connection manager, for any connections, any number  *)
(* of callers and any backoff bounds.                                      *)
(***************************************************************************)
EXTENDS ConnManager, TLAPS

USE DEF runVars, cellVars, callVars

\* The invariant holds of a new manager.
LEMMA InitIInv == Init => IInv
<1> SUFFICES ASSUME Init PROVE IInv
  OBVIOUS
<1>1. TypeOK
  <2>1. backoff \in MinBackoff..MaxBackoff
    BY BackoffAssumption DEF Init
  <2>2. call \in [Callers -> CallStages] /\ chan \in [Callers -> MaybeLink]
        /\ taken \in [Callers -> MaybeLink]
    BY DEF Init, CallStages, MaybeLink
  <2> QED
    BY <2>1, <2>2 DEF Init, TypeOK, RunStages, MaybeLink
<1>2. NeverPanics /\ NobodySleepsThroughSet /\ OneLinkAtATime /\ RunHolds
  BY DEF Init, NeverPanics, NobodySleepsThroughSet, OneLinkAtATime, RunHolds
<1> QED
  BY <1>1, <1>2 DEF IInv

\* Doubling keeps the backoff within its bounds.
LEMMA DoubledInBounds ==
  ASSUME backoff \in MinBackoff..MaxBackoff
  PROVE  Doubled \in MinBackoff..MaxBackoff
  BY BackoffAssumption DEF Doubled

\* Every step keeps every variable's type; clear needs to know what Run holds.
LEMMA TypeStep == IInv /\ [Next]_vars => TypeOK'
<1> SUFFICES ASSUME TypeOK, RunHolds, [Next]_vars PROVE TypeOK'
  BY DEF IInv
<1> USE DEF TypeOK, RunStages, CallStages, MaybeLink
<1>1. CASE Loop \/ DialFails \/ RetryCancelled \/ Close
  BY <1>1 DEF Loop, DialFails, RetryCancelled, Close
<1>2. CASE Retry
  BY <1>2, DoubledInBounds DEF Retry
<1>3. CASE Set
  BY <1>3 DEF Set
<1>4. CASE LinkLost \/ HoldCancelled
  BY <1>4 DEF LinkLost, HoldCancelled, Clear, RunHolds
<1>5. ASSUME NEW l \in Links, DialSucceeds(l) \/ LinkDies(l) PROVE TypeOK'
  BY <1>5, BackoffAssumption DEF DialSucceeds, LinkDies
<1>6. ASSUME NEW w \in Callers,
             Ask(w) \/ ReadConn(w) \/ Sleep(w) \/ Wake(w) \/ GiveUp(w) \/ OpenStream(w)
      PROVE  TypeOK'
  BY <1>6 DEF Ask, ReadConn, Sleep, Wake, GiveUp, OpenStream
<1>7. CASE Cancel \/ UNCHANGED vars
  BY <1>7 DEF Cancel, vars
<1> QED
  BY <1>1, <1>2, <1>3, <1>4, <1>5, <1>6, <1>7 DEF Next, Run, Conn

\* Run's steps that touch neither the connection nor the channel.
LEMMA QuietRun ==
  ASSUME IInv,
         \/ Loop \/ DialFails \/ Retry \/ RetryCancelled \/ Close
         \/ \E l \in Links : DialSucceeds(l)
  PROVE  NeverPanics' /\ NobodySleepsThroughSet' /\ OneLinkAtATime' /\ RunHolds'
<1> USE DEF IInv, NeverPanics, NobodySleepsThroughSet, OneLinkAtATime, RunHolds
<1>1. CASE Loop \/ DialFails \/ Retry \/ RetryCancelled \/ Close
  BY <1>1 DEF Loop, DialFails, Retry, RetryCancelled, Close
<1>2. ASSUME NEW l \in Links, DialSucceeds(l)
      PROVE  NeverPanics' /\ NobodySleepsThroughSet' /\ OneLinkAtATime' /\ RunHolds'
  <2>1. used \ cleared = {} /\ conn = None /\ l \notin cleared
    BY <1>2, LinksAssumption DEF DialSucceeds, TypeOK
  <2> QED
    BY <1>2, <2>1 DEF DialSucceeds
<1> QED
  BY <1>1, <1>2

\* set closes an open channel, and wakes whoever sleeps on it.
LEMMA SetStep ==
  ASSUME IInv, Set
  PROVE  NeverPanics' /\ NobodySleepsThroughSet' /\ OneLinkAtATime' /\ RunHolds'
<1> USE DEF IInv, NeverPanics, NobodySleepsThroughSet, OneLinkAtATime, RunHolds
<1>1. conn = None /\ ready \notin closed /\ mine # None
  BY LinksAssumption DEF Set, TypeOK
<1> QED
  BY <1>1 DEF Set

\* clear leaves a channel nobody has closed or slept on.
LEMMA ClearStep ==
  ASSUME IInv, LinkLost \/ HoldCancelled
  PROVE  NeverPanics' /\ NobodySleepsThroughSet' /\ OneLinkAtATime' /\ RunHolds'
<1> USE DEF IInv, NeverPanics, NobodySleepsThroughSet, OneLinkAtATime, RunHolds
<1>1. conn = mine /\ mine # None /\ mine \notin cleared /\ run' # "panicked"
  BY LinksAssumption DEF LinkLost, HoldCancelled, TypeOK
<1>2. mine \notin closed /\ ready \in closed
  BY <1>1
<1> QED
  BY <1>1, <1>2, LinksAssumption DEF LinkLost, HoldCancelled, Clear, TypeOK

\* Callers, dying connections and the end of the context change neither.
LEMMA CallerStep ==
  ASSUME IInv,
         \/ \E w \in Callers : Ask(w) \/ Conn(w) \/ GiveUp(w) \/ OpenStream(w)
         \/ \E l \in Links : LinkDies(l)
         \/ Cancel \/ UNCHANGED vars
  PROVE  NeverPanics' /\ NobodySleepsThroughSet' /\ OneLinkAtATime' /\ RunHolds'
<1> USE DEF IInv, NeverPanics, OneLinkAtATime, RunHolds
<1>1. UNCHANGED <<runVars, cellVars>>
  BY DEF Ask, Conn, ReadConn, Sleep, Wake, GiveUp, OpenStream, LinkDies, Cancel, vars
<1>2. NobodySleepsThroughSet'
  BY <1>1 DEF NobodySleepsThroughSet, Ask, Conn, ReadConn, Sleep, Wake, GiveUp, OpenStream,
              LinkDies, Cancel, vars, TypeOK
<1>3. up' \subseteq up
  BY DEF Ask, Conn, ReadConn, Sleep, Wake, GiveUp, OpenStream, LinkDies, Cancel, vars
<1> QED
  BY <1>1, <1>2, <1>3

\* The invariant is kept by every step.
LEMMA IInvStep == IInv /\ [Next]_vars => IInv'
<1> SUFFICES ASSUME IInv, [Next]_vars PROVE IInv'
  OBVIOUS
<1>1. TypeOK'
  BY TypeStep
<1>2. NeverPanics' /\ NobodySleepsThroughSet' /\ OneLinkAtATime' /\ RunHolds'
  BY QuietRun, SetStep, ClearStep, CallerStep DEF Next, Run
<1> QED
  BY <1>1, <1>2 DEF IInv

\* Set never closes a channel twice, no caller is left asleep on a channel that
\* will not be closed, one connection is published at a time and once, and none
\* outlives Run's interest in it.
THEOREM ManagerIsSafe == Spec => []PublishesSafely
<1>1. IInv => PublishesSafely
  BY DEF IInv, PublishesSafely
<1> QED
  BY InitIInv, IInvStep, <1>1, PTL DEF Spec

\* Every variable of the manager keeps its type; the backoff stays in its bounds.
THEOREM ManagerTypeCorrect == Spec => []TypeOK
<1>1. IInv => TypeOK
  BY DEF IInv
<1> QED
  BY InitIInv, IInvStep, <1>1, PTL DEF Spec

-----------------------------------------------------------------------------
(* The manager implements the cell.                                        *)

\* A new manager is an empty cell that nobody has asked.
LEMMA CellInit == Init => Cell!Init
  BY DEF Init, Cell!Init, Asking

\* set publishes a connection that was never withdrawn.
LEMMA SetPublishes ==
  ASSUME IInv, Set
  PROVE  Cell!Next
<1>1. Cell!Publish(mine) /\ mine \in Links
  BY DEF Set, Cell!Publish, Asking, IInv, NeverPanics, OneLinkAtATime, RunHolds, TypeOK
<1> QED
  BY <1>1 DEF Cell!Next

\* clear withdraws the connection that is published.
LEMMA ClearWithdraws ==
  ASSUME IInv, LinkLost \/ HoldCancelled
  PROVE  Cell!Next
<1>1. conn = mine /\ mine # None
  BY LinksAssumption DEF LinkLost, HoldCancelled, IInv, RunHolds, TypeOK
<1>2. Cell!Withdraw
  BY <1>1 DEF LinkLost, HoldCancelled, Clear, Cell!Withdraw, Asking
<1> QED
  BY <1>2 DEF Cell!Next

\* A caller asks, is answered under the mutex, or gives up.
LEMMA CallersAsk ==
  ASSUME IInv, NEW w \in Callers, Ask(w) \/ Conn(w) \/ GiveUp(w) \/ OpenStream(w)
  PROVE  Cell!Next \/ UNCHANGED Cell!vars
<1> USE DEF IInv, TypeOK
<1>1. CASE Ask(w)
  <2>1. Cell!Ask(w)
    BY <1>1 DEF Ask, Cell!Ask, Asking
  <2> QED
    BY <2>1 DEF Cell!Next
<1>2. CASE ReadConn(w)
  <2>1. Cell!Answer(w)
    BY <1>2 DEF ReadConn, Cell!Answer, Cell!Return, Asking
  <2> QED
    BY <2>1 DEF Cell!Next
<1>3. CASE GiveUp(w)
  <2>1. Cell!GiveUp(w)
    BY <1>3 DEF GiveUp, Cell!GiveUp, Cell!Return, Asking
  <2> QED
    BY <2>1 DEF Cell!Next
<1>4. CASE Sleep(w) \/ Wake(w) \/ OpenStream(w)
  BY <1>4 DEF Sleep, Wake, OpenStream, Cell!vars, Asking
<1> QED
  BY <1>1, <1>2, <1>3, <1>4 DEF Conn

\* Every step of the manager is a step of the cell or a stutter.
LEMMA CellStep == IInv /\ [Next]_vars => [Cell!Next]_(Cell!vars)
<1> SUFFICES ASSUME IInv, [Next]_vars PROVE Cell!Next \/ UNCHANGED Cell!vars
  OBVIOUS
<1>1. CASE Loop \/ DialFails \/ Retry \/ RetryCancelled \/ Close \/ Cancel \/ UNCHANGED vars
  BY <1>1 DEF Loop, DialFails, Retry, RetryCancelled, Close, Cancel, vars, Cell!vars, Asking
<1>2. ASSUME NEW l \in Links, DialSucceeds(l) \/ LinkDies(l) PROVE UNCHANGED Cell!vars
  BY <1>2 DEF DialSucceeds, LinkDies, Cell!vars, Asking
<1> QED
  BY <1>1, <1>2, SetPublishes, ClearWithdraws, CallersAsk DEF Next, Run

\* The connection manager implements the cell: every call is answered with a
\* connection that is published at a moment during that call.
THEOREM ManagerImplementsCell == Spec => CellBehaves
  BY InitIInv, IInvStep, CellInit, CellStep, PTL DEF Spec, CellBehaves, Cell!Spec
=============================================================================
