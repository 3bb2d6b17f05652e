---------------------------- MODULE ConnManager ----------------------------
(***************************************************************************)
(* The client's connection manager (internal/app/connmanager.go) and the   *)
(* local listeners that use it (openTCP in internal/app/client.go).  Run   *)
(* dials, publishes the connection with set, holds it until it dies and    *)
(* withdraws it with clear; callers of Conn read the connection and the    *)
(* ready channel under the mutex and, finding none, sleep on the channel.  *)
(*                                                                         *)
(* A ready channel is named by the connection whose loss made it, None for *)
(* the first: clear runs once per connection, so the name is unique.       *)
(***************************************************************************)
EXTENDS Naturals

CONSTANTS
  Links,       \* the QUIC connections dialled in a run, each once
  Callers,     \* goroutines that serve a local connection
  None,        \* no connection
  MinBackoff,  \* minBackoff, in seconds
  MaxBackoff   \* maxBackoff, in seconds

ASSUME LinksAssumption == None \notin Links
ASSUME BackoffAssumption ==
  MinBackoff \in Nat /\ MaxBackoff \in Nat /\ MinBackoff <= MaxBackoff

VARIABLES
  run,        \* where Run is
  backoff,    \* Run's local backoff
  mine,       \* Run's local conn
  used,       \* connections dialled so far
  up,         \* connections that are alive
  conn,       \* ConnManager.conn
  ready,      \* ConnManager.ready, by name
  closed,     \* the ready channels that have been closed
  cleared,    \* connections that clear has withdrawn
  call,       \* where each caller is
  chan,       \* the channel a sleeping caller read
  taken,      \* what its last call of Conn returned, None for an error
  cancelled   \* ctx has been cancelled

runVars == <<run, backoff, mine, used>>
cellVars == <<conn, ready, closed, cleared>>
callVars == <<call, chan, taken>>
vars == <<runVars, up, cellVars, callVars, cancelled>>

\* Run is at the head of its loop, in dial, asleep before a retry, about to set
\* what it dialled, holding it, about to close it, has returned, has panicked.
RunStages == {"top", "dialing", "retrying", "dialed", "holding", "closing",
              "stopped", "panicked"}

\* A caller is outside Conn, about to lock, asleep, or back with a connection.
CallStages == {"idle", "asking", "asleep", "served"}

MaybeLink == Links \cup {None}

TypeOK ==
  /\ run \in RunStages
  /\ backoff \in MinBackoff..MaxBackoff
  /\ mine \in MaybeLink /\ conn \in MaybeLink /\ ready \in MaybeLink
  /\ used \subseteq Links /\ up \subseteq Links /\ cleared \subseteq Links
  /\ closed \subseteq MaybeLink
  /\ call \in [Callers -> CallStages]
  /\ chan \in [Callers -> MaybeLink]
  /\ taken \in [Callers -> MaybeLink]
  /\ cancelled \in BOOLEAN

Init ==
  /\ run = "top" /\ backoff = MinBackoff /\ mine = None
  /\ used = {} /\ up = {} /\ cleared = {}
  /\ conn = None /\ ready = None /\ closed = {}
  /\ call = [w \in Callers |-> "idle"]
  /\ chan = [w \in Callers |-> None]
  /\ taken = [w \in Callers |-> None]
  /\ cancelled = FALSE

-----------------------------------------------------------------------------
(* Run.                                                                    *)

\* The loop's condition.
Loop ==
  /\ run = "top"
  /\ run' = IF cancelled THEN "stopped" ELSE "dialing"
  /\ UNCHANGED <<backoff, mine, used, up, cellVars, callVars, cancelled>>

\* The rendezvous and the QUIC dial do not look at ctx until they are done.
DialSucceeds(l) ==
  /\ run = "dialing"
  /\ l \notin used
  /\ run' = "dialed"
  /\ backoff' = MinBackoff
  /\ mine' = l
  /\ used' = used \cup {l} /\ up' = up \cup {l}
  /\ UNCHANGED <<cellVars, callVars, cancelled>>

DialFails ==
  /\ run = "dialing"
  /\ run' = IF cancelled THEN "stopped" ELSE "retrying"
  /\ UNCHANGED <<backoff, mine, used, up, cellVars, callVars, cancelled>>

\* Faulty variant: the backoff is not capped.
DoubledForEver == backoff * 2

Doubled == IF backoff * 2 > MaxBackoff THEN MaxBackoff ELSE backoff * 2

Retry ==
  /\ run = "retrying"
  /\ run' = "top"
  /\ backoff' = Doubled
  /\ UNCHANGED <<mine, used, up, cellVars, callVars, cancelled>>

RetryCancelled ==
  /\ run = "retrying"
  /\ cancelled
  /\ run' = "stopped"
  /\ UNCHANGED <<backoff, mine, used, up, cellVars, callVars, cancelled>>

\* Faulty variant: the sleepers are not told.
SetSilently ==
  /\ run = "dialed"
  /\ conn' = mine
  /\ run' = "holding"
  /\ UNCHANGED <<backoff, mine, used, up, ready, closed, cleared, callVars, cancelled>>

\* set.  Closing a channel that is closed already panics.
Set ==
  /\ run = "dialed"
  /\ conn' = mine
  /\ closed' = closed \cup {ready}
  /\ run' = IF ready \in closed THEN "panicked" ELSE "holding"
  /\ UNCHANGED <<backoff, mine, used, up, ready, cleared, callVars, cancelled>>

\* Faulty variants: the closed channel is kept; the connection is kept.
ClearKeepsChannel ==
  /\ conn' = None
  /\ cleared' = cleared \cup {mine}
  /\ UNCHANGED <<ready, closed>>

ClearKeepsConn ==
  /\ ready' = mine
  /\ cleared' = cleared \cup {mine}
  /\ UNCHANGED <<conn, closed>>

\* clear: no connection, and a new channel to sleep on.
Clear ==
  /\ conn' = None
  /\ ready' = mine
  /\ cleared' = cleared \cup {mine}
  /\ UNCHANGED closed

\* Faulty variants: dialling again without clear; death goes unnoticed.
LinkLostUncleared ==
  /\ run = "holding"
  /\ mine \notin up
  /\ run' = "top"
  /\ UNCHANGED <<backoff, mine, used, up, cellVars, callVars, cancelled>>

LinkLostOnCancel ==
  /\ run = "holding"
  /\ mine \notin up /\ cancelled
  /\ Clear
  /\ run' = "top"
  /\ UNCHANGED <<backoff, mine, used, up, callVars, cancelled>>

LinkLost ==
  /\ run = "holding"
  /\ mine \notin up
  /\ Clear
  /\ run' = "top"
  /\ UNCHANGED <<backoff, mine, used, up, callVars, cancelled>>

HoldCancelled ==
  /\ run = "holding"
  /\ cancelled
  /\ Clear
  /\ run' = "closing"
  /\ UNCHANGED <<backoff, mine, used, up, callVars, cancelled>>

\* Faulty variant: the connection is left open.
CloseForgotten ==
  /\ run = "closing"
  /\ run' = "stopped"
  /\ UNCHANGED <<backoff, mine, used, up, cellVars, callVars, cancelled>>

\* CloseWithError, after clear.
Close ==
  /\ run = "closing"
  /\ run' = "stopped"
  /\ up' = up \ {mine}
  /\ UNCHANGED <<backoff, mine, used, cellVars, callVars, cancelled>>

-----------------------------------------------------------------------------
(* Conn and its callers.                                                   *)

\* A local connection is accepted.
Ask(w) ==
  /\ call[w] = "idle"
  /\ call' = [call EXCEPT ![w] = "asking"]
  /\ UNCHANGED <<runVars, up, cellVars, chan, taken, cancelled>>

\* The locked section, when it finds a connection...
ReadConn(w) ==
  /\ call[w] = "asking"
  /\ conn # None
  /\ call' = [call EXCEPT ![w] = "served"]
  /\ taken' = [taken EXCEPT ![w] = conn]
  /\ UNCHANGED <<runVars, up, cellVars, chan, cancelled>>

\* ... and when it does not: the caller sleeps on the channel it read.
Sleep(w) ==
  /\ call[w] = "asking"
  /\ conn = None
  /\ call' = [call EXCEPT ![w] = "asleep"]
  /\ chan' = [chan EXCEPT ![w] = ready]
  /\ UNCHANGED <<runVars, up, cellVars, taken, cancelled>>

\* The channel is closed: look again, for the connection may be gone by now.
Wake(w) ==
  /\ call[w] = "asleep"
  /\ chan[w] \in closed
  /\ call' = [call EXCEPT ![w] = "asking"]
  /\ UNCHANGED <<runVars, up, cellVars, chan, taken, cancelled>>

\* ctx.Done: openWait has passed, or everything is being shut down.
GiveUp(w) ==
  /\ call[w] = "asleep"
  /\ call' = [call EXCEPT ![w] = "idle"]
  /\ taken' = [taken EXCEPT ![w] = None]
  /\ UNCHANGED <<runVars, up, cellVars, chan, cancelled>>

\* openTCP opens its stream on the connection, or fails to, and is done.
OpenStream(w) ==
  /\ call[w] = "served"
  /\ call' = [call EXCEPT ![w] = "idle"]
  /\ UNCHANGED <<runVars, up, cellVars, chan, taken, cancelled>>

-----------------------------------------------------------------------------
(* The world.                                                              *)

\* The peer closes the connection, or it idles out.
LinkDies(l) ==
  /\ l \in up
  /\ up' = up \ {l}
  /\ UNCHANGED <<runVars, cellVars, callVars, cancelled>>

Cancel ==
  /\ ~cancelled
  /\ cancelled' = TRUE
  /\ UNCHANGED <<runVars, up, cellVars, callVars>>

-----------------------------------------------------------------------------
Run ==
  \/ Loop \/ DialFails \/ Retry \/ RetryCancelled
  \/ Set \/ LinkLost \/ HoldCancelled \/ Close
  \/ \E l \in Links : DialSucceeds(l)

Conn(w) == ReadConn(w) \/ Sleep(w) \/ Wake(w)

Next ==
  \/ Run
  \/ \E w \in Callers : Ask(w) \/ Conn(w) \/ GiveUp(w) \/ OpenStream(w)
  \/ \E l \in Links : LinkDies(l)
  \/ Cancel

Spec == Init /\ [][Next]_vars

-----------------------------------------------------------------------------
(* Properties.                                                             *)

\* The channel is closed exactly while there is a connection, so set never
\* closes it a second time - which would take the whole client down - however
\* often connections are lost and dialled again.
NeverPanics == run # "panicked" /\ (conn # None <=> ready \in closed)

\* A caller sleeps on the current channel with no connection to be had, or on
\* one that has been closed under it: no interleaving of Conn's read with clear
\* and set leaves it on a channel nobody will close.
NobodySleepsThroughSet ==
  \A w \in Callers :
    call[w] = "asleep" => chan[w] \in closed \/ (chan[w] = ready /\ conn = None)

\* Run publishes what it dialled last, once: no connection is set after it was
\* cleared, and what Run holds or closes is what callers got, or got before.  No
\* second connection lives beside it, and none is left when Run dials again or
\* has returned.
OneLinkAtATime ==
  /\ conn \notin cleared
  /\ conn # None => conn = mine /\ run = "holding"
  /\ \A l \in used \ cleared : l = mine /\ run \in {"dialed", "holding"}
  /\ \A l \in up : l = mine /\ run \in {"dialed", "holding", "closing"}

\* Whatever Run, the connections and the callers do in whatever order, publishing
\* a connection is safe: nothing panics, nobody misses it, none comes back.
PublishesSafely == NeverPanics /\ NobodySleepsThroughSet /\ OneLinkAtATime

\* What Run's locals have to do with the rest, to make the above inductive.
RunHolds ==
  /\ run = "holding" => conn = mine
  /\ run \in {"dialed", "holding"} => mine \in used \ cleared
  /\ closed \cup {ready} \subseteq cleared \cup {None}
  /\ cleared \subseteq used

IInv == TypeOK /\ NeverPanics /\ NobodySleepsThroughSet /\ OneLinkAtATime /\ RunHolds

Asking == {w \in Callers : call[w] \in {"asking", "asleep"}}

Cell == INSTANCE ConnCell WITH cell <- conn, spent <- cleared, asking <- Asking

\* The manager implements the cell: a call of Conn is answered with a connection
\* that was published and not withdrawn at a moment during that call, and never
\* with one that had been withdrawn when the call began.
CellBehaves == Cell!Spec

-----------------------------------------------------------------------------
(* Liveness.  Run's goroutine and the callers are scheduled; a dial may    *)
(* take for ever, since it waits for a partner without a deadline; and a   *)
(* context that is cancelled wakes whoever selects on it.                  *)
Fairness ==
  /\ WF_vars(Loop \/ Retry \/ Set \/ LinkLost \/ HoldCancelled \/ Close)
  /\ \A w \in Callers : WF_vars(Conn(w)) /\ WF_vars(cancelled /\ GiveUp(w))

FairSpec == Spec /\ Fairness

\* Callers do not miss a connection that stays: once one is published for good,
\* every call of Conn returns.
EveryCallerServed ==
  \A w \in Callers : <>[](conn # None) => []<>(w \notin Asking)

\* A connection that has died is withdrawn, whatever the callers do with it.
DeadLinkWithdrawn == \A l \in Links : (conn = l /\ l \notin up) ~> (conn # l)

\* Shutting down leaves nobody asleep in Conn, and no connection behind: Run
\* closes what it holds.
CancelReleases ==
  /\ \A w \in Callers : (cancelled /\ w \in Asking) ~> (w \notin Asking)
  /\ \A l \in Links : (cancelled /\ conn = l) ~> (conn # l /\ l \notin up)

\* Neither the loss of a connection nor the end of everything goes unnoticed.
EndsAreNoticed == DeadLinkWithdrawn /\ CancelReleases
=============================================================================
