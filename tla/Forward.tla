------------------------------ MODULE Forward ------------------------------
(***************************************************************************)
(* A forwarded TCP connection, end to end: the listeners of -L and -D      *)
(* (LocalForward, SOCKS, openTCP), the host's handler (handleStream,       *)
(* hostTCP) and the splice that runs at both.  The connections between the *)
(* peers are what ConnCell promises, and ConnManager implements; they die  *)
(* when they like.  An application talks through                           *)
(*                                                                         *)
(*    app - local socket - splice - stream - splice - socket - service     *)
(*                                                                         *)
(* to a service, in two directions that end independently.  A splice is    *)
(* two copy loops, one from its socket to the stream and one back.         *)
(*                                                                         *)
(* Data is counted, not looked at: TCP and QUIC keep it in order.  Each    *)
(* caller is one local connection, and is used again for another when that *)
(* is over.  Left out: files and commands, which are streams of their own; *)
(* how a request is parsed; limits on the number of streams.               *)
(***************************************************************************)
EXTENDS ConnCell, Naturals

CONSTANTS
  Targets,   \* host:port pairs that are asked for
  AllowDial, \* HostPolicy.AllowDial
  Allow,     \* HostPolicy.Allow: the whitelist, {} for none
  Window,    \* data a stream holds before its writer has to wait
  MaxThere,  \* bounds: data the application sends,
  MaxBack    \* and the service

ASSUME NoneAssumption == None \notin Links
ASSUME PolicyAssumption == AllowDial \in BOOLEAN /\ Allow \subseteq Targets
ASSUME DataAssumption == Window \in Nat \ {0} /\ MaxThere \in Nat /\ MaxBack \in Nat

VARIABLES
  up,       \* the connections that are alive
  target,   \* what each local connection is for
  lane,     \* the connection its stream is on, None before there is one
  near,     \* where the client's goroutine is
  far,      \* where the host's handler is
  copying,  \* the copy loops that run
  sent,     \* per direction: data its source has written,
  moved,    \* data put into the stream,
  arrived,  \* and data its destination was given
  ended,    \* the directions whose source has shut down its side
  fin,      \* those whose stream has been closed
  eof,      \* those whose destination has been told that no more comes
  gone      \* the ends that have closed their socket, for reading too

dataVars == <<sent, moved, arrived>>
endVars == <<ended, fin, eof, gone>>
forwardVars == <<up, target, lane, near, far, copying, dataVars, endVars>>
allVars == <<vars, forwardVars>>

MaybeLink == Links \cup {None}

Directions == {"there", "back"}
Ends == {"app", "service"}
Loops == {"near_out", "near_in", "far_out", "far_in"}

\* A direction's source and destination, and the loops that carry its data.
Source(d) == IF d = "there" THEN "app" ELSE "service"
Dest(d) == IF d = "there" THEN "service" ELSE "app"
First(d) == IF d = "there" THEN "near_out" ELSE "far_out"
Second(d) == IF d = "there" THEN "far_in" ELSE "near_in"
Other(d) == IF d = "there" THEN "back" ELSE "there"
MaxData(d) == IF d = "there" THEN MaxThere ELSE MaxBack

NearLoops == {"near_out", "near_in"}
FarLoops == {"far_out", "far_in"}

Counts == [Directions -> Nat]
Nothing == [d \in Directions |-> 0]

\* The client's goroutine: none, in openTCP, in splice.  The host's handler: none
\* yet, about to dial, in splice, returned without a service or after its splice.
TypeOK ==
  /\ cell \in MaybeLink /\ spent \subseteq Links /\ asking \subseteq Callers
  /\ taken \in [Callers -> MaybeLink] /\ up \subseteq Links
  /\ target \in [Callers -> Targets] /\ lane \in [Callers -> MaybeLink]
  /\ near \in [Callers -> {"none", "opening", "splicing"}]
  /\ far \in [Callers -> {"none", "dialing", "splicing", "refused", "returned"}]
  /\ copying \in [Callers -> SUBSET Loops]
  /\ sent \in [Callers -> Counts] /\ moved \in [Callers -> Counts] /\ arrived \in [Callers -> Counts]
  /\ \A w \in Callers, d \in Directions :
       arrived[w][d] <= moved[w][d] /\ moved[w][d] <= sent[w][d]
  /\ ended \in [Callers -> SUBSET Directions] /\ fin \in [Callers -> SUBSET Directions]
  /\ eof \in [Callers -> SUBSET Directions] /\ gone \in [Callers -> SUBSET Ends]

ForwardInit ==
  /\ Init /\ up = {}
  /\ target \in [Callers -> Targets] /\ lane = [w \in Callers |-> None]
  /\ near = [w \in Callers |-> "none"] /\ far = [w \in Callers |-> "none"]
  /\ copying = [w \in Callers |-> {}]
  /\ sent = [w \in Callers |-> Nothing] /\ moved = [w \in Callers |-> Nothing]
  /\ arrived = [w \in Callers |-> Nothing]
  /\ ended = [w \in Callers |-> {}] /\ fin = [w \in Callers |-> {}]
  /\ eof = [w \in Callers |-> {}] /\ gone = [w \in Callers |-> {}]

-----------------------------------------------------------------------------
(* The connections between the peers.                                      *)

Connect(l) ==
  /\ Publish(l)
  /\ up' = up \cup {l}
  /\ UNCHANGED <<target, lane, near, far, copying, dataVars, endVars>>

\* It idles out, or one of the peers closes it: nobody is told.
LinkDies(l) ==
  /\ l \in up
  /\ up' = up \ {l}
  /\ UNCHANGED <<vars, target, lane, near, far, copying, dataVars, endVars>>

-----------------------------------------------------------------------------
(* The client's listeners and openTCP.                                     *)

\* An application connects: to a listener for one target, or to the proxy, which
\* has told it of its success before anything is dialled.
Accept(w, t) ==
  /\ Ask(w)
  /\ near[w] = "none" /\ far[w] \in {"none", "refused", "returned"}
  /\ UNCHANGED up
  /\ target' = [target EXCEPT ![w] = t]
  /\ near' = [near EXCEPT ![w] = "opening"] /\ far' = [far EXCEPT ![w] = "none"]
  /\ lane' = [lane EXCEPT ![w] = None]
  /\ copying' = [copying EXCEPT ![w] = {}]
  /\ sent' = [sent EXCEPT ![w] = Nothing] /\ moved' = [moved EXCEPT ![w] = Nothing]
  /\ arrived' = [arrived EXCEPT ![w] = Nothing]
  /\ ended' = [ended EXCEPT ![w] = {}] /\ fin' = [fin EXCEPT ![w] = {}]
  /\ eof' = [eof EXCEPT ![w] = {}] /\ gone' = [gone EXCEPT ![w] = {}]

\* c.Close: the application is told, and the goroutine returns.
Drop(w) ==
  /\ near' = [near EXCEPT ![w] = "none"]
  /\ eof' = [eof EXCEPT ![w] = @ \cup {"back"}]

\* No connection came in time.
AcceptTimesOut(w) ==
  /\ GiveUp(w)
  /\ Drop(w)
  /\ UNCHANGED <<up, target, lane, far, copying, dataVars, ended, fin, gone>>

\* OpenStreamSync and WriteHeader on the connection that Conn returned, which may
\* have died since.
Open(w) ==
  /\ near[w] = "opening" /\ w \notin asking
  /\ IF taken[w] \in up
       THEN /\ near' = [near EXCEPT ![w] = "splicing"]
            /\ lane' = [lane EXCEPT ![w] = taken[w]]
            /\ copying' = [copying EXCEPT ![w] = NearLoops]
            /\ UNCHANGED eof
       ELSE Drop(w) /\ UNCHANGED <<lane, copying>>
  /\ UNCHANGED <<vars, up, target, far, dataVars, ended, fin, gone>>

-----------------------------------------------------------------------------
(* The host's handler.                                                     *)

Alive(w) == lane[w] \in up

\* ServeHost accepts the stream, and handleStream reads its header.
HostAccepts(w) ==
  /\ Alive(w) /\ far[w] = "none"
  /\ far' = [far EXCEPT ![w] = "dialing"]
  /\ UNCHANGED <<vars, up, target, lane, near, copying, dataVars, endVars>>

DialAllowed(t) == AllowDial /\ (Allow = {} \/ t \in Allow)

HostDials(w) ==
  /\ far[w] = "dialing" /\ DialAllowed(target[w])
  /\ far' = [far EXCEPT ![w] = "splicing"]
  /\ copying' = [copying EXCEPT ![w] = @ \cup FarLoops]
  /\ UNCHANGED <<vars, up, target, lane, near, dataVars, endVars>>

\* Policy, or the dial fails: the deferred Close ends the stream on this side, and
\* nobody reads the other.
HostRefuses(w) ==
  /\ far[w] = "dialing"
  /\ far' = [far EXCEPT ![w] = "refused"]
  /\ fin' = [fin EXCEPT ![w] = @ \cup {"back"}]
  /\ UNCHANGED <<vars, up, target, lane, near, copying, dataVars, ended, eof, gone>>

-----------------------------------------------------------------------------
(* splice.                                                                 *)

Stops(w, loop) == copying' = [copying EXCEPT ![w] = @ \ {loop}]

\* io.Copy from a socket to the stream: data, which waits when the other side does
\* not read; ...
CopyOut(w, d) ==
  /\ First(d) \in copying[w] /\ Alive(w)
  /\ moved[w][d] < sent[w][d] /\ moved[w][d] < arrived[w][d] + Window
  /\ moved' = [moved EXCEPT ![w][d] = @ + 1]
  /\ UNCHANGED <<vars, up, target, lane, near, far, copying, sent, arrived, endVars>>

\* Faulty variant: the stream is left to the handler's deferred Close.
CopyOutEndsOnly(w, d) ==
  /\ First(d) \in copying[w]
  /\ moved[w][d] = sent[w][d] /\ d \in ended[w]
  /\ Stops(w, First(d))
  /\ UNCHANGED <<vars, up, target, lane, near, far, dataVars, endVars>>

\* ... the end of the socket, upon which the stream is closed; ...
CopyOutEnds(w, d) ==
  /\ First(d) \in copying[w]
  /\ moved[w][d] = sent[w][d] /\ d \in ended[w]
  /\ fin' = [fin EXCEPT ![w] = @ \cup {d}]
  /\ Stops(w, First(d))
  /\ UNCHANGED <<vars, up, target, lane, near, far, dataVars, ended, eof, gone>>

\* The source has closed a socket that still had something for it: the tunnel's
\* end of that socket is reset.
Reset(w, d) == Source(d) \in gone[w] /\ sent[w][Other(d)] > 0

\* ... or an error, of the socket, or once there is something to write to a dead
\* stream.  It is closed as after a whole transfer.
CopyOutFails(w, d) ==
  /\ First(d) \in copying[w]
  /\ moved[w][d] < sent[w][d] /\ (~Alive(w) \/ Reset(w, d))
  /\ fin' = [fin EXCEPT ![w] = @ \cup {d}]
  /\ Stops(w, First(d))
  /\ UNCHANGED <<vars, up, target, lane, near, far, dataVars, ended, eof, gone>>

\* Faulty variant: data is written twice.
CopyInTwice(w, d) ==
  /\ Second(d) \in copying[w] /\ Alive(w) /\ Dest(d) \notin gone[w]
  /\ arrived[w][d] < moved[w][d]
  /\ arrived' = [arrived EXCEPT ![w][d] = @ + 2]
  /\ UNCHANGED <<vars, up, target, lane, near, far, copying, sent, moved, endVars>>

\* io.Copy from the stream to a socket: data; ...
CopyIn(w, d) ==
  /\ Second(d) \in copying[w] /\ Alive(w) /\ Dest(d) \notin gone[w]
  /\ arrived[w][d] < moved[w][d]
  /\ arrived' = [arrived EXCEPT ![w][d] = @ + 1]
  /\ UNCHANGED <<vars, up, target, lane, near, far, copying, sent, moved, endVars>>

\* Faulty variant: the end overtakes the data.
CopyInEndsEarly(w, d) ==
  /\ Second(d) \in copying[w] /\ Alive(w)
  /\ d \in fin[w]
  /\ eof' = [eof EXCEPT ![w] = @ \cup {d}]
  /\ Stops(w, Second(d))
  /\ UNCHANGED <<vars, up, target, lane, near, far, dataVars, ended, fin, gone>>

\* ... the end of the stream, upon which the socket's writing side is closed, and
\* only that; ...
CopyInEnds(w, d) ==
  /\ Second(d) \in copying[w] /\ Alive(w)
  /\ arrived[w][d] = moved[w][d] /\ d \in fin[w]
  /\ eof' = [eof EXCEPT ![w] = @ \cup {d}]
  /\ Stops(w, Second(d))
  /\ UNCHANGED <<vars, up, target, lane, near, far, dataVars, ended, fin, gone>>

\* Faulty variant: errors of the socket go unnoticed.
CopyInIgnoresSocket(w, d) ==
  /\ Second(d) \in copying[w] /\ ~Alive(w)
  /\ eof' = [eof EXCEPT ![w] = @ \cup {d}]
  /\ Stops(w, Second(d))
  /\ UNCHANGED <<vars, up, target, lane, near, far, dataVars, ended, fin, gone>>

\* ... or an error, of the stream or of the socket, with the same consequence.
CopyInFails(w, d) ==
  /\ Second(d) \in copying[w]
  /\ ~Alive(w) \/ (Dest(d) \in gone[w] /\ arrived[w][d] < moved[w][d])
  /\ eof' = [eof EXCEPT ![w] = @ \cup {d}]
  /\ Stops(w, Second(d))
  /\ UNCHANGED <<vars, up, target, lane, near, far, dataVars, ended, fin, gone>>

\* Both loops are over: the socket is closed, and the goroutine returns.
NearDone(w) ==
  /\ near[w] = "splicing" /\ copying[w] \cap NearLoops = {}
  /\ Drop(w)
  /\ UNCHANGED <<vars, up, target, lane, far, copying, dataVars, ended, fin, gone>>

FarDone(w) ==
  /\ far[w] = "splicing" /\ copying[w] \cap FarLoops = {}
  /\ far' = [far EXCEPT ![w] = "returned"]
  /\ fin' = [fin EXCEPT ![w] = @ \cup {"back"}]
  /\ eof' = [eof EXCEPT ![w] = @ \cup {"there"}]
  /\ UNCHANGED <<vars, up, target, lane, near, copying, dataVars, ended, gone>>

-----------------------------------------------------------------------------
(* The application and the service.                                        *)

\* The end of the direction d that sends has a socket to the tunnel.
Connected(w, d) == IF d = "there" THEN near[w] # "none" ELSE far[w] = "splicing"

Write(w, d) ==
  /\ Connected(w, d) /\ d \notin ended[w]
  /\ sent[w][d] < MaxData(d)
  /\ sent' = [sent EXCEPT ![w][d] = @ + 1]
  /\ UNCHANGED <<vars, up, target, lane, near, far, copying, moved, arrived, endVars>>

Shut(w, d) ==
  /\ Connected(w, d) /\ d \notin ended[w]
  /\ ended' = [ended EXCEPT ![w] = @ \cup {d}]
  /\ UNCHANGED <<vars, up, target, lane, near, far, copying, dataVars, fin, eof, gone>>

Leave(w, d) ==
  /\ Connected(w, d) /\ Source(d) \notin gone[w]
  /\ ended' = [ended EXCEPT ![w] = @ \cup {d}]
  /\ gone' = [gone EXCEPT ![w] = @ \cup {Source(d)}]
  /\ UNCHANGED <<vars, up, target, lane, near, far, copying, dataVars, fin, eof>>

-----------------------------------------------------------------------------
Copy(w, d) ==
  CopyOut(w, d) \/ CopyOutEnds(w, d) \/ CopyOutFails(w, d)
  \/ CopyIn(w, d) \/ CopyInEnds(w, d) \/ CopyInFails(w, d)

Ending(w, d) == Write(w, d) \/ Shut(w, d) \/ Leave(w, d)

ForwardNext ==
  \/ \E l \in Links : Connect(l) \/ LinkDies(l)
  \/ Withdraw /\ UNCHANGED forwardVars
  \/ \E w \in Callers :
       \/ Answer(w) /\ UNCHANGED forwardVars
       \/ \E t \in Targets : Accept(w, t)
       \/ AcceptTimesOut(w) \/ Open(w)
       \/ HostAccepts(w) \/ HostDials(w) \/ HostRefuses(w)
       \/ NearDone(w) \/ FarDone(w)
       \/ \E d \in Directions : Copy(w, d) \/ Ending(w, d)

ForwardSpec == ForwardInit /\ [][ForwardNext]_allVars

-----------------------------------------------------------------------------
(* Properties.                                                             *)

\* An end that is told that no more comes has got everything the other end wrote
\* before it shut down its side: half a transfer does not look like a whole one -
\* unless the connection between the peers died, the end itself has gone, the
\* other reset its socket, or there is no service, all of which look like an
\* ordinary end.
EofIsHonest ==
  \A w \in Callers, d \in Directions :
    d \in eof[w] /\ Alive(w) /\ Dest(d) \notin gone[w] /\ ~Reset(w, d)
      /\ far[w] \in {"splicing", "returned"}
      => d \in ended[w] /\ arrived[w][d] = sent[w][d]

\* How it comes about.  A connection that is used has been in the cell; ...
LanesWerePublished ==
  \A w \in Callers : {taken[w], lane[w]} \subseteq spent \cup {cell, None}

\* ... who asks has no stream yet, until it is opened there is nothing, and until
\* the host has dialled nothing of the way back; ...
StartsEmpty ==
  \A w \in Callers :
    /\ w \in asking => near[w] = "opening"
    /\ near[w] = "opening" =>
         lane[w] = None /\ far[w] = "none" /\ copying[w] = {} /\ fin[w] = {} /\ eof[w] = {}
    /\ far[w] \in {"none", "dialing"} => "back" \notin fin[w]
    /\ "far_out" \in copying[w] => far[w] = "splicing"

\* ... who leaves has ended, and a loop that is over has done its duty; ...
LoopsCloseBehindThem ==
  \A w \in Callers :
    /\ \A d \in Directions : Source(d) \in gone[w] => d \in ended[w]
    /\ far[w] = "splicing" /\ "far_out" \notin copying[w] => "back" \in fin[w]
    /\ far[w] = "splicing" /\ "far_in" \notin copying[w] => "there" \in eof[w]
    /\ near[w] = "splicing" /\ "near_in" \notin copying[w] => "back" \in eof[w]

\* ... a stream is closed behind all there was to send, but for the exceptions,
\* and its end is passed on behind all that it held.
EndsComeLast ==
  \A w \in Callers, d \in Directions :
    /\ d \in fin[w] =>
         /\ First(d) \notin copying[w]
         /\ \/ d \in ended[w] /\ moved[w][d] = sent[w][d]
            \/ ~Alive(w) \/ Reset(w, d) \/ far[w] = "refused"
    /\ d \in eof[w] =>
         \/ d \in fin[w] /\ arrived[w][d] = moved[w][d]
         \/ ~Alive(w) \/ Dest(d) \in gone[w] \/ far[w] = "refused"

IInv == TypeOK /\ LanesWerePublished /\ StartsEmpty /\ LoopsCloseBehindThem /\ EndsComeLast

\* What the host's policy does not allow is never dialled, also for a caller that
\* was used for another target before: no application's data reaches such a
\* service, and none of its data is read.
PolicyHolds ==
  \A w \in Callers :
    far[w] = "splicing" \/ arrived[w]["there"] > 0 \/ sent[w]["back"] > 0
      => DialAllowed(target[w])

\* How it comes about: there is no service, and no data, before it is dialled.
NoServiceUndialled ==
  \A w \in Callers :
    /\ "far_in" \in copying[w] => far[w] = "splicing"
    /\ far[w] \in {"none", "dialing"} => arrived[w]["there"] = 0 /\ sent[w]["back"] = 0

\* The writer of the direction waits for a reader that is not there any more.
Blocked(w, d) == Alive(w) /\ Second(d) \notin copying[w] /\ moved[w][d] < sent[w][d]

\* A copy loop has something to do, by the guards of its steps, ...
OutCanGo(w, d) ==
  /\ First(d) \in copying[w]
  /\ \/ moved[w][d] = sent[w][d] /\ d \in ended[w]
     \/ moved[w][d] < sent[w][d]
          /\ (moved[w][d] < arrived[w][d] + Window \/ ~Alive(w) \/ Reset(w, d))
InCanGo(w, d) ==
  /\ Second(d) \in copying[w]
  /\ arrived[w][d] < moved[w][d] \/ d \in fin[w] \/ ~Alive(w)

\* ... and so has one of the goroutines that started it.
HandlerCanGo(w) ==
  \/ near[w] = "opening" /\ w \notin asking
  \/ far[w] = "none" /\ Alive(w)
  \/ far[w] = "dialing"
  \/ near[w] = "splicing" /\ copying[w] \cap NearLoops = {}
  \/ far[w] = "splicing" /\ copying[w] \cap FarLoops = {}

\* A forwarded connection whose goroutines all wait does not wait for itself: one
\* of its sources has been read to the end of what it wrote and may write more, or
\* a writer waits for a reader that has stopped.  The loops of the two directions
\* and of the two peers never wait for each other in a circle, however small the
\* window.
NeverWaitsForItself ==
  \A w \in Callers :
    \/ near[w] # "splicing" /\ far[w] # "splicing"
    \/ HandlerCanGo(w)
    \/ \E d \in Directions :
         \/ OutCanGo(w, d) \/ InCanGo(w, d)
         \/ First(d) \in copying[w] /\ moved[w][d] = sent[w][d] /\ d \notin ended[w]
         \/ First(d) \in copying[w] /\ Blocked(w, d)

\* How it comes about: a stream that nobody writes to any more has been closed.
StreamsAreClosed ==
  \A w \in Callers :
    /\ far[w] \in {"refused", "returned"} => "back" \in fin[w]
    /\ lane[w] # None /\ "near_out" \notin copying[w] => "there" \in fin[w]

FlowInv == PolicyHolds /\ NoServiceUndialled /\ StreamsAreClosed

-----------------------------------------------------------------------------
(* Liveness.  Each copy loop is a goroutine of its own, and so is each     *)
(* handler.  What the applications, the services and the connections       *)
(* between the peers do is up to them.                                     *)
ForwardFairness ==
  \A w \in Callers :
       /\ WF_allVars(Open(w))
       /\ WF_allVars(HostAccepts(w)) /\ WF_allVars(HostDials(w) \/ HostRefuses(w))
       /\ WF_allVars(NearDone(w)) /\ WF_allVars(FarDone(w))
       /\ \A d \in Directions :
            /\ WF_allVars(CopyOut(w, d) \/ CopyOutEnds(w, d) \/ CopyOutFails(w, d))
            /\ WF_allVars(CopyIn(w, d) \/ CopyInEnds(w, d) \/ CopyInFails(w, d))

FairForwardSpec == ForwardSpec /\ ForwardFairness

\* The guards of NeverWaitsForItself are those of the steps.
GuardsAreRight ==
  \A w \in Callers :
    /\ \A d \in Directions :
         /\ OutCanGo(w, d) <=> ENABLED (CopyOut(w, d) \/ CopyOutEnds(w, d) \/ CopyOutFails(w, d))
         /\ InCanGo(w, d) <=> ENABLED (CopyIn(w, d) \/ CopyInEnds(w, d) \/ CopyInFails(w, d))
    /\ HandlerCanGo(w) <=> ENABLED (Open(w) \/ HostAccepts(w) \/ HostDials(w) \/ HostRefuses(w)
                                     \/ NearDone(w) \/ FarDone(w))

\* Half-closing works: an end that has shut down its side is heard out by the
\* other, whatever that one does with its own side, if it does not go away and
\* the connection lives.
HalfCloseIsPassedOn ==
  \A w \in Callers, d \in Directions :
    (d \in ended[w] /\ far[w] = "splicing" /\ near[w] = "splicing")
      ~> (d \in eof[w] \/ ~Alive(w) \/ Dest(d) \in gone[w])

\* Nothing of a connection is left once both its ends have gone, or one has and
\* the other was refused, or the peers' connection has died - but for a loop that
\* waits for a reader who has stopped, which only the end of the peers'
\* connection releases.  And a local connection whose stream was to be opened on
\* a connection that has died is dropped.
EndsRelease ==
  \A w \in Callers :
    /\ (near[w] = "opening" /\ w \notin asking /\ taken[w] \notin up) ~> near[w] = "none"
    /\ (near[w] = "splicing" /\ "app" \in gone[w] /\ ("back" \in ended[w] \cup fin[w] \/ ~Alive(w)))
         ~> (near[w] # "splicing" \/ Blocked(w, "there") \/ Blocked(w, "back"))
    /\ (far[w] = "splicing" /\ "service" \in gone[w] /\ ("there" \in ended[w] \/ ~Alive(w)))
         ~> (far[w] # "splicing" \/ Blocked(w, "there") \/ Blocked(w, "back"))
=============================================================================
