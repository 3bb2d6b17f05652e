---------------------------- MODULE ForwardProofs ----------------------------
(***************************************************************************)
(* Theorems about forwarded connections, for any connections between the   *)
(* peers, any number of local connections, any policy, any window and any  *)
(* amount of data: what an end of data means, what the policy keeps out,   *)
(* that the copy loops do not wait for each other, and that what is done   *)
(* to the connection of the peers is what ConnCell admits.                 *)
(***************************************************************************)
EXTENDS Forward, TLAPS

USE DEF forwardVars, dataVars, endVars

Rest == LanesWerePublished /\ StartsEmpty /\ LoopsCloseBehindThem /\ EndsComeLast

\* The invariant holds before the first connection.
LEMMA InitIInv == ForwardInit => IInv
<1> SUFFICES ASSUME ForwardInit PROVE IInv
  OBVIOUS
<1>1. Nothing \in Counts /\ \A d \in Directions : Nothing[d] = 0
  BY DEF Nothing, Counts
<1>2. TypeOK
  BY <1>1 DEF ForwardInit, Init, TypeOK, MaybeLink
<1>3. LanesWerePublished /\ StartsEmpty /\ LoopsCloseBehindThem /\ EndsComeLast
  BY DEF ForwardInit, Init, LanesWerePublished, StartsEmpty, LoopsCloseBehindThem, EndsComeLast
<1> QED
  BY <1>2, <1>3 DEF IInv

\* What a direction's parts are.
LEMMA Parts ==
  /\ Directions = {"there", "back"}
  /\ \A d \in Directions :
       /\ Source(d) \in Ends /\ Dest(d) \in Ends /\ Source(d) # Dest(d)
       /\ First(d) \in Loops /\ Second(d) \in Loops /\ Other(d) \in Directions
  BY DEF Directions, Source, Dest, Ends, First, Second, Loops, Other

\* Every step keeps every variable's type.
LEMMA TypeStep == TypeOK /\ [ForwardNext]_allVars => TypeOK'
<1> SUFFICES ASSUME TypeOK, [ForwardNext]_allVars PROVE TypeOK'
  OBVIOUS
<1> USE Parts DEF TypeOK, MaybeLink, vars, Loops, Counts
<1>1. ASSUME NEW l \in Links, Connect(l) PROVE TypeOK'
  BY <1>1 DEF Connect, Publish
<1>2. ASSUME NEW l \in Links, LinkDies(l) PROVE TypeOK'
  BY <1>2 DEF LinkDies
<1>3. CASE Withdraw /\ UNCHANGED forwardVars
  BY <1>3 DEF Withdraw
<1>4. ASSUME NEW w \in Callers, Answer(w) /\ UNCHANGED forwardVars PROVE TypeOK'
  BY <1>4 DEF Answer, Return
<1>5. ASSUME NEW w \in Callers, NEW t \in Targets, Accept(w, t) PROVE TypeOK'
  BY <1>5 DEF Accept, Ask, Nothing, Counts
<1>6. ASSUME NEW w \in Callers, AcceptTimesOut(w) PROVE TypeOK'
  BY <1>6 DEF AcceptTimesOut, GiveUp, Return, Drop
<1>7. ASSUME NEW w \in Callers, Open(w) PROVE TypeOK'
  <2>1. UNCHANGED <<vars, up, target, far, dataVars, ended, fin, gone>>
    BY <1>7 DEF Open
  <2>2. lane' \in [Callers -> MaybeLink] /\ near' \in [Callers -> {"none", "opening", "splicing"}]
    <3>1. lane' = lane \/ lane' = [lane EXCEPT ![w] = taken[w]]
      BY <1>7 DEF Open
    <3>2. \/ near' = [near EXCEPT ![w] = "splicing"]
          \/ near' = [near EXCEPT ![w] = "none"]
      BY <1>7 DEF Open, Drop
    <3> QED
      BY <3>1, <3>2
  <2>3. NearLoops \in SUBSET Loops
    BY DEF NearLoops
  <2>4. copying' = copying \/ copying' = [copying EXCEPT ![w] = NearLoops]
    BY <1>7 DEF Open
  <2>5. copying' \in [Callers -> SUBSET Loops]
    <3> HIDE DEF Loops
    <3> QED
      BY <2>3, <2>4
  <2>6. eof' = eof \/ eof' = [eof EXCEPT ![w] = eof[w] \cup {"back"}]
    BY <1>7 DEF Open, Drop
  <2>7. eof' \in [Callers -> SUBSET Directions]
    <3>1. eof \in [Callers -> SUBSET Directions] /\ eof[w] \cup {"back"} \in SUBSET Directions
      OBVIOUS
    <3> HIDE Parts DEF TypeOK, Loops
    <3> QED
      BY <2>6, <3>1
  <2> QED
    BY <2>1, <2>2, <2>5, <2>7
<1>8. ASSUME NEW w \in Callers, HostAccepts(w) PROVE TypeOK'
  BY <1>8 DEF HostAccepts
<1>9. ASSUME NEW w \in Callers, HostDials(w) PROVE TypeOK'
  BY <1>9 DEF HostDials, FarLoops
<1>10. ASSUME NEW w \in Callers, HostRefuses(w) PROVE TypeOK'
  BY <1>10 DEF HostRefuses
<1>11. ASSUME NEW w \in Callers, NearDone(w) PROVE TypeOK'
  BY <1>11 DEF NearDone, Drop, NearLoops
<1>12. ASSUME NEW w \in Callers, FarDone(w) PROVE TypeOK'
  BY <1>12 DEF FarDone, FarLoops
<1>13. ASSUME NEW w \in Callers, NEW d \in Directions, CopyOut(w, d) PROVE TypeOK'
  BY <1>13 DEF CopyOut
<1>14. ASSUME NEW w \in Callers, NEW d \in Directions, CopyOutEnds(w, d) PROVE TypeOK'
  BY <1>14 DEF CopyOutEnds, Stops
<1>15. ASSUME NEW w \in Callers, NEW d \in Directions, CopyOutFails(w, d) PROVE TypeOK'
  BY <1>15 DEF CopyOutFails, Stops
<1>16. ASSUME NEW w \in Callers, NEW d \in Directions, CopyIn(w, d) PROVE TypeOK'
  BY <1>16 DEF CopyIn
<1>17. ASSUME NEW w \in Callers, NEW d \in Directions, CopyInEnds(w, d) PROVE TypeOK'
  BY <1>17 DEF CopyInEnds, Stops
<1>18. ASSUME NEW w \in Callers, NEW d \in Directions, CopyInFails(w, d) PROVE TypeOK'
  BY <1>18 DEF CopyInFails, Stops
<1>19. ASSUME NEW w \in Callers, NEW d \in Directions, Write(w, d) PROVE TypeOK'
  BY <1>19 DEF Write
<1>20. ASSUME NEW w \in Callers, NEW d \in Directions, Shut(w, d) PROVE TypeOK'
  BY <1>20 DEF Shut
<1>21. ASSUME NEW w \in Callers, NEW d \in Directions, Leave(w, d) PROVE TypeOK'
  BY <1>21 DEF Leave
<1>22. CASE UNCHANGED allVars
  BY <1>22 DEF allVars
<1> QED
  BY <1>1, <1>2, <1>3, <1>4, <1>5, <1>6, <1>7, <1>8, <1>9, <1>10, <1>11, <1>12, <1>13, <1>14, <1>15, <1>16, <1>17, <1>18, <1>19, <1>20, <1>21, <1>22 DEF ForwardNext, Copy, Ending

\* A new connection is not one that a stream was on.
LEMMA ConnectStep ==
  ASSUME IInv, NEW l \in Links, Connect(l)
  PROVE  Rest'
<1> USE DEF IInv, TypeOK, Connect, Publish
<1>1. LanesWerePublished'
  BY NoneAssumption DEF LanesWerePublished, vars, MaybeLink
<1>2. StartsEmpty'
  BY NoneAssumption DEF StartsEmpty, vars, Directions, First, Loops, Alive
<1>3. LoopsCloseBehindThem'
  BY DEF LoopsCloseBehindThem, StartsEmpty, vars, Directions, Source, First, Second
<1>4. EndsComeLast'
  BY NoneAssumption DEF EndsComeLast, StartsEmpty, LoopsCloseBehindThem, LanesWerePublished, vars, Counts,
     Directions, Source, Dest, First, Second, Other, Alive, Reset, Connected, MaybeLink
<1> QED
  BY <1>1, <1>2, <1>3, <1>4 DEF Rest

\* A dying connection only excuses.
LEMMA LinkDiesStep ==
  ASSUME IInv, NEW l \in Links, LinkDies(l)
  PROVE  Rest'
<1> USE DEF IInv, TypeOK, LinkDies
<1>1. LanesWerePublished'
  BY NoneAssumption DEF LanesWerePublished, vars, MaybeLink
<1>2. StartsEmpty'
  BY NoneAssumption DEF StartsEmpty, vars, Directions, First, Loops, Alive
<1>3. LoopsCloseBehindThem'
  BY DEF LoopsCloseBehindThem, StartsEmpty, vars, Directions, Source, First, Second
<1>4. EndsComeLast'
  BY NoneAssumption DEF EndsComeLast, StartsEmpty, LoopsCloseBehindThem, LanesWerePublished, vars, Counts,
     Directions, Source, Dest, First, Second, Other, Alive, Reset, Connected, MaybeLink
<1> QED
  BY <1>1, <1>2, <1>3, <1>4 DEF Rest

\* A withdrawn connection stays a known one.
LEMMA WithdrawStep ==
  ASSUME IInv, Withdraw /\ UNCHANGED forwardVars
  PROVE  Rest'
<1> USE DEF IInv, TypeOK, Withdraw
<1>1. LanesWerePublished'
  BY NoneAssumption DEF LanesWerePublished, vars, MaybeLink
<1>2. StartsEmpty'
  BY NoneAssumption DEF StartsEmpty, vars, Directions, First, Loops, Alive
<1>3. LoopsCloseBehindThem'
  BY DEF LoopsCloseBehindThem, StartsEmpty, vars, Directions, Source, First, Second
<1>4. EndsComeLast'
  BY NoneAssumption DEF EndsComeLast, StartsEmpty, LoopsCloseBehindThem, LanesWerePublished, vars, Counts,
     Directions, Source, Dest, First, Second, Other, Alive, Reset, Connected, MaybeLink
<1> QED
  BY <1>1, <1>2, <1>3, <1>4 DEF Rest

\* The answer is a known connection.
LEMMA AnswerStep ==
  ASSUME IInv, NEW w \in Callers, Answer(w) /\ UNCHANGED forwardVars
  PROVE  Rest'
<1> USE DEF IInv, TypeOK, Answer, Return
<1>1. LanesWerePublished'
  BY NoneAssumption DEF LanesWerePublished, vars, MaybeLink
<1>2. StartsEmpty'
  BY NoneAssumption DEF StartsEmpty, vars, Directions, First, Loops, Alive
<1>3. LoopsCloseBehindThem'
  BY DEF LoopsCloseBehindThem, StartsEmpty, vars, Directions, Source, First, Second
<1>4. EndsComeLast'
  BY NoneAssumption DEF EndsComeLast, StartsEmpty, LoopsCloseBehindThem, LanesWerePublished, vars, Counts,
     Directions, Source, Dest, First, Second, Other, Alive, Reset, Connected, MaybeLink
<1> QED
  BY <1>1, <1>2, <1>3, <1>4 DEF Rest

\* A new local connection starts with nothing.
LEMMA AcceptStep ==
  ASSUME IInv, NEW w \in Callers, NEW t \in Targets, Accept(w, t)
  PROVE  Rest'
<1> USE DEF IInv, TypeOK, Accept, Ask, Nothing, Counts
<1>1. LanesWerePublished'
  BY NoneAssumption DEF LanesWerePublished, vars, MaybeLink
<1>2. StartsEmpty'
  BY NoneAssumption DEF StartsEmpty, vars, Directions, First, Loops, Alive
<1>3. LoopsCloseBehindThem'
  BY DEF LoopsCloseBehindThem, StartsEmpty, vars, Directions, Source, First, Second
<1>4. EndsComeLast'
  BY NoneAssumption DEF EndsComeLast, StartsEmpty, LoopsCloseBehindThem, LanesWerePublished, vars, Counts,
     Directions, Source, Dest, First, Second, Other, Alive, Reset, Connected, MaybeLink
<1> QED
  BY <1>1, <1>2, <1>3, <1>4 DEF Rest

\* Who gave up never had a stream.
LEMMA AcceptTimesOutStep ==
  ASSUME IInv, NEW w \in Callers, AcceptTimesOut(w)
  PROVE  Rest'
<1> USE DEF IInv, TypeOK, AcceptTimesOut, GiveUp, Return, Drop
<1>1. LanesWerePublished'
  BY NoneAssumption DEF LanesWerePublished, vars, MaybeLink
<1>2. StartsEmpty'
  BY NoneAssumption DEF StartsEmpty, vars, Directions, First, Loops, Alive
<1>3. LoopsCloseBehindThem'
  BY DEF LoopsCloseBehindThem, StartsEmpty, vars, Directions, Source, First, Second
<1>4. EndsComeLast'
  BY NoneAssumption DEF EndsComeLast, StartsEmpty, LoopsCloseBehindThem, LanesWerePublished, vars, Counts,
     Directions, Source, Dest, First, Second, Other, Alive, Reset, Connected, MaybeLink
<1> QED
  BY <1>1, <1>2, <1>3, <1>4 DEF Rest

\* A stream is opened on a known connection.
LEMMA OpenStep ==
  ASSUME IInv, NEW w \in Callers, Open(w)
  PROVE  Rest'
<1> USE DEF IInv, TypeOK, Open, Drop, NearLoops
<1>1. LanesWerePublished'
  BY NoneAssumption DEF LanesWerePublished, vars, MaybeLink
<1>2. StartsEmpty'
  <2>1. CASE taken[w] \in up
    BY <2>1 DEF StartsEmpty, vars, Loops
  <2>2. CASE taken[w] \notin up
    BY <2>2 DEF StartsEmpty, vars, Loops
  <2> QED
    BY <2>1, <2>2
<1>3. LoopsCloseBehindThem'
  BY DEF LoopsCloseBehindThem, StartsEmpty, vars, Directions, Source, First, Second
<1>4. EndsComeLast'
  <2>1. ~Alive(w) /\ fin[w] = {} /\ eof[w] = {}
    BY NoneAssumption DEF StartsEmpty, Alive
  <2>2. CASE taken[w] \in up
    BY <2>1, <2>2 DEF EndsComeLast, StartsEmpty, vars, Directions, Source, Dest, First, Second, Other, Alive, Reset
  <2>3. CASE taken[w] \notin up
    <3>1. /\ UNCHANGED <<up, lane, copying, dataVars, ended, fin, gone, far>>
          /\ eof' = [eof EXCEPT ![w] = eof[w] \cup {"back"}]
      BY <2>3 DEF vars
    <3>2. \A v \in Callers : eof'[v] = IF v = w THEN eof[v] \cup {"back"} ELSE eof[v]
      BY <3>1
    <3>3. \A v \in Callers : \A d \in Directions :
            /\ Alive(v)' = Alive(v)
            /\ Reset(v, d) => Reset(v, d)'
      BY <3>1 DEF Alive, Reset, dataVars
    <3> QED
      BY <2>1, <3>1, <3>2, <3>3 DEF EndsComeLast
  <2> QED
    BY <2>2, <2>3
<1> QED
  BY <1>1, <1>2, <1>3, <1>4 DEF Rest

\* A handler has done nothing yet.
LEMMA HostAcceptsStep ==
  ASSUME IInv, NEW w \in Callers, HostAccepts(w)
  PROVE  Rest'
<1> USE DEF IInv, TypeOK, HostAccepts
<1>1. LanesWerePublished'
  BY NoneAssumption DEF LanesWerePublished, vars, MaybeLink
<1>2. StartsEmpty'
  BY NoneAssumption DEF StartsEmpty, vars, Directions, First, Loops, Alive
<1>3. LoopsCloseBehindThem'
  BY DEF LoopsCloseBehindThem, StartsEmpty, vars, Directions, Source, First, Second
<1>4. EndsComeLast'
  BY NoneAssumption DEF EndsComeLast, StartsEmpty, LoopsCloseBehindThem, LanesWerePublished, vars, Counts,
     Directions, Source, Dest, First, Second, Other, Alive, Reset, Connected, MaybeLink
<1> QED
  BY <1>1, <1>2, <1>3, <1>4 DEF Rest

\* Both its loops run.
LEMMA HostDialsStep ==
  ASSUME IInv, NEW w \in Callers, HostDials(w)
  PROVE  Rest'
<1> USE DEF IInv, TypeOK, HostDials, FarLoops
<1>1. LanesWerePublished'
  BY NoneAssumption DEF LanesWerePublished, vars, MaybeLink
<1>2. StartsEmpty'
  BY NoneAssumption DEF StartsEmpty, vars, Directions, First, Loops, Alive
<1>3. LoopsCloseBehindThem'
  BY DEF LoopsCloseBehindThem, StartsEmpty, vars, Directions, Source, First, Second
<1>4. EndsComeLast'
  <2> SUFFICES ASSUME NEW v \in Callers, NEW d \in Directions
               PROVE  EndsComeLast!(v, d)'
    BY DEF EndsComeLast
  <2>1. CASE v # w
    BY <2>1 DEF EndsComeLast, StartsEmpty, vars, Directions, Source, Dest, First, Second, Other, Alive, Reset
  <2>2. CASE v = w /\ d = "there"
    BY <2>2 DEF EndsComeLast, StartsEmpty, vars, Directions, Source, Dest, First, Second, Other, Alive, Reset
  <2>3. CASE v = w /\ d = "back"
    BY <2>3 DEF EndsComeLast, StartsEmpty, vars, Directions, Source, Dest, First, Second, Other, Alive, Reset
  <2> QED
    BY <2>1, <2>2, <2>3 DEF Directions
<1> QED
  BY <1>1, <1>2, <1>3, <1>4 DEF Rest

\* A refusal ends the way back.
LEMMA HostRefusesStep ==
  ASSUME IInv, NEW w \in Callers, HostRefuses(w)
  PROVE  Rest'
<1> USE DEF IInv, TypeOK, HostRefuses
<1>1. LanesWerePublished'
  BY NoneAssumption DEF LanesWerePublished, vars, MaybeLink
<1>2. StartsEmpty'
  BY NoneAssumption DEF StartsEmpty, vars, Directions, First, Loops, Alive
<1>3. LoopsCloseBehindThem'
  BY DEF LoopsCloseBehindThem, StartsEmpty, vars, Directions, Source, First, Second
<1>4. EndsComeLast'
  BY NoneAssumption DEF EndsComeLast, StartsEmpty, LoopsCloseBehindThem, LanesWerePublished, vars, Counts,
     Directions, Source, Dest, First, Second, Other, Alive, Reset, Connected, MaybeLink
<1> QED
  BY <1>1, <1>2, <1>3, <1>4 DEF Rest

\* The socket is closed when its end was passed on already.
LEMMA NearDoneStep ==
  ASSUME IInv, NEW w \in Callers, NearDone(w)
  PROVE  Rest'
<1> USE DEF IInv, TypeOK, NearDone, Drop, NearLoops
<1>1. LanesWerePublished'
  BY NoneAssumption DEF LanesWerePublished, vars, MaybeLink
<1>2. StartsEmpty'
  BY NoneAssumption DEF StartsEmpty, vars, Directions, First, Loops, Alive
<1>3. LoopsCloseBehindThem'
  BY DEF LoopsCloseBehindThem, StartsEmpty, vars, Directions, Source, First, Second
<1>4. EndsComeLast'
  BY NoneAssumption DEF EndsComeLast, StartsEmpty, LoopsCloseBehindThem, LanesWerePublished, vars, Counts,
     Directions, Source, Dest, First, Second, Other, Alive, Reset, Connected, MaybeLink
<1> QED
  BY <1>1, <1>2, <1>3, <1>4 DEF Rest

\* Likewise at the host, and for its stream.
LEMMA FarDoneStep ==
  ASSUME IInv, NEW w \in Callers, FarDone(w)
  PROVE  Rest'
<1> USE DEF IInv, TypeOK, FarDone, FarLoops
<1>1. LanesWerePublished'
  BY NoneAssumption DEF LanesWerePublished, vars, MaybeLink
<1>2. StartsEmpty'
  BY NoneAssumption DEF StartsEmpty, vars, Directions, First, Loops, Alive
<1>3. LoopsCloseBehindThem'
  BY DEF LoopsCloseBehindThem, StartsEmpty, vars, Directions, Source, First, Second
<1>4. EndsComeLast'
  BY NoneAssumption DEF EndsComeLast, StartsEmpty, LoopsCloseBehindThem, LanesWerePublished, vars, Counts,
     Directions, Source, Dest, First, Second, Other, Alive, Reset, Connected, MaybeLink
<1> QED
  BY <1>1, <1>2, <1>3, <1>4 DEF Rest

\* Data goes into streams that are open.
LEMMA CopyOutStep ==
  ASSUME IInv, NEW w \in Callers, NEW d \in Directions, CopyOut(w, d)
  PROVE  Rest'
<1> USE DEF IInv, TypeOK, CopyOut
<1>1. LanesWerePublished'
  BY NoneAssumption DEF LanesWerePublished, vars, MaybeLink
<1>2. StartsEmpty'
  BY NoneAssumption DEF StartsEmpty, vars, Directions, First, Loops, Alive
<1>3. LoopsCloseBehindThem'
  BY DEF LoopsCloseBehindThem, StartsEmpty, vars, Directions, Source, First, Second
<1>4. EndsComeLast'
  BY NoneAssumption DEF EndsComeLast, StartsEmpty, LoopsCloseBehindThem, LanesWerePublished, vars, Counts,
     Directions, Source, Dest, First, Second, Other, Alive, Reset, Connected, MaybeLink
<1> QED
  BY <1>1, <1>2, <1>3, <1>4 DEF Rest

\* A stream is closed behind all its data.
LEMMA CopyOutEndsStep ==
  ASSUME IInv, NEW w \in Callers, NEW d \in Directions, CopyOutEnds(w, d)
  PROVE  Rest'
<1> USE DEF IInv, TypeOK, CopyOutEnds, Stops
<1>1. LanesWerePublished'
  BY NoneAssumption DEF LanesWerePublished, vars, MaybeLink
<1>2. StartsEmpty'
  BY NoneAssumption DEF StartsEmpty, vars, Directions, First, Loops, Alive
<1>3. LoopsCloseBehindThem'
  BY DEF LoopsCloseBehindThem, StartsEmpty, vars, Directions, Source, First, Second
<1>4. EndsComeLast'
  BY NoneAssumption DEF EndsComeLast, StartsEmpty, LoopsCloseBehindThem, LanesWerePublished, vars, Counts,
     Directions, Source, Dest, First, Second, Other, Alive, Reset, Connected, MaybeLink
<1> QED
  BY <1>1, <1>2, <1>3, <1>4 DEF Rest

\* Or it is dead, or its source reset.
LEMMA CopyOutFailsStep ==
  ASSUME IInv, NEW w \in Callers, NEW d \in Directions, CopyOutFails(w, d)
  PROVE  Rest'
<1> USE DEF IInv, TypeOK, CopyOutFails, Stops
<1>1. LanesWerePublished'
  BY NoneAssumption DEF LanesWerePublished, vars, MaybeLink
<1>2. StartsEmpty'
  BY NoneAssumption DEF StartsEmpty, vars, Directions, First, Loops, Alive
<1>3. LoopsCloseBehindThem'
  BY DEF LoopsCloseBehindThem, StartsEmpty, vars, Directions, Source, First, Second
<1>4. EndsComeLast'
  BY NoneAssumption DEF EndsComeLast, StartsEmpty, LoopsCloseBehindThem, LanesWerePublished, vars, Counts,
     Directions, Source, Dest, First, Second, Other, Alive, Reset, Connected, MaybeLink
<1> QED
  BY <1>1, <1>2, <1>3, <1>4 DEF Rest

\* Data comes before the end.
LEMMA CopyInStep ==
  ASSUME IInv, NEW w \in Callers, NEW d \in Directions, CopyIn(w, d)
  PROVE  Rest'
<1> USE DEF IInv, TypeOK, CopyIn
<1>1. LanesWerePublished'
  BY NoneAssumption DEF LanesWerePublished, vars, MaybeLink
<1>2. StartsEmpty'
  BY NoneAssumption DEF StartsEmpty, vars, Directions, First, Loops, Alive
<1>3. LoopsCloseBehindThem'
  BY DEF LoopsCloseBehindThem, StartsEmpty, vars, Directions, Source, First, Second
<1>4. EndsComeLast'
  BY NoneAssumption DEF EndsComeLast, StartsEmpty, LoopsCloseBehindThem, LanesWerePublished, vars, Counts,
     Directions, Source, Dest, First, Second, Other, Alive, Reset, Connected, MaybeLink
<1> QED
  BY <1>1, <1>2, <1>3, <1>4 DEF Rest

\* The end comes after it.
LEMMA CopyInEndsStep ==
  ASSUME IInv, NEW w \in Callers, NEW d \in Directions, CopyInEnds(w, d)
  PROVE  Rest'
<1> USE DEF IInv, TypeOK, CopyInEnds, Stops
<1>1. LanesWerePublished'
  BY NoneAssumption DEF LanesWerePublished, vars, MaybeLink
<1>2. StartsEmpty'
  BY NoneAssumption DEF StartsEmpty, vars, Directions, First, Loops, Alive
<1>3. LoopsCloseBehindThem'
  BY DEF LoopsCloseBehindThem, StartsEmpty, vars, Directions, Source, First, Second
<1>4. EndsComeLast'
  BY NoneAssumption DEF EndsComeLast, StartsEmpty, LoopsCloseBehindThem, LanesWerePublished, vars, Counts,
     Directions, Source, Dest, First, Second, Other, Alive, Reset, Connected, MaybeLink
<1> QED
  BY <1>1, <1>2, <1>3, <1>4 DEF Rest

\* Or the stream is dead, or the destination gone.
LEMMA CopyInFailsStep ==
  ASSUME IInv, NEW w \in Callers, NEW d \in Directions, CopyInFails(w, d)
  PROVE  Rest'
<1> USE DEF IInv, TypeOK, CopyInFails, Stops
<1>1. LanesWerePublished'
  BY NoneAssumption DEF LanesWerePublished, vars, MaybeLink
<1>2. StartsEmpty'
  BY NoneAssumption DEF StartsEmpty, vars, Directions, First, Loops, Alive
<1>3. LoopsCloseBehindThem'
  BY DEF LoopsCloseBehindThem, StartsEmpty, vars, Directions, Source, First, Second
<1>4. EndsComeLast'
  BY NoneAssumption DEF EndsComeLast, StartsEmpty, LoopsCloseBehindThem, LanesWerePublished, vars, Counts,
     Directions, Source, Dest, First, Second, Other, Alive, Reset, Connected, MaybeLink
<1> QED
  BY <1>1, <1>2, <1>3, <1>4 DEF Rest

\* Who has ended writes no more.
LEMMA WriteStep ==
  ASSUME IInv, NEW w \in Callers, NEW d \in Directions, Write(w, d)
  PROVE  Rest'
<1> USE DEF IInv, TypeOK, Write
<1>1. LanesWerePublished'
  BY NoneAssumption DEF LanesWerePublished, vars, MaybeLink
<1>2. StartsEmpty'
  BY NoneAssumption DEF StartsEmpty, vars, Directions, First, Loops, Alive
<1>3. LoopsCloseBehindThem'
  BY DEF LoopsCloseBehindThem, StartsEmpty, vars, Directions, Source, First, Second
<1>4. EndsComeLast'
  BY NoneAssumption DEF EndsComeLast, StartsEmpty, LoopsCloseBehindThem, LanesWerePublished, vars, Counts,
     Directions, Source, Dest, First, Second, Other, Alive, Reset, Connected, MaybeLink
<1> QED
  BY <1>1, <1>2, <1>3, <1>4 DEF Rest

\* Ending only adds.
LEMMA ShutStep ==
  ASSUME IInv, NEW w \in Callers, NEW d \in Directions, Shut(w, d)
  PROVE  Rest'
<1> USE DEF IInv, TypeOK, Shut
<1>1. LanesWerePublished'
  BY NoneAssumption DEF LanesWerePublished, vars, MaybeLink
<1>2. StartsEmpty'
  BY NoneAssumption DEF StartsEmpty, vars, Directions, First, Loops, Alive
<1>3. LoopsCloseBehindThem'
  BY DEF LoopsCloseBehindThem, StartsEmpty, vars, Directions, Source, First, Second
<1>4. EndsComeLast'
  BY NoneAssumption DEF EndsComeLast, StartsEmpty, LoopsCloseBehindThem, LanesWerePublished, vars, Counts,
     Directions, Source, Dest, First, Second, Other, Alive, Reset, Connected, MaybeLink
<1> QED
  BY <1>1, <1>2, <1>3, <1>4 DEF Rest

\* Leaving is ending.
LEMMA LeaveStep ==
  ASSUME IInv, NEW w \in Callers, NEW d \in Directions, Leave(w, d)
  PROVE  Rest'
<1> USE DEF IInv, TypeOK, Leave
<1>1. LanesWerePublished'
  BY NoneAssumption DEF LanesWerePublished, vars, MaybeLink
<1>2. StartsEmpty'
  BY NoneAssumption DEF StartsEmpty, vars, Directions, First, Loops, Alive
<1>3. LoopsCloseBehindThem'
  BY DEF LoopsCloseBehindThem, StartsEmpty, vars, Directions, Source, First, Second
<1>4. EndsComeLast'
  BY NoneAssumption DEF EndsComeLast, StartsEmpty, LoopsCloseBehindThem, LanesWerePublished, vars, Counts,
     Directions, Source, Dest, First, Second, Other, Alive, Reset, Connected, MaybeLink
<1> QED
  BY <1>1, <1>2, <1>3, <1>4 DEF Rest

\* The invariant is kept by every step.
LEMMA IInvStep == IInv /\ [ForwardNext]_allVars => IInv'
<1> SUFFICES ASSUME IInv, [ForwardNext]_allVars PROVE Rest'
  BY TypeStep DEF IInv, Rest
<1>1. CASE UNCHANGED allVars
  BY <1>1 DEF IInv, Rest, TypeOK, allVars, vars, LanesWerePublished, StartsEmpty,
              LoopsCloseBehindThem, EndsComeLast, Alive, Reset
<1>2. ASSUME NEW l \in Links, Connect(l) \/ LinkDies(l) PROVE Rest'
  BY <1>2, ConnectStep, LinkDiesStep
<1>3. CASE Withdraw /\ UNCHANGED forwardVars
  BY <1>3, WithdrawStep
<1>4. ASSUME NEW w \in Callers,
             \/ \E t \in Targets : Accept(w, t)
             \/ (Answer(w) /\ UNCHANGED forwardVars) \/ AcceptTimesOut(w) \/ Open(w)
      PROVE  Rest'
  BY <1>4, AcceptStep, AnswerStep, AcceptTimesOutStep, OpenStep
<1>5. ASSUME NEW w \in Callers,
             HostAccepts(w) \/ HostDials(w) \/ HostRefuses(w) \/ NearDone(w) \/ FarDone(w)
      PROVE  Rest'
  BY <1>5, HostAcceptsStep, HostDialsStep, HostRefusesStep, NearDoneStep, FarDoneStep
<1>6. ASSUME NEW w \in Callers, NEW d \in Directions, Copy(w, d) PROVE Rest'
  BY <1>6, CopyOutStep, CopyOutEndsStep, CopyOutFailsStep, CopyInStep, CopyInEndsStep,
     CopyInFailsStep DEF Copy
<1>7. ASSUME NEW w \in Callers, NEW d \in Directions, Ending(w, d) PROVE Rest'
  BY <1>7, WriteStep, ShutStep, LeaveStep DEF Ending
<1> QED
  BY <1>1, <1>2, <1>3, <1>4, <1>5, <1>6, <1>7 DEF ForwardNext

\* What was told and what was moved keep their types.
THEOREM ForwardTypeCorrect == ForwardSpec => []TypeOK
<1>1. IInv => TypeOK
  BY DEF IInv
<1> QED
  BY InitIInv, IInvStep, <1>1, PTL DEF ForwardSpec

\* No end of a forwarded connection takes half a transfer for a whole one while
\* the tunnel lives.
THEOREM ForwardedEndsAreHonest == ForwardSpec => []EofIsHonest
<1>1. IInv => EofIsHonest
  BY DEF IInv, EofIsHonest, EndsComeLast
<1> QED
  BY InitIInv, IInvStep, <1>1, PTL DEF ForwardSpec

-----------------------------------------------------------------------------
(* What a connection waits for, and what the policy keeps out.             *)

LEMMA InitFlowInv == ForwardInit => FlowInv
<1> SUFFICES ASSUME ForwardInit PROVE FlowInv
  OBVIOUS
<1>1. Nothing["there"] = 0 /\ Nothing["back"] = 0
  BY DEF Nothing, Directions
<1> QED
  BY <1>1 DEF ForwardInit, Init, FlowInv, PolicyHolds, NoServiceUndialled, StreamsAreClosed

\* Steps that leave the targets, the data and the streams alone.
LEMMA FlowStays ==
  ASSUME FlowInv, UNCHANGED <<target, lane, far, copying, arrived, sent>>,
         \A w \in Callers : fin[w] \subseteq fin'[w]
  PROVE  FlowInv'
  BY DEF FlowInv, PolicyHolds, NoServiceUndialled, StreamsAreClosed, DialAllowed

\* A loop stops, its stream is closed if it is one that writes to it.
LEMMA FlowStops ==
  ASSUME FlowInv, IInv, NEW w \in Callers, NEW loop \in Loops, Stops(w, loop),
         UNCHANGED <<target, lane, far, arrived, sent>>,
         \A o \in Callers : fin[o] \subseteq fin'[o],
         loop = "near_out" => "there" \in fin'[w]
  PROVE  FlowInv'
<1>1. \A o \in Callers : copying'[o] = IF o = w THEN copying[w] \ {loop} ELSE copying[o]
  BY DEF Stops, IInv, TypeOK
<1> QED
  BY <1>1 DEF FlowInv, PolicyHolds, NoServiceUndialled, StreamsAreClosed, DialAllowed

LEMMA FlowAccept ==
  ASSUME IInv, FlowInv, NEW w \in Callers, NEW t \in Targets, Accept(w, t)
  PROVE  FlowInv'
<1>1. Nothing["there"] = 0 /\ Nothing["back"] = 0
  BY DEF Nothing, Directions
<1>2. /\ target'[w] = t /\ lane'[w] = None /\ far'[w] = "none" /\ copying'[w] = {}
      /\ arrived'[w] = Nothing /\ sent'[w] = Nothing
  BY DEF Accept, IInv, TypeOK
<1>3. \A o \in Callers \ {w} :
        /\ target'[o] = target[o] /\ lane'[o] = lane[o] /\ far'[o] = far[o] /\ fin'[o] = fin[o]
        /\ copying'[o] = copying[o] /\ arrived'[o] = arrived[o] /\ sent'[o] = sent[o]
  BY DEF Accept, IInv, TypeOK
<1> QED
  BY <1>1, <1>2, <1>3 DEF FlowInv, PolicyHolds, NoServiceUndialled, StreamsAreClosed, DialAllowed

LEMMA FlowOpen ==
  ASSUME IInv, FlowInv, NEW w \in Callers, Open(w)
  PROVE  FlowInv'
<1>1. CASE UNCHANGED <<lane, copying>>
  BY <1>1, FlowStays DEF Open
<1>2. CASE /\ lane' = [lane EXCEPT ![w] = taken[w]] /\ copying' = [copying EXCEPT ![w] = NearLoops]
  <2>1. "near_out" \in copying'[w] /\ "far_in" \notin copying'[w]
    BY <1>2 DEF IInv, TypeOK, NearLoops
  <2>2. \A o \in Callers \ {w} : lane'[o] = lane[o] /\ copying'[o] = copying[o]
    BY <1>2 DEF IInv, TypeOK
  <2>3. far[w] = "none" /\ UNCHANGED <<target, far, arrived, sent, fin>>
    BY DEF Open, IInv, StartsEmpty
  <2> QED
    BY <2>1, <2>2, <2>3 DEF FlowInv, PolicyHolds, NoServiceUndialled, StreamsAreClosed, DialAllowed
<1> QED
  BY <1>1, <1>2 DEF Open

LEMMA FlowHost ==
  ASSUME IInv, FlowInv, NEW w \in Callers,
         HostAccepts(w) \/ HostDials(w) \/ HostRefuses(w) \/ FarDone(w)
  PROVE  FlowInv'
<1>0. UNCHANGED <<target, lane, arrived, sent>>
  BY DEF HostAccepts, HostDials, HostRefuses, FarDone
<1>1. \A o \in Callers \ {w} : far'[o] = far[o] /\ copying'[o] = copying[o] /\ fin'[o] = fin[o]
  BY DEF HostAccepts, HostDials, HostRefuses, FarDone, IInv, TypeOK
<1>2. fin[w] \subseteq fin'[w]
        /\ ("near_out" \in copying'[w] <=> "near_out" \in copying[w])
  BY DEF HostAccepts, HostDials, HostRefuses, FarDone, IInv, TypeOK, FarLoops
<1>3. CASE HostAccepts(w)
  <2>1. far'[w] = "dialing" /\ far[w] = "none" /\ copying' = copying
    BY <1>3 DEF HostAccepts, IInv, TypeOK
  <2> QED
    BY <1>0, <1>1, <1>2, <2>1
       DEF FlowInv, PolicyHolds, NoServiceUndialled, StreamsAreClosed, DialAllowed
<1>4. CASE HostDials(w)
  <2>1. far'[w] = "splicing" /\ DialAllowed(target[w])
    BY <1>4 DEF HostDials, IInv, TypeOK
  <2> QED
    BY <1>0, <1>1, <1>2, <2>1
       DEF FlowInv, PolicyHolds, NoServiceUndialled, StreamsAreClosed, DialAllowed
<1>5. CASE HostRefuses(w)
  <2>1. far'[w] = "refused" /\ far[w] = "dialing" /\ copying' = copying /\ "back" \in fin'[w]
    BY <1>5 DEF HostRefuses, IInv, TypeOK
  <2> QED
    BY <1>0, <1>1, <1>2, <2>1
       DEF FlowInv, PolicyHolds, NoServiceUndialled, StreamsAreClosed, DialAllowed
<1>6. CASE FarDone(w)
  <2>1. /\ far'[w] = "returned" /\ far[w] = "splicing" /\ copying' = copying /\ "back" \in fin'[w]
        /\ "far_in" \notin copying[w]
    BY <1>6 DEF FarDone, IInv, TypeOK, FarLoops
  <2> QED
    BY <1>0, <1>1, <1>2, <2>1
       DEF FlowInv, PolicyHolds, NoServiceUndialled, StreamsAreClosed, DialAllowed
<1> QED
  BY <1>3, <1>4, <1>5, <1>6

\* Data arrives at the service, or is written by it, while it is there.
LEMMA FlowData ==
  ASSUME IInv, FlowInv, NEW w \in Callers, NEW d \in Directions, CopyIn(w, d) \/ Write(w, d)
  PROVE  FlowInv'
<1>1. UNCHANGED <<target, lane, far, copying, fin>>
  BY DEF CopyIn, Write
<1>2. \A o \in Callers \ {w} : arrived'[o] = arrived[o] /\ sent'[o] = sent[o]
  BY DEF CopyIn, Write, IInv, TypeOK
<1>3. \/ far[w] = "splicing"
      \/ arrived'[w]["there"] = arrived[w]["there"] /\ sent'[w]["back"] = sent[w]["back"]
  <2>1. CASE CopyIn(w, d)
    <3>1. d = "there" => "far_in" \in copying[w]
      BY <2>1 DEF CopyIn, Second
    <3>2. d # "there" => arrived'[w]["there"] = arrived[w]["there"]
      BY <2>1 DEF CopyIn, IInv, TypeOK, Counts, Directions
    <3>3. sent' = sent
      BY <2>1 DEF CopyIn
    <3> QED
      BY <3>1, <3>2, <3>3 DEF FlowInv, NoServiceUndialled
  <2>2. CASE Write(w, d)
    <3>1. d = "back" => far[w] = "splicing"
      BY <2>2 DEF Write, Connected
    <3>2. d # "back" => sent'[w]["back"] = sent[w]["back"]
      BY <2>2 DEF Write, IInv, TypeOK, Counts, Directions
    <3>3. arrived' = arrived
      BY <2>2 DEF Write
    <3> QED
      BY <3>1, <3>2, <3>3
  <2> QED
    BY <2>1, <2>2
<1> QED
  BY <1>1, <1>2, <1>3 DEF FlowInv, PolicyHolds, NoServiceUndialled, StreamsAreClosed, DialAllowed

LEMMA FlowStep == IInv /\ FlowInv /\ [ForwardNext]_allVars => FlowInv'
<1> SUFFICES ASSUME IInv, FlowInv, [ForwardNext]_allVars PROVE FlowInv'
  OBVIOUS
<1>1. CASE UNCHANGED allVars
  BY <1>1, FlowStays DEF allVars
<1>2. ASSUME NEW l \in Links, Connect(l) \/ LinkDies(l) PROVE FlowInv'
  BY <1>2, FlowStays DEF Connect, LinkDies
<1>3. CASE Withdraw /\ UNCHANGED forwardVars
  BY <1>3, FlowStays
<1>4. ASSUME NEW w \in Callers,
             (Answer(w) /\ UNCHANGED forwardVars) \/ AcceptTimesOut(w) \/ NearDone(w)
      PROVE  FlowInv'
  BY <1>4, FlowStays DEF AcceptTimesOut, NearDone
<1>5. ASSUME NEW w \in Callers, (\E t \in Targets : Accept(w, t)) \/ Open(w) PROVE FlowInv'
  BY <1>5, FlowAccept, FlowOpen
<1>6. ASSUME NEW w \in Callers,
             HostAccepts(w) \/ HostDials(w) \/ HostRefuses(w) \/ FarDone(w)
      PROVE  FlowInv'
  BY <1>6, FlowHost
<1>7. ASSUME NEW w \in Callers, NEW d \in Directions, Copy(w, d) PROVE FlowInv'
  <2>1. First(d) \in Loops /\ Second(d) \in Loops /\ Second(d) # "near_out"
        /\ (First(d) = "near_out" => d = "there")
    BY DEF First, Second, Loops, Directions
  <2>2. CASE CopyOut(w, d)
    BY <2>2, FlowStays DEF CopyOut
  <2>3. CASE CopyOutEnds(w, d) \/ CopyOutFails(w, d)
    <3>1. /\ fin' = [fin EXCEPT ![w] = @ \cup {d}] /\ Stops(w, First(d))
          /\ UNCHANGED <<target, lane, far, arrived, sent>>
      BY <2>3 DEF CopyOutEnds, CopyOutFails
    <3>2. d \in fin'[w] /\ \A o \in Callers : fin[o] \subseteq fin'[o]
      BY <3>1 DEF IInv, TypeOK
    <3> QED
      BY <2>1, <3>1, <3>2, FlowStops
  <2>4. CASE CopyIn(w, d)
    BY <2>4, FlowData
  <2>5. CASE CopyInEnds(w, d) \/ CopyInFails(w, d)
    <3>1. Stops(w, Second(d)) /\ UNCHANGED <<target, lane, far, arrived, sent, fin>>
      BY <2>5 DEF CopyInEnds, CopyInFails
    <3> QED
      BY <2>1, <3>1, FlowStops
  <2> QED
    BY <1>7, <2>2, <2>3, <2>4, <2>5 DEF Copy
<1>8. ASSUME NEW w \in Callers, NEW d \in Directions, Ending(w, d) PROVE FlowInv'
  <2>1. CASE Write(w, d)
    BY <2>1, FlowData
  <2>2. CASE Shut(w, d) \/ Leave(w, d)
    BY <2>2, FlowStays DEF Shut, Leave
  <2> QED
    BY <1>8, <2>1, <2>2 DEF Ending
<1> QED
  BY <1>1, <1>2, <1>3, <1>4, <1>5, <1>6, <1>7, <1>8 DEF ForwardNext

\* A direction whose second loop runs, and whose first does not, has its stream
\* closed behind it, or there is no handler yet at the other peer.
LEMMA ReaderIsServed ==
  ASSUME IInv, FlowInv, NEW w \in Callers, NEW d \in Directions, Alive(w),
         Second(d) \in copying[w], First(d) \notin copying[w],
         near[w] = "splicing" \/ far[w] = "splicing"
  PROVE  d \in fin[w] \/ HandlerCanGo(w)
<1>1. lane[w] # None
  BY NoneAssumption DEF Alive, IInv, TypeOK
<1>2. CASE d = "there"
  BY <1>1, <1>2 DEF First, FlowInv, StreamsAreClosed
<1>3. CASE d = "back"
  <2>1. "far_out" \notin copying[w]
    BY <1>3 DEF First
  <2>2. far[w] \in {"none", "dialing", "splicing", "refused", "returned"}
    BY DEF IInv, TypeOK
  <2>3. far[w] \in {"splicing", "refused", "returned"} => "back" \in fin[w]
    BY <2>1 DEF IInv, LoopsCloseBehindThem, FlowInv, StreamsAreClosed
  <2> QED
    BY <1>3, <2>2, <2>3 DEF HandlerCanGo
<1> QED
  BY <1>2, <1>3 DEF Directions

LEMMA WaitsForOthers ==
  ASSUME IInv, FlowInv PROVE NeverWaitsForItself
<1> SUFFICES ASSUME NEW w \in Callers, near[w] = "splicing" \/ far[w] = "splicing",
                    ~HandlerCanGo(w), \A d \in Directions : ~OutCanGo(w, d) /\ ~InCanGo(w, d)
             PROVE  \E d \in Directions :
                      \/ First(d) \in copying[w] /\ moved[w][d] = sent[w][d] /\ d \notin ended[w]
                      \/ First(d) \in copying[w] /\ Blocked(w, d)
  BY DEF NeverWaitsForItself
<1>1. PICK d \in Directions : First(d) \in copying[w] \/ Second(d) \in copying[w]
  <2>1. PICK loop \in copying[w] : loop \in Loops
    BY DEF HandlerCanGo, IInv, TypeOK, NearLoops, FarLoops, Loops
  <2> QED
    BY <2>1 DEF Loops, First, Second, Directions
<1>2. /\ moved[w][d] \in Nat /\ arrived[w][d] \in Nat /\ sent[w][d] \in Nat
      /\ arrived[w][d] <= moved[w][d] /\ moved[w][d] <= sent[w][d]
  BY DEF IInv, TypeOK, Counts
<1>3. Window \in Nat /\ Window # 0
  BY DataAssumption
<1>4. ASSUME First(d) \in copying[w], moved[w][d] # sent[w][d]
      PROVE  Alive(w) /\ arrived[w][d] < moved[w][d]
  BY <1>2, <1>3, <1>4 DEF OutCanGo
<1>5. CASE First(d) \in copying[w]
  <2>1. CASE moved[w][d] = sent[w][d]
    BY <1>5, <2>1 DEF OutCanGo
  <2>2. CASE moved[w][d] # sent[w][d]
    <3>1. Second(d) \notin copying[w]
      BY <1>4, <1>5, <2>2 DEF InCanGo
    <3>2. Alive(w) /\ moved[w][d] < sent[w][d]
      BY <1>2, <1>4, <1>5, <2>2
    <3> QED
      BY <1>5, <3>1, <3>2 DEF Blocked
  <2> QED
    BY <2>1, <2>2
<1>6. CASE First(d) \notin copying[w]
  BY <1>1, <1>6, ReaderIsServed DEF InCanGo
<1> QED
  BY <1>5, <1>6

\* hostTCP's check of the policy is not outlived by the handler: no service that
\* the whitelist excludes is spoken to, for whatever targets the local
\* connections ask.
THEOREM PolicyIsKept == ForwardSpec => []PolicyHolds
<1>1. FlowInv => PolicyHolds
  BY DEF FlowInv
<1>2. IInv /\ FlowInv /\ [ForwardNext]_allVars => IInv' /\ FlowInv'
  BY IInvStep, FlowStep
<1> QED
  BY InitIInv, InitFlowInv, <1>1, <1>2, PTL DEF ForwardSpec

\* The copy loops of splice at the two peers, and the handlers that wait for them,
\* do not deadlock, for any window.
THEOREM SplicesDoNotDeadlock == ForwardSpec => []NeverWaitsForItself
<1>1. IInv /\ FlowInv => NeverWaitsForItself
  BY WaitsForOthers
<1>2. IInv /\ FlowInv /\ [ForwardNext]_allVars => IInv' /\ FlowInv'
  BY IInvStep, FlowStep
<1> QED
  BY InitIInv, InitFlowInv, <1>1, <1>2, PTL DEF ForwardSpec

-----------------------------------------------------------------------------
(* The connections between the peers.                                      *)

LEMMA CellStep == [ForwardNext]_allVars => [Next]_vars
<1> SUFFICES ASSUME [ForwardNext]_allVars PROVE [Next]_vars
  OBVIOUS
<1>1. CASE UNCHANGED allVars
  BY <1>1 DEF allVars
<1>2. ASSUME NEW l \in Links, Connect(l) \/ LinkDies(l) PROVE [Next]_vars
  BY <1>2 DEF Connect, LinkDies, Next
<1>3. CASE Withdraw /\ UNCHANGED forwardVars
  BY <1>3 DEF Next
<1>4. ASSUME NEW w \in Callers,
             \/ Answer(w) /\ UNCHANGED forwardVars
             \/ \E t \in Targets : Accept(w, t)
             \/ AcceptTimesOut(w)
      PROVE  Next
  BY <1>4 DEF Accept, AcceptTimesOut, Next
<1>5. ASSUME NEW w \in Callers,
             \/ Open(w) \/ HostAccepts(w) \/ HostDials(w) \/ HostRefuses(w)
             \/ NearDone(w) \/ FarDone(w)
      PROVE  UNCHANGED vars
  BY <1>5 DEF Open, HostAccepts, HostDials, HostRefuses, NearDone, FarDone
<1>6. ASSUME NEW w \in Callers, NEW d \in Directions, Copy(w, d) \/ Ending(w, d)
      PROVE  UNCHANGED vars
  BY <1>6 DEF Copy, CopyOut, CopyOutEnds, CopyOutFails, CopyIn, CopyInEnds, CopyInFails,
              Ending, Write, Shut, Leave
<1> QED
  BY <1>1, <1>2, <1>3, <1>4, <1>5, <1>6 DEF ForwardNext

\* The listeners use the connection manager as the cell it is shown to be: a
\* behaviour of forwarded connections, seen from the cell, is one that
\* ManagerImplementsCell accounts for.
THEOREM ForwardUsesCell == ForwardSpec => Spec
<1>1. ForwardInit => Init
  BY DEF ForwardInit
<1> QED
  BY <1>1, CellStep, PTL DEF ForwardSpec, Spec
=============================================================================
