------------------------- MODULE RelaySyncProofs -------------------------
(***************************************************************************)
(* Proofs about RelaySync, for any tree, any editing and any number of     *)
(* interruptions: IInv is inductive, and what a run may touch and what its *)
(* comparison shows follow from it; what its success means needs           *)
(* TimesAreGiven besides.  Last, that a connected pass always has a step to *)
(* take, and fails between compatible ends only if it is cut off.          *)
(***************************************************************************)
EXTENDS RelaySync, WellFoundedInduction, TLAPS

(* The three kinds of nodes are told apart by their kind.                  *)
LEMMA FileFields ==
  ASSUME NEW d, NEW t
  PROVE  /\ File(d, t).kind = "file" /\ File(d, t).data = d /\ File(d, t).time = t
         /\ File(d, t) # Nothing /\ File(d, t) # Directory
  BY DEF File, Nothing, Directory

LEMMA OtherKinds == Nothing.kind # "file" /\ Directory.kind # "file" /\ Nothing # Directory
  BY DEF Nothing, Directory

LEMMA FilesHaveFields ==
  ASSUME NEW f \in Files
  PROVE  f.kind = "file" /\ f.data \in Versions \cup {Partial, Other} /\ f.time \in Versions \cup {Now}
  BY FileFields DEF Files

LEMMA SourceFilesHaveFields ==
  ASSUME NEW f \in SourceFiles
  PROVE  f.kind = "file" /\ f.data \in Versions /\ f.time = f.data
  BY FileFields DEF SourceFiles

LEMMA Numbers ==
  /\ \A v \in Versions : v \in Nat /\ 0 < v /\ v # Other
  /\ Other \in Nat /\ 0 < Other /\ Partial = 0 /\ Now = 0
  BY BoundsAssumption DEF Versions, Other, Partial, Now

(* A node that is not a file is one of the other two.                      *)
LEMMA DstNodes ==
  ASSUME TypeOK, NEW p \in Paths
  PROVE  /\ IsFile(dst, p) <=> dst[p] \in Files
         /\ ~IsFile(dst, p) <=> dst[p] \in {Nothing, Directory}
         /\ IsFile(dst, p) => /\ dst[p].data \in Versions \cup {Partial, Other}
                              /\ dst[p].time \in Versions \cup {Now}
  BY FilesHaveFields, OtherKinds DEF TypeOK, IsFile

LEMMA SrcNodes ==
  ASSUME TypeOK, NEW p \in Paths
  PROVE  /\ IsFile(src, p) <=> src[p] \in SourceFiles
         /\ IsFile(src, p) => src[p].data \in Versions /\ src[p].time = src[p].data
  BY SourceFilesHaveFields, OtherKinds DEF TypeOK, IsFile

LEMMA FileInFiles ==
  ASSUME NEW d \in Versions \cup {Partial, Other}, NEW t \in Versions \cup {Now}
  PROVE  File(d, t) \in Files
  BY DEF Files

LEMMA ManifestFacts ==
  ASSUME TypeOK
  PROVE  /\ Manifest \in [Paths -> Versions \cup {0}]
         /\ \A p \in Paths : Manifest[p] # 0 => IsFile(src, p) /\ Manifest[p] = src[p].time
  BY SrcNodes, Numbers DEF Manifest, Listed

-----------------------------------------------------------------------------
(* IInv holds initially, and every action preserves it.                    *)

LEMMA InitIInv == Init => IInv
<1> SUFFICES ASSUME Init PROVE IInv
  OBVIOUS
<1>1. TypeOK
  <2>1. File(1, 1) \in SourceFiles /\ File(1, 1) \in Files /\ File(Other, Now) \in Files
    BY BoundsAssumption, FileInFiles DEF SourceFiles, Versions
  <2>2. src \in [Paths -> SourceFiles \cup {Nothing, Directory}]
    BY <2>1 DEF Init
  <2>3. dst \in [Paths -> Files \cup {Nothing, Directory}]
    BY <2>1 DEF Init
  <2> QED
    BY <2>2, <2>3, BoundsAssumption DEF Init, TypeOK, Stages
<1>2. \A p \in Paths : dst[p] = File(1, 1) \/ dst[p] = File(Other, Now) \/ ~IsFile(dst, p)
  BY OtherKinds DEF Init, IsFile
<1>3. TimesAreTrue
  <2> SUFFICES ASSUME NEW p \in Paths, IsFile(src, p), IsFile(dst, p)
               PROVE  dst[p].data = dst[p].time \/ dst[p].time < src[p].time
    BY DEF TimesAreTrue
  <2>1. 0 < src[p].time
    BY <1>1, SrcNodes, Numbers
  <2>2. CASE dst[p] = File(1, 1)
    BY <2>2, FileFields
  <2>3. CASE dst[p] = File(Other, Now)
    BY <2>1, <2>3, FileFields, Numbers
  <2> QED
    BY <1>2, <2>2, <2>3
<1> QED
  BY <1>1, <1>3 DEF Init, IInv, WantIsPast, CopyIsFair, PlanIsKept, Working

(* Steps that leave both trees, the plan and the copy alone.               *)
LEMMA QuietStep ==
  ASSUME IInv, UNCHANGED <<options, src, dst, plan, transfer>>,
         stage' \in Stages \ {"opened", "halfway", "filled", "planned"},
         stage' = "done" => stage \in Working /\ copies = {} /\ deletes = {},
         faults' \in 0..MaxFaults
  PROVE  IInv'
<1>1. TypeOK'
  BY DEF IInv, TypeOK, options, plan, transfer
<1>2. Rooted(dst)' /\ TimesAreTrue' /\ WantIsPast'
  BY DEF IInv, Rooted, TimesAreTrue, WantIsPast, plan, IsFile
<1>3. CopyIsFair'
  BY DEF CopyIsFair, Stages
<1>4. PlanIsKept'
  <2>1. CASE stage' = "done"
    BY <2>1 DEF IInv, PlanIsKept, Working, options, plan, IsFile
  <2>2. CASE stage' # "done"
    BY <2>2 DEF PlanIsKept, Working
  <2> QED
    BY <2>1, <2>2
<1> QED
  BY <1>1, <1>2, <1>3, <1>4 DEF IInv

LEMMA ScanSourceStep == IInv /\ ScanSource => IInv'
<1> SUFFICES ASSUME IInv, ScanSource, Readable(src) PROVE IInv'
  BY QuietStep DEF ScanSource, Stages, IInv, TypeOK, plan
<1>1. TypeOK'
  BY ManifestFacts DEF IInv, ScanSource, TypeOK, Stages, options, transfer
<1>2. WantIsPast'
  <2> SUFFICES ASSUME NEW p \in Paths, want'[p] # 0
               PROVE  IsFile(src', p) /\ want'[p] <= src'[p].time
    BY DEF WantIsPast
  <2> QED
    <3>1. src' = src /\ want' = Manifest /\ TypeOK
      BY DEF IInv, ScanSource
    <3>2. IsFile(src, p) /\ want'[p] = src[p].time
      BY <3>1, ManifestFacts
    <3>3. src[p].time \in Nat
      BY <3>1, <3>2, SrcNodes, Numbers
    <3> QED
      BY <3>1, <3>2, <3>3
<1> QED
  BY <1>1, <1>2 DEF IInv, ScanSource, Rooted, TimesAreTrue, CopyIsFair, PlanIsKept, Working, IsFile

LEMMA PlanStep == IInv /\ Plan => IInv'
<1> SUFFICES ASSUME IInv, Plan, Readable(dst) PROVE IInv'
  BY QuietStep DEF Plan, Stages, IInv, TypeOK, plan
<1>1. TypeOK'
  BY DEF IInv, Plan, TypeOK, Stages, options, transfer, ToCopy, ToDelete, Listed
<1>2. PlanIsKept'
  <2>1. \A p \in Paths \ ToCopy : want[p] # 0 =>
          IsFile(dst, p) /\ dst[p].data # Partial /\ dst[p].time = want[p]
    BY DEF ToCopy, Same, Listed
  <2>2. \A p \in Paths \ ToCopy : want[p] # 0 =>
          dst[p].data = want[p] \/ want[p] < src[p].time
    BY <2>1 DEF IInv, TimesAreTrue, WantIsPast
  <2>3. \A p \in ToDelete : del /\ p \in Listed(dst) /\ want[p] = 0 /\ IsFile(dst, p)
    BY DEF ToDelete, Listed
  <2>4. \A p \in Listed(dst) \ ToDelete : ~(del /\ want[p] = 0)
    BY DEF ToDelete
  <2>5. \A p \in ToCopy : want[p] # 0
    BY DEF ToCopy
  <2>6. stage' = "done" => dry
    BY DEF Plan
  <2>7. stage' \in Working => ~dry
    BY DEF Plan, Working
  <2> QED
    BY <2>1, <2>2, <2>3, <2>4, <2>5, <2>6, <2>7 DEF Plan, PlanIsKept, Working, options, IsFile
<1>3. stage' \notin {"opened", "halfway", "filled"}
  BY DEF Plan
<1> QED
  BY <1>1, <1>2, <1>3 DEF IInv, Plan, Rooted, TimesAreTrue, WantIsPast, CopyIsFair, IsFile

(* What opening a file does to the destination: the file is there and      *)
(* empty, the directories it is in are there, and the rest is as before.   *)
LEMMA OpenedFacts ==
  ASSUME TypeOK, Rooted(dst), NEW p \in Paths, ~Blocked(p)
  PROVE  /\ Opened(p) \in [Paths -> Files \cup {Nothing, Directory}]
         /\ Rooted(Opened(p))
         /\ Opened(p)[p] = File(Partial, Now)
         /\ \A q \in Paths \ {p} : Opened(p)[q] = dst[q]
                                   \/ (dst[q] = Nothing /\ Opened(p)[q] = Directory)
<1>1. Opened(p)[p] = File(Partial, Now)
  BY DEF Opened
<1>2. \A q \in Paths \ {p} : Opened(p)[q] = dst[q]
                             \/ (dst[q] = Nothing /\ Opened(p)[q] = Directory)
  BY DEF Opened
<1>3. Opened(p) \in [Paths -> Files \cup {Nothing, Directory}]
  BY FileInFiles DEF Opened, TypeOK
<1>4. \A q \in Above[p] : q \in Paths /\ Opened(p)[q] = Directory
  <2> SUFFICES ASSUME NEW q \in Above[p] PROVE q \in Paths /\ Opened(p)[q] = Directory
    OBVIOUS
  <2>1. q \in Paths /\ q # p
    BY PathsAssumption
  <2>2. dst[q] = Nothing \/ dst[q] = Directory
    BY <2>1, DstNodes DEF Blocked
  <2> QED
    BY <2>1, <2>2 DEF Opened
<1>5. Rooted(Opened(p))
  <2> SUFFICES ASSUME NEW s \in Paths, Opened(p)[s] # Nothing, NEW r \in Above[s]
               PROVE  Opened(p)[r] = Directory
    BY DEF Rooted
  <2>0. r \in Paths
    BY PathsAssumption
  <2>1. CASE s = p \/ s \in Above[p]
    <3>1. r \in Above[p]
      BY <2>1, PathsAssumption
    <3> QED
      BY <3>1, <1>4
  <2>2. CASE ~(s = p \/ s \in Above[p])
    <3>1. dst[s] # Nothing
      BY <2>2 DEF Opened
    <3>2. dst[r] = Directory
      BY <3>1 DEF Rooted
    <3>3. r # p
      BY <3>2 DEF Blocked
    <3> QED
      BY <2>0, <3>2, <3>3, <1>2, OtherKinds
  <2> QED
    BY <2>1, <2>2
<1> QED
  BY <1>1, <1>2, <1>3, <1>5

(* Only one path is being copied.                                          *)
LEMMA OneCopy ==
  ASSUME TypeOK, NEW p \in Paths, NEW q \in Paths, Copying(p), Copying(q)
  PROVE  p = q
  BY PathsAssumption DEF Copying, FirstOf, TypeOK

LEMMA OpenStep == ASSUME NEW p \in Paths PROVE IInv /\ Open(p) => IInv'
<1> SUFFICES ASSUME IInv, Open(p) PROVE IInv'
  OBVIOUS
<1>1. CASE Blocked(p)
  <2>1. UNCHANGED <<options, src, dst, plan, transfer>> /\ stage' = "failed" /\ faults' = faults
    BY <1>1 DEF Open, transfer
  <2> QED
    BY <2>1, QuietStep DEF IInv, TypeOK, Stages
<1>2. CASE ~Blocked(p)
  <2>1. /\ stage = "planned" /\ stage' = "opened" /\ Copying(p)
        /\ dst' = Opened(p) /\ stamp' = StampOf(p) /\ UNCHANGED <<options, src, plan, half, faults>>
    BY <1>2 DEF Open
  <2>2. /\ dst' \in [Paths -> Files \cup {Nothing, Directory}] /\ Rooted(dst)'
        /\ dst'[p] = File(Partial, Now)
        /\ \A q \in Paths \ {p} : dst'[q] = dst[q] \/ (dst[q] = Nothing /\ dst'[q] = Directory)
    BY <1>2, <2>1, OpenedFacts DEF IInv, Rooted
  <2>3. p \in copies /\ want[p] # 0 /\ IsFile(src, p) /\ want[p] <= src[p].time
    BY <2>1 DEF IInv, PlanIsKept, Working, WantIsPast, Copying, FirstOf
  <2>4. want[p] <= stamp' /\ stamp' <= src[p].time /\ stamp' \in Versions
    <3>1. src[p].time \in Versions /\ want[p] \in Versions
      BY <2>3, SrcNodes DEF IInv, TypeOK
    <3>2. src[p].time \in Nat /\ want[p] \in Nat
      BY <3>1, Numbers
    <3> QED
      BY <2>1, <2>3, <3>1, <3>2 DEF StampOf
  <2>5. TypeOK'
    BY <2>1, <2>2, <2>4 DEF IInv, TypeOK, Stages, options, plan
  <2>6. \A q \in Paths : IsFile(dst', q) => q = p \/ (IsFile(dst, q) /\ dst'[q] = dst[q])
    BY <2>2, OtherKinds DEF IsFile
  <2>7. IsFile(dst', p) /\ dst'[p].data = Partial
    BY <2>2, FileFields DEF IsFile
  <2>8. TimesAreTrue'
    BY <2>1, <2>6, <2>7 DEF IInv, TimesAreTrue, IsFile
  <2>9. CopyIsFair'
    <3> SUFFICES ASSUME NEW q \in Paths, Copying(q)'
                 PROVE  IsFile(dst', q) /\ want'[q] <= stamp' /\ stamp' <= src'[q].time
      BY <2>1 DEF CopyIsFair
    <3>1. Copying(q)
      BY <2>1 DEF Copying, FirstOf, plan
    <3>2. q = p
      BY <2>1, <3>1, OneCopy DEF IInv
    <3> QED
      BY <2>1, <2>4, <2>7, <3>2 DEF plan
  <2>10. \A q \in Paths \ {p} : IsFile(dst, q) \/ dst[q] = Directory => dst'[q] = dst[q]
    BY <2>2, OtherKinds DEF IsFile
  <2>11. copies' # {} /\ p \notin deletes
    BY <2>1, <2>3 DEF IInv, PlanIsKept, Working, plan
  <2>12. PlanIsKept'
    BY <2>1, <2>3, <2>10, <2>11 DEF IInv, TypeOK, PlanIsKept, Working, options, plan, IsFile
  <2> QED
    BY <2>1, <2>2, <2>5, <2>8, <2>9, <2>12 DEF IInv, WantIsPast, plan, IsFile
<1> QED
  BY <1>1, <1>2

LEMMA CopyHalfStep == ASSUME NEW p \in Paths PROVE IInv /\ CopyHalf(p) => IInv'
<1> SUFFICES ASSUME IInv, CopyHalf(p) PROVE IInv'
  OBVIOUS
<1>1. /\ stage = "opened" /\ stage' = "halfway" /\ Copying(p) /\ half' = src[p].data
      /\ UNCHANGED <<options, src, dst, plan, stamp, faults>>
  BY DEF CopyHalf
<1>2. want[p] # 0 /\ IsFile(src, p) /\ IsFile(dst, p) /\ want[p] <= stamp /\ stamp <= src[p].time
  BY <1>1 DEF IInv, CopyIsFair, PlanIsKept, Working, WantIsPast, Copying, FirstOf
<1>3. src[p].data \in Versions /\ src[p].time = src[p].data
  BY <1>2, SrcNodes DEF IInv
<1>4. TypeOK'
  BY <1>1, <1>3 DEF IInv, TypeOK, Stages, options, plan
<1>5. CopyIsFair'
  <2> SUFFICES ASSUME NEW q \in Paths, Copying(q)'
               PROVE  /\ IsFile(dst', q) /\ want'[q] <= stamp' /\ stamp' <= src'[q].time
                      /\ stamp' <= half' /\ half' <= src'[q].data
    BY <1>1 DEF CopyIsFair
  <2>1. Copying(q)
    BY <1>1 DEF Copying, FirstOf, plan
  <2>2. q = p
    BY <1>1, <2>1, OneCopy DEF IInv
  <2> QED
    <3>1. src[p].data \in Nat
      BY <1>3, Numbers
    <3> QED
      BY <1>1, <1>2, <1>3, <2>2, <3>1 DEF plan, IsFile
<1>6. PlanIsKept'
  BY <1>1 DEF IInv, PlanIsKept, Working, options, plan, IsFile
<1> QED
  BY <1>1, <1>4, <1>5, <1>6 DEF IInv, Rooted, TimesAreTrue, WantIsPast, plan, IsFile

(* Steps that write the file being copied and nothing else of the tree.    *)
LEMMA WriteFacts ==
  ASSUME TypeOK, Rooted(dst), NEW p \in Paths, IsFile(dst, p), NEW f \in Files
  PROVE  /\ [dst EXCEPT ![p] = f] \in [Paths -> Files \cup {Nothing, Directory}]
         /\ Rooted([dst EXCEPT ![p] = f])
<1>1. dst \in [Paths -> Files \cup {Nothing, Directory}]
  BY DEF TypeOK
<1>2. dst[p] # Nothing /\ dst[p] # Directory
  BY DstNodes, OtherKinds DEF IsFile
<1>3. Rooted([dst EXCEPT ![p] = f])
  <2> SUFFICES ASSUME NEW s \in Paths, [dst EXCEPT ![p] = f][s] # Nothing, NEW r \in Above[s]
               PROVE  [dst EXCEPT ![p] = f][r] = Directory
    BY DEF Rooted
  <2>1. dst[s] # Nothing /\ r \in Paths
    BY <1>1, <1>2, PathsAssumption
  <2>2. dst[r] = Directory
    BY <2>1 DEF Rooted
  <2> QED
    BY <1>1, <1>2, <2>1, <2>2
<1> QED
  BY <1>1, <1>3

LEMMA CopyRestStep == ASSUME NEW p \in Paths PROVE IInv /\ CopyRest(p) => IInv'
<1> SUFFICES ASSUME IInv, CopyRest(p) PROVE IInv'
  OBVIOUS
<1> DEFINE d == IF half = src[p].data THEN half ELSE Other
<1>1. /\ stage = "halfway" /\ stage' = "filled" /\ Copying(p)
      /\ dst' = [dst EXCEPT ![p] = File(d, Now)]
      /\ UNCHANGED <<options, src, plan, transfer, faults>>
  BY DEF CopyRest
<1>2. /\ p \in copies /\ want[p] # 0 /\ IsFile(src, p) /\ IsFile(dst, p)
      /\ want[p] <= stamp /\ stamp <= half /\ half <= src[p].data
  BY <1>1 DEF IInv, CopyIsFair, PlanIsKept, Working, WantIsPast, Copying, FirstOf
<1>3. src[p].data \in Versions /\ src[p].time = src[p].data
  BY <1>2, SrcNodes DEF IInv
<1>4. d \in Versions \cup {Partial, Other} /\ d # Partial /\ (d = stamp \/ stamp < src[p].time)
  <2>1. stamp \in Nat /\ half \in Nat /\ src[p].data \in Nat /\ 0 < src[p].data
    BY <1>3, Numbers DEF IInv, TypeOK
  <2>2. CASE half = src[p].data
    BY <1>2, <1>3, <2>1, <2>2, Numbers
  <2>3. CASE half # src[p].data
    BY <1>2, <1>3, <2>1, <2>3, Numbers
  <2> QED
    BY <2>2, <2>3
<1>5. File(d, Now) \in Files
  BY <1>4, FileInFiles
<1>6. dst' \in [Paths -> Files \cup {Nothing, Directory}] /\ Rooted(dst)'
  BY <1>1, <1>2, <1>5, WriteFacts DEF IInv, Rooted
<1>7. /\ dst'[p] = File(d, Now) /\ \A q \in Paths \ {p} : dst'[q] = dst[q]
  BY <1>1 DEF IInv, TypeOK
<1> HIDE DEF d
<1>8. IsFile(dst', p) /\ dst'[p].data = d /\ dst'[p].time = Now
  BY <1>7, FileFields DEF IsFile
<1>9. TypeOK'
  BY <1>1, <1>6 DEF IInv, TypeOK, Stages, options, plan, transfer
<1>10. TimesAreTrue'
  <2>1. Now < src[p].time
    BY <1>3, Numbers
  <2> QED
    BY <1>1, <1>7, <1>8, <2>1 DEF IInv, TimesAreTrue, IsFile
<1>11. CopyIsFair'
  <2> SUFFICES ASSUME NEW q \in Paths, Copying(q)'
               PROVE  /\ IsFile(dst', q) /\ want'[q] <= stamp' /\ stamp' <= src'[q].time
                      /\ dst'[q].data # Partial
                      /\ dst'[q].data = stamp' \/ stamp' < src'[q].time
    BY <1>1 DEF CopyIsFair
  <2>1. Copying(q)
    BY <1>1 DEF Copying, FirstOf, plan
  <2>2. q = p
    BY <1>1, <2>1, OneCopy DEF IInv
  <2>3. stamp <= src[p].time
    <3>1. stamp \in Nat /\ half \in Nat /\ src[p].data \in Nat
      BY <1>3, Numbers DEF IInv, TypeOK
    <3> QED
      BY <1>2, <1>3, <3>1
  <2> QED
    BY <1>1, <1>2, <1>4, <1>8, <2>2, <2>3 DEF plan, transfer
<1>12. PlanIsKept'
  <2>1. p \notin deletes /\ copies' # {}
    BY <1>1, <1>2 DEF IInv, PlanIsKept, Working, plan
  <2> QED
    BY <1>1, <1>2, <1>7, <2>1 DEF IInv, TypeOK, PlanIsKept, Working, options, plan, IsFile
<1> QED
  BY <1>1, <1>6, <1>9, <1>10, <1>11, <1>12 DEF IInv, WantIsPast, plan, IsFile

LEMMA StampStep == ASSUME NEW p \in Paths PROVE IInv /\ Stamp(p) => IInv'
<1> SUFFICES ASSUME IInv, Stamp(p) PROVE IInv'
  OBVIOUS
<1>1. /\ stage = "filled" /\ stage' = "planned" /\ Copying(p) /\ copies' = copies \ {p}
      /\ UNCHANGED <<options, src, want, have, deletes, transfer>> /\ faults' \in 0..MaxFaults
  BY BoundsAssumption DEF IInv, TypeOK, Stamp
<1>2. /\ p \in copies /\ want[p] # 0 /\ IsFile(src, p) /\ IsFile(dst, p)
      /\ want[p] <= stamp /\ stamp <= src[p].time /\ dst[p].data # Partial
      /\ dst[p].data = stamp \/ stamp < src[p].time
  BY <1>1 DEF IInv, CopyIsFair, PlanIsKept, Working, WantIsPast, Copying, FirstOf
<1>3. /\ src[p].data \in Versions /\ src[p].time = src[p].data
      /\ dst[p].data \in Versions \cup {Partial, Other} /\ stamp \in Versions \cup {0}
      /\ want[p] \in Versions
  BY <1>2, SrcNodes, DstNodes DEF IInv, TypeOK
<1>4. File(dst[p].data, stamp) \in Files
  BY <1>3, FileInFiles, Numbers
<1>5. dst' = [dst EXCEPT ![p] = File(dst[p].data, stamp)]
  BY DEF Stamp
<1>6. dst' \in [Paths -> Files \cup {Nothing, Directory}] /\ Rooted(dst)'
  BY <1>2, <1>4, <1>5, WriteFacts DEF IInv, Rooted
<1>7. dst'[p] = File(dst[p].data, stamp) /\ \A q \in Paths \ {p} : dst'[q] = dst[q]
  BY <1>5 DEF IInv, TypeOK
<1>8. IsFile(dst', p) /\ dst'[p].data = dst[p].data /\ dst'[p].time = stamp
  BY <1>7, FileFields DEF IsFile
<1>9. TimesAreTrue'
  BY <1>1, <1>2, <1>7, <1>8 DEF IInv, TimesAreTrue, IsFile
<1>10. dst[p].data = want[p] \/ want[p] < src[p].time
  <2>1. stamp \in Nat /\ want[p] \in Nat /\ src[p].time \in Nat
    BY <1>3, Numbers
  <2> QED
    BY <1>2, <2>1
<1>11. TypeOK'
  BY <1>1, <1>6 DEF IInv, TypeOK, Stages, options, transfer
<1>12. p \notin deletes /\ copies # {}
  BY <1>1, <1>2 DEF IInv, PlanIsKept, Working
<1>13. PlanIsKept'
  BY <1>1, <1>2, <1>7, <1>8, <1>10, <1>12 DEF IInv, TypeOK, PlanIsKept, Working, options, IsFile
<1> QED
  BY <1>1, <1>6, <1>9, <1>11, <1>13 DEF IInv, WantIsPast, CopyIsFair, IsFile

LEMMA StampFailsStep == ASSUME NEW p \in Paths PROVE IInv /\ StampFails(p) => IInv'
<1> SUFFICES ASSUME IInv, StampFails(p) PROVE IInv'
  OBVIOUS
<1>1. /\ stage = "filled" /\ stage' = "planned" /\ Copying(p) /\ copies' = copies \ {p}
      /\ UNCHANGED <<options, src, want, have, deletes, transfer>> /\ faults' \in 0..MaxFaults
  BY BoundsAssumption DEF IInv, TypeOK, StampFails
<1>2. /\ p \in copies /\ want[p] # 0 /\ IsFile(src, p) /\ IsFile(dst, p)
      /\ want[p] <= stamp /\ stamp <= src[p].time /\ dst[p].data # Partial
      /\ dst[p].data = stamp \/ stamp < src[p].time
  BY <1>1 DEF IInv, CopyIsFair, PlanIsKept, Working, WantIsPast, Copying, FirstOf
<1>3. /\ src[p].data \in Versions /\ src[p].time = src[p].data
      /\ dst[p].data \in Versions \cup {Partial, Other} /\ stamp \in Versions \cup {0}
      /\ want[p] \in Versions
  BY <1>2, SrcNodes, DstNodes DEF IInv, TypeOK
<1>6. dst' \in [Paths -> Files \cup {Nothing, Directory}] /\ Rooted(dst)' /\ dst' = dst
  BY DEF IInv, TypeOK, Rooted, StampFails
<1>7. \A q \in Paths : dst'[q] = dst[q]
  BY <1>6
<1>8. IsFile(dst', p) /\ dst'[p].data = dst[p].data
  BY <1>2, <1>6
<1>9. TimesAreTrue'
  BY <1>1, <1>6 DEF IInv, TimesAreTrue, IsFile
<1>10. dst[p].data = want[p] \/ want[p] < src[p].time
  <2>1. stamp \in Nat /\ want[p] \in Nat /\ src[p].time \in Nat
    BY <1>3, Numbers
  <2> QED
    BY <1>2, <2>1
<1>11. TypeOK'
  BY <1>1, <1>6 DEF IInv, TypeOK, Stages, options, transfer
<1>12. p \notin deletes /\ copies # {}
  BY <1>1, <1>2 DEF IInv, PlanIsKept, Working
<1>13. PlanIsKept'
  BY <1>1, <1>2, <1>7, <1>8, <1>10, <1>12 DEF IInv, TypeOK, PlanIsKept, Working, options, IsFile
<1> QED
  BY <1>1, <1>6, <1>9, <1>11, <1>13 DEF IInv, WantIsPast, CopyIsFair, IsFile

(* Removing a file removes nothing else, for nothing is below a file.      *)
LEMMA DeleteFacts ==
  ASSUME IInv, NEW p \in Paths, Delete(p)
  PROVE  /\ stage = "planned" /\ stage' = "planned" /\ copies = {} /\ p \in deletes
         /\ del /\ ~dry /\ p \in have /\ want[p] = 0 /\ IsFile(dst, p)
         /\ dst' = [dst EXCEPT ![p] = Nothing]
<1>1. stage = "planned" /\ stage' = "planned" /\ copies = {} /\ p \in deletes
  BY DEF Delete, Deleting, FirstOf
<1>2. del /\ ~dry /\ p \in have /\ want[p] = 0 /\ IsFile(dst, p)
  BY <1>1 DEF IInv, PlanIsKept, Working
<1>3. \A q \in Paths : p \in Above[q] => dst[q] = Nothing
  BY <1>2, OtherKinds DEF IInv, Rooted, IsFile
<1>4. dst' = [q \in Paths |-> IF q = p THEN Nothing ELSE dst[q]]
  BY <1>3 DEF Delete
<1> QED
  BY <1>1, <1>2, <1>4 DEF IInv, TypeOK

LEMMA DeleteStep == ASSUME NEW p \in Paths PROVE IInv /\ Delete(p) => IInv'
<1> SUFFICES ASSUME IInv, Delete(p) PROVE IInv'
  OBVIOUS
<1>1. /\ stage = "planned" /\ stage' = "planned" /\ copies = {} /\ p \in deletes
      /\ del /\ ~dry /\ p \in have /\ want[p] = 0 /\ IsFile(dst, p)
      /\ dst' = [dst EXCEPT ![p] = Nothing]
  BY DeleteFacts
<1>2. deletes' = deletes \ {p} /\ UNCHANGED <<options, src, want, have, copies, transfer, faults>>
  BY DEF Delete
<1>3. dst'[p] = Nothing /\ \A q \in Paths \ {p} : dst'[q] = dst[q]
  BY <1>1 DEF IInv, TypeOK
<1>4. TypeOK'
  BY <1>1, <1>2 DEF IInv, TypeOK, Stages, options, transfer
<1>5. Rooted(dst)'
  <2> SUFFICES ASSUME NEW s \in Paths, dst'[s] # Nothing, NEW r \in Above[s]
               PROVE  dst'[r] = Directory
    BY DEF Rooted
  <2>1. dst[s] # Nothing /\ r \in Paths
    BY <1>3, PathsAssumption
  <2>2. dst[r] = Directory
    BY <2>1 DEF IInv, Rooted
  <2>3. r # p
    BY <1>1, <2>2, OtherKinds DEF IsFile
  <2> QED
    BY <1>3, <2>1, <2>2, <2>3
<1>6. \A q \in Paths : IsFile(dst', q) => q # p /\ dst'[q] = dst[q] /\ IsFile(dst, q)
  BY <1>3, OtherKinds DEF IsFile
<1>7. TimesAreTrue'
  BY <1>2, <1>6 DEF IInv, TimesAreTrue, IsFile
<1>8. PlanIsKept'
  BY <1>1, <1>2, <1>3 DEF IInv, TypeOK, PlanIsKept, Working, options, IsFile
<1> QED
  BY <1>1, <1>2, <1>4, <1>5, <1>7, <1>8 DEF IInv, WantIsPast, CopyIsFair, IsFile

LEMMA EditStep == ASSUME NEW p \in Paths PROVE IInv /\ Edit(p) => IInv'
<1> SUFFICES ASSUME IInv, Edit(p) PROVE IInv'
  OBVIOUS
<1>1. src[p].data \in Versions /\ src[p].time = src[p].data
  BY SrcNodes DEF IInv, Edit
<1> DEFINE v == src[p].data + 1
<1>2. v \in Versions /\ src[p].time + 1 = v
  BY <1>1, BoundsAssumption DEF Edit, Versions
<1>3. /\ src' = [src EXCEPT ![p] = File(v, v)]
      /\ UNCHANGED <<options, dst, stage, plan, transfer, faults>>
  BY <1>2 DEF Edit
<1> HIDE DEF v
<1>4. File(v, v) \in SourceFiles
  BY <1>2 DEF SourceFiles
<1>5. src'[p] = File(v, v) /\ \A q \in Paths \ {p} : src'[q] = src[q]
  BY <1>3 DEF IInv, TypeOK
<1>6. IsFile(src', p) /\ src'[p].data = v /\ src'[p].time = v /\ IsFile(src, p)
  BY <1>5, FileFields DEF IsFile, Edit
<1>7. TypeOK'
  BY <1>3, <1>4 DEF IInv, TypeOK, options, plan, transfer
<1>8. \A q \in Paths : (IsFile(src', q) <=> IsFile(src, q))
                       /\ (IsFile(src, q) => /\ src[q].time \in Nat /\ src'[q].time \in Nat
                                             /\ src[q].time <= src'[q].time
                                             /\ src[q].data = src[q].time
                                             /\ src'[q].data = src'[q].time)
  <2> SUFFICES ASSUME NEW q \in Paths
               PROVE  /\ IsFile(src', q) <=> IsFile(src, q)
                      /\ IsFile(src, q) => /\ src[q].time \in Nat /\ src'[q].time \in Nat
                                           /\ src[q].time <= src'[q].time
                                           /\ src[q].data = src[q].time
                                           /\ src'[q].data = src'[q].time
    OBVIOUS
  <2>1. CASE q = p
    <3>1. src[p].data \in Nat /\ v \in Nat /\ v = src[p].time + 1
      BY <1>1, <1>2, Numbers
    <3> QED
      BY <1>1, <1>6, <2>1, <3>1
  <2>2. CASE q # p
    <3>1. src'[q] = src[q]
      BY <1>5, <2>2
    <3>2. IsFile(src, q) => src[q].data \in Nat /\ src[q].time = src[q].data
      BY SrcNodes, Numbers DEF IInv
    <3> QED
      BY <3>1, <3>2 DEF IsFile
  <2> QED
    BY <2>1, <2>2
<1>9. TimesAreTrue'
  <2> SUFFICES ASSUME NEW q \in Paths, IsFile(src', q), IsFile(dst', q), dst'[q].data # Partial
               PROVE  dst'[q].data = dst'[q].time \/ dst'[q].time < src'[q].time
    BY DEF TimesAreTrue
  <2>1. dst[q].data = dst[q].time \/ dst[q].time < src[q].time
    BY <1>3, <1>8 DEF IInv, TimesAreTrue
  <2>2. dst[q].time \in Nat
    <3>1. dst[q].time \in Versions \cup {Now}
      BY <1>3, DstNodes DEF IInv
    <3> QED
      BY <3>1, Numbers
  <2>3. /\ dst' = dst /\ src[q].time \in Nat /\ src'[q].time \in Nat
        /\ src[q].time <= src'[q].time
    BY <1>3, <1>8
  <2> QED
    BY <2>1, <2>2, <2>3
<1>10. \A q \in Paths : want[q] \in Nat /\ stamp \in Nat /\ half \in Nat
  <2>1. want \in [Paths -> Versions \cup {0}] /\ stamp \in Versions \cup {0}
        /\ half \in Versions \cup {0}
    BY DEF IInv, TypeOK
  <2>2. \A n \in Versions \cup {0} : n \in Nat
    BY Numbers
  <2> QED
    BY <2>1, <2>2
<1>11. WantIsPast'
  <2> SUFFICES ASSUME NEW q \in Paths, want[q] # 0
               PROVE  IsFile(src', q) /\ want[q] <= src'[q].time
    BY <1>3 DEF WantIsPast, plan
  <2>1. IsFile(src, q) /\ want[q] <= src[q].time
    BY DEF IInv, WantIsPast
  <2> QED
    BY <1>8, <1>10, <2>1
<1>12. CopyIsFair'
  <2> SUFFICES ASSUME stage \in {"opened", "halfway", "filled"}, NEW q \in Paths, Copying(q)
               PROVE  /\ IsFile(dst, q)
                      /\ want[q] <= stamp /\ stamp <= src'[q].time
                      /\ stage = "halfway" => stamp <= half /\ half <= src'[q].data
                      /\ stage = "filled" => /\ dst[q].data # Partial
                                             /\ dst[q].data = stamp \/ stamp < src'[q].time
    BY <1>3 DEF CopyIsFair, Copying, FirstOf, plan, transfer, IsFile
  <2>1. IsFile(src, q)
    BY DEF IInv, PlanIsKept, Working, WantIsPast, Copying, FirstOf
  <2> QED
    BY <1>8, <1>10, <2>1 DEF IInv, CopyIsFair
<1>13. PlanIsKept'
  <2>1. \A q \in Paths : want[q] # 0 /\ want[q] < src[q].time => want[q] < src'[q].time
    BY <1>8, <1>10 DEF IInv, WantIsPast
  <2> QED
    BY <1>3, <2>1 DEF IInv, PlanIsKept, Working, options, plan, IsFile
<1> QED
  BY <1>3, <1>7, <1>9, <1>11, <1>12, <1>13 DEF IInv, Rooted

(* Stuttering leaves IInv alone.                                           *)
LEMMA StutterStep == IInv /\ UNCHANGED vars => IInv'
<1> SUFFICES ASSUME IInv, UNCHANGED vars PROVE IInv'
  OBVIOUS
<1>1. UNCHANGED <<push, del, dry, gitignore, window, src, dst, stage, want, have, copies, deletes,
                  stamp, half, faults>>
  BY DEF vars, options, plan, transfer
<1> QED
  BY <1>1 DEF IInv, TypeOK, Rooted, TimesAreTrue, WantIsPast, CopyIsFair, Copying, FirstOf,
              PlanIsKept, Working, IsFile

LEMMA NextIInv == IInv /\ [Next]_vars => IInv'
<1> SUFFICES ASSUME IInv, [Next]_vars PROVE IInv'
  OBVIOUS
<1>0. faults \in 0..MaxFaults /\ MaxFaults \in Nat
  BY BoundsAssumption DEF IInv, TypeOK
<1>1. CASE Start
  BY <1>0, <1>1, QuietStep DEF Start, Stages
<1>2. CASE Dial
  BY <1>0, <1>2, QuietStep DEF Dial, Stages
<1>3. CASE ScanSource
  BY <1>3, ScanSourceStep
<1>4. CASE Plan
  BY <1>4, PlanStep
<1>5. CASE Finish
  BY <1>0, <1>5, QuietStep DEF Finish, Stages, Working
<1>6. ASSUME NEW p \in Paths, Copy(p) \/ Delete(p) \/ StampFails(p) \/ Edit(p) PROVE IInv'
  BY <1>6, OpenStep, CopyHalfStep, CopyRestStep, StampStep, DeleteStep, StampFailsStep, EditStep
     DEF Copy
<1>7. CASE Cut
  BY <1>0, <1>7, QuietStep DEF Cut, Stages
<1>8. CASE Retry
  BY <1>0, <1>8, QuietStep DEF Retry, Stages
<1>9. CASE GiveUp
  BY <1>0, <1>9, QuietStep DEF GiveUp, Stages
<1>10. CASE UNCHANGED vars
  BY <1>10, StutterStep
<1> QED
  BY <1>1, <1>2, <1>3, <1>4, <1>5, <1>6, <1>7, <1>8, <1>9, <1>10 DEF Next, Pass

LEMMA AlwaysIInv == Spec => []IInv
  BY InitIInv, NextIInv, PTL DEF Spec

-----------------------------------------------------------------------------
(* TimesAreGiven, under IInv.                                              *)

LEMMA InitTimesAreGiven == Init => TimesAreGiven
  BY DEF Init, TimesAreGiven, Working

(* A step that is not a copy's: the paths it changes have no version in    *)
(* the manifest, or are not dealt with yet.                                *)
LEMMA TimesStay ==
  ASSUME IInv, TimesAreGiven, copies' = copies, want' = want, dry' = dry,
         stage' # "filled",
         stage' \in Working \/ (stage' = "done" /\ ~dry) => stage \in Working \/ (stage = "done" /\ ~dry),
         \A q \in Paths \ copies : want[q] # 0 =>
            dst'[q] = dst[q] /\ IsFile(src, q) /\ src[q].time <= src'[q].time /\ src'[q].time \in Nat
  PROVE  TimesAreGiven'
<1> SUFFICES ASSUME stage' \in Working \/ (stage' = "done" /\ ~dry),
                    NEW q \in Paths, q \notin copies, want[q] # 0
             PROVE  dst'[q].time = Now
                    \/ (want[q] <= dst'[q].time /\ dst'[q].time <= src'[q].time)
  BY DEF TimesAreGiven
<1>1. IsFile(dst, q) /\ dst'[q] = dst[q] /\ src[q].time <= src'[q].time /\ src'[q].time \in Nat
  BY DEF IInv, PlanIsKept
<1>2. dst[q].time = Now \/ (want[q] <= dst[q].time /\ dst[q].time <= src[q].time)
  BY DEF TimesAreGiven
<1>3. dst[q].time \in Nat /\ src[q].time \in Nat
  BY <1>1, DstNodes, SrcNodes, Numbers DEF IInv
<1> QED
  BY <1>1, <1>2, <1>3

LEMMA SrcTimes ==
  ASSUME IInv, NEW q \in Paths, want[q] # 0
  PROVE  /\ IsFile(src, q) /\ src[q].time \in Nat
         /\ src' = src => src[q].time <= src'[q].time /\ src'[q].time \in Nat
<1>1. IsFile(src, q)
  BY DEF IInv, WantIsPast
<1>2. src[q].time \in Nat
  BY <1>1, SrcNodes, Numbers DEF IInv
<1> QED
  BY <1>1, <1>2

LEMMA PlanTimes == IInv /\ TimesAreGiven /\ Plan => TimesAreGiven'
<1>0. CASE ~Readable(dst)
  BY <1>0 DEF Plan, TimesAreGiven, Working
<1> SUFFICES ASSUME IInv, Plan, Readable(dst), NEW q \in Paths, q \notin ToCopy, want[q] # 0
             PROVE  want[q] <= dst[q].time /\ dst[q].time <= src[q].time
  BY <1>0 DEF Plan, TimesAreGiven
<1>1. dst[q].time = want[q] /\ want[q] <= src[q].time
  BY DEF ToCopy, Same, IInv, WantIsPast
<1>2. want[q] \in Nat
  BY Numbers DEF IInv, TypeOK
<1> QED
  BY <1>1, <1>2

LEMMA CopyTimes ==
  ASSUME NEW p \in Paths
  PROVE  IInv /\ TimesAreGiven /\ (Copy(p) \/ StampFails(p)) => TimesAreGiven'
<1> SUFFICES ASSUME IInv, TimesAreGiven, Copy(p) \/ StampFails(p) PROVE TimesAreGiven'
  OBVIOUS
<1>0. stage \in Working /\ Copying(p) /\ p \in copies /\ UNCHANGED <<src, want, dry>>
  BY DEF Copy, Open, CopyHalf, CopyRest, Stamp, StampFails, Working, Copying, FirstOf, options, plan
<1>1. CASE Open(p)
  <2>1. copies' = copies /\ stage' # "filled"
    BY <1>1 DEF Open, plan
  <2>2. \A q \in Paths \ copies : want[q] # 0 => dst'[q] = dst[q]
    <3> SUFFICES ASSUME NEW q \in Paths, q \notin copies, want[q] # 0 PROVE dst'[q] = dst[q]
      OBVIOUS
    <3>1. IsFile(dst, q) /\ q # p
      BY <1>0 DEF IInv, PlanIsKept
    <3>2. dst[q] # Nothing
      BY <3>1, OtherKinds DEF IsFile
    <3> QED
      BY <1>1, <3>1, <3>2 DEF Open, Opened
  <2> QED
    BY <1>0, <2>1, <2>2, SrcTimes, TimesStay
<1>2. CASE CopyHalf(p)
  <2>1. copies' = copies /\ dst' = dst /\ stage' # "filled"
    BY <1>2 DEF CopyHalf, plan
  <2> QED
    BY <1>0, <2>1, SrcTimes, TimesStay
<1>3. CASE CopyRest(p)
  <2>1. copies' = copies /\ stage' = "filled"
    BY <1>3 DEF CopyRest, plan
  <2>2. PICK d : dst' = [dst EXCEPT ![p] = File(d, Now)]
    BY <1>3 DEF CopyRest
  <2>3. dst'[p].time = Now /\ \A q \in Paths \ {p} : dst'[q] = dst[q]
    BY <2>2, FileFields DEF IInv, TypeOK
  <2>4. \A q \in Paths : Copying(q)' => q = p
    BY <1>0, <2>1, OneCopy DEF IInv, Copying, FirstOf
  <2> QED
    BY <1>0, <2>1, <2>3, <2>4 DEF TimesAreGiven
<1>4. CASE Stamp(p) \/ StampFails(p)
  <2>1. stage = "filled" /\ stage' = "planned" /\ copies' = copies \ {p}
    BY <1>4 DEF Stamp, StampFails
  <2>2. \A q \in Paths \ {p} : dst'[q] = dst[q]
    BY <1>4 DEF Stamp, StampFails, IInv, TypeOK
  <2>3. dst'[p].time = Now \/ (want[p] <= dst'[p].time /\ dst'[p].time <= src[p].time)
    <3>1. CASE Stamp(p)
      <4>1. dst'[p].time = stamp
        BY <3>1, FileFields DEF Stamp, IInv, TypeOK
      <4> QED
        BY <1>0, <2>1, <4>1 DEF IInv, CopyIsFair
    <3>2. CASE StampFails(p)
      BY <1>0, <2>1, <3>2 DEF StampFails, TimesAreGiven
    <3> QED
      BY <1>4, <3>1, <3>2
  <2> QED
    BY <1>0, <2>1, <2>2, <2>3 DEF TimesAreGiven, Working
<1> QED
  BY <1>1, <1>2, <1>3, <1>4 DEF Copy

LEMMA NextTimesAreGiven == IInv /\ TimesAreGiven /\ [Next]_vars => TimesAreGiven'
<1> SUFFICES ASSUME IInv, TimesAreGiven, [Next]_vars PROVE TimesAreGiven'
  OBVIOUS
<1>1. CASE Start \/ Dial \/ ScanSource \/ Cut \/ Retry \/ GiveUp
  BY <1>1 DEF Start, Dial, ScanSource, Cut, Retry, GiveUp, TimesAreGiven, Working
<1>2. CASE Plan
  BY <1>2, PlanTimes
<1>3. CASE Finish
  BY <1>3, SrcTimes, TimesStay DEF Finish, Working, options, plan
<1>4. ASSUME NEW p \in Paths, Copy(p) \/ StampFails(p) PROVE TimesAreGiven'
  BY <1>4, CopyTimes
<1>5. ASSUME NEW p \in Paths, Delete(p) PROVE TimesAreGiven'
  <2>1. want[p] = 0 /\ dst' = [dst EXCEPT ![p] = Nothing] /\ stage = "planned"
    BY <1>5, DeleteFacts
  <2>2. \A q \in Paths : want[q] # 0 => dst'[q] = dst[q]
    BY <2>1 DEF IInv, TypeOK
  <2>3. UNCHANGED <<src, copies, want, dry, stage>>
    BY <1>5 DEF Delete, options
  <2> QED
    BY <2>1, <2>2, <2>3, SrcTimes, TimesStay
<1>6. ASSUME NEW p \in Paths, Edit(p) PROVE TimesAreGiven'
  <2>1. /\ src' = [src EXCEPT ![p] = File(src[p].data + 1, src[p].time + 1)]
        /\ UNCHANGED <<dst, stage, want, copies, dry>>
    BY <1>6 DEF Edit, options, plan
  <2>2. src'[p].time = src[p].time + 1 /\ \A q \in Paths \ {p} : src'[q] = src[q]
    BY <2>1, FileFields DEF IInv, TypeOK
  <2>3. \A q \in Paths : want[q] # 0 =>
          IsFile(src, q) /\ src[q].time <= src'[q].time /\ src'[q].time \in Nat
    BY <2>2, SrcTimes
  <2>4. CASE stage # "filled"
    BY <2>1, <2>3, <2>4, TimesStay
  <2>5. CASE stage = "filled"
    <3>1. \A q \in Paths : Copying(q)' <=> Copying(q)
      BY <2>1 DEF Copying, FirstOf
    <3>2. ASSUME NEW q \in Paths, q \notin copies, want[q] # 0
          PROVE  dst[q].time = Now \/ (want[q] <= dst[q].time /\ dst[q].time <= src'[q].time)
      <4>1. IsFile(dst, q)
        BY <2>5, <3>2 DEF IInv, PlanIsKept, Working
      <4>2. dst[q].time \in Nat
        BY <4>1, DstNodes, Numbers DEF IInv
      <4>3. dst[q].time = Now \/ (want[q] <= dst[q].time /\ dst[q].time <= src[q].time)
        BY <2>5, <3>2 DEF TimesAreGiven, Working
      <4> QED
        BY <2>3, <3>2, <4>2, <4>3, SrcTimes
    <3> QED
      BY <2>1, <2>5, <3>1, <3>2 DEF TimesAreGiven, Working
  <2> QED
    BY <2>4, <2>5
<1>7. CASE UNCHANGED vars
  <2>1. UNCHANGED <<src, dst, stage, want, copies, dry>>
    BY <1>7 DEF vars, options, plan
  <2> QED
    BY <2>1 DEF TimesAreGiven, Copying, FirstOf
<1> QED
  BY <1>1, <1>2, <1>3, <1>4, <1>5, <1>6, <1>7 DEF Next, Pass

(* A destination that has the source's rules, or none, masks nothing that  *)
(* is wanted, so all of it is in the next plan's manifest.                 *)
LEMMA WantedIsListed ==
  ASSUME IInv, want = Manifest, want[Rules] # 0 \/ ~IsFile(dst, Rules),
         \A p \in Paths : want[p] # 0 => IsFile(dst, p) /\ dst[p].data = src[p].data
  PROVE  \A p \in Paths : want[p] # 0 => p \in Listed(dst)
<1>1. Ignored(dst) = {} \/ Ignored(dst) = Ignored(src)
  <2>1. CASE ~IsFile(dst, Rules)
    BY <2>1 DEF Ignored
  <2>2. CASE want[Rules] # 0
    <3>1. IsFile(dst, Rules) /\ IsFile(src, Rules) /\ dst[Rules].data = src[Rules].data
      BY <2>2, ManifestFacts, RulesAssumption DEF IInv
    <3> QED
      BY <3>1 DEF Ignored
  <2> QED
    BY <2>1, <2>2
<1> SUFFICES ASSUME NEW p \in Paths, want[p] # 0 PROVE p \in Listed(dst)
  OBVIOUS
<1>2. p \in Listed(src)
  BY DEF Manifest
<1> QED
  BY <1>1, <1>2 DEF Listed

-----------------------------------------------------------------------------
(* That passes go on.                                                      *)

\* There is a first path in whatever is left of a plan.
LEMMA FirstIsThere ==
  ASSUME NEW S \in SUBSET Paths, S # {}
  PROVE  \E p \in Paths : FirstOf(S, p)
<1>1. S \subseteq Nat
  BY PathsAssumption
<1>2. PICK p \in S : \A q \in S : <<q, p>> \notin OpToRel(<, Nat)
  BY <1>1, NatLessThanWellFounded, WFMin
<1>3. \A q \in S : ~(q < p)
  BY <1>1, <1>2 DEF OpToRel
<1>4. \A q \in S : p <= q
  BY <1>1, <1>3
<1> QED
  BY <1>4 DEF FirstOf

\* What a copy is of is in the plan until the copy is over.
CopiesUnderWay == stage \in {"opened", "halfway", "filled"} => copies # {}

LEMMA NextCopiesUnderWay == CopiesUnderWay /\ [Next]_vars => CopiesUnderWay'
<1> SUFFICES ASSUME CopiesUnderWay, [Next]_vars PROVE CopiesUnderWay'
  OBVIOUS
<1>1. CASE Start \/ Dial \/ ScanSource \/ Plan \/ Finish \/ Cut \/ Retry \/ GiveUp
  BY <1>1 DEF CopiesUnderWay, Start, Dial, ScanSource, Plan, Finish, Cut, Retry, GiveUp
<1>2. ASSUME NEW p \in Paths, Open(p) \/ CopyHalf(p) \/ CopyRest(p) PROVE CopiesUnderWay'
  BY <1>2 DEF CopiesUnderWay, Open, CopyHalf, CopyRest, Copying, FirstOf, plan
<1>3. ASSUME NEW p \in Paths, Stamp(p) \/ StampFails(p) \/ Delete(p) PROVE CopiesUnderWay'
  BY <1>3 DEF CopiesUnderWay, Stamp, StampFails, Delete
<1>4. ASSUME NEW p \in Paths, Edit(p) PROVE CopiesUnderWay'
  BY <1>4 DEF CopiesUnderWay, Edit, plan
<1>5. CASE UNCHANGED vars
  BY <1>5 DEF CopiesUnderWay, vars, plan
<1> QED
  BY <1>1, <1>2, <1>3, <1>4, <1>5 DEF Next, Pass, Copy

\* The source has no new files or directories, nor does the option change.
SourceStays ==
  /\ gitignore' = gitignore
  /\ \A p \in Paths : /\ IsFile(src', p) => IsFile(src, p)
                      /\ src'[p] = Directory => src[p] = Directory

\* Nobody makes, or removes, a file or a directory of the source.
LEMMA NextSourceStays ==
  ASSUME IInv, Rooted(src), [Next]_vars
  PROVE  Rooted(src') /\ SourceStays
<1>0. gitignore' = gitignore
  BY DEF Next, Start, Dial, Pass, ScanSource, Plan, Finish, Copy, Open, CopyHalf, CopyRest, Stamp,
     Delete, Cut, Retry, GiveUp, StampFails, Edit, vars, options
<1>1. CASE src' = src
  BY <1>0, <1>1 DEF Rooted, IsFile, SourceStays
<1>2. ASSUME NEW p \in Paths, Edit(p) PROVE Rooted(src') /\ SourceStays
  <2>1. /\ IsFile(src, p) /\ \A q \in Paths \ {p} : src'[q] = src[q]
        /\ src \in [Paths -> SourceFiles \cup {Nothing, Directory}]
    BY <1>2 DEF Edit, IInv, TypeOK
  <2>2. src[p] # Nothing /\ src[p] # Directory
    BY <2>1, OtherKinds DEF IsFile
  <2>3. ASSUME NEW q \in Paths, src'[q] # Nothing, NEW r \in Above[q] PROVE src'[r] = Directory
    <3>1. r \in Paths /\ src[q] # Nothing
      BY <2>1, <2>2, <2>3, PathsAssumption
    <3>2. src[r] = Directory
      BY <3>1 DEF Rooted
    <3> QED
      BY <2>1, <2>2, <3>1, <3>2
  <2>4. src'[p] # Directory
    BY <1>2, <2>1, FileFields DEF Edit
  <2> QED
    BY <1>0, <2>1, <2>3, <2>4 DEF Rooted, IsFile, SourceStays
<1>3. src' = src \/ \E p \in Paths : Edit(p)
  BY DEF Next, Start, Dial, Pass, ScanSource, Plan, Finish, Copy, Open, CopyHalf, CopyRest, Stamp,
     Delete, Cut, Retry, GiveUp, StampFails, vars
<1> QED
  BY <1>1, <1>2, <1>3

\* A step that writes nothing but files of the source, and makes no directories
\* but those they are in, brings nothing in the way.
LEMMA StaysCompatible ==
  ASSUME Rooted(src), Compatible, SourceStays, NEW written \in SUBSET Paths,
         \A p \in written : IsFile(src, p),
         \A q \in Paths : dst'[q] = Directory =>
                            dst[q] = Directory \/ \E p \in written : q \in Above[p],
         \A q \in Paths : IsFile(dst', q) => IsFile(dst, q) \/ q \in written
  PROVE  Compatible'
<1>1. \A p, q \in Paths : IsFile(src, p) /\ q \in Above[p] => src[q] = Directory /\ ~IsFile(src, q)
  BY OtherKinds DEF Rooted, IsFile
<1>2. ASSUME NEW q \in Paths, IsFile(src', q) PROVE ~Blocked(q)'
  <2>1. IsFile(src, q) /\ ~Blocked(q)
    BY <1>2 DEF Compatible, SourceStays
  <2>2. dst'[q] # Directory
    BY <1>1, <2>1 DEF Blocked
  <2>3. ASSUME NEW r \in Above[q] PROVE ~IsFile(dst', r)
    <3>1. r \in Paths /\ ~IsFile(dst, r) /\ ~IsFile(src, r)
      BY <1>1, <2>1, PathsAssumption DEF Blocked
    <3> QED
      BY <3>1
  <2> QED
    BY <2>2, <2>3 DEF Blocked, IsFile
<1>3. ASSUME gitignore' PROVE src'[Rules] # Directory /\ dst'[Rules] # Directory
  <2>1. src[Rules] # Directory /\ dst[Rules] # Directory /\ src'[Rules] # Directory
    BY <1>3, RulesAssumption DEF Compatible, Readable, SourceStays
  <2>2. dst'[Rules] # Directory
    BY <1>1, <2>1, RulesAssumption
  <2> QED
    BY <2>1, <2>2
<1> QED
  BY <1>2, <1>3 DEF Compatible, Readable, IsFile

\* ... nor does one that only leaves, rewrites or removes what is there.
LEMMA KeepsCompatible ==
  ASSUME Rooted(src), Compatible, SourceStays,
         \A q \in Paths : dst'[q] = Directory => dst[q] = Directory,
         \A q \in Paths : IsFile(dst', q) => IsFile(dst, q)
  PROVE  Compatible'
<1> DEFINE written == {}
<1>1. written \in SUBSET Paths /\ \A p \in written : IsFile(src, p)
  OBVIOUS
<1>2. \A q \in Paths : /\ dst'[q] = Directory => dst[q] = Directory \/ \E p \in written : q \in Above[p]
                      /\ IsFile(dst', q) => IsFile(dst, q) \/ q \in written
  OBVIOUS
<1> HIDE DEF written
<1> QED
  BY <1>1, <1>2, StaysCompatible

LEMMA NextCompatible ==
  ASSUME IInv, Rooted(src), Compatible, [Next]_vars
  PROVE  Compatible' /\ (stage # "failed" /\ stage' = "failed" => faults' = faults + 1)
<1>1. SourceStays
  BY NextSourceStays
<1>2. ASSUME NEW p \in Paths, Copying(p), stage = "planned" PROVE IsFile(src, p) /\ ~Blocked(p)
  <2>1. want[p] # 0
    BY <1>2 DEF Copying, FirstOf, IInv, PlanIsKept, Working
  <2> QED
    BY <2>1 DEF IInv, WantIsPast, Compatible
<1>3. Compatible'
  <2>1. CASE dst' = dst
    <3>1. \A q \in Paths : IsFile(dst', q) => IsFile(dst, q)
      BY <2>1 DEF IsFile
    <3> QED
      BY <1>1, <2>1, <3>1, KeepsCompatible
  <2>2. ASSUME NEW p \in Paths, Open(p), ~Blocked(p) PROVE Compatible'
    <3>1. IsFile(src, p) /\ dst' = Opened(p)
      BY <1>2, <2>2 DEF Open
    <3>2. \A q \in Paths : dst'[q] = Directory => dst[q] = Directory \/ q \in Above[p]
      BY <3>1, FileFields DEF Opened
    <3>3. \A q \in Paths : IsFile(dst', q) => IsFile(dst, q) \/ q = p
      BY <3>1, OtherKinds DEF Opened, IsFile
    <3> DEFINE written == {p}
    <3>4. /\ written \in SUBSET Paths /\ \A q \in written : IsFile(src, q)
          /\ \A q \in Paths : /\ dst'[q] = Directory => dst[q] = Directory \/ \E r \in written : q \in Above[r]
                              /\ IsFile(dst', q) => IsFile(dst, q) \/ q \in written
      BY <3>1, <3>2, <3>3
    <3> HIDE DEF written
    <3> QED
      BY <1>1, <3>4, StaysCompatible
  <2>3. ASSUME NEW p \in Paths, CopyRest(p) \/ Stamp(p) PROVE Compatible'
    <3>1. IsFile(dst, p)
      BY <2>3 DEF CopyRest, Stamp, IInv, CopyIsFair
    <3>2. PICK d, t : dst' = [dst EXCEPT ![p] = File(d, t)]
      BY <2>3 DEF CopyRest, Stamp
    <3>3. dst'[p] # Directory /\ \A q \in Paths \ {p} : dst'[q] = dst[q]
      BY <3>2, FileFields DEF IInv, TypeOK
    <3>4. \A q \in Paths : IsFile(dst', q) => IsFile(dst, q)
      BY <3>1, <3>3 DEF IsFile
    <3> QED
      BY <1>1, <3>3, <3>4, KeepsCompatible
  <2>4. ASSUME NEW p \in Paths, Delete(p) PROVE Compatible'
    <3>1. \A q \in Paths : dst'[q] = Nothing \/ dst'[q] = dst[q]
      BY <2>4 DEF Delete
    <3>2. \A q \in Paths : /\ IsFile(dst', q) => IsFile(dst, q)
                           /\ dst'[q] = Directory => dst[q] = Directory
      BY <3>1, OtherKinds DEF IsFile
    <3> QED
      BY <1>1, <3>2, KeepsCompatible
  <2>5. \/ dst' = dst
        \/ \E p \in Paths : (Open(p) /\ ~Blocked(p)) \/ CopyRest(p) \/ Stamp(p) \/ Delete(p)
    BY DEF Next, Start, Dial, Pass, ScanSource, Plan, Finish, Copy, Open, CopyHalf, Cut, Retry,
       GiveUp, StampFails, Edit, vars
  <2> QED
    BY <2>1, <2>2, <2>3, <2>4, <2>5
<1>4. ASSUME stage # "failed", stage' = "failed" PROVE faults' = faults + 1
  <2>1. Cut \/ (ScanSource /\ ~Readable(src)) \/ (Plan /\ ~Readable(dst))
        \/ \E p \in Paths : Open(p) /\ Blocked(p)
    BY <1>4 DEF Next, Start, Dial, Pass, ScanSource, Plan, Finish, Copy, Open, CopyHalf, CopyRest,
       Stamp, Delete, Retry, GiveUp, StampFails, Edit, vars
  <2>2. \A p \in Paths : ~(Open(p) /\ Blocked(p))
    BY <1>2 DEF Open
  <2> QED
    BY <2>1, <2>2 DEF Cut, Compatible
<1> QED
  BY <1>3, <1>4

-----------------------------------------------------------------------------
(* The theorems.                                                           *)

\* Type correctness: manifests, plans and trees keep their form, and a run is at
\* one of the places the code can be at.
THEOREM SyncTypeCorrect == Spec => []TypeOK
<1>1. IInv => TypeOK
  BY DEF IInv
<1> QED
  BY <1>1, AlwaysIInv, PTL

\* Whatever was interrupted or edited in the middle of a transfer, a file that
\* planSync takes for the same has the source's content.
THEOREM MatchingIsSafe == Spec => []MatchMeansSame
<1>1. IInv => MatchMeansSame
  <2> SUFFICES ASSUME IInv, NEW p \in Paths, IsFile(src, p), IsFile(dst, p),
                      dst[p].data # Partial, dst[p].time = src[p].time
               PROVE  dst[p].data = src[p].data
    BY DEF MatchMeansSame
  <2>1. src[p].time = src[p].data /\ src[p].time \in Nat
    BY SrcNodes, Numbers DEF IInv
  <2> QED
    BY <2>1 DEF IInv, TimesAreTrue
<1> QED
  BY <1>1, AlwaysIInv, PTL

\* When runWithRetry reports success, the destination mirrors the source that
\* was scanned, however many passes failed half way before, and planSync finds
\* nothing to copy the next time but what os.Chtimes has failed on.
THEOREM SuccessMirrors == Spec => []CompleteMeansMirrored
<1>1. IInv /\ TimesAreGiven => CompleteMeansMirrored
  <2> SUFFICES ASSUME IInv, TimesAreGiven, stage = "done", ~dry, want = Manifest
               PROVE  /\ \A p \in Paths : want[p] # 0 => IsFile(dst, p) /\ dst[p].data = src[p].data
                      /\ \A p \in have : del /\ want[p] = 0 => dst[p] = Nothing
                      /\ want[Rules] # 0 \/ ~IsFile(dst, Rules) => \A p \in ToCopy : dst[p].time = Now
    BY DEF CompleteMeansMirrored
  <2>1. \A p \in Paths : want[p] # 0 =>
          /\ IsFile(src, p) /\ want[p] = src[p].time
          /\ src[p].time = src[p].data /\ src[p].time \in Nat
    BY ManifestFacts, SrcNodes, Numbers DEF IInv
  <2>2. copies = {} /\ \A p \in Paths : want[p] # 0 =>
          /\ IsFile(dst, p) /\ dst[p].data # Partial
          /\ dst[p].data = want[p] \/ want[p] < src[p].time
    BY DEF IInv, PlanIsKept
  <2>3. \A p \in Paths : want[p] # 0 => IsFile(dst, p) /\ dst[p].data = src[p].data
    BY <2>1, <2>2
  <2>4. \A p \in have : del /\ want[p] = 0 => dst[p] = Nothing
    BY DEF IInv, PlanIsKept
  <2>5. ASSUME want[Rules] # 0 \/ ~IsFile(dst, Rules), NEW p \in ToCopy PROVE dst[p].time = Now
    <3>1. p \in Paths /\ want[p] # 0 /\ ~Same(p)
      BY DEF ToCopy
    <3>2. p \in Listed(dst) /\ dst[p].data # Partial
      BY <2>2, <2>3, <2>5, <3>1, WantedIsListed
    <3>3. dst[p].time # want[p]
      BY <3>1, <3>2 DEF Same
    <3>4. dst[p].time = Now \/ (want[p] <= dst[p].time /\ dst[p].time <= want[p])
      BY <2>1, <2>2, <3>1 DEF TimesAreGiven
    <3>5. dst[p].time \in Nat /\ want[p] \in Nat
      BY <2>1, <2>2, <3>1, DstNodes, Numbers DEF IInv
    <3> QED
      BY <3>3, <3>4, <3>5
  <2> QED
    BY <2>3, <2>4, <2>5
<1>2. IInv /\ TimesAreGiven /\ [Next]_vars => IInv' /\ TimesAreGiven'
  BY NextIInv, NextTimesAreGiven
<1> QED
  BY <1>1, <1>2, InitIInv, InitTimesAreGiven, PTL DEF Spec

\* No step of a run writes, replaces or removes what the plan of its pass does
\* not give leave to.
THEOREM OnlyPlanned == Spec => TouchesOnlyPlanned
<1> DEFINE Allowed == \A p \in Paths : dst'[p] # dst[p] =>
             /\ ~dry /\ dst[p] # Directory
             /\ IsFile(dst', p) => want[p] # 0
             /\ dst'[p] = Directory => dst[p] = Nothing
             /\ dst'[p] = Nothing => del /\ p \in have /\ want[p] = 0
<1>1. IInv /\ [Next]_vars => [Allowed]_vars
  <2> SUFFICES ASSUME IInv, Next, dst' # dst PROVE Allowed
    BY DEF vars
  <2>1. PICK p \in Paths : (Open(p) /\ ~Blocked(p)) \/ CopyRest(p) \/ Stamp(p) \/ Delete(p)
    BY DEF Next, Start, Dial, Pass, ScanSource, Plan, Finish, Copy, Open, CopyHalf, Cut, Retry,
           GiveUp, StampFails, Edit
  <2>2. CASE Open(p) /\ ~Blocked(p)
    <3>1. /\ stage = "planned" /\ p \in copies
          /\ dst'[p] = File(Partial, Now)
          /\ \A q \in Paths \ {p} : dst'[q] = dst[q] \/ (dst[q] = Nothing /\ dst'[q] = Directory)
      BY <2>2, OpenedFacts DEF IInv, Open, Copying, FirstOf
    <3>2. ~dry /\ want[p] # 0 /\ dst[p] # Directory
      BY <2>2, <3>1 DEF IInv, PlanIsKept, Working, Blocked
    <3>3. IsFile(dst', p)
      BY <3>1, FileFields DEF IsFile
    <3>4. \A q \in Paths \ {p} : dst'[q] # dst[q] =>
            dst[q] = Nothing /\ dst'[q] = Directory /\ dst[q] # Directory /\ ~IsFile(dst', q)
      BY <3>1, OtherKinds DEF IsFile
    <3> SUFFICES ASSUME NEW q \in Paths, dst'[q] # dst[q]
                 PROVE  /\ ~dry /\ dst[q] # Directory
                        /\ IsFile(dst', q) => want[q] # 0
                        /\ dst'[q] = Directory => dst[q] = Nothing
                        /\ dst'[q] = Nothing => del /\ q \in have /\ want[q] = 0
      OBVIOUS
    <3>5. CASE q = p
      <4>1. dst'[q] # Directory /\ dst'[q] # Nothing
        BY <3>3, <3>5, OtherKinds DEF IsFile
      <4> QED
        BY <3>2, <3>3, <3>5, <4>1
    <3>6. CASE q # p
      BY <3>2, <3>4, <3>6, OtherKinds
    <3> QED
      BY <3>5, <3>6
  <2>3. CASE CopyRest(p) \/ Stamp(p)
    <3>1. stage \in {"halfway", "filled"} /\ Copying(p)
      BY <2>3 DEF CopyRest, Stamp
    <3>2. ~dry /\ want[p] # 0 /\ IsFile(dst, p)
      BY <3>1 DEF IInv, PlanIsKept, CopyIsFair, Working, Copying, FirstOf
    <3>3. dst[p] # Directory
      BY <3>2, OtherKinds DEF IsFile
    <3>4. PICK d, t : dst' = [dst EXCEPT ![p] = File(d, t)]
      BY <2>3 DEF CopyRest, Stamp
    <3>5. IsFile(dst', p) /\ \A q \in Paths \ {p} : dst'[q] = dst[q]
      BY <3>4, FileFields DEF IInv, TypeOK, IsFile
    <3>6. dst'[p] # Directory /\ dst'[p] # Nothing
      BY <3>5, OtherKinds DEF IsFile
    <3> SUFFICES ASSUME NEW q \in Paths, dst'[q] # dst[q]
                 PROVE  /\ ~dry /\ dst[q] # Directory
                        /\ IsFile(dst', q) => want[q] # 0
                        /\ dst'[q] = Directory => dst[q] = Nothing
                        /\ dst'[q] = Nothing => del /\ q \in have /\ want[q] = 0
      OBVIOUS
    <3>7. q = p
      BY <3>5
    <3> QED
      BY <3>2, <3>3, <3>5, <3>6, <3>7
  <2>4. CASE Delete(p)
    <3>1. /\ del /\ ~dry /\ p \in have /\ want[p] = 0 /\ IsFile(dst, p)
          /\ dst' = [dst EXCEPT ![p] = Nothing]
      BY <2>4, DeleteFacts
    <3>2. dst'[p] = Nothing /\ \A q \in Paths \ {p} : dst'[q] = dst[q]
      BY <3>1 DEF IInv, TypeOK
    <3>3. dst[p] # Directory /\ ~IsFile(dst', p) /\ dst'[p] # Directory
      BY <3>1, <3>2, OtherKinds DEF IsFile
    <3> QED
      BY <3>1, <3>2, <3>3
  <2> QED
    BY <2>1, <2>2, <2>3, <2>4
<1> QED
  BY <1>1, AlwaysIInv, PTL DEF Spec, TouchesOnlyPlanned

\* The loops of push and pull never stand before a copy or a deletion that is not
\* there: a pass that has its connection and has neither ended nor failed has a step
\* to take, for any tree and any plan.
THEOREM PassesDoNotStick == Spec => []PassesGoOn
<1>1. IInv /\ CopiesUnderWay => PassesGoOn
  <2> SUFFICES ASSUME IInv, CopiesUnderWay, stage \notin {"idle", "dialing", "failed", "done"} PROVE PassCanGo
    BY DEF PassesGoOn
  <2>1. /\ stage \in Stages /\ copies \subseteq Paths /\ deletes \subseteq Paths
    BY DEF IInv, TypeOK
  <2>2. copies # {} => \E p \in Paths : Copying(p)
    BY <2>1, FirstIsThere DEF Copying
  <2>3. copies = {} /\ deletes # {} => \E p \in Paths : Deleting(p)
    BY <2>1, FirstIsThere DEF Deleting
  <2> QED
    BY <2>1, <2>2, <2>3 DEF CopiesUnderWay, PassCanGo, Stages
<1>2. Init => CopiesUnderWay
  BY DEF Init, CopiesUnderWay
<1> QED
  BY <1>1, <1>2, NextCopiesUnderWay, AlwaysIInv, PTL DEF Spec

\* From the moment the ends are compatible - no file of the source where the
\* destination has a directory or the other way round, and .gitignore, if it is
\* looked at, a file or absent - no putFile or getFile, RemoveAll or MkdirAll ever
\* makes a later one, or a later scan, fail: the interruptions are the only errors
\* there are.
THEOREM OnlyCutsFail == Spec => FailsOnlyIfCut
<1> DEFINE Kind == Compatible =>
             /\ Compatible'
             /\ stage # "failed" /\ stage' = "failed" => faults' = faults + 1
<1>1. Init => Rooted(src)
  BY DEF Init
<1>2. IInv /\ Rooted(src) /\ [Next]_vars => Rooted(src')
  BY NextSourceStays
<1>3. IInv /\ Rooted(src) /\ [Next]_vars => [Kind]_vars
  BY NextCompatible
<1>4. Rooted(src)' <=> Rooted(src')
  BY DEF Rooted
<1> QED
  BY <1>1, <1>2, <1>3, <1>4, AlwaysIInv, PTL DEF Spec, FailsOnlyIfCut
=============================================================================
