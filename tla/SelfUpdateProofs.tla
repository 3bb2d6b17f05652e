-------------------------- MODULE SelfUpdateProofs --------------------------
(***************************************************************************)
(* Proofs about SelfUpdate, for any number of updates, releases and        *)
(* failures: IInv is inductive, so only whole binaries are ever installed  *)
(* and updates that come one at a time never lose the binary; ArrivalInv,  *)
(* under it, says that success leaves the newest version installed,        *)
(* OldIsKept that failure leaves the old one, and ForwardInv that none is  *)
(* older than the last.  Together they give the refinement of Installation.*)
(***************************************************************************)
EXTENDS SelfUpdate, TLAPS

LEMMA Numbers ==
  \A v \in Versions : v \in Nat /\ v # 0 /\ v # Garbage
  BY DEF Versions, Garbage

LEMMA FilesAreFiles ==
  /\ \A v \in Versions \cup {Garbage}, w \in BOOLEAN, r \in BOOLEAN : File(v, w, r) \in Files
  /\ Nothing \in Files /\ Binaries \subseteq Files /\ Nothing \notin Binaries
  /\ \A b \in Binaries : b.content \in Versions
  /\ \A v \in Versions : File(v, TRUE, TRUE) \in Binaries
<1>1. \A v \in Versions \cup {Garbage}, w \in BOOLEAN, r \in BOOLEAN : File(v, w, r) \in Files
  BY DEF Files
<1>2. Nothing \in Files /\ Binaries \subseteq Files
  BY <1>1 DEF Nothing, Binaries, Garbage
<1>3. \A b \in Binaries : b.whole /\ b.content \in Versions
  <2> TAKE b \in Binaries
  <2>1. PICK v \in Versions : b = [content |-> v, whole |-> TRUE, runnable |-> TRUE]
    BY DEF Binaries, File
  <2> QED
    BY <2>1
<1>4. Nothing \notin Binaries
  <2>1. ~Nothing.whole
    BY DEF Nothing, File
  <2> QED
    BY <1>3, <2>1
<1>5. \A b \in Binaries : b.content \in Versions
  BY <1>3
<1>6. \A v \in Versions : File(v, TRUE, TRUE) \in Binaries
  BY DEF Binaries
<1> QED
  BY <1>1, <1>2, <1>4, <1>5, <1>6

LEMMA InitIInv == Init => IInv
<1> SUFFICES ASSUME Init PROVE IInv
  OBVIOUS
<1>1. 1 \in Versions
  BY BoundsAssumption DEF Versions
<1>2. File(1, TRUE, TRUE) \in Binaries /\ File(1, TRUE, TRUE) \in Files /\ Nothing \in Files
  BY <1>1, FilesAreFiles
<1>3. TypeOK
  <2>1. 0 \in 0..MaxFaults
    BY BoundsAssumption
  <2>2. \A u \in Updates : pc[u] # "summed"
    BY DEF Init
  <2> QED
    BY <1>1, <1>2, <2>1, <2>2 DEF Init, TypeOK, Garbage
<1> QED
  BY <1>2, <1>3
     DEF Init, IInv, OnlyWholeBinaries, NeverLost, StagedIsWanted, AloneOnDisk, Busy, Between

(* What an update's step may do to the rest, in the terms of IInv.  The    *)
(* lemma has the conjuncts that do not depend on the files; each action    *)
(* then accounts for what it does to them.                                 *)
LEMMA PlaceChanges ==
  ASSUME IInv, NEW u \in Updates, NEW here, NEW there \in Busy \cup Ended, Go(u, here, there)
  PROVE  /\ pc[u] = here /\ pc'[u] = there
         /\ \A o \in Updates \ {u} : pc'[o] = pc[o]
         /\ pc' \in [Updates -> Busy \cup Ended \cup {"idle"}]
  BY DEF IInv, TypeOK, Go

(* Steps before anything is staged or moved, and those that only end an    *)
(* update: the files at the two paths stay.                                *)
LEMMA FilesStay ==
  ASSUME IInv, NEW u \in Updates,
         NEW here \in Busy \ {"undoing"}, NEW there \in Busy \cup Ended, Go(u, here, there),
         UNCHANGED <<exe, backup, alone>>,
         there \in Between => here = "aside",
         here = "aside" => there \in {"undoing", "stranded"},
         there = "undoing" => faults' >= 1,
         there = "idle" => FALSE,
         faults \in Nat, faults' \in Nat, faults <= faults'
  PROVE  OnlyWholeBinaries' /\ NeverLost' /\ AloneOnDisk'
<1>1. /\ pc[u] = here /\ pc'[u] = there
      /\ \A o \in Updates \ {u} : pc'[o] = pc[o]
  BY PlaceChanges
<1>2. OnlyWholeBinaries'
  BY DEF IInv, OnlyWholeBinaries
<1>3. AloneOnDisk'
  <2> SUFFICES ASSUME alone
               PROVE  /\ \A v, o \in Updates : pc'[v] \in Busy /\ pc'[o] \in Busy => v = o
                      /\ \A v \in Updates : /\ pc'[v] \in Busy \ Between => exe \in Binaries
                                            /\ pc'[v] = "undoing" => faults' >= 1
    BY DEF AloneOnDisk
  <2>1. /\ \A v, o \in Updates : pc[v] \in Busy /\ pc[o] \in Busy => v = o
        /\ \A v \in Updates : /\ pc[v] \in Busy \ Between => exe \in Binaries
                              /\ pc[v] = "undoing" => faults >= 1
    BY DEF IInv, AloneOnDisk
  <2>2. \A v \in Updates : pc'[v] \in Busy => pc[v] \in Busy
    BY <1>1
  <2>3. \A v, o \in Updates : pc'[v] \in Busy /\ pc'[o] \in Busy => v = o
    BY <2>1, <2>2
  <2>4. \A v \in Updates : pc'[v] = "undoing" => faults' >= 1
    <3> SUFFICES ASSUME NEW v \in Updates, pc'[v] = "undoing" PROVE faults' >= 1
      OBVIOUS
    <3>1. CASE v = u
      BY <1>1, <3>1
    <3>2. CASE v # u
      <4>1. pc[v] = "undoing"
        BY <1>1, <3>2
      <4>2. faults >= 1
        BY <2>1, <4>1
      <4> QED
        BY <4>2
    <3> QED
      BY <3>1, <3>2
  <2>5. \A v \in Updates : pc'[v] \in Busy \ Between => exe \in Binaries
    <3> SUFFICES ASSUME NEW v \in Updates, pc'[v] \in Busy \ Between PROVE exe \in Binaries
      OBVIOUS
    <3>1. CASE v = u
      <4>1. pc[u] \in Busy \ Between
        BY <1>1, <3>1 DEF Busy, Between
      <4> QED
        BY <2>1, <4>1
    <3>2. CASE v # u
      BY <1>1, <2>1, <3>2
    <3> QED
      BY <3>1, <3>2
  <2> QED
    BY <2>3, <2>4, <2>5
<1>4. NeverLost'
  <2> SUFFICES ASSUME alone, exe \notin Binaries
               PROVE  /\ backup \in Binaries
                      /\ faults' >= 2 \/ \E v \in Updates : pc'[v] \in Between \cup {"stranded"}
    BY DEF NeverLost
  <2>1. /\ backup \in Binaries
        /\ faults >= 2 \/ \E v \in Updates : pc[v] \in Between \cup {"stranded"}
    BY DEF IInv, NeverLost
  <2>2. CASE faults >= 2
    <3>1. faults' >= 2
      BY <2>2
    <3> QED
      BY <2>1, <3>1
  <2>3. CASE \E v \in Updates : pc[v] \in Between \cup {"stranded"}
    <3>1. PICK v \in Updates : pc[v] \in Between \cup {"stranded"}
      BY <2>3
    <3>2. pc'[v] \in Between \cup {"stranded"}
      BY <1>1, <3>1 DEF Busy, Between
    <3> QED
      BY <2>1, <3>2
  <2> QED
    BY <2>1, <2>2, <2>3
<1> QED
  BY <1>2, <1>3, <1>4

(* What has been staged or downloaded stays, for everybody but u.          *)
LEMMA StagedStays ==
  ASSUME IInv, NEW u \in Updates, NEW here, NEW there \in Busy \cup Ended, Go(u, here, there),
         \A o \in Updates \ {u} : staged'[o] = staged[o] /\ got'[o] = got[o],
         there \in Busy \ {"begun", "asked", "summed"} => got'[u] \in Versions,
         there \in {"ready", "cleared", "aside", "undoing"} => staged'[u] = File(got'[u], TRUE, TRUE)
  PROVE  StagedIsWanted'
<1>1. pc'[u] = there /\ \A o \in Updates \ {u} : pc'[o] = pc[o]
  BY PlaceChanges
<1> SUFFICES ASSUME NEW o \in Updates
             PROVE  /\ pc'[o] \in Busy \ {"begun", "asked", "summed"} => got'[o] \in Versions
                    /\ pc'[o] \in {"ready", "cleared", "aside", "undoing"}
                         => staged'[o] = File(got'[o], TRUE, TRUE)
  BY DEF StagedIsWanted
<1>2. CASE o = u
  BY <1>1, <1>2
<1>3. CASE o # u
  BY <1>1, <1>3 DEF IInv, StagedIsWanted
<1> QED
  BY <1>2, <1>3

LEMMA FaultsAreNat ==
  ASSUME IInv PROVE faults \in Nat /\ MaxFaults \in Nat /\ faults <= MaxFaults
  BY BoundsAssumption DEF IInv, TypeOK

LEMMA PublishStep == IInv /\ (Republish \/ Upload) => IInv'
<1> SUFFICES ASSUME IInv, Republish \/ Upload PROVE IInv'
  OBVIOUS
<1>1. UNCHANGED <<exe, backup, staged, pc, version, want, got, alone, faults>>
  BY DEF Republish, Upload, disk, locals
<1>2. TypeOK'
  <2>1. CASE Republish
    BY <1>1, <2>1, BoundsAssumption DEF Republish, IInv, TypeOK, Versions
  <2>2. CASE Upload
    BY <1>1, <2>2 DEF Upload, IInv, TypeOK, locals
  <2> QED
    BY <2>1, <2>2
<1> QED
  BY <1>1, <1>2 DEF IInv, OnlyWholeBinaries, NeverLost, StagedIsWanted, AloneOnDisk

LEMMA BeginStep == ASSUME NEW u \in Updates PROVE IInv /\ Begin(u) => IInv'
<1> SUFFICES ASSUME IInv, Begin(u) PROVE IInv'
  OBVIOUS
<1>1. /\ exe \in Binaries /\ Go(u, "idle", "begun")
      /\ version' = [version EXCEPT ![u] = exe.content]
      /\ fresh' = [fresh EXCEPT ![u] = Published]
      /\ alone' = (alone /\ \A o \in Updates : pc[o] \notin Busy)
      /\ UNCHANGED <<newest, name, sums, asset, exe, backup, staged, want, got, faults>>
  BY DEF Begin, release, disk
<1>2. /\ pc'[u] = "begun" /\ \A o \in Updates \ {u} : pc'[o] = pc[o]
      /\ pc' \in [Updates -> Busy \cup Ended \cup {"idle"}]
  BY <1>1, PlaceChanges DEF Busy
<1>3. exe.content \in Versions
  BY <1>1, FilesAreFiles
<1>4. TypeOK'
  BY <1>1, <1>2, <1>3 DEF IInv, TypeOK, Published
<1>5. OnlyWholeBinaries' /\ NeverLost'
  BY <1>1 DEF IInv, OnlyWholeBinaries, NeverLost
<1>6. StagedIsWanted'
  BY <1>1, <1>2 DEF IInv, StagedIsWanted, Busy
<1>7. AloneOnDisk'
  BY <1>1, <1>2 DEF IInv, AloneOnDisk
<1> QED
  BY <1>4, <1>5, <1>6, <1>7 DEF IInv

LEMMA FetchSteps ==
  ASSUME NEW u \in Updates
  PROVE  IInv /\ (Ask(u) \/ FetchSums(u) \/ FetchAsset(u) \/ FetchFails(u)) => IInv'
<1> SUFFICES ASSUME IInv, Ask(u) \/ FetchSums(u) \/ FetchAsset(u) \/ FetchFails(u) PROVE IInv'
  OBVIOUS
<1>0. faults \in Nat /\ MaxFaults \in Nat /\ faults <= MaxFaults
  BY FaultsAreNat
<1>1. CASE Ask(u) \/ FetchFails(u)
  <2>1. PICK here \in {"begun", "asked", "summed"}, there \in {"done", "asked", "failed"} :
          Go(u, here, there)
    BY <1>1 DEF Ask, FetchFails
  <2>2. UNCHANGED <<release, disk, version, want, got, fresh, alone, faults>>
    BY <1>1 DEF Ask, FetchFails
  <2>3. /\ pc'[u] = there /\ \A o \in Updates \ {u} : pc'[o] = pc[o]
        /\ pc' \in [Updates -> Busy \cup Ended \cup {"idle"}]
    BY <2>1, PlaceChanges DEF Busy, Ended
  <2>4. TypeOK'
    BY <2>2, <2>3 DEF IInv, TypeOK, release, disk
  <2>5. OnlyWholeBinaries' /\ NeverLost' /\ AloneOnDisk'
    BY <1>0, <2>1, <2>2, FilesStay DEF Busy, Ended, Between, disk
  <2>6. StagedIsWanted'
    BY <2>1, <2>2, StagedStays DEF Busy, Ended, disk
  <2> QED
    BY <2>4, <2>5, <2>6 DEF IInv
<1>2. CASE FetchSums(u)
  <2>1. Go(u, "asked", "summed") /\ sums # 0 /\ want' = [want EXCEPT ![u] = sums]
    BY <1>2 DEF FetchSums
  <2>2. UNCHANGED <<release, disk, version, got, fresh, alone, faults>>
    BY <1>2 DEF FetchSums
  <2>3. /\ pc'[u] = "summed" /\ \A o \in Updates \ {u} : pc'[o] = pc[o]
        /\ pc' \in [Updates -> Busy \cup Ended \cup {"idle"}]
    BY <2>1, PlaceChanges DEF Busy
  <2>4. TypeOK'
    BY <2>1, <2>2, <2>3 DEF IInv, TypeOK, release, disk
  <2>5. OnlyWholeBinaries' /\ NeverLost' /\ AloneOnDisk'
    BY <1>0, <2>1, <2>2, FilesStay DEF Busy, Between, disk
  <2>6. StagedIsWanted'
    BY <2>1, <2>2, StagedStays DEF Busy, disk
  <2> QED
    BY <2>4, <2>5, <2>6 DEF IInv
<1>3. CASE FetchAsset(u)
  <2>1. PICK data \in {asset, Garbage} :
          /\ data = Garbage => faults < MaxFaults
          /\ faults' = IF data = Garbage THEN faults + 1 ELSE faults
          /\ got' = [got EXCEPT ![u] = data]
          /\ Go(u, "summed", IF data = want[u] THEN "verified" ELSE "failed")
    BY <1>3 DEF FetchAsset
  <2>2. UNCHANGED <<release, disk, version, want, fresh, alone>>
    BY <1>3 DEF FetchAsset
  <2>3. PICK there \in {"verified", "failed"} :
          Go(u, "summed", there) /\ (there = "verified" => data = want[u])
    BY <2>1
  <2>4. /\ pc[u] = "summed" /\ pc'[u] = there /\ \A o \in Updates \ {u} : pc'[o] = pc[o]
        /\ pc' \in [Updates -> Busy \cup Ended \cup {"idle"}]
    BY <2>3, PlaceChanges DEF Busy, Ended
  <2>5. want[u] \in Versions
    BY <2>4 DEF IInv, TypeOK
  <2>6. data \in Versions \cup {Garbage}
    BY <2>1 DEF IInv, TypeOK, Garbage
  <2>7. faults' \in 0..MaxFaults /\ faults <= faults'
    BY <1>0, <2>1
  <2>8. TypeOK'
    BY <2>1, <2>2, <2>4, <2>6, <2>7 DEF IInv, TypeOK, release, disk
  <2>9. OnlyWholeBinaries' /\ NeverLost' /\ AloneOnDisk'
    BY <1>0, <2>2, <2>3, <2>7, FilesStay DEF Busy, Ended, Between, disk
  <2>10. got'[u] = data /\ \A o \in Updates \ {u} : got'[o] = got[o] /\ staged'[o] = staged[o]
    BY <2>1, <2>2 DEF IInv, TypeOK, disk
  <2>11. StagedIsWanted'
    BY <2>3, <2>5, <2>10, StagedStays DEF Busy, Ended
  <2> QED
    BY <2>8, <2>9, <2>11 DEF IInv
<1> QED
  BY <1>1, <1>2, <1>3

LEMMA StageStep == ASSUME NEW u \in Updates PROVE IInv /\ Stage(u) => IInv'
<1> SUFFICES ASSUME IInv, Stage(u) PROVE IInv'
  OBVIOUS
<1>1. PICK here \in {"verified", "staged", "written"}, there \in {"staged", "written", "ready"},
           w \in BOOLEAN, r \in BOOLEAN :
        /\ Go(u, here, there) /\ staged' = [staged EXCEPT ![u] = File(got[u], w, r)]
        /\ there = "ready" => w = TRUE /\ r = TRUE
  BY DEF Stage
<1>2. UNCHANGED <<exe, backup, newest, name, sums, asset, version, want, got, fresh, alone, faults>>
  BY DEF Stage, Kept, release
<1>3. /\ pc[u] = here /\ pc'[u] = there /\ \A o \in Updates \ {u} : pc'[o] = pc[o]
      /\ pc' \in [Updates -> Busy \cup Ended \cup {"idle"}]
  BY <1>1, PlaceChanges DEF Busy
<1>4. got[u] \in Versions
  BY <1>3 DEF IInv, StagedIsWanted, Busy
<1>5. File(got[u], w, r) \in Files
  BY <1>4, FilesAreFiles
<1>6. TypeOK'
  BY <1>1, <1>2, <1>3, <1>5 DEF IInv, TypeOK
<1>7. faults \in Nat
  BY FaultsAreNat
<1>8. OnlyWholeBinaries' /\ NeverLost' /\ AloneOnDisk'
  BY <1>1, <1>2, <1>7, FilesStay DEF Busy, Between
<1>9. staged'[u] = File(got[u], w, r) /\ \A o \in Updates \ {u} : staged'[o] = staged[o]
  BY <1>1 DEF IInv, TypeOK
<1>10. StagedIsWanted'
  BY <1>1, <1>2, <1>4, <1>9, StagedStays DEF Busy
<1> QED
  BY <1>6, <1>8, <1>10 DEF IInv

(* A failed call gives up what was staged and touches nothing else.        *)
LEMMA CallFailsStep == ASSUME NEW u \in Updates PROVE IInv /\ CallFails(u) => IInv'
<1> SUFFICES ASSUME IInv, CallFails(u) PROVE IInv'
  OBVIOUS
<1>0. faults \in Nat /\ MaxFaults \in Nat /\ faults' = faults + 1 /\ faults' \in 0..MaxFaults
  BY FaultsAreNat DEF CallFails
<1>1. PICK here \in Busy \ {"ready", "aside", "installed"} :
        Go(u, here, "failed") /\ staged' = [staged EXCEPT ![u] = Nothing]
  BY DEF CallFails, Fails
<1>2. UNCHANGED <<exe, backup, newest, name, sums, asset, version, want, got, fresh, alone>>
  BY DEF CallFails, Fails, release
<1>3. /\ pc[u] = here /\ pc'[u] = "failed" /\ \A o \in Updates \ {u} : pc'[o] = pc[o]
      /\ pc' \in [Updates -> Busy \cup Ended \cup {"idle"}]
  BY <1>1, PlaceChanges DEF Ended
<1>4. TypeOK'
  BY <1>0, <1>1, <1>2, <1>3, FilesAreFiles DEF IInv, TypeOK
<1>5. OnlyWholeBinaries' /\ NeverLost' /\ AloneOnDisk'
  <2>1. CASE here # "undoing"
    BY <1>0, <1>1, <1>2, <2>1, FilesStay DEF Busy, Ended, Between
  <2>2. CASE here = "undoing"
    <3>1. OnlyWholeBinaries'
      BY <1>2 DEF IInv, OnlyWholeBinaries
    <3>2. AloneOnDisk'
      BY <1>0, <1>2, <1>3 DEF IInv, AloneOnDisk, Busy
    <3>3. alone => faults' >= 2
      BY <1>0, <1>3, <2>2 DEF IInv, AloneOnDisk
    <3>4. NeverLost'
      BY <1>2, <3>3 DEF IInv, NeverLost
    <3> QED
      BY <3>1, <3>2, <3>4
  <2> QED
    BY <2>1, <2>2
<1>6. \A o \in Updates \ {u} : staged'[o] = staged[o] /\ got'[o] = got[o]
  BY <1>1, <1>2 DEF IInv, TypeOK
<1>7. StagedIsWanted'
  BY <1>1, <1>6, StagedStays DEF Busy, Ended
<1> QED
  BY <1>4, <1>5, <1>7 DEF IInv

LEMMA MoveInFailsStep == ASSUME NEW u \in Updates PROVE IInv /\ MoveInFails(u) => IInv'
<1> SUFFICES ASSUME IInv, MoveInFails(u) PROVE IInv'
  OBVIOUS
<1>0. faults \in Nat /\ faults' = faults + 1 /\ faults' \in 0..MaxFaults
  BY FaultsAreNat DEF MoveInFails
<1>1. Go(u, "aside", "undoing")
  BY DEF MoveInFails
<1>2. UNCHANGED <<exe, backup, staged, newest, name, sums, asset, version, want, got, fresh, alone>>
  BY DEF MoveInFails, release, disk
<1>3. /\ pc[u] = "aside" /\ pc'[u] = "undoing" /\ \A o \in Updates \ {u} : pc'[o] = pc[o]
      /\ pc' \in [Updates -> Busy \cup Ended \cup {"idle"}]
  BY <1>1, PlaceChanges DEF Busy
<1>4. TypeOK'
  BY <1>0, <1>2, <1>3 DEF IInv, TypeOK
<1>5. OnlyWholeBinaries' /\ NeverLost' /\ AloneOnDisk'
  BY <1>0, <1>1, <1>2, FilesStay DEF Busy, Between
<1>6. got[u] \in Versions /\ staged[u] = File(got[u], TRUE, TRUE)
  BY <1>3 DEF IInv, StagedIsWanted, Busy
<1>7. StagedIsWanted'
  BY <1>1, <1>2, <1>6, StagedStays DEF Busy
<1> QED
  BY <1>4, <1>5, <1>7 DEF IInv

LEMMA KillStep == ASSUME NEW u \in Updates PROVE IInv /\ Kill(u) => IInv'
<1> SUFFICES ASSUME IInv, Kill(u) PROVE IInv'
  OBVIOUS
<1>0. faults \in Nat
  BY FaultsAreNat
<1>1. PICK here \in Busy, there \in {"killed", "stranded"} :
        Go(u, here, there) /\ (here \in Between <=> there = "stranded")
  BY DEF Kill
<1>2. UNCHANGED <<exe, backup, staged, newest, name, sums, asset, version, want, got, fresh,
                  alone, faults>>
  BY DEF Kill, release, disk
<1>3. /\ pc[u] = here /\ pc'[u] = there /\ \A o \in Updates \ {u} : pc'[o] = pc[o]
      /\ pc' \in [Updates -> Busy \cup Ended \cup {"idle"}]
  BY <1>1, PlaceChanges DEF Ended
<1>4. TypeOK'
  BY <1>2, <1>3 DEF IInv, TypeOK
<1>5. OnlyWholeBinaries' /\ NeverLost' /\ AloneOnDisk'
  <2>1. CASE here # "undoing"
    BY <1>0, <1>1, <1>2, <2>1, FilesStay DEF Busy, Ended, Between
  <2>2. CASE here = "undoing"
    <3>1. there = "stranded"
      BY <1>1, <2>2 DEF Between
    <3> QED
      BY <1>2, <1>3, <3>1 DEF IInv, OnlyWholeBinaries, NeverLost, AloneOnDisk, Busy, Between
  <2> QED
    BY <2>1, <2>2
<1>6. StagedIsWanted'
  BY <1>1, <1>2, StagedStays DEF Busy, Ended
<1> QED
  BY <1>4, <1>5, <1>6 DEF IInv

-----------------------------------------------------------------------------
(* The steps that move files at the two paths.                             *)

LEMMA BackupStep ==
  ASSUME NEW u \in Updates PROVE IInv /\ (ClearBackup(u) \/ RemoveBackup(u)) => IInv'
<1> SUFFICES ASSUME IInv, ClearBackup(u) \/ RemoveBackup(u) PROVE IInv'
  OBVIOUS
<1>1. PICK here \in {"ready", "installed"}, there \in {"cleared", "done"} :
        Go(u, here, there) /\ (here = "ready" <=> there = "cleared")
  BY DEF ClearBackup, RemoveBackup
<1>2. /\ backup' \in {backup, Nothing}
      /\ UNCHANGED <<exe, staged, newest, name, sums, asset, version, want, got, fresh, alone, faults>>
  BY DEF ClearBackup, RemoveBackup, Kept, release
<1>3. /\ pc[u] = here /\ pc'[u] = there /\ \A o \in Updates \ {u} : pc'[o] = pc[o]
      /\ pc' \in [Updates -> Busy \cup Ended \cup {"idle"}]
  BY <1>1, PlaceChanges DEF Busy, Ended
<1>4. TypeOK'
  BY <1>1, <1>2, <1>3, FilesAreFiles DEF IInv, TypeOK
<1>5. alone => exe \in Binaries
  BY <1>3 DEF IInv, AloneOnDisk, Busy, Between
<1>6. AloneOnDisk'
  BY <1>1, <1>2, <1>3, <1>5 DEF IInv, AloneOnDisk, Busy
<1>7. OnlyWholeBinaries' /\ NeverLost'
  BY <1>2, <1>5 DEF IInv, OnlyWholeBinaries, NeverLost
<1>8. \A o \in Updates : staged'[o] = staged[o] /\ got'[o] = got[o]
  BY <1>2
<1>9. here = "ready" => got[u] \in Versions /\ staged[u] = File(got[u], TRUE, TRUE)
  BY <1>3 DEF IInv, StagedIsWanted, Busy
<1>10. StagedIsWanted'
  BY <1>1, <1>8, <1>9, StagedStays DEF Busy, Ended
<1> QED
  BY <1>4, <1>6, <1>7, <1>10 DEF IInv

LEMMA MoveAsideStep == ASSUME NEW u \in Updates PROVE IInv /\ MoveAside(u) => IInv'
<1> SUFFICES ASSUME IInv, MoveAside(u) PROVE IInv'
  OBVIOUS
<1>0. UNCHANGED <<newest, name, sums, asset, version, want, got, fresh, alone, faults>>
  BY DEF MoveAside, Kept, release
<1>1. CASE exe = Nothing
  <2>1. /\ Go(u, "cleared", "failed") /\ staged' = [staged EXCEPT ![u] = Nothing]
        /\ UNCHANGED <<exe, backup>>
    BY <1>1 DEF MoveAside, Fails
  <2>2. /\ pc[u] = "cleared" /\ pc'[u] = "failed" /\ \A o \in Updates \ {u} : pc'[o] = pc[o]
        /\ pc' \in [Updates -> Busy \cup Ended \cup {"idle"}]
    BY <2>1, PlaceChanges DEF Ended
  <2>3. TypeOK'
    BY <1>0, <2>1, <2>2, FilesAreFiles DEF IInv, TypeOK
  <2>4. faults \in Nat
    BY FaultsAreNat
  <2>5. OnlyWholeBinaries' /\ NeverLost' /\ AloneOnDisk'
    BY <1>0, <2>1, <2>4, FilesStay DEF Busy, Ended, Between
  <2>6. \A o \in Updates \ {u} : staged'[o] = staged[o] /\ got'[o] = got[o]
    BY <1>0, <2>1 DEF IInv, TypeOK
  <2>7. StagedIsWanted'
    BY <2>1, <2>6, StagedStays DEF Busy, Ended
  <2> QED
    BY <2>3, <2>5, <2>7 DEF IInv
<1>2. CASE exe # Nothing
  <2>1. Go(u, "cleared", "aside") /\ backup' = exe /\ exe' = Nothing /\ staged' = staged
    BY <1>2 DEF MoveAside
  <2>2. /\ pc[u] = "cleared" /\ pc'[u] = "aside" /\ \A o \in Updates \ {u} : pc'[o] = pc[o]
        /\ pc' \in [Updates -> Busy \cup Ended \cup {"idle"}]
    BY <2>1, PlaceChanges DEF Busy
  <2>3. exe \in Binaries
    BY <1>2 DEF IInv, OnlyWholeBinaries
  <2>4. TypeOK'
    BY <1>0, <2>1, <2>2, FilesAreFiles DEF IInv, TypeOK
  <2>5. OnlyWholeBinaries' /\ NeverLost'
    BY <2>1, <2>2, <2>3 DEF OnlyWholeBinaries, NeverLost, Between
  <2>6. AloneOnDisk'
    BY <1>0, <2>2 DEF IInv, AloneOnDisk, Busy, Between
  <2>7. got[u] \in Versions /\ staged[u] = File(got[u], TRUE, TRUE)
    BY <2>2 DEF IInv, StagedIsWanted, Busy
  <2>8. StagedIsWanted'
    BY <1>0, <2>1, <2>7, StagedStays DEF Busy
  <2> QED
    BY <2>4, <2>5, <2>6, <2>8 DEF IInv
<1> QED
  BY <1>1, <1>2

LEMMA MoveInStep == ASSUME NEW u \in Updates PROVE IInv /\ MoveIn(u) => IInv'
<1> SUFFICES ASSUME IInv, MoveIn(u) PROVE IInv'
  OBVIOUS
<1>1. /\ Go(u, "aside", "installed") /\ exe' = staged[u] /\ backup' = backup
      /\ staged' = [staged EXCEPT ![u] = Nothing]
      /\ UNCHANGED <<newest, name, sums, asset, version, want, got, fresh, alone, faults>>
  BY DEF MoveIn, Kept, release
<1>2. /\ pc[u] = "aside" /\ pc'[u] = "installed" /\ \A o \in Updates \ {u} : pc'[o] = pc[o]
      /\ pc' \in [Updates -> Busy \cup Ended \cup {"idle"}]
  BY <1>1, PlaceChanges DEF Busy
<1>3. got[u] \in Versions /\ exe' = File(got[u], TRUE, TRUE)
  BY <1>1, <1>2 DEF IInv, StagedIsWanted, Busy
<1>4. exe' \in Binaries
  BY <1>3, FilesAreFiles
<1>5. TypeOK'
  BY <1>1, <1>2, <1>4, FilesAreFiles DEF IInv, TypeOK
<1>6. OnlyWholeBinaries' /\ NeverLost'
  BY <1>1, <1>4 DEF IInv, OnlyWholeBinaries, NeverLost
<1>7. AloneOnDisk'
  BY <1>1, <1>2, <1>4 DEF IInv, AloneOnDisk, Busy
<1>8. \A o \in Updates \ {u} : staged'[o] = staged[o] /\ got'[o] = got[o]
  BY <1>1 DEF IInv, TypeOK
<1>9. StagedIsWanted'
  BY <1>1, <1>3, <1>8, StagedStays DEF Busy
<1> QED
  BY <1>5, <1>6, <1>7, <1>9 DEF IInv

LEMMA UndoStep == ASSUME NEW u \in Updates PROVE IInv /\ Undo(u) => IInv'
<1> SUFFICES ASSUME IInv, Undo(u) PROVE IInv'
  OBVIOUS
<1>1. /\ Go(u, "undoing", "failed")
      /\ IF backup = Nothing THEN UNCHANGED <<exe, backup>>
                             ELSE exe' = backup /\ backup' = Nothing
      /\ staged' = [staged EXCEPT ![u] = Nothing]
      /\ UNCHANGED <<newest, name, sums, asset, version, want, got, fresh, alone, faults>>
  BY DEF Undo, Kept, release
<1>2. /\ pc[u] = "undoing" /\ pc'[u] = "failed" /\ \A o \in Updates \ {u} : pc'[o] = pc[o]
      /\ pc' \in [Updates -> Busy \cup Ended \cup {"idle"}]
  BY <1>1, PlaceChanges DEF Ended
<1>3. OnlyWholeBinaries'
  BY <1>1 DEF IInv, OnlyWholeBinaries
<1>4. TypeOK'
  BY <1>1, <1>2, FilesAreFiles DEF IInv, TypeOK
<1>5. alone => exe' \in Binaries
  <2> SUFFICES ASSUME alone PROVE exe' \in Binaries
    OBVIOUS
  <2>1. exe \in Binaries \/ backup \in Binaries
    BY DEF IInv, NeverLost
  <2> QED
    BY <1>1, <2>1, FilesAreFiles DEF IInv, OnlyWholeBinaries
<1>6. NeverLost'
  BY <1>1, <1>5 DEF NeverLost
<1>7. AloneOnDisk'
  BY <1>1, <1>2, <1>5 DEF IInv, AloneOnDisk, Busy, Between
<1>8. \A o \in Updates \ {u} : staged'[o] = staged[o] /\ got'[o] = got[o]
  BY <1>1 DEF IInv, TypeOK
<1>9. StagedIsWanted'
  BY <1>1, <1>8, StagedStays DEF Busy, Ended
<1> QED
  BY <1>3, <1>4, <1>6, <1>7, <1>9 DEF IInv

LEMMA NextIInv == IInv /\ [Next]_vars => IInv'
<1> SUFFICES ASSUME IInv, [Next]_vars PROVE IInv'
  OBVIOUS
<1>1. CASE Republish \/ Upload
  BY <1>1, PublishStep
<1>2. ASSUME NEW u \in Updates, Begin(u) PROVE IInv'
  BY <1>2, BeginStep
<1>3. ASSUME NEW u \in Updates, Update(u) PROVE IInv'
  BY <1>3, FetchSteps, StageStep, BackupStep, MoveAsideStep, MoveInStep, MoveInFailsStep,
     UndoStep, CallFailsStep DEF Update
<1>4. ASSUME NEW u \in Updates, Kill(u) PROVE IInv'
  BY <1>4, KillStep
<1>5. CASE UNCHANGED vars
  BY <1>5 DEF vars, release, disk, locals, IInv, TypeOK, OnlyWholeBinaries, NeverLost,
              StagedIsWanted, AloneOnDisk
<1> QED
  BY <1>1, <1>2, <1>3, <1>4, <1>5 DEF Next

LEMMA AlwaysIInv == Spec => []IInv
  BY InitIInv, NextIInv, PTL DEF Spec

-----------------------------------------------------------------------------
(* Arrival.                                                                *)

LEMMA InitArrivalInv == Init => ArrivalInv
  BY DEF Init, ArrivalInv, FreshIsPublished, FreshGetsNewest

\* Two files are the same only if they are of one version.
LEMMA FilesTell == \A v, w \in Versions : File(v, TRUE, TRUE) = File(w, TRUE, TRUE) => v = w
<1> SUFFICES ASSUME NEW v \in Versions, NEW w \in Versions,
                    File(v, TRUE, TRUE) = File(w, TRUE, TRUE) PROVE v = w
  OBVIOUS
<1>1. File(v, TRUE, TRUE).content = v /\ File(w, TRUE, TRUE).content = w
  BY DEF File
<1> QED
  BY <1>1

\* The release, as an update that is alone sees it.
LEMMA NextFreshIsPublished == IInv /\ FreshIsPublished /\ [Next]_vars => FreshIsPublished'
<1> SUFFICES ASSUME IInv, FreshIsPublished, [Next]_vars PROVE FreshIsPublished'
  OBVIOUS
<1> USE DEF FreshIsPublished
<1>0. fresh \in [Updates -> BOOLEAN] /\ pc \in [Updates -> Busy \cup Ended \cup {"idle"}]
  BY DEF IInv, TypeOK
<1>1. CASE Republish
  BY <1>0, <1>1 DEF Republish
<1>2. CASE Upload
  BY <1>0, <1>2 DEF Upload, Published, locals
<1>3. ASSUME NEW u \in Updates, Begin(u) PROVE FreshIsPublished'
  BY <1>0, <1>3 DEF Begin, Go, Published, release
<1>4. ASSUME NEW u \in Updates, Update(u) \/ Kill(u) PROVE FreshIsPublished'
  <2>1. UNCHANGED <<newest, name, sums, asset, fresh>>
    BY <1>4 DEF Update, Ask, FetchSums, FetchAsset, FetchFails, Stage, ClearBackup, MoveAside, MoveIn,
       RemoveBackup, MoveInFails, Undo, CallFails, Kill, Kept, release
  <2>2. /\ pc'[u] # "idle"
        /\ \A o \in Updates \ {u} : pc'[o] = pc[o]
    <3>1. CASE Ask(u) \/ FetchSums(u) \/ FetchAsset(u) \/ FetchFails(u)
      BY <1>0, <3>1 DEF Ask, FetchSums, FetchAsset, FetchFails, Go
    <3>2. CASE Stage(u) \/ ClearBackup(u) \/ MoveAside(u) \/ MoveIn(u) \/ RemoveBackup(u)
      BY <1>0, <3>2 DEF Stage, ClearBackup, MoveAside, MoveIn, RemoveBackup, Fails, Go
    <3>3. CASE MoveInFails(u) \/ Undo(u) \/ CallFails(u) \/ Kill(u)
      BY <1>0, <3>3 DEF MoveInFails, Undo, CallFails, Kill, Fails, Go
    <3> QED
      BY <1>4, <3>1, <3>2, <3>3 DEF Update
  <2> QED
    BY <2>1, <2>2 DEF Published
<1>5. CASE UNCHANGED vars
  BY <1>5 DEF vars, release, locals, Published
<1> QED
  BY <1>1, <1>2, <1>3, <1>4, <1>5 DEF Next

\* A step of an update that is alone.  Of the others, none is busy; one that is
\* fresh and done does not let it come further than asking.
LEMMA StepAlone ==
  ASSUME IInv, ArrivalInv, alone, NEW u \in Updates, pc[u] \in Busy
  PROVE  /\ \A o \in Updates \ {u} : pc[o] \notin Busy
         /\ pc[u] # "begun" => \A o \in Updates : ~(fresh[o] /\ pc[o] = "done")
         /\ \A o \in Updates : fresh[o] /\ pc[o] = "done" =>
              exe = File(newest, TRUE, TRUE) /\ version[u] = newest /\ Published
  BY DEF IInv, AloneOnDisk, ArrivalInv, FreshGetsNewest, FreshIsPublished

\* Steps that leave the installed binary and the ends of updates alone.
LEMMA QuietStep ==
  ASSUME IInv, ArrivalInv, NEW u \in Updates, NEW here \in Busy, NEW there \in Busy \cup (Ended \ {"done"}),
         Go(u, here, there), UNCHANGED <<newest, version, fresh, alone>>,
         there # "begun", there # "installed",
         here = "begun" => there \in Ended \cup {"asked"},
         there = "asked" => name # version[u],
         \A o \in Updates \ {u} : want'[o] = want[o] /\ got'[o] = got[o],
         alone /\ fresh[u] /\ there \in Busy \ {"asked"} => want'[u] = newest,
         alone /\ fresh[u] /\ there \in Busy \ {"asked", "summed"} => got'[u] = newest,
         exe' = exe \/ pc[u] # "begun"
  PROVE  FreshGetsNewest'
<1> SUFFICES ASSUME alone PROVE FreshGetsNewest'
  BY DEF FreshGetsNewest
<1>1. /\ pc[u] = here /\ pc'[u] = there /\ \A o \in Updates \ {u} : pc'[o] = pc[o]
      /\ pc[u] \in Busy /\ there # "done"
  <2>1. there # "done"
    BY DEF Busy, Ended
  <2> QED
    BY <2>1, PlaceChanges
<1>2. \A o \in Updates \ {u} : pc[o] \notin Busy /\ pc'[o] \notin Busy
  BY <1>1, StepAlone
<1>3. \A o \in Updates : fresh[o] /\ pc'[o] = "done" => pc[o] = "done" /\ pc[u] = "begun"
  <2> SUFFICES ASSUME NEW o \in Updates, fresh[o], pc'[o] = "done"
               PROVE  pc[o] = "done" /\ pc[u] = "begun"
    OBVIOUS
  <2>1. o # u /\ pc[o] = "done"
    BY <1>1
  <2> QED
    BY <1>1, <2>1, StepAlone
<1> SUFFICES ASSUME NEW o \in Updates, fresh[o]
    PROVE /\ pc'[o] = "begun" => exe' = File(version[o], TRUE, TRUE)
          /\ pc'[o] \in Busy \ {"begun", "asked"} => want'[o] = newest
          /\ pc'[o] \in Busy \ {"begun", "asked", "summed"} => got'[o] = newest
          /\ pc'[o] = "installed" => exe' = File(newest, TRUE, TRUE)
          /\ pc'[o] = "done" =>
               /\ exe' = File(newest, TRUE, TRUE)
               /\ \A a \in Updates : pc'[a] \in Busy => pc'[a] = "begun" /\ version[a] = newest
  BY DEF FreshGetsNewest
<1>4. CASE pc'[o] = "done"
  <2>1. pc[o] = "done" /\ pc[u] = "begun" /\ exe = File(newest, TRUE, TRUE) /\ Published /\ exe' = exe
    BY <1>1, <1>3, <1>4, StepAlone
  <2>2. version[u] = newest /\ name = newest
    BY <1>1, <2>1, StepAlone DEF Published
  <2>3. pc'[u] \notin Busy
    BY <1>1, <2>1, <2>2 DEF Busy, Ended
  <2> QED
    BY <1>1, <1>2, <1>4, <2>1, <2>3
<1>5. CASE pc'[o] # "done" /\ o # u
  BY <1>2, <1>5 DEF Busy
<1>6. CASE pc'[o] # "done" /\ o = u
  BY <1>1, <1>6
<1> QED
  BY <1>4, <1>5, <1>6

\* The steps that end an update in success, or install what it has.
LEMMA LoudStep ==
  ASSUME IInv, ArrivalInv, NEW u \in Updates, NEW here \in Busy, NEW there \in {"installed", "done"},
         Go(u, here, there), UNCHANGED <<newest, version, want, got, fresh, alone>>,
         alone /\ fresh[u] => exe' = File(newest, TRUE, TRUE),
         here = "begun" => exe' = exe,
         there = "installed" => here \notin {"begun", "asked", "summed"}
  PROVE  FreshGetsNewest'
<1> SUFFICES ASSUME alone PROVE FreshGetsNewest'
  BY DEF FreshGetsNewest
<1>1. /\ pc[u] = here /\ pc'[u] = there /\ \A o \in Updates \ {u} : pc'[o] = pc[o]
      /\ pc[u] \in Busy
  <2>1. there \in Busy \cup Ended
    BY DEF Busy, Ended
  <2> QED
    BY <2>1, PlaceChanges
<1>2. \A o \in Updates \ {u} : pc[o] \notin Busy /\ pc'[o] \notin Busy
  BY <1>1, StepAlone
<1> SUFFICES ASSUME NEW o \in Updates, fresh[o]
    PROVE /\ pc'[o] = "begun" => exe' = File(version[o], TRUE, TRUE)
          /\ pc'[o] \in Busy \ {"begun", "asked"} => want[o] = newest
          /\ pc'[o] \in Busy \ {"begun", "asked", "summed"} => got[o] = newest
          /\ pc'[o] = "installed" => exe' = File(newest, TRUE, TRUE)
          /\ pc'[o] = "done" =>
               /\ exe' = File(newest, TRUE, TRUE)
               /\ \A a \in Updates : pc'[a] \in Busy => pc'[a] = "begun" /\ version[a] = newest
  BY DEF FreshGetsNewest
<1>3. CASE o = u
  <2>1. exe' = File(newest, TRUE, TRUE)
    BY <1>3
  <2>2. there = "installed" => want[u] = newest /\ got[u] = newest
    BY <1>1, <1>3 DEF ArrivalInv, FreshGetsNewest, Busy
  <2>3. there = "done" => \A a \in Updates : pc'[a] \notin Busy
    BY <1>1, <1>2 DEF Busy
  <2> QED
    BY <1>1, <1>3, <2>1, <2>2, <2>3 DEF Busy
<1>4. CASE o # u /\ pc'[o] # "done"
  BY <1>2, <1>4 DEF Busy
<1>5. CASE o # u /\ pc'[o] = "done"
  <2>1. pc[o] = "done" /\ pc[u] = "begun" /\ exe = File(newest, TRUE, TRUE)
    BY <1>1, <1>5, StepAlone
  <2>2. there = "done" /\ exe' = exe
    BY <1>1, <2>1
  <2>3. \A a \in Updates : pc'[a] \notin Busy
    BY <1>1, <1>2, <2>2 DEF Busy
  <2> QED
    BY <1>5, <2>1, <2>2, <2>3
<1> QED
  BY <1>3, <1>4, <1>5

LEMMA NextFreshGetsNewest == IInv /\ ArrivalInv /\ [Next]_vars => FreshGetsNewest'
<1> SUFFICES ASSUME IInv, ArrivalInv, [Next]_vars PROVE FreshGetsNewest'
  OBVIOUS
<1>0. /\ want \in [Updates -> Versions \cup {0}] /\ got \in [Updates -> Versions \cup {Garbage}]
      /\ fresh \in [Updates -> BOOLEAN] /\ version \in [Updates -> Versions \cup {0}]
      /\ pc \in [Updates -> Busy \cup Ended \cup {"idle"}]
  BY DEF IInv, TypeOK
<1>1. CASE Republish
  BY <1>0, <1>1 DEF Republish, FreshGetsNewest
<1>2. CASE Upload
  BY <1>2 DEF Upload, ArrivalInv, FreshGetsNewest, locals, disk
<1>3. ASSUME NEW u \in Updates, Begin(u) PROVE FreshGetsNewest'
  <2> SUFFICES ASSUME alone' PROVE FreshGetsNewest'
    BY DEF FreshGetsNewest
  <2>1. /\ exe \in Binaries /\ exe' = exe /\ newest' = newest /\ want' = want /\ got' = got
        /\ pc' = [pc EXCEPT ![u] = "begun"] /\ version' = [version EXCEPT ![u] = exe.content]
        /\ fresh' = [fresh EXCEPT ![u] = Published] /\ alone /\ \A o \in Updates : pc[o] \notin Busy
    BY <1>3 DEF Begin, Go, release, disk
  <2>2. PICK v \in Versions : exe = File(v, TRUE, TRUE)
    BY <2>1 DEF Binaries
  <2>3. version'[u] = v
    BY <1>0, <2>1, <2>2 DEF File
  <2>4. \A o \in Updates \ {u} : pc'[o] = pc[o] /\ fresh'[o] = fresh[o] /\ pc'[o] \notin Busy
    BY <1>0, <2>1
  <2>5. \A o \in Updates \ {u} : fresh[o] /\ pc[o] = "done" => exe = File(newest, TRUE, TRUE)
    BY <2>1 DEF ArrivalInv, FreshGetsNewest
  <2>6. newest \in Versions
    BY DEF IInv, TypeOK
  <2>7. pc'[u] = "begun"
    BY <1>0, <2>1
  <2>8. \A o \in Updates \ {u} : fresh[o] /\ pc[o] = "done" => version'[u] = newest
    BY <2>2, <2>3, <2>5, <2>6, FilesTell
  <2> QED
    BY <2>1, <2>2, <2>3, <2>4, <2>5, <2>7, <2>8 DEF FreshGetsNewest, Busy
<1>4. ASSUME NEW u \in Updates, Ask(u) PROVE FreshGetsNewest'
  <2>1. UNCHANGED <<newest, exe, version, want, got, fresh, alone>>
    BY <1>4 DEF Ask, release, disk
  <2>2. CASE name = version[u]
    <3>1. Go(u, "begun", "done")
      BY <1>4, <2>2 DEF Ask
    <3>2. alone /\ fresh[u] => exe = File(newest, TRUE, TRUE)
      BY <2>2, <3>1 DEF Go, ArrivalInv, FreshIsPublished, FreshGetsNewest, Published
    <3> QED
      BY <2>1, <3>1, <3>2, LoudStep DEF Busy
  <2>3. CASE name # version[u]
    <3>1. Go(u, "begun", "asked")
      BY <1>4, <2>3 DEF Ask
    <3> QED
      BY <2>1, <2>3, <3>1, QuietStep DEF Busy, Ended
  <2> QED
    BY <2>2, <2>3
<1>5. ASSUME NEW u \in Updates, FetchSums(u) PROVE FreshGetsNewest'
  <2>1. /\ Go(u, "asked", "summed") /\ want' = [want EXCEPT ![u] = sums]
        /\ UNCHANGED <<newest, exe, version, got, fresh, alone>>
    BY <1>5 DEF FetchSums, release, disk
  <2>2. fresh[u] => want'[u] = newest
    BY <1>0, <2>1 DEF ArrivalInv, FreshIsPublished, Published
  <2> QED
    BY <1>0, <2>1, <2>2, QuietStep DEF Busy, Ended
<1>6. ASSUME NEW u \in Updates, FetchAsset(u) PROVE FreshGetsNewest'
  <2>1. PICK data \in {asset, Garbage} :
          got' = [got EXCEPT ![u] = data] /\ Go(u, "summed", IF data = want[u] THEN "verified" ELSE "failed")
    BY <1>6 DEF FetchAsset
  <2>2. UNCHANGED <<newest, exe, version, want, fresh, alone>>
    BY <1>6 DEF FetchAsset, release, disk
  <2>3. alone /\ fresh[u] => want[u] = newest
    BY <2>1 DEF Go, ArrivalInv, FreshGetsNewest, Busy
  <2>4. CASE data = want[u]
    BY <1>0, <2>1, <2>2, <2>3, <2>4, QuietStep DEF Busy, Ended
  <2>5. CASE data # want[u]
    BY <1>0, <2>1, <2>2, <2>5, QuietStep DEF Busy, Ended
  <2> QED
    BY <2>4, <2>5
<1>7. ASSUME NEW u \in Updates, FetchFails(u) \/ CallFails(u) \/ Kill(u) \/ Undo(u) PROVE FreshGetsNewest'
  <2>1. UNCHANGED <<newest, version, want, got, fresh, alone>> /\ (exe' = exe \/ Undo(u))
    BY <1>7 DEF FetchFails, CallFails, Fails, Kill, Undo, Kept, release, disk
  <2>2. PICK here \in Busy, there \in Ended \ {"done"} : Go(u, here, there)
    <3>1. CASE FetchFails(u)
      BY <3>1 DEF FetchFails, Busy, Ended
    <3>2. CASE CallFails(u)
      BY <3>2 DEF CallFails, Fails, Busy, Ended
    <3>3. CASE Kill(u)
      BY <3>3 DEF Kill, Busy, Ended
    <3>4. CASE Undo(u)
      BY <3>4 DEF Undo, Busy, Ended
    <3> QED
      BY <1>7, <3>1, <3>2, <3>3, <3>4
  <2>3. exe' = exe \/ pc[u] # "begun"
    BY <2>1 DEF Undo, Go
  <2> QED
    BY <2>1, <2>2, <2>3, QuietStep DEF Busy, Ended
<1>8. ASSUME NEW u \in Updates, Stage(u) \/ ClearBackup(u) \/ MoveAside(u) \/ MoveInFails(u)
      PROVE  FreshGetsNewest'
  <2>1. UNCHANGED <<newest, version, want, got, fresh, alone>>
    BY <1>8 DEF Stage, ClearBackup, MoveAside, MoveInFails, Kept, release
  <2>2. PICK here \in Busy \ {"begun", "asked", "summed"},
             there \in {"staged", "written", "ready", "cleared", "aside", "undoing", "failed"} :
          Go(u, here, there)
    BY <1>8 DEF Stage, ClearBackup, MoveAside, MoveInFails, Fails, Busy
  <2>3. pc[u] = here
    BY <2>2 DEF Go
  <2>4. alone /\ fresh[u] => want[u] = newest /\ got[u] = newest
    BY <2>2, <2>3 DEF ArrivalInv, FreshGetsNewest
  <2> QED
    BY <2>1, <2>2, <2>3, <2>4, QuietStep DEF Busy, Ended
<1>9. ASSUME NEW u \in Updates, MoveIn(u) PROVE FreshGetsNewest'
  <2>1. Go(u, "aside", "installed") /\ exe' = staged[u] /\ UNCHANGED <<newest, version, want, got, fresh, alone>>
    BY <1>9 DEF MoveIn, Kept, release
  <2>2. pc[u] = "aside"
    BY <2>1 DEF Go
  <2>3. alone /\ fresh[u] => got[u] = newest
    BY <2>2 DEF ArrivalInv, FreshGetsNewest, Busy
  <2>4. staged[u] = File(got[u], TRUE, TRUE)
    BY <2>2 DEF IInv, StagedIsWanted
  <2> QED
    BY <2>1, <2>3, <2>4, LoudStep DEF Busy
<1>10. ASSUME NEW u \in Updates, RemoveBackup(u) PROVE FreshGetsNewest'
  <2>1. Go(u, "installed", "done") /\ exe' = exe /\ UNCHANGED <<newest, version, want, got, fresh, alone>>
    BY <1>10 DEF RemoveBackup, Kept, release
  <2>2. alone /\ fresh[u] => exe = File(newest, TRUE, TRUE)
    BY <2>1 DEF Go, ArrivalInv, FreshGetsNewest
  <2> QED
    BY <2>1, <2>2, LoudStep DEF Busy
<1>11. CASE UNCHANGED vars
  BY <1>11 DEF vars, release, disk, locals, ArrivalInv, FreshGetsNewest
<1> QED
  BY <1>1, <1>2, <1>3, <1>4, <1>5, <1>6, <1>7, <1>8, <1>9, <1>10, <1>11 DEF Next, Update

-----------------------------------------------------------------------------
(* What an update that fails leaves.                                       *)

\* A step of u that keeps the old binary where u's place says it is.
LEMMA OldStays ==
  ASSUME IInv, OldIsKept, NEW u \in Updates, NEW here \in Busy, NEW there \in Busy \cup Ended,
         Go(u, here, there), version' = version, alone' = alone,
         alone /\ there \in Busy \ (Between \cup {"installed"}) => exe' = Running(u),
         alone /\ there \in Between => exe' = Nothing /\ backup' = Running(u)
  PROVE  OldIsKept'
<1> SUFFICES ASSUME alone PROVE OldIsKept'
  BY DEF OldIsKept
<1>1. pc[u] = here /\ pc'[u] = there /\ \A o \in Updates \ {u} : pc'[o] = pc[o]
  BY PlaceChanges
<1>2. \A o \in Updates \ {u} : pc'[o] \notin Busy
  BY <1>1 DEF IInv, AloneOnDisk
<1> QED
  BY <1>1, <1>2 DEF OldIsKept, Running, Busy, Between

\* One that leaves both files alone, and does not come to install them.
LEMMA OldUntouched ==
  ASSUME IInv, OldIsKept, NEW u \in Updates, NEW here \in Busy,
         NEW there \in (Busy \ {"installed"}) \cup Ended,
         Go(u, here, there), UNCHANGED <<version, alone, exe, backup>>,
         there \in Between <=> here \in Between /\ there \in Busy,
         here = "installed" => there \in Ended
  PROVE  OldIsKept'
<1>1. pc[u] = here
  BY DEF Go
<1>2. alone /\ there \in Busy \ (Between \cup {"installed"}) => exe' = Running(u)
  BY <1>1 DEF OldIsKept, Busy, Ended
<1>3. alone /\ there \in Between => exe' = Nothing /\ backup' = Running(u)
  BY <1>1 DEF OldIsKept, Busy
<1> QED
  BY <1>2, <1>3, OldStays

LEMMA NextOldIsKept == IInv /\ OldIsKept /\ [Next]_vars => OldIsKept'
<1> SUFFICES ASSUME IInv, OldIsKept, [Next]_vars PROVE OldIsKept'
  OBVIOUS
<1>1. CASE Republish \/ Upload \/ UNCHANGED vars
  <2>1. UNCHANGED <<pc, version, exe, backup, alone>>
    BY <1>1 DEF Republish, Upload, vars, disk, locals
  <2> QED
    BY <2>1 DEF OldIsKept, Running
<1>2. ASSUME NEW u \in Updates, Begin(u) PROVE OldIsKept'
  <2> SUFFICES ASSUME alone' PROVE OldIsKept'
    BY DEF OldIsKept
  <2>1. /\ exe \in Binaries /\ exe' = exe /\ Go(u, "idle", "begun")
        /\ version' = [version EXCEPT ![u] = exe.content] /\ \A o \in Updates : pc[o] \notin Busy
    BY <1>2 DEF Begin, disk
  <2>2. /\ pc'[u] = "begun" /\ \A o \in Updates \ {u} : pc'[o] \notin Busy
    BY <2>1, PlaceChanges DEF Busy
  <2>3. exe = File(exe.content, TRUE, TRUE)
    <3>1. PICK v \in Versions : exe = File(v, TRUE, TRUE)
      BY <2>1 DEF Binaries
    <3>2. exe.content = v
      BY <3>1 DEF File
    <3> QED
      BY <3>1, <3>2
  <2>4. version'[u] = exe.content
    BY <2>1 DEF IInv, TypeOK
  <2> QED
    BY <2>1, <2>2, <2>3, <2>4 DEF OldIsKept, Running, Busy, Between
<1>3. ASSUME NEW u \in Updates, Ask(u) \/ FetchSums(u) \/ FetchAsset(u) \/ FetchFails(u) PROVE OldIsKept'
  <2>1. PICK here \in {"begun", "asked", "summed"},
             there \in {"done", "asked", "summed", "verified", "failed"} : Go(u, here, there)
    BY <1>3 DEF Ask, FetchSums, FetchAsset, FetchFails
  <2>2. UNCHANGED <<version, alone, exe, backup>>
    BY <1>3 DEF Ask, FetchSums, FetchAsset, FetchFails, disk
  <2> QED
    BY <2>1, <2>2, OldUntouched DEF Busy, Ended, Between
<1>4. ASSUME NEW u \in Updates, Stage(u) \/ MoveInFails(u) PROVE OldIsKept'
  <2>1. UNCHANGED <<version, alone, exe, backup>>
    BY <1>4 DEF Stage, MoveInFails, Kept, disk
  <2>2. CASE Stage(u)
    <3>1. PICK here \in {"verified", "staged", "written"}, there \in {"staged", "written", "ready"} :
            Go(u, here, there)
      BY <2>2 DEF Stage
    <3> QED
      BY <2>1, <3>1, OldUntouched DEF Busy, Between
  <2>3. CASE MoveInFails(u)
    BY <2>1, <2>3, OldUntouched DEF MoveInFails, Busy, Between
  <2> QED
    BY <1>4, <2>2, <2>3
<1>5. ASSUME NEW u \in Updates, ClearBackup(u) \/ RemoveBackup(u) PROVE OldIsKept'
  <2>1. PICK here \in {"ready", "installed"}, there \in {"cleared", "done"} :
          Go(u, here, there) /\ (here = "ready" <=> there = "cleared")
    BY <1>5 DEF ClearBackup, RemoveBackup
  <2>2. UNCHANGED <<version, alone, exe>>
    BY <1>5 DEF ClearBackup, RemoveBackup, Kept
  <2>3. alone /\ here = "ready" => exe = Running(u)
    BY <2>1 DEF Go, OldIsKept, Busy, Between
  <2> QED
    BY <2>1, <2>2, <2>3, OldStays DEF Busy, Ended, Between
<1>6. ASSUME NEW u \in Updates, MoveAside(u) PROVE OldIsKept'
  <2>1. UNCHANGED <<version, alone>> /\ pc[u] = "cleared"
    BY <1>6 DEF MoveAside, Kept, Fails, Go
  <2>2. alone => exe = Running(u)
    BY <2>1 DEF OldIsKept, Busy, Between
  <2>3. CASE exe = Nothing
    BY <1>6, <2>1, <2>3, OldUntouched DEF MoveAside, Fails, Busy, Ended, Between
  <2>4. CASE exe # Nothing
    BY <1>6, <2>1, <2>2, <2>4, OldStays DEF MoveAside, Busy, Between
  <2> QED
    BY <2>3, <2>4
<1>7. ASSUME NEW u \in Updates, MoveIn(u) \/ Undo(u) PROVE OldIsKept'
  <2>1. PICK here \in Between, there \in {"installed", "failed"} : Go(u, here, there)
    BY <1>7 DEF MoveIn, Undo, Between
  <2>2. UNCHANGED <<version, alone>>
    BY <1>7 DEF MoveIn, Undo, Kept
  <2> QED
    BY <2>1, <2>2, OldStays DEF Busy, Ended, Between
<1>8. ASSUME NEW u \in Updates, CallFails(u) \/ Kill(u) PROVE OldIsKept'
  <2>1. PICK here \in Busy, there \in Ended : Go(u, here, there)
    <3>1. CASE CallFails(u)
      BY <3>1 DEF CallFails, Fails, Ended
    <3>2. CASE Kill(u)
      BY <3>2 DEF Kill, Ended
    <3> QED
      BY <1>8, <3>1, <3>2
  <2>2. UNCHANGED <<version, alone, exe, backup>>
    BY <1>8 DEF CallFails, Fails, Kill, disk
  <2> QED
    BY <2>1, <2>2, OldUntouched DEF Busy, Ended, Between
<1> QED
  BY <1>1, <1>2, <1>3, <1>4, <1>5, <1>6, <1>7, <1>8 DEF Next, Update

LEMMA FailureStep ==
  ASSUME IInv, OldIsKept, [Next]_vars, NEW u \in Updates, alone,
         pc[u] \in Busy \ {"installed"}, pc'[u] \in Ended \ {"done"}
  PROVE  \/ exe' = Running(u)
         \/ /\ pc'[u] = "stranded" \/ pc[u] = "undoing"
            /\ exe' = Nothing /\ backup' = Running(u)
<1>1. pc'[u] # pc[u] /\ pc'[u] \notin Busy
  BY DEF Busy, Ended
<1>2. \/ FetchFails(u) \/ FetchAsset(u) \/ CallFails(u) \/ MoveAside(u) \/ Undo(u) \/ Kill(u)
  <2>1. PICK o \in Updates : Begin(o) \/ Update(o) \/ Kill(o)
    BY <1>1 DEF Next, Republish, Upload, vars, locals
  <2>2. o = u
    <3>1. \E here, there : Go(o, here, there)
      BY <2>1, <1>1 DEF Begin, Update, Ask, FetchSums, FetchAsset, FetchFails, Stage, ClearBackup,
         MoveAside, Fails, MoveIn, RemoveBackup, MoveInFails, Undo, CallFails, Kill
    <3> QED
      BY <1>1, <3>1 DEF Go, IInv, TypeOK
  <2>3. \A here, there : Go(u, here, there) => pc'[u] = there
    BY DEF Go, IInv, TypeOK
  <2>4. ~Begin(u) /\ ~Ask(u) /\ ~FetchSums(u)
    BY <1>1, <2>3 DEF Begin, Ask, FetchSums, Busy, Ended
  <2>5. ~Stage(u) /\ ~ClearBackup(u) /\ ~MoveIn(u) /\ ~RemoveBackup(u) /\ ~MoveInFails(u)
    BY <1>1, <2>3 DEF Stage, ClearBackup, MoveIn, RemoveBackup, MoveInFails, Busy, Ended
  <2> QED
    BY <2>1, <2>2, <2>4, <2>5 DEF Update
<1>3. CASE FetchFails(u) \/ FetchAsset(u)
  <2>1. exe' = exe /\ pc[u] \in {"asked", "summed"}
    BY <1>3 DEF FetchFails, FetchAsset, Go, disk
  <2> QED
    BY <2>1 DEF OldIsKept, Busy, Between
<1>4. CASE MoveAside(u)
  <2>1. pc[u] = "cleared" /\ exe = Running(u)
    BY <1>4 DEF MoveAside, Fails, Go, OldIsKept, Busy, Between
  <2>2. CASE exe = Nothing
    BY <1>4, <2>1, <2>2 DEF MoveAside, Fails
  <2>3. CASE exe # Nothing
    <3>1. Go(u, "cleared", "aside")
      BY <1>4, <2>3 DEF MoveAside
    <3>2. pc'[u] = "aside"
      BY <3>1 DEF Go, IInv, TypeOK
    <3> QED
      BY <3>2 DEF Ended
  <2> QED
    BY <2>2, <2>3
<1>5. CASE Undo(u)
  <2>1. pc[u] = "undoing" /\ exe = Nothing /\ backup = Running(u)
    BY <1>5 DEF Undo, Go, OldIsKept, Busy, Between
  <2> QED
    BY <1>5, <2>1 DEF Undo
<1>6. CASE CallFails(u)
  <2>1. UNCHANGED <<exe, backup>> /\ pc[u] # "aside"
    BY <1>6 DEF CallFails, Fails, Go
  <2> QED
    BY <2>1 DEF OldIsKept, Between
<1>7. CASE Kill(u)
  <2>1. UNCHANGED <<exe, backup>>
    BY <1>7 DEF Kill, disk
  <2>2. pc[u] \in Between => pc'[u] = "stranded"
    BY <1>7 DEF Kill, Go, IInv, TypeOK
  <2> QED
    BY <2>1, <2>2 DEF OldIsKept
<1> QED
  BY <1>2, <1>3, <1>4, <1>5, <1>6, <1>7

-----------------------------------------------------------------------------
(* That updates which come one at a time implement Installation.           *)

\* What the versions of files are, and that they are numbers.
LEMMA Contents ==
  ASSUME IInv
  PROVE  /\ exe.content \in Nat /\ backup.content \in Nat /\ Nothing.content = 0
         /\ newest \in Nat /\ sums \in Nat /\ asset \in Nat
         /\ want \in [Updates -> Nat] /\ got \in [Updates -> Nat]
<1>1. Nothing.content = 0
  BY DEF Nothing, File, Garbage
<1>2. \A f \in Binaries \cup {Nothing} : f.content \in Nat
  BY <1>1, FilesAreFiles, Numbers
<1>3. \A v \in Versions \cup {0} : v \in Nat
  BY Numbers
<1> QED
  BY <1>1, <1>2, <1>3 DEF IInv, OnlyWholeBinaries, TypeOK, Garbage

\* The version in force while an update is alone: the one it was started from,
\* until its own is in.
LEMMA InForceIs ==
  ASSUME IInv, OldIsKept, alone, NEW u \in Updates, pc[u] \in Busy
  PROVE  /\ pc[u] # "installed" => InForce = version[u]
         /\ pc[u] = "installed" => InForce = exe.content /\ exe # Nothing
<1>1. Running(u).content = version[u] /\ Running(u) # Nothing
  BY DEF Running, Nothing, File
<1>2. CASE pc[u] = "installed"
  <2>1. exe \in Binaries
    BY <1>2 DEF IInv, AloneOnDisk, Busy, Between
  <2> QED
    BY <1>2, <2>1, FilesAreFiles DEF InForce
<1>3. CASE pc[u] \in Between
  <2>1. exe = Nothing /\ backup = Running(u)
    BY <1>3 DEF OldIsKept
  <2> QED
    BY <1>1, <1>3, <2>1 DEF InForce, Between
<1>4. CASE pc[u] \notin Between \cup {"installed"}
  <2>1. exe = Running(u)
    BY <1>4 DEF OldIsKept
  <2> QED
    BY <1>1, <1>4, <2>1 DEF InForce
<1> QED
  BY <1>2, <1>3, <1>4

\* Only the second rename changes it, and nobody but the update that is alone.
LEMMA InForceStays ==
  ASSUME IInv, OldIsKept, IInv', OldIsKept', [Next]_vars, NEW u \in Updates, NEW here \in Busy,
         NEW there \in Busy \cup Ended, Go(u, here, there), version' = version, alone, alone',
         there # "installed",
         here = "installed" \/ there = "done" => exe' = exe /\ (backup' = backup \/ exe # Nothing)
  PROVE  InForce' = InForce
<1>1. pc[u] = here /\ pc'[u] = there
  BY PlaceChanges
<1>2. CASE here = "installed" \/ there = "done"
  BY <1>2 DEF InForce
<1>3. CASE here # "installed" /\ there \in Busy
  <2>1. InForce = version[u]
    BY <1>1, <1>3, InForceIs
  <2>2. InForce' = version'[u]
    <3>1. pc'[u] \notin Between => exe' = Running(u)'
      BY <1>1, <1>3 DEF OldIsKept, Busy
    <3>2. pc'[u] \in Between => exe' = Nothing /\ backup' = Running(u)'
      BY <1>1, <1>3 DEF OldIsKept, Busy
    <3>3. Running(u)'.content = version'[u] /\ Running(u)' # Nothing
      BY DEF Running, Nothing, File
    <3> QED
      BY <3>1, <3>2, <3>3 DEF InForce
  <2> QED
    BY <2>1, <2>2
<1>4. CASE here # "installed" /\ there \in Ended \ {"done"}
  <2>1. InForce = version[u]
    BY <1>1, <1>4, InForceIs
  <2>2. exe' = Running(u) \/ (exe' = Nothing /\ backup' = Running(u))
    BY <1>1, <1>4, FailureStep
  <2>3. Running(u).content = version[u] /\ Running(u) # Nothing
    BY DEF Running, Nothing, File
  <2> QED
    BY <2>1, <2>2, <2>3 DEF InForce
<1> QED
  BY <1>2, <1>3, <1>4

ForwardInv == ChecksumsLead /\ OnlyForward

LEMMA InitForwardInv == Init => ForwardInv
<1> SUFFICES ASSUME Init PROVE ForwardInv
  OBVIOUS
<1>1. exe.content = 1 /\ backup.content = 0
  BY DEF Init, File, Nothing, Garbage
<1>2. newest = 1 /\ sums = 1 /\ \A u \in Updates : want[u] = 0 /\ pc[u] \notin Busy
  BY DEF Init, Busy
<1> QED
  BY <1>1, <1>2 DEF ForwardInv, ChecksumsLead, OnlyForward

\* Steps that neither change the release nor bring a new file to the two paths.
LEMMA ChecksumsStillLead ==
  ASSUME IInv, ChecksumsLead, UNCHANGED <<newest, sums, want>>,
         {exe', backup'} \subseteq {exe, backup, Nothing}
  PROVE  ChecksumsLead'
<1>1. /\ sums <= newest
      /\ \A f \in {exe, backup, Nothing} : f.content <= newest /\ (sums # 0 => f.content <= sums)
  BY Contents DEF ChecksumsLead
<1> QED
  BY <1>1 DEF ChecksumsLead

LEMMA NextChecksumsLead == IInv /\ ForwardInv /\ [Next]_vars => ChecksumsLead'
<1> SUFFICES ASSUME IInv, ChecksumsLead, OnlyForward, [Next]_vars PROVE ChecksumsLead'
  BY DEF ForwardInv
<1>1. CASE Republish
  <2>1. newest' = newest + 1 /\ UNCHANGED <<sums, exe, backup, want>>
    BY <1>1 DEF Republish, disk
  <2>2. \A n \in Nat : n <= newest => n <= newest + 1
    BY Contents
  <2> QED
    BY <2>1, <2>2, Contents DEF ChecksumsLead
<1>2. CASE Upload
  <2>1. sums' \in {sums, 0, newest} /\ UNCHANGED <<newest, exe, backup, want>>
    BY <1>2 DEF Upload, disk, locals
  <2> QED
    BY <2>1, Contents DEF ChecksumsLead
<1>3. ASSUME NEW u \in Updates, FetchSums(u) PROVE ChecksumsLead'
  <2>1. want' = [want EXCEPT ![u] = sums] /\ UNCHANGED <<newest, sums, exe, backup>>
    BY <1>3 DEF FetchSums, release, disk
  <2>2. \A o \in Updates : want'[o] = want[o] \/ want'[o] = sums
    BY <2>1, Contents
  <2> QED
    BY <2>1, <2>2, Contents DEF ChecksumsLead
<1>4. ASSUME NEW u \in Updates, MoveIn(u) PROVE ChecksumsLead'
  <2>1. UNCHANGED <<newest, sums, want, backup>> /\ exe' = staged[u] /\ pc[u] = "aside"
    BY <1>4 DEF MoveIn, Kept, release, Go
  <2>2. staged[u] = File(got[u], TRUE, TRUE) /\ got[u] = want[u]
    BY <2>1 DEF IInv, StagedIsWanted, OnlyForward, Busy
  <2>3. exe'.content = want[u]
    BY <2>1, <2>2 DEF File
  <2> QED
    BY <2>1, <2>3 DEF ChecksumsLead
<1>5. ASSUME NEW u \in Updates, Begin(u) \/ Ask(u) \/ FetchAsset(u) \/ FetchFails(u) \/ Kill(u)
      PROVE  ChecksumsLead'
  <2>1. UNCHANGED <<newest, sums, want, exe, backup>>
    BY <1>5 DEF Begin, Ask, FetchAsset, FetchFails, Kill, release, disk
  <2> QED
    BY <2>1, ChecksumsStillLead
<1>6. ASSUME NEW u \in Updates, Stage(u) \/ ClearBackup(u) \/ RemoveBackup(u) \/ MoveInFails(u) \/ CallFails(u)
      PROVE  ChecksumsLead'
  <2>1. UNCHANGED <<newest, sums, want, exe>> /\ backup' \in {backup, Nothing}
    BY <1>6 DEF Stage, ClearBackup, RemoveBackup, MoveInFails, CallFails, Fails, Kept, release, disk
  <2> QED
    BY <2>1, ChecksumsStillLead
<1>7. ASSUME NEW u \in Updates, MoveAside(u) \/ Undo(u) PROVE ChecksumsLead'
  <2>1. UNCHANGED <<newest, sums, want>> /\ {exe', backup'} \subseteq {exe, backup, Nothing}
    BY <1>7 DEF MoveAside, Undo, Fails, Kept, release
  <2> QED
    BY <2>1, ChecksumsStillLead
<1>8. CASE UNCHANGED vars
  <2>1. UNCHANGED <<newest, sums, want, exe, backup>>
    BY <1>8 DEF vars, release, disk, locals
  <2> QED
    BY <2>1, ChecksumsStillLead
<1> QED
  BY <1>1, <1>2, <1>3, <1>4, <1>5, <1>6, <1>7, <1>8 DEF Next, Update

\* A step of an update that goes on with what it looks for.
LEMMA GoesForward ==
  ASSUME IInv, OnlyForward, NEW u \in Updates, NEW here \in Busy, NEW there \in Busy \cup Ended,
         Go(u, here, there), alone' = alone,
         \A o \in Updates \ {u} : want'[o] = want[o] /\ got'[o] = got[o],
         there \in Busy \ {"begun", "asked", "summed"} => got'[u] = want'[u],
         alone /\ there \in Busy \ {"begun", "asked"} => InForce' <= want'[u]
  PROVE  OnlyForward'
<1>1. pc[u] = here /\ pc'[u] = there /\ \A o \in Updates \ {u} : pc'[o] = pc[o]
  BY PlaceChanges
<1>2. ASSUME NEW o \in Updates, pc'[o] \in Busy \ {"begun", "asked", "summed"} PROVE got'[o] = want'[o]
  <2>1. CASE o = u
    BY <1>1, <1>2, <2>1
  <2>2. CASE o # u
    BY <1>1, <1>2, <2>2 DEF OnlyForward
  <2> QED
    BY <2>1, <2>2
<1>3. ASSUME alone, NEW o \in Updates, pc'[o] \in Busy \ {"begun", "asked"} PROVE InForce' <= want'[o]
  <2>1. o = u
    BY <1>1, <1>3 DEF IInv, AloneOnDisk
  <2> QED
    BY <1>1, <1>3, <2>1
<1> QED
  BY <1>2, <1>3 DEF OnlyForward

\* The same for one that leaves what it looks for, and has downloaded, alone.
LEMMA GoesOn ==
  ASSUME IInv, OldIsKept, OnlyForward, IInv', OldIsKept', [Next]_vars, NEW u \in Updates,
         NEW here \in Busy, NEW there \in (Busy \ {"begun", "installed"}) \cup Ended,
         Go(u, here, there), UNCHANGED <<version, want, got, alone>>,
         here = "begun" => there \in Ended \cup {"asked"},
         here = "asked" => there \in Ended,
         here = "summed" => there \in Ended,
         here = "installed" => there \in Ended
  PROVE  OnlyForward'
<1>1. pc[u] = here
  BY DEF Go
<1>2. there \in Busy \ {"begun", "asked"} => here \in Busy \ {"begun", "asked", "summed", "installed"}
  BY DEF Busy, Ended
<1>3. there \in Busy \ {"begun", "asked", "summed"} => got[u] = want[u]
  BY <1>1, <1>2 DEF OnlyForward
<1>4. ASSUME alone, there \in Busy \ {"begun", "asked"} PROVE InForce' <= want[u]
  <2>1. InForce <= want[u]
    BY <1>1, <1>2, <1>4 DEF OnlyForward
  <2>2. there # "done" /\ here # "installed" /\ there # "installed"
    BY <1>2, <1>4 DEF Busy, Ended
  <2>3. InForce' = InForce
    BY <1>4, <2>2, InForceStays
  <2> QED
    BY <2>1, <2>3
<1> QED
  BY <1>3, <1>4, GoesForward

LEMMA NextOnlyForward ==
  ASSUME IInv, OldIsKept, ForwardInv, IInv', OldIsKept', [Next]_vars
  PROVE  OnlyForward'
<1>0. ChecksumsLead /\ OnlyForward
  BY DEF ForwardInv
<1>1. CASE Republish \/ Upload \/ UNCHANGED vars
  <2>1. UNCHANGED <<pc, want, got, alone, exe, backup>>
    BY <1>1 DEF Republish, Upload, vars, disk, locals
  <2> QED
    BY <1>0, <2>1 DEF OnlyForward, InForce
<1>2. ASSUME NEW u \in Updates, Begin(u) PROVE OnlyForward'
  <2>1. /\ Go(u, "idle", "begun") /\ UNCHANGED <<want, got, exe, backup>>
        /\ alone' => \A o \in Updates : pc[o] \notin Busy
    BY <1>2 DEF Begin, disk
  <2>2. pc'[u] = "begun" /\ \A o \in Updates \ {u} : pc'[o] = pc[o]
    BY <2>1, PlaceChanges DEF Busy
  <2> QED
    BY <1>0, <2>1, <2>2 DEF OnlyForward
<1>3. ASSUME NEW u \in Updates, FetchSums(u) PROVE OnlyForward'
  <2>1. /\ sums # 0 /\ Go(u, "asked", "summed") /\ want' = [want EXCEPT ![u] = sums]
        /\ UNCHANGED <<exe, backup, got, alone>>
    BY <1>3 DEF FetchSums, disk
  <2>2. want'[u] = sums /\ \A o \in Updates \ {u} : want'[o] = want[o]
    BY <2>1, Contents
  <2>3. InForce' = InForce /\ InForce <= sums
    BY <1>0, <2>1 DEF InForce, ChecksumsLead
  <2> QED
    BY <1>0, <2>1, <2>2, <2>3, GoesForward DEF Busy
<1>4. ASSUME NEW u \in Updates, FetchAsset(u) PROVE OnlyForward'
  <2>1. PICK data \in {asset, Garbage} :
          got' = [got EXCEPT ![u] = data] /\ Go(u, "summed", IF data = want[u] THEN "verified" ELSE "failed")
    BY <1>4 DEF FetchAsset
  <2>2. UNCHANGED <<exe, backup, want, alone>> /\ pc[u] = "summed"
    BY <1>4, <2>1 DEF FetchAsset, disk, Go
  <2>3. got'[u] = data /\ \A o \in Updates \ {u} : got'[o] = got[o]
    BY <2>1, Contents
  <2>4. InForce' = InForce /\ (alone => InForce <= want[u])
    BY <1>0, <2>2 DEF InForce, OnlyForward, Busy
  <2>5. CASE data = want[u]
    BY <1>0, <2>1, <2>2, <2>3, <2>4, <2>5, GoesForward DEF Busy
  <2>6. CASE data # want[u]
    BY <1>0, <2>1, <2>2, <2>3, <2>6, GoesForward DEF Busy, Ended
  <2> QED
    BY <2>5, <2>6
<1>5. ASSUME NEW u \in Updates, MoveIn(u) PROVE OnlyForward'
  <2>1. Go(u, "aside", "installed") /\ exe' = staged[u] /\ UNCHANGED <<want, got, alone>>
    BY <1>5 DEF MoveIn, Kept
  <2>2. pc[u] = "aside" /\ staged[u] = File(got[u], TRUE, TRUE) /\ got[u] = want[u]
    BY <1>0, <2>1 DEF Go, IInv, StagedIsWanted, OnlyForward, Busy
  <2>3. InForce' = want[u]
    <3>1. exe'.content = want[u] /\ exe' # Nothing
      BY <2>1, <2>2 DEF File, Nothing
    <3> QED
      BY <3>1 DEF InForce
  <2>4. want[u] <= want[u]
    BY Contents
  <2> QED
    BY <1>0, <2>1, <2>2, <2>3, <2>4, GoesForward DEF Busy
<1>6. ASSUME NEW u \in Updates,
             \/ Ask(u) \/ FetchFails(u) \/ Stage(u) \/ ClearBackup(u) \/ MoveAside(u)
             \/ RemoveBackup(u) \/ MoveInFails(u) \/ Undo(u) \/ CallFails(u) \/ Kill(u)
      PROVE  OnlyForward'
  <2>1. UNCHANGED <<version, want, got, alone>>
    BY <1>6 DEF Ask, FetchFails, Stage, ClearBackup, MoveAside, RemoveBackup, MoveInFails,
       Undo, CallFails, Kill, Kept
  <2>2. CASE Ask(u)
    <3>1. PICK there \in {"done", "asked"} : Go(u, "begun", there)
      BY <2>2 DEF Ask
    <3> QED
      BY <1>0, <2>1, <3>1, GoesOn DEF Busy, Ended
  <2>3. CASE Stage(u) \/ ClearBackup(u) \/ MoveAside(u) \/ MoveInFails(u)
    <3>1. PICK here \in {"verified", "staged", "written", "ready", "cleared", "aside"},
               there \in {"staged", "written", "ready", "cleared", "aside", "undoing", "failed"} :
            Go(u, here, there)
      BY <2>3 DEF Stage, ClearBackup, MoveAside, MoveInFails, Fails
    <3> QED
      BY <1>0, <2>1, <3>1, GoesOn DEF Busy, Ended
  <2>4. CASE FetchFails(u) \/ RemoveBackup(u) \/ Undo(u) \/ CallFails(u) \/ Kill(u)
    <3>1. PICK here \in Busy, there \in Ended : Go(u, here, there)
      BY <2>4 DEF FetchFails, RemoveBackup, Undo, CallFails, Fails, Kill, Busy, Ended
    <3> QED
      BY <1>0, <2>1, <3>1, GoesOn DEF Busy, Ended
  <2> QED
    BY <1>6, <2>2, <2>3, <2>4
<1> QED
  BY <1>1, <1>2, <1>3, <1>4, <1>5, <1>6 DEF Next, Update

\* What Installation sees of an update's place.
LEMMA RunIs ==
  ASSUME NEW u \in Updates, IInv
  PROVE  /\ pc[u] = "idle" => Runs[u] = "idle"
         /\ pc[u] \in Busy \ {"installed"} => Runs[u] = "trying"
         /\ pc[u] = "installed" => Runs[u] = "installed"
         /\ pc[u] = "done" => Runs[u] = "succeeded"
         /\ pc[u] \in Ended \ {"done"} => Runs[u] = "ended"
         /\ Runs[u] \in {"trying", "installed"} <=> pc[u] \in Busy
<1>1. pc[u] \in Busy \cup Ended \cup {"idle"} /\ Runs[u] = RunOf(u)
  BY DEF IInv, TypeOK, Runs
<1> QED
  BY <1>1 DEF RunOf, Busy, Ended

\* ... and of a step of its.
LEMMA RunChanges ==
  ASSUME IInv, IInv', NEW u \in Updates, NEW here, NEW there \in Busy \cup Ended, Go(u, here, there)
  PROVE  /\ Runs' = [Runs EXCEPT ![u] = Runs'[u]]
         /\ there \in Busy \ {"installed"} => Runs'[u] = "trying"
         /\ there = "installed" => Runs'[u] = "installed"
         /\ there = "done" => Runs'[u] = "succeeded"
         /\ there \in Ended \ {"done"} => Runs'[u] = "ended"
<1>1. pc'[u] = there /\ \A o \in Updates \ {u} : pc'[o] = pc[o]
  BY PlaceChanges
<1>2. \A o \in Updates \ {u} : Runs'[o] = Runs[o]
  BY <1>1 DEF Runs, RunOf
<1>3. Runs = [o \in Updates |-> Runs[o]] /\ Runs' = [o \in Updates |-> Runs'[o]]
  BY DEF Runs
<1>4. Runs' = [Runs EXCEPT ![u] = Runs'[u]]
  BY <1>2, <1>3
<1>5. Runs'[u] = RunOf(u)'
  BY DEF Runs
<1> QED
  BY <1>1, <1>4, <1>5 DEF RunOf, Busy, Ended

LEMMA RefinesInit == Init => Promised!Init
<1> SUFFICES ASSUME Init PROVE Promised!Init
  OBVIOUS
<1>1. Runs = [u \in Updates |-> "idle"]
  <2>1. \A u \in Updates : RunOf(u) = "idle"
    BY DEF Init, RunOf, Busy
  <2> QED
    BY <2>1 DEF Runs
<1>2. Known = 1
  BY DEF Init, Known, InForce, File, Nothing
<1> QED
  BY <1>1, <1>2 DEF Init, Promised!Init

\* Steps of an update that Installation does not see, and its ends.
LEMMA RefinesQuietly ==
  ASSUME IInv, OldIsKept, IInv', OldIsKept', [Next]_vars, NEW u \in Updates,
         NEW here \in Busy \ {"installed"}, NEW there \in Busy \ {"installed"},
         Go(u, here, there), UNCHANGED <<newest, version, fresh, alone>>
  PROVE  UNCHANGED Promised!vars
<1>1. pc[u] = here /\ pc'[u] = there
  BY PlaceChanges
<1>2. Runs[u] = "trying" /\ Runs'[u] = "trying"
  BY <1>1, RunIs, RunChanges
<1>3. Runs' = Runs
  BY <1>2, RunChanges DEF Runs
<1>4. alone => InForce' = InForce
  BY InForceStays DEF Busy, Ended
<1> QED
  BY <1>3, <1>4 DEF Promised!vars, Known

LEMMA RefinesEnd ==
  ASSUME IInv, OldIsKept, ArrivalInv, IInv', OldIsKept', ArrivalInv', [Next]_vars, NEW u \in Updates,
         NEW here \in Busy, NEW there \in Ended,
         Go(u, here, there), UNCHANGED <<newest, version, fresh, alone>>,
         alone /\ (here = "installed" \/ there = "done") =>
           exe' = exe /\ (backup' = backup \/ exe # Nothing)
  PROVE  Promised!Next
<1>1. pc[u] = here /\ pc'[u] = there
  BY PlaceChanges
<1>2. Runs[u] \in {"trying", "installed"} /\ Runs' = [Runs EXCEPT ![u] = Runs'[u]]
  BY <1>1, RunIs, RunChanges
<1>3. Known' = Known
  BY InForceStays DEF Known, Ended
<1>4. CASE there = "done"
  <2>1. Runs'[u] = "succeeded"
    BY <1>4, RunChanges
  <2>2. ASSUME fresh[u], alone PROVE InForce = newest
    <3>1. exe' = File(newest, TRUE, TRUE)
      BY <1>1, <1>4, <2>2 DEF ArrivalInv, FreshGetsNewest
    <3>2. exe' # Nothing /\ exe'.content = newest
      BY <3>1 DEF File, Nothing
    <3> QED
      BY <1>3, <2>2, <3>2 DEF InForce, Known
  <2>3. Promised!Succeed(u)
    BY <1>2, <1>3, <2>1, <2>2 DEF Promised!Succeed, Promised!Running, Promised!Unknown, Known
  <2> QED
    BY <2>3 DEF Promised!Next
<1>5. CASE there # "done"
  <2>1. Runs'[u] = "ended"
    BY <1>5, RunChanges
  <2>2. Promised!End(u)
    BY <1>2, <1>3, <2>1 DEF Promised!End, Promised!Running
  <2> QED
    BY <2>2 DEF Promised!Next
<1> QED
  BY <1>4, <1>5

LEMMA RefinesBegin ==
  ASSUME IInv, IInv', NEW u \in Updates, Begin(u)
  PROVE  Promised!Next
<1>1. /\ Go(u, "idle", "begun") /\ pc[u] = "idle"
      /\ fresh' = [fresh EXCEPT ![u] = Published]
      /\ alone' = (alone /\ \A o \in Updates : pc[o] \notin Busy)
      /\ UNCHANGED <<newest, exe, backup>>
  BY DEF Begin, Go, release, disk
<1>2. Runs[u] = "idle" /\ Runs' = [Runs EXCEPT ![u] = "trying"]
  BY <1>1, RunIs, RunChanges DEF Busy
<1>3. Published \in BOOLEAN
  BY DEF Published
<1>4. Known' = IF \E o \in Updates : Runs[o] \in Promised!Running THEN 0 ELSE Known
  <2>1. (\E o \in Updates : Runs[o] \in Promised!Running) <=> ~(\A o \in Updates : pc[o] \notin Busy)
    BY RunIs DEF Promised!Running
  <2>2. InForce' = InForce
    BY <1>1 DEF InForce
  <2> QED
    BY <1>1, <2>1, <2>2 DEF Known
<1>5. Promised!Start(u)
  BY <1>1, <1>2, <1>3, <1>4 DEF Promised!Start, Promised!Unknown
<1> QED
  BY <1>5 DEF Promised!Next

LEMMA RefinesMoveIn ==
  ASSUME IInv, IInv', ForwardInv, NEW u \in Updates, MoveIn(u)
  PROVE  Promised!Next
<1>1. /\ Go(u, "aside", "installed") /\ pc[u] = "aside" /\ exe' = staged[u]
      /\ UNCHANGED <<newest, fresh, alone>>
  BY DEF MoveIn, Kept, release, Go
<1>2. Runs[u] = "trying" /\ Runs' = [Runs EXCEPT ![u] = "installed"]
  BY <1>1, RunIs, RunChanges DEF Busy
<1>3. ASSUME alone PROVE Known' \in Known..newest
  <2>1. staged[u] = File(want[u], TRUE, TRUE)
    BY <1>1 DEF IInv, StagedIsWanted, ForwardInv, OnlyForward, Busy
  <2>2. exe' # Nothing /\ exe'.content = want[u]
    BY <1>1, <2>1 DEF File, Nothing
  <2>3. Known' = want[u] /\ Known = InForce
    BY <1>1, <1>3, <2>2 DEF Known, InForce
  <2>4. InForce <= want[u] /\ want[u] <= newest
    BY <1>1, <1>3 DEF ForwardInv, OnlyForward, ChecksumsLead, Busy
  <2>5. InForce \in Nat /\ want[u] \in Nat /\ newest \in Nat
    BY Contents DEF InForce
  <2> QED
    BY <2>3, <2>4, <2>5
<1>4. ASSUME ~alone PROVE Known' = Known /\ Known = 0
  BY <1>1, <1>4 DEF Known
<1>5. ASSUME alone PROVE Known # 0
  <2>1. exe = Nothing => backup \in Binaries
    BY <1>5, FilesAreFiles DEF IInv, NeverLost
  <2>2. exe # Nothing => exe \in Binaries
    BY DEF IInv, OnlyWholeBinaries
  <2>3. \A b \in Binaries : b.content # 0
    BY FilesAreFiles, Numbers
  <2> QED
    BY <1>5, <2>1, <2>2, <2>3 DEF Known, InForce
<1>6. Promised!Install(u)
  BY <1>1, <1>2, <1>3, <1>4, <1>5 DEF Promised!Install, Promised!Unknown
<1> QED
  BY <1>6 DEF Promised!Next

LEMMA RefinesNext ==
  ASSUME IInv, OldIsKept, ArrivalInv, ForwardInv, IInv', OldIsKept', ArrivalInv', [Next]_vars
  PROVE  [Promised!Next]_(Promised!vars)
<1>1. CASE Republish
  <2>1. /\ newest < MaxVersion /\ newest' = newest + 1 /\ fresh' = [u \in Updates |-> FALSE]
        /\ UNCHANGED <<pc, exe, backup, alone>>
    BY <1>1 DEF Republish, disk
  <2>2. Runs' = Runs /\ Known' = Known
    BY <2>1 DEF Runs, RunOf, Known, InForce
  <2>3. Promised!Publish
    BY <2>1, <2>2 DEF Promised!Publish
  <2> QED
    BY <2>3 DEF Promised!Next
<1>2. CASE Upload \/ UNCHANGED vars
  <2>1. UNCHANGED <<newest, pc, fresh, exe, backup, alone>>
    BY <1>2 DEF Upload, vars, release, disk, locals
  <2>2. Runs' = Runs /\ Known' = Known
    BY <2>1 DEF Runs, RunOf, Known, InForce
  <2> QED
    BY <2>1, <2>2 DEF Promised!vars
<1>3. ASSUME NEW u \in Updates, Begin(u) PROVE Promised!Next
  BY <1>3, RefinesBegin
<1>4. ASSUME NEW u \in Updates, MoveIn(u) PROVE Promised!Next
  BY <1>4, RefinesMoveIn
<1>5. ASSUME NEW u \in Updates,
             \/ Ask(u) \/ FetchSums(u) \/ FetchAsset(u) \/ FetchFails(u)
             \/ Stage(u) \/ ClearBackup(u) \/ MoveAside(u) \/ RemoveBackup(u)
             \/ MoveInFails(u) \/ Undo(u) \/ CallFails(u) \/ Kill(u)
      PROVE  [Promised!Next]_(Promised!vars)
  <2>1. UNCHANGED <<newest, version, fresh, alone>>
    BY <1>5 DEF Ask, FetchSums, FetchAsset, FetchFails, Stage, ClearBackup, MoveAside,
       RemoveBackup, MoveInFails, Undo, CallFails, Kill, Kept, release
  <2>2. CASE Ask(u)
    <3>1. PICK there \in {"done", "asked"} : Go(u, "begun", there)
      BY <2>2 DEF Ask
    <3>2. UNCHANGED <<exe, backup>>
      BY <2>2 DEF Ask, disk
    <3>3. CASE there = "asked"
      BY <2>1, <3>1, <3>3, RefinesQuietly DEF Busy
    <3>4. CASE there = "done"
      BY <2>1, <3>1, <3>2, <3>4, RefinesEnd DEF Busy, Ended
    <3> QED
      BY <3>1, <3>3, <3>4
  <2>3. CASE FetchSums(u) \/ FetchAsset(u) \/ Stage(u) \/ ClearBackup(u) \/ MoveAside(u) \/ MoveInFails(u)
    <3>1. PICK here \in Busy \ {"installed"},
               there \in (Busy \ {"installed"}) \cup {"failed"} : Go(u, here, there)
      BY <2>3 DEF FetchSums, FetchAsset, Stage, ClearBackup, MoveAside, MoveInFails, Fails, Busy
    <3>2. CASE there # "failed"
      BY <2>1, <3>1, <3>2, RefinesQuietly
    <3>3. CASE there = "failed"
      BY <2>1, <3>1, <3>3, RefinesEnd DEF Ended
    <3> QED
      BY <3>2, <3>3
  <2>4. CASE RemoveBackup(u)
    <3>1. pc[u] = "installed" /\ Go(u, "installed", "done") /\ exe' = exe
      BY <2>4 DEF RemoveBackup, Go
    <3>2. alone => exe # Nothing
      BY <3>1, FilesAreFiles DEF IInv, AloneOnDisk, Busy, Between
    <3> QED
      BY <2>1, <3>1, <3>2, RefinesEnd DEF Busy, Ended
  <2>5. CASE Kill(u)
    <3>1. PICK here \in Busy, there \in {"stranded", "killed"} : Go(u, here, there)
      BY <2>5 DEF Kill
    <3>2. UNCHANGED <<exe, backup>>
      BY <2>5 DEF Kill, disk
    <3> QED
      BY <2>1, <3>1, <3>2, RefinesEnd DEF Ended
  <2>6. CASE FetchFails(u) \/ Undo(u) \/ CallFails(u)
    <3>1. PICK here \in Busy \ {"installed"} : Go(u, here, "failed")
      BY <2>6 DEF FetchFails, Undo, CallFails, Fails, Busy
    <3> QED
      BY <2>1, <3>1, RefinesEnd DEF Ended
  <2> QED
    BY <1>5, <2>2, <2>3, <2>4, <2>5, <2>6
<1> QED
  BY <1>1, <1>2, <1>3, <1>4, <1>5 DEF Next, Update

-----------------------------------------------------------------------------
(* The theorems.                                                           *)

\* Type correctness: an update is at one of its steps, and never looks for a
\* checksum that the release did not list.
THEOREM UpdateTypeCorrect == Spec => []TypeOK
<1>1. IInv => TypeOK
  BY DEF IInv
<1> QED
  BY <1>1, AlwaysIInv, PTL

\* replaceExecutable puts nothing at the installed path, or beside it, but whole
\* binaries whose checksum downloadAndReplace has compared, also when updates
\* overlap and are killed.
THEOREM OnlyVerifiedInstalled == Spec => []OnlyWholeBinaries
<1>1. IInv => OnlyWholeBinaries
  BY DEF IInv
<1> QED
  BY <1>1, AlwaysIInv, PTL

\* One update at a time, killed anywhere, leaves a binary at its path or as .old.
THEOREM BinarySurvives == Spec => []NeverLost
<1>1. IInv => NeverLost
  BY DEF IInv
<1> QED
  BY <1>1, AlwaysIInv, PTL

\* Success means the newest version, from a release that stood still for an update
\* that had the disk to itself: downloadAndReplace installs what it asked for.
THEOREM SuccessIsNewest == Spec => []UpdateArrives
<1>1. ArrivalInv => UpdateArrives
  BY DEF ArrivalInv, FreshGetsNewest, UpdateArrives
<1>2. IInv /\ ArrivalInv /\ [Next]_vars => IInv' /\ ArrivalInv'
  BY NextIInv, NextFreshIsPublished, NextFreshGetsNewest DEF ArrivalInv
<1> QED
  BY <1>1, <1>2, InitIInv, InitArrivalInv, PTL DEF Spec

\* replaceExecutable's undoing, and the order of its steps: whatever fails, and
\* wherever the process is killed, before the new binary is in, the one that was
\* running is where it was, or is .old if the two renames are the cause.
THEOREM FailureIsHarmless == Spec => FailureKeepsBinary
<1> DEFINE Kind == \A u \in Updates :
             alone /\ pc[u] \in Busy \ {"installed"} /\ pc'[u] \in Ended \ {"done"} =>
               \/ exe' = Running(u)
               \/ /\ pc'[u] = "stranded" \/ pc[u] = "undoing"
                  /\ exe' = Nothing /\ backup' = Running(u)
<1>1. Init => OldIsKept
  BY DEF Init, OldIsKept, Busy, Between
<1>2. IInv /\ OldIsKept /\ [Next]_vars => IInv' /\ OldIsKept'
  BY NextIInv, NextOldIsKept
<1>3. IInv /\ OldIsKept /\ [Next]_vars => [Kind]_vars
  BY FailureStep
<1> QED
  BY <1>1, <1>2, <1>3, InitIInv, PTL DEF Spec, FailureKeepsBinary

\* The renames of replaceExecutable, for updates that come one at a time, are one
\* step of Installation: wherever an update fails or is killed, and however CI
\* republishes under it, the binary is replaced as a whole, and never by an older.
THEOREM UpdateImplementsInstallation == Spec => ReplacedInOneStep
<1> DEFINE Inv == IInv /\ OldIsKept /\ ArrivalInv /\ ForwardInv
<1>1. Init => Inv
  BY InitIInv, InitArrivalInv, InitForwardInv DEF Init, OldIsKept, Busy, Between
<1>2. Inv /\ [Next]_vars => Inv'
  <2> SUFFICES ASSUME Inv, [Next]_vars PROVE Inv'
    OBVIOUS
  <2>1. IInv' /\ OldIsKept'
    BY NextIInv, NextOldIsKept
  <2>2. ArrivalInv'
    BY NextFreshIsPublished, NextFreshGetsNewest DEF ArrivalInv
  <2>3. ForwardInv'
    BY <2>1, NextChecksumsLead, NextOnlyForward DEF ForwardInv
  <2> QED
    BY <2>1, <2>2, <2>3
<1>3. Inv /\ Inv' /\ [Next]_vars => [Promised!Next]_(Promised!vars)
  BY RefinesNext
<1> QED
  BY <1>1, <1>2, <1>3, RefinesInit, PTL DEF Spec, ReplacedInOneStep, Promised!Spec
=============================================================================
