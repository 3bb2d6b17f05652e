------------------------------ MODULE RelaySync ------------------------------
(***************************************************************************)
(* One-way synchronisation (examples/relay-sync): a run of push or pull    *)
(* makes passes until one succeeds; a pass scans the source, scans the     *)
(* destination, plans, copies what is missing or differs, and deletes what *)
(* is extra.  Files at the source are edited meanwhile, and a pass may be  *)
(* cut off between any two steps.                                          *)
(*                                                                         *)
(* Push and pull are one sequence of steps with the two sides swapped; they *)
(* differ in the modification time a copy is given, see StampOf.  A version *)
(* stands for a content and its modification time, later versions having   *)
(* later times; all versions of a path are of one size, the worst case for *)
(* a comparison of size and time.                                          *)
(*                                                                         *)
(* Covered: interruptions at any step, retries, edits in the middle of a   *)
(* transfer, .gitignore files that are themselves synchronised.  Left out: *)
(* files that appear or vanish at the source, anybody else who writes to   *)
(* the destination, permissions, how a pattern matches a path, and rules   *)
(* below the root.                                                         *)
(***************************************************************************)
EXTENDS Naturals

CONSTANTS
  Paths,       \* paths relative to the two roots, numbered in sorted order
  Above,       \* Above[p]: the directories p is in
  Rules,       \* the path of the root's .gitignore
  Masked,      \* Masked[v]: the paths that version v of it masks
  Editable,    \* the paths that are edited during the run
  MaxVersion,  \* bound: versions of a file
  MaxFaults    \* bound: how often a pass is cut off

Versions == 1..MaxVersion

ASSUME PathsAssumption ==
  /\ Paths \subseteq Nat /\ Above \in [Paths -> SUBSET Paths]
  /\ \A p \in Paths : p \notin Above[p] /\ \A q \in Above[p] : Above[q] \subseteq Above[p]
ASSUME RulesAssumption == Rules \in Paths /\ Masked \in [Versions -> SUBSET Paths]
ASSUME BoundsAssumption == MaxVersion \in Nat \ {0} /\ MaxFaults \in Nat

VARIABLES
  push,     \* the direction: push or pull
  del,      \* --delete
  dry,      \* --dry-run
  gitignore, \* --gitignore
  window,   \* --retry outlasts what goes wrong, and nobody interrupts the run
  src,      \* the tree to mirror
  dst,      \* the tree it is mirrored onto
  stage,    \* where the run is
  want,     \* the source's manifest: path -> version, 0 if it is not listed
  have,     \* the paths of the destination's manifest
  copies,   \* what remains of the plan
  deletes,
  stamp,    \* the modification time the file being copied will get
  half,     \* the version the first half of it was read from
  faults    \* how often a pass has been cut off

options == <<push, del, dry, gitignore, window>>
plan == <<want, have, copies, deletes>>
transfer == <<stamp, half>>
vars == <<options, src, dst, stage, plan, transfer, faults>>

Partial == 0             \* not all of a file, so of another size
Other == MaxVersion + 1  \* a content no version of the source has
Now == 0                 \* a modification time no version of the source has

File(data, time) == [kind |-> "file", data |-> data, time |-> time]
Nothing == [kind |-> "nothing", data |-> Partial, time |-> Now]
Directory == [kind |-> "directory", data |-> Partial, time |-> Now]

SourceFiles == {File(v, v) : v \in Versions}
Files == {File(d, t) : d \in Versions \cup {Partial, Other}, t \in Versions \cup {Now}}

\* A run is not under way, dialling, about to scan either side, at the head of
\* its loop over the plan, in a copy - with nothing, half or all of the data
\* written - or it has seen a pass fail.  The last one succeeded if it is done.
Stages == {"idle", "dialing", "connected", "scanned", "planned", "opened", "halfway",
           "filled", "failed", "done"}

TypeOK ==
  /\ push \in BOOLEAN /\ del \in BOOLEAN /\ dry \in BOOLEAN
  /\ gitignore \in BOOLEAN /\ window \in BOOLEAN
  /\ src \in [Paths -> SourceFiles \cup {Nothing, Directory}]
  /\ dst \in [Paths -> Files \cup {Nothing, Directory}]
  /\ stage \in Stages
  /\ want \in [Paths -> Versions \cup {0}]
  /\ have \subseteq Paths /\ copies \subseteq Paths /\ deletes \subseteq Paths
  /\ stamp \in Versions \cup {0} /\ half \in Versions \cup {0}
  /\ faults \in 0..MaxFaults

\* What is below something lies in directories.
Rooted(t) == \A p \in Paths : t[p] # Nothing => \A q \in Above[p] : t[q] = Directory

Init ==
  /\ push \in BOOLEAN /\ del \in BOOLEAN /\ dry \in BOOLEAN
  /\ gitignore \in BOOLEAN /\ window \in BOOLEAN
  /\ src \in [Paths -> {File(1, 1), Nothing, Directory}] /\ Rooted(src)
  /\ dst \in [Paths -> {File(1, 1), File(Other, Now), Nothing, Directory}] /\ Rooted(dst)
  /\ stage = "idle"
  /\ want = [p \in Paths |-> 0]
  /\ have = {} /\ copies = {} /\ deletes = {}
  /\ stamp = 0 /\ half = 0
  /\ faults = 0

-----------------------------------------------------------------------------
(* Manifests and plans (proto.go).                                         *)

IsFile(t, p) == t[p].kind = "file"

\* What the root's .gitignore masks; content of another origin masks nothing here.
Ignored(t) ==
  IF gitignore /\ IsFile(t, Rules) /\ t[Rules].data \in Versions
    THEN Masked[t[Rules].data] ELSE {}

\* loadIgnoreRules reads .gitignore, unless there is none: a directory of that name
\* is an error, and the whole scan fails.
Readable(t) == gitignore => t[Rules] # Directory

\* buildManifest: the regular files that are not masked, nor in a masked directory.
Listed(t) == {p \in Paths : IsFile(t, p) /\ ({p} \cup Above[p]) \cap Ignored(t) = {}}

\* The source's manifest, with the modification times.
Manifest == [p \in Paths |-> IF p \in Listed(src) THEN src[p].time ELSE 0]

\* Faulty variant: only sizes are compared.
SameSize(p) == p \in Listed(dst) /\ dst[p].data # Partial

\* The entries of both manifests agree in size and modification time.
Same(p) == p \in Listed(dst) /\ dst[p].data # Partial /\ dst[p].time = want[p]

\* planSync: what is copied, and what is deleted.
ToCopy == {p \in Paths : want[p] # 0 /\ ~Same(p)}

\* Faulty variant: --delete is not looked at.
Extra == {p \in Listed(dst) : want[p] = 0}

ToDelete == {p \in Listed(dst) : del /\ want[p] = 0}

-----------------------------------------------------------------------------
(* A run (cmdSync, runWithRetry) and its passes (push, pull).              *)

\* The command is given, once or again later.
Start ==
  /\ stage \in {"idle", "done"}
  /\ stage' = "dialing"
  /\ UNCHANGED <<options, src, dst, plan, transfer, faults>>

\* dialClient: each pass has a connection of its own.  It waits for the host
\* without a deadline.
Dial ==
  /\ stage = "dialing"
  /\ stage' = "connected"
  /\ UNCHANGED <<options, src, dst, plan, transfer, faults>>

ScanSource ==
  /\ stage = "connected"
  /\ IF Readable(src) THEN stage' = "scanned" /\ want' = Manifest
                      ELSE stage' = "failed" /\ UNCHANGED want
  /\ UNCHANGED <<options, src, dst, have, copies, deletes, transfer, faults>>

\* The other manifest, and the plan; a dry run stops here.
Plan ==
  /\ stage = "scanned"
  /\ IF Readable(dst)
       THEN /\ have' = Listed(dst)
            /\ copies' = ToCopy /\ deletes' = ToDelete
            /\ stage' = IF dry THEN "done" ELSE "planned"
       ELSE stage' = "failed" /\ UNCHANGED <<have, copies, deletes>>
  /\ UNCHANGED <<options, src, dst, want, transfer, faults>>

\* The plan is worked off in the order of the paths, the copies first.
FirstOf(paths, p) == p \in paths /\ \A q \in paths : p <= q

Copying(p) == FirstOf(copies, p)
Deleting(p) == copies = {} /\ FirstOf(deletes, p)

\* A file is in the way of a directory, or a directory in the way of a file.
Blocked(p) == dst[p] = Directory \/ \E q \in Above[p] : IsFile(dst, q)

\* MkdirAll, and the file is created or truncated.
Opened(p) ==
  [q \in Paths |-> IF q = p THEN File(Partial, Now)
                   ELSE IF q \in Above[p] /\ dst[q] = Nothing THEN Directory
                   ELSE dst[q]]

\* Faulty variant: a time is rounded up instead of down.
StampOfRoundedUp(p) == IF push THEN src[p].time + 1 ELSE want[p]

\* putFile looks at the source's file as it opens it, getFile goes by the manifest.
StampOf(p) == IF push THEN src[p].time ELSE want[p]

\* Faulty variant: the directory is not made.
OpenWithoutMkdir(p) ==
  /\ stage = "planned" /\ Copying(p)
  /\ IF Blocked(p) \/ \E q \in Above[p] : dst[q] = Nothing
       THEN stage' = "failed" /\ UNCHANGED <<dst, stamp>>
       ELSE stage' = "opened" /\ dst' = Opened(p) /\ stamp' = StampOf(p)
  /\ UNCHANGED <<options, src, plan, half, faults>>

Open(p) ==
  /\ stage = "planned" /\ Copying(p)
  /\ IF Blocked(p) THEN stage' = "failed" /\ UNCHANGED <<dst, stamp>>
                   ELSE stage' = "opened" /\ dst' = Opened(p) /\ stamp' = StampOf(p)
  /\ UNCHANGED <<options, src, plan, half, faults>>

\* CopyN, under which the file may be edited.
CopyHalf(p) ==
  /\ stage = "opened" /\ Copying(p)
  /\ half' = src[p].data
  /\ stage' = "halfway"
  /\ UNCHANGED <<options, src, dst, plan, stamp, faults>>

CopyRest(p) ==
  /\ stage = "halfway" /\ Copying(p)
  /\ dst' = [dst EXCEPT ![p] = File(IF half = src[p].data THEN half ELSE Other, Now)]
  /\ stage' = "filled"
  /\ UNCHANGED <<options, src, plan, transfer, faults>>

\* Faulty variant: the time is looked up after the data has been sent.
StampLate(p) ==
  /\ stage = "filled" /\ Copying(p)
  /\ dst' = [dst EXCEPT ![p] = File(dst[p].data, src[p].time)]
  /\ copies' = copies \ {p}
  /\ stage' = "planned"
  /\ UNCHANGED <<options, src, want, have, deletes, transfer, faults>>

\* Chtimes, and the reply.
Stamp(p) ==
  /\ stage = "filled" /\ Copying(p)
  /\ dst' = [dst EXCEPT ![p] = File(dst[p].data, stamp)]
  /\ copies' = copies \ {p}
  /\ stage' = "planned"
  /\ UNCHANGED <<options, src, want, have, deletes, transfer, faults>>

\* Chtimes fails, and nobody asks.
StampFails(p) ==
  /\ stage = "filled" /\ Copying(p)
  /\ faults < MaxFaults
  /\ faults' = faults + 1
  /\ copies' = copies \ {p}
  /\ stage' = "planned"
  /\ UNCHANGED <<options, src, dst, want, have, deletes, transfer>>

\* RemoveAll.
Delete(p) ==
  /\ stage = "planned" /\ Deleting(p)
  /\ dst' = [q \in Paths |-> IF q = p \/ p \in Above[q] THEN Nothing ELSE dst[q]]
  /\ deletes' = deletes \ {p}
  /\ UNCHANGED <<options, src, stage, want, have, copies, transfer, faults>>

Finish ==
  /\ stage = "planned" /\ copies = {} /\ deletes = {}
  /\ stage' = "done"
  /\ UNCHANGED <<options, src, dst, plan, transfer, faults>>

\* The connection is lost, a disk is full or the host crashes; whatever was
\* written stays.
Cut ==
  /\ stage \notin {"idle", "failed", "done"}
  /\ faults < MaxFaults
  /\ faults' = faults + 1
  /\ stage' = "failed"
  /\ UNCHANGED <<options, src, dst, plan, transfer>>

\* runWithRetry, after an error: a whole new pass, or the error is reported.
Retry ==
  /\ stage = "failed" /\ window
  /\ stage' = "dialing"
  /\ UNCHANGED <<options, src, dst, plan, transfer, faults>>

GiveUp ==
  /\ stage = "failed" /\ ~window
  /\ stage' = "idle"
  /\ UNCHANGED <<options, src, dst, plan, transfer, faults>>

\* Somebody saves a file of the source, in place.
Edit(p) ==
  /\ p \in Editable /\ IsFile(src, p)
  /\ src[p].data < MaxVersion
  /\ src' = [src EXCEPT ![p] = File(src[p].data + 1, src[p].time + 1)]
  /\ UNCHANGED <<options, dst, stage, plan, transfer, faults>>

Copy(p) == Open(p) \/ CopyHalf(p) \/ CopyRest(p) \/ Stamp(p)

\* push or pull, over the connection of the pass.
Pass ==
  \/ ScanSource \/ Plan \/ Finish
  \/ \E p \in Paths : Copy(p) \/ Delete(p)

Next ==
  \/ Start \/ Dial \/ Pass \/ Cut \/ Retry \/ GiveUp
  \/ \E p \in Paths : StampFails(p) \/ Edit(p)

Spec == Init /\ [][Next]_vars

-----------------------------------------------------------------------------
(* Properties.                                                             *)

\* What the comparison of size and time takes for the same is the same: no
\* interrupted or overtaken transfer leaves a file that later passes skip
\* although its content is not the source's.
MatchMeansSame ==
  \A p \in Paths :
    IsFile(src, p) /\ IsFile(dst, p) /\ dst[p].data # Partial /\ dst[p].time = src[p].time
      => dst[p].data = src[p].data

\* A run that reports success has mirrored the source: unless it was edited
\* under the run, every file that is wanted is there with the source's content,
\* and with --delete nothing else that was listed is left, however many passes
\* were cut off before.  And it has converged: the next run copies none of them
\* again but those whose time could not be set - unless the destination masks
\* them by rules of its own.
CompleteMeansMirrored ==
  stage = "done" /\ ~dry /\ want = Manifest =>
    /\ \A p \in Paths : want[p] # 0 => IsFile(dst, p) /\ dst[p].data = src[p].data
    /\ \A p \in have : del /\ want[p] = 0 => dst[p] = Nothing
    /\ want[Rules] # 0 \/ ~IsFile(dst, Rules) => \A p \in ToCopy : dst[p].time = Now

\* The destination loses nothing it was not meant to: a dry run changes nothing;
\* only a file the source lists is written, and nothing else in its place; only
\* a file the destination listed, and with --delete, is removed; no directory is
\* ever removed or replaced, whatever is deleted with RemoveAll.
TouchesOnlyPlanned ==
  [][\A p \in Paths : dst'[p] # dst[p] =>
       /\ ~dry /\ dst[p] # Directory
       /\ IsFile(dst', p) => want[p] # 0
       /\ dst'[p] = Directory => dst[p] = Nothing
       /\ dst'[p] = Nothing => del /\ p \in have /\ want[p] = 0]_vars

\* What the steps of a pass rely on, to make the invariants inductive.  The
\* times at the destination are true or out of date; ...
TimesAreTrue ==
  \A p \in Paths :
    IsFile(src, p) /\ IsFile(dst, p) /\ dst[p].data # Partial
      => dst[p].data = dst[p].time \/ dst[p].time < src[p].time

\* ... the manifest is what the source was; ...
WantIsPast == \A p \in Paths : want[p] # 0 => IsFile(src, p) /\ want[p] <= src[p].time

\* ... a copy is no older than it will say, and true if it is not out of date; ...
CopyIsFair ==
  stage \in {"opened", "halfway", "filled"} =>
    \A p \in Paths : Copying(p) =>
      /\ IsFile(dst, p)
      /\ want[p] <= stamp /\ stamp <= src[p].time
      /\ stage = "halfway" => stamp <= half /\ half <= src[p].data
      /\ stage = "filled" => /\ dst[p].data # Partial
                             /\ dst[p].data = stamp \/ stamp < src[p].time

\* ... and what is no longer in the plan has been dealt with.
Working == {"planned", "opened", "halfway", "filled"}

PlanIsKept ==
  stage \in Working \/ (stage = "done" /\ ~dry) =>
    /\ ~dry
    /\ \A p \in copies : want[p] # 0
    /\ \A p \in Paths \ copies : want[p] # 0 =>
         /\ IsFile(dst, p) /\ dst[p].data # Partial
         /\ dst[p].data = want[p] \/ want[p] < src[p].time
    /\ \A p \in deletes : del /\ p \in have /\ want[p] = 0 /\ IsFile(dst, p)
    /\ \A p \in have \ deletes : del /\ want[p] = 0 => dst[p] = Nothing /\ copies = {}
    /\ stage = "done" => copies = {} /\ deletes = {}

IInv == TypeOK /\ Rooted(dst) /\ TimesAreTrue /\ WantIsPast /\ CopyIsFair /\ PlanIsKept

\* For the convergence: what has been dealt with has the time it was given, which
\* is not older than the manifest's, or none; and none while it is being copied.
TimesAreGiven ==
  stage \in Working \/ (stage = "done" /\ ~dry) =>
    /\ \A p \in Paths \ copies : want[p] # 0 =>
         dst[p].time = Now \/ (want[p] <= dst[p].time /\ dst[p].time <= src[p].time)
    /\ stage = "filled" => \A p \in Paths : Copying(p) => dst[p].time = Now

\* Nothing of the source is in the way of the destination, or the other way round,
\* and no directory is named .gitignore at either end, if that is looked at.
Compatible ==
  /\ \A p \in Paths : IsFile(src, p) => ~Blocked(p)
  /\ Readable(src) /\ Readable(dst)

\* For what fairness must be able to do: whether a pass has a step to take, said
\* with the guards of its steps, ...
PassCanGo ==
  \/ stage \in {"connected", "scanned"}
  \/ stage = "planned" /\ copies = {} /\ deletes = {}
  \/ stage = "planned" /\ \E p \in Paths : Copying(p) \/ Deleting(p)
  \/ stage \in {"opened", "halfway", "filled"} /\ \E p \in Paths : Copying(p)

\* ... which are these.
PassGuardsAreRight == PassCanGo <=> ENABLED Pass

\* A pass that has its connection never gets stuck: until it is done or has failed
\* it has a step to take, whatever is left of its plan.
PassesGoOn == stage \notin {"idle", "dialing", "failed", "done"} => PassCanGo

\* Between compatible ends a pass only fails if it is cut off: what it copies and
\* deletes never comes in the way of what it has still to copy, nor of the scans
\* and copies of a later pass, wherever the passes before were cut off.
FailsOnlyIfCut ==
  [][Compatible =>
       /\ Compatible'
       /\ stage # "failed" /\ stage' = "failed" => faults' = faults + 1]_vars

\* What relay-sync/README.md says: ignored files at either end are left untouched.
IgnoredUntouched ==
  [][\A p \in Paths :
       IsFile(dst, p) /\ p \in Ignored(dst) => dst'[p] = dst[p]]_vars

-----------------------------------------------------------------------------
(* Liveness.  A pass that is connected does not stop between two of its    *)
(* steps, and a failed one is tried again while the window is open.  That  *)
(* a dial returns is not assumed, since it has no deadline and the host    *)
(* may be in Accept for somebody else, see Tunnel; nor is it that somebody *)
(* gives the command, or gives it again.                                   *)
FairSpec == Spec /\ WF_vars(Pass) /\ WF_vars(Retry)

\* A run whose window outlasts the interruptions succeeds, or waits for ever in a
\* dial - and nowhere else - unless a file at one end has the name of a directory
\* at the other, or the rules cannot be read.
RunsComplete ==
  (stage = "dialing" /\ window /\ Compatible) ~> (stage = "done" \/ [](stage = "dialing"))
=============================================================================
