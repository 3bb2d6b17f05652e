----------------------------- MODULE SelfUpdate -----------------------------
(***************************************************************************)
(* Updating in place (cmd/relay-tunnel/update.go): a process started from  *)
(* the installed binary asks for the latest release, fetches its           *)
(* SHA256SUMS and this platform's binary, stages the binary beside the     *)
(* installed one, moves the installed one aside to .old and the staged one *)
(* in.  Any of these steps may fail, the process may be killed between any *)
(* two of them, CI may republish the rolling release in the middle, and    *)
(* two updates may run at once.                                            *)
(*                                                                         *)
(* Left out: an update to a given tag, whose release does not change and   *)
(* which is otherwise the same; symbolic links; the texts of errors.       *)
(***************************************************************************)
EXTENDS Naturals

CONSTANTS
  Updates,     \* processes that update, each once
  MaxVersion,  \* bound: releases
  MaxFaults    \* bound: calls that fail without a reason in the model

Versions == 1..MaxVersion

ASSUME BoundsAssumption == MaxVersion \in Nat \ {0} /\ MaxFaults \in Nat

VARIABLES
  newest,   \* the version CI has published or is publishing
  name,     \* the version the release's name carries
  sums,     \* the version its SHA256SUMS is for, 0 while it is missing
  asset,    \* the version of its binary, 0 while it is missing
  exe,      \* the file at the installed path
  backup,   \* the file beside it, .old
  staged,   \* each update's temporary file
  pc,       \* where each update is
  version,  \* the version of the binary each update runs
  want,     \* the checksum each looks for, as the version it is of
  got,      \* what each has downloaded
  fresh,    \* the release has been complete and the same since it began
  alone,    \* no two updates have run at once so far
  faults    \* calls that have failed

release == <<newest, name, sums, asset>>
disk == <<exe, backup, staged>>
locals == <<pc, version, want, got, fresh>>
vars == <<release, disk, locals, alone, faults>>

Garbage == 0  \* a download that is no binary: cut short, or an error page

File(content, whole, runnable) ==
  [content |-> content, whole |-> whole, runnable |-> runnable]
Nothing == File(Garbage, FALSE, FALSE)
Binaries == {File(v, TRUE, TRUE) : v \in Versions}
Files == {File(v, w, r) : v \in Versions \cup {Garbage}, w \in BOOLEAN, r \in BOOLEAN}

\* An update has not begun, has begun, knows the release, has the checksum, has a
\* binary that fits it, has a temporary file - empty, written, runnable - has
\* cleared .old, moved the old binary aside, moved the new one in, or must move
\* the old one back.  It ends done, failed, killed, or killed between its renames.
Busy == {"begun", "asked", "summed", "verified", "staged", "written", "ready", "cleared",
         "aside", "undoing", "installed"}
Between == {"aside", "undoing"}
Ended == {"done", "failed", "killed", "stranded"}

TypeOK ==
  /\ newest \in Versions /\ name \in Versions
  /\ sums \in Versions \cup {0} /\ asset \in Versions \cup {0}
  /\ exe \in Files /\ backup \in Files /\ staged \in [Updates -> Files]
  /\ pc \in [Updates -> Busy \cup Ended \cup {"idle"}]
  /\ version \in [Updates -> Versions \cup {0}]
  /\ want \in [Updates -> Versions \cup {0}] /\ got \in [Updates -> Versions \cup {Garbage}]
  /\ fresh \in [Updates -> BOOLEAN]
  /\ \A u \in Updates : pc[u] = "summed" => want[u] # 0
  /\ alone \in BOOLEAN /\ faults \in 0..MaxFaults

Init ==
  /\ newest = 1 /\ name = 1 /\ sums = 1 /\ asset = 1
  /\ exe = File(1, TRUE, TRUE) /\ backup = Nothing
  /\ staged = [u \in Updates |-> Nothing]
  /\ pc = [u \in Updates |-> "idle"]
  /\ version = [u \in Updates |-> 0]
  /\ want = [u \in Updates |-> 0] /\ got = [u \in Updates |-> Garbage]
  /\ fresh = [u \in Updates |-> FALSE]
  /\ alone = TRUE /\ faults = 0

-----------------------------------------------------------------------------
(* The rolling release: its name and its files are replaced one by one,    *)
(* and a file is missing while it is uploaded.                             *)

Published == name = newest /\ sums = newest /\ asset = newest

Republish ==
  /\ Published /\ newest < MaxVersion
  /\ newest' = newest + 1
  /\ fresh' = [u \in Updates |-> FALSE]
  /\ UNCHANGED <<name, sums, asset, disk, pc, version, want, got, alone, faults>>

Upload ==
  /\ \/ name # newest /\ name' = newest /\ UNCHANGED <<sums, asset>>
     \/ sums # newest /\ sums' \in {0, newest} /\ UNCHANGED <<name, asset>>
     \/ asset # newest /\ asset' \in {0, newest} /\ UNCHANGED <<name, sums>>
  /\ UNCHANGED <<newest, disk, locals, alone, faults>>

-----------------------------------------------------------------------------
(* selfUpdate and downloadAndReplace.                                      *)

Go(u, here, there) == pc[u] = here /\ pc' = [pc EXCEPT ![u] = there]

\* A call fails: the error is returned, and replaceExecutable's deferred Remove
\* takes the temporary file away, if there is one.
Fails(u, here) ==
  /\ Go(u, here, "failed")
  /\ staged' = [staged EXCEPT ![u] = Nothing]
  /\ UNCHANGED <<exe, backup>>

\* Somebody runs the installed binary, with --update.
Begin(u) ==
  /\ exe \in Binaries
  /\ Go(u, "idle", "begun")
  /\ version' = [version EXCEPT ![u] = exe.content]
  /\ fresh' = [fresh EXCEPT ![u] = Published]
  /\ alone' = (alone /\ \A o \in Updates : pc[o] \notin Busy)
  /\ UNCHANGED <<release, disk, want, got, faults>>

\* latestRelease; the version it names may be this one.
Ask(u) ==
  /\ Go(u, "begun", IF name = version[u] THEN "done" ELSE "asked")
  /\ UNCHANGED <<release, disk, version, want, got, fresh, alone, faults>>

\* Faulty variant: a release that lists no checksum for the platform will do.
FetchSumsIfAny(u) ==
  /\ Go(u, "asked", "summed")
  /\ want' = [want EXCEPT ![u] = sums]
  /\ UNCHANGED <<release, disk, version, got, fresh, alone, faults>>

\* checksumFor.
FetchSums(u) ==
  /\ sums # 0
  /\ Go(u, "asked", "summed")
  /\ want' = [want EXCEPT ![u] = sums]
  /\ UNCHANGED <<release, disk, version, got, fresh, alone, faults>>

\* Faulty variant: a download that does not match is passed over in silence.
FetchSilently(u) ==
  /\ asset # 0
  /\ \E data \in {asset, Garbage} :
       /\ data = Garbage => faults < MaxFaults
       /\ faults' = IF data = Garbage THEN faults + 1 ELSE faults
       /\ got' = [got EXCEPT ![u] = data]
       /\ Go(u, "summed", IF data = want[u] THEN "verified" ELSE "done")
  /\ UNCHANGED <<release, disk, version, want, fresh, alone>>

\* Faulty variant: the checksum is not compared.
FetchUnchecked(u) ==
  /\ asset # 0
  /\ \E data \in {asset, Garbage} :
       /\ data = Garbage => faults < MaxFaults
       /\ faults' = IF data = Garbage THEN faults + 1 ELSE faults
       /\ got' = [got EXCEPT ![u] = data]
       /\ Go(u, "summed", "verified")
  /\ UNCHANGED <<release, disk, version, want, fresh, alone>>

\* The download, and the comparison of its checksum.
FetchAsset(u) ==
  /\ asset # 0
  /\ \E data \in {asset, Garbage} :
       /\ data = Garbage => faults < MaxFaults
       /\ faults' = IF data = Garbage THEN faults + 1 ELSE faults
       /\ got' = [got EXCEPT ![u] = data]
       /\ Go(u, "summed", IF data = want[u] THEN "verified" ELSE "failed")
  /\ UNCHANGED <<release, disk, version, want, fresh, alone>>

\* The release does not carry the file just now.
FetchFails(u) ==
  /\ \/ sums = 0 /\ Go(u, "asked", "failed")
     \/ asset = 0 /\ Go(u, "summed", "failed")
  /\ UNCHANGED <<release, disk, version, want, got, fresh, alone, faults>>

-----------------------------------------------------------------------------
(* replaceExecutable.                                                      *)

Kept == <<release, version, want, got, fresh, alone, faults>>

\* CreateTemp, Write and Chmod.
Stage(u) ==
  /\ \/ /\ Go(u, "verified", "staged")
        /\ staged' = [staged EXCEPT ![u] = File(got[u], FALSE, FALSE)]
     \/ /\ Go(u, "staged", "written")
        /\ staged' = [staged EXCEPT ![u] = File(got[u], TRUE, FALSE)]
     \/ /\ Go(u, "written", "ready")
        /\ staged' = [staged EXCEPT ![u] = File(got[u], TRUE, TRUE)]
  /\ UNCHANGED <<exe, backup, Kept>>

\* Remove(.old); Windows may not let go of it, and nobody asks.
ClearBackup(u) ==
  /\ Go(u, "ready", "cleared")
  /\ backup' \in {backup, Nothing}
  /\ UNCHANGED <<exe, staged, Kept>>

\* Rename(exe, .old), which fails without a binary to move.
MoveAside(u) ==
  /\ IF exe = Nothing
       THEN Fails(u, "cleared")
       ELSE /\ Go(u, "cleared", "aside")
            /\ backup' = exe /\ exe' = Nothing
            /\ UNCHANGED staged
  /\ UNCHANGED Kept

\* Rename(staged, exe).
MoveIn(u) ==
  /\ Go(u, "aside", "installed")
  /\ exe' = staged[u]
  /\ staged' = [staged EXCEPT ![u] = Nothing]
  /\ UNCHANGED <<backup, Kept>>

\* Faulty variant: the error is returned at once.
MoveInFailsForGood(u) ==
  /\ faults < MaxFaults /\ faults' = faults + 1
  /\ Fails(u, "aside")
  /\ UNCHANGED <<release, version, want, got, fresh, alone>>

MoveInFails(u) ==
  /\ faults < MaxFaults /\ faults' = faults + 1
  /\ Go(u, "aside", "undoing")
  /\ UNCHANGED <<release, disk, version, want, got, fresh, alone>>

\* Rename(.old, exe) puts the old binary back, if it is still there.
Undo(u) ==
  /\ Go(u, "undoing", "failed")
  /\ IF backup = Nothing THEN UNCHANGED <<exe, backup>>
                         ELSE exe' = backup /\ backup' = Nothing
  /\ staged' = [staged EXCEPT ![u] = Nothing]
  /\ UNCHANGED Kept

\* Remove(.old) again.
RemoveBackup(u) ==
  /\ Go(u, "installed", "done")
  /\ backup' \in {backup, Nothing}
  /\ UNCHANGED <<exe, staged, Kept>>

\* Any call before the old binary is moved fails, or the move itself; or the old
\* one cannot be put back.
CallFails(u) ==
  /\ faults < MaxFaults /\ faults' = faults + 1
  /\ \E here \in Busy \ {"ready", "aside", "installed"} : Fails(u, here)
  /\ UNCHANGED <<release, version, want, got, fresh, alone>>

\* The process is killed, or the machine goes down: nothing deferred is done.
Kill(u) ==
  /\ \E here \in Busy : Go(u, here, IF here \in Between THEN "stranded" ELSE "killed")
  /\ UNCHANGED <<release, disk, version, want, got, fresh, alone, faults>>

Update(u) ==
  \/ Ask(u) \/ FetchSums(u) \/ FetchAsset(u) \/ FetchFails(u)
  \/ Stage(u) \/ ClearBackup(u) \/ MoveAside(u) \/ MoveIn(u) \/ RemoveBackup(u)
  \/ MoveInFails(u) \/ Undo(u) \/ CallFails(u)

Next ==
  \/ Republish \/ Upload
  \/ \E u \in Updates : Begin(u) \/ Update(u) \/ Kill(u)

Spec == Init /\ [][Next]_vars

-----------------------------------------------------------------------------
(* Properties.                                                             *)

\* What lies at the installed path, or beside it as .old, is a whole, runnable
\* binary of some release - never half a file, a download that SHA256SUMS did not
\* vouch for or one without its mode - even if updates run at once and are killed.
OnlyWholeBinaries == exe \in Binaries \cup {Nothing} /\ backup \in Binaries \cup {Nothing}

\* As long as updates come one at a time a binary is always there, wherever they
\* are killed and whatever fails: at its path, unless one is between its two
\* renames or was killed there, or could not put back what it had moved - two
\* calls must fail for that - and then as .old.
NeverLost ==
  alone =>
    /\ exe \in Binaries \/ backup \in Binaries
    /\ exe \in Binaries \/ faults >= 2
         \/ \E u \in Updates : pc[u] \in Between \cup {"stranded"}

\* An update that reports success, from a release that was complete and was not
\* republished meanwhile, has left the newest version installed.
UpdateArrives ==
  \A u \in Updates :
    alone /\ fresh[u] /\ pc[u] = "done" => exe = File(newest, TRUE, TRUE)

\* What the steps of an update rely on, to make the above inductive: what is
\* staged fits the checksum, ...
StagedIsWanted ==
  \A u \in Updates :
    /\ pc[u] \in Busy \ {"begun", "asked", "summed"} => got[u] \in Versions
    /\ pc[u] \in {"ready", "cleared", "aside", "undoing"} => staged[u] = File(got[u], TRUE, TRUE)

\* ... and an update that is alone finds the binary where its last step left it.
AloneOnDisk ==
  alone =>
    /\ \A u, o \in Updates : pc[u] \in Busy /\ pc[o] \in Busy => u = o
    /\ \A u \in Updates :
         /\ pc[u] \in Busy \ Between => exe \in Binaries
         /\ pc[u] = "undoing" => faults >= 1

IInv == TypeOK /\ OnlyWholeBinaries /\ NeverLost /\ StagedIsWanted /\ AloneOnDisk

\* What it takes for an update to arrive: a release that stays is complete, ...
FreshIsPublished == \A u \in Updates : fresh[u] => Published /\ pc[u] # "idle"

\* ... an update that sees nothing else asks for the newest, gets it and installs
\* it, and those that come later find that they are it.
FreshGetsNewest ==
  alone => \A u \in Updates : fresh[u] =>
    /\ pc[u] = "begun" => exe = File(version[u], TRUE, TRUE)
    /\ pc[u] \in Busy \ {"begun", "asked"} => want[u] = newest
    /\ pc[u] \in Busy \ {"begun", "asked", "summed"} => got[u] = newest
    /\ pc[u] = "installed" => exe = File(newest, TRUE, TRUE)
    /\ pc[u] = "done" =>
         /\ exe = File(newest, TRUE, TRUE)
         /\ \A o \in Updates : pc[o] \in Busy => pc[o] = "begun" /\ version[o] = newest

ArrivalInv == FreshIsPublished /\ FreshGetsNewest

\* The binary an update was started from.
Running(u) == File(version[u], TRUE, TRUE)

\* An update that has the disk to itself and fails, or is killed, before it has
\* installed anything leaves the very binary it was started from: in its place, or
\* as .old if it was killed between its renames or could not undo the first.
FailureKeepsBinary ==
  [][\A u \in Updates :
       alone /\ pc[u] \in Busy \ {"installed"} /\ pc'[u] \in Ended \ {"done"} =>
         \/ exe' = Running(u)
         \/ /\ pc'[u] = "stranded" \/ pc[u] = "undoing"
            /\ exe' = Nothing /\ backup' = Running(u)]_vars

\* It is there all the while.
OldIsKept ==
  alone => \A u \in Updates :
    /\ pc[u] \in Busy \ (Between \cup {"installed"}) => exe = Running(u)
    /\ pc[u] \in Between => exe = Nothing /\ backup = Running(u)

\* What it takes for no update to go back: nothing that is installed, kept or
\* looked for is newer than the checksums that are there to be asked for next, ...
ChecksumsLead ==
  /\ sums <= newest
  /\ \A f \in {exe, backup} : f.content <= newest /\ (sums # 0 => f.content <= sums)
  /\ \A u \in Updates : want[u] <= newest /\ (sums # 0 => want[u] <= sums)

\* The version that is installed, or that lies beside its place as .old.
InForce == IF exe = Nothing THEN backup.content ELSE exe.content

\* ... and an update installs what it looks for, which is no older than what is
\* there.
OnlyForward ==
  /\ \A u \in Updates : pc[u] \in Busy \ {"begun", "asked", "summed"} => got[u] = want[u]
  /\ alone => \A u \in Updates :
       pc[u] \in Busy \ {"begun", "asked"} => InForce <= want[u]

\* The update of Installation that an update is.
RunOf(u) ==
  CASE pc[u] = "idle" -> "idle"
    [] pc[u] \in Busy \ {"installed"} -> "trying"
    [] pc[u] = "installed" -> "installed"
    [] pc[u] = "done" -> "succeeded"
    [] OTHER -> "ended"

Runs == [u \in Updates |-> RunOf(u)]

\* Of updates at once nothing is promised.
Known == IF alone THEN InForce ELSE 0

Promised ==
  INSTANCE Installation WITH
    latest <- newest, installed <- Known, run <- Runs, still <- fresh

\* As long as updates come one at a time, the renames are one step: whatever fails,
\* wherever an update is killed and however the release changes under it, the
\* binary is the one it was or the new one, which is never an older one, and the
\* latest if the release stood still and success is reported.
ReplacedInOneStep == Promised!Spec

\* What README.md says: an interrupted update leaves the working binary where it was.
InterruptedLeavesBinary ==
  \A u \in Updates : pc[u] \in {"killed", "stranded"} => exe \in Binaries
=============================================================================
