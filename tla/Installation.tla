---------------------------- MODULE Installation ----------------------------
(***************************************************************************)
(* What updating in place promises, said without downloads, checksums,     *)
(* files or renames: one version is installed.  An update replaces it in   *)
(* one step, by one that was published and is no older, or leaves it as it *)
(* is; it only fails, or is killed, before that step or behind it.  Who is *)
(* told of success, while the release stood still, has the latest.  Two    *)
(* updates at once are promised nothing: the version is Unknown from then. *)
(***************************************************************************)
EXTENDS Naturals

CONSTANTS Updates, MaxVersion

VARIABLES
  latest,     \* the last version that was published
  installed,  \* the version that is installed
  run,        \* each update: "idle", "trying", "installed", "succeeded" or "ended"
  still       \* whether the release has been complete and the same since it began

vars == <<latest, installed, run, still>>

Unknown == 0
Running == {"trying", "installed"}

Init ==
  /\ latest = 1 /\ installed = 1
  /\ run = [u \in Updates |-> "idle"]
  /\ still = [u \in Updates |-> FALSE]

Publish ==
  /\ latest < MaxVersion /\ latest' = latest + 1
  /\ still' = [u \in Updates |-> FALSE]
  /\ UNCHANGED <<installed, run>>

Start(u) ==
  /\ run[u] = "idle" /\ run' = [run EXCEPT ![u] = "trying"]
  /\ \E stands \in BOOLEAN : still' = [still EXCEPT ![u] = stands]
  /\ installed' = IF \E o \in Updates : run[o] \in Running THEN Unknown ELSE installed
  /\ UNCHANGED latest

Install(u) ==
  /\ run[u] = "trying" /\ run' = [run EXCEPT ![u] = "installed"]
  /\ IF installed = Unknown THEN UNCHANGED installed ELSE installed' \in installed..latest
  /\ UNCHANGED <<latest, still>>

\* Also an update that found nothing to do.
Succeed(u) ==
  /\ run[u] \in Running /\ run' = [run EXCEPT ![u] = "succeeded"]
  /\ still[u] => installed \in {latest, Unknown}
  /\ UNCHANGED <<latest, installed, still>>

\* It fails, or is killed.
End(u) ==
  /\ run[u] \in Running /\ run' = [run EXCEPT ![u] = "ended"]
  /\ UNCHANGED <<latest, installed, still>>

Next ==
  \/ Publish
  \/ \E u \in Updates : Start(u) \/ Install(u) \/ Succeed(u) \/ End(u)

Spec == Init /\ [][Next]_vars
=============================================================================
