------------------------------ MODULE Accounts ------------------------------
(***************************************************************************)
(* The administrator's account: the copy in memory, the one in the config  *)
(* file, the browsers that are signed in (internal/signal/admin.go), and   *)
(* the save that reads, edits and replaces the file                        *)
(* (internal/config/save.go).  One process per HTTP request; a step is     *)
(* what happens under one lock, or one operation on the file.              *)
(*                                                                         *)
(* A password stands for its hash too, and InitialPassword for having none.*)
(* Malformed and refused requests change nothing and just end.             *)
(***************************************************************************)
EXTENDS Naturals

CONSTANTS
  Requests,         \* the requests; a token is named by the login it answered
  Names, Passwords, \* user names, and passwords one may choose
  InitialName, InitialPassword,
  None,
  MaxCrashes        \* bound: how often the server is restarted

ASSUME NamesAssumption == InitialName \in Names /\ InitialPassword \notin Passwords
ASSUME CrashesAssumption == MaxCrashes \in Nat

AllPasswords == Passwords \cup {InitialPassword}
Account == [name : Names, password : AllPasswords]

\* mustChange: mustChangePassword; admitted: the password it signed in with,
\* or the one it has put in its place (kept for the properties).
Session == [name : Names, mustChange : BOOLEAN, admitted : AllPasswords]

\* A login's or an account change's locals.  The new ones are None if left alone.
Request ==
  [token : Requests \cup {None}, name : Names, password : AllPasswords,
   mustChange : BOOLEAN, newName : Names \cup {None}, newPassword : Passwords \cup {None}]

ASSUME NoneAssumption ==
  /\ None \notin Requests \cup Names \cup AllPasswords
  /\ None \notin Account /\ None \notin Session /\ None \notin Request

VARIABLES
  mem,       \* s.cfg.Admin
  file,      \* the admin section of the config file
  sessions,  \* adminAuth.sessions, by token
  at,        \* where each request's handler is
  req,       \* its locals
  doc,       \* the document its SaveAdmin has read
  single,    \* whether requests come one after the other
  crashes    \* restarts so far

vars == <<mem, file, sessions, at, req, doc, single, crashes>>

\* To come; before and after the name check; past the password check; found to
\* change something; past the checks of a change; with the file read; with it
\* replaced; with the memory updated; with the name for the session read; over.
Stages == {"new", "asked", "named", "passed", "changing", "saving", "read",
           "saved", "updated", "naming", "over"}

TypeOK ==
  /\ mem \in Account /\ file \in Account
  /\ sessions \in [Requests -> Session \cup {None}]
  /\ at \in [Requests -> Stages]
  /\ req \in [Requests -> Request \cup {None}]
  /\ doc \in [Requests -> Account \cup {None}]
  /\ single \in BOOLEAN
  /\ crashes \in 0..MaxCrashes

Init ==
  /\ mem = [name |-> InitialName, password |-> InitialPassword]
  /\ file = mem
  /\ sessions = [t \in Requests |-> None]
  /\ at = [r \in Requests |-> "new"]
  /\ req = [r \in Requests |-> None]
  /\ doc = [r \in Requests |-> None]
  /\ single \in BOOLEAN
  /\ crashes = 0

-----------------------------------------------------------------------------
MoveTo(r, stage) == at' = [at EXCEPT ![r] = stage]

\* The handler returns; its locals are gone.
Return(r) ==
  /\ MoveTo(r, "over")
  /\ req' = [req EXCEPT ![r] = None]
  /\ doc' = [doc EXCEPT ![r] = None]

IsLogin(r) == req[r].token = None

Quiet == \A r \in Requests : at[r] \in {"new", "over"}

\* The account a becomes with the new name and password of request q.
Edited(a, q) ==
  [name |-> IF q.newName = None THEN a.name ELSE q.newName,
   password |-> IF q.newPassword = None THEN a.password ELSE q.newPassword]

\* A login with a name and a password.
Login(r, n, p) ==
  /\ at[r] = "new" /\ (single => Quiet)
  /\ req' = [req EXCEPT ![r] = [token |-> None, name |-> n, password |-> p,
               mustChange |-> FALSE, newName |-> None, newPassword |-> None]]
  /\ MoveTo(r, "asked")
  /\ UNCHANGED <<mem, file, sessions, doc, single, crashes>>

\* A change of account from the browser that holds token t.
Change(r, t, p, nn, np) ==
  /\ at[r] = "new" /\ (single => Quiet)
  /\ sessions[t] # None
  /\ nn # None \/ np # None
  /\ req' = [req EXCEPT ![r] = [token |-> t, name |-> sessions[t].name, password |-> p,
               mustChange |-> FALSE, newName |-> nn, newPassword |-> np]]
  /\ MoveTo(r, "asked")
  /\ UNCHANGED <<mem, file, sessions, doc, single, crashes>>

CheckName(r) ==
  /\ at[r] = "asked"
  /\ IF req[r].name = mem.name THEN MoveTo(r, "named") /\ UNCHANGED <<req, doc>> ELSE Return(r)
  /\ UNCHANGED <<mem, file, sessions, single, crashes>>

CheckPassword(r) ==
  /\ at[r] = "named"
  /\ IF req[r].password = mem.password
     THEN /\ req' = [req EXCEPT ![r].mustChange = (mem.password = InitialPassword)]
          /\ MoveTo(r, "passed")
          /\ UNCHANGED doc
     ELSE Return(r)
  /\ UNCHANGED <<mem, file, sessions, single, crashes>>

\* A change changes something.
CheckRenaming(r) ==
  /\ at[r] = "passed" /\ ~IsLogin(r)
  /\ IF req[r].newPassword = None /\ req[r].newName = mem.name
     THEN Return(r)
     ELSE MoveTo(r, "changing") /\ UNCHANGED <<req, doc>>
  /\ UNCHANGED <<mem, file, sessions, single, crashes>>

\* And chooses a password, if none has been.
CheckFirstBoot(r) ==
  /\ at[r] = "changing"
  /\ IF req[r].newPassword = None /\ mem.password = InitialPassword
     THEN Return(r)
     ELSE MoveTo(r, "saving") /\ UNCHANGED <<req, doc>>
  /\ UNCHANGED <<mem, file, sessions, single, crashes>>

-----------------------------------------------------------------------------
(* SaveAdmin: the file is read, and replaced by a rename.                  *)

ReadFile(r) ==
  /\ at[r] = "saving"
  /\ doc' = [doc EXCEPT ![r] = file]
  /\ MoveTo(r, "read")
  /\ UNCHANGED <<mem, file, sessions, req, single, crashes>>

\* Faulty variant: both keys are written, whichever was to change.
ReplaceBoth(r) ==
  /\ at[r] = "read"
  /\ file' = [Edited(doc[r], req[r]) EXCEPT !.password =
               IF req[r].newPassword = None THEN InitialPassword ELSE req[r].newPassword]
  /\ MoveTo(r, "saved")
  /\ UNCHANGED <<mem, sessions, req, doc, single, crashes>>

ReplaceFile(r) ==
  /\ at[r] = "read"
  /\ file' = Edited(doc[r], req[r])
  /\ MoveTo(r, "saved")
  /\ UNCHANGED <<mem, sessions, req, doc, single, crashes>>

\* The file cannot be read, parsed, written or renamed: nothing has changed.
SaveFails(r) ==
  /\ at[r] \in {"saving", "read"}
  /\ Return(r)
  /\ UNCHANGED <<mem, file, sessions, single, crashes>>

-----------------------------------------------------------------------------
(* After the save, and after a login's checks.                             *)

\* Faulty variant: a field that was left alone is copied too.
UpdateBlank(r) ==
  /\ at[r] = "saved"
  /\ mem' = [name |-> req[r].newName, password |-> req[r].newPassword]
  /\ MoveTo(r, "updated")
  /\ UNCHANGED <<file, sessions, req, doc, single, crashes>>

\* Faulty variant: the new name is only saved.
UpdatePassword(r) ==
  /\ at[r] = "saved"
  /\ mem' = Edited(mem, [req[r] EXCEPT !.newName = None])
  /\ MoveTo(r, "updated")
  /\ UNCHANGED <<file, sessions, req, doc, single, crashes>>

Update(r) ==
  /\ at[r] = "saved"
  /\ mem' = Edited(mem, req[r])
  /\ MoveTo(r, "updated")
  /\ UNCHANGED <<file, sessions, req, doc, single, crashes>>

\* The name that the session is to carry.
TakeName(r) ==
  /\ at[r] = "updated" \/ (at[r] = "passed" /\ IsLogin(r))
  /\ req' = [req EXCEPT ![r].name = mem.name]
  /\ MoveTo(r, "naming")
  /\ UNCHANGED <<mem, file, sessions, doc, single, crashes>>

\* Faulty variant: nobody is asked to choose a password.
IssueOpen(r) ==
  /\ at[r] = "naming" /\ IsLogin(r)
  /\ sessions' = [sessions EXCEPT ![r] =
       [name |-> req[r].name, mustChange |-> FALSE, admitted |-> req[r].password]]
  /\ Return(r)
  /\ UNCHANGED <<mem, file, single, crashes>>

Issue(r) ==
  /\ at[r] = "naming" /\ IsLogin(r)
  /\ sessions' = [sessions EXCEPT ![r] =
       [name |-> req[r].name, mustChange |-> req[r].mustChange, admitted |-> req[r].password]]
  /\ Return(r)
  /\ UNCHANGED <<mem, file, single, crashes>>

\* The session kept by request q, if it is still there.
Kept(q) ==
  IF sessions[q.token] = None THEN None
  ELSE [name |-> q.name, mustChange |-> FALSE,
        admitted |-> IF q.newPassword = None THEN q.password ELSE q.newPassword]

\* Faulty variant: the other browsers stay signed in.
RenameOne(r) ==
  /\ at[r] = "naming" /\ ~IsLogin(r)
  /\ sessions' = [sessions EXCEPT ![req[r].token] = Kept(req[r])]
  /\ Return(r)
  /\ UNCHANGED <<mem, file, single, crashes>>

\* adminAuth.rename: every session but the request's own goes.
Rename(r) ==
  /\ at[r] = "naming" /\ ~IsLogin(r)
  /\ sessions' = [t \in Requests |-> IF t = req[r].token THEN Kept(req[r]) ELSE None]
  /\ Return(r)
  /\ UNCHANGED <<mem, file, single, crashes>>

-----------------------------------------------------------------------------
\* A browser signs out, or its session expires.
SignOut(t) ==
  /\ sessions[t] # None
  /\ sessions' = [sessions EXCEPT ![t] = None]
  /\ UNCHANGED <<mem, file, at, req, doc, single, crashes>>

\* The server is started again: it has what the file says.
Restart ==
  /\ crashes < MaxCrashes
  /\ crashes' = crashes + 1
  /\ mem' = file
  /\ sessions' = [t \in Requests |-> None]
  /\ at' = [r \in Requests |-> IF at[r] = "new" THEN "new" ELSE "over"]
  /\ req' = [r \in Requests |-> None]
  /\ doc' = [r \in Requests |-> None]
  /\ UNCHANGED <<file, single>>

-----------------------------------------------------------------------------
Arrive(r) ==
  \/ \E n \in Names, p \in AllPasswords : Login(r, n, p)
  \/ \E t \in Requests, p \in AllPasswords, nn \in Names \cup {None}, np \in Passwords \cup {None} :
       Change(r, t, p, nn, np)

Handler(r) ==
  \/ CheckName(r) \/ CheckPassword(r) \/ CheckRenaming(r) \/ CheckFirstBoot(r)
  \/ ReadFile(r) \/ ReplaceFile(r) \/ SaveFails(r)
  \/ Update(r) \/ TakeName(r) \/ Issue(r) \/ Rename(r)

Next ==
  \/ \E r \in Requests : Arrive(r) \/ Handler(r) \/ SignOut(r)
  \/ Restart

Spec == Init /\ [][Next]_vars

-----------------------------------------------------------------------------
(* Properties.                                                             *)

\* Once a password has been chosen, neither the server nor its file ever goes
\* back to the one of the first boot.
PasswordStays ==
  [][/\ file.password # InitialPassword => file'.password # InitialPassword
     /\ mem.password # InitialPassword => mem'.password # InitialPassword]_vars

\* A browser is free of the first boot's restriction only once a password has
\* been chosen.
FirstBootGate ==
  \A t \in Requests :
    sessions[t] # None /\ ~sessions[t].mustChange => mem.password # InitialPassword

\* When no request is under way, the server and its file agree on the account: it
\* survives a restart.
SurvivesRestart == Quiet => mem = file

\* It is so when requests come one after the other.
SurvivesRestartIfSingle == single => SurvivesRestart

\* When requests come one after the other, those signed in between two of them
\* have signed in to the account as it is: under its name, and with its password.
SessionsAreCurrent ==
  single /\ Quiet => \A t \in Requests :
    sessions[t] # None => sessions[t].name = mem.name /\ sessions[t].admitted = mem.password

-----------------------------------------------------------------------------
(* What makes PasswordStays and FirstBootGate inductive.                   *)

\* A handler under way has its locals, and a document once it has read the file.
LocalsAreThere == \A r \in Requests :
  /\ at[r] \notin {"new", "over"} => req[r] # None
  /\ at[r] \in {"changing", "saving", "read", "saved", "updated"} => ~IsLogin(r)
  /\ at[r] = "read" => doc[r] # None

\* The file is ahead of the memory; a change that leaves the password alone was
\* let through, and has read the file, after one was chosen.
ChosenFirst ==
  /\ mem.password # InitialPassword => file.password # InitialPassword
  /\ \A r \in Requests :
       /\ at[r] \in {"saving", "read", "saved"} =>
            req[r].newPassword # None \/ mem.password # InitialPassword
       /\ at[r] = "read" =>
            req[r].newPassword # None \/ doc[r].password # InitialPassword
       /\ at[r] = "saved" => file.password # InitialPassword

\* So is what a handler is about to write into a session.
FreeOnesAreLate == \A r \in Requests :
  /\ at[r] \in {"passed", "naming"} /\ IsLogin(r) /\ ~req[r].mustChange =>
       mem.password # InitialPassword
  /\ at[r] \in {"updated", "naming"} /\ ~IsLogin(r) => mem.password # InitialPassword

IInv == TypeOK /\ LocalsAreThere /\ ChosenFirst /\ FreeOnesAreLate /\ FirstBootGate

-----------------------------------------------------------------------------
(* What makes SurvivesRestartIfSingle and SessionsAreCurrent inductive.    *)

OneByOne ==
  single => \A r, q \in Requests :
    at[r] \notin {"new", "over"} /\ at[q] \notin {"new", "over"} => r = q

\* The file differs from the memory only between the save and the update, and then
\* by what the request changes.
FileIsAhead ==
  single =>
    /\ (\A r \in Requests : at[r] # "saved") => mem = file
    /\ \A r \in Requests :
         /\ at[r] = "read" => doc[r] = file
         /\ at[r] = "saved" => file = Edited(mem, req[r])

\* What a request has passed with is what the account is, or what it is changed to.
PassedIsCurrent ==
  single => \A r \in Requests :
    /\ at[r] \in {"passed", "changing", "saving", "read", "saved"} \/ (at[r] = "naming" /\ IsLogin(r)) =>
         req[r].password = mem.password
    /\ at[r] \in {"updated", "naming"} /\ ~IsLogin(r) =>
         mem.password = IF req[r].newPassword = None THEN req[r].password ELSE req[r].newPassword
    /\ at[r] = "naming" => req[r].name = mem.name

\* The browsers lag behind only while a change has still to sign them out.
BrowsersFollow ==
  single /\ (\A r \in Requests : at[r] \in {"updated", "naming"} => IsLogin(r)) =>
    \A t \in Requests :
      sessions[t] # None => sessions[t].name = mem.name /\ sessions[t].admitted = mem.password

SingleInv == OneByOne /\ FileIsAhead /\ PassedIsCurrent /\ BrowsersFollow

\* A login asks for a new password only when none has been chosen.
AskedIfInitial ==
  single => \A r \in Requests :
    at[r] \in {"passed", "naming"} /\ IsLogin(r) /\ req[r].mustChange =>
      mem.password = InitialPassword

-----------------------------------------------------------------------------
(* What one administrator may rely on.  The change takes place when the    *)
(* file is replaced; until the handler has signed the others out, they are *)
(* taken to be so.  Nothing is said of requests that come at once.         *)

FirstAccount == [name |-> InitialName, password |-> InitialPassword]

AccountInForce == IF single THEN file ELSE FirstAccount

\* A change that has replaced the file, and is not over yet.
Committed(r) == at[r] \in {"saved", "updated", "naming"} /\ ~IsLogin(r)

SignedIn(t) ==
  IF ~single \/ sessions[t] = None THEN None
  ELSE IF \A r \in Requests : ~Committed(r) THEN sessions[t]
  ELSE IF \E r \in Requests : Committed(r) /\ req[r].token = t
       THEN [name |-> file.name, mustChange |-> file.password = InitialPassword,
             admitted |-> file.password]
  ELSE None

Browsers == [t \in Requests |-> SignedIn(t)]

Promised ==
  INSTANCE Administrator WITH
    Tokens <- Requests, Initial <- FirstAccount,
    account <- AccountInForce, browsers <- Browsers

\* As long as requests come one after the other, a change of account is one step,
\* for memory, file and browsers alike, wherever the server is killed: no restart
\* finds half of it, whoever signs in meets the account as it is, and nobody stays
\* signed in under one that has been replaced.
ChangesAreAtomic == Promised!Spec
=============================================================================
