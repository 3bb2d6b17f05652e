--------------------------- MODULE Administrator ---------------------------
(***************************************************************************)
(* What the server promises the one who administers it, said without       *)
(* requests, files or restarts read back: there is one account.  Who signs *)
(* in does so under it as it is.  It changes in one step, which signs out  *)
(* every browser but the one it was changed from; that one goes on under   *)
(* the new account.  Once a password has been chosen there is always one.  *)
(***************************************************************************)
CONSTANTS
  Tokens,           \* browsers, by the token they are given
  Account,          \* names with their passwords
  Initial,          \* the account of the first boot
  None

VARIABLES
  account,
  browsers  \* for each token that is signed in, under what; None for the others

vars == <<account, browsers>>

\* A session under account a, which asks for a password if none has been chosen.
Under(a) ==
  [name |-> a.name, mustChange |-> a.password = Initial.password, admitted |-> a.password]

Init ==
  /\ account = Initial
  /\ browsers = [t \in Tokens |-> None]

SignIn(t) ==
  /\ browsers' = [browsers EXCEPT ![t] = Under(account)]
  /\ UNCHANGED account

SignOut(t) ==
  /\ browsers' = [browsers EXCEPT ![t] = None]
  /\ UNCHANGED account

\* From browser t, which may have signed out meanwhile.
Change(t, a) ==
  /\ a.password # Initial.password
  /\ account' = a
  /\ browsers' = [s \in Tokens |-> IF s = t /\ browsers[t] # None THEN Under(a) ELSE None]

SignAllOut ==
  /\ browsers' = [t \in Tokens |-> None]
  /\ UNCHANGED account

Next ==
  \/ \E t \in Tokens :
       SignIn(t) \/ SignOut(t) \/ \E a \in Account : Change(t, a)
  \/ SignAllOut

Spec == Init /\ [][Next]_vars
=============================================================================
