--------------------------- MODULE AccountsProofs ---------------------------
(***************************************************************************)
(* Proofs about Accounts: however requests interleave, and whenever the    *)
(* server is started again, a chosen password is never lost to the one of  *)
(* the first boot, and no browser gets past the first boot without one; and*)
(* for requests that come in turn, Accounts implements Administrator.      *)
(***************************************************************************)
EXTENDS Accounts, TLAPS

USE NamesAssumption, CrashesAssumption, NoneAssumption DEF AllPasswords

\* The initial states satisfy the invariant.
LEMMA InitIInv == Init => IInv
<1> SUFFICES ASSUME Init PROVE IInv
  OBVIOUS
<1>1. TypeOK
  BY DEF Init, TypeOK, Account, Stages
<1>2. LocalsAreThere
  BY DEF Init, LocalsAreThere
<1>3. ChosenFirst
  BY DEF Init, ChosenFirst
<1>4. FreeOnesAreLate
  BY DEF Init, FreeOnesAreLate
<1>5. FirstBootGate
  BY DEF Init, FirstBootGate
<1> QED BY <1>1, <1>2, <1>3, <1>4, <1>5 DEF IInv

\* What a login that passes has learnt: whether the password is the first boot's.
LEMMA PasswordChecked ==
  ASSUME TypeOK, LocalsAreThere, NEW r \in Requests, CheckPassword(r), at'[r] = "passed"
  PROVE  /\ at' = [at EXCEPT ![r] = "passed"] /\ doc' = doc
         /\ \/ req' = [req EXCEPT ![r].mustChange = TRUE]
            \/ /\ req' = [req EXCEPT ![r].mustChange = FALSE]
               /\ mem.password # InitialPassword
<1> USE DEF TypeOK, Stages
<1>1. at' = [at EXCEPT ![r] = "passed"] /\ doc' = doc
  BY DEF CheckPassword, MoveTo, Return
<1>2. req' = [req EXCEPT ![r].mustChange = (mem.password = InitialPassword)]
  BY DEF CheckPassword, MoveTo, Return
<1>3. CASE mem.password = InitialPassword
  <2>1. (mem.password = InitialPassword) = TRUE
    BY <1>3
  <2> HIDE DEF TypeOK
  <2> QED BY <1>1, <1>2, <2>1, Zenon
<1>4. CASE mem.password # InitialPassword
  <2>1. (mem.password = InitialPassword) = FALSE
    BY <1>4
  <2> HIDE DEF TypeOK
  <2> QED BY <1>1, <1>2, <1>4, <2>1, Zenon
<1> QED BY <1>3, <1>4

\* Otherwise the handler has returned.
LEMMA PasswordWrong ==
  ASSUME TypeOK, NEW r \in Requests, CheckPassword(r), at'[r] # "passed"
  PROVE  Return(r)
BY DEF TypeOK, CheckPassword, MoveTo

\* The types, action by action.
LEMMA NextTypeOK == TypeOK /\ LocalsAreThere /\ [Next]_vars => TypeOK'
<1> SUFFICES ASSUME TypeOK, LocalsAreThere, [Next]_vars PROVE TypeOK'
  OBVIOUS
<1> USE DEF TypeOK, Account, Session, Request, Stages, LocalsAreThere, IsLogin
<1>1. ASSUME NEW r \in Requests, NEW n \in Names, NEW p \in AllPasswords, Login(r, n, p)
      PROVE TypeOK'
  BY <1>1 DEF Login, MoveTo
<1>2. ASSUME NEW r \in Requests, NEW t \in Requests, NEW p \in AllPasswords,
             NEW nn \in Names \cup {None}, NEW np \in Passwords \cup {None}, Change(r, t, p, nn, np)
      PROVE TypeOK'
  BY <1>2 DEF Change, MoveTo
<1>3. ASSUME NEW r \in Requests, CheckName(r) PROVE TypeOK'
  BY <1>3 DEF CheckName, MoveTo, Return
<1>4. ASSUME NEW r \in Requests, CheckPassword(r) PROVE TypeOK'
  <2>1. CASE at'[r] = "passed"
    <3>1. UNCHANGED <<mem, file, sessions, single, crashes>> /\ at[r] = "named"
      BY <1>4 DEF CheckPassword
    <3>2. at' = [at EXCEPT ![r] = "passed"] /\ doc' = doc
      BY <1>4, <2>1, PasswordChecked
    <3>3. PICK b \in BOOLEAN : req' = [req EXCEPT ![r].mustChange = b]
      BY <1>4, <2>1, PasswordChecked
    <3>4. req[r] \in Request
      BY <3>1
    <3>5. [req[r] EXCEPT !.mustChange = b] \in Request
      BY <3>4
    <3>6. \A s \in Requests : req'[s] = IF s = r THEN [req[s] EXCEPT !.mustChange = b] ELSE req[s]
      BY <3>3
    <3>7. req' \in [Requests -> Request \cup {None}] /\ req'[r] # None
      BY <3>3, <3>5, <3>6
    <3> QED BY <3>1, <3>2, <3>6, <3>7
  <2>2. CASE at'[r] # "passed"
    <3>1. Return(r)
      BY <1>4, <2>2, PasswordWrong
    <3>2. UNCHANGED <<mem, file, sessions, single, crashes>>
      BY <1>4 DEF CheckPassword
    <3> QED BY <3>1, <3>2 DEF Return, MoveTo
  <2> QED BY <2>1, <2>2
<1>5. ASSUME NEW r \in Requests, CheckRenaming(r) PROVE TypeOK'
  BY <1>5 DEF CheckRenaming, MoveTo, Return
<1>6. ASSUME NEW r \in Requests, CheckFirstBoot(r) PROVE TypeOK'
  BY <1>6 DEF CheckFirstBoot, MoveTo, Return
<1>7. ASSUME NEW r \in Requests, ReadFile(r) PROVE TypeOK'
  BY <1>7 DEF ReadFile, MoveTo
<1>8. ASSUME NEW r \in Requests, ReplaceFile(r) PROVE TypeOK'
  BY <1>8 DEF ReplaceFile, MoveTo, Edited
<1>9. ASSUME NEW r \in Requests, SaveFails(r) PROVE TypeOK'
  BY <1>9 DEF SaveFails, Return, MoveTo
<1>10. ASSUME NEW r \in Requests, Update(r) PROVE TypeOK'
  BY <1>10 DEF Update, MoveTo, Edited
<1>11. ASSUME NEW r \in Requests, TakeName(r) PROVE TypeOK'
  BY <1>11 DEF TakeName, MoveTo
<1>12. ASSUME NEW r \in Requests, Issue(r) PROVE TypeOK'
  BY <1>12 DEF Issue, Return, MoveTo
<1>13. ASSUME NEW r \in Requests, Rename(r) PROVE TypeOK'
  BY <1>13 DEF Rename, Return, MoveTo, Kept
<1>14. ASSUME NEW r \in Requests, SignOut(r) PROVE TypeOK'
  BY <1>14 DEF SignOut
<1>15. CASE Restart
  BY <1>15 DEF Restart
<1>16. CASE UNCHANGED vars
  BY <1>16 DEF vars
<1> QED BY <1>1, <1>2, <1>3, <1>4, <1>5, <1>6, <1>7, <1>8, <1>9, <1>10, <1>11, <1>12, <1>13, <1>14, <1>15, <1>16
  DEF Next, Arrive, Handler

\* A handler keeps its locals until it returns.
LEMMA NextLocalsAreThere == TypeOK /\ LocalsAreThere /\ [Next]_vars => LocalsAreThere'
<1> SUFFICES ASSUME TypeOK, LocalsAreThere, [Next]_vars PROVE LocalsAreThere'
  OBVIOUS
<1> USE DEF TypeOK, Account, Session, Request, Stages, LocalsAreThere, IsLogin
<1>1. ASSUME NEW r \in Requests, NEW n \in Names, NEW p \in AllPasswords, Login(r, n, p)
      PROVE LocalsAreThere'
  <2> DEFINE q == [token |-> None, name |-> n, password |-> p,
                  mustChange |-> FALSE, newName |-> None, newPassword |-> None]
  <2>1. q \in Request /\ req' = [req EXCEPT ![r] = q]
    BY <1>1 DEF Login
  <2> HIDE DEF q
  <2>2. q # None
    BY <2>1
  <2>3. at' = [at EXCEPT ![r] = "asked"] /\ doc' = doc
    BY <1>1 DEF Login, MoveTo
  <2> QED BY <2>1, <2>2, <2>3
<1>2. ASSUME NEW r \in Requests, NEW t \in Requests, NEW p \in AllPasswords,
             NEW nn \in Names \cup {None}, NEW np \in Passwords \cup {None}, Change(r, t, p, nn, np)
      PROVE LocalsAreThere'
  <2> DEFINE q == [token |-> t, name |-> sessions[t].name, password |-> p,
                  mustChange |-> FALSE, newName |-> nn, newPassword |-> np]
  <2>1. q \in Request /\ req' = [req EXCEPT ![r] = q]
    BY <1>2 DEF Change
  <2> HIDE DEF q
  <2>2. q # None
    BY <2>1
  <2>3. at' = [at EXCEPT ![r] = "asked"] /\ doc' = doc
    BY <1>2 DEF Change, MoveTo
  <2> QED BY <2>1, <2>2, <2>3
<1>3. ASSUME NEW r \in Requests, CheckName(r) PROVE LocalsAreThere'
  BY <1>3 DEF CheckName, MoveTo, Return
<1>4. ASSUME NEW r \in Requests, CheckPassword(r) PROVE LocalsAreThere'
  <2>1. CASE at'[r] = "passed"
    <3>1. UNCHANGED <<mem, file, sessions, single, crashes>> /\ at[r] = "named"
      BY <1>4 DEF CheckPassword
    <3>2. at' = [at EXCEPT ![r] = "passed"] /\ doc' = doc
      BY <1>4, <2>1, PasswordChecked
    <3>3. PICK b \in BOOLEAN : req' = [req EXCEPT ![r].mustChange = b]
      BY <1>4, <2>1, PasswordChecked
    <3>4. req[r] \in Request
      BY <3>1
    <3>5. [req[r] EXCEPT !.mustChange = b] \in Request
      BY <3>4
    <3>6. \A s \in Requests : req'[s] = IF s = r THEN [req[s] EXCEPT !.mustChange = b] ELSE req[s]
      BY <3>3
    <3>7. req' \in [Requests -> Request \cup {None}] /\ req'[r] # None
      BY <3>3, <3>5, <3>6
    <3> QED BY <3>1, <3>2, <3>6, <3>7
  <2>2. CASE at'[r] # "passed"
    <3>1. Return(r)
      BY <1>4, <2>2, PasswordWrong
    <3>2. UNCHANGED <<mem, file, sessions, single, crashes>>
      BY <1>4 DEF CheckPassword
    <3> QED BY <3>1, <3>2 DEF Return, MoveTo
  <2> QED BY <2>1, <2>2
<1>5. ASSUME NEW r \in Requests, CheckRenaming(r) PROVE LocalsAreThere'
  BY <1>5 DEF CheckRenaming, MoveTo, Return
<1>6. ASSUME NEW r \in Requests, CheckFirstBoot(r) PROVE LocalsAreThere'
  BY <1>6 DEF CheckFirstBoot, MoveTo, Return
<1>7. ASSUME NEW r \in Requests, ReadFile(r) PROVE LocalsAreThere'
  BY <1>7 DEF ReadFile, MoveTo
<1>8. ASSUME NEW r \in Requests, ReplaceFile(r) PROVE LocalsAreThere'
  BY <1>8 DEF ReplaceFile, MoveTo, Edited
<1>9. ASSUME NEW r \in Requests, SaveFails(r) PROVE LocalsAreThere'
  BY <1>9 DEF SaveFails, Return, MoveTo
<1>10. ASSUME NEW r \in Requests, Update(r) PROVE LocalsAreThere'
  BY <1>10 DEF Update, MoveTo, Edited
<1>11. ASSUME NEW r \in Requests, TakeName(r) PROVE LocalsAreThere'
  BY <1>11 DEF TakeName, MoveTo
<1>12. ASSUME NEW r \in Requests, Issue(r) PROVE LocalsAreThere'
  BY <1>12 DEF Issue, Return, MoveTo
<1>13. ASSUME NEW r \in Requests, Rename(r) PROVE LocalsAreThere'
  BY <1>13 DEF Rename, Return, MoveTo, Kept
<1>14. ASSUME NEW r \in Requests, SignOut(r) PROVE LocalsAreThere'
  BY <1>14 DEF SignOut
<1>15. CASE Restart
  BY <1>15 DEF Restart
<1>16. CASE UNCHANGED vars
  BY <1>16 DEF vars
<1> QED BY <1>1, <1>2, <1>3, <1>4, <1>5, <1>6, <1>7, <1>8, <1>9, <1>10, <1>11, <1>12, <1>13, <1>14, <1>15, <1>16
  DEF Next, Arrive, Handler

\* The file is edited from a state in which a password had been chosen.
LEMMA NextChosenFirst == TypeOK /\ LocalsAreThere /\ ChosenFirst /\ [Next]_vars => ChosenFirst'
<1> SUFFICES ASSUME TypeOK, LocalsAreThere, ChosenFirst, [Next]_vars PROVE ChosenFirst'
  OBVIOUS
<1> USE DEF TypeOK, Account, Session, Request, Stages, LocalsAreThere, IsLogin, ChosenFirst
<1>1. ASSUME NEW r \in Requests, NEW n \in Names, NEW p \in AllPasswords, Login(r, n, p)
      PROVE ChosenFirst'
  BY <1>1 DEF Login, MoveTo
<1>2. ASSUME NEW r \in Requests, NEW t \in Requests, NEW p \in AllPasswords,
             NEW nn \in Names \cup {None}, NEW np \in Passwords \cup {None}, Change(r, t, p, nn, np)
      PROVE ChosenFirst'
  BY <1>2 DEF Change, MoveTo
<1>3. ASSUME NEW r \in Requests, CheckName(r) PROVE ChosenFirst'
  BY <1>3 DEF CheckName, MoveTo, Return
<1>4. ASSUME NEW r \in Requests, CheckPassword(r) PROVE ChosenFirst'
  BY <1>4 DEF CheckPassword, MoveTo, Return
<1>5. ASSUME NEW r \in Requests, CheckRenaming(r) PROVE ChosenFirst'
  BY <1>5 DEF CheckRenaming, MoveTo, Return
<1>6. ASSUME NEW r \in Requests, CheckFirstBoot(r) PROVE ChosenFirst'
  BY <1>6 DEF CheckFirstBoot, MoveTo, Return
<1>7. ASSUME NEW r \in Requests, ReadFile(r) PROVE ChosenFirst'
  BY <1>7 DEF ReadFile, MoveTo
<1>8. ASSUME NEW r \in Requests, ReplaceFile(r) PROVE ChosenFirst'
  BY <1>8 DEF ReplaceFile, MoveTo, Edited
<1>9. ASSUME NEW r \in Requests, SaveFails(r) PROVE ChosenFirst'
  BY <1>9 DEF SaveFails, Return, MoveTo
<1>10. ASSUME NEW r \in Requests, Update(r) PROVE ChosenFirst'
  BY <1>10 DEF Update, MoveTo, Edited
<1>11. ASSUME NEW r \in Requests, TakeName(r) PROVE ChosenFirst'
  BY <1>11 DEF TakeName, MoveTo
<1>12. ASSUME NEW r \in Requests, Issue(r) PROVE ChosenFirst'
  BY <1>12 DEF Issue, Return, MoveTo
<1>13. ASSUME NEW r \in Requests, Rename(r) PROVE ChosenFirst'
  BY <1>13 DEF Rename, Return, MoveTo, Kept
<1>14. ASSUME NEW r \in Requests, SignOut(r) PROVE ChosenFirst'
  BY <1>14 DEF SignOut
<1>15. CASE Restart
  BY <1>15 DEF Restart
<1>16. CASE UNCHANGED vars
  BY <1>16 DEF vars
<1> QED BY <1>1, <1>2, <1>3, <1>4, <1>5, <1>6, <1>7, <1>8, <1>9, <1>10, <1>11, <1>12, <1>13, <1>14, <1>15, <1>16
  DEF Next, Arrive, Handler

\* No step takes a chosen password back.
LEMMA StepPasswordStays == TypeOK /\ LocalsAreThere /\ ChosenFirst /\ [Next]_vars => (file.password # InitialPassword => file'.password # InitialPassword) /\ (mem.password # InitialPassword => mem'.password # InitialPassword)
<1> SUFFICES ASSUME TypeOK, LocalsAreThere, ChosenFirst, [Next]_vars PROVE (file.password # InitialPassword => file'.password # InitialPassword) /\ (mem.password # InitialPassword => mem'.password # InitialPassword)
  OBVIOUS
<1> USE DEF TypeOK, Account, Session, Request, Stages, LocalsAreThere, IsLogin, ChosenFirst
<1>1. ASSUME NEW r \in Requests, NEW n \in Names, NEW p \in AllPasswords, Login(r, n, p)
      PROVE (file.password # InitialPassword => file'.password # InitialPassword) /\ (mem.password # InitialPassword => mem'.password # InitialPassword)
  BY <1>1 DEF Login, MoveTo
<1>2. ASSUME NEW r \in Requests, NEW t \in Requests, NEW p \in AllPasswords,
             NEW nn \in Names \cup {None}, NEW np \in Passwords \cup {None}, Change(r, t, p, nn, np)
      PROVE (file.password # InitialPassword => file'.password # InitialPassword) /\ (mem.password # InitialPassword => mem'.password # InitialPassword)
  BY <1>2 DEF Change, MoveTo
<1>3. ASSUME NEW r \in Requests, CheckName(r) PROVE (file.password # InitialPassword => file'.password # InitialPassword) /\ (mem.password # InitialPassword => mem'.password # InitialPassword)
  BY <1>3 DEF CheckName, MoveTo, Return
<1>4. ASSUME NEW r \in Requests, CheckPassword(r) PROVE (file.password # InitialPassword => file'.password # InitialPassword) /\ (mem.password # InitialPassword => mem'.password # InitialPassword)
  BY <1>4 DEF CheckPassword, MoveTo, Return
<1>5. ASSUME NEW r \in Requests, CheckRenaming(r) PROVE (file.password # InitialPassword => file'.password # InitialPassword) /\ (mem.password # InitialPassword => mem'.password # InitialPassword)
  BY <1>5 DEF CheckRenaming, MoveTo, Return
<1>6. ASSUME NEW r \in Requests, CheckFirstBoot(r) PROVE (file.password # InitialPassword => file'.password # InitialPassword) /\ (mem.password # InitialPassword => mem'.password # InitialPassword)
  BY <1>6 DEF CheckFirstBoot, MoveTo, Return
<1>7. ASSUME NEW r \in Requests, ReadFile(r) PROVE (file.password # InitialPassword => file'.password # InitialPassword) /\ (mem.password # InitialPassword => mem'.password # InitialPassword)
  BY <1>7 DEF ReadFile, MoveTo
<1>8. ASSUME NEW r \in Requests, ReplaceFile(r) PROVE (file.password # InitialPassword => file'.password # InitialPassword) /\ (mem.password # InitialPassword => mem'.password # InitialPassword)
  BY <1>8 DEF ReplaceFile, MoveTo, Edited
<1>9. ASSUME NEW r \in Requests, SaveFails(r) PROVE (file.password # InitialPassword => file'.password # InitialPassword) /\ (mem.password # InitialPassword => mem'.password # InitialPassword)
  BY <1>9 DEF SaveFails, Return, MoveTo
<1>10. ASSUME NEW r \in Requests, Update(r) PROVE (file.password # InitialPassword => file'.password # InitialPassword) /\ (mem.password # InitialPassword => mem'.password # InitialPassword)
  BY <1>10 DEF Update, MoveTo, Edited
<1>11. ASSUME NEW r \in Requests, TakeName(r) PROVE (file.password # InitialPassword => file'.password # InitialPassword) /\ (mem.password # InitialPassword => mem'.password # InitialPassword)
  BY <1>11 DEF TakeName, MoveTo
<1>12. ASSUME NEW r \in Requests, Issue(r) PROVE (file.password # InitialPassword => file'.password # InitialPassword) /\ (mem.password # InitialPassword => mem'.password # InitialPassword)
  BY <1>12 DEF Issue, Return, MoveTo
<1>13. ASSUME NEW r \in Requests, Rename(r) PROVE (file.password # InitialPassword => file'.password # InitialPassword) /\ (mem.password # InitialPassword => mem'.password # InitialPassword)
  BY <1>13 DEF Rename, Return, MoveTo, Kept
<1>14. ASSUME NEW r \in Requests, SignOut(r) PROVE (file.password # InitialPassword => file'.password # InitialPassword) /\ (mem.password # InitialPassword => mem'.password # InitialPassword)
  BY <1>14 DEF SignOut
<1>15. CASE Restart
  BY <1>15 DEF Restart
<1>16. CASE UNCHANGED vars
  BY <1>16 DEF vars
<1> QED BY <1>1, <1>2, <1>3, <1>4, <1>5, <1>6, <1>7, <1>8, <1>9, <1>10, <1>11, <1>12, <1>13, <1>14, <1>15, <1>16
  DEF Next, Arrive, Handler

\* A handler that is about to free a browser has seen a chosen password.
LEMMA NextFreeOnesAreLate == TypeOK /\ LocalsAreThere /\ ChosenFirst /\ FreeOnesAreLate /\ [Next]_vars => FreeOnesAreLate'
<1> SUFFICES ASSUME TypeOK, LocalsAreThere, ChosenFirst, FreeOnesAreLate, [Next]_vars PROVE FreeOnesAreLate'
  OBVIOUS
<1> USE DEF TypeOK, Account, Session, Request, Stages, LocalsAreThere, IsLogin, ChosenFirst, FreeOnesAreLate
<1>1. ASSUME NEW r \in Requests, NEW n \in Names, NEW p \in AllPasswords, Login(r, n, p)
      PROVE FreeOnesAreLate'
  BY <1>1 DEF Login, MoveTo
<1>2. ASSUME NEW r \in Requests, NEW t \in Requests, NEW p \in AllPasswords,
             NEW nn \in Names \cup {None}, NEW np \in Passwords \cup {None}, Change(r, t, p, nn, np)
      PROVE FreeOnesAreLate'
  BY <1>2 DEF Change, MoveTo
<1>3. ASSUME NEW r \in Requests, CheckName(r) PROVE FreeOnesAreLate'
  BY <1>3 DEF CheckName, MoveTo, Return
<1>4. ASSUME NEW r \in Requests, CheckPassword(r) PROVE FreeOnesAreLate'
  <2>1. CASE at'[r] = "passed"
    <3>1. UNCHANGED <<mem, file, sessions, single, crashes>> /\ at[r] = "named"
      BY <1>4 DEF CheckPassword
    <3> QED BY <1>4, <2>1, <3>1, PasswordChecked
  <2>2. CASE at'[r] # "passed"
    <3>1. Return(r)
      BY <1>4, <2>2, PasswordWrong
    <3>2. UNCHANGED <<mem, file, sessions, single, crashes>>
      BY <1>4 DEF CheckPassword
    <3> QED BY <3>1, <3>2 DEF Return, MoveTo
  <2> QED BY <2>1, <2>2
<1>5. ASSUME NEW r \in Requests, CheckRenaming(r) PROVE FreeOnesAreLate'
  BY <1>5 DEF CheckRenaming, MoveTo, Return
<1>6. ASSUME NEW r \in Requests, CheckFirstBoot(r) PROVE FreeOnesAreLate'
  BY <1>6 DEF CheckFirstBoot, MoveTo, Return
<1>7. ASSUME NEW r \in Requests, ReadFile(r) PROVE FreeOnesAreLate'
  BY <1>7 DEF ReadFile, MoveTo
<1>8. ASSUME NEW r \in Requests, ReplaceFile(r) PROVE FreeOnesAreLate'
  BY <1>8 DEF ReplaceFile, MoveTo, Edited
<1>9. ASSUME NEW r \in Requests, SaveFails(r) PROVE FreeOnesAreLate'
  BY <1>9 DEF SaveFails, Return, MoveTo
<1>10. ASSUME NEW r \in Requests, Update(r) PROVE FreeOnesAreLate'
  BY <1>10 DEF Update, MoveTo, Edited
<1>11. ASSUME NEW r \in Requests, TakeName(r) PROVE FreeOnesAreLate'
  BY <1>11 DEF TakeName, MoveTo
<1>12. ASSUME NEW r \in Requests, Issue(r) PROVE FreeOnesAreLate'
  BY <1>12 DEF Issue, Return, MoveTo
<1>13. ASSUME NEW r \in Requests, Rename(r) PROVE FreeOnesAreLate'
  BY <1>13 DEF Rename, Return, MoveTo, Kept
<1>14. ASSUME NEW r \in Requests, SignOut(r) PROVE FreeOnesAreLate'
  BY <1>14 DEF SignOut
<1>15. CASE Restart
  BY <1>15 DEF Restart
<1>16. CASE UNCHANGED vars
  BY <1>16 DEF vars
<1> QED BY <1>1, <1>2, <1>3, <1>4, <1>5, <1>6, <1>7, <1>8, <1>9, <1>10, <1>11, <1>12, <1>13, <1>14, <1>15, <1>16
  DEF Next, Arrive, Handler

\* Browsers are freed by such handlers only.
LEMMA NextFirstBootGate == TypeOK /\ LocalsAreThere /\ ChosenFirst /\ FreeOnesAreLate /\ FirstBootGate /\ [Next]_vars => FirstBootGate'
<1> SUFFICES ASSUME TypeOK, LocalsAreThere, ChosenFirst, FreeOnesAreLate, FirstBootGate, [Next]_vars PROVE FirstBootGate'
  OBVIOUS
<1> USE DEF TypeOK, Account, Session, Request, Stages, LocalsAreThere, IsLogin, ChosenFirst, FreeOnesAreLate, FirstBootGate
<1>1. ASSUME NEW r \in Requests, NEW n \in Names, NEW p \in AllPasswords, Login(r, n, p)
      PROVE FirstBootGate'
  BY <1>1 DEF Login, MoveTo
<1>2. ASSUME NEW r \in Requests, NEW t \in Requests, NEW p \in AllPasswords,
             NEW nn \in Names \cup {None}, NEW np \in Passwords \cup {None}, Change(r, t, p, nn, np)
      PROVE FirstBootGate'
  BY <1>2 DEF Change, MoveTo
<1>3. ASSUME NEW r \in Requests, CheckName(r) PROVE FirstBootGate'
  BY <1>3 DEF CheckName, MoveTo, Return
<1>4. ASSUME NEW r \in Requests, CheckPassword(r) PROVE FirstBootGate'
  BY <1>4 DEF CheckPassword, MoveTo, Return
<1>5. ASSUME NEW r \in Requests, CheckRenaming(r) PROVE FirstBootGate'
  BY <1>5 DEF CheckRenaming, MoveTo, Return
<1>6. ASSUME NEW r \in Requests, CheckFirstBoot(r) PROVE FirstBootGate'
  BY <1>6 DEF CheckFirstBoot, MoveTo, Return
<1>7. ASSUME NEW r \in Requests, ReadFile(r) PROVE FirstBootGate'
  BY <1>7 DEF ReadFile, MoveTo
<1>8. ASSUME NEW r \in Requests, ReplaceFile(r) PROVE FirstBootGate'
  BY <1>8 DEF ReplaceFile, MoveTo, Edited
<1>9. ASSUME NEW r \in Requests, SaveFails(r) PROVE FirstBootGate'
  BY <1>9 DEF SaveFails, Return, MoveTo
<1>10. ASSUME NEW r \in Requests, Update(r) PROVE FirstBootGate'
  BY <1>10 DEF Update, MoveTo, Edited
<1>11. ASSUME NEW r \in Requests, TakeName(r) PROVE FirstBootGate'
  BY <1>11 DEF TakeName, MoveTo
<1>12. ASSUME NEW r \in Requests, Issue(r) PROVE FirstBootGate'
  BY <1>12 DEF Issue, Return, MoveTo
<1>13. ASSUME NEW r \in Requests, Rename(r) PROVE FirstBootGate'
  BY <1>13 DEF Rename, Return, MoveTo, Kept
<1>14. ASSUME NEW r \in Requests, SignOut(r) PROVE FirstBootGate'
  BY <1>14 DEF SignOut
<1>15. CASE Restart
  BY <1>15 DEF Restart
<1>16. CASE UNCHANGED vars
  BY <1>16 DEF vars
<1> QED BY <1>1, <1>2, <1>3, <1>4, <1>5, <1>6, <1>7, <1>8, <1>9, <1>10, <1>11, <1>12, <1>13, <1>14, <1>15, <1>16
  DEF Next, Arrive, Handler

\* Together.
LEMMA NextIInv == IInv /\ [Next]_vars => IInv'
BY NextTypeOK, NextLocalsAreThere, NextChosenFirst, NextFreeOnesAreLate, NextFirstBootGate DEF IInv

\* No browser passes the first boot without a password.
THEOREM FirstBootIsGated == Spec => []FirstBootGate
<1>1. IInv => FirstBootGate
  BY DEF IInv
<1> QED BY InitIInv, NextIInv, <1>1, PTL DEF Spec

\* Every variable keeps its type: handlers have their locals, sessions are whole.
THEOREM AccountTypeCorrect == Spec => []TypeOK
<1>1. IInv => TypeOK
  BY DEF IInv
<1> QED BY InitIInv, NextIInv, <1>1, PTL DEF Spec

\* A chosen password is never lost to the one of the first boot.
THEOREM ChosenPasswordStays == Spec => PasswordStays
<1>1. IInv /\ [Next]_vars =>
        [/\ file.password # InitialPassword => file'.password # InitialPassword
         /\ mem.password # InitialPassword => mem'.password # InitialPassword]_vars
  BY StepPasswordStays DEF IInv
<1> QED BY InitIInv, NextIInv, <1>1, PTL DEF Spec, PasswordStays
-----------------------------------------------------------------------------
(* One request after the other.                                            *)

\* A request that comes finds nobody at work.
LEMMA NextOneByOne == TypeOK /\ OneByOne /\ [Next]_vars => OneByOne'
<1> SUFFICES ASSUME TypeOK, OneByOne, [Next]_vars PROVE OneByOne'
  OBVIOUS
<1> USE DEF TypeOK, Stages, OneByOne, Quiet
<1>1. ASSUME NEW r \in Requests, NEW n \in Names, NEW p \in AllPasswords, Login(r, n, p)
      PROVE OneByOne'
  BY <1>1 DEF Login, MoveTo
<1>2. ASSUME NEW r \in Requests, NEW t \in Requests, NEW p \in AllPasswords,
             NEW nn \in Names \cup {None}, NEW np \in Passwords \cup {None}, Change(r, t, p, nn, np)
      PROVE OneByOne'
  BY <1>2 DEF Change, MoveTo
<1>3. ASSUME NEW r \in Requests, CheckName(r) PROVE OneByOne'
  BY <1>3 DEF CheckName, MoveTo, Return
<1>4. ASSUME NEW r \in Requests, CheckPassword(r) PROVE OneByOne'
  BY <1>4 DEF CheckPassword, MoveTo, Return
<1>5. ASSUME NEW r \in Requests, CheckRenaming(r) PROVE OneByOne'
  BY <1>5 DEF CheckRenaming, MoveTo, Return
<1>6. ASSUME NEW r \in Requests, CheckFirstBoot(r) PROVE OneByOne'
  BY <1>6 DEF CheckFirstBoot, MoveTo, Return
<1>7. ASSUME NEW r \in Requests, ReadFile(r) PROVE OneByOne'
  BY <1>7 DEF ReadFile, MoveTo
<1>8. ASSUME NEW r \in Requests, ReplaceFile(r) PROVE OneByOne'
  BY <1>8 DEF ReplaceFile, MoveTo, Edited
<1>9. ASSUME NEW r \in Requests, SaveFails(r) PROVE OneByOne'
  BY <1>9 DEF SaveFails, Return, MoveTo
<1>10. ASSUME NEW r \in Requests, Update(r) PROVE OneByOne'
  BY <1>10 DEF Update, MoveTo, Edited
<1>11. ASSUME NEW r \in Requests, TakeName(r) PROVE OneByOne'
  BY <1>11 DEF TakeName, MoveTo
<1>12. ASSUME NEW r \in Requests, Issue(r) PROVE OneByOne'
  BY <1>12 DEF Issue, Return, MoveTo
<1>13. ASSUME NEW r \in Requests, Rename(r) PROVE OneByOne'
  BY <1>13 DEF Rename, Return, MoveTo, Kept
<1>14. ASSUME NEW r \in Requests, SignOut(r) PROVE OneByOne'
  BY <1>14 DEF SignOut
<1>15. CASE Restart
  BY <1>15 DEF Restart
<1>16. CASE UNCHANGED vars
  BY <1>16 DEF vars
<1> QED BY <1>1, <1>2, <1>3, <1>4, <1>5, <1>6, <1>7, <1>8, <1>9, <1>10, <1>11, <1>12, <1>13, <1>14, <1>15, <1>16
  DEF Next, Arrive, Handler

\* The file is replaced by the one request under way, and then the memory follows.
LEMMA NextFileIsAhead == TypeOK /\ LocalsAreThere /\ OneByOne /\ FileIsAhead /\ [Next]_vars => FileIsAhead'
<1> SUFFICES ASSUME TypeOK, LocalsAreThere, OneByOne, FileIsAhead, [Next]_vars PROVE FileIsAhead'
  OBVIOUS
<1> USE DEF TypeOK, Account, Session, Request, Stages, LocalsAreThere, IsLogin, OneByOne, FileIsAhead
<1>1. ASSUME NEW r \in Requests, NEW n \in Names, NEW p \in AllPasswords, Login(r, n, p)
      PROVE FileIsAhead'
  BY <1>1 DEF Login, MoveTo
<1>2. ASSUME NEW r \in Requests, NEW t \in Requests, NEW p \in AllPasswords,
             NEW nn \in Names \cup {None}, NEW np \in Passwords \cup {None}, Change(r, t, p, nn, np)
      PROVE FileIsAhead'
  BY <1>2 DEF Change, MoveTo
<1>3. ASSUME NEW r \in Requests, CheckName(r) PROVE FileIsAhead'
  BY <1>3 DEF CheckName, MoveTo, Return
<1>4. ASSUME NEW r \in Requests, CheckPassword(r) PROVE FileIsAhead'
  <2>1. CASE at'[r] = "passed"
    <3>1. UNCHANGED <<mem, file, sessions, single, crashes>> /\ at[r] = "named"
      BY <1>4 DEF CheckPassword
    <3>2. at' = [at EXCEPT ![r] = "passed"] /\ doc' = doc
      BY <1>4, <2>1, PasswordChecked
    <3>3. PICK b \in BOOLEAN : req' = [req EXCEPT ![r].mustChange = b]
      BY <1>4, <2>1, PasswordChecked
    <3>4. req[r] \in Request
      BY <3>1
    <3>5. [req[r] EXCEPT !.mustChange = b] \in Request
      BY <3>4
    <3>6. \A s \in Requests : req'[s] = IF s = r THEN [req[s] EXCEPT !.mustChange = b] ELSE req[s]
      BY <3>3
    <3>7. req' \in [Requests -> Request \cup {None}] /\ req'[r] # None
      BY <3>3, <3>5, <3>6
    <3> QED BY <3>1, <3>2, <3>6, <3>7
  <2>2. CASE at'[r] # "passed"
    <3>1. Return(r)
      BY <1>4, <2>2, PasswordWrong
    <3>2. UNCHANGED <<mem, file, sessions, single, crashes>> /\ at[r] = "named"
      BY <1>4 DEF CheckPassword
    <3> QED BY <3>1, <3>2 DEF Return, MoveTo
  <2> QED BY <2>1, <2>2
<1>5. ASSUME NEW r \in Requests, CheckRenaming(r) PROVE FileIsAhead'
  BY <1>5 DEF CheckRenaming, MoveTo, Return
<1>6. ASSUME NEW r \in Requests, CheckFirstBoot(r) PROVE FileIsAhead'
  BY <1>6 DEF CheckFirstBoot, MoveTo, Return
<1>7. ASSUME NEW r \in Requests, ReadFile(r) PROVE FileIsAhead'
  BY <1>7 DEF ReadFile, MoveTo
<1>8. ASSUME NEW r \in Requests, ReplaceFile(r) PROVE FileIsAhead'
  BY <1>8 DEF ReplaceFile, MoveTo, Edited
<1>9. ASSUME NEW r \in Requests, SaveFails(r) PROVE FileIsAhead'
  BY <1>9 DEF SaveFails, Return, MoveTo
<1>10. ASSUME NEW r \in Requests, Update(r) PROVE FileIsAhead'
  BY <1>10 DEF Update, MoveTo, Edited
<1>11. ASSUME NEW r \in Requests, TakeName(r) PROVE FileIsAhead'
  BY <1>11 DEF TakeName, MoveTo
<1>12. ASSUME NEW r \in Requests, Issue(r) PROVE FileIsAhead'
  BY <1>12 DEF Issue, Return, MoveTo
<1>13. ASSUME NEW r \in Requests, Rename(r) PROVE FileIsAhead'
  BY <1>13 DEF Rename, Return, MoveTo, Kept
<1>14. ASSUME NEW r \in Requests, SignOut(r) PROVE FileIsAhead'
  BY <1>14 DEF SignOut
<1>15. CASE Restart
  BY <1>15 DEF Restart
<1>16. CASE UNCHANGED vars
  BY <1>16 DEF vars
<1> QED BY <1>1, <1>2, <1>3, <1>4, <1>5, <1>6, <1>7, <1>8, <1>9, <1>10, <1>11, <1>12, <1>13, <1>14, <1>15, <1>16
  DEF Next, Arrive, Handler

\* Nobody changes the account under the request that passed.
LEMMA NextPassedIsCurrent == TypeOK /\ LocalsAreThere /\ OneByOne /\ PassedIsCurrent /\ [Next]_vars => PassedIsCurrent'
<1> SUFFICES ASSUME TypeOK, LocalsAreThere, OneByOne, PassedIsCurrent, [Next]_vars PROVE PassedIsCurrent'
  OBVIOUS
<1> USE DEF TypeOK, Account, Session, Request, Stages, LocalsAreThere, IsLogin, OneByOne, PassedIsCurrent
<1>1. ASSUME NEW r \in Requests, NEW n \in Names, NEW p \in AllPasswords, Login(r, n, p)
      PROVE PassedIsCurrent'
  BY <1>1 DEF Login, MoveTo
<1>2. ASSUME NEW r \in Requests, NEW t \in Requests, NEW p \in AllPasswords,
             NEW nn \in Names \cup {None}, NEW np \in Passwords \cup {None}, Change(r, t, p, nn, np)
      PROVE PassedIsCurrent'
  BY <1>2 DEF Change, MoveTo
<1>3. ASSUME NEW r \in Requests, CheckName(r) PROVE PassedIsCurrent'
  BY <1>3 DEF CheckName, MoveTo, Return
<1>4. ASSUME NEW r \in Requests, CheckPassword(r) PROVE PassedIsCurrent'
  <2>1. CASE at'[r] = "passed"
    <3>1. UNCHANGED <<mem, file, sessions, single, crashes>> /\ at[r] = "named"
      BY <1>4 DEF CheckPassword
    <3>2. at' = [at EXCEPT ![r] = "passed"] /\ doc' = doc
      BY <1>4, <2>1, PasswordChecked
    <3>3. PICK b \in BOOLEAN : req' = [req EXCEPT ![r].mustChange = b]
      BY <1>4, <2>1, PasswordChecked
    <3>4. req[r] \in Request
      BY <3>1
    <3>5. [req[r] EXCEPT !.mustChange = b] \in Request
      BY <3>4
    <3>6. \A s \in Requests : req'[s] = IF s = r THEN [req[s] EXCEPT !.mustChange = b] ELSE req[s]
      BY <3>3
    <3>7. req' \in [Requests -> Request \cup {None}] /\ req'[r] # None
      BY <3>3, <3>5, <3>6
    <3>8. req[r].password = mem.password
      BY <1>4, <2>1 DEF CheckPassword, Return, MoveTo
    <3>9. \A s \in Requests : req[s] # None =>
            /\ req'[s].token = req[s].token /\ req'[s].name = req[s].name
            /\ req'[s].password = req[s].password /\ req'[s].newPassword = req[s].newPassword
      <4> TAKE s \in Requests
      <4> HAVE req[s] # None
      <4>1. req[s] \in Request
        OBVIOUS
      <4>2. CASE s = r
        <5>1. req'[s] = [req[s] EXCEPT !.mustChange = b]
          BY <3>6, <4>2
        <5> QED BY <4>1, <5>1
      <4>3. CASE s # r
        BY <3>6, <4>3
      <4> QED BY <4>2, <4>3
    <3>10. \A s \in Requests : at'[s] = IF s = r THEN "passed" ELSE at[s]
      BY <3>2
    <3> QED BY <3>1, <3>8, <3>9, <3>10
  <2>2. CASE at'[r] # "passed"
    <3>1. Return(r)
      BY <1>4, <2>2, PasswordWrong
    <3>2. UNCHANGED <<mem, file, sessions, single, crashes>> /\ at[r] = "named"
      BY <1>4 DEF CheckPassword
    <3> QED BY <3>1, <3>2 DEF Return, MoveTo
  <2> QED BY <2>1, <2>2
<1>5. ASSUME NEW r \in Requests, CheckRenaming(r) PROVE PassedIsCurrent'
  BY <1>5 DEF CheckRenaming, MoveTo, Return
<1>6. ASSUME NEW r \in Requests, CheckFirstBoot(r) PROVE PassedIsCurrent'
  BY <1>6 DEF CheckFirstBoot, MoveTo, Return
<1>7. ASSUME NEW r \in Requests, ReadFile(r) PROVE PassedIsCurrent'
  BY <1>7 DEF ReadFile, MoveTo
<1>8. ASSUME NEW r \in Requests, ReplaceFile(r) PROVE PassedIsCurrent'
  BY <1>8 DEF ReplaceFile, MoveTo, Edited
<1>9. ASSUME NEW r \in Requests, SaveFails(r) PROVE PassedIsCurrent'
  BY <1>9 DEF SaveFails, Return, MoveTo
<1>10. ASSUME NEW r \in Requests, Update(r) PROVE PassedIsCurrent'
  BY <1>10 DEF Update, MoveTo, Edited
<1>11. ASSUME NEW r \in Requests, TakeName(r) PROVE PassedIsCurrent'
  BY <1>11 DEF TakeName, MoveTo
<1>12. ASSUME NEW r \in Requests, Issue(r) PROVE PassedIsCurrent'
  BY <1>12 DEF Issue, Return, MoveTo
<1>13. ASSUME NEW r \in Requests, Rename(r) PROVE PassedIsCurrent'
  BY <1>13 DEF Rename, Return, MoveTo, Kept
<1>14. ASSUME NEW r \in Requests, SignOut(r) PROVE PassedIsCurrent'
  BY <1>14 DEF SignOut
<1>15. CASE Restart
  BY <1>15 DEF Restart
<1>16. CASE UNCHANGED vars
  BY <1>16 DEF vars
<1> QED BY <1>1, <1>2, <1>3, <1>4, <1>5, <1>6, <1>7, <1>8, <1>9, <1>10, <1>11, <1>12, <1>13, <1>14, <1>15, <1>16
  DEF Next, Arrive, Handler

\* What a request puts into a session is what the account is.
LEMMA NextBrowsersFollow == TypeOK /\ LocalsAreThere /\ OneByOne /\ PassedIsCurrent /\ BrowsersFollow /\ [Next]_vars => BrowsersFollow'
<1> SUFFICES ASSUME TypeOK, LocalsAreThere, OneByOne, PassedIsCurrent, BrowsersFollow, [Next]_vars PROVE BrowsersFollow'
  OBVIOUS
<1> USE DEF TypeOK, Account, Session, Request, Stages, LocalsAreThere, IsLogin, OneByOne, PassedIsCurrent, BrowsersFollow
<1>1. ASSUME NEW r \in Requests, NEW n \in Names, NEW p \in AllPasswords, Login(r, n, p)
      PROVE BrowsersFollow'
  BY <1>1 DEF Login, MoveTo
<1>2. ASSUME NEW r \in Requests, NEW t \in Requests, NEW p \in AllPasswords,
             NEW nn \in Names \cup {None}, NEW np \in Passwords \cup {None}, Change(r, t, p, nn, np)
      PROVE BrowsersFollow'
  BY <1>2 DEF Change, MoveTo
<1>3. ASSUME NEW r \in Requests, CheckName(r) PROVE BrowsersFollow'
  BY <1>3 DEF CheckName, MoveTo, Return
<1>4. ASSUME NEW r \in Requests, CheckPassword(r) PROVE BrowsersFollow'
  <2>1. CASE at'[r] = "passed"
    <3>1. UNCHANGED <<mem, file, sessions, single, crashes>> /\ at[r] = "named"
      BY <1>4 DEF CheckPassword
    <3>2. at' = [at EXCEPT ![r] = "passed"] /\ doc' = doc
      BY <1>4, <2>1, PasswordChecked
    <3>3. PICK b \in BOOLEAN : req' = [req EXCEPT ![r].mustChange = b]
      BY <1>4, <2>1, PasswordChecked
    <3>4. req[r] \in Request
      BY <3>1
    <3>5. [req[r] EXCEPT !.mustChange = b] \in Request
      BY <3>4
    <3>6. \A s \in Requests : req'[s] = IF s = r THEN [req[s] EXCEPT !.mustChange = b] ELSE req[s]
      BY <3>3
    <3>7. req' \in [Requests -> Request \cup {None}] /\ req'[r] # None
      BY <3>3, <3>5, <3>6
    <3> QED BY <3>1, <3>2, <3>6, <3>7
  <2>2. CASE at'[r] # "passed"
    <3>1. Return(r)
      BY <1>4, <2>2, PasswordWrong
    <3>2. UNCHANGED <<mem, file, sessions, single, crashes>> /\ at[r] = "named"
      BY <1>4 DEF CheckPassword
    <3> QED BY <3>1, <3>2 DEF Return, MoveTo
  <2> QED BY <2>1, <2>2
<1>5. ASSUME NEW r \in Requests, CheckRenaming(r) PROVE BrowsersFollow'
  BY <1>5 DEF CheckRenaming, MoveTo, Return
<1>6. ASSUME NEW r \in Requests, CheckFirstBoot(r) PROVE BrowsersFollow'
  BY <1>6 DEF CheckFirstBoot, MoveTo, Return
<1>7. ASSUME NEW r \in Requests, ReadFile(r) PROVE BrowsersFollow'
  BY <1>7 DEF ReadFile, MoveTo
<1>8. ASSUME NEW r \in Requests, ReplaceFile(r) PROVE BrowsersFollow'
  BY <1>8 DEF ReplaceFile, MoveTo, Edited
<1>9. ASSUME NEW r \in Requests, SaveFails(r) PROVE BrowsersFollow'
  BY <1>9 DEF SaveFails, Return, MoveTo
<1>10. ASSUME NEW r \in Requests, Update(r) PROVE BrowsersFollow'
  BY <1>10 DEF Update, MoveTo, Edited
<1>11. ASSUME NEW r \in Requests, TakeName(r) PROVE BrowsersFollow'
  BY <1>11 DEF TakeName, MoveTo
<1>12. ASSUME NEW r \in Requests, Issue(r) PROVE BrowsersFollow'
  BY <1>12 DEF Issue, Return, MoveTo
<1>13. ASSUME NEW r \in Requests, Rename(r) PROVE BrowsersFollow'
  BY <1>13 DEF Rename, Return, MoveTo, Kept
<1>14. ASSUME NEW r \in Requests, SignOut(r) PROVE BrowsersFollow'
  BY <1>14 DEF SignOut
<1>15. CASE Restart
  BY <1>15 DEF Restart
<1>16. CASE UNCHANGED vars
  BY <1>16 DEF vars
<1> QED BY <1>1, <1>2, <1>3, <1>4, <1>5, <1>6, <1>7, <1>8, <1>9, <1>10, <1>11, <1>12, <1>13, <1>14, <1>15, <1>16
  DEF Next, Arrive, Handler

\* Together.
LEMMA SingleInvariance == Spec => [](IInv /\ SingleInv)
<1>1. Init => IInv /\ SingleInv
  BY InitIInv DEF Init, SingleInv, OneByOne, FileIsAhead, PassedIsCurrent, BrowsersFollow
<1>2. IInv /\ SingleInv /\ [Next]_vars => IInv' /\ SingleInv'
  BY NextIInv, NextOneByOne, NextFileIsAhead, NextPassedIsCurrent, NextBrowsersFollow DEF IInv, SingleInv
<1> QED BY <1>1, <1>2, PTL DEF Spec

\* With requests one after the other, the account survives a restart.
THEOREM SingleSurvivesRestart == Spec => []SurvivesRestartIfSingle
<1>1. SingleInv => SurvivesRestartIfSingle
  BY DEF SingleInv, FileIsAhead, SurvivesRestartIfSingle, SurvivesRestart, Quiet
<1> QED BY SingleInvariance, <1>1, PTL

\* And who is signed in then has signed in to the account as it is.
THEOREM SessionsStayCurrent == Spec => []SessionsAreCurrent
<1>1. SingleInv => SessionsAreCurrent
  BY DEF SingleInv, BrowsersFollow, SessionsAreCurrent, Quiet
<1> QED BY SingleInvariance, <1>1, PTL

-----------------------------------------------------------------------------
(* What one administrator may rely on.                                     *)

\* r is a login that has passed, and is to be asked for a new password.
Asking(r) == at[r] \in {"passed", "naming"} /\ IsLogin(r) /\ req[r].mustChange

LEMMA AskedFrame ==
  ASSUME AskedIfInitial, UNCHANGED <<mem, single>>, \A s \in Requests : Asking(s)' => Asking(s)
  PROVE  AskedIfInitial'
  BY DEF AskedIfInitial, Asking

\* What a step does to one request, it does not to the others.
LEMMA AskedByOne ==
  ASSUME TypeOK, AskedIfInitial, UNCHANGED <<mem, single>>, NEW r \in Requests,
         \A s \in Requests \ {r} : at'[s] = at[s] /\ req'[s] = req[s],
         at'[r] \in {"passed", "naming"} /\ Asking(r)' => Asking(r)
  PROVE  AskedIfInitial'
<1>1. ASSUME NEW s \in Requests, Asking(s)' PROVE Asking(s)
  <2>1. CASE s = r
    BY <1>1, <2>1 DEF Asking
  <2>2. CASE s # r
    BY <1>1, <2>2 DEF Asking, IsLogin
  <2> QED BY <2>1, <2>2
<1> QED BY <1>1, AskedFrame

\* What a login has learnt of the first boot stays true while it is under way.
LEMMA NextAskedIfInitial ==
  TypeOK /\ LocalsAreThere /\ OneByOne /\ AskedIfInitial /\ [Next]_vars => AskedIfInitial'
<1> SUFFICES ASSUME TypeOK, LocalsAreThere, OneByOne, AskedIfInitial, [Next]_vars
             PROVE  AskedIfInitial'
  OBVIOUS
<1>1. ASSUME NEW r \in Requests, Arrive(r) PROVE AskedIfInitial'
  <2>1. /\ UNCHANGED <<mem, single>> /\ at'[r] = "asked"
        /\ \A s \in Requests \ {r} : at'[s] = at[s] /\ req'[s] = req[s]
    BY <1>1 DEF Arrive, Login, Change, MoveTo, TypeOK
  <2> QED BY <2>1, AskedByOne
<1>2. ASSUME NEW r \in Requests,
             \/ CheckName(r) \/ CheckRenaming(r) \/ CheckFirstBoot(r) \/ SaveFails(r)
             \/ ReadFile(r) \/ ReplaceFile(r)
      PROVE  AskedIfInitial'
  <2>1. /\ UNCHANGED <<mem, single>> /\ at'[r] \notin {"passed", "naming"}
        /\ \A s \in Requests \ {r} : at'[s] = at[s] /\ req'[s] = req[s]
    BY <1>2 DEF CheckName, CheckRenaming, CheckFirstBoot, SaveFails, ReadFile, ReplaceFile,
                MoveTo, Return, TypeOK
  <2> QED BY <2>1, AskedByOne
<1>3. ASSUME NEW r \in Requests, CheckPassword(r) PROVE AskedIfInitial'
  <2>1. /\ UNCHANGED <<mem, single>>
        /\ \A s \in Requests \ {r} : at'[s] = at[s] /\ req'[s] = req[s]
    BY <1>3 DEF CheckPassword, MoveTo, Return, TypeOK
  <2>2. CASE at'[r] # "passed"
    <3>1. at'[r] \notin {"passed", "naming"}
      BY <1>3, <2>2, PasswordWrong DEF Return, MoveTo, TypeOK
    <3> QED BY <2>1, <3>1, AskedByOne
  <2>3. CASE at'[r] = "passed" /\ mem.password = InitialPassword
    BY <2>1, <2>3 DEF AskedIfInitial
  <2>4. CASE at'[r] = "passed" /\ mem.password # InitialPassword
    <3>1. req[r] \in Request
      BY <1>3 DEF CheckPassword, LocalsAreThere, TypeOK
    <3>2. req' = [req EXCEPT ![r].mustChange = (mem.password = InitialPassword)]
      BY <1>3, <2>4 DEF CheckPassword, MoveTo, Return, TypeOK
    <3>3. (mem.password = InitialPassword) = FALSE
      BY <2>4
    <3>4. req' = [req EXCEPT ![r].mustChange = FALSE]
      BY <3>2, <3>3, Zenon
    <3>5. req'[r] = [req[r] EXCEPT !.mustChange = FALSE]
      BY <3>4 DEF TypeOK
    <3>6. req'[r].mustChange = FALSE
      BY <3>1, <3>5 DEF Request
    <3> QED BY <2>1, <3>6, AskedByOne DEF Asking
  <2> QED BY <2>2, <2>3, <2>4
<1>4. ASSUME NEW r \in Requests, Update(r) PROVE AskedIfInitial'
  <2>1. /\ at[r] = "saved" /\ single' = single /\ req' = req
        /\ at' = [at EXCEPT ![r] = "updated"]
    BY <1>4 DEF Update, MoveTo
  <2>2. single => \A s \in Requests : at'[s] \notin {"passed", "naming"}
    BY <2>1 DEF OneByOne, TypeOK
  <2> QED BY <2>1, <2>2 DEF AskedIfInitial
<1>5. ASSUME NEW r \in Requests, TakeName(r) PROVE AskedIfInitial'
  <2>1. /\ UNCHANGED <<mem, single>>
        /\ \A s \in Requests \ {r} : at'[s] = at[s] /\ req'[s] = req[s]
    BY <1>5 DEF TakeName, MoveTo, TypeOK
  <2>2. req[r] \in Request /\ req'[r] = [req[r] EXCEPT !.name = mem.name]
    BY <1>5 DEF TakeName, TypeOK, LocalsAreThere
  <2>3. req'[r].token = req[r].token /\ req'[r].mustChange = req[r].mustChange
    BY <2>2 DEF Request
  <2>4. at[r] = "updated" => ~IsLogin(r)
    BY DEF LocalsAreThere
  <2>5. Asking(r)' => Asking(r)
    BY <1>5, <2>3, <2>4 DEF Asking, IsLogin, TakeName
  <2> QED BY <2>1, <2>5, AskedByOne
<1>6. ASSUME NEW r \in Requests, Issue(r) \/ Rename(r) PROVE AskedIfInitial'
  <2>1. /\ UNCHANGED <<mem, single>> /\ at'[r] \notin {"passed", "naming"}
        /\ \A s \in Requests \ {r} : at'[s] = at[s] /\ req'[s] = req[s]
    BY <1>6 DEF Issue, Rename, MoveTo, Return, TypeOK
  <2> QED BY <2>1, AskedByOne
<1>7. ASSUME NEW r \in Requests, SignOut(r) PROVE AskedIfInitial'
  BY <1>7, AskedFrame DEF SignOut, Asking, IsLogin
<1>8. CASE Restart
  <2>1. \A s \in Requests : at'[s] \notin {"passed", "naming"}
    BY <1>8 DEF Restart
  <2> QED BY <2>1 DEF AskedIfInitial
<1>9. CASE UNCHANGED vars
  BY <1>9, AskedFrame DEF vars, Asking, IsLogin
<1> QED
  BY <1>1, <1>2, <1>3, <1>4, <1>5, <1>6, <1>7, <1>8, <1>9 DEF Next, Handler

\* While requests come at once, nothing is said; and they go on doing so.
LEMMA AtOnceSaysNothing ==
  ASSUME ~single, single' = single
  PROVE  UNCHANGED Promised!vars
<1>1. AccountInForce' = AccountInForce
  BY DEF AccountInForce
<1>2. \A t \in Requests : SignedIn(t) = None /\ SignedIn(t)' = None
  BY DEF SignedIn
<1>3. Browsers' = Browsers
  BY <1>2 DEF Browsers
<1> QED
  BY <1>1, <1>3 DEF Promised!vars

\* A step that commits nothing, and leaves file and browsers alone, is not seen.
LEMMA Unseen ==
  ASSUME UNCHANGED <<file, sessions, single>>,
         \A r \in Requests : /\ Committed(r)' <=> Committed(r)
                             /\ Committed(r) => req'[r].token = req[r].token
  PROVE  UNCHANGED Promised!vars
<1>1. AccountInForce' = AccountInForce
  BY DEF AccountInForce
<1>2. ASSUME NEW t \in Requests PROVE SignedIn(t)' = SignedIn(t)
  <2>1. (\A r \in Requests : ~Committed(r)') <=> (\A r \in Requests : ~Committed(r))
    OBVIOUS
  <2>2. (\E r \in Requests : Committed(r)' /\ req'[r].token = t)
          <=> (\E r \in Requests : Committed(r) /\ req[r].token = t)
    OBVIOUS
  <2> QED
    BY <2>1, <2>2 DEF SignedIn
<1>3. Browsers' = Browsers
  BY <1>2 DEF Browsers
<1> QED
  BY <1>1, <1>3 DEF Promised!vars

\* The same for a step of one request.
LEMMA UnseenOfOne ==
  ASSUME UNCHANGED <<file, sessions, single>>, NEW r \in Requests,
         \A s \in Requests \ {r} : at'[s] = at[s] /\ req'[s] = req[s],
         Committed(r)' <=> Committed(r),
         Committed(r) => req'[r].token = req[r].token
  PROVE  UNCHANGED Promised!vars
<1>1. ASSUME NEW s \in Requests
      PROVE  (Committed(s)' <=> Committed(s)) /\ (Committed(s) => req'[s].token = req[s].token)
  <2>1. CASE s = r
    BY <2>1
  <2>2. CASE s # r
    BY <2>2 DEF Committed, IsLogin
  <2> QED BY <2>1, <2>2
<1> QED BY <1>1, Unseen

\* A request that has not come, or has not replaced the file, has committed nothing.
LEMMA HandlersAreUnseen ==
  ASSUME TypeOK, LocalsAreThere, NEW r \in Requests,
         \/ Arrive(r) \/ CheckName(r) \/ CheckPassword(r) \/ CheckRenaming(r)
         \/ CheckFirstBoot(r) \/ ReadFile(r) \/ SaveFails(r)
  PROVE  UNCHANGED Promised!vars
<1>1. /\ UNCHANGED <<file, sessions, single>>
      /\ \A s \in Requests \ {r} : at'[s] = at[s] /\ req'[s] = req[s]
  BY DEF Arrive, Login, Change, CheckName, CheckPassword, CheckRenaming, CheckFirstBoot,
         ReadFile, SaveFails, MoveTo, Return, TypeOK
<1>2. ~Committed(r)
  BY DEF Arrive, Login, Change, CheckName, CheckPassword, CheckRenaming, CheckFirstBoot,
         ReadFile, SaveFails, Committed
<1>3. at'[r] \notin {"saved", "updated", "naming"}
  BY DEF Arrive, Login, Change, CheckName, CheckPassword, CheckRenaming, CheckFirstBoot,
         ReadFile, SaveFails, MoveTo, Return, TypeOK
<1>4. ~Committed(r)'
  BY <1>3 DEF Committed
<1> QED BY <1>1, <1>2, <1>4, UnseenOfOne

\* Nor do the memory and the name for the session make a difference.
LEMMA FollowersAreUnseen ==
  ASSUME TypeOK, LocalsAreThere, NEW r \in Requests, Update(r) \/ TakeName(r)
  PROVE  UNCHANGED Promised!vars
<1>1. /\ UNCHANGED <<file, sessions, single>> /\ req[r] \in Request
      /\ \A s \in Requests \ {r} : at'[s] = at[s] /\ req'[s] = req[s]
  BY DEF Update, TakeName, MoveTo, TypeOK, LocalsAreThere
<1>2. req'[r].token = req[r].token
  <2>1. CASE Update(r)
    BY <2>1 DEF Update
  <2>2. CASE TakeName(r)
    <3>1. req'[r] = [req[r] EXCEPT !.name = mem.name]
      BY <2>2 DEF TakeName, TypeOK
    <3> QED BY <1>1, <3>1 DEF Request
  <2> QED BY <2>1, <2>2
<1>3. Committed(r)' <=> Committed(r)
  <2>1. at'[r] \in {"updated", "naming"} /\ at[r] \in {"saved", "updated", "passed"}
        /\ (at[r] = "passed" => IsLogin(r))
    BY DEF Update, TakeName, MoveTo, TypeOK
  <2> QED BY <1>2, <2>1 DEF Committed, IsLogin
<1> QED BY <1>1, <1>2, <1>3, UnseenOfOne

\* What is seen of a browser when no change is committed, and when one is.
PlainView ==
  single /\ (\A r \in Requests : ~Committed(r)) =>
    AccountInForce = file /\ Browsers = [t \in Requests |-> sessions[t]]

CommittedView ==
  \A r \in Requests : single /\ Committed(r) /\ (\A s \in Requests \ {r} : ~Committed(s)) =>
    /\ AccountInForce = file
    /\ Browsers = [t \in Requests |->
         IF sessions[t] # None /\ t = req[r].token THEN Promised!Under(file) ELSE None]

LEMMA PlainViewHolds == PlainView
  BY DEF PlainView, AccountInForce, Browsers, SignedIn

LEMMA CommittedViewHolds == CommittedView
<1> SUFFICES ASSUME NEW r \in Requests, single, Committed(r), \A s \in Requests \ {r} : ~Committed(s)
             PROVE  /\ AccountInForce = file
                    /\ Browsers = [t \in Requests |->
                         IF sessions[t] # None /\ t = req[r].token THEN Promised!Under(file) ELSE None]
  BY DEF CommittedView
<1>1. Promised!Under(file) = [name |-> file.name, mustChange |-> file.password = InitialPassword,
                              admitted |-> file.password]
  BY DEF Promised!Under, FirstAccount
<1>2. \A t \in Requests : (\E s \in Requests : Committed(s) /\ req[s].token = t) <=> t = req[r].token
  OBVIOUS
<1>3. ~\A s \in Requests : ~Committed(s)
  OBVIOUS
<1>4. \A t \in Requests :
        SignedIn(t) = IF sessions[t] # None /\ t = req[r].token THEN Promised!Under(file) ELSE None
  BY <1>1, <1>2, <1>3 DEF SignedIn
<1> QED
  BY <1>4 DEF AccountInForce, Browsers

LEMMA ViewsHold == PlainView /\ CommittedView /\ PlainView' /\ CommittedView'
  BY PlainViewHolds, CommittedViewHolds, PTL

\* Of requests in turn the one at work is alone.
LEMMA OthersCommitNothing ==
  ASSUME TypeOK, OneByOne, single, NEW r \in Requests, at[r] \notin {"new", "over"}
  PROVE  \A s \in Requests \ {r} : ~Committed(s)
  BY DEF OneByOne, Committed

\* Replacing the file is the change.
LEMMA ReplacingIsChanging ==
  ASSUME IInv, OneByOne, single, NEW r \in Requests, ReplaceFile(r)
  PROVE  Promised!Next
<1> DEFINE t == req[r].token
           a == Edited(doc[r], req[r])
<1>1. /\ at[r] = "read" /\ file' = a /\ at' = [at EXCEPT ![r] = "saved"]
      /\ UNCHANGED <<sessions, req, single>>
  BY DEF ReplaceFile, MoveTo
<1>2. TypeOK /\ req[r] \in Request /\ doc[r] \in Account /\ ~IsLogin(r)
  BY <1>1 DEF IInv, TypeOK, LocalsAreThere
<1>3. t \in Requests /\ a \in Account
  BY <1>2 DEF Request, IsLogin, Edited, Account
<1>4. a.password # InitialPassword
  BY <1>1, <1>2 DEF IInv, ChosenFirst, Edited, Request
<1>5. \A s \in Requests : ~Committed(s)
  BY <1>1, <1>2, OthersCommitNothing DEF Committed
<1>6. Committed(r)' /\ \A s \in Requests \ {r} : ~Committed(s)'
  BY <1>1, <1>2, <1>5 DEF Committed, IsLogin, TypeOK
<1>7. AccountInForce = file /\ Browsers = [s \in Requests |-> sessions[s]]
  BY <1>5, ViewsHold DEF PlainView
<1>8. /\ AccountInForce' = a
      /\ Browsers' = [s \in Requests |->
           IF sessions[s] # None /\ s = t THEN Promised!Under(a) ELSE None]
  BY <1>1, <1>6, ViewsHold DEF CommittedView
<1>9. Promised!Change(t, a)
  BY <1>3, <1>4, <1>7, <1>8 DEF Promised!Change, FirstAccount
<1> QED BY <1>3, <1>9 DEF Promised!Next

\* The session a login is given is one under the account in force.
LEMMA IssuingIsSigningIn ==
  ASSUME IInv, SingleInv, AskedIfInitial, single, NEW r \in Requests, Issue(r)
  PROVE  Promised!Next
<1>1. /\ at[r] = "naming" /\ IsLogin(r)
      /\ sessions' = [sessions EXCEPT ![r] =
           [name |-> req[r].name, mustChange |-> req[r].mustChange, admitted |-> req[r].password]]
      /\ UNCHANGED <<file, single>>
      /\ at' = [at EXCEPT ![r] = "over"]
      /\ \A s \in Requests \ {r} : at'[s] = at[s] /\ req'[s] = req[s]
  BY DEF Issue, Return, MoveTo, IInv, TypeOK
<1>2. TypeOK /\ req[r] \in Request /\ OneByOne /\ file \in Account
  BY <1>1 DEF IInv, TypeOK, LocalsAreThere, SingleInv
<1>3. \A s \in Requests : ~Committed(s)
  BY <1>1, <1>2, OthersCommitNothing DEF Committed
<1>4. \A s \in Requests : ~Committed(s)'
  BY <1>1, <1>2, <1>3 DEF Committed, IsLogin, TypeOK
<1>5. mem = file
  BY <1>1, <1>2 DEF SingleInv, FileIsAhead, OneByOne
<1>6. req[r].name = file.name /\ req[r].password = file.password
  BY <1>1, <1>5 DEF SingleInv, PassedIsCurrent
<1>7. req[r].mustChange = (file.password = InitialPassword)
  <2>1. req[r].mustChange \in BOOLEAN
    BY <1>2 DEF Request
  <2>2. req[r].mustChange <=> file.password = InitialPassword
    BY <1>1, <1>5 DEF IInv, FreeOnesAreLate, AskedIfInitial
  <2>3. CASE req[r].mustChange = TRUE
    BY <2>2, <2>3, Zenon
  <2>4. CASE req[r].mustChange = FALSE
    BY <2>2, <2>4, Zenon
  <2> QED BY <2>1, <2>3, <2>4
<1>8. sessions' = [sessions EXCEPT ![r] = Promised!Under(file)]
  BY <1>1, <1>6, <1>7 DEF Promised!Under, FirstAccount
<1>9. AccountInForce = file /\ Browsers = [s \in Requests |-> sessions[s]]
  BY <1>3, ViewsHold DEF PlainView
<1>10. AccountInForce' = file /\ Browsers' = [s \in Requests |-> sessions'[s]]
  BY <1>1, <1>4, ViewsHold DEF PlainView
<1>11. Promised!SignIn(r)
  BY <1>2, <1>8, <1>9, <1>10 DEF Promised!SignIn, TypeOK
<1> QED BY <1>11 DEF Promised!Next

\* Signing the other browsers out is not seen any more.
LEMMA RenamingIsUnseen ==
  ASSUME IInv, SingleInv, single, NEW r \in Requests, Rename(r)
  PROVE  UNCHANGED Promised!vars
<1> DEFINE q == req[r]
<1>1. /\ at[r] = "naming" /\ ~IsLogin(r)
      /\ sessions' = [t \in Requests |-> IF t = q.token THEN Kept(q) ELSE None]
      /\ UNCHANGED <<file, single>>
      /\ at' = [at EXCEPT ![r] = "over"]
      /\ \A s \in Requests \ {r} : at'[s] = at[s] /\ req'[s] = req[s]
  BY DEF Rename, Return, MoveTo, IInv, TypeOK
<1>2. TypeOK /\ q \in Request /\ OneByOne
  BY <1>1 DEF IInv, TypeOK, LocalsAreThere, SingleInv
<1>3. Committed(r) /\ \A s \in Requests \ {r} : ~Committed(s)
  BY <1>1, <1>2, OthersCommitNothing DEF Committed
<1>4. \A s \in Requests : ~Committed(s)'
  BY <1>1, <1>2, <1>3 DEF Committed, IsLogin, TypeOK
<1>5. mem = file
  BY <1>1, <1>2 DEF SingleInv, FileIsAhead, OneByOne
<1>6. q.name = file.name
      /\ file.password = IF q.newPassword = None THEN q.password ELSE q.newPassword
  BY <1>1, <1>5 DEF SingleInv, PassedIsCurrent
<1>7. (file.password = InitialPassword) = FALSE
  BY <1>1, <1>5 DEF IInv, FreeOnesAreLate
<1>8. Kept(q) = IF sessions[q.token] = None THEN None ELSE Promised!Under(file)
  <2>1. Promised!Under(file) = [name |-> file.name, mustChange |-> file.password = InitialPassword,
                                admitted |-> file.password]
    BY DEF Promised!Under, FirstAccount
  <2>2. Promised!Under(file) = [name |-> file.name, mustChange |-> FALSE, admitted |-> file.password]
    BY <1>7, <2>1, Zenon
  <2> QED BY <1>6, <2>2 DEF Kept
<1>9. /\ AccountInForce = file
      /\ Browsers = [t \in Requests |->
           IF sessions[t] # None /\ t = q.token THEN Promised!Under(file) ELSE None]
  BY <1>3, ViewsHold DEF CommittedView
<1>10. AccountInForce' = file /\ Browsers' = [t \in Requests |-> sessions'[t]]
  BY <1>1, <1>4, ViewsHold DEF PlainView
<1>11. \A t \in Requests :
         sessions'[t] = IF sessions[t] # None /\ t = q.token THEN Promised!Under(file) ELSE None
  BY <1>1, <1>8
<1>12. Browsers' = Browsers
  BY <1>9, <1>10, <1>11
<1> QED BY <1>9, <1>10, <1>12 DEF Promised!vars

\* A browser that signs out is seen to, unless it was taken to be out already.
LEMMA SigningOutIsSeen ==
  ASSUME IInv, single, NEW t \in Requests, SignOut(t)
  PROVE  Promised!Next
<1>1. /\ sessions' = [sessions EXCEPT ![t] = None]
      /\ UNCHANGED <<mem, file, at, req, single>>
  BY DEF SignOut
<1>2. \A r \in Requests : Committed(r)' <=> Committed(r)
  BY <1>1 DEF Committed, IsLogin
<1>3. ASSUME NEW s \in Requests
      PROVE  SignedIn(s)' = IF s = t THEN None ELSE SignedIn(s)
  <2>1. sessions'[s] = IF s = t THEN None ELSE sessions[s]
    BY <1>1 DEF IInv, TypeOK
  <2>2. (\A r \in Requests : ~Committed(r)') <=> (\A r \in Requests : ~Committed(r))
    BY <1>2
  <2>3. (\E r \in Requests : Committed(r)' /\ req'[r].token = s)
          <=> (\E r \in Requests : Committed(r) /\ req[r].token = s)
    BY <1>1, <1>2
  <2>4. CASE s = t
    BY <2>1, <2>4 DEF SignedIn
  <2>5. CASE s # t
    BY <1>1, <2>1, <2>2, <2>3, <2>5 DEF SignedIn
  <2> QED BY <2>4, <2>5
<1>4. Browsers' = [Browsers EXCEPT ![t] = None]
  BY <1>3 DEF Browsers
<1>5. Promised!SignOut(t)
  BY <1>1, <1>4 DEF Promised!SignOut, AccountInForce
<1> QED BY <1>5 DEF Promised!Next

\* A restart forgets the browsers, and keeps the account.
LEMMA RestartKeepsAccount ==
  ASSUME Restart
  PROVE  Promised!Next
<1>1. \A t \in Requests : SignedIn(t)' = None
  BY DEF Restart, SignedIn
<1>2. Promised!SignAllOut
  BY <1>1 DEF Promised!SignAllOut, Browsers, AccountInForce, Restart
<1> QED BY <1>2 DEF Promised!Next

LEMMA InitPromised == Init => Promised!Init
<1> SUFFICES ASSUME Init PROVE Promised!Init
  OBVIOUS
<1>1. AccountInForce = FirstAccount
  BY DEF Init, AccountInForce, FirstAccount
<1>2. \A t \in Requests : SignedIn(t) = None
  BY DEF Init, SignedIn
<1> QED BY <1>1, <1>2 DEF Promised!Init, Browsers

\* Every step is one of the administrator's, or is not seen.
LEMMA StepsAreSeen ==
  IInv /\ SingleInv /\ AskedIfInitial /\ [Next]_vars => [Promised!Next]_(Promised!vars)
<1> SUFFICES ASSUME IInv, SingleInv, AskedIfInitial, [Next]_vars
             PROVE  Promised!Next \/ UNCHANGED Promised!vars
  OBVIOUS
<1>1. single' = single /\ single \in BOOLEAN
  BY DEF IInv, TypeOK, Next, Arrive, Login, Change, Handler, CheckName, CheckPassword, CheckRenaming,
         CheckFirstBoot, ReadFile, ReplaceFile, SaveFails, Update, TakeName, Issue, Rename, SignOut,
         Restart, vars
<1>2. CASE ~single
  BY <1>1, <1>2, AtOnceSaysNothing
<1>3. CASE single
  <2>1. TypeOK /\ LocalsAreThere /\ OneByOne
    BY DEF IInv, SingleInv
  <2>2. ASSUME NEW r \in Requests, Arrive(r) \/ Handler(r)
        PROVE  Promised!Next \/ UNCHANGED Promised!vars
    BY <1>3, <2>1, <2>2, HandlersAreUnseen, FollowersAreUnseen, ReplacingIsChanging,
       IssuingIsSigningIn, RenamingIsUnseen DEF Handler
  <2>3. CASE UNCHANGED vars
    BY <2>3, Unseen DEF vars, Committed, IsLogin
  <2> QED
    BY <1>3, <2>2, <2>3, SigningOutIsSeen, RestartKeepsAccount DEF Next
<1> QED BY <1>1, <1>2, <1>3

\* For one administrator, whose requests come one after the other, the handlers of
\* admin.go and SaveAdmin of save.go implement an account that is changed in one
\* step, for any names and passwords, any number of requests and any restarts.
THEOREM AccountsImplementAdministrator == Spec => ChangesAreAtomic
<1>1. Init => AskedIfInitial
  BY DEF Init, AskedIfInitial
<1>2. IInv /\ SingleInv /\ AskedIfInitial /\ [Next]_vars => AskedIfInitial'
  BY NextAskedIfInitial DEF IInv, SingleInv
<1> QED
  BY SingleInvariance, InitPromised, StepsAreSeen, <1>1, <1>2, PTL DEF Spec, ChangesAreAtomic, Promised!Spec
=============================================================================
