\* A login and two changes at once.
CONSTANTS
  Requests = {r1, r2, r3}
  Names = {admin, ann}
  Passwords = {p1}
  InitialName = admin
  InitialPassword = p0
  None = none
  MaxCrashes = 0
SPECIFICATION Spec
INVARIANT SurvivesRestart
CHECK_DEADLOCK FALSE
