\* Four requests, in turn or at once, and a restart.
CONSTANTS
  Requests = {r1, r2, r3, r4}
  Names = {admin, ann}
  Passwords = {p1}
  InitialName = admin
  InitialPassword = p0
  None = none
  MaxCrashes = 1
SPECIFICATION Spec
SYMMETRY Interchangeable
INVARIANTS TypeOK FirstBootGate SurvivesRestartIfSingle
PROPERTIES PasswordStays ChangesAreAtomic
CHECK_DEADLOCK FALSE
