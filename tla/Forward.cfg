\* Two connections between the peers, one local connection at a time, one target
\* that the policy allows and one that it does not.
CONSTANTS
  Links = {l1, l2}
  Callers = {w1}
  None = None
  Targets = {t1, t2}
  AllowDial = TRUE
  Allow = {t1}
  Window = 1
  MaxThere = 2
  MaxBack = 1
SPECIFICATION FairForwardSpec
INVARIANTS TypeOK EofIsHonest
PROPERTIES HalfCloseIsPassedOn EndsRelease
