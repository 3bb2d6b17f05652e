\* The instance of Forward.cfg: what ForwardProofs proves beyond that run, and
\* that the guards it is said with are those of the steps.
CONSTANTS
  Links = {l1, l2}
  Callers = {w1}
  None = None
  Targets = {t1, t2}
  AllowDial = TRUE
  Allow = {t1}
  Window = 1
  MaxThere = 2
  MaxBack = 1
SPECIFICATION ForwardSpec
INVARIANTS PolicyHolds NeverWaitsForItself FlowInv GuardsAreRight
PROPERTY Spec
