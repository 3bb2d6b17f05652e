\* The instance of RelaySync.cfg: what RelaySyncProofs proves beyond that run, and
\* that the guards it is said with are those of the steps.
CONSTANTS
  Paths <- MCPaths
  Above <- MCAbove
  Rules = 1
  Masked <- MCMasked
  Editable <- MCEditable
  MaxVersion = 2
  MaxFaults = 2
SPECIFICATION Spec
INVARIANTS IInv PassesGoOn PassGuardsAreRight
PROPERTY FailsOnlyIfCut
