\* Two versions of a file, two interruptions.
CONSTANTS
  Paths <- MCPaths
  Above <- MCAbove
  Rules = 1
  Masked <- MCMasked
  Editable <- MCEditable
  MaxVersion = 2
  MaxFaults = 2
SPECIFICATION FairSpec
INVARIANTS TypeOK MatchMeansSame CompleteMeansMirrored
PROPERTIES TouchesOnlyPlanned RunsComplete
