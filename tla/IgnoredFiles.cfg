\* What the documentation says of ignored files.
CONSTANTS
  Paths <- MCPaths
  Above <- MCAbove
  Rules = 1
  Masked <- MCMasked
  Editable <- MCEditable
  MaxVersion = 2
  MaxFaults = 0
SPECIFICATION Spec
PROPERTIES IgnoredUntouched
