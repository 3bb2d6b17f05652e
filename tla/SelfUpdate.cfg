\* Three updates, in turn or at once, three releases, two calls that fail.
CONSTANTS
  Updates = {u1, u2, u3}
  MaxVersion = 3
  MaxFaults = 2
SYMMETRY Symmetry
SPECIFICATION Spec
INVARIANTS TypeOK OnlyWholeBinaries NeverLost
PROPERTY ReplacedInOneStep
CHECK_DEADLOCK FALSE
