\* One update is killed.
CONSTANTS
  Updates = {u1}
  MaxVersion = 2
  MaxFaults = 0
SPECIFICATION Spec
INVARIANT InterruptedLeavesBinary
CHECK_DEADLOCK FALSE
