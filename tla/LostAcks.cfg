\* The network loses one datagram more than Punch sends to spare.
CONSTANTS
  Peers = {a, b}
  Paths = {wan}
  MaxLoss = 3
  InFlight = 3
SPECIFICATION Spec
SYMMETRY Interchangeable
INVARIANT SameVerdict
CHECK_DEADLOCK FALSE
