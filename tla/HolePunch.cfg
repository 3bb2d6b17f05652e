\* One path, which may work or not, and two datagrams lost.
CONSTANTS
  Peers = {a, b}
  Paths = {wan}
  MaxLoss = 2
  InFlight = 3
SPECIFICATION FairSpec
INVARIANTS TypeOK WorksBothWays SameVerdict
PROPERTIES BestPathIsFound
CHECK_DEADLOCK FALSE
