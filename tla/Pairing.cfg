\* One pair under fair handlers, with the operator, the clock and the sweep.
CONSTANTS
  h1 = h1  h2 = h2  c1 = c1  c2 = c2  k1 = k1
  None = None
  Hosts = {h1}
  Clients = {c1}
  Conns = {h1, c1}
  Codes = {k1}
  CodeOf <- SingleCode
  RelayTTL = 0
  PruneAges = {0}
  MaxIdle = 1
SPECIFICATION FairSpec
PROPERTIES CutStaysCut Matchmaking LeavingIsNoticed ReadyPeersMeet
