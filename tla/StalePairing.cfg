\* A pair replaced one peer at a time.
CONSTANTS
  h1 = h1  h2 = h2  c1 = c1  c2 = c2  k1 = k1
  None = None
  Hosts = {h1, h2}
  Clients = {c1, c2}
  Conns = {h1, h2, c1, c2}
  Codes = {k1}
  CodeOf <- SingleCode
  RelayTTL = 0
  PruneAges = {0}
  MaxIdle = 0
SPECIFICATION PeersOnly
SYMMETRY Alike
INVARIANT ReadyPeersArePaired
CHECK_DEADLOCK FALSE
