\* A code used again while an admin delete is closing its peers.
CONSTANTS
  h1 = h1  h2 = h2  c1 = c1  c2 = c2  k1 = k1
  None = None
  Hosts = {h1, h2}
  Clients = {c1}
  Conns = {h1, h2, c1}
  Codes = {k1}
  CodeOf <- SingleCode
  RelayTTL = 0
  PruneAges = {0}
  MaxIdle = 0
SPECIFICATION Spec
SYMMETRY Alike
INVARIANT ConnectedPeersAreFound
