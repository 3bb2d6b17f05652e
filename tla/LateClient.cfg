\* A client whose hello comes before the pairing of the other is over.
CONSTANTS
  Host = h
  Clients = {c1, c2}
  NoPeer = none
  MaxFaults = 1
SPECIFICATION FairSpec
PROPERTY ReconnectsOutOfTurn
CHECK_DEADLOCK FALSE
