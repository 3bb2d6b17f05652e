\* One fault that may strike during an introduction.
CONSTANTS
  Host = h
  Clients = {c1}
  NoPeer = none
  MaxFaults = 1
SPECIFICATION FairSpec
PROPERTY Reconnects
CHECK_DEADLOCK FALSE
