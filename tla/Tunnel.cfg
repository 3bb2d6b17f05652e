\* Two clients with one code, four faults; half of the behaviours are smooth.
CONSTANTS
  Host = h
  Clients = {c1, c2}
  NoPeer = none
  MaxFaults = 4
SPECIFICATION FairSpec
INVARIANTS TypeOK ListensForSomebody
PROPERTIES LineIsKept ReconnectsIfSpared
CHECK_DEADLOCK FALSE
