\* Two connections one after the other, two local connections at a time.
CONSTANTS
  Links = {l1, l2}
  Callers = {w1, w2}
  None = None
  MinBackoff = 1
  MaxBackoff = 3
SPECIFICATION FairSpec
INVARIANTS TypeOK PublishesSafely
PROPERTIES CellBehaves EveryCallerServed EndsAreNoticed
