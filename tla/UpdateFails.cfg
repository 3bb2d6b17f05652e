\* The instance of SelfUpdate.cfg: what else SelfUpdateProofs proves, of updates
\* that fail and of those that succeed, and the invariants it rests on.
CONSTANTS
  Updates = {u1, u2, u3}
  MaxVersion = 3
  MaxFaults = 2
SYMMETRY Symmetry
SPECIFICATION Spec
INVARIANTS IInv OldIsKept ArrivalInv UpdateArrives ChecksumsLead OnlyForward
PROPERTY FailureKeepsBinary
CHECK_DEADLOCK FALSE
