SPECIFICATION Spec
CONSTANTS
  Key = {k1, k2}
  Window = 2
  MaxRequests = 2
  MaxTime = 7
SYMMETRY Symmetry
INVARIANTS
  TypeOK
  WindowNeverExceeded
  RefusedOnlyWhenFull
  EntriesCanBeCleaned
