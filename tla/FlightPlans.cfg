SPECIFICATION Spec
CONSTANTS
  Client = {c1, c2}
  Deleted = {d1}
  Controller = {p1, p2}
  Account = {a1, a2}
  Leg = {l1, l2}
  Level = {v1, v2}
  None = None
  MaxCommands = 3
SYMMETRY Symmetry
INVARIANTS
  TypeOK
  PlanHasRow
  UncontendedIsSaved
  SimulatorStaysInMemory
PROPERTY LockHoldsUnlessOverlapped
CHECK_DEADLOCK FALSE
