SPECIFICATION Spec
CONSTANTS
  Client = {c1}
  Deleted = {d1}
  Controller = {p1}
  Account = {a1}
  Leg = {l1, l2}
  Level = {v1, v2}
  None = None
  MaxCommands = 3
PROPERTY LockHolds
CHECK_DEADLOCK FALSE
