SPECIFICATION Spec
CONSTANTS
  c1 = c1
  c2 = c2
  c3 = c3
  c4 = c4
  Client = {c1, c2, c3, c4}
  Atc = {c1, c3}
  Sup = {c1}
  Distance <- MCDistance
  VisualRange <- MCVisualRange
  Stalled = {c3}
  MaxBroadcastWorkers = 2
  Message = {m1}
  Web = {h1}
  MaxEvents = 2
  Connected <- MCConnected
  MaxStopping = 3
  None = None
INVARIANTS
  TypeOK
  ClosedIsQuiet
  ShutdownIsComplete
CHECK_DEADLOCK FALSE
PROPERTIES
  OthersReached
  LeaverReleased
