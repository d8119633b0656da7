SPECIFICATION Spec
CONSTANTS
  Session = {s1, s2, s3}
  Callsign = {k1}
  User = {u1}
  None = None
  SimulatorServer = FALSE
  LoginKinds = {TRUE}
  MaxLines = 3
SYMMETRY Symmetry
INVARIANTS
  TypeOK
  NoLeakedCallsign
  WindowOnlyWhileDisconnected
  EndedSessionReleased
PROPERTY TableRefinement
CHECK_DEADLOCK FALSE
