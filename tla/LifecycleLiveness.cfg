SPECIFICATION FairSpec
CONSTANTS
  Session = {s1, s2}
  Callsign = {k1}
  User = {u1}
  None = None
  SimulatorServer = FALSE
  LoginKinds = {FALSE}
  MaxLines = 3
PROPERTY DisconnectedIsReclaimed
CHECK_DEADLOCK FALSE
