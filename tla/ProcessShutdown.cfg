SPECIFICATION Spec
CONSTANTS
  Capacity = 2
  HttpEnabled = TRUE
  MaxLines = 3
INVARIANTS
  TypeOK
  
  DatabaseClosesLast
PROPERTY InterruptEnds
CHECK_DEADLOCK FALSE
