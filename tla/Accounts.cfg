SPECIFICATION Spec
CONSTANTS
  MaxUsers = 2
  m1 = m1
  short = short
  Cid = {1, 2}
  Username = {n1, n2}
  Email = {e1, E1}
  Password = {p1, short}
  Edits <- MCEdits
  Code = {k1, k2}
  Mailbox = {m1}
  Lower <- MCLower
  Length <- MCLength
  Min <- MCMin
  Max <- MCMax
  EmailServer = TRUE
  Request = {r1, r2}
  Empty = Empty
  None = None
SYMMETRY Symmetry
INVARIANTS
  TypeOK
  EmailProved
PROPERTIES
  EditsKeepOtherColumns
  PasswordProved
CHECK_DEADLOCK FALSE
