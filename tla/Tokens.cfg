SPECIFICATION Spec
CONSTANTS
  Uid = {u1, u2}
  Administrators = {u1}
  Change <- MCChange
  Rating = {1}
  Ban <- MCBan
  Administrator = 12
  Expires = 1
  Refresh = 2
  MaxTime = 4
  Watched = "UserShowList"
  Session = {s1}
  Request = {r1, r2}
  None = None
SYMMETRY Symmetry
INVARIANTS
  TypeOK
  RefreshOutlivesAccess
  AnswersAuthorised
PROPERTY NoPermissionFromNowhere
CHECK_DEADLOCK FALSE
