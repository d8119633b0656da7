SPECIFICATION Spec
CONSTANTS
  Activity = {a1, a2}
  MaxFacility = 0
  c1 = c1
  c2 = c2
  Cid = {c1, c2}
  Rights = {"publish", "delete", "edit", "editState"}
  Permission <- MCPermission
  Rating <- MCRating
  Observer = 1
  MinRatings = {2}
  NewSeats <- NoSeat
  FirstSeats <- NoSeat
  Callsign = {k1}
  Request = {r1, r2}
  Statuses = {2}
  PilotStatuses = {3}
  MaxCarried = 1
  Databases = {"sqlite", "server"}
  None = None
SYMMETRY Symmetry
PROPERTIES
  LookedCallsignsDiffer
CHECK_DEADLOCK FALSE
