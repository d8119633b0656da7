SPECIFICATION Spec
CONSTANTS
  Activity = {a1, a2}
  MaxFacility = 2
  c1 = c1
  c2 = c2
  Cid = {c1, c2}
  Rights = {"publish", "edit"}
  Permission <- MCPermission
  Rating <- MCRating
  Observer = 1
  MinRatings = {2}
  NewSeats <- UpToOneSeat
  FirstSeats <- OneSeat
  Callsign = {}
  Request = {r1, r2}
  Statuses = {2}
  PilotStatuses = {3}
  MaxCarried = 1
  Databases = {"sqlite", "server"}
  None = None
SYMMETRY Symmetry
INVARIANTS
  TypeOK
  SignUpCanBeCancelled
PROPERTIES
  LookedSignUpsDiffer
  EditSparesUnseen
  OnlyOwnerCancels
CHECK_DEADLOCK FALSE
