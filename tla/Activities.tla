----------------------------- MODULE Activities -----------------------------
(***************************************************************************)
(* Group-flight activities: the web handlers that publish, edit and delete *)
(* an activity, and the sign-ups of controllers and pilots.                *)
(*                                                                         *)
(* Handlers run concurrently, one goroutine per request; all they share is *)
(* the database.  An action is one statement, or one transaction whose     *)
(* statements cannot be told apart; where a handler looks first and writes *)
(* later, each is an action of its own.  The database is SQLite or a       *)
(* server (MySQL, PostgreSQL) and differs in two ways that matter here:    *)
(* SQLite runs writing transactions as if one at a time and does not       *)
(* enforce foreign keys; a server enforces them, and its default isolation *)
(* lets another transaction commit between a look and an insert.           *)
(*                                                                         *)
(* GORM saves the associations of a row with it: a row without an id is    *)
(* inserted, a row with an id becomes a row of that activity, whichever it *)
(* belonged to, and is inserted when it is gone.  So an edit puts back the *)
(* facilities and sign-ups it loaded, and the body of a POST, which is a   *)
(* whole operation.Activity, moves what it names.                          *)
(*                                                                         *)
(* Facilities have their ids here.  The rows of sign-ups do not: where an  *)
(* edit loaded a sign-up and an equal one is now in another activity, it   *)
(* may be the same row or a later one.  Clients name ids the database has  *)
(* given.                                                                  *)
(*                                                                         *)
(* Titles, routes, images and times are left out; so are the audit log,    *)
(* which no handler here reads, the lists, and a change of rating while a  *)
(* sign-up is handled.  DeleteActivity and EditPilotStatus read a row and  *)
(* write one column of it; here that is one step.                          *)
(***************************************************************************)
EXTENDS Integers, Sequences, FiniteSets, Functions

CONSTANTS Activity,     \* ids activities can get
          MaxFacility,  \* bound: facility rows ever created
          Cid,          \* accounts
          Permission,   \* activity permissions in each account's token
          Rating,       \* rating of each account, in the token and in its row
          Observer,     \* fsd.Observer
          MinRatings,   \* minimum ratings given to facilities
          NewSeats,     \* facilities an edit adds: sequences of ratings
          FirstSeats,   \* facilities a publish request adds
          Callsign,     \* callsigns pilots ask for
          Request,      \* goroutines that handle requests side by side
          Statuses,     \* activity states requests send
          PilotStatuses, \* pilot states requests send
          MaxCarried,   \* bound: rows a publish request carries or names
          Databases,    \* kinds of database considered
          None          \* no row

Facility == 1..MaxFacility

ASSUME ActivityAssumption ==
  /\ MaxFacility \in Nat /\ MaxCarried \in Nat /\ Observer \in Int
  /\ MinRatings \subseteq Int
  /\ NewSeats \subseteq Seq(MinRatings) /\ FirstSeats \subseteq Seq(MinRatings)
  /\ Rating \in [Cid -> Int]
  /\ Permission \in [Cid -> SUBSET {"publish", "delete", "edit", "editState"}]
  /\ Statuses \subseteq Int /\ PilotStatuses \subseteq Int
  /\ Databases \subseteq {"sqlite", "server"}
  /\ None \notin [activity : Activity, minRating : Int]

VARIABLES
  db,          \* the kind of database the server was started with
  activities,  \* [state, status]; a deleted activity keeps its row
  facilities,  \* facility rows by id, None before and after the row exists
  created,     \* facility rows created so far: ids are never given twice
  controllers, \* activity_atcs: [activity, facility, cid]
  pilots,      \* activity_pilots: [activity, cid, callsign, status]
  call,        \* what each request goroutine is doing, with its locals
  named        \* history: facilities that a publish request of another activity
               \* named, itself or by a sign-up

vars == <<db, activities, facilities, created, controllers, pilots, call, named>>

Idle == [op |-> "none"]

Init ==
  /\ db \in Databases
  /\ activities = [a \in Activity |-> [state |-> "none", status |-> 0]]
  /\ facilities = [f \in Facility |-> None]
  /\ created = 0
  /\ controllers = {}
  /\ pilots = {}
  /\ call = [r \in Request |-> Idle]
  /\ named = {}

-----------------------------------------------------------------------------
(* Requests and the goroutines that handle them. *)

Continue(r, locals) == call' = [call EXCEPT ![r] = locals]

\* The handler answers, with success or with an error.
Answer(r) == Continue(r, Idle)

\* The requests the web controllers build: what the client sent, and the
\* account and the permissions in its token.  A publish request has new
\* facilities, and in its body facilities by id (seats), new sign-ups (atcs,
\* flights) and sign-ups by id (taken, boarded).
AddRequest(c, a, body, new, status) ==
  [permission |-> Permission[c], activity |-> a, new |-> new, status |-> status,
   seats |-> body.seats, atcs |-> body.atcs, taken |-> body.taken,
   flights |-> body.flights, boarded |-> body.boarded]
DeleteRequest(c, a) == [permission |-> Permission[c], activity |-> a]
JoinRequest(c, f) ==
  [op |-> "join", cid |-> c, rating |-> Rating[c], facility |-> f, activity |-> None]
LeaveRequest(c, f) ==
  [op |-> "leave", cid |-> c, facility |-> f, activity |-> None]
PilotJoinRequest(c, a, k) ==
  [op |-> "pilot", cid |-> c, activity |-> a, callsign |-> k]
PilotLeaveRequest(c, a) == [cid |-> c, activity |-> a]
EditRequest(c, a, seats, new, status) ==
  [op |-> "edit", permission |-> Permission[c], activity |-> a,
   seats |-> seats, new |-> new, status |-> status]
StatusRequest(c, a, status) ==
  [permission |-> Permission[c], activity |-> a, status |-> status]
PilotStatusRequest(c, a, status) ==
  [permission |-> Permission[c], cid |-> c, activity |-> a, status |-> status]

-----------------------------------------------------------------------------
(* The database. *)

\* A query by id does not find a deleted activity.
GetActivityById(a) == activities[a].state = "live"

\* The rows that belong to a, loaded with it.
FacilitiesOf(a) ==
  {f \in Facility : facilities[f] # None /\ facilities[f].activity = a}
Of(a, rows) == {s \in rows : s.activity = a}

GetFacilityById(f) == facilities[f]

\* The sign-up the facility was loaded with.
ControllerOf(f) == {s \in controllers : s.facility = f}

GetActivityPilotById(a, c) == {p \in pilots : p.activity = a /\ p.cid = c}

\* A row that refers to another is inserted: a server checks the reference.
ReferenceHolds(present) == db = "sqlite" \/ present

\* A transaction that looked before it inserts: on SQLite it fails when the
\* answer to its look has changed.
StillTrue(look) == db = "sqlite" => look

\* Rows for new facilities of a, under the next ids.
NewActivityFacility(a, ratings, rows) ==
  [f \in Facility |-> IF f - created \in DOMAIN ratings
                      THEN [activity |-> a, minRating |-> ratings[f - created]]
                      ELSE rows[f]]

\* GORM saves facilities that have an id with activity a: one that exists
\* becomes a facility of a, with the columns it has.
SavedFacility(f, a, seats) ==
  IF f \notin DOMAIN seats THEN facilities[f]
  ELSE IF facilities[f] = None THEN [activity |-> a, minRating |-> seats[f]]
  ELSE [facilities[f] EXCEPT !.activity = a]

\* And sign-ups: moved have an id, new do not.
Upserted(rows, moved, new, a) ==
  (rows \ moved) \cup {[s EXCEPT !.activity = a] : s \in moved} \cup new

\* The unique indexes, on the activity and a column, admit the rows in.
Admitted(rows, in, a, column) ==
  /\ \A s \in in, t \in Of(a, rows \ in) : s[column] # t[column]
  /\ \A s, t \in in : s[column] = t[column] => s = t

\* Saves an activity with all that belongs to it, in one transaction.  It may
\* be a new one or one that exists; a deleted one is live again.
SaveActivity(req) ==
  LET a == req.activity
      seats == [f \in Facility |-> SavedFacility(f, a, req.seats)]
      signs == req.taken \cup req.atcs
  IN /\ Admitted(controllers, signs, a, "facility")
     /\ Admitted(pilots, req.boarded \cup req.flights, a, "cid")
     /\ activities' = [activities EXCEPT ![a] = [state |-> "live", status |-> req.status]]
     /\ facilities' = NewActivityFacility(a, req.new, seats)
     /\ created' = created + Len(req.new)
     /\ ReferenceHolds(\A s \in req.atcs : facilities'[s.facility] # None)
     /\ controllers' = Upserted(controllers, req.taken, req.atcs, a)
     /\ pilots' = Upserted(pilots, req.boarded, req.flights, a)
     /\ named' = named \cup
                  ((DOMAIN req.seats \cup {s.facility : s \in signs}) \ FacilitiesOf(a))

\* A soft delete: facilities and sign-ups keep their rows.
SoftDelete(a) == activities' = [activities EXCEPT ![a].state = "deleted"]

\* One update, which finds no row once the activity is deleted.
SetActivityStatus(a, status) ==
  activities' = [activities EXCEPT ![a].status =
                   IF GetActivityById(a) THEN status ELSE @]

-----------------------------------------------------------------------------
(* Activities. *)

AddActivity(req) ==
  /\ "publish" \in req.permission
  /\ SaveActivity(req)
  /\ UNCHANGED <<db, call>>

DeleteActivity(req) ==
  /\ "delete" \in req.permission
  /\ GetActivityById(req.activity)
  /\ SoftDelete(req.activity)
  /\ UNCHANGED <<db, facilities, created, controllers, pilots, call, named>>

\* Open = 0 to Closed = 2; only this request tests the status it is sent.
EditActivityStatus(req) ==
  /\ req.status \in 0..2
  /\ "editState" \in req.permission
  /\ SetActivityStatus(req.activity, req.status)
  /\ UNCHANGED <<db, facilities, created, controllers, pilots, call, named>>

\* Variant: every facility the request leaves out is deleted.
DeletedFromTable(old, seats) == Facility \ DOMAIN seats

\* The facilities the editor saw and left out are deleted.
Deleted(old, seats) == DOMAIN old \ DOMAIN seats

\* ActivityFacility.Diff for the facilities that are kept.
Changed(old, seats) == {f \in DOMAIN seats : seats[f] # old[f]}

\* Activity.Diff: the status is written when it differs from the one read.
Diff(a, status) == IF status # activities[a].status THEN status ELSE None

\* EditActivity reads the activity with everything that belongs to it and
\* works out what to write; a facility that is not one of those read is an
\* error (ErrInconsistentData).
EditActivity(r, req) ==
  LET a == req.activity
      old == [f \in FacilitiesOf(a) |-> facilities[f].minRating]
  IN /\ call[r] = Idle
     /\ IF /\ "edit" \in req.permission
           /\ GetActivityById(a)
           /\ DOMAIN req.seats \subseteq DOMAIN old
          THEN Continue(r, [op |-> "update", activity |-> a, new |-> req.new,
                            status |-> Diff(a, req.status), old |-> old,
                            gone |-> Deleted(old, req.seats),
                            ratings |-> Restrict(req.seats, Changed(old, req.seats)),
                            atcs |-> Of(a, controllers), flights |-> Of(a, pilots)])
          ELSE Answer(r)
     /\ UNCHANGED <<db, activities, facilities, created, controllers, pilots, named>>

\* The activity's row, whatever it has become since; a deleted one is not found.
UpdatedActivity(req) ==
  IF GetActivityById(req.activity) /\ req.status # None
  THEN [activities[req.activity] EXCEPT !.status = req.status]
  ELSE activities[req.activity]

\* Rows like those the editor loaded, in another activity by now: a publish
\* has moved them, or they are new.
Elsewhere(rows, loaded, a, column) ==
  {t \in rows : t.activity # a /\
                  \E s \in loaded : s.cid = t.cid /\ s[column] = t[column]}

\* The sign-ups the editor loaded: back are the moved ones, and those that are
\* gone are inserted where the index admits them (where it does not, the
\* insert leaves the table as it is or the whole update fails).
PutBack(rows, loaded, back, a, column) ==
  Upserted(rows, back, {s \in loaded : Admitted(Upserted(rows, back, {}, a), {s}, a, column)}, a)

\* Variant: the reference does not cascade.
NoCascade(rows, gone) == rows

\* Deleting a facility deletes its sign-ups on a server (OnDelete:CASCADE).
Cascade(rows, gone) == {s \in rows : db = "server" => s.facility \notin gone}

\* Update, delete and insert in one transaction.
UpdateActivityInfo(r) ==
  LET req == call[r]
      a == req.activity
      saved(f) == SavedFacility(f, a, req.old)
      kept == [f \in Facility |->
                 IF f \in req.gone THEN None
                 ELSE IF f \in DOMAIN req.ratings
                 THEN [saved(f) EXCEPT !.minRating = req.ratings[f]]
                 ELSE saved(f)]
  IN /\ req.op = "update"
     /\ created + Len(req.new) <= MaxFacility
     /\ Answer(r)
     /\ activities' = [activities EXCEPT ![a] = UpdatedActivity(req)]
     /\ facilities' = NewActivityFacility(a, req.new, kept)
     /\ created' = created + Len(req.new)
     /\ \E back \in SUBSET Elsewhere(controllers, req.atcs, a, "facility") :
          LET rows == PutBack(controllers, req.atcs, back, a, "facility") IN
          /\ Admitted(controllers, back, a, "facility")
          /\ ReferenceHolds(\A s \in rows : saved(s.facility) # None)
          /\ controllers' = Cascade(rows, req.gone)
     /\ \E back \in SUBSET Elsewhere(pilots, req.flights, a, "callsign") :
          /\ Admitted(pilots, back, a, "cid")
          /\ pilots' = PutBack(pilots, req.flights, back, a, "cid")
     /\ UNCHANGED <<db, named>>

\* The transaction fails.
UpdateFails(r) ==
  /\ call[r].op = "update"
  /\ Answer(r)
  /\ UNCHANGED <<db, activities, facilities, created, controllers, pilots, named>>

-----------------------------------------------------------------------------
(* Controllers. *)

\* Variant: nothing is looked for; the index is relied on.
SignedUpNever(a, c) == FALSE

SignedUp(a, c) == \E s \in controllers : s.activity = a /\ s.cid = c

\* ControllerJoin up to the look of its transaction: the rating in the token,
\* the facility row, and the rating against the facility's minimum, which the
\* controller must exceed.  The error of the look is not tested: when it fails
\* the transaction goes on blindly.
ControllerJoin(r, req) ==
  LET row == GetFacilityById(req.facility)
      sign(op) == Continue(r, [op |-> op, cid |-> req.cid, facility |-> req.facility,
                               activity |-> row.activity])
  IN
  /\ call[r] = Idle
  /\ IF /\ req.rating > Observer
        /\ row # None
        /\ Rating[req.cid] > row.minRating
       THEN \/ sign("signBlind")
            \/ IF SignedUp(row.activity, req.cid) THEN Answer(r) ELSE sign("sign")
       ELSE Answer(r)
  /\ UNCHANGED <<db, activities, facilities, created, controllers, pilots, named>>

\* Variant: the facility is taken from the wrong column.
NewActivityAtcSwapped(req) ==
  [activity |-> req.activity, facility |-> req.activity, cid |-> req.cid]

NewActivityAtc(req) ==
  [activity |-> req.activity, facility |-> req.facility, cid |-> req.cid]

\* The insert of SignFacilityController: the index on activity and facility
\* admits one controller for each facility.
SignFacilityController(r) ==
  LET req == call[r] IN
  /\ req.op \in {"sign", "signBlind"}
  /\ \A s \in controllers : <<s.activity, s.facility>> # <<req.activity, req.facility>>
  /\ req.op = "sign" => StillTrue(~SignedUp(req.activity, req.cid))
  /\ ReferenceHolds(GetFacilityById(req.facility) # None)
  /\ controllers' = controllers \cup {NewActivityAtc(req)}
  /\ Answer(r)
  /\ UNCHANGED <<db, activities, facilities, created, pilots, named>>

\* ErrFacilitySigned, ErrActivityAlreadySigned, or the transaction fails.
SignFails(r) ==
  /\ call[r].op \in {"sign", "signBlind", "signPilot", "signPilotBlind"}
  /\ Answer(r)
  /\ UNCHANGED <<db, activities, facilities, created, controllers, pilots, named>>

\* ControllerLeave reads the facility and who signed for it.
ControllerLeave(r, req) ==
  LET row == GetFacilityById(req.facility) IN
  /\ call[r] = Idle
  /\ IF row # None /\ \E s \in ControllerOf(req.facility) : s.cid = req.cid
       THEN Continue(r, [req EXCEPT !.op = "unsign", !.activity = row.activity])
       ELSE Answer(r)
  /\ UNCHANGED <<db, activities, facilities, created, controllers, pilots, named>>

\* Variant: the row is looked up without the account.
UnsignByFacility(r) ==
  LET req == call[r] IN
  /\ req.op = "unsign"
  /\ controllers' = {s \in controllers : s.facility # req.facility}
  /\ Answer(r)
  /\ UNCHANGED <<db, activities, facilities, created, pilots, named>>

\* UnsignFacilityController looks the row up again, by account, and deletes it.
UnsignFacilityController(r) ==
  LET req == call[r] IN
  /\ req.op = "unsign"
  /\ controllers' = controllers \ {NewActivityAtc(req)}
  /\ Answer(r)
  /\ UNCHANGED <<db, activities, facilities, created, pilots, named>>

-----------------------------------------------------------------------------
(* Pilots. *)

\* Variant: only the account is looked for.
TakenByCid(a, c, k) == \E p \in pilots : p.activity = a /\ p.cid = c

\* The account or the callsign is taken in the activity.
Taken(a, c, k) ==
  \E p \in pilots : p.activity = a /\ (p.cid = c \/ p.callsign = k)

\* PilotJoin looks for a sign-up, and goes on blindly when the look fails; the
\* activity itself is not looked at.
PilotJoin(r, req) ==
  /\ call[r] = Idle
  /\ \/ Continue(r, [req EXCEPT !.op = "signPilotBlind"])
     \/ IF Taken(req.activity, req.cid, req.callsign)
          THEN Answer(r)
          ELSE Continue(r, [req EXCEPT !.op = "signPilot"])
  /\ UNCHANGED <<db, activities, facilities, created, controllers, pilots, named>>

NewActivityPilot(req) ==
  [activity |-> req.activity, cid |-> req.cid, callsign |-> req.callsign,
   status |-> 0]

\* The insert of SignActivityPilot: the index is on activity and account.
SignActivityPilot(r) ==
  LET req == call[r] IN
  /\ req.op \in {"signPilot", "signPilotBlind"}
  /\ GetActivityPilotById(req.activity, req.cid) = {}
  /\ req.op = "signPilot" => StillTrue(~Taken(req.activity, req.cid, req.callsign))
  /\ ReferenceHolds(activities[req.activity].state # "none")
  /\ pilots' = pilots \cup {NewActivityPilot(req)}
  /\ Answer(r)
  /\ UNCHANGED <<db, activities, facilities, created, controllers, named>>

\* Finds the row of the account and deletes it, in one transaction.
UnsignActivityPilot(a, c) ==
  /\ GetActivityPilotById(a, c) # {}
  /\ pilots' = pilots \ GetActivityPilotById(a, c)

PilotLeave(req) ==
  /\ UnsignActivityPilot(req.activity, req.cid)
  /\ UNCHANGED <<db, activities, facilities, created, controllers, call, named>>

SetActivityPilotStatus(p, status) ==
  pilots' = (pilots \ {p}) \cup {[p EXCEPT !.status = status]}

\* The pilot is looked up by the account of the caller's token; the pilot
\* named in the path is not used.
EditPilotStatus(req) ==
  /\ req.status \in 0..3
  /\ "editState" \in req.permission
  /\ \E p \in GetActivityPilotById(req.activity, req.cid) :
       SetActivityPilotStatus(p, req.status)
  /\ UNCHANGED <<db, activities, facilities, created, controllers, call, named>>

-----------------------------------------------------------------------------
\* The facilities a client knows and sends back, with the ratings it wants.
Seats == UNION {[fs -> MinRatings] : fs \in SUBSET (1..created)}

SignUps == [activity : Activity, facility : Facility, cid : Cid]
Flights == [activity : Activity, cid : Cid, callsign : Callsign,
            status : PilotStatuses \cup {0}]

\* What the body of a publish request for a may carry.
Few(rows) == {some \in SUBSET rows : Cardinality(some) <= MaxCarried}
Bodies(a) ==
  {b \in [seats : Seats, atcs : Few(Of(a, SignUps)), taken : Few(controllers),
          flights : Few(Of(a, Flights)), boarded : Few(pilots)] :
     Cardinality(DOMAIN b.seats) + Cardinality(b.atcs) + Cardinality(b.taken)
       + Cardinality(b.flights) + Cardinality(b.boarded) <= MaxCarried}

Publish(c, a) ==
  \E new \in FirstSeats, status \in Statuses :
    /\ created + Len(new) <= MaxFacility
    /\ \E body \in Bodies(a) : AddActivity(AddRequest(c, a, body, new, status))

Next ==
  \/ \E c \in Cid, a \in Activity :
       \/ Publish(c, a)
       \/ DeleteActivity(DeleteRequest(c, a))
       \/ \E status \in Statuses : EditActivityStatus(StatusRequest(c, a, status))
       \/ PilotLeave(PilotLeaveRequest(c, a))
       \/ \E status \in PilotStatuses :
            EditPilotStatus(PilotStatusRequest(c, a, status))
  \/ \E r \in Request, c \in Cid :
       \/ \E a \in Activity, seats \in Seats, new \in NewSeats, status \in Statuses :
            EditActivity(r, EditRequest(c, a, seats, new, status))
       \/ \E f \in Facility : ControllerJoin(r, JoinRequest(c, f))
       \/ \E f \in Facility : ControllerLeave(r, LeaveRequest(c, f))
       \/ \E a \in Activity, k \in Callsign :
            PilotJoin(r, PilotJoinRequest(c, a, k))
  \/ \E r \in Request :
       \/ UpdateActivityInfo(r)
       \/ UpdateFails(r)
       \/ SignFacilityController(r)
       \/ SignFails(r)
       \/ UnsignFacilityController(r)
       \/ SignActivityPilot(r)

Spec == Init /\ [][Next]_vars

-----------------------------------------------------------------------------
(* Properties. *)

Calls ==
  {Idle}
  \cup [op : {"sign", "signBlind", "unsign"}, cid : Cid, facility : Facility,
        activity : Activity]
  \cup [op : {"signPilot", "signPilotBlind"}, cid : Cid, activity : Activity,
        callsign : Callsign]
  \cup [op : {"update"}, activity : Activity, new : NewSeats,
        status : Statuses \cup {None}, old : Seats, gone : SUBSET Facility,
        ratings : Seats, atcs : SUBSET SignUps, flights : SUBSET Flights]

\* The rows have their columns and a request holds the locals of its step.
TypeOK ==
  /\ db \in Databases
  /\ activities \in [Activity -> [state : {"none", "live", "deleted"},
                                  status : Statuses \cup {0}]]
  /\ facilities \in [Facility -> [activity : Activity, minRating : MinRatings] \cup {None}]
  /\ created \in 0..MaxFacility
  /\ controllers \subseteq SignUps
  /\ pilots \subseteq Flights
  /\ call \in [Request -> Calls]
  /\ named \subseteq Facility

\* On a server the owner of every sign-up can cancel it: ControllerLeave finds
\* the facility and, under the facility's activity, the sign-up.  The facility
\* may be deleted between the read and the insert of a sign-up, and an edit
\* puts sign-ups back (UpdateActivityInfo).  A facility that the publish of
\* another activity named, itself or by a sign-up, exists but may belong to
\* another activity than its sign-ups (SaveActivity).
SignUpCanBeCancelled ==
  db = "server" =>
    \A s \in controllers :
      /\ facilities[s.facility] # None
      /\ s.facility \notin named => facilities[s.facility].activity = s.activity

\* No account signs up for two facilities of one activity
\* (ErrFacilityAlreadyExists, SignFacilityController).
OneFacilityEach ==
  \A s, t \in controllers :
    s.activity = t.activity /\ s.cid = t.cid => s = t

\* A step of r that stores an edit; that signs up after a look that failed.
Edits(r) == call[r].op = "update" /\ call'[r] = Idle
SignsBlindly(r) ==
  call[r].op \in {"signBlind", "signPilotBlind"} /\ call'[r] = Idle

\* A step that may bring two sign-ups together without looking: an edit puts
\* back what it read, a publish carries sign-ups of its own, and a sign-up
\* whose look failed goes on.
Unlooked ==
  \/ \E r \in Request : Edits(r) \/ SignsBlindly(r)
  \/ \E c \in Cid, a \in Activity : Publish(c, a)

\* On SQLite two sign-ups of one account that run side by side do not get a
\* facility each (SignFacilityController): only a step that does not look
\* gives an account a second facility.
LookedSignUpsDiffer ==
  [][db = "sqlite" /\ OneFacilityEach /\ ~OneFacilityEach' => Unlooked]_vars

CallsignsDiffer ==
  \A p, q \in pilots :
    p.activity = q.activity /\ p.callsign = q.callsign => p = q

\* On SQLite no pilot gets a callsign another pilot of the activity has
\* (ErrCallsignAlreadyUsed, SignActivityPilot), by a step that looks.
LookedCallsignsDiffer ==
  [][db = "sqlite" /\ CallsignsDiffer /\ ~CallsignsDiffer' => Unlooked]_vars

\* An edit deletes only facilities its editor saw and left out: one that
\* another editor added meanwhile survives (UpdateActivityInfo).
EditSparesUnseen ==
  [][\A f \in Facility : facilities[f] # None /\ facilities'[f] = None =>
       \E r \in Request : Edits(r) /\ f \in DOMAIN call[r].old]_vars

\* A sign-up goes only when its own account cancels it or its facility is
\* deleted, even if the facility changed hands after ControllerLeave read it;
\* a publish or an edit that moves it leaves it its facility and account.
OnlyOwnerCancels ==
  [][\A s \in controllers \ controllers' :
       \/ facilities'[s.facility] = None
       \/ \E t \in controllers' : t.facility = s.facility /\ t.cid = s.cid
       \/ \E r \in Request : /\ call[r].op = "unsign" /\ call'[r] = Idle
                             /\ call[r].cid = s.cid]_vars
=============================================================================
