-------------------------- MODULE ActivitiesProofs --------------------------
(***************************************************************************)
(* Activities for any number of activities, facilities, accounts and       *)
(* requests, on either kind of database.                                   *)
(*                                                                         *)
(* That a sign-up keeps its facility depends on an argument about time: a  *)
(* request remembers which activity a facility belongs to, and the row may *)
(* be deleted and put back before the request goes on.  The inductive      *)
(* invariant says that whoever knows the activity of a facility, the row   *)
(* or a request, knows the same one (OwnerInv), unless a publish named the *)
(* facility for another activity: new rows take ids never given before.    *)
(***************************************************************************)
EXTENDS Activities, TLAPS

\* A row, or the locals of request r, say that facility f belongs to a.
RowKnows(f, a) == facilities[f] # None /\ facilities[f].activity = a
CallKnows(r, f, a) ==
  \/ call[r].op = "update" /\ f \in DOMAIN call[r].old /\ call[r].activity = a
  \/ /\ call[r].op \in {"sign", "signBlind", "unsign"}
     /\ call[r].facility = f /\ call[r].activity = a
Known(f, a) == RowKnows(f, a) \/ \E r \in Request : CallKnows(r, f, a)

OwnerInv ==
  \A f \in Facility, a \in Activity :
    Known(f, a) =>
      /\ f <= created
      /\ f \notin named => \A b \in Activity : Known(f, b) => a = b

\* An edit deletes and rates facilities it has read; on a server, the sign-ups
\* it has read are for them, or for facilities a publish named.
EditOK(req) ==
  /\ req.gone \subseteq DOMAIN req.old /\ DOMAIN req.ratings \subseteq DOMAIN req.old
  /\ \A s \in req.atcs :
       /\ s.activity = req.activity
       /\ db = "server" => s.facility \in DOMAIN req.old \cup named

EditInv == \A r \in Request : call[r].op = "update" => EditOK(call[r])

ActivitiesInv == TypeOK /\ OwnerInv /\ EditInv /\ SignUpCanBeCancelled

SignCall == [op : {"sign", "signBlind", "unsign"}, cid : Cid, facility : Facility,
             activity : Activity]
PilotCall == [op : {"signPilot", "signPilotBlind"}, cid : Cid, activity : Activity,
              callsign : Callsign]
UpdateCall == [op : {"update"}, activity : Activity, new : NewSeats,
               status : Statuses \cup {None}, old : Seats, gone : SUBSET Facility,
               ratings : Seats, atcs : SUBSET SignUps, flights : SUBSET Flights]

-----------------------------------------------------------------------------
(* Rows and locals. *)

\* What a client or a request knows of facilities.
LEMMA SeatsFacts ==
  ASSUME NEW seats
  PROVE  seats \in Seats <=>
           seats \in [DOMAIN seats -> MinRatings] /\ DOMAIN seats \subseteq 1..created
<1>1. ASSUME seats \in Seats
      PROVE  seats \in [DOMAIN seats -> MinRatings] /\ DOMAIN seats \subseteq 1..created
  <2>1. PICK fs \in SUBSET (1..created) : seats \in [fs -> MinRatings]
    BY <1>1 DEF Seats
  <2> QED BY <2>1
<1>2. ASSUME seats \in [DOMAIN seats -> MinRatings], DOMAIN seats \subseteq 1..created
      PROVE  seats \in Seats
  <2>1. DOMAIN seats \in SUBSET (1..created)
    BY <1>2
  <2> QED BY <1>2, <2>1 DEF Seats
<1> QED BY <1>1, <1>2

\* What a goroutine is doing tells which locals it has.
LEMMA Locals ==
  ASSUME TypeOK, NEW r \in Request
  PROVE  /\ call[r].op \in {"none", "sign", "signBlind", "unsign", "signPilot",
                             "signPilotBlind", "update"}
         /\ call[r].op = "none" => call[r] = Idle
         /\ call[r].op \in {"sign", "signBlind", "unsign"} => call[r] \in SignCall
         /\ call[r].op \in {"signPilot", "signPilotBlind"} => call[r] \in PilotCall
         /\ call[r].op = "update" => call[r] \in UpdateCall
<1>1. call[r] \in {Idle} \cup SignCall \cup PilotCall \cup UpdateCall
  BY DEF TypeOK, Calls, SignCall, PilotCall, UpdateCall
<1>2. Idle.op = "none"
  BY DEF Idle
<1>3. \A x \in SignCall : x.op \in {"sign", "signBlind", "unsign"}
  BY DEF SignCall
<1>4. \A x \in PilotCall : x.op \in {"signPilot", "signPilotBlind"}
  BY DEF PilotCall
<1>5. \A x \in UpdateCall : x.op = "update"
  BY DEF UpdateCall
<1> QED BY <1>1, <1>2, <1>3, <1>4, <1>5

\* Locals stay what they are when facilities are created.
LEMMA CallsGrow ==
  ASSUME created \in Nat, created' \in Nat, created <= created'
  PROVE  Calls \subseteq Calls'
<1>1. Seats \subseteq Seats'
  <2> SUFFICES ASSUME NEW seats \in Seats PROVE seats \in Seats'
    OBVIOUS
  <2>1. PICK fs \in SUBSET (1..created) : seats \in [fs -> MinRatings]
    BY DEF Seats
  <2>2. fs \in SUBSET (1..created')
    <3>1. \A n \in 1..created : n \in 1..created'
      OBVIOUS
    <3> QED BY <3>1
  <2> QED BY <2>1, <2>2 DEF Seats
<1>2. UpdateCall \subseteq UpdateCall'
  BY <1>1 DEF UpdateCall
<1>3. /\ Calls = {Idle} \cup SignCall \cup PilotCall \cup UpdateCall
      /\ Calls' = {Idle} \cup SignCall \cup PilotCall \cup UpdateCall'
  BY DEF Calls, SignCall, PilotCall, UpdateCall
<1> QED BY <1>2, <1>3

\* A request looks and remembers what it saw.
LEMMA LookStep ==
  ASSUME ActivitiesInv, NEW r \in Request, NEW new \in Calls,
         call' = [call EXCEPT ![r] = new],
         UNCHANGED <<db, activities, facilities, created, controllers, pilots, named>>,
         new.op = "update" =>
           /\ EditOK(new)
           /\ \A f \in DOMAIN new.old : f \in Facility => RowKnows(f, new.activity),
         new.op \in {"sign", "signBlind", "unsign"} => RowKnows(new.facility, new.activity)
  PROVE  ActivitiesInv'
<1>1. /\ call'[r] = new /\ \A q \in Request \ {r} : call'[q] = call[q]
  BY DEF ActivitiesInv, TypeOK
<1>2. TypeOK'
  <2>1. created \in Nat
    BY ActivityAssumption DEF ActivitiesInv, TypeOK
  <2>2. Calls \subseteq Calls'
    BY <2>1, CallsGrow
  <2>3. call' \in [Request -> Calls']
    BY <2>2 DEF ActivitiesInv, TypeOK
  <2> QED BY <2>3 DEF ActivitiesInv, TypeOK
<1>3. OwnerInv'
  <2>1. ASSUME NEW f \in Facility, NEW a \in Activity, Known(f, a)'
        PROVE  Known(f, a)
    <3>1. CASE RowKnows(f, a)'
      BY <3>1 DEF Known, RowKnows
    <3>2. ASSUME NEW q \in Request, CallKnows(q, f, a)'
          PROVE  Known(f, a)
      <4>1. CASE q = r
        BY <1>1, <3>2, <4>1 DEF Known, CallKnows
      <4>2. CASE q # r
        BY <1>1, <3>2, <4>2 DEF Known, CallKnows
      <4> QED BY <4>1, <4>2
    <3> QED BY <2>1, <3>1, <3>2 DEF Known
  <2> QED BY <2>1 DEF ActivitiesInv, OwnerInv
<1>4. EditInv'
  BY <1>1 DEF ActivitiesInv, EditInv, EditOK
<1>5. SignUpCanBeCancelled'
  BY DEF ActivitiesInv, SignUpCanBeCancelled
<1> QED BY <1>2, <1>3, <1>4, <1>5 DEF ActivitiesInv

\* A step that writes: what belonged to an activity still does, unless it was
\* named, and facilities it creates belong to one.
LEMMA WriteStep ==
  ASSUME ActivitiesInv, TypeOK', SignUpCanBeCancelled', UNCHANGED db, NEW owner,
         created <= created', named \subseteq named',
         \A f \in Facility, a \in Activity : RowKnows(f, a)' =>
           \/ Known(f, a)
           \/ f \in named' /\ f <= created'
           \/ f > created /\ f <= created' /\ a = owner,
         \A r \in Request : call'[r] = call[r] \/ call'[r] = Idle
  PROVE  ActivitiesInv'
<1>0. created \in Nat /\ created' \in Nat /\ Idle.op = "none"
  BY ActivityAssumption DEF ActivitiesInv, TypeOK, Idle
<1>1. ASSUME NEW f \in Facility, NEW a \in Activity, Known(f, a)'
      PROVE  \/ Known(f, a)
             \/ f \in named' /\ f <= created'
             \/ f > created /\ f <= created' /\ a = owner
  <2>1. ASSUME NEW r \in Request, CallKnows(r, f, a)'
        PROVE  Known(f, a)
    BY <1>0, <2>1 DEF Known, CallKnows
  <2> QED BY <1>1, <2>1 DEF Known
<1>2. OwnerInv'
  <2> SUFFICES ASSUME NEW f \in Facility, NEW a \in Activity, Known(f, a)'
               PROVE  /\ f <= created'
                      /\ f \notin named' => \A b \in Activity : Known(f, b)' => a = b
    BY DEF OwnerInv
  <2>1. \A b \in Activity : Known(f, b) => f <= created
    BY DEF ActivitiesInv, OwnerInv
  <2>2. f \notin named => \A b \in Activity : Known(f, a) /\ Known(f, b) => a = b
    BY DEF ActivitiesInv, OwnerInv
  <2>3. f \in Int
    BY DEF Facility
  <2> QED BY <1>0, <1>1, <2>1, <2>2, <2>3
<1>3. EditInv'
  BY <1>0 DEF ActivitiesInv, EditInv, EditOK
<1> QED BY <1>2, <1>3 DEF ActivitiesInv

-----------------------------------------------------------------------------
(* Requests that look. *)

\* The facilities of a, as an edit reads them.
LEMMA ReadFacilities ==
  ASSUME ActivitiesInv, NEW a \in Activity
  PROVE  LET old == [f \in FacilitiesOf(a) |-> facilities[f].minRating]
         IN /\ old \in Seats /\ DOMAIN old = FacilitiesOf(a)
            /\ \A f \in DOMAIN old : f \in Facility /\ RowKnows(f, a)
<1> DEFINE old == [f \in FacilitiesOf(a) |-> facilities[f].minRating]
<1>1. \A f \in FacilitiesOf(a) :
        f \in Facility /\ RowKnows(f, a) /\ facilities[f].minRating \in MinRatings
  BY DEF ActivitiesInv, TypeOK, FacilitiesOf, RowKnows
<1>2. old \in [FacilitiesOf(a) -> MinRatings]
  BY <1>1
<1>3. FacilitiesOf(a) \subseteq 1..created
  <2>1. \A f \in FacilitiesOf(a) : f <= created
    BY <1>1 DEF ActivitiesInv, OwnerInv, Known
  <2> QED BY <1>1, <2>1, ActivityAssumption DEF Facility, ActivitiesInv, TypeOK
<1>4. DOMAIN old = FacilitiesOf(a)
  OBVIOUS
<1> HIDE DEF old
<1>5. old \in Seats
  BY <1>2, <1>3, <1>4, SeatsFacts
<1> QED BY <1>1, <1>4, <1>5 DEF old

\* An edit reads the activity.
LEMMA EditStep ==
  ASSUME ActivitiesInv, NEW r \in Request, NEW c \in Cid, NEW a \in Activity,
         NEW seats \in Seats, NEW new \in NewSeats, NEW status \in Statuses,
         EditActivity(r, EditRequest(c, a, seats, new, status))
  PROVE  ActivitiesInv'
<1> DEFINE old == [f \in FacilitiesOf(a) |-> facilities[f].minRating]
           req == [op |-> "update", activity |-> a, new |-> new,
                   status |-> Diff(a, status), old |-> old,
                   gone |-> Deleted(old, seats),
                   ratings |-> Restrict(seats, Changed(old, seats)),
                   atcs |-> Of(a, controllers), flights |-> Of(a, pilots)]
<1>0. /\ UNCHANGED <<db, activities, facilities, created, controllers, pilots, named>>
      /\ \/ Answer(r)
         \/ DOMAIN seats \subseteq DOMAIN old /\ Continue(r, req)
  BY DEF EditActivity, EditRequest
<1>1. CASE Answer(r)
  <2>1. Idle \in Calls /\ Idle.op = "none" /\ call' = [call EXCEPT ![r] = Idle]
    BY <1>1 DEF Calls, Idle, Answer, Continue
  <2> QED BY <1>0, <2>1, LookStep
<1>2. CASE DOMAIN seats \subseteq DOMAIN old /\ Continue(r, req)
  <2>1. /\ old \in Seats /\ DOMAIN old = FacilitiesOf(a)
        /\ \A f \in DOMAIN old : f \in Facility /\ RowKnows(f, a)
    BY ReadFacilities
  <2>2. DOMAIN seats \subseteq DOMAIN old
    BY <1>2
  <2> HIDE DEF old
  <2> DEFINE gone == Deleted(old, seats)
             ratings == Restrict(seats, Changed(old, seats))
             atcs == Of(a, controllers)
             flights == Of(a, pilots)
  <2>3. gone \subseteq DOMAIN old /\ gone \in SUBSET Facility
    BY <2>1 DEF Deleted
  <2>4. ratings \in Seats /\ DOMAIN ratings \subseteq DOMAIN old
    <3>1. Changed(old, seats) \subseteq DOMAIN seats
      BY DEF Changed
    <3>2. seats \in [DOMAIN seats -> MinRatings] /\ DOMAIN seats \subseteq 1..created
      BY SeatsFacts
    <3>3. ratings \in [Changed(old, seats) -> MinRatings] /\ DOMAIN ratings = Changed(old, seats)
      BY <3>1, <3>2 DEF Restrict
    <3> HIDE DEF ratings
    <3>4. ratings \in [DOMAIN ratings -> MinRatings] /\ DOMAIN ratings \subseteq 1..created
      BY <3>1, <3>2, <3>3
    <3> QED BY <2>2, <3>1, <3>3, <3>4, SeatsFacts
  <2>5. /\ atcs \in SUBSET SignUps /\ flights \in SUBSET Flights
        /\ \A s \in atcs :
             s.activity = a /\ (db = "server" => s.facility \in DOMAIN old \cup named)
    <3>1. controllers \subseteq SignUps /\ pilots \subseteq Flights
      BY DEF ActivitiesInv, TypeOK
    <3>2. ASSUME NEW s \in controllers, s.activity = a, db = "server", s.facility \notin named
          PROVE  s.facility \in FacilitiesOf(a)
      <4>1. s.facility \in Facility
        BY <3>1 DEF SignUps
      <4>2. facilities[s.facility] # None /\ facilities[s.facility].activity = a
        BY <3>2 DEF ActivitiesInv, SignUpCanBeCancelled
      <4> QED BY <4>1, <4>2 DEF FacilitiesOf
    <3> QED BY <2>1, <3>1, <3>2 DEF Of
  <2>6. Diff(a, status) \in Statuses \cup {None}
    BY DEF Diff
  <2> HIDE DEF gone, ratings, atcs, flights
  <2>7. req = [op |-> "update", activity |-> a, new |-> new, status |-> Diff(a, status),
               old |-> old, gone |-> gone, ratings |-> ratings, atcs |-> atcs,
               flights |-> flights]
    BY DEF gone, ratings, atcs, flights
  <2>8. call' = [call EXCEPT ![r] = req]
    BY <1>2 DEF Continue
  <2> HIDE DEF req
  <2>9. req \in UpdateCall /\ req.op = "update"
    BY <2>1, <2>3, <2>4, <2>5, <2>6, <2>7 DEF UpdateCall
  <2>10. req \in Calls
    BY <2>9 DEF Calls, UpdateCall
  <2>11. EditOK(req)
    BY <2>3, <2>4, <2>5, <2>7 DEF EditOK
  <2>12. \A f \in DOMAIN req.old : f \in Facility => RowKnows(f, req.activity)
    BY <2>1, <2>7
  <2> QED BY <1>0, <2>8, <2>9, <2>10, <2>11, <2>12, LookStep
<1> QED BY <1>0, <1>1, <1>2

\* A controller asks to sign up or to cancel.
LEMMA ControllerStep ==
  ASSUME ActivitiesInv, NEW r \in Request, NEW c \in Cid, NEW f \in Facility,
         ControllerJoin(r, JoinRequest(c, f)) \/ ControllerLeave(r, LeaveRequest(c, f))
  PROVE  ActivitiesInv'
<1> DEFINE a == facilities[f].activity
           sign(op) == [op |-> op, cid |-> c, facility |-> f, activity |-> a]
           unsign == [LeaveRequest(c, f) EXCEPT !.op = "unsign", !.activity = a]
<1>0. /\ UNCHANGED <<db, activities, facilities, created, controllers, pilots, named>>
      /\ \/ Answer(r)
         \/ facilities[f] # None /\ ((\E op \in {"sign", "signBlind"} : Continue(r, sign(op))) \/ Continue(r, unsign))
  <2>1. CASE ControllerJoin(r, JoinRequest(c, f))
    BY <2>1 DEF ControllerJoin, JoinRequest, GetFacilityById
  <2>2. CASE ControllerLeave(r, LeaveRequest(c, f))
    <3>1. LeaveRequest(c, f).facility = f
      BY DEF LeaveRequest
    <3> QED BY <2>2, <3>1 DEF ControllerLeave, GetFacilityById
  <2> QED BY <2>1, <2>2
<1>1. CASE Answer(r)
  <2>1. Idle \in Calls /\ Idle.op = "none" /\ call' = [call EXCEPT ![r] = Idle]
    BY <1>1 DEF Calls, Idle, Answer, Continue
  <2> QED BY <1>0, <2>1, LookStep
<1>2. CASE facilities[f] # None /\ ((\E op \in {"sign", "signBlind"} : Continue(r, sign(op))) \/ Continue(r, unsign))
  <2>1. a \in Activity /\ RowKnows(f, a)
    BY <1>2 DEF ActivitiesInv, TypeOK, RowKnows
  <2> HIDE DEF a
  <2>2. \A new \in {sign("sign"), sign("signBlind"), unsign} :
          new \in SignCall /\ new.facility = f /\ new.activity = a
    <3>1. \A op \in {"sign", "signBlind"} :
            sign(op) \in SignCall /\ sign(op).facility = f /\ sign(op).activity = a
      BY <2>1 DEF SignCall
    <3>2. unsign \in SignCall /\ unsign.facility = f /\ unsign.activity = a
      <4>1. unsign = [[[op |-> "leave", cid |-> c, facility |-> f, activity |-> None]
                        EXCEPT !.op = "unsign"] EXCEPT !.activity = a]
        BY DEF LeaveRequest
      <4>2. [[op |-> "leave", cid |-> c, facility |-> f, activity |-> None] EXCEPT !.op = "unsign"]
            \in [op : {"unsign"}, cid : Cid, facility : Facility, activity : {None}]
        OBVIOUS
      <4> QED BY <2>1, <4>1, <4>2 DEF SignCall
    <3> QED BY <3>1, <3>2
  <2>3. \E new \in {sign("sign"), sign("signBlind"), unsign} :
          call' = [call EXCEPT ![r] = new]
    BY <1>2 DEF Continue
  <2>4. PICK new \in SignCall : /\ new.facility = f /\ new.activity = a
                                /\ call' = [call EXCEPT ![r] = new]
    BY <2>2, <2>3
  <2>5. new \in Calls /\ new.op # "update"
    BY <2>4 DEF Calls, SignCall
  <2> QED BY <1>0, <2>1, <2>4, <2>5, LookStep
<1> QED BY <1>0, <1>1, <1>2

\* A pilot asks to sign up.
LEMMA PilotStep ==
  ASSUME ActivitiesInv, NEW r \in Request, NEW c \in Cid, NEW a \in Activity,
         NEW k \in Callsign, PilotJoin(r, PilotJoinRequest(c, a, k))
  PROVE  ActivitiesInv'
<1> DEFINE new(op) == [op |-> op, cid |-> c, activity |-> a, callsign |-> k]
<1>0. /\ UNCHANGED <<db, activities, facilities, created, controllers, pilots, named>>
      /\ Answer(r) \/ \E op \in {"signPilot", "signPilotBlind"} : Continue(r, new(op))
  <2>1. \A op \in {"signPilot", "signPilotBlind"} :
          [PilotJoinRequest(c, a, k) EXCEPT !.op = op] = new(op)
    BY DEF PilotJoinRequest
  <2> QED BY <2>1 DEF PilotJoin
<1>1. CASE Answer(r)
  <2>1. Idle \in Calls /\ Idle.op = "none" /\ call' = [call EXCEPT ![r] = Idle]
    BY <1>1 DEF Calls, Idle, Answer, Continue
  <2> QED BY <1>0, <2>1, LookStep
<1>2. ASSUME NEW op \in {"signPilot", "signPilotBlind"}, Continue(r, new(op))
      PROVE  ActivitiesInv'
  <2>1. new(op) \in Calls /\ new(op).op = op
    BY DEF Calls
  <2>2. call' = [call EXCEPT ![r] = new(op)]
    BY <1>2 DEF Continue
  <2> HIDE DEF new
  <2> QED BY <1>0, <2>1, <2>2, LookStep
<1> QED BY <1>0, <1>1, <1>2

\* A request is refused or fails.
LEMMA FailsStep ==
  ASSUME ActivitiesInv, NEW r \in Request, UpdateFails(r) \/ SignFails(r)
  PROVE  ActivitiesInv'
<1>1. /\ UNCHANGED <<db, activities, facilities, created, controllers, pilots, named>>
      /\ call' = [call EXCEPT ![r] = Idle] /\ Idle \in Calls /\ Idle.op = "none"
  BY DEF UpdateFails, SignFails, Answer, Continue, Calls, Idle
<1> QED BY <1>1, LookStep

-----------------------------------------------------------------------------
(* Requests that write. *)

\* A row is no missing row.
LEMMA RowIsSome ==
  ASSUME NEW a \in Activity, NEW n \in MinRatings
  PROVE  [activity |-> a, minRating |-> n] # None
<1>1. [activity |-> a, minRating |-> n] \in [activity : Activity, minRating : Int]
  BY ActivityAssumption
<1> QED BY <1>1, ActivityAssumption

Row == [activity : Activity, minRating : MinRatings]

\* The new facilities take the next ids; the others stay as they are.
LEMMA NewFacilities ==
  ASSUME created \in Nat, NEW a \in Activity, NEW new \in Seq(MinRatings),
         created + Len(new) <= MaxFacility,
         NEW rows \in [Facility -> Row \cup {None}]
  PROVE  LET result == NewActivityFacility(a, new, rows)
         IN /\ result \in [Facility -> Row \cup {None}]
            /\ created + Len(new) \in Nat /\ created <= created + Len(new)
            /\ \A f \in Facility :
                 /\ f <= created => result[f] = rows[f]
                 /\ result[f] = rows[f] \/
                      (/\ f > created /\ f <= created + Len(new)
                       /\ result[f] # None /\ result[f].activity = a)
<1> DEFINE result == NewActivityFacility(a, new, rows)
<1>1. new \in Seq(MinRatings) /\ Len(new) \in Nat /\ DOMAIN new = 1..Len(new)
  BY ActivityAssumption
<1>2. \A f \in Facility :
        result[f] = IF f - created \in DOMAIN new
                    THEN [activity |-> a, minRating |-> new[f - created]] ELSE rows[f]
  BY DEF NewActivityFacility
<1>3. ASSUME NEW f \in Facility, f - created \in DOMAIN new
      PROVE  /\ f > created /\ f <= created + Len(new)
             /\ result[f] \in Row /\ result[f] # None /\ result[f].activity = a
  <2>1. f \in Int /\ f - created >= 1 /\ f - created <= Len(new)
    BY <1>1, <1>3 DEF Facility
  <2>2. new[f - created] \in MinRatings
    BY <1>1, <1>3
  <2>3. result[f] = [activity |-> a, minRating |-> new[f - created]]
    BY <1>2, <1>3
  <2> QED BY <1>1, <2>1, <2>2, <2>3, RowIsSome DEF Row
<1>4. ASSUME NEW f \in Facility, f - created \notin DOMAIN new
      PROVE  result[f] = rows[f]
  BY <1>2, <1>4
<1>5. ASSUME NEW f \in Facility, f <= created
      PROVE  result[f] = rows[f]
  <2>1. f - created \notin DOMAIN new
    BY <1>1, <1>5 DEF Facility
  <2> QED BY <1>4, <2>1
<1>6. result \in [Facility -> Row \cup {None}]
  <2>1. result = [f \in Facility |-> result[f]]
    BY DEF NewActivityFacility
  <2>2. \A f \in Facility : result[f] \in Row \cup {None}
    BY <1>3, <1>4
  <2> HIDE DEF result
  <2> QED BY <2>1, <2>2
<1> HIDE DEF result
<1>7. created + Len(new) \in Nat /\ created <= created + Len(new)
  BY <1>1
<1> QED BY <1>3, <1>4, <1>5, <1>6, <1>7 DEF result

\* Sign-ups go and facilities stay.
LEMMA FacilitiesStay ==
  ASSUME ActivitiesInv, UNCHANGED <<db, facilities, named>>, controllers' \subseteq controllers
  PROVE  SignUpCanBeCancelled'
  BY DEF ActivitiesInv, SignUpCanBeCancelled

\* Rows that are saved with an activity: a row that is moved keeps its facility
\* and its account.
LEMMA UpsertFacts ==
  ASSUME NEW a \in Activity, NEW rows \in SUBSET SignUps, NEW moved \in SUBSET rows,
         NEW new \in SUBSET SignUps
  PROVE  /\ Upserted(rows, moved, new, a) \in SUBSET SignUps
         /\ \A t \in Upserted(rows, moved, new, a) :
              \/ t \in rows \/ t \in new
              \/ t.activity = a /\ \E s \in moved : t.facility = s.facility
         /\ \A s \in rows : \E t \in Upserted(rows, moved, new, a) :
              t.facility = s.facility /\ t.cid = s.cid
<1>1. \A s \in SignUps : /\ [s EXCEPT !.activity = a] \in SignUps
                         /\ [s EXCEPT !.activity = a].activity = a
                         /\ [s EXCEPT !.activity = a].facility = s.facility
                         /\ [s EXCEPT !.activity = a].cid = s.cid
  BY DEF SignUps
<1> DEFINE moveds == {[s EXCEPT !.activity = a] : s \in moved}
<1>2. \A t \in moveds : \E s \in moved :
        t \in SignUps /\ t.activity = a /\ t.facility = s.facility
  BY <1>1
<1>3. \A s \in moved : \E t \in moveds : t.facility = s.facility /\ t.cid = s.cid
  BY <1>1
<1>4. Upserted(rows, moved, new, a) = (rows \ moved) \cup moveds \cup new
  BY DEF Upserted
<1> HIDE DEF moveds
<1> QED BY <1>2, <1>3, <1>4

LEMMA UpsertFlights ==
  ASSUME NEW a \in Activity, NEW rows \in SUBSET Flights, NEW moved \in SUBSET rows,
         NEW new \in SUBSET Flights
  PROVE  Upserted(rows, moved, new, a) \in SUBSET Flights
<1>1. \A s \in Flights : [s EXCEPT !.activity = a] \in Flights
  BY DEF Flights
<1> QED BY <1>1 DEF Upserted

\* What a facility saved by its id is.
LEMMA SavedFacts ==
  ASSUME ActivitiesInv, NEW a \in Activity, NEW seats \in Seats, NEW f \in Facility
  PROVE  /\ SavedFacility(f, a, seats) \in Row \cup {None} /\ None \notin Row
         /\ f \in DOMAIN seats => /\ f <= created
                                 /\ SavedFacility(f, a, seats) # None
                                 /\ SavedFacility(f, a, seats).activity = a
         /\ f \notin DOMAIN seats => SavedFacility(f, a, seats) = facilities[f]
<1>1. seats \in [DOMAIN seats -> MinRatings] /\ DOMAIN seats \subseteq 1..created
  BY SeatsFacts
<1>2. facilities[f] \in Row \cup {None} /\ None \notin Row /\ created \in Nat
  <2>1. None \notin Row
    BY ActivityAssumption DEF Row
  <2>2. facilities[f] \in Row \cup {None} /\ created \in Nat
    BY ActivityAssumption DEF ActivitiesInv, TypeOK, Row
  <2> QED BY <2>1, <2>2
<1>3. CASE f \notin DOMAIN seats
  BY <1>2, <1>3 DEF SavedFacility
<1>4. CASE f \in DOMAIN seats /\ facilities[f] = None
  <2>1. SavedFacility(f, a, seats) = [activity |-> a, minRating |-> seats[f]]
    BY <1>4 DEF SavedFacility
  <2>2. seats[f] \in MinRatings /\ f <= created
    BY <1>1, <1>2, <1>4
  <2> QED BY <1>2, <1>4, <2>1, <2>2 DEF Row
<1>5. CASE f \in DOMAIN seats /\ facilities[f] # None
  <2>1. SavedFacility(f, a, seats) = [facilities[f] EXCEPT !.activity = a]
    BY <1>5 DEF SavedFacility
  <2>2. f <= created
    BY <1>1, <1>2, <1>5
  <2> QED BY <1>2, <1>5, <2>1, <2>2 DEF Row
<1> QED BY <1>3, <1>4, <1>5

\* A publish, with the body it has.
Saves(a, new, status, body) ==
  /\ created + Len(new) <= MaxFacility
  /\ activities' = [activities EXCEPT ![a] = [state |-> "live", status |-> status]]
  /\ facilities' = NewActivityFacility(a, new,
                      [f \in Facility |-> SavedFacility(f, a, body.seats)])
  /\ created' = created + Len(new)
  /\ ReferenceHolds(\A s \in body.atcs : facilities'[s.facility] # None)
  /\ controllers' = Upserted(controllers, body.taken, body.atcs, a)
  /\ pilots' = Upserted(pilots, body.boarded, body.flights, a)
  /\ named' = named \cup ((DOMAIN body.seats \cup
                             {s.facility : s \in body.taken \cup body.atcs}) \ FacilitiesOf(a))
  /\ UNCHANGED <<db, call>>

LEMMA PublishSaves ==
  ASSUME NEW c \in Cid, NEW a \in Activity, Publish(c, a)
  PROVE  \E new \in FirstSeats, status \in Statuses, body \in Bodies(a) :
           Saves(a, new, status, body)
<1>1. PICK new \in FirstSeats, status \in Statuses :
        /\ created + Len(new) <= MaxFacility
        /\ \E body \in Bodies(a) : AddActivity(AddRequest(c, a, body, new, status))
  BY DEF Publish
<1>2. PICK body \in Bodies(a) : AddActivity(AddRequest(c, a, body, new, status))
  BY <1>1
<1> DEFINE req == AddRequest(c, a, body, new, status)
<1>3. /\ req.activity = a /\ req.new = new /\ req.status = status /\ req.seats = body.seats
      /\ req.atcs = body.atcs /\ req.taken = body.taken
      /\ req.flights = body.flights /\ req.boarded = body.boarded
  BY DEF AddRequest
<1>4. SaveActivity(req) /\ UNCHANGED <<db, call>>
  BY <1>2 DEF AddActivity
<1> HIDE DEF req
<1>5. Saves(a, new, status, body)
  BY <1>1, <1>3, <1>4 DEF Saves, SaveActivity
<1> QED BY <1>5

LEMMA BodyFacts ==
  ASSUME ActivitiesInv, NEW a \in Activity, NEW body \in Bodies(a)
  PROVE  /\ body.seats \in Seats
         /\ body.atcs \in SUBSET SignUps /\ \A s \in body.atcs : s.activity = a
         /\ body.taken \in SUBSET controllers
         /\ body.flights \in SUBSET Flights /\ body.boarded \in SUBSET pilots
<1>1. body \in [seats : Seats, atcs : Few(Of(a, SignUps)), taken : Few(controllers),
                flights : Few(Of(a, Flights)), boarded : Few(pilots)]
  BY DEF Bodies
<1>2. \A rows : Few(rows) \subseteq SUBSET rows
  BY DEF Few
<1> QED BY <1>1, <1>2 DEF Of

\* The facilities after a publish.
LEMMA PublishFacts ==
  ASSUME ActivitiesInv, NEW a \in Activity, NEW new \in FirstSeats,
         NEW status \in Statuses, NEW body \in Bodies(a), Saves(a, new, status, body)
  PROVE  /\ facilities' \in [Facility -> Row \cup {None}]
         /\ created \in Nat /\ created' \in 0..MaxFacility /\ created <= created'
         /\ \A f \in Facility :
              /\ facilities[f] # None => f <= created /\ facilities'[f] # None
              /\ f \in FacilitiesOf(a) => facilities'[f].activity = a
              /\ facilities[f] # None /\ f \notin DOMAIN body.seats =>
                   facilities'[f] = facilities[f]
              /\ facilities'[f] # None =>
                   \/ facilities[f] # None /\ facilities'[f].activity = facilities[f].activity
                   \/ f \in named' /\ f <= created'
                   \/ f > created /\ f <= created' /\ facilities'[f].activity = a
<1> DEFINE seats == body.seats
           rows == [f \in Facility |-> SavedFacility(f, a, seats)]
<1>1. /\ seats \in Seats /\ created + Len(new) <= MaxFacility /\ created' = created + Len(new)
      /\ facilities' = NewActivityFacility(a, new, rows)
      /\ \A f \in DOMAIN seats : f \in FacilitiesOf(a) \/ f \in named'
  BY BodyFacts DEF Saves
<1>2. /\ TypeOK /\ created \in Nat /\ new \in Seq(MinRatings)
      /\ facilities \in [Facility -> Row \cup {None}]
  BY ActivityAssumption DEF ActivitiesInv, TypeOK, Row
<1> HIDE DEF seats
<1>3. \A f \in Facility :
        /\ rows[f] \in Row \cup {None} /\ None \notin Row
        /\ f \in DOMAIN seats => f <= created /\ rows[f] # None /\ rows[f].activity = a
        /\ f \notin DOMAIN seats => rows[f] = facilities[f]
  BY <1>1, SavedFacts
<1>4. rows \in [Facility -> Row \cup {None}]
  BY <1>3
<1> HIDE DEF rows
<1>5. /\ facilities' \in [Facility -> Row \cup {None}] /\ created' \in Nat /\ created <= created'
      /\ \A f \in Facility :
           /\ f <= created => facilities'[f] = rows[f]
           /\ facilities'[f] = rows[f] \/
                (/\ f > created /\ f <= created'
                 /\ facilities'[f] # None /\ facilities'[f].activity = a)
  BY <1>1, <1>2, <1>4, NewFacilities
<1>6. created' \in 0..MaxFacility
  BY <1>1, <1>5, ActivityAssumption
<1>7. \A f \in Facility : facilities[f] # None => f <= created
  BY <1>2 DEF TypeOK, ActivitiesInv, OwnerInv, Known, RowKnows
<1>8. ASSUME NEW f \in Facility
      PROVE  /\ facilities[f] # None => f <= created /\ facilities'[f] # None
             /\ f \in FacilitiesOf(a) => facilities'[f].activity = a
             /\ facilities[f] # None /\ f \notin DOMAIN seats =>
                  facilities'[f] = facilities[f]
             /\ facilities'[f] # None =>
                  \/ facilities[f] # None /\ facilities'[f].activity = facilities[f].activity
                  \/ f \in named' /\ f <= created'
                  \/ f > created /\ f <= created' /\ facilities'[f].activity = a
  <2>0. f \in Int
    BY DEF Facility
  <2>1. CASE f \in DOMAIN seats
    <3>1. f <= created /\ f <= created' /\ facilities'[f] # None /\ facilities'[f].activity = a
      BY <1>2, <1>3, <1>5, <2>0, <2>1
    <3>2. CASE f \in FacilitiesOf(a)
      <4>1. facilities[f] # None /\ facilities[f].activity = a
        BY <3>2 DEF FacilitiesOf
      <4> QED BY <2>1, <3>1, <4>1
    <3>3. CASE f \notin FacilitiesOf(a)
      BY <1>1, <2>1, <3>1, <3>3
    <3> QED BY <3>2, <3>3
  <2>2. CASE f \notin DOMAIN seats
    <3>1. facilities[f] # None => f <= created /\ facilities'[f] = facilities[f]
      BY <1>3, <1>5, <1>7, <2>2
    <3>2. f \in FacilitiesOf(a) => facilities[f] # None /\ facilities[f].activity = a
      BY DEF FacilitiesOf
    <3> QED BY <1>3, <1>5, <2>2, <3>1, <3>2
  <2> QED BY <2>1, <2>2
<1> QED BY <1>2, <1>5, <1>6, <1>8 DEF seats

\* An activity is published with what its body carries.
LEMMA AddStep ==
  ASSUME ActivitiesInv, NEW c \in Cid, NEW a \in Activity, Publish(c, a)
  PROVE  ActivitiesInv'
<1>0. PICK new \in FirstSeats, status \in Statuses, body \in Bodies(a) :
        Saves(a, new, status, body)
  BY PublishSaves
<1> DEFINE seats == body.seats
           atcs == body.atcs
           taken == body.taken
<1>1. /\ facilities' \in [Facility -> Row \cup {None}]
      /\ created \in Nat /\ created' \in 0..MaxFacility /\ created <= created'
      /\ \A f \in Facility :
           /\ facilities[f] # None => f <= created /\ facilities'[f] # None
           /\ f \in FacilitiesOf(a) => facilities'[f].activity = a
           /\ facilities[f] # None /\ f \notin DOMAIN seats => facilities'[f] = facilities[f]
           /\ facilities'[f] # None =>
                \/ facilities[f] # None /\ facilities'[f].activity = facilities[f].activity
                \/ f \in named' /\ f <= created'
                \/ f > created /\ f <= created' /\ facilities'[f].activity = a
  BY <1>0, PublishFacts
<1>2. /\ seats \in Seats
      /\ atcs \in SUBSET SignUps /\ \A s \in atcs : s.activity = a
      /\ taken \in SUBSET controllers
      /\ body.flights \in SUBSET Flights /\ body.boarded \in SUBSET pilots
  BY BodyFacts
<1>3. /\ activities' = [activities EXCEPT ![a] = [state |-> "live", status |-> status]]
      /\ controllers' = Upserted(controllers, taken, atcs, a)
      /\ pilots' = Upserted(pilots, body.boarded, body.flights, a)
      /\ db = "server" => \A s \in atcs : facilities'[s.facility] # None
      /\ named' = named \cup ((DOMAIN seats \cup {s.facility : s \in taken \cup atcs})
                                \ FacilitiesOf(a))
      /\ UNCHANGED <<db, call>>
  BY <1>0 DEF Saves, ReferenceHolds
<1>4. /\ TypeOK /\ OwnerInv /\ controllers \in SUBSET SignUps /\ pilots \in SUBSET Flights
      /\ named \subseteq Facility
  BY DEF ActivitiesInv, TypeOK
<1> HIDE DEF seats, atcs, taken
<1>5. /\ controllers' \in SUBSET SignUps
      /\ \A t \in controllers' :
           \/ t \in controllers \/ t \in atcs
           \/ t.activity = a /\ \E s \in taken : t.facility = s.facility
  BY <1>2, <1>3, <1>4, UpsertFacts
<1>6. pilots' \in SUBSET Flights
  BY <1>2, <1>3, <1>4, UpsertFlights
<1>7. named \subseteq named' /\ named' \subseteq Facility
  <2>1. \A s \in taken \cup atcs : s.facility \in Facility
    BY <1>2, <1>4 DEF SignUps
  <2>2. DOMAIN seats \subseteq Facility
    <3>1. DOMAIN seats \subseteq 1..created /\ created <= MaxFacility
      BY <1>2, <1>4, SeatsFacts, ActivityAssumption DEF TypeOK
    <3> QED BY <1>1, <3>1, ActivityAssumption DEF Facility
  <2> QED BY <1>3, <1>4, <2>1, <2>2
<1>8. TypeOK'
  <2>1. activities' \in [Activity -> [state : {"none", "live", "deleted"},
                                      status : Statuses \cup {0}]]
    BY <1>3, <1>4 DEF TypeOK
  <2>2. call' \in [Request -> Calls']
    <3>1. Calls \subseteq Calls'
      BY <1>1, CallsGrow, ActivityAssumption
    <3> QED BY <1>3, <1>4, <3>1 DEF TypeOK
  <2> QED BY <1>1, <1>3, <1>4, <1>5, <1>6, <1>7, <2>1, <2>2 DEF TypeOK, Row
<1>9. SignUpCanBeCancelled'
  <2> SUFFICES ASSUME db = "server", NEW t \in controllers'
               PROVE  /\ facilities'[t.facility] # None
                      /\ t.facility \notin named' => facilities'[t.facility].activity = t.activity
    BY <1>3 DEF SignUpCanBeCancelled
  <2>0. t.facility \in Facility
    BY <1>5 DEF SignUps
  <2>1. CASE t \in controllers
    <3>1. /\ facilities[t.facility] # None
          /\ t.facility \notin named => facilities[t.facility].activity = t.activity
      BY <2>1 DEF ActivitiesInv, SignUpCanBeCancelled
    <3>2. facilities'[t.facility] # None
      BY <1>1, <2>0, <3>1
    <3>3. ASSUME t.facility \notin named'
          PROVE  facilities'[t.facility].activity = t.activity
      <4>1. t.facility \notin named /\ (t.facility \in DOMAIN seats => t.facility \in FacilitiesOf(a))
        BY <1>3, <3>3
      <4>2. CASE t.facility \in DOMAIN seats
        <5>1. facilities'[t.facility].activity = a /\ facilities[t.facility].activity = a
          BY <1>1, <2>0, <4>1, <4>2 DEF FacilitiesOf
        <5> QED BY <3>1, <4>1, <5>1
      <4>3. CASE t.facility \notin DOMAIN seats
        <5>1. facilities'[t.facility] = facilities[t.facility]
          BY <1>1, <2>0, <3>1, <4>3
        <5> QED BY <3>1, <4>1, <5>1
      <4> QED BY <4>2, <4>3
    <3> QED BY <3>2, <3>3
  <2>2. CASE t \in atcs
    <3>1. facilities'[t.facility] # None /\ t.activity = a
      BY <1>2, <1>3, <2>2
    <3>2. t.facility \notin named' => t.facility \in FacilitiesOf(a)
      BY <1>3, <2>2
    <3> QED BY <1>1, <2>0, <3>1, <3>2
  <2>3. CASE t.activity = a /\ \E s \in taken : t.facility = s.facility
    <3>1. PICK s \in taken : t.facility = s.facility
      BY <2>3
    <3>2. facilities[t.facility] # None
      BY <1>2, <1>3, <3>1 DEF ActivitiesInv, SignUpCanBeCancelled
    <3>3. t.facility \notin named' => t.facility \in FacilitiesOf(a)
      BY <1>3, <3>1
    <3> QED BY <1>1, <2>0, <2>3, <3>2, <3>3
  <2> QED BY <1>5, <2>1, <2>2, <2>3
<1>10. ASSUME NEW f \in Facility, NEW b \in Activity, RowKnows(f, b)'
       PROVE  \/ Known(f, b)
              \/ f \in named' /\ f <= created'
              \/ f > created /\ f <= created' /\ b = a
  BY <1>1, <1>10 DEF RowKnows, Known
<1> QED BY <1>1, <1>3, <1>7, <1>8, <1>9, <1>10, WriteStep

\* A step that changes neither facilities nor requests.
LEMMA SmallStep ==
  ASSUME ActivitiesInv, UNCHANGED <<db, facilities, created, named>>,
         activities' \in [Activity -> [state : {"none", "live", "deleted"},
                                       status : Statuses \cup {0}]],
         controllers' \subseteq SignUps, pilots' \subseteq Flights,
         SignUpCanBeCancelled',
         NEW r, call' = call \/ (r \in Request /\ Answer(r))
  PROVE  ActivitiesInv'
<1>1. TypeOK /\ created \in Nat
  BY ActivityAssumption DEF ActivitiesInv, TypeOK
<1>2. /\ call' \in [Request -> Calls]
      /\ \A q \in Request : call'[q] = call[q] \/ call'[q] = Idle
  <2>1. Idle \in Calls
    BY DEF Calls
  <2> QED BY <1>1, <2>1 DEF TypeOK, Answer, Continue
<1>3. TypeOK'
  <2>1. Calls \subseteq Calls'
    BY <1>1, CallsGrow
  <2>2. call' \in [Request -> Calls']
    BY <1>2, <2>1
  <2> QED BY <1>1, <2>2 DEF TypeOK
<1>4. \A f \in Facility, a \in Activity : RowKnows(f, a)' => Known(f, a)
  BY DEF RowKnows, Known
<1> QED BY <1>1, <1>2, <1>3, <1>4, WriteStep

\* An activity is deleted, or its status changes.
LEMMA ActivityStep ==
  ASSUME ActivitiesInv, NEW c \in Cid, NEW a \in Activity,
         \/ DeleteActivity(DeleteRequest(c, a))
         \/ \E status \in Statuses : EditActivityStatus(StatusRequest(c, a, status))
  PROVE  ActivitiesInv'
<1>0. /\ TypeOK /\ UNCHANGED <<db, facilities, created, controllers, pilots, call, named>>
      /\ \/ activities' = [activities EXCEPT ![a].state = "deleted"]
         \/ \E status \in Statuses :
              activities' = [activities EXCEPT ![a].status =
                               IF GetActivityById(a) THEN status ELSE @]
  BY DEF ActivitiesInv, DeleteActivity, DeleteRequest, SoftDelete, EditActivityStatus,
         StatusRequest, SetActivityStatus
<1>1. activities' \in [Activity -> [state : {"none", "live", "deleted"},
                                    status : Statuses \cup {0}]]
  BY <1>0 DEF TypeOK
<1>2. SignUpCanBeCancelled'
  BY <1>0, FacilitiesStay
<1> QED BY <1>0, <1>1, <1>2, SmallStep DEF TypeOK

\* A controller's sign-up is inserted or deleted.
LEMMA SignStep ==
  ASSUME ActivitiesInv, NEW r \in Request,
         SignFacilityController(r) \/ UnsignFacilityController(r)
  PROVE  ActivitiesInv'
<1>0. /\ TypeOK /\ UNCHANGED <<db, activities, facilities, created, pilots, named>>
      /\ Answer(r)
  BY DEF ActivitiesInv, SignFacilityController, UnsignFacilityController
<1>1. CASE SignFacilityController(r)
  <2> DEFINE s == NewActivityAtc(call[r])
  <2>1. /\ call[r].op \in {"sign", "signBlind"} /\ controllers' = controllers \cup {s}
        /\ db = "server" => facilities[call[r].facility] # None
    BY <1>1 DEF SignFacilityController, ReferenceHolds, GetFacilityById
  <2>2. call[r] \in SignCall
    BY <1>0, <2>1, Locals
  <2>3. s \in SignUps /\ s.activity = call[r].activity /\ s.facility = call[r].facility
    BY <2>2 DEF SignCall, SignUps, NewActivityAtc
  <2> HIDE DEF s
  <2>4. ASSUME db = "server"
        PROVE  /\ facilities[s.facility] # None
               /\ s.facility \notin named => facilities[s.facility].activity = s.activity
    <3> DEFINE f == call[r].facility
               a == call[r].activity
    <3>1. /\ f \in Facility /\ a \in Activity /\ facilities[f] # None
          /\ facilities[f].activity \in Activity
      BY <1>0, <2>1, <2>2, <2>4 DEF SignCall, TypeOK
    <3>2. Known(f, a) /\ Known(f, facilities[f].activity)
      BY <2>1, <3>1 DEF Known, CallKnows, RowKnows
    <3>3. f \notin named => facilities[f].activity = a
      BY <3>1, <3>2 DEF ActivitiesInv, OwnerInv
    <3> QED BY <2>3, <3>1, <3>3
  <2>5. SignUpCanBeCancelled'
    BY <1>0, <2>1, <2>4 DEF ActivitiesInv, SignUpCanBeCancelled
  <2> QED BY <1>0, <2>1, <2>3, <2>5, SmallStep DEF TypeOK
<1>2. CASE UnsignFacilityController(r)
  <2>1. controllers' \subseteq controllers
    BY <1>2 DEF UnsignFacilityController
  <2>2. SignUpCanBeCancelled'
    BY <1>0, <2>1, FacilitiesStay
  <2> QED BY <1>0, <2>1, <2>2, SmallStep DEF TypeOK
<1> QED BY <1>1, <1>2

\* What a request does to the pilots' sign-ups.
LEMMA FlightStep ==
  ASSUME ActivitiesInv, UNCHANGED <<db, activities, facilities, created, controllers, named>>,
         pilots' \subseteq Flights, NEW r, call' = call \/ (r \in Request /\ Answer(r))
  PROVE  ActivitiesInv'
<1>1. SignUpCanBeCancelled'
  BY FacilitiesStay
<1> QED BY <1>1, SmallStep DEF ActivitiesInv, TypeOK

\* A pilot's sign-up is cancelled, or its status changes.
LEMMA PilotWriteStep ==
  ASSUME ActivitiesInv, NEW c \in Cid, NEW a \in Activity,
         \/ PilotLeave(PilotLeaveRequest(c, a))
         \/ \E status \in PilotStatuses : EditPilotStatus(PilotStatusRequest(c, a, status))
  PROVE  ActivitiesInv'
<1>0. pilots \subseteq Flights
  BY DEF ActivitiesInv, TypeOK
<1>1. CASE PilotLeave(PilotLeaveRequest(c, a))
  <2>1. /\ UNCHANGED <<db, activities, facilities, created, controllers, call, named>>
        /\ pilots' \subseteq pilots
    BY <1>1 DEF PilotLeave, UnsignActivityPilot
  <2> QED BY <1>0, <2>1, FlightStep
<1>2. ASSUME NEW status \in PilotStatuses, EditPilotStatus(PilotStatusRequest(c, a, status))
      PROVE  ActivitiesInv'
  <2>1. /\ UNCHANGED <<db, activities, facilities, created, controllers, call, named>>
        /\ \E p \in pilots : pilots' = (pilots \ {p}) \cup {[p EXCEPT !.status = status]}
    BY <1>2 DEF EditPilotStatus, PilotStatusRequest, SetActivityPilotStatus,
                GetActivityPilotById
  <2>2. \A p \in Flights : [p EXCEPT !.status = status] \in Flights
    BY <2>1 DEF Flights
  <2> QED BY <1>0, <2>1, <2>2, FlightStep
<1> QED BY <1>1, <1>2

\* A pilot signs up.
LEMMA SignPilotStep ==
  ASSUME ActivitiesInv, NEW r \in Request, SignActivityPilot(r)
  PROVE  ActivitiesInv'
<1>1. /\ TypeOK /\ call[r].op \in {"signPilot", "signPilotBlind"} /\ Answer(r)
      /\ pilots' = pilots \cup {NewActivityPilot(call[r])}
      /\ UNCHANGED <<db, activities, facilities, created, controllers, named>>
  BY DEF ActivitiesInv, SignActivityPilot
<1>2. call[r] \in PilotCall
  BY <1>1, Locals
<1>3. NewActivityPilot(call[r]) \in Flights
  BY <1>2 DEF PilotCall, NewActivityPilot, Flights
<1> QED BY <1>1, <1>3, FlightStep DEF TypeOK

-----------------------------------------------------------------------------
(* An edit. *)

\* The facilities after the updates and deletes of an edit.
Kept(req) ==
  [f \in Facility |->
     IF f \in req.gone THEN None
     ELSE IF f \in DOMAIN req.ratings
     THEN [SavedFacility(f, req.activity, req.old) EXCEPT !.minRating = req.ratings[f]]
     ELSE SavedFacility(f, req.activity, req.old)]

\* An edit keeps the facilities that exist and puts back those it has read,
\* those it deletes apart.
LEMMA KeptFacts ==
  ASSUME ActivitiesInv, NEW r \in Request, call[r].op = "update"
  PROVE  /\ Kept(call[r]) \in [Facility -> Row \cup {None}]
         /\ \A f \in Facility :
              /\ f \in call[r].gone => Kept(call[r])[f] = None
              /\ f \notin call[r].gone /\ f \in DOMAIN call[r].old =>
                   /\ Kept(call[r])[f] # None
                   /\ Kept(call[r])[f].activity = call[r].activity
              /\ f \notin call[r].gone /\ f \notin DOMAIN call[r].old =>
                   Kept(call[r])[f] = facilities[f]
<1> DEFINE req == call[r]
           saved(f) == SavedFacility(f, req.activity, req.old)
<1>0. /\ req.activity \in Activity /\ req.old \in Seats
      /\ req.ratings \in [DOMAIN req.ratings -> MinRatings]
      /\ DOMAIN req.ratings \subseteq DOMAIN req.old
  <2>1. TypeOK /\ req \in UpdateCall
    BY Locals DEF ActivitiesInv
  <2>2. req.activity \in Activity /\ req.old \in Seats /\ req.ratings \in Seats
    BY <2>1 DEF UpdateCall
  <2>3. DOMAIN req.ratings \subseteq DOMAIN req.old
    BY DEF ActivitiesInv, EditInv, EditOK
  <2> QED BY <2>2, <2>3, SeatsFacts
<1>1. ASSUME NEW f \in Facility
      PROVE  /\ saved(f) \in Row \cup {None} /\ None \notin Row
             /\ f \in DOMAIN req.old => saved(f) # None /\ saved(f).activity = req.activity
             /\ f \notin DOMAIN req.old => saved(f) = facilities[f]
  BY <1>0, SavedFacts
<1>2. ASSUME NEW row \in Row, NEW n \in MinRatings
      PROVE  /\ [row EXCEPT !.minRating = n] \in Row
             /\ [row EXCEPT !.minRating = n].activity = row.activity
  BY DEF Row
<1>3. ASSUME NEW f \in Facility
      PROVE  Kept(req)[f] = IF f \in req.gone THEN None
                            ELSE IF f \in DOMAIN req.ratings
                            THEN [saved(f) EXCEPT !.minRating = req.ratings[f]]
                            ELSE saved(f)
  BY DEF Kept
<1> HIDE DEF saved, req
<1>4. ASSUME NEW f \in Facility
      PROVE  /\ Kept(req)[f] \in Row \cup {None}
             /\ f \in req.gone => Kept(req)[f] = None
             /\ f \notin req.gone /\ f \in DOMAIN req.old =>
                  Kept(req)[f] # None /\ Kept(req)[f].activity = req.activity
             /\ f \notin req.gone /\ f \notin DOMAIN req.old => Kept(req)[f] = facilities[f]
  <2>1. CASE f \in req.gone
    BY <1>3, <2>1
  <2>2. CASE f \notin req.gone /\ f \in DOMAIN req.ratings
    <3>1. saved(f) \in Row /\ f \in DOMAIN req.old /\ saved(f).activity = req.activity
      BY <1>0, <1>1, <2>2
    <3>2. /\ Kept(req)[f] = [saved(f) EXCEPT !.minRating = req.ratings[f]]
          /\ req.ratings[f] \in MinRatings
      BY <1>0, <1>3, <2>2
    <3>3. Kept(req)[f] \in Row /\ Kept(req)[f].activity = req.activity
      BY <1>2, <3>1, <3>2
    <3> QED BY <1>1, <2>2, <3>1, <3>3
  <2>3. CASE f \notin req.gone /\ f \notin DOMAIN req.ratings
    <3>1. Kept(req)[f] = saved(f)
      BY <1>3, <2>3
    <3> QED BY <1>1, <2>3, <3>1
  <2> QED BY <2>1, <2>2, <2>3
<1>5. Kept(req) \in [Facility -> Row \cup {None}]
  BY <1>4 DEF Kept
<1> QED BY <1>4, <1>5 DEF req

\* The facilities once an edit is stored.
LEMMA UpdateFacts ==
  ASSUME ActivitiesInv, NEW r \in Request, UpdateActivityInfo(r)
  PROVE  /\ call[r].op = "update" /\ call[r] \in UpdateCall /\ EditOK(call[r])
         /\ call' = [call EXCEPT ![r] = Idle] /\ call'[r] = Idle
         /\ facilities' \in [Facility -> Row \cup {None}]
         /\ created \in Nat /\ created' \in 0..MaxFacility /\ created <= created'
         /\ \A f \in Facility :
              /\ facilities[f] # None \/ f \in DOMAIN call[r].old => f <= created
              /\ f <= created => facilities'[f] = Kept(call[r])[f]
              /\ facilities'[f] = Kept(call[r])[f] \/
                   (/\ f > created /\ f <= created'
                    /\ facilities'[f] # None /\ facilities'[f].activity = call[r].activity)
<1> DEFINE req == call[r]
<1>0. TypeOK /\ created \in Nat /\ req.op = "update"
  BY ActivityAssumption DEF ActivitiesInv, TypeOK, UpdateActivityInfo
<1>1. /\ req \in UpdateCall /\ EditOK(req) /\ req.activity \in Activity
      /\ req.new \in Seq(MinRatings) /\ req.old \in Seats
  <2>1. req \in UpdateCall
    BY <1>0, Locals
  <2> QED BY <1>0, <2>1, ActivityAssumption DEF UpdateCall, ActivitiesInv, EditInv
<1>2. Kept(req) \in [Facility -> Row \cup {None}]
  BY <1>0, KeptFacts
<1>3. /\ created + Len(req.new) <= MaxFacility /\ created' = created + Len(req.new)
      /\ facilities' = NewActivityFacility(req.activity, req.new, Kept(req))
      /\ call' = [call EXCEPT ![r] = Idle]
  BY DEF UpdateActivityInfo, Kept, Answer, Continue
<1>4. call'[r] = Idle
  BY <1>0, <1>3 DEF TypeOK
<1>5. \A f \in Facility : facilities[f] # None \/ f \in DOMAIN req.old => f <= created
  <2>1. \A f \in Facility : facilities[f] # None => f <= created
    BY <1>0 DEF TypeOK, ActivitiesInv, OwnerInv, Known, RowKnows
  <2>2. \A f \in Facility : f \in DOMAIN req.old => f <= created
    BY <1>0, <1>1 DEF ActivitiesInv, OwnerInv, Known, CallKnows
  <2> QED BY <2>1, <2>2
<1> HIDE DEF req
<1>6. /\ facilities' \in [Facility -> Row \cup {None}] /\ created' \in Nat /\ created <= created'
      /\ \A f \in Facility :
           /\ f <= created => facilities'[f] = Kept(req)[f]
           /\ facilities'[f] = Kept(req)[f] \/
                (/\ f > created /\ f <= created'
                 /\ facilities'[f] # None /\ facilities'[f].activity = req.activity)
  BY <1>0, <1>1, <1>2, <1>3, NewFacilities
<1>7. created' \in 0..MaxFacility
  BY <1>3, <1>6, ActivityAssumption
<1> QED BY <1>0, <1>1, <1>3, <1>4, <1>5, <1>6, <1>7 DEF req

\* The sign-ups once an edit is stored: those that were there, those it loaded,
\* and those it moved back, which are like some it loaded.
LEMMA UpdatedSignUps ==
  ASSUME ActivitiesInv, NEW r \in Request, UpdateActivityInfo(r)
  PROVE  /\ controllers' \in SUBSET SignUps /\ pilots' \in SUBSET Flights
         /\ \A t \in controllers' :
              /\ \/ t \in controllers \/ t \in call[r].atcs
                 \/ t.activity = call[r].activity /\
                      \E s \in call[r].atcs : t.facility = s.facility
              /\ db = "server" =>
                   /\ t.facility \notin call[r].gone
                   /\ SavedFacility(t.facility, call[r].activity, call[r].old) # None
         /\ \A s \in controllers :
              \/ \E t \in controllers' : t.facility = s.facility /\ t.cid = s.cid
              \/ s.facility \in call[r].gone
<1> DEFINE req == call[r]
           a == req.activity
<1>0. /\ a \in Activity /\ req.atcs \in SUBSET SignUps /\ req.flights \in SUBSET Flights
      /\ controllers \in SUBSET SignUps /\ pilots \in SUBSET Flights
  <2>1. req \in UpdateCall
    BY UpdateFacts
  <2> QED BY <2>1 DEF UpdateCall, ActivitiesInv, TypeOK
<1>1. PICK back \in SUBSET Elsewhere(controllers, req.atcs, a, "facility") :
        LET rows == PutBack(controllers, req.atcs, back, a, "facility") IN
        /\ ReferenceHolds(\A s \in rows : SavedFacility(s.facility, a, req.old) # None)
        /\ controllers' = Cascade(rows, req.gone)
  BY DEF UpdateActivityInfo
<1>2. PICK off \in SUBSET Elsewhere(pilots, req.flights, a, "callsign") :
        pilots' = PutBack(pilots, req.flights, off, a, "cid")
  BY DEF UpdateActivityInfo
<1> DEFINE new == {s \in req.atcs :
                     Admitted(Upserted(controllers, back, {}, a), {s}, a, "facility")}
           flown == {p \in req.flights :
                       Admitted(Upserted(pilots, off, {}, a), {p}, a, "cid")}
           rows == Upserted(controllers, back, new, a)
<1>3. /\ controllers' = {s \in rows : db = "server" => s.facility \notin req.gone}
      /\ db = "server" => \A s \in rows : SavedFacility(s.facility, a, req.old) # None
  BY <1>1 DEF PutBack, Cascade, ReferenceHolds
<1>4. pilots' = Upserted(pilots, off, flown, a)
  BY <1>2 DEF PutBack
<1>5. /\ new \in SUBSET SignUps /\ new \subseteq req.atcs /\ flown \in SUBSET Flights
      /\ off \in SUBSET pilots /\ back \in SUBSET controllers
      /\ \A t \in back : \E s \in req.atcs : s["facility"] = t["facility"]
  BY <1>0, <1>1, <1>2 DEF Elsewhere
<1>6. \A t \in back : \E s \in req.atcs : s.facility = t.facility
  BY <1>5
<1> HIDE DEF new, flown, rows, req
<1>7. pilots' \in SUBSET Flights
  BY <1>0, <1>4, <1>5, UpsertFlights
<1>8. /\ rows \in SUBSET SignUps
      /\ \A t \in rows :
           \/ t \in controllers \/ t \in new
           \/ t.activity = a /\ \E s \in back : t.facility = s.facility
      /\ \A s \in controllers : \E t \in rows : t.facility = s.facility /\ t.cid = s.cid
  BY <1>0, <1>5, UpsertFacts DEF rows
<1>9. ASSUME NEW t \in rows
      PROVE  \/ t \in controllers \/ t \in req.atcs
             \/ t.activity = a /\ \E s \in req.atcs : t.facility = s.facility
  BY <1>5, <1>6, <1>8
<1>10. ASSUME NEW s \in controllers
       PROVE  \/ \E t \in controllers' : t.facility = s.facility /\ t.cid = s.cid
              \/ s.facility \in req.gone
  BY <1>3, <1>8
<1>11. \A t \in controllers' : t \in rows /\ (db = "server" => t.facility \notin req.gone)
  BY <1>3
<1>12. controllers' \in SUBSET SignUps
  BY <1>8, <1>11
<1> QED BY <1>3, <1>7, <1>9, <1>10, <1>11, <1>12 DEF req

\* A sign-up that an edit keeps or puts back has its facility.
LEMMA UpdateKeepsReferences ==
  ASSUME ActivitiesInv, NEW r \in Request, UpdateActivityInfo(r), db = "server",
         NEW s \in controllers'
  PROVE  /\ facilities'[s.facility] # None
         /\ s.facility \notin named => facilities'[s.facility].activity = s.activity
<1> DEFINE req == call[r]
           f == s.facility
<1>0. /\ req.op = "update" /\ EditOK(req) /\ req.activity \in Activity
      /\ facilities[f] # None \/ f \in DOMAIN req.old => f <= created
      /\ f <= created => facilities'[f] = Kept(req)[f]
      /\ f \in Facility /\ f \notin req.gone
      /\ SavedFacility(f, req.activity, req.old) # None
      /\ \/ s \in controllers \/ s \in req.atcs
         \/ s.activity = req.activity /\ \E t \in req.atcs : f = t.facility
  <2>1. s \in SignUps
    BY UpdatedSignUps
  <2>2. f \in Facility
    BY <2>1 DEF SignUps
  <2>3. req.op = "update" /\ EditOK(req) /\ req \in UpdateCall
    BY UpdateFacts
  <2>4. req.activity \in Activity
    BY <2>3 DEF UpdateCall
  <2> QED BY <2>2, <2>3, <2>4, UpdateFacts, UpdatedSignUps
<1> HIDE DEF req, f
<1>1. facilities[f] # None \/ f \in DOMAIN req.old
  BY <1>0 DEF SavedFacility
<1>2. /\ f \in DOMAIN req.old =>
           facilities'[f] # None /\ facilities'[f].activity = req.activity
      /\ f \notin DOMAIN req.old => facilities'[f] = facilities[f]
  BY <1>0, <1>1, KeptFacts DEF req
<1>3. ASSUME f \notin named
      PROVE  facilities'[f].activity = s.activity
  <2>1. CASE s \in controllers
    <3>1. facilities[f] # None /\ facilities[f].activity = s.activity
      BY <1>3, <2>1 DEF ActivitiesInv, SignUpCanBeCancelled, f
    <3>2. CASE f \in DOMAIN req.old
      <4>1. facilities[f].activity \in Activity
        BY <1>0, <3>1 DEF ActivitiesInv, TypeOK
      <4>2. Known(f, req.activity) /\ Known(f, facilities[f].activity)
        BY <1>0, <3>1, <3>2 DEF Known, CallKnows, RowKnows, req
      <4>3. req.activity = facilities[f].activity
        BY <1>0, <1>3, <4>1, <4>2 DEF ActivitiesInv, OwnerInv
      <4> QED BY <1>2, <3>1, <3>2, <4>3
    <3> QED BY <1>2, <3>1, <3>2
  <2>2. ASSUME NEW t \in req.atcs, f = t.facility, s.activity = req.activity
        PROVE  facilities'[f].activity = s.activity
    <3>1. f \in DOMAIN req.old
      BY <1>0, <1>3, <2>2 DEF EditOK
    <3> QED BY <1>2, <2>2, <3>1
  <2>3. CASE s \in req.atcs
    <3>1. s.activity = req.activity /\ f = s.facility
      BY <1>0, <2>3 DEF EditOK, f
    <3> QED BY <2>2, <2>3, <3>1
  <2> QED BY <1>0, <2>1, <2>2, <2>3
<1> QED BY <1>1, <1>2, <1>3 DEF f

\* An edit is stored.
LEMMA UpdateStep ==
  ASSUME ActivitiesInv, NEW r \in Request, UpdateActivityInfo(r)
  PROVE  ActivitiesInv'
<1> DEFINE req == call[r]
<1>0. /\ TypeOK /\ req.op = "update" /\ req \in UpdateCall
      /\ call' = [call EXCEPT ![r] = Idle]
      /\ facilities' \in [Facility -> Row \cup {None}]
      /\ created \in Nat /\ created' \in 0..MaxFacility /\ created <= created'
      /\ \A f \in Facility :
           facilities'[f] = Kept(req)[f] \/
             (/\ f > created /\ f <= created'
              /\ facilities'[f] # None /\ facilities'[f].activity = req.activity)
      /\ UNCHANGED <<db, named>>
  BY UpdateFacts DEF ActivitiesInv, UpdateActivityInfo
<1>1. /\ req.activity \in Activity /\ req.status \in Statuses \cup {None}
      /\ req.atcs \subseteq SignUps /\ req.flights \subseteq Flights
  BY <1>0 DEF UpdateCall
<1>2. activities' \in [Activity -> [state : {"none", "live", "deleted"},
                                    status : Statuses \cup {0}]]
  <2>1. UpdatedActivity(req) \in [state : {"none", "live", "deleted"},
                                  status : Statuses \cup {0}]
    BY <1>0, <1>1 DEF UpdatedActivity, TypeOK
  <2>2. activities' = [activities EXCEPT ![req.activity] = UpdatedActivity(req)]
    BY DEF UpdateActivityInfo
  <2> QED BY <1>0, <1>1, <2>1, <2>2 DEF TypeOK
<1>3. controllers' \subseteq SignUps /\ pilots' \subseteq Flights
  BY UpdatedSignUps
<1>4. /\ call' \in [Request -> Calls']
      /\ \A q \in Request : call'[q] = call[q] \/ call'[q] = Idle
  <2>1. Calls \subseteq Calls' /\ Idle \in Calls
    BY <1>0, CallsGrow, ActivityAssumption DEF Calls
  <2> QED BY <1>0, <2>1 DEF TypeOK
<1>5. TypeOK'
  BY <1>0, <1>2, <1>3, <1>4 DEF TypeOK, Row
<1>6. SignUpCanBeCancelled'
  BY <1>0, UpdateKeepsReferences DEF SignUpCanBeCancelled
<1>7. ASSUME NEW f \in Facility, NEW a \in Activity, RowKnows(f, a)'
      PROVE  Known(f, a) \/ (f > created /\ f <= created' /\ a = req.activity)
  <2>1. facilities'[f] # None /\ facilities'[f].activity = a
    BY <1>7 DEF RowKnows
  <2>2. CASE facilities'[f] = Kept(req)[f]
    <3>1. /\ f \notin req.gone
          /\ f \in DOMAIN req.old => Kept(req)[f].activity = req.activity
          /\ f \notin DOMAIN req.old => Kept(req)[f] = facilities[f]
      BY <1>0, <2>1, <2>2, KeptFacts
    <3>2. CASE f \in DOMAIN req.old
      BY <1>0, <2>1, <2>2, <3>1, <3>2 DEF Known, CallKnows
    <3>3. CASE f \notin DOMAIN req.old
      BY <2>1, <2>2, <3>1, <3>3 DEF Known, RowKnows
    <3> QED BY <3>2, <3>3
  <2> QED BY <1>0, <2>1, <2>2
<1> QED BY <1>0, <1>4, <1>5, <1>6, <1>7, WriteStep

-----------------------------------------------------------------------------
(* The invariant, and what follows from it. *)

\* Nothing has been created yet.
LEMMA ActivitiesInit ==
  ASSUME Init
  PROVE  ActivitiesInv
<1>1. TypeOK
  <2>1. Idle \in Calls
    BY DEF Calls
  <2> QED BY <2>1, ActivityAssumption DEF Init, TypeOK
<1>2. \A f \in Facility, a \in Activity : ~Known(f, a)
  <2>1. Idle.op = "none"
    BY DEF Idle
  <2> QED BY <2>1 DEF Init, Known, RowKnows, CallKnows
<1>3. EditInv
  BY DEF Init, EditInv, Idle
<1> QED BY <1>1, <1>2, <1>3 DEF ActivitiesInv, OwnerInv, SignUpCanBeCancelled, Init

\* Every step of the handlers preserves the invariant.
LEMMA ActivitiesStep ==
  ASSUME ActivitiesInv, [Next]_vars
  PROVE  ActivitiesInv'
<1>1. ASSUME NEW c \in Cid, NEW a \in Activity,
             \/ Publish(c, a)
             \/ DeleteActivity(DeleteRequest(c, a))
             \/ \E status \in Statuses : EditActivityStatus(StatusRequest(c, a, status))
             \/ PilotLeave(PilotLeaveRequest(c, a))
             \/ \E status \in PilotStatuses :
                  EditPilotStatus(PilotStatusRequest(c, a, status))
      PROVE  ActivitiesInv'
  BY <1>1, AddStep, ActivityStep, PilotWriteStep
<1>2. ASSUME NEW r \in Request, NEW c \in Cid,
             \/ \E a \in Activity, seats \in Seats, new \in NewSeats, status \in Statuses :
                  EditActivity(r, EditRequest(c, a, seats, new, status))
             \/ \E f \in Facility : ControllerJoin(r, JoinRequest(c, f))
             \/ \E f \in Facility : ControllerLeave(r, LeaveRequest(c, f))
             \/ \E a \in Activity, k \in Callsign :
                  PilotJoin(r, PilotJoinRequest(c, a, k))
      PROVE  ActivitiesInv'
  BY <1>2, EditStep, ControllerStep, PilotStep
<1>3. ASSUME NEW r \in Request,
             \/ UpdateActivityInfo(r) \/ UpdateFails(r)
             \/ SignFacilityController(r) \/ SignFails(r)
             \/ UnsignFacilityController(r) \/ SignActivityPilot(r)
      PROVE  ActivitiesInv'
  BY <1>3, UpdateStep, FailsStep, SignStep, SignPilotStep
<1>4. CASE UNCHANGED vars
  <2>1. /\ UNCHANGED <<db, activities, facilities, created, controllers, call, named>>
        /\ pilots' \subseteq Flights
    BY <1>4 DEF vars, ActivitiesInv, TypeOK
  <2> QED BY <2>1, FlightStep
<1> QED BY <1>1, <1>2, <1>3, <1>4 DEF Next

\* Whoever knows which activity a facility belongs to knows the same one,
\* unless a publish request of another activity named the facility, for any
\* number of activities, facilities and requests.
THEOREM ActivitiesInvariant == Spec => []ActivitiesInv
<1>1. Init => ActivitiesInv
  BY ActivitiesInit
<1>2. ActivitiesInv /\ [Next]_vars => ActivitiesInv'
  BY ActivitiesStep
<1> QED BY <1>1, <1>2, PTL DEF Spec

\* The rows have their columns and a request holds the locals of its step.
THEOREM ActivitiesTyped == Spec => []TypeOK
<1>1. ActivitiesInv => TypeOK
  BY DEF ActivitiesInv
<1> QED BY <1>1, ActivitiesInvariant, PTL

\* On a server every sign-up refers to a facility that exists and, unless the
\* publish of another activity named it, belongs to the sign-up's activity,
\* however edits, publishes and sign-ups interleave (SignFacilityController,
\* UpdateActivityInfo, SaveActivity).
THEOREM SignUpsKeepFacilities == Spec => []SignUpCanBeCancelled
<1>1. ActivitiesInv => SignUpCanBeCancelled
  BY DEF ActivitiesInv
<1> QED BY <1>1, ActivitiesInvariant, PTL

-----------------------------------------------------------------------------
(* What a step may not do. *)

\* Which steps write to which table.
LEMMA WhoWrites ==
  ASSUME [Next]_vars
  PROVE  /\ facilities' = facilities
            \/ (\E r \in Request : UpdateActivityInfo(r))
            \/ (\E c \in Cid, a \in Activity : Publish(c, a))
         /\ controllers' = controllers
            \/ (\E r \in Request : \/ UpdateActivityInfo(r)
                                   \/ SignFacilityController(r)
                                   \/ UnsignFacilityController(r))
            \/ (\E c \in Cid, a \in Activity : Publish(c, a))
         /\ pilots' = pilots
            \/ (\E r \in Request : UpdateActivityInfo(r) \/ SignActivityPilot(r))
            \/ (\E c \in Cid, a \in Activity :
                  \/ Publish(c, a)
                  \/ PilotLeave(PilotLeaveRequest(c, a))
                  \/ \E status \in PilotStatuses :
                       EditPilotStatus(PilotStatusRequest(c, a, status)))
<1>1. ASSUME NEW c \in Cid, NEW a \in Activity,
             \/ DeleteActivity(DeleteRequest(c, a))
             \/ \E status \in Statuses : EditActivityStatus(StatusRequest(c, a, status))
      PROVE  UNCHANGED <<facilities, controllers, pilots>>
  BY <1>1 DEF DeleteActivity, EditActivityStatus
<1>2. ASSUME NEW r \in Request, NEW c \in Cid,
             \/ \E a \in Activity, seats \in Seats, new \in NewSeats, status \in Statuses :
                  EditActivity(r, EditRequest(c, a, seats, new, status))
             \/ \E f \in Facility : ControllerJoin(r, JoinRequest(c, f))
             \/ \E f \in Facility : ControllerLeave(r, LeaveRequest(c, f))
             \/ \E a \in Activity, k \in Callsign :
                  PilotJoin(r, PilotJoinRequest(c, a, k))
      PROVE  UNCHANGED <<facilities, controllers, pilots>>
  <2>1. \A req : EditActivity(r, req) => UNCHANGED <<facilities, controllers, pilots>>
    BY DEF EditActivity
  <2>2. \A req : ControllerJoin(r, req) \/ ControllerLeave(r, req) =>
                   UNCHANGED <<facilities, controllers, pilots>>
    BY DEF ControllerJoin, ControllerLeave
  <2>3. \A req : PilotJoin(r, req) => UNCHANGED <<facilities, controllers, pilots>>
    BY DEF PilotJoin
  <2> QED BY <1>2, <2>1, <2>2, <2>3
<1>3. ASSUME NEW r \in Request, UpdateFails(r) \/ SignFails(r)
      PROVE  UNCHANGED <<facilities, controllers, pilots>>
  BY <1>3 DEF UpdateFails, SignFails
<1>4. CASE UNCHANGED vars
  BY <1>4 DEF vars
<1>6. ASSUME NEW c \in Cid, NEW a \in Activity,
             \/ PilotLeave(PilotLeaveRequest(c, a))
             \/ \E status \in PilotStatuses :
                  EditPilotStatus(PilotStatusRequest(c, a, status))
      PROVE  UNCHANGED <<facilities, controllers>>
  BY <1>6 DEF PilotLeave, EditPilotStatus
<1>7. ASSUME NEW r \in Request, SignFacilityController(r) \/ UnsignFacilityController(r)
      PROVE  UNCHANGED <<facilities, pilots>>
  BY <1>7 DEF SignFacilityController, UnsignFacilityController
<1>8. ASSUME NEW r \in Request, SignActivityPilot(r)
      PROVE  UNCHANGED <<facilities, controllers>>
  BY <1>8 DEF SignActivityPilot
<1> QED BY <1>1, <1>2, <1>3, <1>4, <1>6, <1>7, <1>8 DEF Next

\* An edit deletes only facilities its editor has read (UpdateActivityInfo).
THEOREM EditsSpareUnseen == Spec => EditSparesUnseen
<1>1. ASSUME ActivitiesInv, [Next]_vars, NEW f \in Facility,
             facilities[f] # None, facilities'[f] = None
      PROVE  \E r \in Request : Edits(r) /\ f \in DOMAIN call[r].old
  <2>1. ASSUME NEW c \in Cid, NEW a \in Activity, Publish(c, a)
        PROVE  FALSE
    <3>1. PICK new \in FirstSeats, status \in Statuses, body \in Bodies(a) :
            Saves(a, new, status, body)
      BY <2>1, PublishSaves
    <3>2. facilities'[f] # None
      BY <1>1, <3>1, PublishFacts
    <3> QED BY <1>1, <3>2
  <2>2. PICK r \in Request : UpdateActivityInfo(r)
    BY <1>1, <2>1, WhoWrites
  <2>3. /\ call[r].op = "update" /\ call'[r] = Idle /\ EditOK(call[r])
        /\ facilities'[f] = Kept(call[r])[f]
    BY <1>1, <2>2, UpdateFacts
  <2>4. f \in call[r].gone
    BY <1>1, <2>3, KeptFacts
  <2> QED BY <2>3, <2>4 DEF Edits, EditOK
<1>2. ActivitiesInv /\ [Next]_vars =>
        [\A f \in Facility : facilities[f] # None /\ facilities'[f] = None =>
           \E r \in Request : Edits(r) /\ f \in DOMAIN call[r].old]_vars
  BY <1>1
<1> QED BY <1>2, ActivitiesInvariant, PTL DEF Spec, EditSparesUnseen

\* A sign-up goes only when its own account cancels it or its facility is
\* deleted; one that is moved keeps its facility and its account
\* (UnsignFacilityController, UpdateActivityInfo, SaveActivity).
THEOREM OwnersCancel == Spec => OnlyOwnerCancels
<1>1. ASSUME ActivitiesInv, [Next]_vars, NEW s \in controllers \ controllers'
      PROVE  \/ facilities'[s.facility] = None
             \/ \E t \in controllers' : t.facility = s.facility /\ t.cid = s.cid
             \/ \E r \in Request : /\ call[r].op = "unsign" /\ call'[r] = Idle
                                   /\ call[r].cid = s.cid
  <2>0. TypeOK /\ s.facility \in Facility
    BY <1>1 DEF ActivitiesInv, TypeOK, SignUps
  <2>1. ASSUME NEW r \in Request, UpdateActivityInfo(r)
        PROVE  \/ facilities'[s.facility] = None
               \/ \E t \in controllers' : t.facility = s.facility /\ t.cid = s.cid
    <3>1. /\ call[r].op = "update" /\ EditOK(call[r])
          /\ \A f \in Facility :
               /\ f \in DOMAIN call[r].old => f <= created
               /\ f <= created => facilities'[f] = Kept(call[r])[f]
      BY <1>1, <2>1, UpdateFacts
    <3>2. \/ \E t \in controllers' : t.facility = s.facility /\ t.cid = s.cid
          \/ s.facility \in call[r].gone
      BY <1>1, <2>1, UpdatedSignUps
    <3>3. s.facility \in call[r].gone => facilities'[s.facility] = None
      BY <1>1, <2>0, <3>1, KeptFacts DEF EditOK
    <3> QED BY <3>2, <3>3
  <2>4. ASSUME NEW c \in Cid, NEW a \in Activity, Publish(c, a)
        PROVE  \E t \in controllers' : t.facility = s.facility /\ t.cid = s.cid
    <3>1. PICK new \in FirstSeats, status \in Statuses, body \in Bodies(a) :
            Saves(a, new, status, body)
      BY <2>4, PublishSaves
    <3>2. /\ body.atcs \in SUBSET SignUps /\ body.taken \in SUBSET controllers
          /\ controllers' = Upserted(controllers, body.taken, body.atcs, a)
          /\ controllers \in SUBSET SignUps
      BY <1>1, <2>0, <3>1, BodyFacts DEF Saves, TypeOK
    <3> QED BY <3>2, UpsertFacts
  <2>2. ASSUME NEW r \in Request, UnsignFacilityController(r)
        PROVE  call[r].op = "unsign" /\ call'[r] = Idle /\ call[r].cid = s.cid
    <3>1. /\ call[r].op = "unsign" /\ call' = [call EXCEPT ![r] = Idle]
          /\ s = NewActivityAtc(call[r])
      BY <2>2 DEF UnsignFacilityController, Answer, Continue
    <3>2. s.cid = call[r].cid
      BY <3>1 DEF NewActivityAtc
    <3> QED BY <2>0, <3>1, <3>2 DEF TypeOK
  <2>3. \A r \in Request : ~SignFacilityController(r)
    BY DEF SignFacilityController
  <2> QED BY <1>1, <2>1, <2>2, <2>3, <2>4, WhoWrites
<1>2. ActivitiesInv /\ [Next]_vars =>
        [\A s \in controllers \ controllers' :
           \/ facilities'[s.facility] = None
           \/ \E t \in controllers' : t.facility = s.facility /\ t.cid = s.cid
           \/ \E r \in Request : /\ call[r].op = "unsign" /\ call'[r] = Idle
                                 /\ call[r].cid = s.cid]_vars
  BY <1>1
<1> QED BY <1>2, ActivitiesInvariant, PTL DEF Spec, OnlyOwnerCancels

\* On SQLite only a step that does not look, an edit, a publish or a sign-up
\* whose look failed, gives an account a second facility of an activity
\* (SignFacilityController).
THEOREM LookedSignUpsDoNotDouble == Spec => LookedSignUpsDiffer
<1>1. ASSUME ActivitiesInv, [Next]_vars, db = "sqlite", OneFacilityEach, ~OneFacilityEach'
      PROVE  Unlooked
  <2>0. TypeOK
    BY <1>1 DEF ActivitiesInv
  <2>1. ASSUME NEW r \in Request, SignFacilityController(r), ~SignsBlindly(r)
        PROVE  FALSE
    <3> DEFINE new == NewActivityAtc(call[r])
    <3>0. call[r].op = "sign"
      BY <2>0, <2>1 DEF SignFacilityController, SignsBlindly, Answer, Continue, TypeOK
    <3>1. /\ controllers' = controllers \cup {new}
          /\ ~SignedUp(call[r].activity, call[r].cid)
      BY <1>1, <2>1, <3>0 DEF SignFacilityController, StillTrue
    <3>2. new.activity = call[r].activity /\ new.cid = call[r].cid
      BY DEF NewActivityAtc
    <3> HIDE DEF new
    <3>3. \A s \in controllers : ~(s.activity = new.activity /\ s.cid = new.cid)
      BY <3>1, <3>2 DEF SignedUp
    <3>4. OneFacilityEach'
      BY <1>1, <3>1, <3>3 DEF OneFacilityEach
    <3> QED BY <1>1, <3>4
  <2>2. \A r \in Request : ~UnsignFacilityController(r)
    BY <1>1 DEF UnsignFacilityController, OneFacilityEach
  <2>3. controllers' # controllers
    BY <1>1 DEF OneFacilityEach
  <2>4. \A r \in Request : UpdateActivityInfo(r) => Edits(r)
    BY <1>1, UpdateFacts DEF Edits
  <2> QED BY <1>1, <2>1, <2>2, <2>3, <2>4, WhoWrites DEF Unlooked
<1>2. ActivitiesInv /\ [Next]_vars =>
        [db = "sqlite" /\ OneFacilityEach /\ ~OneFacilityEach' => Unlooked]_vars
  BY <1>1
<1> QED BY <1>2, ActivitiesInvariant, PTL DEF Spec, LookedSignUpsDiffer

\* On SQLite only a step that does not look gives a pilot a callsign that
\* another pilot of the activity has (SignActivityPilot).
THEOREM LookedCallsignsDoNotDouble == Spec => LookedCallsignsDiffer
<1>1. ASSUME ActivitiesInv, [Next]_vars, db = "sqlite", CallsignsDiffer, ~CallsignsDiffer'
      PROVE  Unlooked
  <2>0. TypeOK
    BY <1>1 DEF ActivitiesInv
  <2>1. ASSUME NEW r \in Request, SignActivityPilot(r), ~SignsBlindly(r)
        PROVE  FALSE
    <3> DEFINE new == NewActivityPilot(call[r])
    <3>0. call[r].op = "signPilot"
      BY <2>0, <2>1 DEF SignActivityPilot, SignsBlindly, Answer, Continue, TypeOK
    <3>1. /\ pilots' = pilots \cup {new}
          /\ ~Taken(call[r].activity, call[r].cid, call[r].callsign)
      BY <1>1, <2>1, <3>0 DEF SignActivityPilot, StillTrue
    <3>2. new.activity = call[r].activity /\ new.callsign = call[r].callsign
      BY DEF NewActivityPilot
    <3> HIDE DEF new
    <3>3. \A p \in pilots : ~(p.activity = new.activity /\ p.callsign = new.callsign)
      BY <3>1, <3>2 DEF Taken
    <3>4. CallsignsDiffer'
      BY <1>1, <3>1, <3>3 DEF CallsignsDiffer
    <3> QED BY <1>1, <3>4
  <2>2. ASSUME NEW c \in Cid, NEW a \in Activity, PilotLeave(PilotLeaveRequest(c, a))
        PROVE  FALSE
    BY <1>1, <2>2 DEF PilotLeave, UnsignActivityPilot, CallsignsDiffer
  <2>3. ASSUME NEW c \in Cid, NEW a \in Activity, NEW status \in PilotStatuses,
               EditPilotStatus(PilotStatusRequest(c, a, status))
        PROVE  FALSE
    <3>1. PICK p \in pilots : pilots' = (pilots \ {p}) \cup {[p EXCEPT !.status = status]}
      BY <2>3 DEF EditPilotStatus, PilotStatusRequest, SetActivityPilotStatus,
                  GetActivityPilotById
    <3> DEFINE new == [p EXCEPT !.status = status]
    <3>2. new.activity = p.activity /\ new.callsign = p.callsign
      BY <1>1 DEF ActivitiesInv, TypeOK, Flights
    <3>3. pilots' = (pilots \ {p}) \cup {new}
      BY <3>1
    <3> HIDE DEF new
    <3>4. CallsignsDiffer'
      BY <1>1, <3>2, <3>3 DEF CallsignsDiffer
    <3> QED BY <1>1, <3>4
  <2>4. pilots' # pilots
    BY <1>1 DEF CallsignsDiffer
  <2>5. \A r \in Request : UpdateActivityInfo(r) => Edits(r)
    BY <1>1, UpdateFacts DEF Edits
  <2> QED BY <1>1, <2>1, <2>2, <2>3, <2>4, <2>5, WhoWrites DEF Unlooked
<1>2. ActivitiesInv /\ [Next]_vars =>
        [db = "sqlite" /\ CallsignsDiffer /\ ~CallsignsDiffer' => Unlooked]_vars
  BY <1>1
<1> QED BY <1>2, ActivitiesInvariant, PTL DEF Spec, LookedCallsignsDiffer
=============================================================================
