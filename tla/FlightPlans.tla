----------------------------- MODULE FlightPlans -----------------------------
(***************************************************************************)
(* Flight plans: the object a pilot's client holds (client.flightPlan) and *)
(* the table flight_plans of the database.                                 *)
(*                                                                         *)
(* The object is shared without a lock: the pilot's session files plans    *)
(* ($FP) while the sessions of controllers edit them ($AM) or assign a     *)
(* level ($CQ ... FA).  Each field access between two of those goroutines  *)
(* is an action of its own, and so are the reading of the object by a save *)
(* and the commit of that save.                                            *)
(*                                                                         *)
(* A client in the table is named by its callsign.  When it is deleted,    *)
(* its plan moves to a name of Deleted: handlers of controllers that have  *)
(* looked the client up keep working on the old object, or start on it     *)
(* later, while the callsign may already stand for a new client.  The      *)
(* session of the pilot itself handles no command any more: it has ended   *)
(* when the reconnect window (40s) starts, or, after a kill, its query     *)
(* times out long before the window closes.                                *)
(*                                                                         *)
(* Of a plan's data the model keeps the leg (departure and arrival, which  *)
(* decide about the lock) and the level (all the rest).                    *)
(***************************************************************************)
EXTENDS Naturals, FiniteSets

CONSTANTS Client,          \* callsigns of pilots
          Deleted,         \* bound: deleted clients still referred to
          Controller,      \* sessions of controllers allowed to edit plans
          Account,         \* users (Cid)
          Leg, Level,      \* contents of a plan
          None,            \* nil
          MaxCommands      \* bound: commands handled in all

\* A plan: row id (0 when never saved), owner and callsign of the row, data.
Plan == [id : Nat, cid : Account, callsign : Client,
         leg : Leg, level : Level, locked : BOOLEAN]

Object == Client \cup Deleted

Job == [client : Object, leg : Leg \cup {None}, level : Level]

\* nil is no object.
ASSUME PlanAssumption ==
  /\ None \notin Client \cup Controller \cup Account \cup Leg \cup Level
  /\ None \notin Plan \cup Job
  /\ Object \cap Controller = {}
  /\ Client \cap Deleted = {}
  /\ MaxCommands \in Nat

VARIABLES
  simulator, \* config.Server.General.SimulatorServer, fixed at the start
  account,   \* the account a client logged in with, None before
  plan,      \* client.flightPlan
  row,       \* flight_plans, by its unique column callsign
  pc,        \* where the handler of a pilot or controller session is
  job,       \* the command that handler works on
  buffer,    \* the values its pending database write holds
  commands,  \* commands handled so far
  contended, \* rows with two objects, with an object handled by two at once,
             \* or with a failed write; only the properties read it
  overlapped \* clients whose last command overlapped one of a controller on
             \* the same object; only the properties read it

history == <<contended, overlapped>>

vars == <<simulator, account, plan, row, pc, job, buffer, commands,
          contended, overlapped>>

Actor == Client \cup Controller

(***************************************************************************)
(* Control points of a handler.                                            *)
(*   idle     no command                                                   *)
(*   insert   UpsertFlightPlan has looked for the row and made its object  *)
(*   unlock   the pilot's new plan has another leg than the locked one     *)
(*   check    before the test of Locked in UpdateFlightPlan                *)
(*   leg      UpdateFlightPlanData, before the airports are written        *)
(*   rest     UpdateFlightPlanData, before the other fields are written    *)
(*   save     before the save reads the object                             *)
(*   commit   the save is under way                                        *)
(*   assign   UpdateCruiseAltitude, before it sets Locked                  *)
(*   update   UpdateCruiseAltitude, before its two columns are written     *)
(*   crashed  a nil pointer has ended the process with all its goroutines  *)
(***************************************************************************)
PC == {"idle", "insert", "unlock", "check", "leg", "rest", "save", "commit",
       "assign", "update", "crashed"}

Init ==
  /\ simulator \in BOOLEAN
  /\ account = [c \in Client |-> None]
  /\ plan = [o \in Object |-> None]
  /\ row = [k \in Client |-> None]
  /\ pc = [p \in Actor |-> "idle"]
  /\ job = [p \in Actor |-> None]
  /\ buffer = [p \in Actor |-> None]
  /\ commands = 0
  /\ contended = {}
  /\ overlapped = {}

-----------------------------------------------------------------------------
(* The database. *)

Rows(a) == {row[k] : k \in {k \in Client : row[k] # None /\ row[k].cid = a}}

\* GetFlightPlanByCid: the first row of the account by id; a failed query is
\* handled like a missing row by both callers.
GetFlightPlanByCid(a) ==
  {None} \cup {r \in Rows(a) : \A q \in Rows(a) : r.id <= q.id}

NextId == Cardinality({k \in Client : row[k] # None}) + 1

\* The objects that stand for row k.
Holders(k) == {o \in Object : plan[o] # None /\ plan[o].callsign = k}

\* p works on the object o.
WorksOn(p, o) == job[p] # None /\ job[p].client = o

\* Client c gets an object for row k.
Loads(c, k) == IF Holders(k) \ {c} # {} THEN {k} ELSE {}

\* Actor p starts on the object o.
Meets(p, o) ==
  IF \E q \in Actor \ {p} : /\ job[q] # None
                            /\ job[q].client \in Holders(plan[o].callsign)
    THEN {plan[o].callsign} ELSE {}

-----------------------------------------------------------------------------
Goto(p, label) == pc' = [pc EXCEPT ![p] = label]

\* Session p starts on a command about the object o.
Start(p, o, leg, level, label) ==
  /\ pc[p] = "idle"
  /\ commands < MaxCommands
  /\ commands' = commands + 1
  /\ job' = [job EXCEPT ![p] = [client |-> o, leg |-> leg, level |-> level]]
  /\ Goto(p, label)

\* The handler of p returns.
Finish(p) ==
  /\ Goto(p, "idle")
  /\ job' = [job EXCEPT ![p] = None]
  /\ buffer' = [buffer EXCEPT ![p] = None]

\* NewClient loads the plan of the account.
Login(c, a) ==
  /\ pc[c] = "idle"
  /\ account[c] = None
  /\ account' = [account EXCEPT ![c] = a]
  /\ \E r \in IF simulator THEN {None} ELSE GetFlightPlanByCid(a) :
       /\ plan' = [plan EXCEPT ![c] = r]
       /\ contended' = contended \cup
                         (IF r = None THEN {} ELSE Loads(c, r.callsign))
  /\ UNCHANGED <<simulator, row, pc, job, buffer, commands, overlapped>>

\* Another user reconnects to the client: SetUser leaves its plan alone.
SetUser(c, a) ==
  /\ pc[c] = "idle"
  /\ account[c] # None
  /\ account' = [account EXCEPT ![c] = a]
  /\ UNCHANGED <<simulator, plan, row, pc, job, buffer, commands, history>>

\* Delete takes the client out of the table, whoever works on its plan; the
\* row stays.
Logout(c) ==
  /\ pc[c] = "idle"
  /\ account[c] # None
  /\ account' = [account EXCEPT ![c] = None]
  /\ \E d \in Deleted :
       /\ plan[d] = None
       /\ plan' = [plan EXCEPT ![c] = None, ![d] = plan[c]]
       /\ job' = [p \in Actor |-> IF WorksOn(p, c)
                                   THEN [job[p] EXCEPT !.client = d]
                                   ELSE job[p]]
  /\ UNCHANGED <<simulator, row, pc, buffer, commands, history>>

\* The last handler that knows a deleted client has returned.
Forget(d) ==
  /\ plan[d] # None
  /\ \A p \in Actor : ~WorksOn(p, d)
  /\ plan' = [plan EXCEPT ![d] = None]
  /\ UNCHANGED <<simulator, account, row, pc, job, buffer, commands, history>>

-----------------------------------------------------------------------------
(* $FP: handlePlan and client.UpsertFlightPlan. *)

NewPlan(c, leg, level) ==
  [id |-> 0, cid |-> account[c], callsign |-> c,
   leg |-> leg, level |-> level, locked |-> FALSE]

\* The first plan of a simulator server lives in memory only.
FileInMemory(c, leg, level) ==
  /\ simulator
  /\ pc[c] = "idle"
  /\ account[c] # None
  /\ plan[c] = None
  /\ commands < MaxCommands
  /\ commands' = commands + 1
  /\ plan' = [plan EXCEPT ![c] = NewPlan(c, leg, level)]
  /\ UNCHANGED <<simulator, account, row, pc, job, buffer, history>>

\* UpsertFlightPlan looks for the row again and fills a fresh object, without
\* a look at the lock the row may have.
FileFirst(c, leg, level) ==
  /\ ~simulator
  /\ account[c] # None
  /\ plan[c] = None
  /\ Start(c, c, leg, level, "insert")
  /\ \E r \in GetFlightPlanByCid(account[c]) :
       buffer' = [buffer EXCEPT ![c] =
                    IF r = None THEN NewPlan(c, leg, level)
                    ELSE [r EXCEPT !.leg = leg, !.level = level]]
  /\ UNCHANGED <<simulator, account, plan, row, history>>

\* Variant: the client keeps the object although it could not be saved.
InsertIgnoresError(c) ==
  LET new == buffer[c]
      saved == IF new.id = 0 THEN [new EXCEPT !.id = NextId] ELSE new
      ok == new.id = 0 => row[new.callsign] = None
  IN
  /\ pc[c] = "insert"
  /\ row' = IF ok THEN [row EXCEPT ![new.callsign] = saved] ELSE row
  /\ plan' = [plan EXCEPT ![c] = saved]
  /\ contended' = contended \cup Loads(c, new.callsign)
  /\ Finish(c)
  /\ UNCHANGED <<simulator, account, commands, overlapped>>

\* Variant: the object is saved by value and never learns its id.
InsertByValue(c) ==
  LET new == buffer[c]
      saved == IF new.id = 0 THEN [new EXCEPT !.id = NextId] ELSE new
      ok == new.id = 0 => row[new.callsign] = None
  IN
  /\ pc[c] = "insert"
  /\ row' = IF ok THEN [row EXCEPT ![new.callsign] = saved] ELSE row
  /\ plan' = IF ok THEN [plan EXCEPT ![c] = new] ELSE plan
  /\ contended' = contended \cup Loads(c, new.callsign)
  /\ Finish(c)
  /\ UNCHANGED <<simulator, account, commands, overlapped>>

\* The object is saved: inserted, unless the callsign has a row already, or
\* updated by id.  Only a saved object becomes the client's plan.
Insert(c) ==
  LET new == buffer[c]
      saved == IF new.id = 0 THEN [new EXCEPT !.id = NextId] ELSE new
      ok == new.id = 0 => row[new.callsign] = None
  IN
  /\ pc[c] = "insert"
  /\ row' = IF ok THEN [row EXCEPT ![new.callsign] = saved] ELSE row
  /\ plan' = IF ok THEN [plan EXCEPT ![c] = saved] ELSE plan
  /\ contended' = contended \cup Loads(c, new.callsign)
  /\ Finish(c)
  /\ UNCHANGED <<simulator, account, commands, overlapped>>

\* A later plan: a locked plan with another leg will be unlocked.  On a
\* simulator server the command changes nothing.
File(c, leg, level) ==
  /\ ~simulator
  /\ plan[c] # None
  /\ Start(c, c, leg, level,
           IF plan[c].locked /\ plan[c].leg # leg THEN "unlock" ELSE "check")
  /\ contended' = contended \cup Meets(c, c)
  /\ overlapped' = IF \E p \in Controller : WorksOn(p, c)
                     THEN overlapped \cup {c} ELSE overlapped \ {c}
  /\ UNCHANGED <<simulator, account, plan, row, buffer>>

Unlock(c) ==
  /\ pc[c] = "unlock"
  /\ plan' = [plan EXCEPT ![c].locked = FALSE]
  /\ Goto(c, "check")
  /\ UNCHANGED <<simulator, account, row, job, buffer, commands, history>>

\* Variant: the plan is written whether it is locked or not.
CheckNothing(c) ==
  /\ pc[c] = "check"
  /\ Goto(c, "leg")
  /\ UNCHANGED <<simulator, account, plan, row, job, buffer>>
  /\ UNCHANGED <<commands, history>>

\* UpdateFlightPlan refuses a locked plan.
Check(c) ==
  /\ pc[c] = "check"
  /\ IF plan[c].locked
       THEN Finish(c)
       ELSE Goto(c, "leg") /\ UNCHANGED <<job, buffer>>
  /\ UNCHANGED <<simulator, account, plan, row, commands, history>>

-----------------------------------------------------------------------------
(* $AM and FA: controllers. *)

\* The pilot whose command is under way when a controller starts on o.
Joins(o) == {c \in Client : c = o /\ pc[c] # "idle"}

\* The test for a missing plan compares the method client.FlightPlan with nil
\* and never holds: the edit of a client without a plan ends the process.
\* UpdateCruiseAltitude has no test.
EditMissing(p, c) ==
  /\ account[c] # None
  /\ plan[c] = None
  /\ pc[p] = "idle"
  /\ pc' = [q \in Actor |-> "crashed"]
  /\ UNCHANGED <<simulator, account, plan, row, job, buffer>>
  /\ UNCHANGED <<commands, history>>

\* handleAtcEditPlan locks the plan (never on a simulator server), then calls
\* UpdateFlightPlan.
EditPlan(p, o, leg, level) ==
  /\ plan[o] # None
  /\ Start(p, o, leg, level, "leg")
  /\ plan' = [plan EXCEPT ![o].locked = ~simulator]
  /\ contended' = contended \cup Meets(p, o)
  /\ overlapped' = overlapped \cup Joins(o)
  /\ UNCHANGED <<simulator, account, row, buffer>>

\* handleClientQuery, FA: UpdateCruiseAltitude sets the level first ...
AssignLevel(p, o, level) ==
  /\ ~simulator
  /\ plan[o] # None
  /\ Start(p, o, None, level, "assign")
  /\ plan' = [plan EXCEPT ![o].level = level]
  /\ contended' = contended \cup Meets(p, o)
  /\ overlapped' = overlapped \cup Joins(o)
  /\ UNCHANGED <<simulator, account, row, buffer>>

\* ... then the lock ...
AssignLock(p) ==
  /\ pc[p] = "assign"
  /\ plan' = [plan EXCEPT ![job[p].client].locked = TRUE]
  /\ Goto(p, "update")
  /\ UNCHANGED <<simulator, account, row, job, buffer, commands, history>>

\* Variant: the lock is not written to the database.
AssignUpdateNoLock(p) ==
  /\ pc[p] = "update"
  /\ row' = [row EXCEPT ![plan[job[p].client].callsign].level = job[p].level]
  /\ Finish(p)
  /\ UNCHANGED <<simulator, account, plan, commands, history>>

\* ... and writes these two columns of the row.
AssignUpdate(p) ==
  LET k == plan[job[p].client].callsign IN
  /\ pc[p] = "update"
  /\ row' = [row EXCEPT ![k].level = job[p].level, ![k].locked = TRUE]
  /\ Finish(p)
  /\ UNCHANGED <<simulator, account, plan, commands, history>>

-----------------------------------------------------------------------------
(* UpdateFlightPlan past its test, for pilots and controllers. *)

WriteLeg(p) ==
  /\ pc[p] = "leg"
  /\ plan' = [plan EXCEPT ![job[p].client].leg = job[p].leg]
  /\ Goto(p, "rest")
  /\ UNCHANGED <<simulator, account, row, job, buffer, commands, history>>

\* Variant: a simulator server saves as well.
WriteRestSaves(p) ==
  /\ pc[p] = "rest"
  /\ plan' = [plan EXCEPT ![job[p].client].level = job[p].level]
  /\ Goto(p, "save")
  /\ UNCHANGED <<simulator, account, row, job, buffer, commands, history>>

\* A simulator server keeps plans in memory only.
WriteRest(p) ==
  /\ pc[p] = "rest"
  /\ plan' = [plan EXCEPT ![job[p].client].level = job[p].level]
  /\ IF simulator
       THEN Finish(p)
       ELSE Goto(p, "save") /\ UNCHANGED <<job, buffer>>
  /\ UNCHANGED <<simulator, account, row, commands, history>>

\* The save reads the whole object, whoever wrote it last.
Save(p) ==
  /\ pc[p] = "save"
  /\ buffer' = [buffer EXCEPT ![p] = plan[job[p].client]]
  /\ Goto(p, "commit")
  /\ UNCHANGED <<simulator, account, plan, row, job, commands, history>>

Commit(p) ==
  /\ pc[p] = "commit"
  /\ row' = [row EXCEPT ![buffer[p].callsign] = buffer[p]]
  /\ Finish(p)
  /\ UNCHANGED <<simulator, account, plan, commands, history>>

\* The write times out or fails: the handler reports an error, and the object
\* in memory keeps what was written to it.
WriteFails(p) ==
  /\ pc[p] \in {"insert", "commit", "update"}
  /\ contended' = contended \cup
       IF pc[p] = "insert" THEN {} ELSE {plan[job[p].client].callsign}
  /\ Finish(p)
  /\ UNCHANGED <<simulator, account, plan, row, commands, overlapped>>

-----------------------------------------------------------------------------
PilotStep(c) ==
  \/ \E a \in Account : Login(c, a) \/ SetUser(c, a)
  \/ Logout(c)
  \/ \E leg \in Leg, level \in Level :
       \/ FileInMemory(c, leg, level)
       \/ FileFirst(c, leg, level)
       \/ File(c, leg, level)
  \/ Insert(c)
  \/ Unlock(c)
  \/ Check(c)

ControllerStep(p) ==
  \/ \E c \in Client : EditMissing(p, c)
  \/ \E o \in Object, level \in Level :
       \/ AssignLevel(p, o, level)
       \/ \E leg \in Leg : EditPlan(p, o, leg, level)
  \/ AssignLock(p)
  \/ AssignUpdate(p)

WriteStep(p) ==
  WriteLeg(p) \/ WriteRest(p) \/ Save(p) \/ Commit(p) \/ WriteFails(p)

Next ==
  \/ \E c \in Client : PilotStep(c)
  \/ \E d \in Deleted : Forget(d)
  \/ \E p \in Controller : ControllerStep(p)
  \/ \E p \in Actor : WriteStep(p)

Spec == Init /\ [][Next]_vars

-----------------------------------------------------------------------------
(* Properties. *)

\* Every reference is nil or a plan, and a plan that has a row knows its id.
TypeOK ==
  /\ simulator \in BOOLEAN
  /\ account \in [Client -> Account \cup {None}]
  /\ plan \in [Object -> Plan \cup {None}]
  /\ row \in [Client -> Plan \cup {None}]
  /\ pc \in [Actor -> PC]
  /\ job \in [Actor -> Job \cup {None}]
  /\ buffer \in [Actor -> Plan \cup {None}]
  /\ commands \in 0..MaxCommands
  /\ contended \subseteq Client
  /\ overlapped \subseteq Client
  /\ \A o \in Object : plan[o] # None => (plan[o].id = 0 <=> simulator)

\* The plan a client works with is stored: the row under its callsign has its
\* id and its owner, whoever created, loaded, edited or failed to save it, and
\* for a deleted client too as long as a handler may still save its plan.
PlanHasRow ==
  \A o \in Object : ~simulator /\ plan[o] # None =>
    LET r == row[plan[o].callsign] IN
    /\ r # None /\ r.id = plan[o].id /\ r.cid = plan[o].cid

\* No handler is at work on an object that stands for row k.
Quiet(k) ==
  \A p \in Actor : job[p] # None => job[p].client \notin Holders(k)

\* The database holds the plan of memory once the handlers are done, lock
\* included: a later login sees what pilot and controller agreed on.  Excused
\* (contended) is a row whose write has failed, a row two objects stand for
\* (two clients of the account, or a client that came back while a handler
\* could still save the plan of its deleted predecessor) and a row two
\* handlers were at work on at once.
UncontendedIsSaved ==
  \A c \in Client : ~simulator /\ plan[c] # None =>
    plan[c].callsign \in contended \/ ~Quiet(plan[c].callsign)
      \/ row[plan[c].callsign] = plan[c]

\* The pilot's session writes to a plan that is locked.
WritesLocked(c) ==
  /\ pc[c] \in {"leg", "rest"} /\ pc'[c] # pc[c]
  /\ plan[c].locked
  /\ plan'[c] # plan[c]

\* A pilot's command that finds a plan in memory and meets no command of a
\* controller on that plan while it runs never changes a locked plan: only a
\* new leg, which unlocks the plan, gets past the lock.  A client without a
\* plan in memory files past the lock of its row (FileFirst), with no
\* controller near; that is not a write to a locked plan in this sense.
LockHoldsUnlessOverlapped ==
  [][\A c \in Client : WritesLocked(c) => c \in overlapped]_vars

\* A simulator server keeps plans in memory and never locks them, through
\* every edit of a controller.
SimulatorStaysInMemory ==
  simulator =>
    /\ \A k \in Client : row[k] = None
    /\ \A o \in Object : plan[o] # None => ~plan[o].locked

-----------------------------------------------------------------------------
(* What comments and documentation promise and the code does not keep. *)

\* README: plans can be locked.  A pilot never changes a locked plan.
LockHolds == [][\A c \in Client : ~WritesLocked(c)]_vars
=============================================================================
