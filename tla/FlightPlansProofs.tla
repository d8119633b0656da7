-------------------------- MODULE FlightPlansProofs --------------------------
(***************************************************************************)
(* Flight plans for any sets of pilots, controllers, accounts and contents *)
(* and any number of commands.                                             *)
(*                                                                         *)
(* What the properties say of the quiet moments is not inductive.  The     *)
(* strengthening says what a handler may rely on at each of its control    *)
(* points (HandlerOK): that the object it works on is there, that it still *)
(* stands for the same row, and how far row and object have come apart     *)
(* when nobody else is at work on them (SavedOK).                          *)
(***************************************************************************)
EXTENDS FlightPlans, FiniteSetTheorems, TLAPS

Working == PC \ {"idle", "crashed"}

\* x and y stand for the same row.
Same(x, y) == x.id = y.id /\ x.cid = y.cid /\ x.callsign = y.callsign

\* A nil pointer stops every goroutine.
CrashOK == \A p, q \in Actor : pc[p] = "crashed" => pc[q] = "crashed"

\* Rows are found under their callsign and have been given an id.
RowsOK ==
  /\ IsFiniteSet({k \in Client : row[k] # None})
  /\ \A k \in Client : row[k] # None => row[k].callsign = k /\ row[k].id # 0

\* Only a client with a user has a plan.
OwnerOK == \A c \in Client : plan[c] # None => account[c] # None

\* A save under way holds the row it was made for.
BufferOK(p) ==
  /\ pc[p] = "insert" =>
       /\ buffer[p] # None
       /\ buffer[p].id = 0 => buffer[p].callsign = p
       /\ buffer[p].id # 0 => /\ row[buffer[p].callsign] # None
                              /\ Same(buffer[p], row[buffer[p].callsign])
  /\ pc[p] = "commit" =>
       buffer[p] # None /\ Same(buffer[p], plan[job[p].client])

\* What the handler of p relies on.
HandlerOK(p) ==
  /\ pc[p] = "idle" => job[p] = None
  /\ pc[p] \in Working => job[p] # None
  /\ pc[p] \in {"insert", "unlock", "check"} => p \in Client
  /\ p \in Client /\ job[p] # None => job[p].client = p
  /\ pc[p] \in Working \ {"leg", "rest"} => ~simulator
  /\ pc[p] \in Working \ {"insert"} => plan[job[p].client] # None
  /\ pc[p] = "insert" => plan[p] = None /\ account[p] # None
  /\ pc[p] \in {"unlock", "check", "leg", "rest"} => job[p].leg # None

Structure ==
  /\ TypeOK /\ CrashOK /\ RowsOK /\ OwnerOK /\ PlanHasRow
  /\ \A p \in Actor : HandlerOK(p)
  /\ \A p \in Actor : BufferOK(p)

\* How far the row r and the object of c have come apart when p alone works
\* on the object.
Ahead(p, c, r) ==
  /\ pc[p] = "unlock" => r = plan[c]
  /\ pc[p] = "check" /\ plan[c].locked => r = plan[c]
  /\ pc[p] = "commit" => buffer[p] = plan[c]
  /\ pc[p] = "assign" => plan[c] = [r EXCEPT !.level = job[p].level]
  /\ pc[p] = "update" => plan[c] = [r EXCEPT !.level = job[p].level, !.locked = TRUE]

\* The object of c is the only one for row k.
Alone(c, k) == \A d \in Object : plan[d] # None /\ plan[d].callsign = k => d = c

\* An uncontended object has one handler at most, which keeps track of it.
SavedOK(c) ==
  ~simulator /\ plan[c] # None /\ plan[c].callsign \notin contended =>
    /\ Alone(c, plan[c].callsign)
    /\ \A p, q \in Actor : WorksOn(p, c) /\ WorksOn(q, c) => p = q
    /\ (\A p \in Actor : ~WorksOn(p, c)) => row[plan[c].callsign] = plan[c]
    /\ \A p \in Actor : WorksOn(p, c) => Ahead(p, c, row[plan[c].callsign])

\* A pilot's handler that has met no controller works on an unlocked plan
\* past its test, and no controller is at work on the plan.
LockOK(c) ==
  c \notin overlapped /\ pc[c] \in Working \ {"insert"} =>
    /\ \A p \in Controller : ~WorksOn(p, c)
    /\ pc[c] \in {"leg", "rest"} => ~plan[c].locked

PlansInv ==
  /\ Structure
  /\ SimulatorStaysInMemory
  /\ \A o \in Object : SavedOK(o)
  /\ \A c \in Client : LockOK(c)
-----------------------------------------------------------------------------
(* The structure. *)

\* Writing contents or lock of a plan leaves a plan.
LEMMA PlanEdits ==
  ASSUME NEW x \in Plan
  PROVE  /\ \A leg \in Leg : [x EXCEPT !.leg = leg] \in Plan
         /\ \A level \in Level : [x EXCEPT !.level = level] \in Plan
         /\ \A leg \in Leg, level \in Level :
              [x EXCEPT !.leg = leg, !.level = level] \in Plan
         /\ \A b \in BOOLEAN : [x EXCEPT !.locked = b] \in Plan
         /\ \A level \in Level :
              [x EXCEPT !.level = level, !.locked = TRUE] \in Plan
  BY DEF Plan

\* The next id of the table is a positive number.
LEMMA NextIdPositive ==
  ASSUME RowsOK PROVE NextId \in Nat /\ NextId # 0
  BY FS_CardinalityType DEF RowsOK, NextId

\* GetFlightPlanByCid finds nothing or a row of the account.
LEMMA FoundRow ==
  ASSUME TypeOK, RowsOK, NEW a, NEW r \in GetFlightPlanByCid(a)
  PROVE  \/ r = None
         \/ /\ r \in Plan /\ r # None /\ r.id # 0
            /\ r.callsign \in Client /\ row[r.callsign] = r
  BY DEF GetFlightPlanByCid, Rows, TypeOK, RowsOK

\* What a row or an object stands for, in a structured state.
LEMMA StructureFacts ==
  ASSUME Structure
  PROVE  /\ \A p \in Actor : pc[p] \in Working =>
              /\ job[p] \in Job
              /\ pc[p] # "insert" => plan[job[p].client] \in Plan
         /\ \A c \in Object : plan[c] # None => plan[c] \in Plan
         /\ \A c \in Client : row[c] # None => row[c] \in Plan
  BY DEF Structure, TypeOK, HandlerOK, Working, Job

\* The handlers keep the structure.
LEMMA StructureStep == Structure /\ [Next]_vars => Structure'
<1> SUFFICES ASSUME Structure, [Next]_vars PROVE Structure'
  OBVIOUS
<1> USE PlanAssumption DEF Actor, Object, history, Goto, Finish, Start
<1>0. CASE UNCHANGED vars
  BY <1>0 DEF vars, Structure, TypeOK, CrashOK, RowsOK, OwnerOK, PlanHasRow,
     HandlerOK, BufferOK
<1>1. ASSUME NEW c \in Client, NEW a \in Account, Login(c, a) PROVE Structure'
  <2>0. PICK r : /\ plan' = [plan EXCEPT ![c] = r]
                 /\ r = None \/ /\ ~simulator /\ r \in Plan /\ r # None /\ r.id # 0
                                /\ r.callsign \in Client /\ row[r.callsign] = r
                 /\ contended' = contended \cup
                                   (IF r = None THEN {} ELSE Loads(c, r.callsign))
    BY <1>1, FoundRow DEF Login, Structure
  <2>1. TypeOK'
    BY <1>1, <2>0 DEF Login, Loads, Structure, TypeOK, Plan
  <2>2. CrashOK'
    BY <1>1, <2>0 DEF Login, Structure, CrashOK, TypeOK
  <2>3. RowsOK'
    BY <1>1, <2>0 DEF Login, Structure, RowsOK, TypeOK, PlanHasRow, HandlerOK,
       BufferOK, Working, PC, Plan
  <2>4. OwnerOK'
    BY <1>1, <2>0 DEF Login, Structure, OwnerOK, TypeOK, HandlerOK, Working, PC
  <2>5. PlanHasRow'
    BY <1>1, <2>0 DEF Login, Structure, PlanHasRow, TypeOK, RowsOK, HandlerOK,
       BufferOK, Same, Working, PC, Plan
  <2>6. \A q \in Actor : HandlerOK(q)'
    BY <1>1, <2>0 DEF Login, Structure, HandlerOK, OwnerOK, TypeOK, Working, Job
  <2>7. \A q \in Actor : BufferOK(q)'
    BY <1>1, <2>0 DEF Login, Structure, BufferOK, HandlerOK, OwnerOK, TypeOK, Working, PC,
       Job
  <2> QED BY <2>1, <2>2, <2>3, <2>4, <2>5, <2>6, <2>7 DEF Structure
<1>2. ASSUME NEW c \in Client, NEW a \in Account, SetUser(c, a) PROVE
      Structure'
  <2>1. TypeOK'
    BY <1>2 DEF SetUser, Structure, TypeOK, PC, Plan, Job, HandlerOK, BufferOK,
       Working, PlanHasRow
  <2>2. CrashOK'
    BY <1>2 DEF SetUser, Structure, CrashOK, TypeOK
  <2>3. RowsOK'
    BY <1>2 DEF SetUser, Structure, RowsOK, TypeOK, PlanHasRow, HandlerOK,
       BufferOK, Working, PC, Plan
  <2>4. OwnerOK'
    BY <1>2 DEF SetUser, Structure, OwnerOK, TypeOK, HandlerOK, Working, PC
  <2>5. PlanHasRow'
    BY <1>2 DEF SetUser, Structure, PlanHasRow, TypeOK, RowsOK, HandlerOK,
       BufferOK, Same, Working, PC, Plan
  <2>6. \A q \in Actor : HandlerOK(q)'
    BY <1>2 DEF SetUser, Structure, HandlerOK, CrashOK, TypeOK, Working, PC,
       Plan, Job
  <2>7. \A q \in Actor : BufferOK(q)'
    BY <1>2 DEF SetUser, Structure, BufferOK, HandlerOK, CrashOK, TypeOK,
       RowsOK, PlanHasRow, Same, Working, PC, Plan, Job
  <2> QED BY <2>1, <2>2, <2>3, <2>4, <2>5, <2>6, <2>7 DEF Structure
<1>3. ASSUME NEW c \in Client, Logout(c) PROVE Structure'
  <2>0. PICK d \in Deleted :
          /\ plan[d] = None
          /\ plan' = [plan EXCEPT ![c] = None, ![d] = plan[c]]
          /\ job' = [p \in Actor |-> IF WorksOn(p, c)
                                     THEN [job[p] EXCEPT !.client = d]
                                     ELSE job[p]]
    BY <1>3 DEF Logout
  <2>s. /\ pc[c] = "idle" /\ account' = [account EXCEPT ![c] = None]
        /\ UNCHANGED <<simulator, row, pc, buffer, commands, contended, overlapped>>
    BY <1>3 DEF Logout
  <2>p. /\ c # d /\ c \in Object /\ d \in Object /\ d \notin Client
        /\ plan'[c] = None /\ plan'[d] = plan[c]
        /\ \A o \in Object \ {c, d} : plan'[o] = plan[o]
        /\ plan \in [Object -> Plan \cup {None}]
        /\ plan' \in [Object -> Plan \cup {None}]
    BY <2>0 DEF Structure, TypeOK
  <2>j. ASSUME NEW p \in Actor
        PROVE  /\ job[p] = None => job'[p] = None
               /\ job[p] # None =>
                    /\ job[p] \in Job /\ job'[p] \in Job /\ job'[p] # None
                    /\ job'[p].leg = job[p].leg /\ job'[p].level = job[p].level
                    /\ job[p].client = c => job'[p].client = d
                    /\ job[p].client # c => job'[p].client = job[p].client
    <3>1. CASE job[p] = None
      BY <2>0, <3>1 DEF WorksOn
    <3>2. CASE job[p] # None /\ job[p].client = c
      <4>1. job[p] \in Job /\ job'[p] = [job[p] EXCEPT !.client = d]
        BY <2>0, <3>2 DEF WorksOn, Structure, TypeOK
      <4>2. /\ [job[p] EXCEPT !.client = d] \in Job
            /\ [job[p] EXCEPT !.client = d].client = d
            /\ [job[p] EXCEPT !.client = d].leg = job[p].leg
            /\ [job[p] EXCEPT !.client = d].level = job[p].level
        BY <4>1, <2>p DEF Job
      <4> QED BY <3>2, <4>1, <4>2
    <3>3. CASE job[p] # None /\ job[p].client # c
      BY <2>0, <3>3 DEF WorksOn, Structure, TypeOK
    <3> QED BY <3>1, <3>2, <3>3
  <2>k. \A p \in Actor : job[p] # None =>
          /\ plan'[job'[p].client] = plan[job[p].client] \/ job[p].client = d
          /\ job[p].client = d => plan[job[p].client] = None
    BY <2>0, <2>p, <2>j DEF Structure, TypeOK, Job
  <2>l. \A p \in Actor : pc[p] \in Working \ {"insert"} =>
          job[p] # None /\ plan'[job'[p].client] = plan[job[p].client]
    BY <2>k DEF Structure, HandlerOK
  <2>c. \A p \in Client : job[p] # None => p # c /\ job'[p] = job[p]
    BY <2>0, <2>s DEF Structure, HandlerOK, WorksOn, TypeOK
  <2>1. TypeOK'
    <3>1. job' \in [Actor -> Job \cup {None}]
      BY <2>0, <2>j
    <3> QED BY <2>p, <2>s, <3>1 DEF Structure, TypeOK
  <2>2. CrashOK'
    BY <2>s DEF Structure, CrashOK
  <2>3. RowsOK'
    BY <2>s DEF Structure, RowsOK
  <2>4. OwnerOK'
    BY <2>p, <2>s DEF Structure, OwnerOK, TypeOK
  <2>5. PlanHasRow'
    BY <2>p, <2>s DEF Structure, PlanHasRow
  <2>6. \A q \in Actor : HandlerOK(q)'
    <3> TAKE q \in Actor
    <3>1. HandlerOK(q)
      BY DEF Structure
    <3>2. pc[q] = "insert" => q \in Client /\ q # c
      BY <2>s, <3>1 DEF HandlerOK
    <3>3. pc[q] = "insert" => plan'[q] = None /\ account'[q] # None
      BY <2>p, <2>s, <3>1, <3>2 DEF HandlerOK, Structure, TypeOK
    <3>4. q \in Client /\ job'[q] # None => job'[q].client = q
      BY <2>c, <2>j, <3>1 DEF HandlerOK
    <3>5. pc[q] \in Working \ {"insert"} => plan'[job'[q].client] # None
      BY <2>l, <3>1 DEF HandlerOK
    <3> QED BY <2>s, <2>j, <3>1, <3>3, <3>4, <3>5 DEF HandlerOK, Working
  <2>7. \A q \in Actor : BufferOK(q)'
    BY <2>s, <2>l DEF Structure, BufferOK, Working, PC
  <2> QED BY <2>1, <2>2, <2>3, <2>4, <2>5, <2>6, <2>7 DEF Structure
<1>20. ASSUME NEW d \in Deleted, Forget(d) PROVE Structure'
  <2>0. /\ plan' = [plan EXCEPT ![d] = None] /\ d \notin Client /\ d \in Object
        /\ \A o \in Object \ {d} : plan'[o] = plan[o]
        /\ \A p \in Actor : job[p] # None => job[p].client # d
        /\ UNCHANGED <<simulator, account, row, pc, job, buffer, commands,
                      contended, overlapped>>
    BY <1>20 DEF Forget, WorksOn, Structure, TypeOK
  <2>l. \A p \in Actor : job[p] # None => plan'[job[p].client] = plan[job[p].client]
    BY <2>0 DEF Structure, TypeOK, Job
  <2>1. TypeOK'
    BY <2>0 DEF Structure, TypeOK
  <2>2. CrashOK' /\ RowsOK' /\ OwnerOK'
    BY <2>0 DEF Structure, CrashOK, RowsOK, OwnerOK, TypeOK
  <2>3. PlanHasRow'
    BY <2>0 DEF Structure, PlanHasRow, TypeOK
  <2>4. \A q \in Actor : HandlerOK(q)'
    BY <2>0, <2>l DEF Structure, HandlerOK, Working, TypeOK
  <2>5. \A q \in Actor : BufferOK(q)'
    BY <2>0, <2>l DEF Structure, BufferOK, HandlerOK, Working, PC
  <2> QED BY <2>1, <2>2, <2>3, <2>4, <2>5 DEF Structure
<1>4. ASSUME NEW c \in Client, NEW leg \in Leg, NEW level \in Level,
      FileInMemory(c, leg, level) PROVE Structure'
  <2>0. /\ NewPlan(c, leg, level) \in Plan /\ NewPlan(c, leg, level).id = 0
        /\ NewPlan(c, leg, level).callsign = c
    BY <1>4 DEF FileInMemory, NewPlan, Plan, Structure, TypeOK
  <2>1. TypeOK'
    BY <1>4, <2>0 DEF FileInMemory, Structure, TypeOK
  <2>2. CrashOK'
    BY <1>4, <2>0 DEF FileInMemory, Structure, CrashOK, TypeOK
  <2>3. RowsOK'
    BY <1>4, <2>0 DEF FileInMemory, Structure, RowsOK, TypeOK, PlanHasRow,
       HandlerOK, BufferOK, Working, PC, Plan
  <2>4. OwnerOK'
    BY <1>4, <2>0 DEF FileInMemory, Structure, OwnerOK, TypeOK, HandlerOK,
       Working, PC
  <2>5. PlanHasRow'
    BY <1>4, <2>0 DEF FileInMemory, Structure, PlanHasRow, TypeOK, RowsOK,
       HandlerOK, BufferOK, Same, Working, PC, Plan
  <2>6. \A q \in Actor : HandlerOK(q)'
    BY <1>4, <2>0 DEF FileInMemory, Structure, HandlerOK, CrashOK, TypeOK,
       Working, PC, Plan, Job
  <2>7. \A q \in Actor : BufferOK(q)'
    BY <1>4, <2>0 DEF FileInMemory, Structure, BufferOK, HandlerOK, CrashOK,
       TypeOK, RowsOK, PlanHasRow, Same, Working, PC, Plan, Job
  <2> QED BY <2>1, <2>2, <2>3, <2>4, <2>5, <2>6, <2>7 DEF Structure
<1>5. ASSUME NEW c \in Client, NEW leg \in Leg, NEW level \in Level,
      FileFirst(c, leg, level) PROVE Structure'
  <2>0. PICK x \in Plan :
          /\ buffer' = [buffer EXCEPT ![c] = x]
          /\ x.id = 0 => x.callsign = c
          /\ x.id # 0 => row[x.callsign] # None /\ Same(x, row[x.callsign])
    <3>1. PICK r \in GetFlightPlanByCid(account[c]) :
            buffer' = [buffer EXCEPT ![c] =
                         IF r = None THEN NewPlan(c, leg, level)
                         ELSE [r EXCEPT !.leg = leg, !.level = level]]
      BY <1>5 DEF FileFirst
    <3>2. CASE r = None
      <4>1. /\ NewPlan(c, leg, level) \in Plan /\ NewPlan(c, leg, level).id = 0
            /\ NewPlan(c, leg, level).callsign = c
        BY <1>5 DEF FileFirst, NewPlan, Plan, Structure, TypeOK
      <4> QED BY <3>1, <3>2, <4>1
    <3>3. CASE r # None
      <4>1. r \in Plan /\ r.id # 0 /\ row[r.callsign] = r
        BY <3>1, <3>3, FoundRow DEF Structure
      <4>2. [r EXCEPT !.leg = leg, !.level = level] \in Plan
        BY <4>1, PlanEdits
      <4>3. Same([r EXCEPT !.leg = leg, !.level = level], r)
        BY <4>1 DEF Same, Plan
      <4> QED BY <3>1, <3>3, <4>1, <4>2, <4>3 DEF Same, Plan
    <3> QED BY <3>2, <3>3
  <2>1. TypeOK'
    BY <1>5, <2>0 DEF FileFirst, Structure, TypeOK, PC, Job
  <2>2. CrashOK'
    BY <1>5, <2>0 DEF FileFirst, Structure, CrashOK, TypeOK
  <2>3. RowsOK'
    BY <1>5, <2>0 DEF FileFirst, Structure, RowsOK, TypeOK, PlanHasRow,
       HandlerOK, BufferOK, Working, PC, Plan
  <2>4. OwnerOK'
    BY <1>5, <2>0 DEF FileFirst, Structure, OwnerOK, TypeOK, HandlerOK,
       Working, PC
  <2>5. PlanHasRow'
    BY <1>5, <2>0 DEF FileFirst, Structure, PlanHasRow, TypeOK, RowsOK,
       HandlerOK, BufferOK, Same, Working, PC, Plan
  <2>6. \A q \in Actor : HandlerOK(q)'
    BY <1>5, <2>0 DEF FileFirst, Structure, HandlerOK, CrashOK, TypeOK,
       Working, PC, Plan, Job
  <2>7. \A q \in Actor : BufferOK(q)'
    BY <1>5, <2>0 DEF FileFirst, Structure, BufferOK, HandlerOK, TypeOK, Working, PC
  <2> QED BY <2>1, <2>2, <2>3, <2>4, <2>5, <2>6, <2>7 DEF Structure
<1>6. ASSUME NEW c \in Client, NEW leg \in Leg, NEW level \in Level, File(c,
      leg, level) PROVE Structure'
  <2>1. TypeOK'
    BY <1>6 DEF File, Meets, Structure, TypeOK, PC, Plan, Job, HandlerOK,
       BufferOK, Working, PlanHasRow
  <2>2. CrashOK'
    BY <1>6 DEF File, Meets, Structure, CrashOK, TypeOK
  <2>3. RowsOK'
    BY <1>6 DEF File, Meets, Structure, RowsOK, TypeOK, PlanHasRow, HandlerOK,
       BufferOK, Working, PC, Plan
  <2>4. OwnerOK'
    BY <1>6 DEF File, Meets, Structure, OwnerOK, TypeOK, HandlerOK, Working, PC
  <2>5. PlanHasRow'
    BY <1>6 DEF File, Meets, Structure, PlanHasRow, TypeOK, RowsOK, HandlerOK,
       BufferOK, Same, Working, PC, Plan
  <2>6. \A q \in Actor : HandlerOK(q)'
    BY <1>6 DEF File, Meets, Structure, HandlerOK, CrashOK, TypeOK, Working,
       PC, Plan, Job
  <2>7. \A q \in Actor : BufferOK(q)'
    BY <1>6 DEF File, Meets, Structure, BufferOK, HandlerOK, CrashOK, TypeOK,
       RowsOK, PlanHasRow, Same, Working, PC, Plan, Job
  <2> QED BY <2>1, <2>2, <2>3, <2>4, <2>5, <2>6, <2>7 DEF Structure
<1>7. ASSUME NEW c \in Client, Insert(c) PROVE Structure'
  <2> DEFINE new == buffer[c]
             saved == IF new.id = 0 THEN [new EXCEPT !.id = NextId] ELSE new
             ok == new.id = 0 => row[new.callsign] = None
  <2>0. /\ new \in Plan /\ saved \in Plan /\ saved.id # 0
        /\ saved.callsign = new.callsign /\ saved.cid = new.cid
        /\ saved # None /\ new.callsign \in Client
        /\ new.id # 0 => /\ row[new.callsign] # None /\ saved.id = new.id
                         /\ Same(saved, row[new.callsign])
        /\ ~simulator /\ plan[c] = None /\ account[c] # None
    <3>1. /\ new \in Plan /\ new.callsign \in Client
          /\ new.id # 0 => row[new.callsign] # None /\ Same(new, row[new.callsign])
          /\ ~simulator /\ plan[c] = None /\ account[c] # None
      BY <1>7 DEF Insert, Structure, HandlerOK, BufferOK, TypeOK, Working, PC, Plan
    <3>2. NextId \in Nat /\ NextId # 0
      BY NextIdPositive DEF Structure
    <3>3. /\ [new EXCEPT !.id = NextId] \in Plan
          /\ [new EXCEPT !.id = NextId].id = NextId
          /\ [new EXCEPT !.id = NextId].callsign = new.callsign
          /\ [new EXCEPT !.id = NextId].cid = new.cid
      BY <3>1, <3>2 DEF Plan
    <3> QED BY <3>1, <3>2, <3>3
  <2> HIDE DEF saved
  <2>s. /\ row' = IF ok THEN [row EXCEPT ![new.callsign] = saved] ELSE row
        /\ plan' = IF ok THEN [plan EXCEPT ![c] = saved] ELSE plan
        /\ contended' = contended \cup Loads(c, new.callsign)
        /\ pc[c] = "insert" /\ Finish(c)
        /\ UNCHANGED <<simulator, account, commands, overlapped>>
    BY <1>7 DEF Insert, saved
  <2>1. TypeOK'
    BY <2>0, <2>s DEF Loads, Structure, TypeOK, PC
  <2>2. CrashOK'
    BY <2>s DEF Structure, CrashOK, TypeOK
  <2>3. RowsOK'
    <3> DEFINE S == {k \in Client : row[k] # None}
    <3>1. IsFiniteSet(S) /\ IsFiniteSet(S \cup {new.callsign})
      BY FS_AddElement DEF Structure, RowsOK
    <3>2. {k \in Client : row'[k] # None} = IF ok THEN S \cup {new.callsign} ELSE S
      BY <2>0, <2>s DEF Structure, TypeOK
    <3>3. IsFiniteSet({k \in Client : row'[k] # None})
      BY <3>1, <3>2
    <3>4. \A k \in Client : row'[k] # None => row'[k].callsign = k /\ row'[k].id # 0
      BY <2>0, <2>s DEF Structure, RowsOK, TypeOK
    <3> QED BY <3>3, <3>4 DEF RowsOK
  <2>4. OwnerOK'
    BY <2>0, <2>s DEF Structure, OwnerOK, TypeOK
  <2>5. PlanHasRow'
    BY <2>0, <2>s DEF Structure, PlanHasRow, TypeOK, RowsOK, Same, Plan
  <2>6. \A q \in Actor : HandlerOK(q)'
    BY <2>0, <2>s DEF Structure, HandlerOK, TypeOK, Working, PC, Plan, Job
  <2>7. \A q \in Actor : BufferOK(q)'
    BY <2>0, <2>s DEF Structure, BufferOK, HandlerOK, TypeOK, RowsOK, Same, Working, PC,
       Plan, Job
  <2> QED BY <2>1, <2>2, <2>3, <2>4, <2>5, <2>6, <2>7 DEF Structure
<1>8. ASSUME NEW c \in Client, Unlock(c) PROVE Structure'
  <2> DEFINE d == c
             new == [plan[c] EXCEPT !.locked = FALSE]
  <2>0. /\ d \in Object /\ plan[d] \in Plan /\ plan[d] # None
        /\ new \in Plan /\ new # None /\ Same(new, plan[d])
        /\ plan' = [plan EXCEPT ![d] = new]
    <3>1. /\ d \in Object /\ plan[d] \in Plan /\ plan[d] # None
      BY <1>8, StructureFacts
         DEF Unlock, Working, PC, Job, Structure, TypeOK, HandlerOK
    <3>2. new \in Plan /\ new # None
      BY <3>1, PlanEdits
    <3>3. Same(new, plan[d])
      BY <3>1 DEF Same, Plan
    <3>4. plan' = [plan EXCEPT ![d] = new]
      BY <1>8 DEF Unlock
    <3> QED BY <3>1, <3>2, <3>3, <3>4
  <2>s. /\ pc[c] = "unlock" /\ pc' = [pc EXCEPT ![c] = "check"]
        /\ UNCHANGED <<simulator, account, row, job, buffer, commands, contended, overlapped>>
    BY <1>8 DEF Unlock
  <2> HIDE DEF new
  <2>1. TypeOK'
    BY <2>0, <2>s DEF Structure, TypeOK, PC, Job, Same
  <2>2. CrashOK'
    BY <2>0, <2>s DEF Structure, CrashOK, TypeOK
  <2>3. RowsOK'
    BY <2>0, <2>s DEF Structure, RowsOK, TypeOK, PlanHasRow, HandlerOK,
       BufferOK, Working, PC, Plan
  <2>4. OwnerOK'
    BY <2>0, <2>s DEF Structure, OwnerOK, TypeOK, HandlerOK, Working, PC
  <2>5. PlanHasRow'
    BY <2>0, <2>s DEF Structure, PlanHasRow, TypeOK, RowsOK, HandlerOK,
       BufferOK, Same, Working, PC, Plan
  <2>6. \A q \in Actor : HandlerOK(q)'
    BY <2>0, <2>s DEF Structure, HandlerOK, CrashOK, TypeOK, Working, PC, Plan,
       Job
  <2>7. \A q \in Actor : BufferOK(q)'
    BY <2>0, <2>s DEF Structure, BufferOK, HandlerOK, CrashOK, TypeOK, RowsOK,
       PlanHasRow, Same, Working, PC, Plan, Job
  <2> QED BY <2>1, <2>2, <2>3, <2>4, <2>5, <2>6, <2>7 DEF Structure
<1>9. ASSUME NEW c \in Client, Check(c) PROVE Structure'
  <2>1. TypeOK'
    BY <1>9 DEF Check, Structure, TypeOK, PC, Plan, Job, HandlerOK, BufferOK,
       Working, PlanHasRow
  <2>2. CrashOK'
    BY <1>9 DEF Check, Structure, CrashOK, TypeOK
  <2>3. RowsOK'
    BY <1>9 DEF Check, Structure, RowsOK, TypeOK, PlanHasRow, HandlerOK,
       BufferOK, Working, PC, Plan
  <2>4. OwnerOK'
    BY <1>9 DEF Check, Structure, OwnerOK, TypeOK, HandlerOK, Working, PC
  <2>5. PlanHasRow'
    BY <1>9 DEF Check, Structure, PlanHasRow, TypeOK, RowsOK, HandlerOK,
       BufferOK, Same, Working, PC, Plan
  <2>6. \A q \in Actor : HandlerOK(q)'
    BY <1>9 DEF Check, Structure, HandlerOK, CrashOK, TypeOK, Working, PC,
       Plan, Job
  <2>7. \A q \in Actor : BufferOK(q)'
    BY <1>9 DEF Check, Structure, BufferOK, HandlerOK, CrashOK, TypeOK, RowsOK,
       PlanHasRow, Same, Working, PC, Plan, Job
  <2> QED BY <2>1, <2>2, <2>3, <2>4, <2>5, <2>6, <2>7 DEF Structure
<1>10. ASSUME NEW p \in Controller, NEW c \in Client, EditMissing(p, c) PROVE
      Structure'
  <2>1. TypeOK'
    BY <1>10 DEF EditMissing, Structure, TypeOK, PC, Plan, Job, HandlerOK,
       BufferOK, Working, PlanHasRow
  <2>2. CrashOK'
    BY <1>10 DEF EditMissing, Structure, CrashOK, TypeOK
  <2>3. RowsOK'
    BY <1>10 DEF EditMissing, Structure, RowsOK, TypeOK, PlanHasRow, HandlerOK,
       BufferOK, Working, PC, Plan
  <2>4. OwnerOK'
    BY <1>10 DEF EditMissing, Structure, OwnerOK, TypeOK, HandlerOK, Working,
       PC
  <2>5. PlanHasRow'
    BY <1>10 DEF EditMissing, Structure, PlanHasRow, TypeOK, RowsOK, HandlerOK,
       BufferOK, Same, Working, PC, Plan
  <2>6. \A q \in Actor : HandlerOK(q)'
    BY <1>10 DEF EditMissing, Structure, HandlerOK, CrashOK, TypeOK, Working,
       PC, Plan, Job
  <2>7. \A q \in Actor : BufferOK(q)'
    BY <1>10 DEF EditMissing, Structure, BufferOK, HandlerOK, CrashOK, TypeOK,
       RowsOK, PlanHasRow, Same, Working, PC, Plan, Job
  <2> QED BY <2>1, <2>2, <2>3, <2>4, <2>5, <2>6, <2>7 DEF Structure
<1>11. ASSUME NEW p \in Controller, NEW c \in Object, NEW level \in Level,
      AssignLevel(p, c, level) PROVE Structure'
  <2> DEFINE d == c
             new == [plan[c] EXCEPT !.level = level]
  <2>0. /\ d \in Object /\ plan[d] \in Plan /\ plan[d] # None
        /\ new \in Plan /\ new # None /\ Same(new, plan[d])
        /\ plan' = [plan EXCEPT ![d] = new]
    <3>1. /\ d \in Object /\ plan[d] \in Plan /\ plan[d] # None
      BY <1>11, StructureFacts
         DEF AssignLevel, Working, PC, Job, Structure, TypeOK, HandlerOK
    <3>2. new \in Plan /\ new # None
      BY <3>1, PlanEdits
    <3>3. Same(new, plan[d])
      BY <3>1 DEF Same, Plan
    <3>4. plan' = [plan EXCEPT ![d] = new]
      BY <1>11 DEF AssignLevel
    <3> QED BY <3>1, <3>2, <3>3, <3>4
  <2>s. /\ ~simulator /\ Start(p, c, None, level, "assign")
        /\ contended' = contended \cup Meets(p, c)
        /\ overlapped' = overlapped \cup Joins(c)
        /\ UNCHANGED <<simulator, account, row, buffer>>
    BY <1>11 DEF AssignLevel
  <2> HIDE DEF new
  <2>1. TypeOK'
    BY <2>0, <2>s DEF Meets, Joins, Structure, TypeOK, PC, Job, Same, Plan
  <2>2. CrashOK'
    BY <2>0, <2>s DEF Meets, Structure, CrashOK, TypeOK
  <2>3. RowsOK'
    BY <2>0, <2>s DEF Meets, Structure, RowsOK, TypeOK, PlanHasRow, HandlerOK,
       BufferOK, Working, PC, Plan
  <2>4. OwnerOK'
    BY <2>0, <2>s DEF Meets, Structure, OwnerOK, TypeOK, HandlerOK, Working, PC
  <2>5. PlanHasRow'
    BY <2>0, <2>s DEF Meets, Structure, PlanHasRow, TypeOK, RowsOK, HandlerOK,
       BufferOK, Same, Working, PC, Plan
  <2>6. \A q \in Actor : HandlerOK(q)'
    BY <2>0, <2>s DEF Meets, Structure, HandlerOK, CrashOK, TypeOK, Working,
       PC, Plan, Job
  <2>7. \A q \in Actor : BufferOK(q)'
    BY <2>0, <2>s DEF Meets, Structure, BufferOK, HandlerOK, CrashOK, TypeOK,
       RowsOK, PlanHasRow, Same, Working, PC, Plan, Job
  <2> QED BY <2>1, <2>2, <2>3, <2>4, <2>5, <2>6, <2>7 DEF Structure
<1>12. ASSUME NEW p \in Controller, NEW c \in Object, NEW leg \in Leg, NEW
      level \in Level, EditPlan(p, c, leg, level) PROVE Structure'
  <2> DEFINE d == c
             new == [plan[c] EXCEPT !.locked = ~simulator]
  <2>0. /\ d \in Object /\ plan[d] \in Plan /\ plan[d] # None
        /\ new \in Plan /\ new # None /\ Same(new, plan[d])
        /\ plan' = [plan EXCEPT ![d] = new]
    <3>1. /\ d \in Object /\ plan[d] \in Plan /\ plan[d] # None /\ simulator \in BOOLEAN
      BY <1>12, StructureFacts
         DEF EditPlan, Working, PC, Job, Structure, TypeOK, HandlerOK
    <3>2. new \in Plan /\ new # None
      BY <3>1, PlanEdits
    <3>3. Same(new, plan[d])
      BY <3>1 DEF Same, Plan
    <3>4. plan' = [plan EXCEPT ![d] = new]
      BY <1>12 DEF EditPlan
    <3> QED BY <3>1, <3>2, <3>3, <3>4
  <2>s. /\ Start(p, c, leg, level, "leg")
        /\ contended' = contended \cup Meets(p, c)
        /\ overlapped' = overlapped \cup Joins(c)
        /\ UNCHANGED <<simulator, account, row, buffer>>
    BY <1>12 DEF EditPlan
  <2> HIDE DEF new
  <2>1. TypeOK'
    BY <2>0, <2>s DEF Meets, Joins, Structure, TypeOK, PC, Job, Same, Plan
  <2>2. CrashOK'
    BY <2>0, <2>s DEF Meets, Structure, CrashOK, TypeOK
  <2>3. RowsOK'
    BY <2>0, <2>s DEF Meets, Structure, RowsOK, TypeOK, PlanHasRow, HandlerOK,
       BufferOK, Working, PC, Plan
  <2>4. OwnerOK'
    BY <2>0, <2>s DEF Meets, Structure, OwnerOK, TypeOK, HandlerOK, Working, PC
  <2>5. PlanHasRow'
    BY <2>0, <2>s DEF Meets, Structure, PlanHasRow, TypeOK, RowsOK, HandlerOK,
       BufferOK, Same, Working, PC, Plan
  <2>6. \A q \in Actor : HandlerOK(q)'
    BY <2>0, <2>s DEF Meets, Structure, HandlerOK, CrashOK, TypeOK, Working,
       PC, Plan, Job
  <2>7. \A q \in Actor : BufferOK(q)'
    BY <2>0, <2>s DEF Meets, Structure, BufferOK, HandlerOK, CrashOK, TypeOK,
       RowsOK, PlanHasRow, Same, Working, PC, Plan, Job
  <2> QED BY <2>1, <2>2, <2>3, <2>4, <2>5, <2>6, <2>7 DEF Structure
<1>13. ASSUME NEW p \in Controller, AssignLock(p) PROVE Structure'
  <2> DEFINE d == job[p].client
             new == [plan[d] EXCEPT !.locked = TRUE]
  <2>0. /\ d \in Object /\ plan[d] \in Plan /\ plan[d] # None
        /\ new \in Plan /\ new # None /\ Same(new, plan[d])
        /\ plan' = [plan EXCEPT ![d] = new]
    <3>1. /\ d \in Object /\ plan[d] \in Plan /\ plan[d] # None
      BY <1>13, StructureFacts
         DEF AssignLock, Working, PC, Job, Structure, TypeOK, HandlerOK
    <3>2. new \in Plan /\ new # None
      BY <3>1, PlanEdits
    <3>3. Same(new, plan[d])
      BY <3>1 DEF Same, Plan
    <3>4. plan' = [plan EXCEPT ![d] = new]
      BY <1>13 DEF AssignLock
    <3> QED BY <3>1, <3>2, <3>3, <3>4
  <2>s. /\ pc[p] = "assign" /\ pc' = [pc EXCEPT ![p] = "update"]
        /\ UNCHANGED <<simulator, account, row, job, buffer, commands, contended, overlapped>>
    BY <1>13 DEF AssignLock
  <2> HIDE DEF new
  <2>1. TypeOK'
    BY <2>0, <2>s DEF Structure, TypeOK, PC, Job, Same
  <2>2. CrashOK'
    BY <2>0, <2>s DEF Structure, CrashOK, TypeOK
  <2>3. RowsOK'
    BY <2>0, <2>s DEF Structure, RowsOK, TypeOK, PlanHasRow, HandlerOK,
       BufferOK, Working, PC, Plan
  <2>4. OwnerOK'
    BY <2>0, <2>s DEF Structure, OwnerOK, TypeOK, HandlerOK, Working, PC
  <2>5. PlanHasRow'
    BY <2>0, <2>s DEF Structure, PlanHasRow, TypeOK, RowsOK, HandlerOK,
       BufferOK, Same, Working, PC, Plan
  <2>6. \A q \in Actor : HandlerOK(q)'
    BY <2>0, <2>s DEF Structure, HandlerOK, CrashOK, TypeOK, Working, PC, Plan,
       Job
  <2>7. \A q \in Actor : BufferOK(q)'
    BY <2>0, <2>s DEF Structure, BufferOK, HandlerOK, CrashOK, TypeOK, RowsOK,
       PlanHasRow, Same, Working, PC, Plan, Job
  <2> QED BY <2>1, <2>2, <2>3, <2>4, <2>5, <2>6, <2>7 DEF Structure
<1>14. ASSUME NEW p \in Controller, AssignUpdate(p) PROVE Structure'
  <2> DEFINE d == job[p].client
             k == plan[d].callsign
             new == [row[k] EXCEPT !.level = job[p].level, !.locked = TRUE]
  <2>0. /\ d \in Object /\ plan[d] \in Plan /\ k \in Client /\ row[k] \in Plan
        /\ row[k] # None /\ new \in Plan /\ new # None /\ Same(new, row[k])
        /\ row' = [row EXCEPT ![k] = new]
    <3>1. d \in Object /\ plan[d] \in Plan /\ k \in Client /\ job[p].level \in Level
      BY <1>14, StructureFacts DEF AssignUpdate, Working, PC, Job, Plan
    <3>2. row[k] \in Plan /\ row[k] # None
      BY <1>14, <3>1, StructureFacts
         DEF AssignUpdate, Working, PC, Structure, HandlerOK, PlanHasRow
    <3>3. new \in Plan /\ new # None
      BY <3>1, <3>2, PlanEdits
    <3>4. Same(new, row[k])
      BY <3>2 DEF Same, Plan
    <3>5. row' = [row EXCEPT ![k] = new]
      BY <1>14 DEF AssignUpdate
    <3> QED BY <3>1, <3>2, <3>3, <3>4, <3>5
  <2>s. pc[p] = "update" /\ Finish(p) /\ UNCHANGED <<simulator, account, plan, commands, contended, overlapped>>
    BY <1>14 DEF AssignUpdate
  <2> HIDE DEF new
  <2>1. TypeOK'
    BY <2>0, <2>s DEF Structure, TypeOK, PC, Plan, Job, HandlerOK, BufferOK,
       Working, PlanHasRow
  <2>2. CrashOK'
    BY <2>0, <2>s DEF Structure, CrashOK, TypeOK
  <2>3. RowsOK'
    <3>1. {x \in Client : row'[x] # None} = {x \in Client : row[x] # None}
      BY <2>0 DEF Structure, TypeOK
    <3> QED BY <2>0, <3>1 DEF Structure, RowsOK, Same, TypeOK
  <2>4. OwnerOK'
    BY <2>0, <2>s DEF Structure, OwnerOK, TypeOK, HandlerOK, Working, PC
  <2>5. PlanHasRow'
    BY <2>0, <2>s DEF Structure, PlanHasRow, TypeOK, RowsOK, HandlerOK,
       BufferOK, Same, Working, PC, Plan
  <2>6. \A q \in Actor : HandlerOK(q)'
    BY <2>0, <2>s DEF Structure, HandlerOK, CrashOK, TypeOK, Working, PC, Plan,
       Job
  <2>7. \A q \in Actor : BufferOK(q)'
    BY <2>0, <2>s DEF Structure, BufferOK, HandlerOK, CrashOK, TypeOK, RowsOK,
       PlanHasRow, Same, Working, PC, Plan, Job
  <2> QED BY <2>1, <2>2, <2>3, <2>4, <2>5, <2>6, <2>7 DEF Structure
<1>15. ASSUME NEW p \in Actor, WriteLeg(p) PROVE Structure'
  <2> DEFINE d == job[p].client
             new == [plan[d] EXCEPT !.leg = job[p].leg]
  <2>0. /\ d \in Object /\ plan[d] \in Plan /\ plan[d] # None
        /\ new \in Plan /\ new # None /\ Same(new, plan[d])
        /\ plan' = [plan EXCEPT ![d] = new]
    <3>1. /\ d \in Object /\ plan[d] \in Plan /\ plan[d] # None /\ job[p].leg \in Leg
      BY <1>15, StructureFacts
         DEF WriteLeg, Working, PC, Job, Structure, TypeOK, HandlerOK
    <3>2. new \in Plan /\ new # None
      BY <3>1, PlanEdits
    <3>3. Same(new, plan[d])
      BY <3>1 DEF Same, Plan
    <3>4. plan' = [plan EXCEPT ![d] = new]
      BY <1>15 DEF WriteLeg
    <3> QED BY <3>1, <3>2, <3>3, <3>4
  <2>s. /\ pc[p] = "leg" /\ pc' = [pc EXCEPT ![p] = "rest"]
        /\ UNCHANGED <<simulator, account, row, job, buffer, commands, contended, overlapped>>
    BY <1>15 DEF WriteLeg
  <2> HIDE DEF new
  <2>1. TypeOK'
    BY <2>0, <2>s DEF Structure, TypeOK, PC, Job, Same
  <2>2. CrashOK'
    BY <2>0, <2>s DEF Structure, CrashOK, TypeOK
  <2>3. RowsOK'
    BY <2>0, <2>s DEF Structure, RowsOK, TypeOK, PlanHasRow, HandlerOK,
       BufferOK, Working, PC, Plan
  <2>4. OwnerOK'
    BY <2>0, <2>s DEF Structure, OwnerOK, TypeOK, HandlerOK, Working, PC
  <2>5. PlanHasRow'
    BY <2>0, <2>s DEF Structure, PlanHasRow, TypeOK, RowsOK, HandlerOK,
       BufferOK, Same, Working, PC, Plan
  <2>6. \A q \in Actor : HandlerOK(q)'
    BY <2>0, <2>s DEF Structure, HandlerOK, CrashOK, TypeOK, Working, PC, Plan,
       Job
  <2>7. \A q \in Actor : BufferOK(q)'
    BY <2>0, <2>s DEF Structure, BufferOK, HandlerOK, CrashOK, TypeOK, RowsOK,
       PlanHasRow, Same, Working, PC, Plan, Job
  <2> QED BY <2>1, <2>2, <2>3, <2>4, <2>5, <2>6, <2>7 DEF Structure
<1>16. ASSUME NEW p \in Actor, WriteRest(p) PROVE Structure'
  <2> DEFINE d == job[p].client
             new == [plan[d] EXCEPT !.level = job[p].level]
  <2>0. /\ d \in Object /\ plan[d] \in Plan /\ plan[d] # None
        /\ new \in Plan /\ new # None /\ Same(new, plan[d])
        /\ plan' = [plan EXCEPT ![d] = new]
    <3>1. /\ d \in Object /\ plan[d] \in Plan /\ plan[d] # None /\ job[p].level \in Level
      BY <1>16, StructureFacts
         DEF WriteRest, Working, PC, Job, Structure, TypeOK, HandlerOK
    <3>2. new \in Plan /\ new # None
      BY <3>1, PlanEdits
    <3>3. Same(new, plan[d])
      BY <3>1 DEF Same, Plan
    <3>4. plan' = [plan EXCEPT ![d] = new]
      BY <1>16 DEF WriteRest
    <3> QED BY <3>1, <3>2, <3>3, <3>4
  <2>s. /\ pc[p] = "rest"
        /\ IF simulator THEN Finish(p)
           ELSE pc' = [pc EXCEPT ![p] = "save"] /\ UNCHANGED <<job, buffer>>
        /\ UNCHANGED <<simulator, account, row, commands, contended, overlapped>>
    BY <1>16 DEF WriteRest
  <2> HIDE DEF new
  <2>1. TypeOK'
    <3>1. CASE simulator
      BY <2>0, <2>s, <3>1 DEF Structure, TypeOK, PC, Same
    <3>2. CASE ~simulator
      BY <2>0, <2>s, <3>2 DEF Structure, TypeOK, PC, Same
    <3> QED BY <3>1, <3>2
  <2>2. CrashOK'
    BY <2>0, <2>s DEF Structure, CrashOK, TypeOK
  <2>3. RowsOK'
    BY <2>0, <2>s DEF Structure, RowsOK, TypeOK, PlanHasRow, HandlerOK,
       BufferOK, Working, PC, Plan
  <2>4. OwnerOK'
    BY <2>0, <2>s DEF Structure, OwnerOK, TypeOK, HandlerOK, Working, PC
  <2>5. PlanHasRow'
    BY <2>0, <2>s DEF Structure, PlanHasRow, TypeOK, RowsOK, HandlerOK,
       BufferOK, Same, Working, PC, Plan
  <2>6. \A q \in Actor : HandlerOK(q)'
    BY <2>0, <2>s DEF Structure, HandlerOK, CrashOK, TypeOK, Working, PC, Plan,
       Job
  <2>7. \A q \in Actor : BufferOK(q)'
    <3>1. CASE simulator
      BY <2>0, <2>s, <3>1 DEF Structure, BufferOK, HandlerOK, TypeOK, Same,
         Working, PC, Plan, Job
    <3>2. CASE ~simulator
      BY <2>0, <2>s, <3>2 DEF Structure, BufferOK, HandlerOK, TypeOK, Same,
         Working, PC, Plan, Job
    <3> QED BY <3>1, <3>2
  <2> QED BY <2>1, <2>2, <2>3, <2>4, <2>5, <2>6, <2>7 DEF Structure
<1>17. ASSUME NEW p \in Actor, Save(p) PROVE Structure'
  <2>1. TypeOK'
    BY <1>17 DEF Save, Structure, TypeOK, PC, Plan, Job, HandlerOK, BufferOK,
       Working, PlanHasRow
  <2>2. CrashOK'
    BY <1>17 DEF Save, Structure, CrashOK, TypeOK
  <2>3. RowsOK'
    BY <1>17 DEF Save, Structure, RowsOK, TypeOK, PlanHasRow, HandlerOK,
       BufferOK, Working, PC, Plan
  <2>4. OwnerOK'
    BY <1>17 DEF Save, Structure, OwnerOK, TypeOK, HandlerOK, Working, PC
  <2>5. PlanHasRow'
    BY <1>17 DEF Save, Structure, PlanHasRow, TypeOK, RowsOK, HandlerOK,
       BufferOK, Same, Working, PC, Plan
  <2>6. \A q \in Actor : HandlerOK(q)'
    BY <1>17 DEF Save, Structure, HandlerOK, CrashOK, TypeOK, Working, PC,
       Plan, Job
  <2>7. \A q \in Actor : BufferOK(q)'
    BY <1>17 DEF Save, Structure, BufferOK, HandlerOK, CrashOK, TypeOK, RowsOK,
       PlanHasRow, Same, Working, PC, Plan, Job
  <2> QED BY <2>1, <2>2, <2>3, <2>4, <2>5, <2>6, <2>7 DEF Structure
<1>18. ASSUME NEW p \in Actor, Commit(p) PROVE Structure'
  <2> DEFINE k == buffer[p].callsign
  <2>0. /\ buffer[p] \in Plan /\ buffer[p] # None /\ k \in Client
        /\ row[k] # None /\ Same(buffer[p], row[k])
        /\ row' = [row EXCEPT ![k] = buffer[p]]
    BY <1>18, StructureFacts
       DEF Commit, Working, PC, Job, Plan, Same, Structure, TypeOK, HandlerOK, BufferOK,
           PlanHasRow, RowsOK
  <2>1. TypeOK'
    BY <1>18, <2>0 DEF Commit, Structure, TypeOK, PC, Plan, Job, HandlerOK,
       BufferOK, Working, PlanHasRow
  <2>2. CrashOK'
    BY <1>18, <2>0 DEF Commit, Structure, CrashOK, TypeOK
  <2>3. RowsOK'
    <3>1. {x \in Client : row'[x] # None} = {x \in Client : row[x] # None}
      BY <2>0 DEF Structure, TypeOK
    <3> QED BY <2>0, <3>1 DEF Structure, RowsOK, Same, TypeOK
  <2>4. OwnerOK'
    BY <1>18, <2>0 DEF Commit, Structure, OwnerOK, TypeOK, HandlerOK, Working,
       PC
  <2>5. PlanHasRow'
    BY <1>18, <2>0 DEF Commit, Structure, PlanHasRow, TypeOK, Same
  <2>6. \A q \in Actor : HandlerOK(q)'
    BY <1>18, <2>0 DEF Commit, Structure, HandlerOK, CrashOK, TypeOK, Working,
       PC, Plan, Job
  <2>7. \A q \in Actor : BufferOK(q)'
    BY <1>18, <2>0 DEF Commit, Structure, BufferOK, HandlerOK, CrashOK, TypeOK,
       RowsOK, PlanHasRow, Same, Working, PC, Plan, Job
  <2> QED BY <2>1, <2>2, <2>3, <2>4, <2>5, <2>6, <2>7 DEF Structure
<1>19. ASSUME NEW p \in Actor, WriteFails(p) PROVE Structure'
  <2>1. TypeOK'
    BY <1>19 DEF WriteFails, Structure, TypeOK, PC, Plan, Job, HandlerOK,
       BufferOK, Working, PlanHasRow
  <2>2. CrashOK'
    BY <1>19 DEF WriteFails, Structure, CrashOK, TypeOK
  <2>3. RowsOK'
    BY <1>19 DEF WriteFails, Structure, RowsOK, TypeOK, PlanHasRow, HandlerOK,
       BufferOK, Working, PC, Plan
  <2>4. OwnerOK'
    BY <1>19 DEF WriteFails, Structure, OwnerOK, TypeOK, HandlerOK, Working, PC
  <2>5. PlanHasRow'
    BY <1>19 DEF WriteFails, Structure, PlanHasRow, TypeOK, RowsOK, HandlerOK,
       BufferOK, Same, Working, PC, Plan
  <2>6. \A q \in Actor : HandlerOK(q)'
    BY <1>19 DEF WriteFails, Structure, HandlerOK, CrashOK, TypeOK, Working,
       PC, Plan, Job
  <2>7. \A q \in Actor : BufferOK(q)'
    BY <1>19 DEF WriteFails, Structure, BufferOK, HandlerOK, CrashOK, TypeOK,
       RowsOK, PlanHasRow, Same, Working, PC, Plan, Job
  <2> QED BY <2>1, <2>2, <2>3, <2>4, <2>5, <2>6, <2>7 DEF Structure
<1> QED
  BY <1>0, <1>1, <1>2, <1>3, <1>4, <1>5, <1>6, <1>7, <1>8, <1>9, <1>10, <1>11,
     <1>12, <1>13, <1>14, <1>15, <1>16, <1>17, <1>18, <1>19, <1>20 DEF Next,
     PilotStep, ControllerStep, WriteStep

-----------------------------------------------------------------------------
(* Row and object. *)

\* The step is p's, on the object of d: other handlers and objects are left
\* alone, and the row that changes is the one the object stands for.
Touches(p, d) ==
  /\ simulator' = simulator /\ contended \subseteq contended'
  /\ \A q \in Actor \ {p} : pc'[q] = pc[q] /\ job'[q] = job[q] /\ buffer'[q] = buffer[q]
  /\ \A e \in Object \ {d} : plan'[e] = plan[e]
  /\ job[p] # None => job[p].client = d
  /\ job'[p] # None => job'[p].client = d
  /\ \A k \in Client : row'[k] # row[k] => plan'[d] # None /\ plan'[d].callsign = k
  /\ plan'[d] # None => \/ plan[d] # None /\ plan'[d].callsign = plan[d].callsign
                        \/ Loads(d, plan'[d].callsign) \subseteq contended'

\* The object of d is the only one for its row, and nobody but p works on it.
Sole(p, d) ==
  /\ \A e \in Object \ {d} : plan[e] # None => plan[e].callsign # plan'[d].callsign
  /\ \A q \in Actor \ {p} : ~WorksOn(q, d)

\* A step on the object of d keeps SavedOK for every other object, and for d
\* when p keeps track of it.
LEMMA SavedStep ==
  ASSUME PlansInv, NEW p \in Actor, NEW d \in Object, Touches(p, d),
         plan' \in [Object -> Plan \cup {None}],
         ~simulator /\ plan'[d] # None /\ plan'[d].callsign \notin contended' =>
           /\ Sole(p, d)
           /\ job'[p] = None => row'[plan'[d].callsign] = plan'[d]
           /\ job'[p] # None => Ahead(p, d, row[plan[d].callsign])'
  PROVE  \A c \in Object : SavedOK(c)'
<1> USE DEF Touches
<1>1. SavedOK(d)'
  BY DEF SavedOK, Sole, Alone, WorksOn
<1>2. ASSUME NEW c \in Object \ {d} PROVE SavedOK(c)'
  <2> SUFFICES ASSUME ~simulator, plan[c] # None, plan[c].callsign \notin contended'
               PROVE  SavedOK(c)'
    BY <1>2 DEF SavedOK
  <2> DEFINE k == plan[c].callsign
  <2>0. k \in Client /\ plan'[c] = plan[c] /\ k \notin contended
    BY <1>2 DEF PlansInv, Structure, TypeOK, Plan
  <2>1. SavedOK(c) /\ Alone(c, k)
    BY <2>0 DEF PlansInv, SavedOK
  <2>2. plan'[d] # None => plan'[d].callsign # k
    BY <1>2, <2>0, <2>1 DEF Alone, Loads, Holders
  <2>3. row'[k] = row[k] /\ Alone(c, k)'
    BY <1>2, <2>0, <2>1, <2>2 DEF Alone
  <2>4. \A q \in Actor : WorksOn(q, c)' <=> WorksOn(q, c)
    BY <1>2 DEF WorksOn
  <2>5. \A q \in Actor : WorksOn(q, c) => pc'[q] = pc[q] /\ job'[q] = job[q] /\ buffer'[q] = buffer[q]
    BY <1>2 DEF WorksOn
  <2>6. \A q \in Actor : WorksOn(q, c) => Ahead(q, c, row[plan[c].callsign])'
    <3> TAKE q \in Actor
    <3> HAVE WorksOn(q, c)
    <3>1. Ahead(q, c, row[k])
      BY <2>0, <2>1 DEF SavedOK
    <3>2. /\ pc'[q] = pc[q] /\ job'[q] = job[q] /\ buffer'[q] = buffer[q]
          /\ row'[plan'[c].callsign] = row[k] /\ plan'[c] = plan[c]
      BY <2>0, <2>3, <2>5
    <3> QED BY <3>1, <3>2, Zenon DEF Ahead
  <2> QED BY <2>0, <2>1, <2>3, <2>4, <2>6 DEF SavedOK
<1> QED BY <1>1, <1>2

\* Nothing that SavedOK reads changes, save that handlers may crash.
LEMMA SavedSame ==
  ASSUME NEW c \in Object, SavedOK(c),
         UNCHANGED <<simulator, plan, row, job, buffer, contended>>,
         \A p \in Actor : pc'[p] = pc[p] \/ pc'[p] = "crashed"
  PROVE  SavedOK(c)'
<1>1. \A p \in Actor : Ahead(p, c, row[plan[c].callsign]) => Ahead(p, c, row[plan[c].callsign])'
  <2> TAKE p \in Actor
  <2>1. CASE pc'[p] = pc[p]
    BY <2>1, Zenon DEF Ahead
  <2>2. CASE pc'[p] = "crashed"
    BY <2>2 DEF Ahead
  <2> QED BY <2>1, <2>2
<1>2. Alone(c, plan[c].callsign)' <=> Alone(c, plan[c].callsign)
  BY DEF Alone
<1>3. \A p \in Actor : WorksOn(p, c)' <=> WorksOn(p, c)
  BY DEF WorksOn
<1> QED BY <1>1, <1>2, <1>3 DEF SavedOK

\* A handler that starts on an object and does not make it contended finds
\* it alone and saved.
LEMMA Starting ==
  ASSUME PlansInv, NEW p \in Actor, NEW d \in Object, pc[p] = "idle", ~simulator,
         plan[d] # None, plan[d].callsign \notin contended \cup Meets(p, d)
  PROVE  /\ Alone(d, plan[d].callsign) /\ \A q \in Actor : ~WorksOn(q, d)
         /\ row[plan[d].callsign] = plan[d]
<1>1. SavedOK(d) /\ job[p] = None
  BY DEF PlansInv, Structure, HandlerOK
<1>2. \A q \in Actor : ~WorksOn(q, d)
  BY <1>1 DEF Meets, Holders, WorksOn
<1> QED BY <1>1, <1>2 DEF SavedOK

\* A handler at work on an uncontended object is alone with it.
LEMMA Continuing ==
  ASSUME PlansInv, NEW p \in Actor, pc[p] \in Working \ {"insert"}, ~simulator,
         plan[job[p].client].callsign \notin contended
  PROVE  LET d == job[p].client IN
         /\ d \in Object /\ WorksOn(p, d)
         /\ Alone(d, plan[d].callsign)
         /\ \A q \in Actor \ {p} : ~WorksOn(q, d)
         /\ Ahead(p, d, row[plan[d].callsign])
<1> DEFINE d == job[p].client
<1>1. d \in Object /\ WorksOn(p, d) /\ plan[d] # None
  BY StructureFacts DEF PlansInv, Structure, HandlerOK, WorksOn, Job, Working
<1>2. SavedOK(d)
  BY <1>1 DEF PlansInv
<1> QED BY <1>1, <1>2 DEF SavedOK

\* Nobody works on a client without a plan but its own session.
LEMMA Untouched ==
  ASSUME Structure, NEW c \in Client, plan[c] = None, pc[c] \in {"idle", "insert"}
  PROVE  \A q \in Actor \ {c} : ~WorksOn(q, c)
<1> SUFFICES ASSUME NEW q \in Actor \ {c}, WorksOn(q, c) PROVE FALSE
  OBVIOUS
<1>1. pc[q] \in Working
  BY DEF Structure, HandlerOK, WorksOn, CrashOK, Working, TypeOK, Actor
<1>2. pc[q] # "insert"
  BY DEF Structure, HandlerOK, WorksOn
<1> QED BY <1>1, <1>2 DEF Structure, HandlerOK, WorksOn

\* The handlers keep row and object together.
LEMMA SavedKept == PlansInv /\ [Next]_vars => \A c \in Object : SavedOK(c)'
<1> SUFFICES ASSUME PlansInv, [Next]_vars PROVE \A c \in Object : SavedOK(c)'
  OBVIOUS
<1> USE PlanAssumption DEF history
<1>t. Structure /\ Structure' /\ \A c \in Object : SavedOK(c)
  BY StructureStep DEF PlansInv
<1>a. Actor = Client \cup Controller /\ \A c \in Client : c \in Object
  BY DEF Actor, Object
<1>u. plan' \in [Object -> Plan \cup {None}]
  BY <1>t DEF Structure, TypeOK
<1>f. \A p \in Actor : p \in Client /\ job[p] # None => job[p].client = p
  BY <1>t DEF Structure, HandlerOK
<1>0. CASE UNCHANGED vars
  BY <1>0, <1>t, SavedSame DEF vars
<1>1. ASSUME NEW c \in Client, NEW a \in Account, Login(c, a)
      PROVE  \A e \in Object : SavedOK(e)'
  <2>0. PICK r : /\ plan' = [plan EXCEPT ![c] = r]
                 /\ r = None \/ /\ ~simulator /\ r \in Plan /\ r # None /\ r.id # 0
                                /\ r.callsign \in Client /\ row[r.callsign] = r
                 /\ contended' = contended \cup
                                   (IF r = None THEN {} ELSE Loads(c, r.callsign))
    BY <1>1, <1>t, FoundRow DEF Login, Structure
  <2>1. plan[c] = None /\ pc[c] = "idle" /\ job[c] = None
    BY <1>1, <1>t DEF Login, Structure, OwnerOK, HandlerOK, Actor
  <2>2. Touches(c, c)
    BY <1>1, <1>t, <2>0, <2>1 DEF Login, Touches, Structure, TypeOK
  <2>3. plan'[c] # None /\ plan'[c].callsign \notin contended' =>
          Sole(c, c) /\ row'[plan'[c].callsign] = plan'[c]
    BY <1>1, <1>t, <2>0, <2>1, Untouched DEF Login, Sole, Loads, Holders, Structure, TypeOK
  <2> QED BY <1>1, <1>t, <1>u, <2>1, <2>2, <2>3, <1>a, SavedStep DEF Login
<1>2. ASSUME NEW c \in Client, NEW a \in Account, SetUser(c, a)
      PROVE  \A e \in Object : SavedOK(e)'
  BY <1>2, <1>t, SavedSame, Zenon DEF SetUser
<1>3. ASSUME NEW c \in Client, Logout(c) PROVE \A e \in Object : SavedOK(e)'
  <2>0. PICK d \in Deleted :
          /\ plan[d] = None
          /\ plan' = [plan EXCEPT ![c] = None, ![d] = plan[c]]
          /\ job' = [p \in Actor |-> IF WorksOn(p, c)
                                     THEN [job[p] EXCEPT !.client = d]
                                     ELSE job[p]]
    BY <1>3 DEF Logout
  <2>s. UNCHANGED <<simulator, row, pc, buffer, contended>>
    BY <1>3 DEF Logout
  <2>p. /\ c # d /\ c \in Object /\ d \in Object
        /\ plan'[c] = None /\ plan'[d] = plan[c]
        /\ \A o \in Object \ {c, d} : plan'[o] = plan[o]
    BY <2>0, <1>t DEF Structure, TypeOK, Object
  <2>n. \A p \in Actor : ~WorksOn(p, d)
    <3> SUFFICES ASSUME NEW p \in Actor, WorksOn(p, d) PROVE FALSE
      OBVIOUS
    <3>1. pc[p] \in Working \ {"insert"} \/ pc[p] = "insert" \/ pc[p] = "crashed"
      BY <1>t DEF Structure, TypeOK, HandlerOK, Working, WorksOn
    <3>2. pc[p] # "crashed"
      BY <1>3, <1>t, <1>a DEF Logout, Structure, CrashOK
    <3>3. pc[p] # "insert"
      BY <1>t DEF Structure, HandlerOK, WorksOn, Object
    <3> QED BY <2>0, <3>1, <3>2, <3>3, <1>t DEF Structure, HandlerOK, WorksOn
  <2>j. ASSUME NEW p \in Actor
        PROVE  /\ WorksOn(p, c) => /\ job'[p] # None /\ job'[p].client = d
                                   /\ job'[p].level = job[p].level
               /\ ~WorksOn(p, c) => job'[p] = job[p]
    <3>1. CASE WorksOn(p, c)
      <4>1. job[p] \in Job /\ job'[p] = [job[p] EXCEPT !.client = d]
        BY <2>0, <3>1, <1>t DEF WorksOn, Structure, TypeOK
      <4>2. /\ [job[p] EXCEPT !.client = d] \in Job
            /\ [job[p] EXCEPT !.client = d].client = d
            /\ [job[p] EXCEPT !.client = d].level = job[p].level
        BY <4>1, <2>p DEF Job
      <4> QED BY <3>1, <4>1, <4>2
    <3>2. CASE ~WorksOn(p, c)
      BY <2>0, <3>2
    <3> QED BY <3>1, <3>2
  <2>w. \A p \in Actor : /\ WorksOn(p, d)' <=> WorksOn(p, c)
                         /\ ~WorksOn(p, c)'
                         /\ \A o \in Object \ {c, d} : WorksOn(p, o)' <=> WorksOn(p, o)
    BY <2>p, <2>n, <2>j DEF WorksOn
  <2>1. SavedOK(c)'
    BY <2>p DEF SavedOK
  <2>2. SavedOK(d)'
    <3> SUFFICES ASSUME ~simulator, plan[c] # None, plan[c].callsign \notin contended
                 PROVE  SavedOK(d)'
      BY <2>p, <2>s DEF SavedOK
    <3>1. SavedOK(c) /\ Alone(c, plan[c].callsign)
      BY <1>t, <2>p DEF SavedOK
    <3>2. Alone(d, plan[d].callsign)'
      BY <2>0, <2>p, <3>1 DEF Alone
    <3>3. \A p \in Actor : WorksOn(p, c) => Ahead(p, d, row[plan[d].callsign])'
      <4> TAKE p \in Actor
      <4> HAVE WorksOn(p, c)
      <4>1. Ahead(p, c, row[plan[c].callsign])
        BY <3>1 DEF SavedOK
      <4>2. /\ pc'[p] = pc[p] /\ buffer'[p] = buffer[p] /\ plan'[d] = plan[c]
            /\ row' = row /\ job'[p].level = job[p].level
        BY <2>p, <2>s, <2>j
      <4> QED BY <4>1, <4>2, Zenon DEF Ahead
    <3> QED BY <2>p, <2>s, <2>w, <3>1, <3>2, <3>3 DEF SavedOK
  <2>3. ASSUME NEW e \in Object \ {c, d} PROVE SavedOK(e)'
    <3> SUFFICES ASSUME ~simulator, plan[e] # None, plan[e].callsign \notin contended
                 PROVE  SavedOK(e)'
      BY <2>p, <2>s DEF SavedOK
    <3>1. SavedOK(e) /\ Alone(e, plan[e].callsign)
      BY <1>t DEF SavedOK
    <3>2. Alone(e, plan[e].callsign)'
      BY <2>p, <3>1 DEF Alone
    <3>3. \A p \in Actor : WorksOn(p, e) => Ahead(p, e, row[plan[e].callsign])'
      <4> TAKE p \in Actor
      <4> HAVE WorksOn(p, e)
      <4>1. Ahead(p, e, row[plan[e].callsign])
        BY <3>1 DEF SavedOK
      <4>2. /\ pc'[p] = pc[p] /\ buffer'[p] = buffer[p] /\ plan'[e] = plan[e]
            /\ row' = row /\ job'[p] = job[p]
        BY <2>p, <2>s, <2>j DEF WorksOn
      <4> QED BY <4>1, <4>2, Zenon DEF Ahead
    <3> QED BY <2>p, <2>s, <2>w, <3>1, <3>2, <3>3 DEF SavedOK
  <2> QED BY <2>1, <2>2, <2>3
<1>20. ASSUME NEW d \in Deleted, Forget(d) PROVE \A e \in Object : SavedOK(e)'
  <2>0. /\ d \in Object /\ plan'[d] = None /\ \A o \in Object \ {d} : plan'[o] = plan[o]
        /\ UNCHANGED <<simulator, row, pc, job, buffer, contended>>
    BY <1>20, <1>t DEF Forget, Structure, TypeOK, Object
  <2>1. SavedOK(d)'
    BY <2>0 DEF SavedOK
  <2>2. ASSUME NEW e \in Object \ {d} PROVE SavedOK(e)'
    <3>1. SavedOK(e) /\ plan'[e] = plan[e]
      BY <1>t, <2>0
    <3>2. Alone(e, plan[e].callsign) => Alone(e, plan[e].callsign)'
      BY <2>0, <3>1 DEF Alone
    <3>3. \A p \in Actor : Ahead(p, e, row[plan[e].callsign])
                             => Ahead(p, e, row[plan[e].callsign])'
      BY <2>0, <3>1, Zenon DEF Ahead
    <3>4. \A p \in Actor : WorksOn(p, e)' <=> WorksOn(p, e)
      BY <2>0 DEF WorksOn
    <3> QED BY <2>0, <3>1, <3>2, <3>3, <3>4 DEF SavedOK
  <2> QED BY <2>1, <2>2
<1>4. ASSUME NEW c \in Client, NEW leg \in Leg, NEW level \in Level,
             FileInMemory(c, leg, level)
      PROVE  \A e \in Object : SavedOK(e)'
  BY <1>4 DEF FileInMemory, SavedOK
<1>5. ASSUME NEW c \in Client, NEW leg \in Leg, NEW level \in Level,
             FileFirst(c, leg, level)
      PROVE  \A e \in Object : SavedOK(e)'
  <2>1. Touches(c, c) /\ plan'[c] = None
    BY <1>5, <1>t, <1>f DEF FileFirst, Start, Goto, Touches, Structure, TypeOK, Actor
  <2> QED BY <1>u, <2>1, <1>a, SavedStep
<1>6. ASSUME NEW c \in Client, NEW leg \in Leg, NEW level \in Level, File(c, leg, level)
      PROVE  \A e \in Object : SavedOK(e)'
  <2>1. Touches(c, c)
    BY <1>6, <1>t, <1>f DEF File, Start, Goto, Touches, Structure, TypeOK, Actor
  <2>2. ASSUME plan'[c].callsign \notin contended'
        PROVE  Sole(c, c) /\ Ahead(c, c, row[plan[c].callsign])' /\ job'[c] # None
    <3>1. /\ Alone(c, plan[c].callsign) /\ \A q \in Actor : ~WorksOn(q, c)
          /\ row[plan[c].callsign] = plan[c]
      BY <1>6, <1>a, <2>1, <2>2, Starting DEF File, Start, Touches
    <3>2. plan' = plan /\ row' = row
      BY <1>6 DEF File
    <3>3. pc'[c] \in {"unlock", "check"} /\ job'[c] # None
      <4>1. c \in Actor /\ c \in Object
        BY <1>a
      <4>2. [client |-> c, leg |-> leg, level |-> level] \in Job
        BY <4>1 DEF Job
      <4> QED BY <1>6, <1>t, <4>1, <4>2 DEF File, Start, Goto, Structure, TypeOK
    <3> QED BY <3>1, <3>2, <3>3 DEF Sole, Alone, Ahead
  <2> QED BY <1>u, <2>1, <2>2, <1>a, SavedStep
<1>7. ASSUME NEW c \in Client, Insert(c) PROVE \A e \in Object : SavedOK(e)'
  <2>1. plan[c] = None /\ pc[c] = "insert" /\ job[c] # None /\ job[c].client = c
    BY <1>7, <1>t, <1>f DEF Insert, Structure, HandlerOK, Working, PC, Actor
  <2>2. /\ plan'[c] # None =>
             /\ row'[plan'[c].callsign] = plan'[c]
             /\ contended' = contended \cup Loads(c, plan'[c].callsign)
             /\ \A k \in Client \ {plan'[c].callsign} : row'[k] = row[k]
        /\ plan'[c] = None => row' = row
        /\ \A e \in Object \ {c} : plan'[e] = plan[e]
    <3> DEFINE new == buffer[c]
               saved == IF new.id = 0 THEN [new EXCEPT !.id = NextId] ELSE new
               ok == new.id = 0 => row[new.callsign] = None
    <3>1. new \in Plan /\ saved.callsign = new.callsign /\ new.callsign \in Client
      BY <1>7, <1>t DEF Insert, Structure, BufferOK, TypeOK, Plan, Actor
    <3> HIDE DEF saved
    <3>2. /\ row' = IF ok THEN [row EXCEPT ![new.callsign] = saved] ELSE row
          /\ plan' = IF ok THEN [plan EXCEPT ![c] = saved] ELSE plan
          /\ contended' = contended \cup Loads(c, new.callsign)
      BY <1>7 DEF Insert, saved
    <3>3. row \in [Client -> Plan \cup {None}] /\ plan \in [Object -> Plan \cup {None}]
      BY <1>t DEF Structure, TypeOK
    <3>4. CASE ok /\ saved # None
      BY <3>1, <3>2, <3>3, <3>4, <2>1, <1>a
    <3>5. CASE ok /\ saved = None
      <4>1. FALSE
        BY <1>7, <1>t, <3>5, NextIdPositive DEF saved, Insert, Structure, BufferOK, TypeOK, Plan, Actor
      <4> QED BY <4>1
    <3>6. CASE ~ok
      BY <3>2, <3>6, <2>1
    <3> QED BY <3>4, <3>5, <3>6
  <2>3. /\ contended \subseteq contended' /\ simulator' = simulator /\ job'[c] = None
        /\ \A q \in Actor \ {c} : pc'[q] = pc[q] /\ job'[q] = job[q] /\ buffer'[q] = buffer[q]
    BY <1>7, <1>t DEF Insert, Finish, Goto, Structure, TypeOK, Actor
  <2>4. Touches(c, c)
    BY <2>1, <2>2, <2>3 DEF Touches
  <2>5. plan'[c] # None /\ plan'[c].callsign \notin contended' =>
          Sole(c, c) /\ row'[plan'[c].callsign] = plan'[c]
    BY <1>t, <2>1, <2>2, Untouched DEF Sole, Loads, Holders
  <2> QED BY <1>u, <2>3, <2>4, <2>5, <1>a, SavedStep
<1>8. ASSUME NEW c \in Client, Unlock(c) PROVE \A e \in Object : SavedOK(e)'
  <2>0. /\ plan' = [plan EXCEPT ![c] = [plan[c] EXCEPT !.locked = FALSE]]
        /\ pc' = [pc EXCEPT ![c] = "check"] /\ pc[c] = "unlock"
        /\ UNCHANGED <<simulator, row, job, buffer, contended>>
    BY <1>8 DEF Unlock, Goto
  <2>1. job[c] # None /\ job[c].client = c /\ plan[c] \in Plan /\ ~simulator
    BY <2>0, <1>t, <1>f DEF Structure, HandlerOK, TypeOK, Working, PC, Actor
  <2>2. plan'[c].callsign = plan[c].callsign /\ ~plan'[c].locked
    BY <2>0, <2>1, <1>t DEF Structure, TypeOK, Plan
  <2>3. Touches(c, c)
    BY <2>0, <2>1, <2>2, <1>t, PlanAssumption DEF Touches, Structure, TypeOK, Actor
  <2>4. ASSUME plan[c].callsign \notin contended
        PROVE  Sole(c, c) /\ Ahead(c, c, row[plan[c].callsign])'
    <3>1. Alone(c, plan[c].callsign) /\ \A q \in Actor \ {c} : ~WorksOn(q, c)
      BY <2>0, <2>1, <2>4, <1>a, Continuing DEF Working, PC
    <3>2. pc'[c] = "check"
      BY <2>0, <1>t, <1>a DEF Structure, TypeOK
    <3> QED BY <2>2, <3>1, <3>2 DEF Sole, Alone, Ahead
  <2>5. job' = job /\ contended' = contended
    BY <2>0
  <2> QED BY <1>u, <2>1, <2>2, <2>3, <2>4, <2>5, <1>a, SavedStep
<1>9. ASSUME NEW c \in Client, Check(c) PROVE \A e \in Object : SavedOK(e)'
  <2>1. /\ job[c] # None /\ job[c].client = c /\ plan[c] # None /\ ~simulator
        /\ pc[c] = "check"
    BY <1>9, <1>t, <1>f DEF Check, Structure, HandlerOK, Working, PC, Actor
  <2>2. Touches(c, c) /\ plan' = plan /\ row' = row /\ contended' = contended
    BY <1>9, <2>1, <1>t DEF Check, Finish, Goto, Touches, Structure, TypeOK, Actor
  <2>3. ASSUME plan[c].callsign \notin contended
        PROVE  /\ Sole(c, c)
               /\ job'[c] = None => row[plan[c].callsign] = plan[c]
               /\ job'[c] # None => Ahead(c, c, row[plan[c].callsign])'
    <3>1. /\ Alone(c, plan[c].callsign) /\ \A q \in Actor \ {c} : ~WorksOn(q, c)
          /\ Ahead(c, c, row[plan[c].callsign])
      BY <2>1, <2>3, Continuing DEF Working, PC, Actor
    <3>2. CASE plan[c].locked
      <4>1. job'[c] = None
        BY <1>9, <1>t, <3>2 DEF Check, Finish, Structure, TypeOK, Actor
      <4>2. row[plan[c].callsign] = plan[c]
        BY <2>1, <3>1, <3>2 DEF Ahead
      <4> QED BY <2>2, <3>1, <4>1, <4>2 DEF Sole, Alone
    <3>3. CASE ~plan[c].locked
      <4>1. pc'[c] = "leg" /\ job'[c] # None
        BY <1>9, <1>t, <2>1, <3>3 DEF Check, Goto, Structure, TypeOK, Actor
      <4> QED BY <2>2, <3>1, <3>3, <4>1 DEF Sole, Alone, Ahead
    <3> QED BY <3>2, <3>3
  <2> QED BY <1>u, <2>1, <2>2, <2>3, <1>a, SavedStep
<1>10. ASSUME NEW p \in Controller, NEW c \in Client, EditMissing(p, c)
       PROVE  \A e \in Object : SavedOK(e)'
  BY <1>10, <1>t, SavedSame DEF EditMissing
<1>11. ASSUME NEW p \in Controller, NEW c \in Object, NEW level \in Level,
              AssignLevel(p, c, level)
       PROVE  \A e \in Object : SavedOK(e)'
  <2>0. /\ plan' = [plan EXCEPT ![c] = [plan[c] EXCEPT !.level = level]]
        /\ plan[c] # None /\ ~simulator /\ Start(p, c, None, level, "assign")
        /\ contended' = contended \cup Meets(p, c) /\ UNCHANGED <<simulator, row, buffer>>
    BY <1>11 DEF AssignLevel
  <2>1. /\ plan[c] \in Plan /\ plan'[c].callsign = plan[c].callsign
        /\ plan'[c] = [plan[c] EXCEPT !.level = level]
        /\ job[p] = None /\ pc[p] = "idle" /\ pc'[p] = "assign"
        /\ job'[p] # None /\ job'[p].client = c /\ job'[p].level = level
    BY <2>0, <1>t
       DEF Start, Goto, Structure, HandlerOK, TypeOK, Plan, Job, Actor
  <2>2. Touches(p, c)
    BY <2>0, <2>1, <1>t DEF Start, Goto, Touches, Structure, TypeOK, Actor
  <2>3. ASSUME plan[c].callsign \notin contended'
        PROVE  Sole(p, c) /\ Ahead(p, c, row[plan[c].callsign])'
    <3>1. /\ Alone(c, plan[c].callsign) /\ \A q \in Actor : ~WorksOn(q, c)
          /\ row[plan[c].callsign] = plan[c]
      BY <2>0, <2>1, <2>3, Starting DEF Actor
    <3> QED BY <2>0, <2>1, <3>1 DEF Sole, Alone, Ahead
  <2> QED BY <1>u, <2>1, <2>2, <2>3, <1>a, SavedStep
<1>12. ASSUME NEW p \in Controller, NEW c \in Object, NEW leg \in Leg,
              NEW level \in Level, EditPlan(p, c, leg, level)
       PROVE  \A e \in Object : SavedOK(e)'
  <2>0. /\ plan' = [plan EXCEPT ![c] = [plan[c] EXCEPT !.locked = ~simulator]]
        /\ plan[c] # None /\ Start(p, c, leg, level, "leg")
        /\ contended' = contended \cup Meets(p, c) /\ UNCHANGED <<simulator, row, buffer>>
    BY <1>12 DEF EditPlan
  <2>1. /\ plan[c] \in Plan /\ plan'[c].callsign = plan[c].callsign
        /\ job[p] = None /\ pc[p] = "idle" /\ pc'[p] = "leg" /\ p # c
        /\ job'[p] # None /\ job'[p].client = c
    BY <2>0, <1>t DEF Start, Goto, Structure, HandlerOK, TypeOK, Plan, Job, Actor
  <2>2. Touches(p, c)
    BY <2>0, <2>1, <1>t DEF Start, Goto, Touches, Structure, TypeOK, Actor
  <2>3. ASSUME ~simulator, plan[c].callsign \notin contended'
        PROVE  Sole(p, c) /\ Ahead(p, c, row[plan[c].callsign])'
    <3>1. Alone(c, plan[c].callsign) /\ \A q \in Actor : ~WorksOn(q, c)
      BY <2>0, <2>1, <2>3, Starting DEF Actor
    <3> QED BY <2>1, <3>1 DEF Sole, Alone, Ahead
  <2> QED BY <1>u, <2>1, <2>2, <2>3, <1>a, SavedStep
<1>13. ASSUME NEW p \in Controller, AssignLock(p) PROVE \A e \in Object : SavedOK(e)'
  <2> DEFINE d == job[p].client
  <2>0. /\ plan' = [plan EXCEPT ![d] = [plan[d] EXCEPT !.locked = TRUE]]
        /\ pc' = [pc EXCEPT ![p] = "update"] /\ pc[p] = "assign"
        /\ UNCHANGED <<simulator, row, job, buffer, contended>>
    BY <1>13 DEF AssignLock, Goto
  <2>1. job[p] # None /\ job[p] \in Job /\ d \in Object /\ plan[d] \in Plan /\ ~simulator
    BY <2>0, <1>t, StructureFacts DEF Structure, HandlerOK, Working, PC, Actor, Job
  <2>2. /\ plan'[d].callsign = plan[d].callsign /\ pc'[p] = "update"
        /\ plan'[d] = [plan[d] EXCEPT !.locked = TRUE] /\ plan[d].callsign \in Client
    BY <2>0, <2>1, <1>t DEF Structure, TypeOK, Plan, Actor
  <2>3. Touches(p, d)
    BY <2>0, <2>1, <2>2, <1>t DEF Touches, Structure, TypeOK, Actor
  <2>4. ASSUME plan[d].callsign \notin contended
        PROVE  Sole(p, d) /\ Ahead(p, d, row[plan[d].callsign])'
    <3>1. /\ Alone(d, plan[d].callsign) /\ \A q \in Actor \ {p} : ~WorksOn(q, d)
          /\ Ahead(p, d, row[plan[d].callsign])
      BY <2>0, <2>1, <2>4, Continuing DEF Working, PC, Actor
    <3>2. plan[d] = [row[plan[d].callsign] EXCEPT !.level = job[p].level]
      BY <2>0, <3>1 DEF Ahead
    <3>3. row[plan[d].callsign] \in Plan
      BY <2>1, <2>2, <1>t, StructureFacts DEF Structure, PlanHasRow
    <3>4. plan'[d] = [row[plan[d].callsign] EXCEPT !.level = job[p].level, !.locked = TRUE]
      BY <2>2, <3>2, <3>3 DEF Plan
    <3> QED BY <2>0, <2>2, <3>1, <3>4 DEF Sole, Alone, Ahead
  <2>5. job' = job /\ contended' = contended
    BY <2>0
  <2> QED BY <1>u, <2>1, <2>2, <2>3, <2>4, <2>5, <1>a, SavedStep
<1>14. ASSUME NEW p \in Controller, AssignUpdate(p) PROVE \A e \in Object : SavedOK(e)'
  <2> DEFINE d == job[p].client
             k == plan[d].callsign
  <2>0. /\ row' = [row EXCEPT ![k] = [row[k] EXCEPT !.level = job[p].level, !.locked = TRUE]]
        /\ pc[p] = "update" /\ Finish(p)
        /\ UNCHANGED <<simulator, plan, contended>>
    BY <1>14 DEF AssignUpdate
  <2>1. /\ job[p] # None /\ d \in Object /\ plan[d] # None /\ plan[d] \in Plan
        /\ k \in Client /\ ~simulator
    BY <2>0, <1>t, StructureFacts DEF Structure, HandlerOK, Working, PC, Actor, Job, Plan
  <2>2. /\ row'[k] = [row[k] EXCEPT !.level = job[p].level, !.locked = TRUE]
        /\ job'[p] = None /\ \A x \in Client \ {k} : row'[x] = row[x]
    BY <2>0, <2>1, <1>t DEF Finish, Structure, TypeOK, Actor
  <2>3. Touches(p, d)
    BY <2>0, <2>1, <2>2, <1>t DEF Finish, Goto, Touches, Structure, TypeOK, Actor
  <2>4. k \notin contended => Sole(p, d) /\ row'[k] = plan[d]
    BY <2>0, <2>1, <2>2, Continuing DEF Sole, Alone, Ahead, Working, PC, Actor
  <2> QED BY <1>u, <2>0, <2>2, <2>3, <2>1, <2>4, <1>a, SavedStep
<1>15. ASSUME NEW p \in Actor, WriteLeg(p) PROVE \A e \in Object : SavedOK(e)'
  <2> DEFINE d == job[p].client
  <2>0. /\ plan' = [plan EXCEPT ![d] = [plan[d] EXCEPT !.leg = job[p].leg]]
        /\ pc' = [pc EXCEPT ![p] = "rest"] /\ pc[p] = "leg"
        /\ UNCHANGED <<simulator, row, job, buffer, contended>>
    BY <1>15 DEF WriteLeg, Goto
  <2>1. job[p] # None /\ d \in Object /\ plan[d] \in Plan
    BY <2>0, <1>t, StructureFacts DEF Structure, HandlerOK, Working, PC, Job
  <2>2. /\ plan'[d].callsign = plan[d].callsign /\ plan'[d].locked = plan[d].locked
        /\ pc'[p] = "rest"
    BY <2>0, <2>1, <1>t DEF Structure, TypeOK, Plan
  <2>3. Touches(p, d)
    BY <2>0, <2>1, <2>2, <1>t DEF Touches, Structure, TypeOK
  <2>4. ASSUME ~simulator, plan[d].callsign \notin contended
        PROVE  Sole(p, d) /\ Ahead(p, d, row[plan[d].callsign])'
    <3>1. /\ Alone(d, plan[d].callsign) /\ \A q \in Actor \ {p} : ~WorksOn(q, d)
          /\ Ahead(p, d, row[plan[d].callsign])
      BY <2>0, <2>4, Continuing DEF Working, PC
    <3> QED BY <2>0, <2>2, <3>1 DEF Sole, Alone, Ahead
  <2> QED BY <1>u, <2>0, <2>1, <2>2, <2>3, <2>4, SavedStep
<1>16. ASSUME NEW p \in Actor, WriteRest(p) PROVE \A e \in Object : SavedOK(e)'
  <2>s. CASE simulator
    BY <1>16, <2>s DEF WriteRest, SavedOK
  <2> SUFFICES ASSUME ~simulator PROVE \A e \in Object : SavedOK(e)'
    BY <2>s
  <2> DEFINE d == job[p].client
  <2>0. /\ plan' = [plan EXCEPT ![d] = [plan[d] EXCEPT !.level = job[p].level]]
        /\ pc' = [pc EXCEPT ![p] = "save"] /\ pc[p] = "rest"
        /\ UNCHANGED <<simulator, row, job, buffer, contended>>
    BY <1>16 DEF WriteRest, Goto
  <2>1. job[p] # None /\ d \in Object /\ plan[d] \in Plan
    BY <2>0, <1>t, StructureFacts DEF Structure, HandlerOK, Working, PC, Job
  <2>2. plan'[d].callsign = plan[d].callsign /\ pc'[p] = "save"
    BY <2>0, <2>1, <1>t DEF Structure, TypeOK, Plan
  <2>3. Touches(p, d)
    BY <2>0, <2>1, <2>2, <1>t DEF Touches, Structure, TypeOK
  <2>4. ASSUME plan[d].callsign \notin contended
        PROVE  Sole(p, d) /\ Ahead(p, d, row[plan[d].callsign])'
    <3>1. Alone(d, plan[d].callsign) /\ \A q \in Actor \ {p} : ~WorksOn(q, d)
      BY <2>0, <2>4, Continuing DEF Working, PC
    <3> QED BY <2>2, <3>1 DEF Sole, Alone, Ahead
  <2> QED BY <1>u, <2>0, <2>1, <2>2, <2>3, <2>4, SavedStep
<1>17. ASSUME NEW p \in Actor, Save(p) PROVE \A e \in Object : SavedOK(e)'
  <2> DEFINE d == job[p].client
  <2>0. /\ pc[p] = "save" /\ pc'[p] = "commit" /\ buffer'[p] = plan[d]
        /\ UNCHANGED <<simulator, plan, row, job, contended>>
        /\ \A q \in Actor \ {p} : pc'[q] = pc[q] /\ buffer'[q] = buffer[q]
    BY <1>17, <1>t DEF Save, Goto, Structure, TypeOK
  <2>1. job[p] # None /\ d \in Object /\ plan[d] # None /\ ~simulator
    BY <2>0, <1>t, StructureFacts DEF Structure, HandlerOK, Working, PC, Job
  <2>2. Touches(p, d)
    BY <2>0, <2>1 DEF Touches
  <2>3. plan[d].callsign \notin contended =>
          Sole(p, d) /\ Ahead(p, d, row[plan[d].callsign])'
    BY <2>0, <2>1, Continuing DEF Sole, Alone, Ahead, Working, PC
  <2> QED BY <1>u, <2>0, <2>1, <2>2, <2>3, SavedStep
<1>18. ASSUME NEW p \in Actor, Commit(p) PROVE \A e \in Object : SavedOK(e)'
  <2> DEFINE d == job[p].client
             k == plan[d].callsign
  <2>0. /\ pc[p] = "commit" /\ row' = [row EXCEPT ![buffer[p].callsign] = buffer[p]]
        /\ Finish(p) /\ UNCHANGED <<simulator, plan, contended>>
    BY <1>18 DEF Commit
  <2>1. /\ job[p] # None /\ d \in Object /\ plan[d] # None /\ ~simulator
        /\ k \in Client /\ buffer[p].callsign = k
    BY <2>0, <1>t, StructureFacts
       DEF Structure, HandlerOK, BufferOK, Same, Working, PC, Job, Plan
  <2>2. /\ row'[k] = buffer[p] /\ job'[p] = None
        /\ \A x \in Client \ {k} : row'[x] = row[x]
    BY <2>0, <2>1, <1>t DEF Finish, Structure, TypeOK
  <2>3. Touches(p, d)
    BY <2>0, <2>1, <2>2, <1>t DEF Finish, Goto, Touches, Structure, TypeOK
  <2>4. k \notin contended => Sole(p, d) /\ row'[k] = plan[d]
    BY <2>0, <2>1, <2>2, Continuing DEF Sole, Alone, Ahead, Working, PC
  <2> QED BY <1>u, <2>0, <2>1, <2>2, <2>3, <2>4, SavedStep
<1>19. ASSUME NEW p \in Actor, WriteFails(p) PROVE \A e \in Object : SavedOK(e)'
  <2> DEFINE d == job[p].client
  <2>0. /\ pc[p] \in {"insert", "commit", "update"} /\ Finish(p)
        /\ contended' = contended \cup
             IF pc[p] = "insert" THEN {} ELSE {plan[job[p].client].callsign}
        /\ UNCHANGED <<simulator, plan, row>>
    BY <1>19 DEF WriteFails
  <2>1. job[p] # None /\ d \in Object
    BY <2>0, <1>t, StructureFacts DEF Structure, HandlerOK, Working, PC, Job
  <2>2. Touches(p, d)
    BY <2>0, <2>1, <1>t DEF Finish, Goto, Touches, Structure, TypeOK
  <2>3. plan[d] # None => plan[d].callsign \in contended'
    <3>1. CASE pc[p] = "insert"
      BY <3>1, <1>t, <1>f, <2>1 DEF Structure, HandlerOK
    <3>2. CASE pc[p] # "insert"
      BY <3>2, <2>0
    <3> QED BY <3>1, <3>2
  <2> QED BY <1>u, <2>0, <2>1, <2>2, <2>3, SavedStep
<1> QED
  BY <1>0, <1>1, <1>2, <1>3, <1>4, <1>5, <1>6, <1>7, <1>8, <1>9, <1>10, <1>11,
     <1>12, <1>13, <1>14, <1>15, <1>16, <1>17, <1>18, <1>19, <1>20
     DEF Next, PilotStep, ControllerStep, WriteStep

\* A simulator server stays in memory.
LEMMA SimulatorStep ==
  PlansInv /\ [Next]_vars => SimulatorStaysInMemory'
<1>0. [Next]_vars => simulator' = simulator
  <2>1. ASSUME NEW c \in Client, PilotStep(c) PROVE simulator' = simulator
    BY <2>1, Zenon DEF PilotStep, Login, SetUser, Logout, FileInMemory, FileFirst,
       File, Insert, Unlock, Check
  <2>2. ASSUME NEW p \in Controller, ControllerStep(p) PROVE simulator' = simulator
    BY <2>2, Zenon DEF ControllerStep, EditMissing, AssignLevel, EditPlan, AssignLock,
       AssignUpdate
  <2>3. ASSUME NEW p \in Actor, WriteStep(p) PROVE simulator' = simulator
    BY <2>3, Zenon DEF WriteStep, WriteLeg, WriteRest, Save, Commit, WriteFails
  <2>4. ASSUME NEW d \in Deleted, Forget(d) PROVE simulator' = simulator
    BY <2>4, Zenon DEF Forget
  <2> QED BY <2>1, <2>2, <2>3, <2>4, Zenon DEF Next, vars
<1> SUFFICES ASSUME PlansInv, [Next]_vars, simulator PROVE SimulatorStaysInMemory'
  BY <1>0 DEF SimulatorStaysInMemory
<1> DEFINE Goal == /\ \A k \in Client : row'[k] = None
                   /\ \A c \in Object : plan'[c] # None => ~plan'[c].locked
<1>t. /\ TypeOK /\ Structure /\ \A k \in Client : row[k] = None
      /\ \A c \in Object : plan[c] # None => plan[c] \in Plan /\ ~plan[c].locked
      /\ \A p \in Actor : pc[p] \notin Working \ {"leg", "rest"}
      /\ plan \in [Object -> Plan \cup {None}]
  BY DEF PlansInv, Structure, SimulatorStaysInMemory, HandlerOK, TypeOK
<1>1. ASSUME UNCHANGED <<plan, row>> PROVE Goal
  BY <1>1, <1>t
<1>2. ASSUME NEW c \in Object, NEW new, plan' = [plan EXCEPT ![c] = new],
             new # None => ~new.locked, UNCHANGED row
      PROVE  Goal
  BY <1>2, <1>t
<1>3. ASSUME NEW c \in Client, PilotStep(c) PROVE Goal
  <2>0. c \in Object
    BY DEF Object
  <2>1. ASSUME NEW a \in Account, Login(c, a) PROVE Goal
    BY <2>0, <2>1, <1>2 DEF Login
  <2>2. CASE Logout(c)
    <3>1. PICK d \in Deleted : plan' = [plan EXCEPT ![c] = None, ![d] = plan[c]]
      BY <2>2 DEF Logout
    <3> QED BY <2>2, <3>1, <1>t DEF Logout, Object
  <2>3. ASSUME NEW leg \in Leg, NEW level \in Level, FileInMemory(c, leg, level)
        PROVE  Goal
    BY <2>0, <2>3, <1>2 DEF FileInMemory, NewPlan
  <2>4. CASE Insert(c) \/ Unlock(c) \/ Check(c)
    BY <2>4, <1>t DEF Insert, Unlock, Check, Working, PC, Actor
  <2>5. ASSUME NEW a \in Account, SetUser(c, a) PROVE Goal
    BY <2>5, <1>1 DEF SetUser
  <2>6. ASSUME NEW leg \in Leg, NEW level \in Level,
               FileFirst(c, leg, level) \/ File(c, leg, level)
        PROVE  Goal
    BY <2>6 DEF FileFirst, File
  <2> QED BY <1>3, <2>1, <2>2, <2>3, <2>4, <2>5, <2>6 DEF PilotStep
<1>4. ASSUME NEW p \in Controller, ControllerStep(p) PROVE Goal
  <2>1. ASSUME NEW c \in Client, EditMissing(p, c) PROVE Goal
    BY <2>1, <1>1 DEF EditMissing
  <2>2. ASSUME NEW c \in Object, NEW leg \in Leg, NEW level \in Level,
               EditPlan(p, c, leg, level)
        PROVE  Goal
    <3> DEFINE new == [plan[c] EXCEPT !.locked = ~simulator]
    <3>1. plan[c] \in Plan /\ plan' = [plan EXCEPT ![c] = new] /\ UNCHANGED row
      BY <2>2, <1>t DEF EditPlan
    <3>2. ~new.locked
      BY <3>1 DEF Plan
    <3> HIDE DEF new
    <3> QED BY <3>1, <3>2, <1>2
  <2>3. ASSUME NEW c \in Object, NEW level \in Level, AssignLevel(p, c, level) PROVE Goal
    BY <2>3 DEF AssignLevel
  <2>4. CASE AssignLock(p) \/ AssignUpdate(p)
    BY <2>4, <1>t DEF AssignLock, AssignUpdate, Working, PC, Actor
  <2> QED BY <1>4, <2>1, <2>2, <2>3, <2>4 DEF ControllerStep
<1>5. ASSUME NEW p \in Actor, WriteStep(p) PROVE Goal
  <2>0. pc[p] \in {"leg", "rest"} =>
          job[p].client \in Object /\ plan[job[p].client] \in Plan
    BY <1>t, StructureFacts DEF Job, Working, PC
  <2>1. CASE WriteLeg(p)
    <3> DEFINE new == [plan[job[p].client] EXCEPT !.leg = job[p].leg]
    <3>1. plan' = [plan EXCEPT ![job[p].client] = new] /\ UNCHANGED row
      BY <2>1 DEF WriteLeg
    <3>2. ~new.locked
      <4>1. plan[job[p].client] # None
        BY <2>0, <2>1, PlanAssumption DEF WriteLeg
      <4>2. plan[job[p].client] \in Plan /\ ~plan[job[p].client].locked
        BY <2>0, <2>1, <1>t, <4>1 DEF WriteLeg
      <4> HIDE DEF TypeOK, Structure
      <4> QED BY <4>2 DEF Plan
    <3> HIDE DEF new
    <3> QED BY <2>0, <2>1, <3>1, <3>2, <1>2 DEF WriteLeg
  <2>2. CASE WriteRest(p)
    <3> DEFINE new == [plan[job[p].client] EXCEPT !.level = job[p].level]
    <3>1. plan' = [plan EXCEPT ![job[p].client] = new] /\ UNCHANGED row
      BY <2>2 DEF WriteRest
    <3>2. ~new.locked
      <4>1. plan[job[p].client] # None
        BY <2>0, <2>2, PlanAssumption DEF WriteRest
      <4>2. plan[job[p].client] \in Plan /\ ~plan[job[p].client].locked
        BY <2>0, <2>2, <1>t, <4>1 DEF WriteRest
      <4> HIDE DEF TypeOK, Structure
      <4> QED BY <4>2 DEF Plan
    <3> HIDE DEF new
    <3> QED BY <2>0, <2>2, <3>1, <3>2, <1>2 DEF WriteRest
  <2>3. CASE Save(p) \/ Commit(p) \/ WriteFails(p)
    BY <2>3, <1>t DEF Save, Commit, WriteFails, Working, PC
  <2> QED BY <1>5, <2>1, <2>2, <2>3 DEF WriteStep
<1>6. ASSUME NEW d \in Deleted, Forget(d) PROVE Goal
  BY <1>6, <1>2 DEF Forget, Object
<1> QED BY <1>1, <1>3, <1>4, <1>5, <1>6 DEF Next, vars, SimulatorStaysInMemory

-----------------------------------------------------------------------------
(* The lock. *)

\* A step that leaves the lock and the handler of c alone, and brings no
\* controller to its object.
LEMMA LockSame ==
  ASSUME NEW c \in Client, LockOK(c), c \in overlapped => c \in overlapped',
         pc'[c] = pc[c], plan'[c] = plan[c],
         \A p \in Controller : WorksOn(p, c)' => WorksOn(p, c)
  PROVE  LockOK(c)'
  BY DEF LockOK

\* A step of one handler p, which stays with its object or leaves it.
LEMMA LockHandler ==
  ASSUME Structure, \A c \in Client : LockOK(c), NEW p \in Actor,
         pc[p] \in Working, overlapped' = overlapped,
         \A q \in Actor \ {p} : pc'[q] = pc[q] /\ job'[q] = job[q],
         job'[p] = job[p] \/ job'[p] = None,
         \A c \in Client : plan'[c] # plan[c] => WorksOn(p, c),
         p \in Client /\ pc'[p] \in {"leg", "rest"} => ~plan'[p].locked,
         p \in Client /\ pc'[p] \in Working \ {"insert"} =>
           pc[p] \in Working \ {"insert"}
  PROVE  \A c \in Client : LockOK(c)'
<1> SUFFICES ASSUME NEW c \in Client, c \notin overlapped,
                    pc'[c] \in Working \ {"insert"}
             PROVE  LockOK(c)'
  BY DEF LockOK
<1>1. \A q \in Controller : WorksOn(q, c)' => WorksOn(q, c)
  BY DEF WorksOn, Actor
<1>2. CASE p = c
  BY <1>1, <1>2 DEF LockOK
<1>3. CASE p # c
  <2>1. pc'[c] = pc[c]
    BY <1>3 DEF Actor
  <2>2. ~WorksOn(p, c)
    <3>1. CASE p \in Controller
      BY <2>1, <3>1 DEF LockOK
    <3>2. CASE p \in Client
      BY <1>3, <3>2 DEF Structure, HandlerOK, WorksOn
    <3> QED BY <3>1, <3>2 DEF Actor
  <2> QED BY <1>1, <2>1, <2>2, LockSame
<1> QED BY <1>2, <1>3

\* No step lets a pilot write past a lock unseen.
LEMMA LockStep == PlansInv /\ [Next]_vars => \A c \in Client : LockOK(c)'
<1> SUFFICES ASSUME PlansInv, [Next]_vars PROVE \A c \in Client : LockOK(c)'
  OBVIOUS
<1> USE PlanAssumption DEF history
<1>t. /\ Structure /\ \A c \in Client : LockOK(c)
      /\ plan \in [Object -> Plan \cup {None}] /\ job \in [Actor -> Job \cup {None}]
      /\ pc \in [Actor -> PC]
  BY DEF PlansInv, Structure, TypeOK
<1>a. /\ Actor = Client \cup Controller /\ \A c \in Client : c \in Object
      /\ \A p \in Controller : p \notin Object
  BY DEF Actor, Object
<1>0. CASE UNCHANGED vars
  BY <1>0, <1>t DEF vars, LockOK, WorksOn
<1>1. ASSUME NEW e \in Client, NEW a \in Account, Login(e, a)
      PROVE  \A c \in Client : LockOK(c)'
  BY <1>1, <1>t, <1>a DEF Login, LockOK, WorksOn, Working
<1>2. ASSUME NEW e \in Client, NEW a \in Account, SetUser(e, a)
      PROVE  \A c \in Client : LockOK(c)'
  BY <1>2, <1>t DEF SetUser, LockOK, WorksOn
<1>3. ASSUME NEW e \in Client, Logout(e) PROVE \A c \in Client : LockOK(c)'
  <2>0. PICK d \in Deleted :
          /\ plan' = [plan EXCEPT ![e] = None, ![d] = plan[e]]
          /\ job' = [p \in Actor |-> IF WorksOn(p, e)
                                     THEN [job[p] EXCEPT !.client = d]
                                     ELSE job[p]]
    BY <1>3 DEF Logout
  <2>1. pc' = pc /\ overlapped' = overlapped /\ pc[e] = "idle"
    BY <1>3 DEF Logout
  <2>2. LockOK(e)'
    BY <2>1 DEF LockOK, Working
  <2>3. ASSUME NEW c \in Client \ {e} PROVE LockOK(c)'
    <3>1. plan'[c] = plan[c]
      BY <2>0, <1>t, <1>a
    <3>2. ASSUME NEW p \in Controller, WorksOn(p, c)' PROVE WorksOn(p, c)
      <4>1. CASE WorksOn(p, e)
        <5>1. job[p] \in Job /\ job'[p] = [job[p] EXCEPT !.client = d]
          BY <2>0, <4>1, <1>t, <1>a DEF WorksOn
        <5>2. job'[p].client = d
          BY <5>1 DEF Job
        <5> QED BY <3>2, <5>2 DEF WorksOn
      <4>2. CASE ~WorksOn(p, e)
        BY <2>0, <3>2, <4>2, <1>a DEF WorksOn
      <4> QED BY <4>1, <4>2
    <3> QED BY <2>1, <3>1, <3>2, <1>t, LockSame
  <2> QED BY <2>2, <2>3
<1>4. ASSUME NEW e \in Client, NEW leg \in Leg, NEW level \in Level,
             FileInMemory(e, leg, level)
      PROVE  \A c \in Client : LockOK(c)'
  BY <1>4, <1>t, <1>a DEF FileInMemory, LockOK, WorksOn, Working
<1>5. ASSUME NEW e \in Client, NEW leg \in Leg, NEW level \in Level,
             FileFirst(e, leg, level)
      PROVE  \A c \in Client : LockOK(c)'
  BY <1>5, <1>t, <1>a DEF FileFirst, Start, Goto, LockOK, WorksOn, Working
<1>6. ASSUME NEW e \in Client, NEW leg \in Leg, NEW level \in Level,
             File(e, leg, level)
      PROVE  \A c \in Client : LockOK(c)'
  <2>0. /\ plan' = plan /\ pc'[e] \in {"unlock", "check"}
        /\ \A q \in Actor \ {e} : pc'[q] = pc[q] /\ job'[q] = job[q]
        /\ overlapped' = IF \E p \in Controller : WorksOn(p, e)
                           THEN overlapped \cup {e} ELSE overlapped \ {e}
    BY <1>6, <1>t, <1>a DEF File, Start, Goto
  <2>1. LockOK(e)'
    BY <2>0, <1>a DEF LockOK, WorksOn
  <2>2. ASSUME NEW c \in Client \ {e} PROVE LockOK(c)'
    BY <2>0, <1>t, <1>a, LockSame DEF WorksOn
  <2> QED BY <2>1, <2>2
<1>7. ASSUME NEW e \in Client, Insert(e) PROVE \A c \in Client : LockOK(c)'
  <2>1. /\ pc[e] = "insert" /\ e \in Actor /\ pc'[e] = "idle"
        /\ \A q \in Actor \ {e} : pc'[q] = pc[q] /\ job'[q] = job[q]
        /\ \A c \in Client \ {e} : plan'[c] = plan[c]
        /\ overlapped' = overlapped
    BY <1>7, <1>t, <1>a DEF Insert, Finish, Goto
  <2>2. LockOK(e)'
    BY <2>1 DEF LockOK, Working
  <2>3. ASSUME NEW c \in Client \ {e} PROVE LockOK(c)'
    BY <2>1, <1>t, <1>a, LockSame DEF WorksOn
  <2> QED BY <2>2, <2>3
<1>8. ASSUME NEW e \in Client, Unlock(e) PROVE \A c \in Client : LockOK(c)'
  <2>1. /\ pc[e] \in Working \ {"insert"} /\ e \in Actor /\ pc'[e] = "check"
        /\ \A q \in Actor \ {e} : pc'[q] = pc[q] /\ job'[q] = job[q]
        /\ job'[e] = job[e] /\ pc'[e] \notin {"leg", "rest"}
        /\ \A c \in Client \ {e} : plan'[c] = plan[c]
        /\ overlapped' = overlapped /\ WorksOn(e, e)
    BY <1>8, <1>t, <1>a DEF Unlock, Goto, Working, PC, Structure, HandlerOK, WorksOn
  <2>2. \A c \in Client : plan'[c] # plan[c] => WorksOn(e, c)
    BY <2>1
  <2> QED BY <2>1, <2>2, <1>t, LockHandler
<1>9. ASSUME NEW e \in Client, Check(e) PROVE \A c \in Client : LockOK(c)'
  <2>1. /\ pc[e] \in Working \ {"insert"} /\ e \in Actor
        /\ \A q \in Actor \ {e} : pc'[q] = pc[q] /\ job'[q] = job[q]
        /\ plan' = plan /\ overlapped' = overlapped
        /\ job'[e] = job[e] \/ job'[e] = None
    BY <1>9, <1>t, <1>a DEF Check, Finish, Goto, Working, PC
  <2>2. pc'[e] \in {"leg", "rest"} => ~plan[e].locked
    BY <1>9, <1>t, <1>a DEF Check, Finish, Goto
  <2> QED BY <2>1, <2>2, <1>t, LockHandler
<1>10. ASSUME NEW p \in Controller, NEW e \in Client, EditMissing(p, e)
       PROVE  \A c \in Client : LockOK(c)'
  BY <1>10, <1>a DEF EditMissing, LockOK, Working
<1>11. ASSUME NEW p \in Controller, NEW o \in Object, NEW level \in Level,
              \/ AssignLevel(p, o, level)
              \/ \E leg \in Leg : EditPlan(p, o, leg, level)
       PROVE  \A c \in Client : LockOK(c)'
  <2>1. /\ \A q \in Actor \ {p} : pc'[q] = pc[q] /\ job'[q] = job[q]
        /\ \A c \in Object \ {o} : plan'[c] = plan[c]
        /\ overlapped' = overlapped \cup Joins(o)
        /\ \E leg : job'[p] = [client |-> o, leg |-> leg, level |-> level]
    BY <1>11, <1>t, <1>a DEF AssignLevel, EditPlan, Start, Goto
  <2>2. ASSUME NEW c \in Client PROVE LockOK(c)'
    <3>1. CASE c = o
      BY <2>1, <3>1, <1>a DEF Joins, LockOK, Working
    <3>2. CASE c # o
      BY <2>1, <3>2, <1>t, <1>a, LockSame DEF WorksOn
    <3> QED BY <3>1, <3>2
  <2> QED BY <2>2
<1>13. ASSUME NEW p \in Controller, AssignLock(p) \/ AssignUpdate(p)
       PROVE  \A c \in Client : LockOK(c)'
  <2>1. /\ pc[p] \in Working /\ p \in Actor /\ overlapped' = overlapped
        /\ \A q \in Actor \ {p} : pc'[q] = pc[q] /\ job'[q] = job[q]
        /\ job'[p] = job[p] \/ job'[p] = None
        /\ p \notin Client
    BY <1>13, <1>t, <1>a DEF AssignLock, AssignUpdate, Finish, Goto, Working, PC
  <2>2. \A c \in Client : plan'[c] # plan[c] => WorksOn(p, c)
    BY <1>13, <2>1, <1>t, <1>a DEF AssignLock, AssignUpdate, Structure, HandlerOK, WorksOn
  <2> QED BY <2>1, <2>2, <1>t, LockHandler
<1>15. ASSUME NEW p \in Actor, WriteStep(p) PROVE \A c \in Client : LockOK(c)'
  <2>1. /\ pc[p] \in Working /\ overlapped' = overlapped
        /\ pc'[p] \in Working => pc[p] \in Working \ {"insert"}
        /\ \A q \in Actor \ {p} : pc'[q] = pc[q] /\ job'[q] = job[q]
        /\ job'[p] = job[p] \/ job'[p] = None
    BY <1>15, <1>t DEF WriteStep, WriteLeg, WriteRest, Save, Commit, WriteFails,
       Finish, Goto, Working, PC
  <2>2. \A c \in Client : plan'[c] # plan[c] => WorksOn(p, c)
    BY <1>15, <2>1, <1>t, <1>a DEF WriteStep, WriteLeg, WriteRest, Save, Commit, WriteFails,
       Structure, HandlerOK, WorksOn
  <2>3. CASE p \notin Client
    BY <2>1, <2>2, <2>3, <1>t, LockHandler
  <2>4. CASE p \in Client
    <3>1. CASE WriteLeg(p)
      <4>1. job[p].client = p /\ plan[p] \in Plan
        BY <2>4, <3>1, <1>t, <1>a, StructureFacts
           DEF WriteLeg, Structure, HandlerOK, Working, PC
      <4>2. plan'[p].locked = plan[p].locked
        BY <2>4, <3>1, <4>1, <1>t, <1>a DEF WriteLeg, Plan
      <4>3. CASE p \in overlapped
        <5>1. ASSUME NEW c \in Client PROVE LockOK(c)'
          <6>1. CASE c = p
            BY <2>1, <4>3, <6>1 DEF LockOK
          <6>2. CASE c # p
            BY <2>1, <2>2, <2>4, <4>1, <6>2, <1>t, <1>a, LockSame DEF WorksOn
          <6> QED BY <6>1, <6>2
        <5> QED BY <5>1
      <4>4. CASE p \notin overlapped
        <5>1. ~plan[p].locked
          BY <2>1, <2>4, <3>1, <4>4, <1>t DEF LockOK, WriteLeg, Working, PC
        <5> QED BY <2>1, <2>2, <4>2, <5>1, <1>t, LockHandler
      <4> QED BY <4>3, <4>4
    <3>2. CASE ~WriteLeg(p)
      <4>1. pc'[p] \notin {"leg", "rest"}
        BY <1>15, <3>2, <1>t DEF WriteStep, WriteRest, Save, Commit, WriteFails,
           Finish, Goto
      <4> QED BY <2>1, <2>2, <4>1, <1>t, LockHandler
    <3> QED BY <3>1, <3>2
  <2> QED BY <2>3, <2>4
<1>20. ASSUME NEW d \in Deleted, Forget(d) PROVE \A c \in Client : LockOK(c)'
  BY <1>20, <1>t, <1>a DEF Forget, LockOK, WorksOn
<1> QED
  BY <1>0, <1>1, <1>2, <1>3, <1>4, <1>5, <1>6, <1>7, <1>8, <1>9, <1>10, <1>11,
     <1>13, <1>15, <1>20
     DEF Next, PilotStep, ControllerStep

-----------------------------------------------------------------------------
(* The theorems. *)

\* The first state has no plans.
LEMMA PlansInit == Init => PlansInv
<1> SUFFICES ASSUME Init PROVE PlansInv
  OBVIOUS
<1> USE PlanAssumption DEF Init
<1>1. TypeOK
  BY DEF TypeOK, PC
<1>2. RowsOK
  <2>1. {k \in Client : row[k] # None} = {}
    OBVIOUS
  <2> QED BY <2>1, FS_EmptySet DEF RowsOK
<1>3. CrashOK /\ OwnerOK /\ PlanHasRow
  BY DEF CrashOK, OwnerOK, PlanHasRow, Object
<1>4. \A p \in Actor : HandlerOK(p) /\ BufferOK(p)
  BY DEF HandlerOK, BufferOK, Working
<1>5. SimulatorStaysInMemory /\ \A c \in Object : SavedOK(c)
  BY DEF SimulatorStaysInMemory, SavedOK
<1>6. \A c \in Client : LockOK(c)
  BY DEF LockOK, Working, Actor
<1> QED BY <1>1, <1>2, <1>3, <1>4, <1>5, <1>6 DEF PlansInv, Structure

\* The inductive invariant: handlers find the objects and rows they rely on,
\* whatever other handlers do between their steps.
THEOREM PlansInvariant == Spec => []PlansInv
<1>1. PlansInv /\ [Next]_vars => PlansInv'
  BY StructureStep, SavedKept, SimulatorStep, LockStep DEF PlansInv
<1> QED BY <1>1, PlansInit, PTL DEF Spec

\* Every reference is nil or a plan, and only plans without a row have no id.
THEOREM PlansTyped == Spec => []TypeOK
<1>1. PlansInv => TypeOK
  BY DEF PlansInv, Structure
<1> QED BY <1>1, PlansInvariant, PTL

\* The plan a client works with is in the database, for any number of
\* sessions: no failed insert, reload or change of user loses the row.
THEOREM PlansHaveRows == Spec => []PlanHasRow
<1>1. PlansInv => PlanHasRow
  BY DEF PlansInv, Structure
<1> QED BY <1>1, PlansInvariant, PTL

\* When its handlers are done, an uncontended plan is saved as it is in
\* memory.
THEOREM UncontendedAreSaved == Spec => []UncontendedIsSaved
<1>1. PlansInv => UncontendedIsSaved
  <2> SUFFICES ASSUME PlansInv, NEW c \in Client, ~simulator, plan[c] # None,
                      plan[c].callsign \notin contended, Quiet(plan[c].callsign)
               PROVE  row[plan[c].callsign] = plan[c]
    BY DEF UncontendedIsSaved
  <2>0. c \in Object
    BY DEF Object
  <2>1. \A p \in Actor : ~WorksOn(p, c)
    BY <2>0 DEF Quiet, Holders, WorksOn
  <2> QED BY <2>0, <2>1 DEF PlansInv, SavedOK
<1> QED BY <1>1, PlansInvariant, PTL

\* A simulator server never stores or locks a plan.
THEOREM SimulatorInMemory == Spec => []SimulatorStaysInMemory
<1>1. PlansInv => SimulatorStaysInMemory
  BY DEF PlansInv
<1> QED BY <1>1, PlansInvariant, PTL

\* A pilot's command on a plan in memory changes it while it is locked only
\* when a controller's command on the same object overlapped it.
THEOREM LocksHoldUnlessOverlapped == Spec => LockHoldsUnlessOverlapped
<1>1. PlansInv /\ [Next]_vars =>
        [\A c \in Client : WritesLocked(c) => c \in overlapped]_vars
  BY DEF PlansInv, WritesLocked, LockOK, Working, PC
<1> QED BY <1>1, PlansInvariant, PTL DEF Spec, LockHoldsUnlessOverlapped
=============================================================================
