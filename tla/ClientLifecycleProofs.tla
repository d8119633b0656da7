------------------------ MODULE ClientLifecycleProofs ------------------------
(***************************************************************************)
(* Proofs about ClientLifecycle for any sets of sessions, callsigns and    *)
(* users.  The invariants of the specification are not inductive by        *)
(* themselves; the strengthening says that a client object is private to   *)
(* the session that creates it until AddClient has been tried, so nothing  *)
(* can mark it disconnected before it is in the table.                     *)
(***************************************************************************)
EXTENDS ClientLifecycle, TLAPS

\* The object exists and its creator has tried to put it into the table.
Published(c) == callsign[c] # None /\ pc[c] # "add"

\* The table has a client under the client's own callsign.
RegistryOK ==
  \A k \in Callsign :
    registry[k] # None => callsign[registry[k]] = k /\ Published(registry[k])

\* A session with no client has created none; an object whose creator has not
\* published it is attached to its creator only.
AttachedOK ==
  \A s \in Session :
    /\ attached[s] = None => callsign[s] = None
    /\ attached[s] # None =>
         /\ callsign[attached[s]] # None
         /\ Published(attached[s]) \/ attached[s] = s

\* What the locals of the login handler hold at each control point.
LoginOK ==
  \A s \in Session :
    /\ found[s] # None => Published(found[s])
    /\ pc[s] = "reconnect" => found[s] # None
    /\ pc[s] \in {"reconnect", "verify", "create"} => want[s] # None
    /\ pc[s] = "create" => attached[s] = None
    /\ pc[s] = "add" => attached[s] = s
    /\ pc[s] = "mark" => attached[s] # None

\* Other goroutines hold published clients only, and only those are ever
\* disconnected.
TasksOK ==
  /\ \A c \in Client : killing[c] \/ c \in toMark \/ disconnect[c] => Published(c)
  /\ \A c \in Client : callsign[c] # None => socket[c] # None

Structure == TypeOK /\ RegistryOK /\ AttachedOK /\ LoginOK /\ TasksOK

LifecycleInv ==
  /\ Structure
  /\ WindowOnlyWhileDisconnected
  /\ NoLeakedCallsign
  /\ EndedSessionReleased

\* Adding one to one entry of a table of counters leaves a table of counters.
LEMMA CountUp ==
  ASSUME NEW S, NEW f \in [S -> Nat], NEW c
  PROVE  [f EXCEPT ![c] = f[c] + 1] \in [S -> Nat]
<1>1. CASE c \in S
  BY <1>1
<1>2. CASE c \notin S
  <2>1. [f EXCEPT ![c] = f[c] + 1] = f
    BY <1>2
  <2>2. QED
    BY <2>1
<1>3. QED
  BY <1>1, <1>2

\* Every step keeps every variable in its type.
LEMMA TypeStep == TypeOK /\ [Next]_vars => TypeOK'
<1> SUFFICES ASSUME TypeOK, [Next]_vars PROVE TypeOK'
  OBVIOUS
<1> USE NoneAssumption, ConfigAssumption
    DEF TypeOK, Count, Client, PC, sessionVars, clientVars, taskVars, managerVars
<1>0. CASE UNCHANGED vars
  BY <1>0 DEF vars
<1>1. ASSUME NEW s \in Session, Accept(s) PROVE TypeOK'
  BY <1>1 DEF Accept, Goto
<1>2. ASSUME NEW s \in Session, Drop(s) PROVE TypeOK'
  BY <1>2 DEF Drop
<1>3. ASSUME NEW s \in Session, Leave(s) PROVE TypeOK'
  <2>1. pc' \in [Session -> PC]
    BY <1>3 DEF Leave, Goto
  <2>2. /\ open' \in [Session -> BOOLEAN]
        /\ timer' \in [Client -> BOOLEAN]
        /\ disconnect' \in [Client -> BOOLEAN]
    <3>1. CASE attached[s] = None
      <4>1. open' = [open EXCEPT ![s] = FALSE] /\ UNCHANGED <<disconnect, timer>>
        BY <1>3, <3>1, Zenon DEF Leave
      <4>2. QED
        BY <4>1
    <3>2. CASE attached[s] # None
      <4>1. MarkedDisconnect(attached[s], FALSE, {s})
        BY <1>3, <3>2, Zenon DEF Leave
      <4>2. QED
        BY <4>1 DEF MarkedDisconnect
    <3>3. QED
      BY <3>1, <3>2
  <2>3. QED
    BY <1>3, <2>1, <2>2 DEF Leave
<1>4. ASSUME NEW s \in Session, NEW k \in Callsign, Login(s, k) PROVE TypeOK'
  BY <1>4 DEF Login, ReadLine, GetClient, Goto, PC
<1>5. ASSUME NEW s \in Session, FatalCommand(s) PROVE TypeOK'
  BY <1>5 DEF FatalCommand, ReadLine, Goto
<1>6. ASSUME NEW s \in Session, Reconnect(s) PROVE TypeOK'
  BY <1>6 DEF Reconnect, Goto
<1>7. ASSUME NEW s \in Session, CallsignInUse(s) PROVE TypeOK'
  BY <1>7 DEF CallsignInUse, EndLogin, Goto
<1>8. ASSUME NEW s \in Session, AuthFail(s) PROVE TypeOK'
  BY <1>8 DEF AuthFail, EndLogin, Goto
<1>9. ASSUME NEW s \in Session, NEW u \in User, NEW granted \in BOOLEAN,
             Verified(s, u, granted)
      PROVE  TypeOK'
  BY <1>9 DEF Verified, EndLogin, Goto
<1>10. ASSUME NEW s \in Session, NEW atc \in LoginKinds, NewClient(s, atc)
       PROVE  TypeOK'
  BY <1>10 DEF NewClient, EndLogin, Goto
<1>11. ASSUME NEW s \in Session, AddClient(s) PROVE TypeOK'
  BY <1>11 DEF AddClient, Goto
<1>12. ASSUME NEW s \in Session, SessionSendError(s) PROVE TypeOK'
  BY <1>12 DEF SessionSendError, Goto
<1>13. ASSUME NEW s \in Session, ClientSendError(s) PROVE TypeOK'
  BY <1>13 DEF ClientSendError, Goto
<1>14. ASSUME NEW s \in Session, ClientSendErrorMark(s) PROVE TypeOK'
  <2>1. fatalDelete' \in Count
    BY <1>14, CountUp DEF ClientSendErrorMark
  <2>2. disconnect' \in [Client -> BOOLEAN] /\ pc' \in [Session -> PC]
    BY <1>14 DEF ClientSendErrorMark, Goto
  <2>3. QED
    BY <1>14, <2>1, <2>2 DEF ClientSendErrorMark
<1>15. ASSUME NEW c \in Client, FatalDelete(c) PROVE TypeOK'
  <2>1. fatalDelete' \in Count
    BY <1>15 DEF FatalDelete
  <2>2. registry' \in [Callsign -> Client \cup {None}]
    BY <1>15 DEF FatalDelete, DeleteClient
  <2>3. QED
    BY <1>15, <2>1, <2>2 DEF FatalDelete
<1>16. ASSUME NEW c \in Client, TimerFires(c) PROVE TypeOK'
  BY <1>16 DEF TimerFires
<1>17. ASSUME NEW c \in Client, DeleteCheck(c) PROVE TypeOK'
  BY <1>17 DEF DeleteCheck
<1>18. ASSUME NEW c \in Client, Delete(c) PROVE TypeOK'
  <2>1. deleting' \in Count /\ credited' \in Count
    BY <1>18 DEF Delete
  <2>2. registry' \in [Callsign -> Client \cup {None}]
    BY <1>18 DEF Delete, DeleteClient
  <2>3. timer' \in [Client -> BOOLEAN]
    BY <1>18 DEF Delete
  <2>4. QED
    BY <1>18, <2>1, <2>2, <2>3 DEF Delete
<1>19. ASSUME NEW k \in Callsign, KillLookup(k) PROVE TypeOK'
  BY <1>19 DEF KillLookup, GetClient
<1>20. ASSUME NEW c \in Client, Kill(c) PROVE TypeOK'
  BY <1>20 DEF Kill, MarkedDisconnect
<1>21. CASE Shutdown
  BY <1>21 DEF Shutdown
<1>22. CASE ShutdownSnapshot
  BY <1>22 DEF ShutdownSnapshot
<1>23. ASSUME NEW c \in Client, ShutdownMark(c) PROVE TypeOK'
  BY <1>23 DEF ShutdownMark, MarkedDisconnect
<1>24. QED
  BY <1>0, <1>1, <1>2, <1>3, <1>4, <1>5, <1>6, <1>7, <1>8, <1>9, <1>10, <1>11,
     <1>12, <1>13, <1>14, <1>15, <1>16, <1>17, <1>18, <1>19, <1>20, <1>21,
     <1>22, <1>23
     DEF Next, SessionStep, TaskStep

\* What every step leaves alone: a client object keeps its callsign, and once
\* published it stays published.
Stable ==
  \A c \in Client :
    /\ callsign[c] # None => callsign'[c] = callsign[c]
    /\ Published(c) => Published(c)'

\* Only NewClient gives a callsign or leads to AddClient, once per session.
LEMMA PublishedStable == Structure /\ [Next]_vars => Stable
<1> SUFFICES ASSUME Structure, [Next]_vars PROVE Stable
  OBVIOUS
<1> USE NoneAssumption DEF Structure, TypeOK, Count, Client, Published,
        sessionVars, clientVars, taskVars, managerVars, AttachedOK, LoginOK,
        Stable, Goto
<1>1. CASE UNCHANGED <<callsign, pc>>
  BY <1>1
<1>2. ASSUME NEW s \in Session, Accept(s) PROVE Stable
  BY <1>2 DEF Accept, Goto
<1>3. ASSUME NEW s \in Session, Leave(s) PROVE Stable
  BY <1>3 DEF Leave, CanLeave, Goto, MarkedDisconnect
<1>4. ASSUME NEW s \in Session, NEW k \in Callsign, Login(s, k) PROVE Stable
  BY <1>4 DEF Login, ReadLine, GetClient, Goto
<1>5. ASSUME NEW s \in Session, FatalCommand(s) PROVE Stable
  BY <1>5 DEF FatalCommand, ReadLine, Goto
<1>6. ASSUME NEW s \in Session, Reconnect(s) PROVE Stable
  BY <1>6 DEF Reconnect, Goto
<1>7. ASSUME NEW s \in Session, CallsignInUse(s) PROVE Stable
  BY <1>7 DEF CallsignInUse, EndLogin, Goto
<1>8. ASSUME NEW s \in Session, AuthFail(s) PROVE Stable
  BY <1>8 DEF AuthFail, EndLogin, Goto
<1>9. ASSUME NEW s \in Session, NEW u \in User, NEW granted \in BOOLEAN,
             Verified(s, u, granted)
      PROVE  Stable
  BY <1>9 DEF Verified, EndLogin, Goto
<1>10. ASSUME NEW s \in Session, NEW atc \in LoginKinds,
             NewClient(s, atc)
      PROVE  Stable
  BY <1>10 DEF NewClient, EndLogin, Goto
<1>11. ASSUME NEW s \in Session, AddClient(s) PROVE Stable
  BY <1>11 DEF AddClient, Goto
<1>12. ASSUME NEW s \in Session, SessionSendError(s) PROVE Stable
  BY <1>12 DEF SessionSendError, Goto
<1>13. ASSUME NEW s \in Session, ClientSendError(s) PROVE Stable
  BY <1>13 DEF ClientSendError, Goto
<1>14. ASSUME NEW s \in Session, ClientSendErrorMark(s) PROVE Stable
  BY <1>14 DEF ClientSendErrorMark, Goto
<1>15. \/ UNCHANGED <<callsign, pc>>
       \/ \E s \in Session : Accept(s)
       \/ \E s \in Session : Leave(s)
       \/ \E s \in Session, k \in Callsign : Login(s, k)
       \/ \E s \in Session : FatalCommand(s)
       \/ \E s \in Session : Reconnect(s)
       \/ \E s \in Session : CallsignInUse(s)
       \/ \E s \in Session : AuthFail(s)
       \/ \E s \in Session, u \in User, granted \in BOOLEAN :
            Verified(s, u, granted)
       \/ \E s \in Session, atc \in LoginKinds : NewClient(s, atc)
       \/ \E s \in Session : AddClient(s)
       \/ \E s \in Session : SessionSendError(s)
       \/ \E s \in Session : ClientSendError(s)
       \/ \E s \in Session : ClientSendErrorMark(s)
  BY DEF Next, SessionStep, TaskStep, vars, sessionVars, clientVars,
         taskVars, managerVars, Drop, FatalDelete, DeleteClient, TimerFires,
         DeleteCheck, Delete, KillLookup, Kill, MarkedDisconnect, Shutdown,
         ShutdownSnapshot, ShutdownMark
<1>16. QED
  BY <1>1, <1>2, <1>3, <1>4, <1>5, <1>6, <1>7, <1>8, <1>9, <1>10, <1>11,
     <1>12, <1>13, <1>14, <1>15

\* The table changes by AddClient and by the two deletions.
LEMMA RegistryStep == Structure /\ [Next]_vars => RegistryOK'
<1> SUFFICES ASSUME Structure, [Next]_vars PROVE RegistryOK'
  OBVIOUS
<1> USE NoneAssumption DEF Structure, TypeOK, Count, Client, Published,
        sessionVars, clientVars, taskVars, managerVars, RegistryOK,
        AttachedOK, LoginOK, Stable
<1>0. Stable
  BY PublishedStable DEF Stable
<1>1. CASE UNCHANGED registry
  BY <1>0, <1>1
<1>2. ASSUME NEW s \in Session, AddClient(s) PROVE RegistryOK'
  BY <1>0, <1>2 DEF AddClient, Goto, Published
<1>3. ASSUME NEW c \in Client, FatalDelete(c) PROVE RegistryOK'
  BY <1>0, <1>3 DEF FatalDelete, DeleteClient
<1>4. ASSUME NEW c \in Client, Delete(c) PROVE RegistryOK'
  BY <1>0, <1>4 DEF Delete, DeleteClient
<1>5. \/ UNCHANGED registry
      \/ \E s \in Session : AddClient(s)
      \/ \E c \in Client : FatalDelete(c)
      \/ \E c \in Client : Delete(c)
  BY DEF Next, SessionStep, TaskStep, vars, sessionVars, clientVars,
         taskVars, managerVars, Accept, Drop, Leave, MarkedDisconnect, Login,
         ReadLine, FatalCommand, Reconnect, CallsignInUse, EndLogin,
         AuthFail, Verified, NewClient, SessionSendError, ClientSendError,
         ClientSendErrorMark, TimerFires, DeleteCheck, KillLookup, Kill,
         Shutdown, ShutdownSnapshot, ShutdownMark
<1>6. QED
  BY <1>1, <1>2, <1>3, <1>4, <1>5

\* A session gets its client from NewClient or Reconnect.
LEMMA AttachedStep == Structure /\ [Next]_vars => AttachedOK'
<1> SUFFICES ASSUME Structure, [Next]_vars PROVE AttachedOK'
  OBVIOUS
<1> USE NoneAssumption DEF Structure, TypeOK, Count, Client, Published,
        sessionVars, clientVars, taskVars, managerVars, AttachedOK, LoginOK,
        Stable
<1>0. Stable
  BY PublishedStable DEF Stable
<1>1. CASE UNCHANGED <<attached, callsign>>
  BY <1>0, <1>1
<1>2. ASSUME NEW s \in Session, Reconnect(s) PROVE AttachedOK'
  BY <1>0, <1>2 DEF Reconnect, Goto
<1>3. ASSUME NEW s \in Session, NEW atc \in LoginKinds,
             NewClient(s, atc)
      PROVE  AttachedOK'
  BY <1>0, <1>3 DEF NewClient, EndLogin, Goto, Published
<1>4. \/ UNCHANGED <<attached, callsign>>
      \/ \E s \in Session : Reconnect(s)
      \/ \E s \in Session, atc \in LoginKinds : NewClient(s, atc)
  BY DEF Next, SessionStep, TaskStep, vars, sessionVars, clientVars,
         taskVars, managerVars, Accept, Drop, Leave, MarkedDisconnect, Login,
         ReadLine, FatalCommand, CallsignInUse, EndLogin, AuthFail, Verified,
         AddClient, SessionSendError, ClientSendError, ClientSendErrorMark,
         FatalDelete, DeleteClient, TimerFires, DeleteCheck, Delete,
         KillLookup, Kill, Shutdown, ShutdownSnapshot, ShutdownMark
<1>5. QED
  BY <1>1, <1>2, <1>3, <1>4

\* The locals of the login handler at each control point.
LEMMA LoginStep == Structure /\ [Next]_vars => LoginOK'
<1> SUFFICES ASSUME Structure, [Next]_vars PROVE LoginOK'
  OBVIOUS
<1> USE NoneAssumption DEF Structure, TypeOK, Count, Client, Published,
        sessionVars, clientVars, taskVars, managerVars, RegistryOK,
        AttachedOK, LoginOK, Stable
<1>0. Stable
  BY PublishedStable DEF Stable
<1>1. CASE UNCHANGED <<pc, want, found, attached>>
  BY <1>0, <1>1
<1>2. ASSUME NEW s \in Session, Accept(s) PROVE LoginOK'
  BY <1>0, <1>2 DEF Accept, Goto
<1>3. ASSUME NEW s \in Session, Leave(s) PROVE LoginOK'
  BY <1>0, <1>3 DEF Leave, CanLeave, Goto, MarkedDisconnect
<1>4. ASSUME NEW s \in Session, NEW k \in Callsign,
             Login(s, k)
      PROVE  LoginOK'
  BY <1>0, <1>4 DEF Login, ReadLine, GetClient, Goto
<1>5. ASSUME NEW s \in Session, FatalCommand(s) PROVE LoginOK'
  BY <1>0, <1>5 DEF FatalCommand, ReadLine, Goto
<1>6. ASSUME NEW s \in Session, Reconnect(s) PROVE LoginOK'
  BY <1>0, <1>6 DEF Reconnect, Goto
<1>7. ASSUME NEW s \in Session, CallsignInUse(s) PROVE LoginOK'
  BY <1>0, <1>7 DEF CallsignInUse, EndLogin, Goto
<1>8. ASSUME NEW s \in Session, AuthFail(s) PROVE LoginOK'
  BY <1>0, <1>8 DEF AuthFail, EndLogin, Goto
<1>9. ASSUME NEW s \in Session, NEW u \in User, NEW granted \in BOOLEAN,
             Verified(s, u, granted)
      PROVE  LoginOK'
  BY <1>0, <1>9 DEF Verified, EndLogin, Goto
<1>10. ASSUME NEW s \in Session, NEW atc \in LoginKinds,
             NewClient(s, atc)
      PROVE  LoginOK'
  BY <1>0, <1>10 DEF NewClient, EndLogin, Goto
<1>11. ASSUME NEW s \in Session, AddClient(s) PROVE LoginOK'
  BY <1>0, <1>11 DEF AddClient, Goto
<1>12. ASSUME NEW s \in Session, SessionSendError(s) PROVE LoginOK'
  BY <1>0, <1>12 DEF SessionSendError, Goto
<1>13. ASSUME NEW s \in Session, ClientSendError(s) PROVE LoginOK'
  BY <1>0, <1>13 DEF ClientSendError, Goto
<1>14. ASSUME NEW s \in Session, ClientSendErrorMark(s) PROVE LoginOK'
  BY <1>0, <1>14 DEF ClientSendErrorMark, Goto
<1>15. \/ UNCHANGED <<pc, want, found, attached>>
       \/ \E s \in Session : Accept(s)
       \/ \E s \in Session : Leave(s)
       \/ \E s \in Session, k \in Callsign : Login(s, k)
       \/ \E s \in Session : FatalCommand(s)
       \/ \E s \in Session : Reconnect(s)
       \/ \E s \in Session : CallsignInUse(s)
       \/ \E s \in Session : AuthFail(s)
       \/ \E s \in Session, u \in User, granted \in BOOLEAN :
            Verified(s, u, granted)
       \/ \E s \in Session, atc \in LoginKinds : NewClient(s, atc)
       \/ \E s \in Session : AddClient(s)
       \/ \E s \in Session : SessionSendError(s)
       \/ \E s \in Session : ClientSendError(s)
       \/ \E s \in Session : ClientSendErrorMark(s)
  BY DEF Next, SessionStep, TaskStep, vars, sessionVars, clientVars,
         taskVars, managerVars, Drop, FatalDelete, DeleteClient, TimerFires,
         DeleteCheck, Delete, KillLookup, Kill, MarkedDisconnect, Shutdown,
         ShutdownSnapshot, ShutdownMark
<1>16. QED
  BY <1>1, <1>2, <1>3, <1>4, <1>5, <1>6, <1>7, <1>8, <1>9, <1>10, <1>11,
     <1>12, <1>13, <1>14, <1>15

\* Only published clients are handed to other goroutines or disconnected.
LEMMA TasksStep == Structure /\ [Next]_vars => TasksOK'
<1> SUFFICES ASSUME Structure, [Next]_vars PROVE TasksOK'
  OBVIOUS
<1> USE NoneAssumption DEF Structure, TypeOK, Count, Client, Published,
        sessionVars, clientVars, taskVars, managerVars, RegistryOK,
        AttachedOK, LoginOK, TasksOK, Stable
<1>0. Stable
  BY PublishedStable DEF Stable
<1>1. CASE UNCHANGED <<killing, toMark, disconnect, socket, callsign>>
  BY <1>0, <1>1
<1>2. ASSUME NEW s \in Session, Leave(s) PROVE TasksOK'
  BY <1>0, <1>2 DEF Leave, CanLeave, Goto, MarkedDisconnect
<1>3. ASSUME NEW s \in Session, Reconnect(s) PROVE TasksOK'
  BY <1>0, <1>3 DEF Reconnect, Goto
<1>4. ASSUME NEW s \in Session, NEW atc \in LoginKinds,
             NewClient(s, atc)
      PROVE  TasksOK'
  BY <1>0, <1>4 DEF NewClient, EndLogin, Goto
<1>5. ASSUME NEW s \in Session, ClientSendErrorMark(s) PROVE TasksOK'
  BY <1>0, <1>5 DEF ClientSendErrorMark, Goto
<1>6. ASSUME NEW k \in Callsign, KillLookup(k) PROVE TasksOK'
  BY <1>0, <1>6 DEF KillLookup, GetClient
<1>7. ASSUME NEW c \in Client, Kill(c) PROVE TasksOK'
  BY <1>0, <1>7 DEF Kill, MarkedDisconnect
<1>8. CASE ShutdownSnapshot
  BY <1>0, <1>8 DEF ShutdownSnapshot
<1>9. ASSUME NEW c \in Client, ShutdownMark(c) PROVE TasksOK'
  BY <1>0, <1>9 DEF ShutdownMark, MarkedDisconnect
<1>10. \/ UNCHANGED <<killing, toMark, disconnect, socket, callsign>>
       \/ \E s \in Session : Leave(s)
       \/ \E s \in Session : Reconnect(s)
       \/ \E s \in Session, atc \in LoginKinds : NewClient(s, atc)
       \/ \E s \in Session : ClientSendErrorMark(s)
       \/ \E k \in Callsign : KillLookup(k)
       \/ \E c \in Client : Kill(c)
       \/ ShutdownSnapshot
       \/ \E c \in Client : ShutdownMark(c)
  BY DEF Next, SessionStep, TaskStep, vars, sessionVars, clientVars,
         taskVars, managerVars, Accept, Drop, Login, ReadLine, FatalCommand,
         CallsignInUse, EndLogin, AuthFail, Verified, AddClient,
         SessionSendError, ClientSendError, FatalDelete, DeleteClient,
         TimerFires, DeleteCheck, Delete, Shutdown
<1>11. QED
  BY <1>1, <1>2, <1>3, <1>4, <1>5, <1>6, <1>7, <1>8, <1>9, <1>10

\* Reconnect stops the timer it finds; only a first MarkedDisconnect starts one.
LEMMA WindowStep ==
  Structure /\ WindowOnlyWhileDisconnected /\ [Next]_vars => WindowOnlyWhileDisconnected'
<1> SUFFICES ASSUME Structure, WindowOnlyWhileDisconnected, [Next]_vars PROVE WindowOnlyWhileDisconnected'
  OBVIOUS
<1> USE NoneAssumption DEF Structure, TypeOK, Count, Client, Published,
        sessionVars, clientVars, taskVars, managerVars,
        WindowOnlyWhileDisconnected
<1>1. CASE UNCHANGED <<timer, disconnect>>
  BY <1>1
<1>2. ASSUME NEW s \in Session, Leave(s) PROVE WindowOnlyWhileDisconnected'
  BY <1>2 DEF Leave, CanLeave, Goto, MarkedDisconnect
<1>3. ASSUME NEW s \in Session,
             Reconnect(s)
      PROVE  WindowOnlyWhileDisconnected'
  BY <1>3 DEF Reconnect, Goto
<1>4. ASSUME NEW s \in Session,
             ClientSendErrorMark(s)
      PROVE  WindowOnlyWhileDisconnected'
  BY <1>4 DEF ClientSendErrorMark, Goto
<1>5. ASSUME NEW c \in Client,
             TimerFires(c)
      PROVE  WindowOnlyWhileDisconnected'
  BY <1>5 DEF TimerFires
<1>6. ASSUME NEW c \in Client, Delete(c) PROVE WindowOnlyWhileDisconnected'
  BY <1>6 DEF Delete, DeleteClient
<1>7. ASSUME NEW c \in Client, Kill(c) PROVE WindowOnlyWhileDisconnected'
  BY <1>7 DEF Kill, MarkedDisconnect
<1>8. ASSUME NEW c \in Client,
             ShutdownMark(c)
      PROVE  WindowOnlyWhileDisconnected'
  BY <1>8 DEF ShutdownMark, MarkedDisconnect
<1>9. \/ UNCHANGED <<timer, disconnect>>
      \/ \E s \in Session : Leave(s)
      \/ \E s \in Session : Reconnect(s)
      \/ \E s \in Session : ClientSendErrorMark(s)
      \/ \E c \in Client : TimerFires(c)
      \/ \E c \in Client : Delete(c)
      \/ \E c \in Client : Kill(c)
      \/ \E c \in Client : ShutdownMark(c)
  BY DEF Next, SessionStep, TaskStep, vars, sessionVars, clientVars,
         taskVars, managerVars, Accept, Drop, Login, ReadLine, FatalCommand,
         CallsignInUse, EndLogin, AuthFail, Verified, NewClient, AddClient,
         SessionSendError, ClientSendError, FatalDelete, DeleteClient,
         DeleteCheck, KillLookup, Shutdown, ShutdownSnapshot
<1>10. QED
  BY <1>1, <1>2, <1>3, <1>4, <1>5, <1>6, <1>7, <1>8, <1>9

\* HandleConnection marks the client disconnected on its way out.
LEMMA EndedStep ==
  Structure /\ EndedSessionReleased /\ [Next]_vars => EndedSessionReleased'
<1> SUFFICES ASSUME Structure, EndedSessionReleased, [Next]_vars PROVE EndedSessionReleased'
  OBVIOUS
<1> USE NoneAssumption DEF Structure, TypeOK, Count, Client, Published,
        sessionVars, clientVars, taskVars, managerVars, LoginOK, TasksOK,
        AttachedOK, EndedSessionReleased
<1>1. CASE UNCHANGED <<pc, attached, socket, disconnect>>
  BY <1>1
<1>2. ASSUME NEW s \in Session, Accept(s) PROVE EndedSessionReleased'
  BY <1>2 DEF Accept, Goto
<1>3. ASSUME NEW s \in Session, Leave(s) PROVE EndedSessionReleased'
  BY <1>3 DEF Leave, CanLeave, Goto, MarkedDisconnect
<1>4. ASSUME NEW s \in Session, NEW k \in Callsign,
             Login(s, k)
      PROVE  EndedSessionReleased'
  BY <1>4 DEF Login, ReadLine, GetClient, Goto
<1>5. ASSUME NEW s \in Session, FatalCommand(s) PROVE EndedSessionReleased'
  BY <1>5 DEF FatalCommand, ReadLine, Goto
<1>6. ASSUME NEW s \in Session, Reconnect(s) PROVE EndedSessionReleased'
  BY <1>6 DEF Reconnect, Goto
<1>7. ASSUME NEW s \in Session, CallsignInUse(s) PROVE EndedSessionReleased'
  BY <1>7 DEF CallsignInUse, EndLogin, Goto
<1>8. ASSUME NEW s \in Session, AuthFail(s) PROVE EndedSessionReleased'
  BY <1>8 DEF AuthFail, EndLogin, Goto
<1>9. ASSUME NEW s \in Session, NEW u \in User, NEW granted \in BOOLEAN,
             Verified(s, u, granted)
      PROVE  EndedSessionReleased'
  BY <1>9 DEF Verified, EndLogin, Goto
<1>10. ASSUME NEW s \in Session, NEW atc \in LoginKinds,
             NewClient(s, atc)
      PROVE  EndedSessionReleased'
  BY <1>10 DEF NewClient, EndLogin, Goto
<1>11. ASSUME NEW s \in Session, AddClient(s) PROVE EndedSessionReleased'
  BY <1>11 DEF AddClient, Goto
<1>12. ASSUME NEW s \in Session,
             SessionSendError(s)
      PROVE  EndedSessionReleased'
  BY <1>12 DEF SessionSendError, Goto
<1>13. ASSUME NEW s \in Session,
             ClientSendError(s)
      PROVE  EndedSessionReleased'
  BY <1>13 DEF ClientSendError, Goto
<1>14. ASSUME NEW s \in Session,
             ClientSendErrorMark(s)
      PROVE  EndedSessionReleased'
  BY <1>14 DEF ClientSendErrorMark, Goto
<1>15. ASSUME NEW c \in Client, Kill(c) PROVE EndedSessionReleased'
  BY <1>15 DEF Kill, MarkedDisconnect
<1>16. ASSUME NEW c \in Client, ShutdownMark(c) PROVE EndedSessionReleased'
  BY <1>16 DEF ShutdownMark, MarkedDisconnect
<1>17. \/ UNCHANGED <<pc, attached, socket, disconnect>>
       \/ \E s \in Session : Accept(s)
       \/ \E s \in Session : Leave(s)
       \/ \E s \in Session, k \in Callsign : Login(s, k)
       \/ \E s \in Session : FatalCommand(s)
       \/ \E s \in Session : Reconnect(s)
       \/ \E s \in Session : CallsignInUse(s)
       \/ \E s \in Session : AuthFail(s)
       \/ \E s \in Session, u \in User, granted \in BOOLEAN :
            Verified(s, u, granted)
       \/ \E s \in Session, atc \in LoginKinds : NewClient(s, atc)
       \/ \E s \in Session : AddClient(s)
       \/ \E s \in Session : SessionSendError(s)
       \/ \E s \in Session : ClientSendError(s)
       \/ \E s \in Session : ClientSendErrorMark(s)
       \/ \E c \in Client : Kill(c)
       \/ \E c \in Client : ShutdownMark(c)
  BY DEF Next, SessionStep, TaskStep, vars, sessionVars, clientVars,
         taskVars, managerVars, Drop, FatalDelete, DeleteClient, TimerFires,
         DeleteCheck, Delete, KillLookup, Shutdown, ShutdownSnapshot
<1>18. QED
  BY <1>1, <1>2, <1>3, <1>4, <1>5, <1>6, <1>7, <1>8, <1>9, <1>10, <1>11,
     <1>12, <1>13, <1>14, <1>15, <1>16, <1>17

\* Whoever disconnects a client leaves a timer or a goroutine behind, and who
\* consumes one of those removes the client or found it connected.
LEMMA NoLeakStep ==
  Structure /\ NoLeakedCallsign /\ [Next]_vars => NoLeakedCallsign'
<1> SUFFICES ASSUME Structure, NoLeakedCallsign, [Next]_vars PROVE NoLeakedCallsign'
  OBVIOUS
<1> USE NoneAssumption DEF Structure, TypeOK, Count, Client, Published,
        sessionVars, clientVars, taskVars, managerVars, RegistryOK,
        AttachedOK, LoginOK, TasksOK, Registered, CleanupPending,
        NoLeakedCallsign
<1>1. CASE UNCHANGED <<registry, disconnect, timer, checking, deleting, fatalDelete>>
  BY <1>1
<1>2. ASSUME NEW s \in Session, Leave(s) PROVE NoLeakedCallsign'
  <2>1. CASE attached[s] = None
    BY <1>2, <2>1 DEF Leave
  <2>2. CASE attached[s] # None
    <3>1. MarkedDisconnect(attached[s], FALSE, {s})
      BY <1>2, <2>2, Zenon DEF Leave
    <3>2. UNCHANGED <<registry, checking, deleting, fatalDelete>>
      BY <1>2 DEF Leave
    <3>3. ASSUME NEW c \in Client, Registered(c), disconnect'[c]
          PROVE  CleanupPending(c)'
      <4>1. CASE c = attached[s] /\ ~disconnect[c]
        BY <3>1, <4>1 DEF MarkedDisconnect
      <4>2. CASE c # attached[s] \/ disconnect[c]
        <5>1. disconnect[c] /\ timer'[c] = timer[c]
          BY <3>1, <3>3, <4>2 DEF MarkedDisconnect
        <5>2. QED
          BY <3>2, <3>3, <5>1
      <4>3. QED
        BY <4>1, <4>2
    <3>4. QED
      BY <3>2, <3>3
  <2>3. QED
    BY <2>1, <2>2
<1>3. ASSUME NEW s \in Session, Reconnect(s) PROVE NoLeakedCallsign'
  BY <1>3 DEF Reconnect, Goto
<1>4. ASSUME NEW s \in Session, AddClient(s) PROVE NoLeakedCallsign'
  BY <1>4 DEF AddClient, Goto
<1>5. ASSUME NEW s \in Session,
             ClientSendErrorMark(s)
      PROVE  NoLeakedCallsign'
  BY <1>5 DEF ClientSendErrorMark, Goto
<1>6. ASSUME NEW c \in Client, FatalDelete(c) PROVE NoLeakedCallsign'
  BY <1>6 DEF FatalDelete, DeleteClient
<1>7. ASSUME NEW c \in Client, TimerFires(c) PROVE NoLeakedCallsign'
  BY <1>7 DEF TimerFires
<1>8. ASSUME NEW c \in Client, DeleteCheck(c) PROVE NoLeakedCallsign'
  BY <1>8 DEF DeleteCheck
<1>9. ASSUME NEW c \in Client, Delete(c) PROVE NoLeakedCallsign'
  BY <1>9 DEF Delete, DeleteClient
<1>10. ASSUME NEW c \in Client, Kill(c) PROVE NoLeakedCallsign'
  BY <1>10 DEF Kill, MarkedDisconnect
<1>11. ASSUME NEW c \in Client, ShutdownMark(c) PROVE NoLeakedCallsign'
  BY <1>11 DEF ShutdownMark, MarkedDisconnect
<1>12. \/ UNCHANGED <<registry, disconnect, timer, checking, deleting, fatalDelete>>
       \/ \E s \in Session : Leave(s)
       \/ \E s \in Session : Reconnect(s)
       \/ \E s \in Session : AddClient(s)
       \/ \E s \in Session : ClientSendErrorMark(s)
       \/ \E c \in Client : FatalDelete(c)
       \/ \E c \in Client : TimerFires(c)
       \/ \E c \in Client : DeleteCheck(c)
       \/ \E c \in Client : Delete(c)
       \/ \E c \in Client : Kill(c)
       \/ \E c \in Client : ShutdownMark(c)
  BY DEF Next, SessionStep, TaskStep, vars, sessionVars, clientVars,
         taskVars, managerVars, Accept, Drop, Login, ReadLine, FatalCommand,
         CallsignInUse, EndLogin, AuthFail, Verified, NewClient,
         SessionSendError, ClientSendError, KillLookup, Shutdown,
         ShutdownSnapshot
<1>13. QED
  BY <1>1, <1>2, <1>3, <1>4, <1>5, <1>6, <1>7, <1>8, <1>9, <1>10, <1>11,
     <1>12

\* The inductive invariant is preserved by every step.
LEMMA LifecycleStep == LifecycleInv /\ [Next]_vars => LifecycleInv'
  BY TypeStep, RegistryStep, AttachedStep, LoginStep, TasksStep, WindowStep,
     EndedStep, NoLeakStep
     DEF LifecycleInv, Structure

\* Nothing exists initially.
LEMMA LifecycleInit == Init => LifecycleInv
  BY NoneAssumption
     DEF Init, LifecycleInv, Structure, TypeOK, Count, Client, PC, RegistryOK,
         AttachedOK, LoginOK, TasksOK, Published, Registered,
         WindowOnlyWhileDisconnected, NoLeakedCallsign, EndedSessionReleased

\* The inductive invariant holds throughout every behaviour of the server.
THEOREM LifecycleInvariant == Spec => []LifecycleInv
  BY LifecycleInit, LifecycleStep, PTL DEF Spec

\* Every variable keeps its type: session.client, client.socket and the table
\* only ever refer to existing objects.
THEOREM TypeCorrect == Spec => []TypeOK
<1>1. LifecycleInv => TypeOK
  BY DEF LifecycleInv, Structure
<1>2. QED
  BY <1>1, LifecycleInvariant, PTL

\* A disconnected client in the table always has a timer or a goroutine on its
\* way to remove it (MarkedDisconnect, SendError, Reconnect, Delete), for any
\* number of sessions and callsigns.
THEOREM NoCallsignLeaks == Spec => []NoLeakedCallsign
<1>1. LifecycleInv => NoLeakedCallsign
  BY DEF LifecycleInv
<1>2. QED
  BY <1>1, LifecycleInvariant, PTL

\* client.reconnectTimer runs only while its client is disconnected.
THEOREM WindowsAreClosed == Spec => []WindowOnlyWhileDisconnected
<1>1. LifecycleInv => WindowOnlyWhileDisconnected
  BY DEF LifecycleInv
<1>2. QED
  BY <1>1, LifecycleInvariant, PTL

\* A returned HandleConnection has released the client it was the socket of.
THEOREM EndedSessionsRelease == Spec => []EndedSessionReleased
<1>1. LifecycleInv => EndedSessionReleased
  BY DEF LifecycleInv
<1>2. QED
  BY <1>1, LifecycleInvariant, PTL

-----------------------------------------------------------------------------
(* The code's table implements the abstract one. *)

Grace == {k \in Callsign : registry[k] # None /\ disconnect[registry[k]]}

\* Both tables start empty.
LEMMA TableInitial == Init => Table!TableInit
  BY DEF Init, Table!TableInit

\* A change of one client's disconnect flag, with the table left alone, is a
\* step of the client's own callsign or no step at all.
LEMMA FlagStep ==
  ASSUME LifecycleInv, NEW c \in Client, NEW b \in BOOLEAN,
         disconnect' = [disconnect EXCEPT ![c] = b], UNCHANGED registry
  PROVE  Table!TableNext \/ UNCHANGED Table!tableVars
<1> USE DEF LifecycleInv, Structure, TypeOK, Client, RegistryOK
<1>1. \A k \in Callsign : registry[k] = c => k = callsign[c]
  BY NoneAssumption
<1>2. CASE Registered(c)
  <2>1. PICK k \in Callsign : registry[k] = c
    BY <1>2 DEF Registered
  <2>2. \A j \in Callsign : j # k => (j \in Grace' <=> j \in Grace)
    BY <1>1, <2>1 DEF Grace
  <2>3. k \in Grace' <=> b
    BY <2>1, NoneAssumption DEF Grace
  <2>4. CASE b
    <3>1. Grace' = Grace \cup {k}
      BY <2>2, <2>3, <2>4 DEF Grace
    <3>2. Table!Lose(k)
      BY <2>1, <3>1, NoneAssumption DEF Table!Lose, Grace
    <3>3. QED
      BY <3>2 DEF Table!TableNext
  <2>5. CASE ~b
    <3>1. Grace' = Grace \ {k}
      BY <2>2, <2>3, <2>5 DEF Grace
    <3>2. CASE k \in Grace
      <4>1. Table!Resume(k)
        BY <3>1, <3>2 DEF Table!Resume, Grace
      <4>2. QED
        BY <4>1 DEF Table!TableNext
    <3>3. CASE k \notin Grace
      BY <3>1, <3>3 DEF Table!tableVars, Grace
    <3>4. QED
      BY <3>2, <3>3
  <2>6. QED
    BY <2>4, <2>5
<1>3. CASE ~Registered(c)
  <2>1. Grace' = Grace
    BY <1>3 DEF Grace, Registered
  <2>2. QED
    BY <2>1 DEF Table!tableVars, Grace
<1>4. QED
  BY <1>2, <1>3

\* Removing an entry is a Release, or no step if the callsign was free.
LEMMA ReleaseStep ==
  ASSUME LifecycleInv, NEW c \in Client, DeleteClient(callsign[c]),
         UNCHANGED disconnect
  PROVE  Table!TableNext \/ UNCHANGED Table!tableVars
<1> USE DEF LifecycleInv, Structure, TypeOK, Client
<1>1. CASE callsign[c] \in Callsign /\ registry[callsign[c]] # None
  <2>1. PICK k \in Callsign : k = callsign[c] /\ registry[k] # None
    BY <1>1
  <2>2. Grace' = Grace \ {k}
    BY <2>1 DEF Grace, DeleteClient
  <2>3. Table!Release(k)
    BY <2>1, <2>2 DEF Table!Release, Grace, DeleteClient
  <2>4. QED
    BY <2>3 DEF Table!TableNext
<1>2. CASE ~(callsign[c] \in Callsign /\ registry[callsign[c]] # None)
  <2>1. registry' = registry
    BY <1>2 DEF DeleteClient
  <2>2. QED
    BY <2>1 DEF Table!tableVars
<1>3. QED
  BY <1>1, <1>2

\* AddClient is a Register, or no step if the callsign is taken.
LEMMA RegisterStep ==
  ASSUME LifecycleInv, NEW s \in Session, AddClient(s)
  PROVE  Table!TableNext \/ UNCHANGED Table!tableVars
<1> USE NoneAssumption
    DEF LifecycleInv, Structure, TypeOK, Client, AddClient, clientVars
<1>1. callsign[s] \in Callsign /\ ~disconnect[s]
  BY DEF LoginOK, AttachedOK, TasksOK, Published
<1>2. CASE registry[callsign[s]] = None
  <2>1. registry' = [registry EXCEPT ![callsign[s]] = s]
    BY <1>2
  <2>2. Grace' = Grace
    BY <1>1, <1>2, <2>1 DEF Grace
  <2>3. Table!Register(callsign[s], s)
    BY <1>2, <2>1, <2>2 DEF Table!Register, Grace
  <2>4. QED
    BY <1>1, <2>3 DEF Table!TableNext
<1>3. CASE registry[callsign[s]] # None
  <2>1. registry' = registry
    BY <1>1, <1>3
  <2>2. QED
    BY <2>1 DEF Table!tableVars
<1>4. QED
  BY <1>2, <1>3

\* Every step of the server is a step of the abstract table or leaves it alone.
LEMMA TableStep ==
  LifecycleInv /\ [Next]_vars => [Table!TableNext]_(Table!tableVars)
<1> SUFFICES ASSUME LifecycleInv, [Next]_vars
             PROVE  Table!TableNext \/ UNCHANGED Table!tableVars
  OBVIOUS
<1> USE DEF sessionVars, clientVars, taskVars, managerVars
<1>1. CASE UNCHANGED <<registry, disconnect>>
  BY <1>1 DEF Table!tableVars
<1>2. ASSUME NEW s \in Session, Leave(s), ~UNCHANGED disconnect
      PROVE  Table!TableNext \/ UNCHANGED Table!tableVars
  <2>1. attached[s] \in Client
    BY <1>2 DEF Leave, LifecycleInv, Structure, TypeOK
  <2>2. MarkedDisconnect(attached[s], FALSE, {s}) /\ UNCHANGED registry
    BY <1>2 DEF Leave
  <2>3. QED
    BY <2>1, <2>2, FlagStep DEF MarkedDisconnect
<1>3. ASSUME NEW s \in Session, Reconnect(s)
      PROVE  Table!TableNext \/ UNCHANGED Table!tableVars
  <2>1. found[s] \in Client
    BY <1>3 DEF Reconnect, LifecycleInv, Structure, TypeOK, LoginOK
  <2>2. QED
    BY <1>3, <2>1, FlagStep DEF Reconnect
<1>4. ASSUME NEW s \in Session, AddClient(s)
      PROVE  Table!TableNext \/ UNCHANGED Table!tableVars
  BY <1>4, RegisterStep
<1>5. ASSUME NEW s \in Session, ClientSendErrorMark(s)
      PROVE  Table!TableNext \/ UNCHANGED Table!tableVars
  <2>1. attached[s] \in Client
    BY <1>5 DEF ClientSendErrorMark, LifecycleInv, Structure, TypeOK, LoginOK
  <2>2. QED
    BY <1>5, <2>1, FlagStep DEF ClientSendErrorMark
<1>6. ASSUME NEW c \in Client, FatalDelete(c)
      PROVE  Table!TableNext \/ UNCHANGED Table!tableVars
  BY <1>6, ReleaseStep DEF FatalDelete
<1>7. ASSUME NEW c \in Client, Delete(c)
      PROVE  Table!TableNext \/ UNCHANGED Table!tableVars
  BY <1>7, ReleaseStep DEF Delete
<1>8. ASSUME NEW c \in Client, Kill(c) \/ ShutdownMark(c)
      PROVE  Table!TableNext \/ UNCHANGED Table!tableVars
  BY <1>8, FlagStep DEF Kill, ShutdownMark, MarkedDisconnect
<1>9. \/ UNCHANGED <<registry, disconnect>>
      \/ \E s \in Session : Leave(s) /\ ~UNCHANGED disconnect
      \/ \E s \in Session : Reconnect(s)
      \/ \E s \in Session : AddClient(s)
      \/ \E s \in Session : ClientSendErrorMark(s)
      \/ \E c \in Client : FatalDelete(c)
      \/ \E c \in Client : Delete(c)
      \/ \E c \in Client : Kill(c) \/ ShutdownMark(c)
  <2>1. ASSUME NEW s \in Session,
                \/ Accept(s) \/ Drop(s) \/ FatalCommand(s)
                \/ \E k \in Callsign : Login(s, k)
                \/ CallsignInUse(s) \/ AuthFail(s)
                \/ \E u \in User, granted \in BOOLEAN : Verified(s, u, granted)
                \/ \E atc \in LoginKinds : NewClient(s, atc)
                \/ SessionSendError(s) \/ ClientSendError(s)
        PROVE  UNCHANGED <<registry, disconnect>>
    BY <2>1 DEF Accept, Drop, FatalCommand, Login, CallsignInUse, AuthFail,
                Verified, NewClient, SessionSendError, ClientSendError
  <2>2. ASSUME NEW c \in Client, TimerFires(c) \/ DeleteCheck(c)
        PROVE  UNCHANGED <<registry, disconnect>>
    BY <2>2 DEF TimerFires, DeleteCheck
  <2>3. ASSUME \/ \E k \in Callsign : KillLookup(k)
               \/ Shutdown \/ ShutdownSnapshot
               \/ UNCHANGED vars
               \/ \E s \in Session : Leave(s) /\ UNCHANGED disconnect
        PROVE  UNCHANGED <<registry, disconnect>>
    BY <2>3 DEF KillLookup, Shutdown, ShutdownSnapshot, vars, Leave
  <2> QED BY <2>1, <2>2, <2>3 DEF Next, SessionStep, TaskStep
<1>10. QED
  BY <1>1, <1>2, <1>3, <1>4, <1>5, <1>6, <1>7, <1>8, <1>9

\* The server's callsign table implements CallsignTable: AddClient never
\* replaces an owner, no client enters the table disconnected, and only the
\* owner's own loss and return change its grace period.
THEOREM TableImplemented == Spec => TableRefinement
  BY TableInitial, TableStep, LifecycleInvariant, PTL
     DEF Spec, TableRefinement, Table!TableSpec
=============================================================================
