--------------------------- MODULE ClientLifecycle ---------------------------
(***************************************************************************)
(* The life of FSD client objects: connections (packet.Session), client    *)
(* objects (packet.Client) and the callsign table (packet.ClientManager).  *)
(*                                                                         *)
(* Every session runs its own goroutine; delayed calls (time.AfterFunc),   *)
(* kill requests and the shutdown workers run in goroutines of their own.  *)
(* One action is one atomic stretch of the code: a body under client.lock  *)
(* or under the manager's lock, or a single atomic load or store made      *)
(* outside any lock.  Where the code reads, releases and acts later, the   *)
(* model has one action for each part.  GetClient is one step: its load of *)
(* shuttingDown comes right before the locked look at the table.           *)
(*                                                                         *)
(* A session creates at most one client object (session.client is nil only *)
(* before its first login), so the object created by session s is named s. *)
(* Positions, ratings and messages are left out; what is written to a      *)
(* socket changes nothing here (the blocking of such writes is the subject *)
(* of a module of its own).                                                *)
(***************************************************************************)
EXTENDS Naturals

CONSTANTS Session,         \* connections, each accepted once
          Callsign,        \* valid callsigns
          User,            \* accounts that exist and are not banned
          None,            \* nil
          SimulatorServer, \* config.Server.General.SimulatorServer
          LoginKinds,      \* logins that occur: TRUE for #AA, FALSE for #AP
          MaxLines         \* bound: login and fatal lines read in all

ASSUME NoneAssumption == None \notin Session \cup Callsign \cup User
ASSUME ConfigAssumption ==
  /\ SimulatorServer \in BOOLEAN
  /\ LoginKinds \subseteq BOOLEAN
  /\ MaxLines \in Nat

VARIABLES
  lines,        \* lines read so far by all sessions (bounded by MaxLines)
  \* --- one Session object per connection
  pc,           \* where the session's goroutine is
  want,         \* callsign of the login being handled
  found,        \* client returned by GetClient in the login being handled
  attached,     \* session.client
  suser,        \* session.user
  disconnected, \* session.disconnected
  open,         \* session.conn is open
  \* --- one Client object per session that created one
  callsign,     \* client.callsign, None before NewClient
  isAtc,        \* client.isAtc
  socket,       \* client.socket
  user,         \* client.user
  disconnect,   \* client.disconnect
  timer,        \* client.reconnectTimer is pending
  credited,     \* how often client.history was saved and its time credited
  \* --- goroutines that hold a client
  checking,     \* calls of client.Delete before the test of disconnect
  deleting,     \* calls of client.Delete past the test, waiting for the lock
  fatalDelete,  \* DeleteClient calls delayed by FSDDisconnectDelay
  killing,      \* a kill handler holds the client GetClient returned
  \* --- ClientManager
  registry,     \* cm.clients
  shutdown,     \* progress of cm.Shutdown; cm.shuttingDown is shutdown # "no"
  toMark        \* clients of the shutdown snapshot not yet disconnected

sessionVars == <<lines, pc, want, found, attached, suser, disconnected, open>>
clientVars == <<callsign, isAtc, socket, user, disconnect, timer, credited>>
taskVars == <<checking, deleting, fatalDelete, killing>>
managerVars == <<registry, shutdown, toMark>>
vars == <<sessionVars, clientVars, taskVars, managerVars>>

Client == Session

(***************************************************************************)
(* Control points of a session's goroutine.                                *)
(*   none       not accepted yet                                           *)
(*   idle       in the scan loop, waiting for a line                       *)
(*   reconnect  GetClient found a client, Reconnect not yet called         *)
(*   verify     waiting for the database during verifyUserInfo             *)
(*   create     login accepted, no client object yet                       *)
(*   add        AddClient past its test of shuttingDown                    *)
(*   fatal      a handler returned a fatal error                           *)
(*   mark       client.SendError between its two flags                     *)
(*   exit       the scan loop was left by break                            *)
(*   ended      HandleConnection returned                                  *)
(***************************************************************************)
PC == {"none", "idle", "reconnect", "verify", "create", "add",
       "fatal", "mark", "exit", "ended"}

Init ==
  /\ pc = [s \in Session |-> "none"]
  /\ lines = 0
  /\ want = [s \in Session |-> None]
  /\ found = [s \in Session |-> None]
  /\ attached = [s \in Session |-> None]
  /\ suser = [s \in Session |-> None]
  /\ disconnected = [s \in Session |-> FALSE]
  /\ open = [s \in Session |-> FALSE]
  /\ callsign = [c \in Client |-> None]
  /\ isAtc = [c \in Client |-> FALSE]
  /\ socket = [c \in Client |-> None]
  /\ user = [c \in Client |-> None]
  /\ disconnect = [c \in Client |-> FALSE]
  /\ timer = [c \in Client |-> FALSE]
  /\ credited = [c \in Client |-> 0]
  /\ checking = [c \in Client |-> 0]
  /\ deleting = [c \in Client |-> 0]
  /\ fatalDelete = [c \in Client |-> 0]
  /\ killing = [c \in Client |-> FALSE]
  /\ registry = [k \in Callsign |-> None]
  /\ shutdown = "no"
  /\ toMark = {}

-----------------------------------------------------------------------------
(* Effects shared by several actions. *)

Goto(s, label) == pc' = [pc EXCEPT ![s] = label]

\* handleLine refuses a line once the session is disconnected, but a line
\* already buffered is still handled after the connection was closed.
ReadLine(s) ==
  /\ pc[s] = "idle"
  /\ ~disconnected[s]
  /\ lines < MaxLines
  /\ lines' = lines + 1

\* The handler returns; the locals of the login handler are gone.
EndLogin(s, label) ==
  /\ Goto(s, label)
  /\ want' = [want EXCEPT ![s] = None]
  /\ found' = [found EXCEPT ![s] = None]

\* Variant: the reconnect timer is stopped and not started again.
MarkedDisconnectNoTimer(c, immediate, alsoClosed) ==
  LET closed == alsoClosed \cup (IF disconnect[c] THEN {} ELSE {socket[c]})
  IN /\ disconnect' = [disconnect EXCEPT ![c] = TRUE]
     /\ timer' = [timer EXCEPT ![c] = FALSE]
     /\ open' = [s \in Session |-> open[s] /\ s \notin closed]

\* client.MarkedDisconnect: the first caller closes the current socket and,
\* unless immediate, starts the reconnect window; any other returns at once.
\* Connections in alsoClosed are closed by the caller itself.
MarkedDisconnect(c, immediate, alsoClosed) ==
  LET first == ~disconnect[c]
      closed == alsoClosed \cup (IF first THEN {socket[c]} ELSE {})
  IN /\ disconnect' = [disconnect EXCEPT ![c] = TRUE]
     /\ timer' = [timer EXCEPT ![c] = IF first THEN ~immediate ELSE @]
     /\ open' = [s \in Session |-> open[s] /\ s \notin closed]

\* ClientManager.DeleteClient: whatever is registered under the callsign goes.
DeleteClient(k) == registry' = [registry EXCEPT ![k] = None]

-----------------------------------------------------------------------------
(* Connections. *)

\* StartFSDServer: a connection is accepted and HandleConnection starts.
Accept(s) ==
  /\ pc[s] = "none"
  /\ Goto(s, "idle")
  /\ open' = [open EXCEPT ![s] = TRUE]
  /\ UNCHANGED <<lines, want, found, attached, suser, disconnected>>
  /\ UNCHANGED <<clientVars, taskVars, managerVars>>

\* The peer or the network closes the connection.
Drop(s) ==
  /\ open[s]
  /\ open' = [open EXCEPT ![s] = FALSE]
  /\ UNCHANGED <<pc, lines, want, found, attached, suser, disconnected>>
  /\ UNCHANGED <<clientVars, taskVars, managerVars>>

\* The scan loop stops when the session is marked disconnected or its
\* connection is closed.
CanLeave(s) ==
  \/ pc[s] = "exit"
  \/ pc[s] = "idle" /\ (disconnected[s] \/ ~open[s])

\* Variant: only a connection that is still open tells the client.
LeaveQuietly(s) ==
  /\ CanLeave(s)
  /\ Goto(s, "ended")
  /\ IF attached[s] = None \/ ~open[s]
       THEN /\ open' = [open EXCEPT ![s] = FALSE]
            /\ UNCHANGED <<disconnect, timer>>
       ELSE MarkedDisconnect(attached[s], FALSE, {s})
  /\ UNCHANGED <<lines, want, found, attached, suser, disconnected>>
  /\ UNCHANGED <<callsign, isAtc, socket, user, credited>>
  /\ UNCHANGED <<taskVars, managerVars>>

\* The end of HandleConnection: the client the session holds is marked
\* disconnected, whoever its current socket is.
Leave(s) ==
  /\ CanLeave(s)
  /\ Goto(s, "ended")
  /\ IF attached[s] = None
       THEN /\ open' = [open EXCEPT ![s] = FALSE]
            /\ UNCHANGED <<disconnect, timer>>
       ELSE MarkedDisconnect(attached[s], FALSE, {s})
  /\ UNCHANGED <<lines, want, found, attached, suser, disconnected>>
  /\ UNCHANGED <<callsign, isAtc, socket, user, credited>>
  /\ UNCHANGED <<taskVars, managerVars>>

-----------------------------------------------------------------------------
(* Login: handleAddAtc and handleAddPilot through verifyUserInfo. *)

\* A login line is read and the callsign is looked up.  Nothing keeps a
\* session that already has a client from logging in again.
GetClient(k) == IF shutdown = "no" THEN registry[k] ELSE None

Login(s, k) ==
  /\ ReadLine(s)
  /\ want' = [want EXCEPT ![s] = k]
  /\ found' = [found EXCEPT ![s] = GetClient(k)]
  /\ Goto(s, IF GetClient(k) = None THEN "verify" ELSE "reconnect")
  /\ UNCHANGED <<attached, suser, disconnected, open>>
  /\ UNCHANGED <<clientVars, taskVars, managerVars>>

\* Variant: the reconnect timer is left running.
ReconnectKeepsTimer(s) ==
  LET c == found[s] IN
  /\ pc[s] = "reconnect"
  /\ disconnect[c]
  /\ disconnect' = [disconnect EXCEPT ![c] = FALSE]
  /\ socket' = [socket EXCEPT ![c] = s]
  /\ attached' = [attached EXCEPT ![s] = c]
  /\ Goto(s, "verify")
  /\ UNCHANGED <<lines, want, found, suser, disconnected, open, timer>>
  /\ UNCHANGED <<callsign, isAtc, user, credited, taskVars, managerVars>>

\* client.Reconnect succeeds: the session takes over a disconnected client,
\* before it has been authenticated.
Reconnect(s) ==
  LET c == found[s] IN
  /\ pc[s] = "reconnect"
  /\ disconnect[c]
  /\ disconnect' = [disconnect EXCEPT ![c] = FALSE]
  /\ timer' = [timer EXCEPT ![c] = FALSE]
  /\ socket' = [socket EXCEPT ![c] = s]
  /\ attached' = [attached EXCEPT ![s] = c]
  /\ Goto(s, "verify")
  /\ UNCHANGED <<lines, want, found, suser, disconnected, open>>
  /\ UNCHANGED <<callsign, isAtc, user, credited, taskVars, managerVars>>

\* client.Reconnect refuses: the callsign is in use.
CallsignInUse(s) ==
  /\ pc[s] = "reconnect"
  /\ ~disconnect[found[s]]
  /\ EndLogin(s, "fatal")
  /\ UNCHANGED <<lines, attached, suser, disconnected, open>>
  /\ UNCHANGED <<clientVars, taskVars, managerVars>>

\* Unknown or banned user, or wrong password.
AuthFail(s) ==
  /\ pc[s] = "verify"
  /\ EndLogin(s, "fatal")
  /\ UNCHANGED <<lines, attached, suser, disconnected, open>>
  /\ UNCHANGED <<clientVars, taskVars, managerVars>>

\* The user is verified and becomes the user of the session and of the client
\* GetClient returned; the level asked for may still be refused.
Verified(s, u, granted) ==
  /\ pc[s] = "verify"
  /\ suser' = [suser EXCEPT ![s] = u]
  /\ user' = [c \in Client |-> IF c = found[s] THEN u ELSE user[c]]
  /\ IF granted /\ attached[s] = None
       THEN Goto(s, "create") /\ UNCHANGED <<want, found>>
       ELSE EndLogin(s, IF granted THEN "idle" ELSE "fatal")
  /\ UNCHANGED <<lines, attached, disconnected, open>>
  /\ UNCHANGED <<callsign, isAtc, socket, disconnect, timer, credited>>
  /\ UNCHANGED <<taskVars, managerVars>>

\* NewClient, and the test of shuttingDown that opens AddClient.
NewClient(s, atc) ==
  /\ pc[s] = "create"
  /\ callsign' = [callsign EXCEPT ![s] = want[s]]
  /\ isAtc' = [isAtc EXCEPT ![s] = atc]
  /\ socket' = [socket EXCEPT ![s] = s]
  /\ user' = [user EXCEPT ![s] = suser[s]]
  /\ attached' = [attached EXCEPT ![s] = s]
  /\ EndLogin(s, IF shutdown = "no" THEN "add" ELSE "idle")
  /\ UNCHANGED <<lines, suser, disconnected, open>>
  /\ UNCHANGED <<disconnect, timer, credited, taskVars, managerVars>>

\* Variant: a registered client is replaced.
AddClientOverwrites(s) ==
  /\ pc[s] = "add"
  /\ registry' = [registry EXCEPT ![callsign[s]] = s]
  /\ Goto(s, "idle")
  /\ UNCHANGED <<lines, want, found, attached, suser, disconnected, open>>
  /\ UNCHANGED <<clientVars, taskVars, shutdown, toMark>>

\* AddClient under the manager's lock; its error is ignored by the handlers.
AddClient(s) ==
  /\ pc[s] = "add"
  /\ registry' = [registry EXCEPT ![callsign[s]] = IF @ = None THEN s ELSE @]
  /\ Goto(s, "idle")
  /\ UNCHANGED <<lines, want, found, attached, suser, disconnected, open>>
  /\ UNCHANGED <<clientVars, taskVars, shutdown, toMark>>

-----------------------------------------------------------------------------
(* Fatal errors. *)

\* A line whose handler returns a fatal error with no other effect: a login
\* with an invalid callsign or protocol, a login line that is too short, a
\* position report above the rating.
FatalCommand(s) ==
  /\ ReadLine(s)
  /\ Goto(s, "fatal")
  /\ UNCHANGED <<want, found, attached, suser, disconnected, open>>
  /\ UNCHANGED <<clientVars, taskVars, managerVars>>

\* Session.SendError without a client.
SessionSendError(s) ==
  /\ pc[s] = "fatal"
  /\ attached[s] = None
  /\ disconnected' = [disconnected EXCEPT ![s] = TRUE]
  /\ Goto(s, "exit")
  /\ UNCHANGED <<lines, want, found, attached, suser, open>>
  /\ UNCHANGED <<clientVars, taskVars, managerVars>>

\* client.SendError, first flag: the client's current socket, which need not
\* be the session that made the error.
ClientSendError(s) ==
  /\ pc[s] = "fatal"
  /\ attached[s] # None
  /\ disconnected' = [disconnected EXCEPT ![socket[attached[s]]] = TRUE]
  /\ Goto(s, "mark")
  /\ UNCHANGED <<lines, want, found, attached, suser, open>>
  /\ UNCHANGED <<clientVars, taskVars, managerVars>>

\* client.SendError, second flag, stored without the lock, and the delayed
\* DeleteClient.  The scan loop goes on unless this session is the one marked.
ClientSendErrorMark(s) ==
  LET c == attached[s] IN
  /\ pc[s] = "mark"
  /\ disconnect' = [disconnect EXCEPT ![c] = TRUE]
  /\ fatalDelete' = [fatalDelete EXCEPT ![c] = @ + 1]
  /\ Goto(s, IF disconnected[s] THEN "exit" ELSE "idle")
  /\ UNCHANGED <<lines, want, found, attached, suser, disconnected, open>>
  /\ UNCHANGED <<callsign, isAtc, socket, user, timer, credited>>
  /\ UNCHANGED <<checking, deleting, killing, managerVars>>

\* The delayed DeleteClient runs, by callsign and without saving anything.
FatalDelete(c) ==
  /\ fatalDelete[c] > 0
  /\ fatalDelete' = [fatalDelete EXCEPT ![c] = @ - 1]
  /\ DeleteClient(callsign[c])
  /\ UNCHANGED <<sessionVars, clientVars, checking, deleting, killing>>
  /\ UNCHANGED <<shutdown, toMark>>

-----------------------------------------------------------------------------
(* Deletion. *)

\* The reconnect window ends: the timer starts client.Delete in a goroutine.
TimerFires(c) ==
  /\ timer[c]
  /\ timer' = [timer EXCEPT ![c] = FALSE]
  /\ checking' = [checking EXCEPT ![c] = @ + 1]
  /\ UNCHANGED <<sessionVars, callsign, isAtc, socket, user, disconnect>>
  /\ UNCHANGED <<credited, deleting, fatalDelete, killing, managerVars>>

\* client.Delete tests client.disconnect before it takes the lock.
DeleteCheck(c) ==
  /\ checking[c] > 0
  /\ checking' = [checking EXCEPT ![c] = @ - 1]
  /\ deleting' = [deleting EXCEPT ![c] = IF disconnect[c] THEN @ + 1 ELSE @]
  /\ UNCHANGED <<sessionVars, clientVars, fatalDelete, killing, managerVars>>

\* Simulator servers record controllers only.
Recorded(c) == isAtc[c] \/ ~SimulatorServer

\* Variant: the client is recorded but stays in the table.
DeleteKeepsEntry(c) ==
  /\ deleting[c] > 0
  /\ deleting' = [deleting EXCEPT ![c] = @ - 1]
  /\ timer' = [timer EXCEPT ![c] = FALSE]
  /\ credited' = [credited EXCEPT ![c] = IF Recorded(c) THEN @ + 1 ELSE @]
  /\ UNCHANGED <<sessionVars, callsign, isAtc, socket, user, disconnect>>
  /\ UNCHANGED <<checking, fatalDelete, killing, managerVars>>

\* The body of client.Delete under the lock.  It does not look at
\* client.disconnect again.
Delete(c) ==
  /\ deleting[c] > 0
  /\ deleting' = [deleting EXCEPT ![c] = @ - 1]
  /\ timer' = [timer EXCEPT ![c] = FALSE]
  /\ credited' = [credited EXCEPT ![c] = IF Recorded(c) THEN @ + 1 ELSE @]
  /\ DeleteClient(callsign[c])
  /\ UNCHANGED <<sessionVars, callsign, isAtc, socket, user, disconnect>>
  /\ UNCHANGED <<checking, fatalDelete, killing, shutdown, toMark>>

-----------------------------------------------------------------------------
(* Kill requests ($!! from a controller, KillClient of the web API). *)

KillLookup(k) ==
  /\ GetClient(k) # None
  /\ ~killing[GetClient(k)]
  /\ killing' = [killing EXCEPT ![GetClient(k)] = TRUE]
  /\ UNCHANGED <<sessionVars, clientVars, checking, deleting, fatalDelete>>
  /\ UNCHANGED managerVars

Kill(c) ==
  /\ killing[c]
  /\ killing' = [killing EXCEPT ![c] = FALSE]
  /\ MarkedDisconnect(c, FALSE, {})
  /\ UNCHANGED <<pc, lines, want, found, attached, suser, disconnected>>
  /\ UNCHANGED <<callsign, isAtc, socket, user, credited>>
  /\ UNCHANGED <<checking, deleting, fatalDelete, managerVars>>

-----------------------------------------------------------------------------
(* ClientManager.Shutdown. *)

Shutdown ==
  /\ shutdown = "no"
  /\ shutdown' = "started"
  /\ UNCHANGED <<sessionVars, clientVars, taskVars, registry, toMark>>

\* Variant: callsigns without a client leave a nil in the snapshot.
ShutdownSnapshotWithNil ==
  /\ shutdown = "started"
  /\ shutdown' = "marking"
  /\ toMark' = {registry[k] : k \in Callsign}
  /\ UNCHANGED <<sessionVars, clientVars, taskVars, registry>>

ShutdownSnapshot ==
  /\ shutdown = "started"
  /\ shutdown' = "marking"
  /\ toMark' = {registry[k] : k \in Callsign} \ {None}
  /\ UNCHANGED <<sessionVars, clientVars, taskVars, registry>>

\* A worker of disconnectClients: MarkedDisconnect(true), whose deferred
\* function then calls client.Delete.
ShutdownMark(c) ==
  /\ c \in toMark
  /\ toMark' = toMark \ {c}
  /\ MarkedDisconnect(c, TRUE, {})
  /\ checking' = [checking EXCEPT ![c] = @ + 1]
  /\ UNCHANGED <<pc, lines, want, found, attached, suser, disconnected>>
  /\ UNCHANGED <<callsign, isAtc, socket, user, credited>>
  /\ UNCHANGED <<deleting, fatalDelete, killing, registry, shutdown>>

-----------------------------------------------------------------------------
SessionStep(s) ==
  \/ Reconnect(s)
  \/ CallsignInUse(s)
  \/ AuthFail(s)
  \/ \E u \in User, granted \in BOOLEAN : Verified(s, u, granted)
  \/ \E atc \in LoginKinds : NewClient(s, atc)
  \/ AddClient(s)
  \/ SessionSendError(s)
  \/ ClientSendError(s)
  \/ ClientSendErrorMark(s)

TaskStep(c) == TimerFires(c) \/ DeleteCheck(c) \/ Delete(c) \/ FatalDelete(c)

Next ==
  \/ \E s \in Session :
       \/ Accept(s)
       \/ Drop(s)
       \/ Leave(s)
       \/ \E k \in Callsign : Login(s, k)
       \/ FatalCommand(s)
       \/ SessionStep(s)
  \/ \E c \in Client : TaskStep(c) \/ Kill(c) \/ ShutdownMark(c)
  \/ \E k \in Callsign : KillLookup(k)
  \/ Shutdown
  \/ ShutdownSnapshot

Spec == Init /\ [][Next]_vars

\* The runtime runs timers that are due and goroutines that can run.  The
\* body of Delete waits for client.lock, which a sender may hold while it
\* writes: MarkedDisconnect has closed that connection, so the write returns.
Fairness ==
  \A c \in Client :
    /\ WF_vars(TimerFires(c))
    /\ WF_vars(DeleteCheck(c))
    /\ WF_vars(Delete(c))
    /\ WF_vars(FatalDelete(c))

FairSpec == Spec /\ Fairness

-----------------------------------------------------------------------------
(* Properties. *)

Count == [Client -> Nat]

\* Every variable stays in its type: in particular the references a session,
\* a client and the table keep are nil or existing objects.
TypeOK ==
  /\ pc \in [Session -> PC]
  /\ lines \in Nat
  /\ want \in [Session -> Callsign \cup {None}]
  /\ found \in [Session -> Client \cup {None}]
  /\ attached \in [Session -> Client \cup {None}]
  /\ suser \in [Session -> User \cup {None}]
  /\ disconnected \in [Session -> BOOLEAN]
  /\ open \in [Session -> BOOLEAN]
  /\ callsign \in [Client -> Callsign \cup {None}]
  /\ isAtc \in [Client -> BOOLEAN]
  /\ socket \in [Client -> Session \cup {None}]
  /\ user \in [Client -> User \cup {None}]
  /\ disconnect \in [Client -> BOOLEAN]
  /\ timer \in [Client -> BOOLEAN]
  /\ credited \in Count
  /\ checking \in Count /\ deleting \in Count /\ fatalDelete \in Count
  /\ killing \in [Client -> BOOLEAN]
  /\ registry \in [Callsign -> Client \cup {None}]
  /\ shutdown \in {"no", "started", "marking"}
  /\ toMark \subseteq Client

\* c is the client the table has for its callsign.
Registered(c) == \E k \in Callsign : registry[k] = c

\* A goroutine exists that will remove c from the table.
CleanupPending(c) ==
  timer[c] \/ checking[c] > 0 \/ deleting[c] > 0 \/ fatalDelete[c] > 0

\* A disconnected client never stays in the table without a timer or a
\* goroutine on its way to remove it, so its callsign cannot be lost.
NoLeakedCallsign ==
  \A c \in Client : Registered(c) /\ disconnect[c] => CleanupPending(c)

\* The reconnect window (client.reconnectTimer) runs only while its client is
\* disconnected: a reconnect leaves no timer behind that would cut a later
\* window short.
WindowOnlyWhileDisconnected == \A c \in Client : timer[c] => disconnect[c]

\* Once HandleConnection has returned, the client of that session no longer
\* counts as connected through that session's socket.
EndedSessionReleased ==
  \A s \in Session :
    pc[s] = "ended" /\ attached[s] # None /\ socket[attached[s]] = s
      => disconnect[attached[s]]

\* The table of the code implements the abstract callsign table: a callsign
\* passes from one client to another only through being free, although
\* AddClient, DeleteClient and the disconnect flag are guarded by different
\* locks or by none.
Table == INSTANCE CallsignTable
           WITH owner <- registry,
                grace <- {k \in Callsign :
                            registry[k] # None /\ disconnect[registry[k]]}

TableRefinement == Table!TableSpec

\* A disconnected client in the table is eventually removed or reconnected.
DisconnectedIsReclaimed ==
  \A c \in Client :
    (Registered(c) /\ disconnect[c]) ~> ~(Registered(c) /\ disconnect[c])

-----------------------------------------------------------------------------
(* What the documentation promises and the code does not keep. *)

\* README, session_clean_time: a client that reconnected in time is matched
\* with its session, so a connected client is not taken out of the table.
ConnectedStaysRegistered ==
  [][\A c \in Client : Registered(c) /\ ~disconnect[c] => Registered(c)']_vars
=============================================================================
