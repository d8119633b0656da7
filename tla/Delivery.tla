------------------------------ MODULE Delivery ------------------------------
(***************************************************************************)
(* How lines reach the clients: a session's goroutine answers and forwards *)
(* lines itself, a broadcast walks over a snapshot of the client table and *)
(* gives each line to a goroutine of its own, at most MaxBroadcastWorkers  *)
(* at a time, and a shutdown disconnects a snapshot in the same way.  A    *)
(* line is written while client.lock is held for reading; a disconnect     *)
(* needs the lock for writing.  No write has a deadline, so a peer that    *)
(* stops reading keeps the lock for as long as it likes.                   *)
(*                                                                         *)
(* Snapshots are slices of arrays that a pool hands out again: who copies   *)
(* clients to such an array changes every slice of it still in use.        *)
(*                                                                         *)
(* A client stands for its callsign, its session and its connection; it    *)
(* has logged in, and does not come back (ClientLifecycle).  The text of   *)
(* the lines, flight plans and ATIS are left out, and clients do not move; *)
(* a plan is broadcast like a line to a frequency outside the band.        *)
(* The heartbeat is left out: nothing starts its sender.                   *)
(***************************************************************************)
EXTENDS Naturals, FiniteSetsExt

CONSTANTS Client,
          Atc, Sup,             \* the controllers, and those rated Supervisor
          Distance, VisualRange,
          Stalled,              \* peers that may stop reading for good
          MaxBroadcastWorkers,
          Message,              \* broadcasts the commands can start
          Web,                  \* HTTP events
          MaxEvents,            \* bound: commands, HTTP events and peers that go
          Connected,            \* bound: the tables at the start
          MaxStopping,          \* bound: clients in the table when the server stops
          None

Walk == Message \cup Client \cup {"shutdown"}   \* a client walks when it leaves
Worker == Walk \X Client
Timer == {"timer", "drop"} \X Client   \* Delete, DeleteClient
Goroutine == Client \cup Web \cup Worker \cup Timer

\* Goroutines of different kinds are different goroutines.
ASSUME DeliveryAssumption ==
  /\ Sup \subseteq Atc /\ Atc \subseteq Client /\ Stalled \subseteq Client
  /\ Distance \in [Client \X Client -> Nat] /\ VisualRange \in [Client -> Nat]
  /\ MaxBroadcastWorkers \in Nat \ {0} /\ MaxEvents \in Nat
  /\ Connected \subseteq SUBSET Client /\ MaxStopping \in Nat
  /\ Message \cap Client = {} /\ Web \cap Client = {}
  /\ {"shutdown", "timer", "drop"} \cap (Message \cup Client) = {}
  /\ (Client \cup Web) \cap (Worker \cup Timer) = {}

VARIABLES
  clients,       \* ClientManager.clients
  shuttingDown,
  disconnect,    \* clients marked disconnected
  closed,        \* clients whose connection the server has closed
  gone,          \* clients whose peer closed the connection
  lock,          \* client.lock: who reads, who waits to write
  routine,       \* what each goroutine does, and to whom
  walk,          \* the walks over snapshots: broadcasts and disconnectClients
  pool,          \* walks whose slice went back to clientSlicePool too early
  shutdown,      \* how far ClientManager.Shutdown is
  events,        \* commands, HTTP events and peers that went, so far
  due            \* history: whom a walk has yet to reach

vars == <<clients, shuttingDown, disconnect, closed, gone, lock, routine, walk, pool,
          shutdown, events, due>>

Rest == [pc |-> "idle", to |-> None, immediate |-> FALSE, fatal |-> FALSE]
Still == [pc |-> "idle", from |-> None, filter |-> None, slice |-> {}, i |-> 0]

\* Clients that are not connected at the start have left before.
Init ==
  /\ clients \in Connected
  /\ shuttingDown = FALSE
  /\ disconnect = Client \ clients /\ closed = disconnect /\ gone = disconnect
  /\ lock = [c \in Client |-> [readers |-> {}, waiting |-> {}]]
  /\ routine = [g \in Goroutine |-> Rest]
  /\ walk = [w \in Walk |-> IF w \in disconnect THEN [Still EXCEPT !.pc = "end"] ELSE Still]
  /\ pool = {}
  /\ shutdown = "none"
  /\ events = 0
  /\ due = [w \in Message \cup {"shutdown"} |-> {}]

Do(g, pc, c) == [routine EXCEPT ![g] = [Rest EXCEPT !.pc = pc, !.to = c]]

\* What a step of the client's lock and the goroutines leaves alone.
Elsewhere == <<shuttingDown, gone, walk, pool, shutdown, events>>

-----------------------------------------------------------------------------
(* One client. *)

\* The goroutine is done: a worker gives its slot back, the session reads on;
\* after a fatal error it stops.
Returned(g) == IF routine[g].fatal THEN [Rest EXCEPT !.pc = "fatal"] ELSE Rest

\* RLock waits for the writers that already wait.
SendLine(g) ==
  LET c == routine[g].to
  IN /\ routine[g].pc = "send"
     /\ lock[c].waiting = {}
     /\ IF c \in disconnect
        THEN /\ routine' = [routine EXCEPT ![g] = Returned(g)]
             /\ UNCHANGED lock
        ELSE /\ routine' = [routine EXCEPT ![g].pc = "write"]
             /\ lock' = [lock EXCEPT ![c].readers = @ \cup {g}]
     /\ UNCHANGED <<clients, disconnect, closed, due, Elsewhere>>

\* The write returns, with an error when the peer has gone.
Write(g) ==
  LET c == routine[g].to
  IN /\ routine[g].pc = "write"
     /\ routine' = [routine EXCEPT ![g] = Returned(g)]
     /\ lock' = [lock EXCEPT ![c].readers = @ \ {g}]
     /\ due' = IF g \in Message \X Client /\ c \notin gone
               THEN [due EXCEPT ![g[1]] = @ \ {c}] ELSE due
     /\ UNCHANGED <<clients, disconnect, closed, Elsewhere>>

\* A writer that must wait announces itself, and readers that come later wait.
Announce(g) ==
  LET c == routine[g].to
  IN /\ \/ routine[g].pc = "mark"
        \/ routine[g].pc = "delete" /\ c \in disconnect
     /\ lock[c].readers # {} /\ g \notin lock[c].waiting
     /\ lock' = [lock EXCEPT ![c].waiting = @ \cup {g}]
     /\ UNCHANGED <<clients, disconnect, closed, routine, due, Elsewhere>>

\* Variant: the connection is closed without the lock.
MayLockAlways(c) == TRUE

MayLock(c) == lock[c].readers = {}

\* An immediate disconnect goes on to Delete, the others start the timer.  The
\* connection is closed by who marks the client, else by its session as it ends.
MarkedDisconnect(g) ==
  LET c == routine[g].to
      next == IF routine[g].immediate THEN [routine[g] EXCEPT !.pc = "delete"]
              ELSE Returned(g)
  IN /\ routine[g].pc = "mark"
     /\ MayLock(c)
     /\ disconnect' = disconnect \cup {c}
     /\ closed' = IF c \notin disconnect \/ g = c THEN closed \cup {c} ELSE closed
     /\ routine' = IF c \notin disconnect /\ ~routine[g].immediate
                   THEN [Do(<<"timer", c>>, "delete", c) EXCEPT ![g] = next]
                   ELSE [routine EXCEPT ![g] = next]
     /\ lock' = [lock EXCEPT ![c].waiting = @ \ {g}]
     /\ UNCHANGED <<clients, due, Elsewhere>>

Delete(g) ==
  LET c == routine[g].to
  IN /\ routine[g].pc = "delete" /\ c \in disconnect
     /\ MayLock(c)
     /\ clients' = clients \ {c}
     /\ routine' = [routine EXCEPT ![g] = Returned(g)]
     /\ lock' = [lock EXCEPT ![c].waiting = @ \ {g}]
     /\ UNCHANGED <<disconnect, closed, due, Elsewhere>>

\* The rest of a fatal error: the client is marked without its lock, and will
\* leave the table in a moment.
SendError(c) ==
  /\ routine[c].pc = "fatal"
  /\ disconnect' = disconnect \cup {c}
  /\ routine' = [Do(<<"drop", c>>, "drop", c) EXCEPT ![c] = [Rest EXCEPT !.pc = "end"]]
  /\ UNCHANGED <<clients, closed, lock, due, Elsewhere>>

DeleteClient(c) ==
  /\ routine[<<"drop", c>>].pc = "drop"
  /\ clients' = clients \ {c}
  /\ routine' = [routine EXCEPT ![<<"drop", c>>] = Rest]
  /\ UNCHANGED <<disconnect, closed, lock, due, Elsewhere>>

-----------------------------------------------------------------------------
(* Snapshots and walks. *)

GetClient == IF shuttingDown THEN {} ELSE clients

BroadcastToAtc(to, from) == to \in Atc
BroadcastToSup(to, from) == to \in Sup

BroadcastToClientInRange(to, from) ==
  LET range == VisualRange
      threshold == CASE {to, from} \subseteq Atc ->
                          IF range[to] > range[from] THEN range[to] ELSE range[from]
                     [] to \in Atc   -> range[to]
                     [] from \in Atc -> range[from]
                     [] OTHER        -> range[to] + range[from]
  IN Distance[to, from] <= threshold

\* A filter is the set of the conditions it combines.
CombineBroadcastFilter(filters, to, from) ==
  /\ "atc" \in filters => BroadcastToAtc(to, from)
  /\ "sup" \in filters => BroadcastToSup(to, from)
  /\ "range" \in filters => BroadcastToClientInRange(to, from)

Wanted(c, from, filter) == c # from /\ CombineBroadcastFilter(filter, c, from)

\* Walks take the clients of a snapshot in any order, the order of a Go map:
\* slice holds those that are left, after i of them.
GetClientSnapshot == [Still EXCEPT !.pc = "walk", !.slice = clients]

\* The broadcast w takes its snapshot, at once after it has seen that the
\* server is not stopping: by the time that a walk uses an array of the pool,
\* no broadcast begins any more.
BroadcastMessage(w, from, filter) ==
  /\ walk' = [walk EXCEPT ![w] = [GetClientSnapshot EXCEPT !.from = from, !.filter = filter]]
  /\ due' = IF w \in Message
            THEN [due EXCEPT ![w] = {c \in clients \ disconnect : Wanted(c, from, filter)}]
            ELSE due

\* A broadcast in a goroutine of its own begins, or finds the server stopping.
BroadcastBegins(m) ==
  /\ walk[m].pc = "start"
  /\ \/ ~shuttingDown /\ BroadcastMessage(m, walk[m].from, walk[m].filter)
     \/ shuttingDown /\ walk' = [walk EXCEPT ![m].pc = "end"] /\ UNCHANGED due
  /\ UNCHANGED <<clients, shuttingDown, disconnect, closed, gone, lock, routine, pool,
                 shutdown, events>>

Busy(w) == {g \in Worker : g[1] = w /\ routine[g].pc # "idle"}

\* Variant: one worker too many.
SlotFreeLate(w) == Cardinality(Busy(w)) <= MaxBroadcastWorkers

\* Variant: the lines are written one after the other.
SlotFreeInline(w) == Busy(w) = {}

\* Variant: the semaphore is an unbuffered channel, and nobody receives.
SlotFreeUnbuffered(w) == Cardinality(Busy(w)) < 0

SlotFree(w) == Cardinality(Busy(w)) < MaxBroadcastWorkers

\* The loop of a broadcast passes over a client that is disconnected or does
\* not match; that of disconnectClients passes over none.
Skipped(w, c) ==
  /\ w # "shutdown"
  /\ c \in disconnect \/ ~Wanted(c, walk[w].from, walk[w].filter)

\* One turn of the loop: a worker is started when a slot is free.
Visit(w) ==
  \E c \in walk[w].slice :
    /\ ~Skipped(w, c)
    /\ SlotFree(w)
    /\ walk' = [walk EXCEPT ![w].slice = @ \ {c}, ![w].i = @ + 1]
    /\ routine' = [routine EXCEPT ![<<w, c>>] =
         [Rest EXCEPT !.to = c, !.immediate = w = "shutdown",
                      !.pc = IF w = "shutdown" THEN "mark" ELSE "send"]]
    /\ UNCHANGED <<clients, shuttingDown, disconnect, closed, gone, lock, pool, shutdown,
                   events, due>>

\* wg.Wait: the clients that are left are passed over, every worker has
\* returned.  A session that left marks its client next.
Waited(w) ==
  /\ walk[w].pc = "walk"
  /\ \A c \in walk[w].slice : Skipped(w, c)
  /\ Busy(w) = {}
  /\ walk' = [walk EXCEPT ![w] = [Still EXCEPT !.pc = "end"]]
  /\ pool' = pool \ {w}
  /\ routine' = IF w \in Client THEN Do(w, "mark", w) ELSE routine
  /\ UNCHANGED <<clients, shuttingDown, disconnect, closed, gone, lock, shutdown, events,
                 due>>

-----------------------------------------------------------------------------
(* Commands.  Each is handled by the goroutine of its session. *)

\* The lines a session has received it also handles after a disconnect.
Reads(c) == routine[c] = Rest /\ walk[c].pc = "idle"

Event ==
  /\ events < MaxEvents
  /\ events' = events + 1

Request ==
  /\ Event
  /\ UNCHANGED <<clients, shuttingDown, disconnect, closed, gone, lock, pool, shutdown, due>>

\* go BroadcastMessage(rawLine, c, filter)
Go(c, filter) ==
  \E m \in Message :
    /\ walk[m].pc = "idle"
    /\ walk' = [walk EXCEPT ![m].pc = "start", ![m].from = c, ![m].filter = filter]
    /\ UNCHANGED routine

\* The goroutine itself writes the line, or does nothing for a callsign that
\* is not there.
SendMessageTo(g, to) ==
  /\ routine' = IF to \in GetClient THEN Do(g, "send", to) ELSE routine
  /\ UNCHANGED walk

\* An answer or an error goes to the session's own client.
Reply(c) == routine' = Do(c, "send", c) /\ UNCHANGED walk

handlePilotPosUpdate(c) == Go(c, {"range"})

\* A facility above the rating in the line is a fatal error.
handleAtcPosUpdate(c) ==
  \/ Go(c, {"range"})
  \/ routine' = [Do(c, "send", c) EXCEPT ![c].fatal = TRUE] /\ UNCHANGED walk

\* Frequencies outside the band are for controllers.
sendFrequencyMessage(c, to) ==
  \/ to = "@valid" /\ Go(c, {"range"})
  \/ to = "@other" /\ Go(c, {"atc", "range"})
  \/ to = "@illegal" /\ Reply(c)

Station == Client \cup {"@valid", "@other", "@illegal", "*S", "SERVER"}

handleMessage(c, to) ==
  \/ sendFrequencyMessage(c, to)
  \/ to = "*S" /\ Go(c, {"sup"})
  \/ to \in Client /\ SendMessageTo(c, to)

\* The server itself answers with a flight plan, or that there is none.
handleClientQuery(c, to) ==
  \/ to = "SERVER" /\ Reply(c)
  \/ sendFrequencyMessage(c, to)
  \/ to \in Client /\ SendMessageTo(c, to)

handleClientResponse(c, to) ==
  \/ sendFrequencyMessage(c, to)
  \/ to \in Client /\ SendMessageTo(c, to)

handleRequest(c, to) == to \in Client /\ SendMessageTo(c, to)

handleSquawkBox(c, to) ==
  /\ to \in Client
  /\ IF to \in GetClient THEN SendMessageTo(c, to) ELSE Reply(c)

handleKillClient(c, to) ==
  /\ to \in Client
  /\ IF c \in Sup /\ to \in GetClient
     THEN routine' = Do(c, "mark", to) /\ UNCHANGED walk
     ELSE Reply(c)

SendMotd(c) == Reply(c)

Command(c) ==
  /\ Reads(c)
  /\ Request
  /\ \/ handlePilotPosUpdate(c)
     \/ handleAtcPosUpdate(c)
     \/ SendMotd(c)
     \/ \E to \in Station : \/ handleMessage(c, to)
                            \/ handleClientQuery(c, to)
                            \/ handleClientResponse(c, to)
                            \/ handleRequest(c, to)
                            \/ handleSquawkBox(c, to)
                            \/ handleKillClient(c, to)

PeerGone(c) ==
  /\ c \notin gone \cup disconnect
  /\ Event
  /\ gone' = gone \cup {c}
  /\ UNCHANGED <<clients, shuttingDown, disconnect, closed, lock, routine, walk, pool,
                 shutdown, due>>

\* The end of the connection: the session tells the others in its own
\* goroutine, and only then marks its client.
HandleConnectionEnd(c) ==
  /\ routine[c].pc = "end" \/ (Reads(c) /\ c \in closed \cup gone)
  /\ \/ /\ ~shuttingDown
        /\ BroadcastMessage(c, c, {"range"})
        /\ routine' = [routine EXCEPT ![c] = Rest]
     \/ /\ shuttingDown
        /\ walk' = [walk EXCEPT ![c].pc = "end"]
        /\ routine' = Do(c, "mark", c)
        /\ UNCHANGED due
  /\ UNCHANGED <<clients, shuttingDown, disconnect, closed, gone, lock, pool, shutdown, events>>

-----------------------------------------------------------------------------
(* The web server, and the shutdown. *)

SendRawMessageTo(h, to) == SendMessageTo(h, to)

SendMessageToClient(h) ==
  /\ routine[h] = Rest
  /\ Request
  /\ \E to \in Client : SendRawMessageTo(h, to)

KillClient(h) ==
  /\ routine[h] = Rest
  /\ Request
  /\ \E to \in GetClient : routine' = Do(h, "mark", to)
  /\ UNCHANGED walk

\* What is left of the walk over an array, after the clients were copied to
\* its beginning in any order.
Overwritten(w) ==
  LET new == IF Cardinality(clients) > walk[w].i THEN Cardinality(clients) - walk[w].i ELSE 0
      old == Cardinality(walk[w].slice)
  IN {N \cup O : N \in kSubset(new, clients),
                 O \in kSubset(IF old > new THEN old - new ELSE 0, walk[w].slice)}

\* The list of the clients on line is made from a snapshot, in an array of
\* the pool; a walk that still uses the array sees the new clients.
getOnlineClient(h) ==
  /\ routine[h] = Rest
  /\ Event
  /\ \E w \in pool : \E slice \in Overwritten(w) :
       walk' = [walk EXCEPT ![w].slice = slice]
  /\ UNCHANGED <<clients, shuttingDown, disconnect, closed, gone, lock, routine, pool,
                 shutdown, due>>

Shutdown ==
  /\ ~shuttingDown
  /\ Cardinality(clients) <= MaxStopping
  /\ Event
  /\ shuttingDown' = TRUE
  /\ shutdown' = "snapshot"
  /\ UNCHANGED <<clients, disconnect, closed, gone, lock, routine, walk, pool, due>>

\* Variant: the slice goes back to the pool before the walk.
PooledAtOnce == {"shutdown"}

\* The slice is kept until Shutdown returns.
Pooled == {}

ShutdownSnapshot ==
  /\ shutdown = "snapshot"
  /\ shutdown' = "select"
  /\ walk' = [walk EXCEPT !["shutdown"] = GetClientSnapshot]
  /\ pool' = Pooled
  /\ due' = [due EXCEPT !["shutdown"] = clients]
  /\ UNCHANGED <<clients, shuttingDown, disconnect, closed, gone, lock, routine, events>>

PutSlice(w) == pool' = IF walk[w].pc = "walk" THEN pool \cup {w} ELSE pool

\* Shutdown returns when the walk has ended, or after five seconds, with the
\* walk still under way.
ShutdownReturns ==
  /\ shutdown = "select"
  /\ shutdown' = IF walk["shutdown"].pc = "end" THEN "done" ELSE "timeout"
  /\ PutSlice("shutdown")
  /\ UNCHANGED <<clients, shuttingDown, disconnect, closed, gone, lock, routine, walk,
                 events, due>>

-----------------------------------------------------------------------------
\* The goroutines that have been started.
Running == {g \in Goroutine : routine[g].pc # "idle"}

Step(g) == SendLine(g) \/ Announce(g) \/ MarkedDisconnect(g) \/ Delete(g)

\* What the rest of a fatal error does.
Fatal(c) == SendError(c) \/ DeleteClient(c)

\* What the program does by itself, writes to peers that may stall apart.
Progress ==
  \/ \E g \in Running : Step(g) \/ (routine[g].to \notin Stalled \ gone /\ Write(g))
  \/ \E w \in Walk : Visit(w) \/ Waited(w)
  \/ \E m \in Message : BroadcastBegins(m)
  \/ \E c \in Client : Fatal(c) \/ HandleConnectionEnd(c)
  \/ ShutdownSnapshot
  \/ ShutdownReturns

StalledWrite == \E g \in Running : routine[g].to \in Stalled \ gone /\ Write(g)

Next ==
  \/ Progress
  \/ StalledWrite
  \/ \E c \in Client : Command(c) \/ PeerGone(c)
  \/ \E h \in Web : SendMessageToClient(h) \/ KillClient(h) \/ getOnlineClient(h)
  \/ Shutdown

Spec == Init /\ [][Next]_vars /\ WF_vars(Progress)

-----------------------------------------------------------------------------
(* Properties. *)

\* Locks are held by goroutines that use the client, and a walk stays within
\* its snapshot.
TypeOK ==
  /\ disconnect \subseteq Client /\ clients \subseteq Client /\ pool \subseteq Walk
  /\ \A c \in Client : /\ \A g \in lock[c].readers : routine[g].to = c
                       /\ \A g \in lock[c].waiting : routine[g].to = c
  /\ \A w \in Walk : walk[w].slice \subseteq Client
  /\ \A w \in Walk : Cardinality(Busy(w)) <= MaxBroadcastWorkers

\* No line is being written to a connection that the server has closed: the
\* disconnect waits for the writes, and later lines see the mark
\* (MarkedDisconnect, SendLine).
ClosedIsQuiet ==
  \A g \in Goroutine : routine[g].pc = "write" => routine[g].to \notin closed

\* When Shutdown returns without an error, every client of its snapshot has
\* been disconnected and has left the table, although requests for the list of
\* clients reuse the arrays of the pool at the same time (Shutdown, PutSlice).
ShutdownIsComplete ==
  shutdown = "done" => due["shutdown"] \subseteq disconnect /\ due["shutdown"] \cap clients = {}

\* Those a broadcast still has to reach although their peers read.
Missed == {p \in Message \X (Client \ Stalled) :
             p[2] \in due[p[1]] \ (disconnect \cup gone)}

\* Peers that stop reading, when they are fewer than the broadcast workers,
\* do not keep a broadcast from the clients whose peers read, although it
\* waits for a worker to return before it goes on: again and again nobody is
\* missed (BroadcastMessage).
OthersReached ==
  Cardinality(Stalled) < MaxBroadcastWorkers => []<>(Missed = {})

\* Clients whose connection ended or whom somebody kills, until they have left.
Leaving ==
  {c \in clients : \/ c \in gone \cup disconnect
                   \/ \E g \in Goroutine : routine[g].pc = "mark" /\ routine[g].to = c}

\* If every write returns some day, they are marked disconnected and leave the
\* table, so that again and again nobody is leaving: nobody waits for a lock, a
\* slot or a worker for ever (MarkedDisconnect, Delete, disconnectClients).
LeaverReleased ==
  WF_vars(StalledWrite) => []<>(Leaving = {})
=============================================================================
