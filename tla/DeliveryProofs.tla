--------------------------- MODULE DeliveryProofs ---------------------------
(***************************************************************************)
(* Delivery for any number of clients, broadcasts, web requests and        *)
(* workers.                                                                *)
(*                                                                         *)
(* The inductive invariant relates the three places in which a goroutine   *)
(* can be found: its own control point, the lock of the client it works    *)
(* on (LockInv), and the walk that started it (WalkInv).  Each kind of     *)
(* goroutine has its own range of control points (WorkerInv, TimerInv,     *)
(* SessionInv), which is why no goroutine is started while it runs.        *)
(***************************************************************************)
EXTENDS Delivery, FiniteSetTheorems, TLAPS

Filter == (SUBSET {"atc", "sup", "range"}) \cup {None}

Routine == [pc : {"idle", "send", "write", "mark", "delete", "drop", "fatal", "end"},
            to : Client \cup {None}, immediate : BOOLEAN, fatal : BOOLEAN]

TypeInv ==
  /\ routine \in [Goroutine -> Routine]
  /\ \A g \in Goroutine :
       routine[g].pc \in {"send", "write", "mark", "delete"} => routine[g].to \in Client
  /\ lock \in [Client -> [readers : SUBSET Goroutine, waiting : SUBSET Goroutine]]
  /\ walk \in [Walk -> [pc : {"idle", "start", "walk", "end"}, from : Client \cup {None},
                        filter : Filter, slice : SUBSET Client, i : Nat]]
  /\ DOMAIN due = Message \cup {"shutdown"}
  /\ clients \subseteq Client /\ disconnect \subseteq Client

\* A lock is held by those who write and waited for by those who disconnect.
LockInv ==
  /\ \A c \in Client :
       /\ \A g \in lock[c].readers : routine[g].pc = "write" /\ routine[g].to = c
       /\ \A g \in lock[c].waiting :
            routine[g].pc \in {"mark", "delete"} /\ routine[g].to = c
  /\ \A g \in Goroutine : routine[g].pc = "write" => g \in lock[routine[g].to].readers

\* Only a client that is marked and has no readers is closed.
ClosedInv == closed \subseteq disconnect /\ \A c \in closed : lock[c].readers = {}

\* The workers of a broadcast write, those of the shutdown disconnect.
WorkerOK(r, w, c) ==
  /\ w = "shutdown" => r.pc \in {"idle", "mark", "delete"}
  /\ w # "shutdown" => r.pc \in {"idle", "send", "write"}
  /\ r.pc # "idle" => r.to = c
  /\ r.pc # "idle" /\ w = "shutdown" => r.immediate
  /\ ~r.fatal

WorkerInv == \A w \in Walk, c \in Client : WorkerOK(routine[<<w, c>>], w, c)

\* The timer of a client starts when the client is marked.
TimerOK(r, c) ==
  r.pc \in {"idle", "delete"} /\ ~r.fatal /\ (r.pc # "idle" => c \in disconnect)

TimerInv ==
  \A c \in Client : /\ TimerOK(routine[<<"timer", c>>], c)
                    /\ routine[<<"drop", c>>].pc \in {"idle", "drop"}

\* The session of a client that leaves does nothing else.
SessionInv ==
  \A c \in Client :
    /\ walk[c].pc = "walk" => routine[c] = Rest
    /\ routine[c].fatal \/ routine[c].pc \in {"fatal", "end"} => walk[c].pc = "idle"

\* Those a walk has not reached have no worker yet, unless the array of the
\* slice was used again; only Shutdown gives such an array back.
WalkInv ==
  /\ \A w \in Walk :
       /\ walk[w].pc # "walk" =>
            walk[w].slice = {} /\ \A c \in Client : routine[<<w, c>>].pc = "idle"
       /\ w # "shutdown" => \A c \in walk[w].slice : routine[<<w, c>>].pc = "idle"
  /\ pool \subseteq {"shutdown"}
  /\ pool # {} => walk["shutdown"].pc = "walk"

BusyInv ==
  \A w \in Walk : IsFiniteSet(Busy(w)) /\ Cardinality(Busy(w)) <= MaxBroadcastWorkers

\* Nobody of the snapshot is lost before Shutdown returns.
ShutdownInv ==
  /\ shutdown \in {"none", "snapshot", "select", "done", "timeout"}
  /\ shutdown # "none" => shuttingDown
  /\ shutdown # "timeout" => pool = {}
  /\ shutdown \in {"none", "snapshot"} => walk["shutdown"].pc = "idle"
  /\ shutdown = "select" =>
       /\ walk["shutdown"].pc \in {"walk", "end"}
       /\ \A c \in due["shutdown"] :
            \/ c \in walk["shutdown"].slice
            \/ c \in Client /\ routine[<<"shutdown", c>>].pc = "mark"
            \/ c \in disconnect /\ c \in Client /\ routine[<<"shutdown", c>>].pc = "delete"
            \/ c \in disconnect /\ c \notin clients
  /\ ShutdownIsComplete

DeliveryInv ==
  /\ TypeInv /\ LockInv /\ ClosedInv /\ WorkerInv /\ TimerInv
  /\ SessionInv /\ WalkInv /\ BusyInv /\ ShutdownInv

-----------------------------------------------------------------------------
(* Goroutines. *)

\* The kinds of goroutines are disjoint.
LEMMA Kinds ==
  /\ Client \subseteq Goroutine /\ Web \subseteq Goroutine
  /\ Client \subseteq Walk /\ Message \subseteq Walk /\ "shutdown" \in Walk
  /\ "shutdown" \notin Client /\ "shutdown" \notin Message
  /\ \A m \in Message : m \notin Client
  /\ \A w \in Walk, c \in Client :
       /\ <<w, c>> \in Goroutine /\ <<w, c>> \in Worker
       /\ <<w, c>> \notin Client \cup Web /\ w \notin {"timer", "drop"}
  /\ \A c \in Client :
       /\ <<"timer", c>> \in Goroutine /\ <<"timer", c>> \notin Client \cup Web
       /\ <<"drop", c>> \in Goroutine /\ <<"drop", c>> \notin Client \cup Web
  BY DeliveryAssumption DEF Goroutine, Worker, Timer, Walk

\* A goroutine at control point pc, at work on client c.
At(pc, c) == [Rest EXCEPT !.pc = pc, !.to = c]

\* What a goroutine that rests, starts or returns looks like.
LEMMA RestFacts ==
  /\ Rest \in Routine /\ Rest.pc = "idle" /\ ~Rest.fatal /\ ~Rest.immediate
  /\ \A pc \in {"send", "mark", "delete", "drop"}, c \in Client :
       /\ At(pc, c) \in Routine /\ At(pc, c).pc = pc /\ At(pc, c).to = c
       /\ ~At(pc, c).fatal /\ ~At(pc, c).immediate
  /\ [Rest EXCEPT !.pc = "end"] \in Routine /\ [Rest EXCEPT !.pc = "end"].pc = "end"
  BY DEF Rest, Routine, At

\* A goroutine that returns rests, or goes on with its fatal error.
LEMMA ReturnedFacts ==
  ASSUME TypeInv, NEW g \in Goroutine
  PROVE  /\ Returned(g) \in Routine
         /\ Returned(g).pc \in {"idle", "fatal"} /\ ~Returned(g).fatal
         /\ ~routine[g].fatal => Returned(g) = Rest
         /\ Returned(g).pc = "fatal" => routine[g].fatal
<1>1. [Rest EXCEPT !.pc = "fatal"] \in Routine /\ [Rest EXCEPT !.pc = "fatal"].pc = "fatal"
      /\ ~[Rest EXCEPT !.pc = "fatal"].fatal
  BY DEF Rest, Routine
<1> QED BY <1>1, RestFacts DEF Returned

\* What goroutine h may turn to without a word to the walks: a worker does not
\* start, and one of the shutdown does not return before it is done.
TurnOK(h) ==
  /\ \A w \in Walk, c \in Client : h = <<w, c>> =>
       /\ WorkerOK(routine'[h], w, c)
       /\ routine'[h].pc # "idle" => routine[h].pc # "idle"
       /\ w = "shutdown" /\ routine[h].pc = "mark" =>
            c \in disconnect' /\ routine'[h].pc = "delete"
       /\ w = "shutdown" /\ routine[h].pc = "delete" => c \in disconnect /\ c \notin clients'
  /\ \A c \in Client : h = <<"timer", c>> =>
       /\ routine'[h].pc \in {"idle", "delete"} /\ ~routine'[h].fatal
       /\ routine'[h].pc # "idle" => c \in disconnect'
  /\ \A c \in Client : h = <<"drop", c>> => routine'[h].pc \in {"idle", "drop"}
  /\ \A c \in Client : h = c =>
       /\ walk[c].pc = "walk" => routine'[c] = Rest
       /\ routine'[c].fatal \/ routine'[c].pc \in {"fatal", "end"} => walk[c].pc = "idle"

\* A step of some goroutines that leaves walks and snapshots alone.
LEMMA Turn ==
  ASSUME DeliveryInv, \A h \in Goroutine : routine'[h] = routine[h] \/ TurnOK(h),
         TypeInv', LockInv', ClosedInv',
         UNCHANGED <<walk, pool, shutdown, shuttingDown>>, due'["shutdown"] = due["shutdown"],
         clients' \subseteq clients, disconnect \subseteq disconnect'
  PROVE  DeliveryInv'
<1>1. WorkerInv'
  BY Kinds DEF DeliveryInv, WorkerInv, TurnOK
<1>2. TimerInv'
  <2> SUFFICES ASSUME NEW c \in Client
               PROVE  /\ TimerOK(routine[<<"timer", c>>], c)'
                      /\ routine'[<<"drop", c>>].pc \in {"idle", "drop"}
    BY DEF TimerInv
  <2>1. TimerOK(routine[<<"timer", c>>], c)'
    <3>1. CASE TurnOK(<<"timer", c>>)
      BY <3>1 DEF TimerOK, TurnOK
    <3>2. CASE routine'[<<"timer", c>>] = routine[<<"timer", c>>]
      BY <3>2, Kinds DEF DeliveryInv, TimerInv, TimerOK
    <3> QED BY <3>1, <3>2, Kinds
  <2>2. routine'[<<"drop", c>>].pc \in {"idle", "drop"}
    <3>1. CASE TurnOK(<<"drop", c>>)
      BY <3>1 DEF TurnOK
    <3>2. CASE routine'[<<"drop", c>>] = routine[<<"drop", c>>]
      BY <3>2, Kinds DEF DeliveryInv, TimerInv
    <3> QED BY <3>1, <3>2, Kinds
  <2> QED BY <2>1, <2>2
<1>3. SessionInv'
  <2> SUFFICES ASSUME NEW c \in Client
               PROVE  /\ walk[c].pc = "walk" => routine'[c] = Rest
                      /\ routine'[c].fatal \/ routine'[c].pc \in {"fatal", "end"} =>
                           walk[c].pc = "idle"
    BY DEF SessionInv, Rest
  <2>1. CASE TurnOK(c)
    BY <2>1 DEF TurnOK
  <2>2. CASE routine'[c] = routine[c]
    BY <2>2 DEF DeliveryInv, SessionInv
  <2> QED BY <2>1, <2>2, Kinds
<1>4. \A w \in Walk, c \in Client :
        routine[<<w, c>>].pc = "idle" => routine'[<<w, c>>].pc = "idle"
  BY Kinds DEF TurnOK
<1>5. WalkInv'
  <2>1. TypeInv /\ WalkInv /\ UNCHANGED <<walk, pool>>
    BY DEF DeliveryInv
  <2>2. \A w \in Walk : walk[w].slice \subseteq Client
    BY <2>1 DEF TypeInv
  <2> QED BY <1>4, <2>1, <2>2 DEF WalkInv
<1>6. BusyInv'
  <2> SUFFICES ASSUME NEW w \in Walk
               PROVE  IsFiniteSet(Busy(w)') /\ Cardinality(Busy(w)') <= MaxBroadcastWorkers
    BY DEF BusyInv
  <2>1. Busy(w)' \subseteq Busy(w)
    BY <1>4 DEF Busy, Worker
  <2>2. IsFiniteSet(Busy(w)) /\ Cardinality(Busy(w)) <= MaxBroadcastWorkers
    BY DEF DeliveryInv, BusyInv
  <2>3. IsFiniteSet(Busy(w)') /\ Cardinality(Busy(w)') <= Cardinality(Busy(w))
    BY <2>1, <2>2, FS_Subset
  <2>4. Cardinality(Busy(w)') \in Nat /\ Cardinality(Busy(w)) \in Nat
    BY <2>2, <2>3, FS_CardinalityType
  <2> QED BY <2>2, <2>3, <2>4, DeliveryAssumption
<1>7. ShutdownInv'
  <2>1. ShutdownInv /\ WalkInv
    BY DEF DeliveryInv
  <2>2. ShutdownIsComplete'
    BY <2>1 DEF ShutdownInv, ShutdownIsComplete
  <2>3. ASSUME NEW c \in Client
        PROVE  /\ routine[<<"shutdown", c>>].pc = "mark" =>
                    \/ routine'[<<"shutdown", c>>].pc = "mark"
                    \/ c \in disconnect' /\ routine'[<<"shutdown", c>>].pc = "delete"
               /\ c \in disconnect /\ routine[<<"shutdown", c>>].pc = "delete" =>
                    \/ c \in disconnect' /\ routine'[<<"shutdown", c>>].pc = "delete"
                    \/ c \in disconnect' /\ c \notin clients'
    <3>1. "shutdown" \in Walk /\ <<"shutdown", c>> \in Goroutine
      BY Kinds
    <3>2. CASE TurnOK(<<"shutdown", c>>)
      BY <3>1, <3>2 DEF TurnOK
    <3>3. CASE routine'[<<"shutdown", c>>] = routine[<<"shutdown", c>>]
      BY <3>1, <3>3
    <3> QED BY <3>1, <3>2, <3>3
  <2>4. shutdown' = "select" =>
          /\ walk'["shutdown"].pc \in {"walk", "end"}
          /\ \A c \in due'["shutdown"] :
               \/ c \in walk'["shutdown"].slice
               \/ c \in Client /\ routine'[<<"shutdown", c>>].pc = "mark"
               \/ /\ c \in disconnect' /\ c \in Client
                  /\ routine'[<<"shutdown", c>>].pc = "delete"
               \/ c \in disconnect' /\ c \notin clients'
    BY <2>1, <2>3 DEF ShutdownInv
  <2> QED BY <2>1, <2>2, <2>4 DEF ShutdownInv
<1> QED BY <1>1, <1>2, <1>3, <1>5, <1>6, <1>7 DEF DeliveryInv

-----------------------------------------------------------------------------
(* One client: its lock, its mark and its connection. *)

Lock == [readers : SUBSET Goroutine, waiting : SUBSET Goroutine]

\* A goroutine that is done with its client.
LEMMA ReturnOK ==
  ASSUME DeliveryInv, NEW g \in Goroutine, routine'[g] = Returned(g),
         routine[g].pc \in {"send", "write", "mark", "delete"},
         routine[g].pc = "mark" => ~routine[g].immediate,
         routine[g].pc = "delete" => routine[g].to \in disconnect /\ routine[g].to \notin clients'
  PROVE  TurnOK(g)
<1>0. /\ Returned(g).pc \in {"idle", "fatal"} /\ ~Returned(g).fatal
      /\ ~routine[g].fatal => Returned(g) = Rest
      /\ Returned(g).pc = "fatal" => routine[g].fatal
      /\ Rest.pc = "idle" /\ ~Rest.fatal
  BY ReturnedFacts, RestFacts DEF DeliveryInv
<1>1. ASSUME NEW w \in Walk, NEW c \in Client, g = <<w, c>>
      PROVE  /\ WorkerOK(routine'[g], w, c)
             /\ routine'[g].pc # "idle" => routine[g].pc # "idle"
             /\ w = "shutdown" /\ routine[g].pc = "mark" =>
                  c \in disconnect' /\ routine'[g].pc = "delete"
             /\ w = "shutdown" /\ routine[g].pc = "delete" => c \in disconnect /\ c \notin clients'
  <2>1. WorkerOK(routine[g], w, c)
    BY <1>1 DEF DeliveryInv, WorkerInv
  <2> QED BY <1>0, <2>1 DEF WorkerOK
<1>2. ASSUME NEW c \in Client, g = <<"timer", c>>
      PROVE  routine'[g].pc \in {"idle", "delete"} /\ ~routine'[g].fatal
             /\ (routine'[g].pc # "idle" => c \in disconnect')
  <2>1. ~routine[g].fatal
    BY <1>2 DEF DeliveryInv, TimerInv, TimerOK
  <2> QED BY <1>0, <2>1
<1>3. ASSUME NEW c \in Client, g = <<"drop", c>> PROVE FALSE
  BY <1>3 DEF DeliveryInv, TimerInv
<1>4. ASSUME NEW c \in Client, g = c
      PROVE  /\ walk[c].pc = "walk" => routine'[c] = Rest
             /\ routine'[c].fatal \/ routine'[c].pc \in {"fatal", "end"} => walk[c].pc = "idle"
  BY <1>0, <1>4 DEF DeliveryInv, SessionInv
<1> QED BY <1>1, <1>2, <1>3, <1>4 DEF TurnOK

\* The types, when one goroutine moves.
LEMMA TypeTurn ==
  ASSUME TypeInv, NEW g \in Goroutine, NEW new \in Routine,
         routine' = [routine EXCEPT ![g] = new],
         new.pc \in {"send", "write", "mark", "delete"} => new.to \in Client,
         lock' \in [Client -> Lock], UNCHANGED walk, DOMAIN due' = DOMAIN due,
         clients' \subseteq clients, disconnect' \subseteq Client
  PROVE  /\ TypeInv' /\ routine'[g] = new
         /\ \A h \in Goroutine \ {g} : routine'[h] = routine[h]
<1>1. /\ routine' \in [Goroutine -> Routine] /\ routine'[g] = new
      /\ \A h \in Goroutine \ {g} : routine'[h] = routine[h]
  BY DEF TypeInv
<1>2. \A h \in Goroutine :
       routine'[h].pc \in {"send", "write", "mark", "delete"} => routine'[h].to \in Client
  BY <1>1 DEF TypeInv
<1> QED BY <1>1, <1>2 DEF TypeInv, Lock

\* The locks, when neither who holds one nor who waits for one moves.
LEMMA LockTurn ==
  ASSUME TypeInv, LockInv, UNCHANGED lock,
         \A h \in Goroutine :
           routine[h].pc \in {"write", "mark", "delete"} \/ routine'[h].pc = "write" =>
             routine'[h] = routine[h]
  PROVE  LockInv'
  BY DEF TypeInv, LockInv

\* A line finds the client marked, or is written under the lock.
LEMMA SendLineStep ==
  ASSUME DeliveryInv, NEW g \in Goroutine, SendLine(g)
  PROVE  DeliveryInv'
<1> DEFINE c == routine[g].to
<1>0. /\ TypeInv /\ LockInv /\ ClosedInv /\ routine[g].pc = "send" /\ c \in Client
      /\ routine[g] \in Routine /\ lock \in [Client -> Lock]
      /\ UNCHANGED <<clients, disconnect, closed, due, walk, pool, shutdown, shuttingDown>>
  BY DEF DeliveryInv, SendLine, Elsewhere, TypeInv, Lock
<1>1. CASE c \in disconnect
  <2>1. routine' = [routine EXCEPT ![g] = Returned(g)] /\ UNCHANGED lock
    BY <1>1 DEF SendLine
  <2>2. /\ TypeInv' /\ routine'[g] = Returned(g)
        /\ \A h \in Goroutine \ {g} : routine'[h] = routine[h]
        /\ routine'[g].pc \in {"idle", "fatal"}
    BY <1>0, <2>1, ReturnedFacts, TypeTurn DEF TypeInv
  <2>3. LockInv'
    BY <1>0, <2>1, <2>2 DEF LockInv, TypeInv
  <2>4. ClosedInv'
    BY <1>0, <2>1 DEF ClosedInv
  <2>5. TurnOK(g)
    BY <1>0, <2>2, ReturnOK
  <2> QED BY <1>0, <2>2, <2>3, <2>4, <2>5, Turn
<1>2. CASE c \notin disconnect
  <2> DEFINE new == [routine[g] EXCEPT !.pc = "write"]
  <2>1. /\ routine' = [routine EXCEPT ![g] = new]
        /\ lock' = [lock EXCEPT ![c].readers = lock[c].readers \cup {g}]
    BY <1>2 DEF SendLine
  <2>2. /\ new \in Routine /\ new.pc = "write" /\ new.to = c
        /\ (new.fatal <=> routine[g].fatal) /\ (new.immediate <=> routine[g].immediate)
    BY <1>0 DEF Routine
  <2> HIDE DEF new
  <2>3. /\ lock' \in [Client -> Lock]
        /\ lock'[c].readers = lock[c].readers \cup {g} /\ lock'[c].waiting = lock[c].waiting
        /\ \A d \in Client \ {c} : lock'[d] = lock[d]
    BY <1>0, <2>1 DEF Lock
  <2>4. /\ TypeInv' /\ routine'[g] = new
        /\ \A h \in Goroutine \ {g} : routine'[h] = routine[h]
    BY <1>0, <2>1, <2>2, <2>3, TypeTurn DEF TypeInv
  <2>5. LockInv'
    <3>1. routine'[g].pc = "write" /\ routine'[g].to = c
      BY <2>2, <2>4
    <3>2. /\ LockInv /\ c \in Client /\ routine[g].pc = "send"
          /\ \A h \in Goroutine : routine[h].pc = "write" => routine[h].to \in Client
          /\ \A d \in Client : lock[d].readers \subseteq Goroutine /\ lock[d].waiting \subseteq Goroutine
      BY <1>0 DEF TypeInv
    <3> HIDE DEF c
    <3> QED BY <2>3, <2>4, <3>1, <3>2 DEF LockInv
  <2>6. ClosedInv'
    BY <1>0, <1>2, <2>3 DEF ClosedInv, TypeInv
  <2>7. TurnOK(g)
    <3>1. \A w \in Walk, d \in Client : g = <<w, d>> =>
            /\ WorkerOK(new, w, d) /\ w # "shutdown"
      BY <1>0, <2>2 DEF DeliveryInv, WorkerInv, WorkerOK
    <3>2. \A d \in Client : g # <<"timer", d>> /\ g # <<"drop", d>>
      BY <1>0 DEF DeliveryInv, TimerInv, TimerOK
    <3>3. \A d \in Client : g = d => walk[d].pc # "walk" /\ (new.fatal => walk[d].pc = "idle")
      BY <1>0, <2>2, RestFacts DEF DeliveryInv, SessionInv
    <3> QED BY <1>0, <2>2, <2>4, <3>1, <3>2, <3>3 DEF TurnOK
  <2>8. /\ UNCHANGED <<walk, pool, shutdown, shuttingDown>> /\ due'["shutdown"] = due["shutdown"]
        /\ clients' \subseteq clients /\ disconnect \subseteq disconnect'
        /\ \A h \in Goroutine : routine'[h] = routine[h] \/ TurnOK(h)
    BY <1>0, <2>4, <2>7
  <2> QED BY <2>4, <2>5, <2>6, <2>8, Turn
<1> QED BY <1>1, <1>2

\* A write ends, and gives the lock back.
LEMMA WriteStep ==
  ASSUME DeliveryInv, NEW g \in Goroutine, Write(g)
  PROVE  DeliveryInv'
<1> DEFINE c == routine[g].to
<1>0. /\ TypeInv /\ LockInv /\ ClosedInv /\ routine[g].pc = "write" /\ c \in Client
      /\ lock \in [Client -> Lock]
      /\ UNCHANGED <<clients, disconnect, closed, walk, pool, shutdown, shuttingDown>>
      /\ routine' = [routine EXCEPT ![g] = Returned(g)]
      /\ lock' = [lock EXCEPT ![c].readers = lock[c].readers \ {g}]
  BY DEF DeliveryInv, Write, Elsewhere, TypeInv, Lock
<1>1. DOMAIN due' = DOMAIN due /\ due'["shutdown"] = due["shutdown"]
  <2>1. g \in Message \X Client => g[1] # "shutdown"
    BY Kinds
  <2>2. due' = due \/ \E m, S : m # "shutdown" /\ due' = [due EXCEPT ![m] = S]
    BY <2>1 DEF Write
  <2> QED BY <1>0, <2>2 DEF TypeInv
<1>2. /\ lock' \in [Client -> Lock]
      /\ lock'[c].readers = lock[c].readers \ {g} /\ lock'[c].waiting = lock[c].waiting
      /\ \A d \in Client \ {c} : lock'[d] = lock[d]
  BY <1>0 DEF Lock
<1>3. /\ TypeInv' /\ routine'[g] = Returned(g)
      /\ \A h \in Goroutine \ {g} : routine'[h] = routine[h]
      /\ routine'[g].pc \in {"idle", "fatal"}
  BY <1>0, <1>1, <1>2, ReturnedFacts, TypeTurn DEF TypeInv
<1>4. LockInv'
  BY <1>0, <1>2, <1>3 DEF LockInv, TypeInv
<1>5. ClosedInv'
  BY <1>0, <1>2 DEF ClosedInv, TypeInv
<1>6. TurnOK(g)
  BY <1>0, <1>3, ReturnOK
<1> QED BY <1>0, <1>1, <1>3, <1>4, <1>5, <1>6, Turn

\* A writer announces itself.
LEMMA AnnounceStep ==
  ASSUME DeliveryInv, NEW g \in Goroutine, Announce(g)
  PROVE  DeliveryInv'
<1> DEFINE c == routine[g].to
<1>0. /\ TypeInv /\ LockInv /\ ClosedInv /\ routine[g].pc \in {"mark", "delete"} /\ c \in Client
      /\ lock \in [Client -> Lock]
      /\ UNCHANGED <<clients, disconnect, closed, routine, due, walk, pool, shutdown, shuttingDown>>
      /\ lock' = [lock EXCEPT ![c].waiting = lock[c].waiting \cup {g}]
  BY DEF DeliveryInv, Announce, Elsewhere, TypeInv, Lock
<1>1. /\ lock' \in [Client -> Lock]
      /\ lock'[c].readers = lock[c].readers /\ lock'[c].waiting = lock[c].waiting \cup {g}
      /\ \A d \in Client \ {c} : lock'[d] = lock[d]
  BY <1>0 DEF Lock
<1>2. TypeInv'
  BY <1>0, <1>1 DEF TypeInv, Lock
<1>3. LockInv'
  BY <1>0, <1>1 DEF LockInv, TypeInv
<1>4. ClosedInv'
  BY <1>0, <1>1 DEF ClosedInv, TypeInv
<1> QED BY <1>0, <1>2, <1>3, <1>4, Turn

\* The client leaves the table.
LEMMA DeleteStep ==
  ASSUME DeliveryInv, NEW g \in Goroutine, Delete(g)
  PROVE  DeliveryInv'
<1> DEFINE c == routine[g].to
<1>0. /\ TypeInv /\ LockInv /\ ClosedInv /\ routine[g].pc = "delete" /\ c \in Client
      /\ c \in disconnect /\ clients' = clients \ {c}
      /\ lock \in [Client -> Lock]
      /\ UNCHANGED <<disconnect, closed, due, walk, pool, shutdown, shuttingDown>>
      /\ routine' = [routine EXCEPT ![g] = Returned(g)]
      /\ lock' = [lock EXCEPT ![c].waiting = lock[c].waiting \ {g}]
  BY DEF DeliveryInv, Delete, Elsewhere, TypeInv, Lock
<1>2. /\ lock' \in [Client -> Lock]
      /\ lock'[c].readers = lock[c].readers /\ lock'[c].waiting = lock[c].waiting \ {g}
      /\ \A d \in Client \ {c} : lock'[d] = lock[d]
  BY <1>0 DEF Lock
<1>3. /\ TypeInv' /\ routine'[g] = Returned(g)
      /\ \A h \in Goroutine \ {g} : routine'[h] = routine[h]
      /\ routine'[g].pc \in {"idle", "fatal"}
  BY <1>0, <1>2, ReturnedFacts, TypeTurn DEF TypeInv
<1>4. LockInv'
  BY <1>0, <1>2, <1>3 DEF LockInv, TypeInv
<1>5. ClosedInv'
  BY <1>0, <1>2 DEF ClosedInv, TypeInv
<1>6. TurnOK(g)
  BY <1>0, <1>3, ReturnOK
<1> QED BY <1>0, <1>3, <1>4, <1>5, <1>6, Turn

\* The client is marked, closed by the first who marks it, and its timer starts.
LEMMA MarkStep ==
  ASSUME DeliveryInv, NEW g \in Goroutine, MarkedDisconnect(g)
  PROVE  DeliveryInv'
<1> DEFINE c == routine[g].to
           t == <<"timer", c>>
           next == IF routine[g].immediate THEN [routine[g] EXCEPT !.pc = "delete"]
                   ELSE Returned(g)
<1>0. /\ TypeInv /\ LockInv /\ ClosedInv /\ routine[g].pc = "mark" /\ c \in Client
      /\ routine[g] \in Routine /\ lock \in [Client -> Lock]
      /\ lock[c].readers = {} /\ disconnect' = disconnect \cup {c}
      /\ closed' \in {closed, closed \cup {c}}
      /\ lock' = [lock EXCEPT ![c].waiting = lock[c].waiting \ {g}]
      /\ UNCHANGED <<clients, due, walk, pool, shutdown, shuttingDown>>
  BY DEF DeliveryInv, MarkedDisconnect, MayLock, Elsewhere, TypeInv, Lock
<1>1. /\ \A d \in Client : g # <<"timer", d>> /\ g # <<"drop", d>>
      /\ t \in Goroutine /\ g # t
      /\ c \notin disconnect => routine[t].pc = "idle"
  BY <1>0, Kinds DEF DeliveryInv, TimerInv, TimerOK
<1>2. /\ next \in Routine /\ next.pc \in {"idle", "fatal", "delete"}
      /\ next.pc = "delete" => next.to = c
  BY <1>0, ReturnedFacts DEF Routine
<1>3. \/ routine' = [routine EXCEPT ![g] = next]
      \/ /\ c \notin disconnect
         /\ routine' = [[routine EXCEPT ![t] = At("delete", c)] EXCEPT ![g] = next]
  BY DEF MarkedDisconnect, Do, At
<1>4. /\ routine' \in [Goroutine -> Routine] /\ routine'[g] = next
      /\ \A h \in Goroutine \ {g, t} : routine'[h] = routine[h]
      /\ \/ routine'[t] = routine[t]
         \/ c \notin disconnect /\ routine'[t] = At("delete", c)
  <2>1. At("delete", c) \in Routine
    BY <1>0, RestFacts
  <2>2. routine \in [Goroutine -> Routine]
    BY <1>0 DEF TypeInv
  <2> HIDE DEF next, c, t
  <2>3. CASE routine' = [routine EXCEPT ![g] = next]
    BY <1>1, <1>2, <2>2, <2>3
  <2>4. CASE /\ c \notin disconnect
             /\ routine' = [[routine EXCEPT ![t] = At("delete", c)] EXCEPT ![g] = next]
    BY <1>1, <1>2, <2>1, <2>2, <2>4
  <2> QED BY <1>3, <2>3, <2>4
<1>5. TurnOK(g)
  <2>1. CASE ~routine[g].immediate
    BY <1>0, <1>4, <2>1, ReturnOK
  <2>2. CASE routine[g].immediate
    <3>1. /\ next.pc = "delete" /\ next.to = c /\ next.immediate
          /\ next.fatal <=> routine[g].fatal
      BY <1>0, <2>2 DEF Routine
    <3> HIDE DEF next
    <3>2. \A w \in Walk, d \in Client : g = <<w, d>> => WorkerOK(next, w, d) /\ d = c
      BY <1>0, <3>1 DEF DeliveryInv, WorkerInv, WorkerOK
    <3>3. \A d \in Client : g = d => walk[d].pc # "walk" /\ (next.fatal => walk[d].pc = "idle")
      BY <1>0, <3>1, RestFacts DEF DeliveryInv, SessionInv
    <3> QED BY <1>0, <1>1, <1>4, <3>1, <3>2, <3>3 DEF TurnOK
  <2> QED BY <2>1, <2>2
<1>6. routine'[t] = routine[t] \/ TurnOK(t)
  <2>1. ASSUME routine'[t] = At("delete", c) PROVE TurnOK(t)
    <3>1. /\ \A w \in Walk, d \in Client : t # <<w, d>>
          /\ \A d \in Client : t # d /\ t # <<"drop", d>> /\ (t = <<"timer", d>> => d = c)
      BY <1>0, Kinds
    <3>2. /\ At("delete", c).pc = "delete" /\ ~At("delete", c).fatal /\ c \in disconnect'
      BY <1>0, RestFacts
    <3> HIDE DEF t
    <3> QED BY <2>1, <3>1, <3>2 DEF TurnOK
  <2> QED BY <1>4, <2>1
<1> HIDE DEF next
<1>7. At("delete", c).pc = "delete" /\ At("delete", c).to = c
  BY <1>0, RestFacts
<1>8. /\ lock' \in [Client -> Lock]
      /\ lock'[c].readers = {} /\ lock'[c].waiting = lock[c].waiting \ {g}
      /\ \A d \in Client \ {c} : lock'[d] = lock[d]
  BY <1>0 DEF Lock
<1>9. TypeInv'
  <2>1. \A h \in Goroutine :
         routine'[h].pc \in {"send", "write", "mark", "delete"} => routine'[h].to \in Client
    BY <1>0, <1>2, <1>4, <1>7 DEF TypeInv
  <2> QED BY <1>0, <1>4, <1>8, <2>1 DEF TypeInv, Lock
<1>10. LockInv'
  <2>1. \A h \in Goroutine \ {g} : routine[h].pc # "idle" => routine'[h] = routine[h]
    BY <1>1, <1>4
  <2>2. /\ routine'[g].pc \in {"idle", "fatal", "delete"}
        /\ routine'[t].pc = "write" => routine'[t] = routine[t]
    BY <1>2, <1>4, <1>7
  <2>3. \A d \in Client : lock[d].readers \subseteq Goroutine /\ lock[d].waiting \subseteq Goroutine
    BY <1>0 DEF TypeInv
  <2>4. ASSUME NEW d \in Client
        PROVE  /\ \A h \in lock'[d].readers : routine'[h].pc = "write" /\ routine'[h].to = d
               /\ \A h \in lock'[d].waiting :
                    routine'[h].pc \in {"mark", "delete"} /\ routine'[h].to = d
    BY <1>0, <1>8, <2>1, <2>3 DEF LockInv
  <2>5. \A h \in Goroutine : routine'[h].pc = "write" => h \in lock'[routine'[h].to].readers
    <3> SUFFICES ASSUME NEW h \in Goroutine, routine'[h].pc = "write"
                 PROVE  h \in lock'[routine'[h].to].readers
      OBVIOUS
    <3>1. routine'[h] = routine[h]
      BY <1>4, <2>2
    <3>2. routine[h].to \in Client /\ h \in lock[routine[h].to].readers
      BY <1>0, <3>1 DEF LockInv, TypeInv
    <3> QED BY <1>0, <1>8, <3>1, <3>2
  <2> QED BY <2>4, <2>5 DEF LockInv
<1>11. ClosedInv'
  BY <1>0, <1>8 DEF ClosedInv, TypeInv
<1>12. \A h \in Goroutine : routine'[h] = routine[h] \/ TurnOK(h)
  BY <1>4, <1>5, <1>6
<1> QED BY <1>0, <1>9, <1>10, <1>11, <1>12, Turn

\* The rest of a fatal error.
LEMMA FatalStep ==
  ASSUME DeliveryInv, NEW c \in Client, Fatal(c)
  PROVE  DeliveryInv'
<1> DEFINE t == <<"drop", c>>
           end == [Rest EXCEPT !.pc = "end"]
<1>0. /\ TypeInv /\ LockInv /\ ClosedInv /\ t \in Goroutine /\ c \in Goroutine /\ c # t
      /\ routine[t].pc \in {"idle", "drop"}
      /\ UNCHANGED <<closed, lock, due, walk, pool, shutdown, shuttingDown>>
  BY Kinds DEF DeliveryInv, TimerInv, Fatal, SendError, DeleteClient, Elsewhere
<1>1. /\ \A w \in Walk, d \in Client : t # <<w, d>> /\ c # <<w, d>>
      /\ \A d \in Client : t # <<"timer", d>> /\ c # <<"timer", d>> /\ c # <<"drop", d>> /\ t # d
  BY Kinds
<1>2. CASE SendError(c)
  <2>1. /\ routine[c].pc = "fatal" /\ disconnect' = disconnect \cup {c} /\ UNCHANGED clients
        /\ routine' = [[routine EXCEPT ![t] = At("drop", c)] EXCEPT ![c] = end]
    BY <1>2 DEF SendError, Do, At
  <2>2. /\ At("drop", c) \in Routine /\ At("drop", c).pc = "drop"
        /\ end \in Routine /\ end.pc = "end"
    BY RestFacts
  <2> HIDE DEF end
  <2>3. /\ routine' \in [Goroutine -> Routine] /\ routine'[c] = end /\ routine'[t] = At("drop", c)
        /\ \A h \in Goroutine \ {c, t} : routine'[h] = routine[h]
    BY <1>0, <2>1, <2>2 DEF TypeInv
  <2>4. TypeInv'
    <3>1. \A h \in Goroutine :
            routine'[h].pc \in {"send", "write", "mark", "delete"} => routine'[h].to \in Client
      BY <1>0, <2>2, <2>3 DEF TypeInv
    <3> QED BY <1>0, <2>1, <2>3, <3>1 DEF TypeInv
  <2>5. LockInv'
    <3>1. \A h \in {c, t} : /\ routine[h].pc \notin {"write", "mark", "delete"}
                           /\ routine'[h].pc # "write"
      BY <1>0, <2>1, <2>2, <2>3
    <3> QED BY <1>0, <2>3, <3>1, LockTurn
  <2>6. ClosedInv'
    BY <1>0, <2>1 DEF ClosedInv
  <2>7. walk[c].pc = "idle"
    BY <2>1 DEF DeliveryInv, SessionInv
  <2>8. TurnOK(c) /\ TurnOK(t)
    BY <1>1, <2>2, <2>3, <2>7 DEF TurnOK
  <2> QED BY <1>0, <2>1, <2>3, <2>4, <2>5, <2>6, <2>8, Turn
<1>3. CASE DeleteClient(c)
  <2>1. /\ routine[t].pc = "drop" /\ clients' = clients \ {c} /\ UNCHANGED disconnect
        /\ routine' = [routine EXCEPT ![t] = Rest]
    BY <1>3 DEF DeleteClient
  <2>2. Rest \in Routine /\ Rest.pc = "idle"
    BY RestFacts
  <2>3. /\ TypeInv' /\ routine'[t] = Rest
        /\ \A h \in Goroutine \ {t} : routine'[h] = routine[h]
    BY <1>0, <2>1, <2>2, TypeTurn DEF TypeInv, Lock
  <2>4. LockInv'
    <3>1. routine[t].pc \notin {"write", "mark", "delete"} /\ routine'[t].pc # "write"
      BY <2>1, <2>2, <2>3
    <3> QED BY <1>0, <2>3, <3>1, LockTurn
  <2>5. ClosedInv'
    BY <1>0, <2>1 DEF ClosedInv
  <2>6. TurnOK(t)
    BY <1>1, <2>2, <2>3 DEF TurnOK
  <2> QED BY <1>0, <2>1, <2>3, <2>4, <2>5, <2>6, Turn
<1> QED BY <1>2, <1>3 DEF Fatal

\* A session or a web request that starts on a line or on a disconnect.
LEMMA StartStep ==
  ASSUME DeliveryInv, NEW g \in Client \cup Web, routine[g] = Rest,
         g \in Client => walk[g].pc = "idle",
         NEW new \in Routine, new.pc \in {"send", "mark"}, new.to \in Client,
         routine' = [routine EXCEPT ![g] = new],
         UNCHANGED <<clients, disconnect, closed, lock, due, walk, pool, shutdown, shuttingDown>>
  PROVE  DeliveryInv'
<1>0. TypeInv /\ LockInv /\ ClosedInv /\ g \in Goroutine /\ routine[g].pc = "idle"
  BY Kinds, RestFacts DEF DeliveryInv
<1>1. /\ \A w \in Walk, d \in Client : g # <<w, d>>
      /\ \A d \in Client : g # <<"timer", d>> /\ g # <<"drop", d>>
  BY Kinds
<1>2. /\ TypeInv' /\ routine'[g] = new
      /\ \A h \in Goroutine \ {g} : routine'[h] = routine[h]
  BY <1>0, TypeTurn DEF TypeInv, Lock
<1>3. LockInv'
  BY <1>0, <1>2 DEF LockInv, TypeInv
<1>4. ClosedInv'
  BY <1>0 DEF ClosedInv
<1>5. TurnOK(g)
  BY <1>1, <1>2 DEF TurnOK
<1> QED BY <1>2, <1>3, <1>4, <1>5, Turn

\* A step that concerns none of this.
LEMMA SameStep ==
  ASSUME DeliveryInv,
         UNCHANGED <<clients, disconnect, closed, lock, routine, due, walk, pool, shutdown,
                     shuttingDown>>
  PROVE  DeliveryInv'
<1>1. TypeInv' /\ LockInv' /\ ClosedInv'
  BY DEF DeliveryInv, TypeInv, LockInv, ClosedInv
<1> QED BY <1>1, Turn

-----------------------------------------------------------------------------
(* Walks. *)

WalkRecord == [pc : {"idle", "start", "walk", "end"}, from : Client \cup {None},
               filter : Filter, slice : SUBSET Client, i : Nat]

\* A broadcast moves, and with it the session that walks.
LEMMA WalkTurn ==
  ASSUME DeliveryInv, NEW w \in Walk, w # "shutdown", NEW new \in WalkRecord,
         walk' = [walk EXCEPT ![w] = new],
         \A h \in Goroutine : routine'[h] = routine[h] \/ (h = w /\ w \in Client),
         TypeInv', LockInv', ClosedInv',
         UNCHANGED <<clients, disconnect, pool, shutdown, shuttingDown>>,
         due'["shutdown"] = due["shutdown"],
         new.pc # "walk" =>
           new.slice = {} /\ \A c \in Client : routine[<<w, c>>].pc = "idle",
         \A c \in new.slice : routine[<<w, c>>].pc = "idle",
         w \in Client =>
           /\ new.pc = "walk" => routine'[w] = Rest
           /\ routine'[w].fatal \/ routine'[w].pc \in {"fatal", "end"} => new.pc = "idle"
  PROVE  DeliveryInv'
<1>0. /\ walk'[w] = new /\ \A v \in Walk \ {w} : walk'[v] = walk[v]
      /\ new.slice \subseteq Client
  BY DEF DeliveryInv, TypeInv, WalkRecord
<1>1. /\ \A v \in Walk, c \in Client : routine'[<<v, c>>] = routine[<<v, c>>]
      /\ \A c \in Client : /\ routine'[<<"timer", c>>] = routine[<<"timer", c>>]
                           /\ routine'[<<"drop", c>>] = routine[<<"drop", c>>]
  BY Kinds
<1>2. WorkerInv'
  BY <1>1 DEF DeliveryInv, WorkerInv
<1>3. TimerInv'
  BY <1>1 DEF DeliveryInv, TimerInv, TimerOK
<1>4. SessionInv'
  <2> SUFFICES ASSUME NEW c \in Client
               PROVE  /\ walk'[c].pc = "walk" => routine'[c] = Rest
                      /\ routine'[c].fatal \/ routine'[c].pc \in {"fatal", "end"} =>
                           walk'[c].pc = "idle"
    BY DEF SessionInv, Rest
  <2>1. CASE c = w
    BY <1>0, <2>1
  <2>2. CASE c # w
    <3>1. walk'[c] = walk[c] /\ routine'[c] = routine[c]
      BY <1>0, <2>2, Kinds
    <3> QED BY <3>1 DEF DeliveryInv, SessionInv
  <2> QED BY <2>1, <2>2
<1>5. WalkInv'
  <2>1. WalkInv /\ \A v \in Walk : walk[v].slice \subseteq Client
    BY DEF DeliveryInv, TypeInv
  <2>2. walk'["shutdown"] = walk["shutdown"]
    BY <1>0, Kinds
  <2> QED BY <1>0, <1>1, <2>1, <2>2 DEF WalkInv
<1>6. BusyInv'
  <2>1. \A v \in Walk : Busy(v)' = Busy(v)
    BY <1>1 DEF Busy, Worker
  <2> QED BY <2>1 DEF DeliveryInv, BusyInv
<1>7. ShutdownInv'
  <2>1. ShutdownInv /\ walk'["shutdown"] = walk["shutdown"]
    BY <1>0, Kinds DEF DeliveryInv
  <2>2. \A c \in Client : routine'[<<"shutdown", c>>] = routine[<<"shutdown", c>>]
    BY <1>1, Kinds
  <2> QED BY <2>1, <2>2 DEF ShutdownInv, ShutdownIsComplete
<1> QED BY <1>2, <1>3, <1>4, <1>5, <1>6, <1>7 DEF DeliveryInv

\* The types and locks, when only a broadcast moves.
LEMMA WalkAlone ==
  ASSUME DeliveryInv, NEW w \in Walk, NEW new \in WalkRecord,
         walk' = [walk EXCEPT ![w] = new], DOMAIN due' = DOMAIN due,
         UNCHANGED <<clients, disconnect, closed, lock, routine>>
  PROVE  TypeInv' /\ LockInv' /\ ClosedInv'
<1>1. walk' \in [Walk -> WalkRecord]
  BY DEF DeliveryInv, TypeInv, WalkRecord
<1> QED BY <1>1 DEF DeliveryInv, TypeInv, LockInv, ClosedInv, WalkRecord

\* What a broadcast starts with.
LEMMA SnapshotFacts ==
  ASSUME TypeInv, NEW from \in Client \cup {None}, NEW filter \in Filter
  PROVE  LET new == [GetClientSnapshot EXCEPT !.from = from, !.filter = filter] IN
         new \in WalkRecord /\ new.pc = "walk" /\ new.slice = clients
  BY DEF TypeInv, GetClientSnapshot, Still, WalkRecord, Filter

\* The history of a broadcast is not that of the shutdown.
LEMMA BroadcastDue ==
  ASSUME TypeInv, NEW w \in Walk, w # "shutdown", NEW from, NEW filter,
         BroadcastMessage(w, from, filter)
  PROVE  DOMAIN due' = DOMAIN due /\ due'["shutdown"] = due["shutdown"]
<1>1. due' = due \/ \E S : due' = [due EXCEPT ![w] = S]
  BY DEF BroadcastMessage
<1> QED BY <1>1 DEF TypeInv

\* A broadcast in a goroutine of its own begins.
LEMMA BeginsStep ==
  ASSUME DeliveryInv, NEW m \in Message, BroadcastBegins(m)
  PROVE  DeliveryInv'
<1>0. /\ TypeInv /\ m \in Walk /\ m # "shutdown" /\ m \notin Client
      /\ walk[m].pc = "start" /\ walk[m] \in WalkRecord
      /\ walk[m].slice = {} /\ \A c \in Client : routine[<<m, c>>].pc = "idle"
      /\ UNCHANGED <<clients, disconnect, closed, lock, routine, pool, shutdown, shuttingDown>>
  BY Kinds DEF DeliveryInv, TypeInv, WalkInv, BroadcastBegins, WalkRecord
<1>1. CASE BroadcastMessage(m, walk[m].from, walk[m].filter)
  <2> DEFINE new == [GetClientSnapshot EXCEPT !.from = walk[m].from, !.filter = walk[m].filter]
  <2>1. walk' = [walk EXCEPT ![m] = new]
    BY <1>1 DEF BroadcastMessage
  <2>2. DOMAIN due' = DOMAIN due /\ due'["shutdown"] = due["shutdown"]
    BY <1>0, <1>1, BroadcastDue
  <2>3. new \in WalkRecord /\ new.pc = "walk" /\ new.slice = clients
    BY <1>0, SnapshotFacts DEF WalkRecord
  <2> HIDE DEF new
  <2>4. TypeInv' /\ LockInv' /\ ClosedInv'
    BY <1>0, <2>1, <2>2, <2>3, WalkAlone
  <2>5. \A c \in new.slice : routine[<<m, c>>].pc = "idle"
    BY <1>0, <2>3 DEF TypeInv
  <2> QED BY <1>0, <2>1, <2>2, <2>3, <2>4, <2>5, WalkTurn
<1>2. CASE walk' = [walk EXCEPT ![m].pc = "end"] /\ UNCHANGED due
  <2> DEFINE new == [walk[m] EXCEPT !.pc = "end"]
  <2>1. walk' = [walk EXCEPT ![m] = new]
    BY <1>2
  <2>2. new \in WalkRecord /\ new.pc = "end" /\ new.slice = {}
    BY <1>0 DEF WalkRecord
  <2> HIDE DEF new
  <2>3. TypeInv' /\ LockInv' /\ ClosedInv'
    BY <1>0, <1>2, <2>1, <2>2, WalkAlone
  <2> QED BY <1>0, <1>2, <2>1, <2>2, <2>3, WalkTurn
<1> QED BY <1>1, <1>2 DEF BroadcastBegins

\* A command starts a broadcast.
LEMMA GoStep ==
  ASSUME DeliveryInv, NEW c \in Client, NEW filter \in Filter, Go(c, filter),
         UNCHANGED <<clients, disconnect, closed, lock, due, pool, shutdown, shuttingDown>>
  PROVE  DeliveryInv'
<1>1. PICK m \in Message :
        /\ walk[m].pc = "idle" /\ UNCHANGED routine
        /\ walk' = [walk EXCEPT ![m].pc = "start", ![m].from = c, ![m].filter = filter]
  BY DEF Go
<1>2. /\ m \in Walk /\ m # "shutdown" /\ m \notin Client
      /\ walk[m] \in WalkRecord /\ walk \in [Walk -> WalkRecord]
      /\ walk[m].slice = {} /\ \A d \in Client : routine[<<m, d>>].pc = "idle"
  BY <1>1, Kinds DEF DeliveryInv, TypeInv, WalkInv, WalkRecord
<1> DEFINE new == [walk[m] EXCEPT !.pc = "start", !.from = c, !.filter = filter]
<1>3. walk' = [walk EXCEPT ![m] = new]
  BY <1>1, <1>2
<1>4. new \in WalkRecord /\ new.pc = "start" /\ new.slice = {}
  BY <1>2 DEF WalkRecord
<1> HIDE DEF new
<1>5. TypeInv' /\ LockInv' /\ ClosedInv'
  BY <1>1, <1>2, <1>3, <1>4, WalkAlone
<1> QED BY <1>1, <1>2, <1>3, <1>4, <1>5, WalkTurn

\* A session ends: it walks over the others, or marks its client at once.
LEMMA ConnectionEndStep ==
  ASSUME DeliveryInv, NEW c \in Client, HandleConnectionEnd(c)
  PROVE  DeliveryInv'
<1>0. /\ TypeInv /\ LockInv /\ ClosedInv /\ c \in Goroutine /\ c \in Walk /\ c # "shutdown"
      /\ routine[c].pc \in {"idle", "end"} /\ walk[c].pc = "idle" /\ walk[c] \in WalkRecord
      /\ walk[c].slice = {} /\ \A d \in Client : routine[<<c, d>>].pc = "idle"
      /\ UNCHANGED <<clients, disconnect, closed, lock, pool, shutdown, shuttingDown>>
  BY Kinds, RestFacts
     DEF DeliveryInv, TypeInv, SessionInv, WalkInv, HandleConnectionEnd, Reads, WalkRecord
<1>1. ASSUME NEW r \in Routine, NEW new \in WalkRecord,
             routine' = [routine EXCEPT ![c] = r], walk' = [walk EXCEPT ![c] = new],
             r.pc # "write", r.pc = "mark" => r.to \in Client,
             r.pc \in {"idle", "mark"}, DOMAIN due' = DOMAIN due
      PROVE  /\ TypeInv' /\ LockInv' /\ ClosedInv' /\ routine'[c] = r
             /\ \A h \in Goroutine \ {c} : routine'[h] = routine[h]
  <2>1. /\ walk' \in [Walk -> WalkRecord]
        /\ routine' \in [Goroutine -> Routine] /\ routine'[c] = r
        /\ \A h \in Goroutine \ {c} : routine'[h] = routine[h]
    BY <1>0, <1>1 DEF TypeInv, WalkRecord
  <2>2. \A h \in Goroutine :
          routine'[h].pc \in {"send", "write", "mark", "delete"} => routine'[h].to \in Client
    BY <1>0, <1>1, <2>1 DEF TypeInv
  <2>3. TypeInv'
    BY <1>0, <1>1, <2>1, <2>2 DEF TypeInv, WalkRecord
  <2>4. LockInv'
    BY <1>0, <1>1, <2>1, LockTurn
  <2>5. ClosedInv'
    BY <1>0 DEF ClosedInv
  <2> QED BY <2>1, <2>3, <2>4, <2>5
<1>2. CASE BroadcastMessage(c, c, {"range"}) /\ routine' = [routine EXCEPT ![c] = Rest]
  <2> DEFINE new == [GetClientSnapshot EXCEPT !.from = c, !.filter = {"range"}]
  <2>1. walk' = [walk EXCEPT ![c] = new]
    BY <1>2 DEF BroadcastMessage
  <2>2. DOMAIN due' = DOMAIN due /\ due'["shutdown"] = due["shutdown"]
    BY <1>0, <1>2, BroadcastDue
  <2>3. new \in WalkRecord /\ new.pc = "walk" /\ new.slice = clients
    <3>1. {"range"} \in Filter
      BY DEF Filter
    <3> QED BY <1>0, <3>1, SnapshotFacts
  <2> HIDE DEF new
  <2>4. Rest \in Routine /\ Rest.pc = "idle" /\ ~Rest.fatal
    BY RestFacts
  <2>5. /\ TypeInv' /\ LockInv' /\ ClosedInv' /\ routine'[c] = Rest
        /\ \A h \in Goroutine \ {c} : routine'[h] = routine[h]
    BY <1>1, <1>2, <2>1, <2>2, <2>3, <2>4
  <2>6. \A d \in new.slice : routine[<<c, d>>].pc = "idle"
    BY <1>0, <2>3 DEF TypeInv
  <2> QED BY <1>0, <2>1, <2>2, <2>3, <2>4, <2>5, <2>6, WalkTurn
<1>3. CASE /\ walk' = [walk EXCEPT ![c].pc = "end"] /\ routine' = Do(c, "mark", c)
           /\ UNCHANGED due
  <2> DEFINE new == [walk[c] EXCEPT !.pc = "end"]
             r == At("mark", c)
  <2>1. walk' = [walk EXCEPT ![c] = new] /\ routine' = [routine EXCEPT ![c] = r]
    BY <1>3 DEF Do, At
  <2>2. /\ new \in WalkRecord /\ new.pc = "end" /\ new.slice = {}
        /\ r \in Routine /\ r.pc = "mark" /\ r.to = c /\ ~r.fatal
    BY <1>0, RestFacts DEF WalkRecord
  <2> HIDE DEF new, r
  <2>3. /\ TypeInv' /\ LockInv' /\ ClosedInv' /\ routine'[c] = r
        /\ \A h \in Goroutine \ {c} : routine'[h] = routine[h]
    BY <1>1, <1>3, <2>1, <2>2
  <2> QED BY <1>0, <1>3, <2>1, <2>2, <2>3, WalkTurn
<1> QED BY <1>2, <1>3 DEF HandleConnectionEnd

\* The worker a walk starts.
LEMMA StartedFacts ==
  ASSUME NEW w \in Walk, NEW c \in Client
  PROVE  LET new == [Rest EXCEPT !.to = c, !.immediate = w = "shutdown",
                                 !.pc = IF w = "shutdown" THEN "mark" ELSE "send"]
         IN /\ new \in Routine /\ WorkerOK(new, w, c) /\ new.to = c
            /\ w = "shutdown" => new.pc = "mark"
            /\ w # "shutdown" => new.pc = "send"
<1>1. CASE w = "shutdown"
  BY <1>1 DEF Rest, Routine, WorkerOK
<1>2. CASE w # "shutdown"
  BY <1>2 DEF Rest, Routine, WorkerOK
<1> QED BY <1>1, <1>2

\* A walk starts a worker.
LEMMA VisitStep ==
  ASSUME DeliveryInv, NEW w \in Walk, Visit(w)
  PROVE  DeliveryInv'
<1>1. PICK c \in walk[w].slice :
        /\ SlotFree(w)
        /\ walk' = [walk EXCEPT ![w].slice = @ \ {c}, ![w].i = @ + 1]
        /\ routine' = [routine EXCEPT ![<<w, c>>] =
             [Rest EXCEPT !.to = c, !.immediate = w = "shutdown",
                          !.pc = IF w = "shutdown" THEN "mark" ELSE "send"]]
        /\ UNCHANGED <<clients, shuttingDown, disconnect, closed, lock, pool, shutdown, due>>
  BY DEF Visit
<1> DEFINE g == <<w, c>>
           new == [Rest EXCEPT !.to = c, !.immediate = w = "shutdown",
                               !.pc = IF w = "shutdown" THEN "mark" ELSE "send"]
           next == [walk[w] EXCEPT !.slice = @ \ {c}, !.i = @ + 1]
<1>2. /\ TypeInv /\ LockInv /\ ClosedInv /\ WorkerInv /\ WalkInv /\ BusyInv /\ ShutdownInv
      /\ walk \in [Walk -> WalkRecord] /\ walk[w] \in WalkRecord /\ c \in Client
      /\ g \in Goroutine /\ g \in Worker /\ routine \in [Goroutine -> Routine]
  BY <1>1, Kinds DEF DeliveryInv, TypeInv, WalkRecord
<1>3. /\ new \in Routine /\ WorkerOK(new, w, c) /\ new.to = c
      /\ w = "shutdown" => new.pc = "mark"
      /\ w # "shutdown" => new.pc = "send"
  BY <1>2, StartedFacts
<1>4. walk' = [walk EXCEPT ![w] = next] /\ routine' = [routine EXCEPT ![g] = new]
  BY <1>1, <1>2
<1>5. next \in WalkRecord /\ next.pc = walk[w].pc /\ next.slice = walk[w].slice \ {c}
  <2>1. walk[w].slice \ {c} \in SUBSET Client /\ walk[w].i + 1 \in Nat
    BY <1>2 DEF WalkRecord
  <2> QED BY <1>2, <2>1 DEF WalkRecord
<1> HIDE DEF new, next
<1>6. /\ walk' \in [Walk -> WalkRecord] /\ walk'[w] = next
      /\ \A v \in Walk \ {w} : walk'[v] = walk[v]
      /\ routine' \in [Goroutine -> Routine] /\ routine'[g] = new
      /\ \A h \in Goroutine \ {g} : routine'[h] = routine[h]
  BY <1>2, <1>3, <1>4, <1>5
<1>7. \A v \in Walk : /\ walk'[v].pc = walk[v].pc
                      /\ walk'[v].slice \subseteq walk[v].slice /\ walk[v].slice \subseteq Client
  BY <1>2, <1>5, <1>6 DEF WalkRecord
<1>8. /\ \A v \in Walk, d \in Client : (v # w \/ d # c) => routine'[<<v, d>>] = routine[<<v, d>>]
      /\ \A d \in Client : /\ routine'[<<"timer", d>>] = routine[<<"timer", d>>]
                           /\ routine'[<<"drop", d>>] = routine[<<"drop", d>>]
                           /\ routine'[d] = routine[d]
  <2>1. \A v \in Walk, d \in Client : (v # w \/ d # c) => <<v, d>> \in Goroutine \ {g}
    BY Kinds
  <2>2. ASSUME NEW d \in Client
        PROVE  /\ <<"timer", d>> \in Goroutine \ {g} /\ <<"drop", d>> \in Goroutine \ {g}
               /\ d \in Goroutine \ {g}
    BY <1>2, Kinds
  <2> HIDE DEF g
  <2> QED BY <1>6, <2>1, <2>2
<1>9. /\ w # "shutdown" => routine[g].pc = "idle"
      /\ w = "shutdown" => routine[g].pc \in {"idle", "mark", "delete"}
      /\ routine[g].pc # "idle" => routine[g].to = c
  BY <1>1, <1>2 DEF WalkInv, WorkerInv, WorkerOK
<1>10. TypeInv'
  <2>1. \A h \in Goroutine :
          routine'[h].pc \in {"send", "write", "mark", "delete"} => routine'[h].to \in Client
    BY <1>2, <1>3, <1>6 DEF TypeInv
  <2> QED BY <1>1, <1>2, <1>6, <2>1 DEF TypeInv, WalkRecord
<1>11. LockInv'
  <2>1. /\ routine[g].pc # "write" /\ new.pc # "write"
        /\ routine[g].pc \in {"mark", "delete"} => routine[g].to = c /\ new.pc = "mark"
    BY <1>3, <1>9
  <2>2. ASSUME NEW d \in Client, NEW h \in lock[d].readers
        PROVE  h \in Goroutine /\ h # g /\ routine[h].pc = "write" /\ routine[h].to = d
    <3>1. h \in Goroutine /\ routine[h].pc = "write" /\ routine[h].to = d
      BY <1>2 DEF TypeInv, LockInv
    <3> QED BY <2>1, <3>1
  <2>3. ASSUME NEW d \in Client, NEW h \in lock[d].waiting
        PROVE  routine'[h].pc \in {"mark", "delete"} /\ routine'[h].to = d
    <3>1. h \in Goroutine /\ routine[h].pc \in {"mark", "delete"} /\ routine[h].to = d
      BY <1>2 DEF TypeInv, LockInv
    <3> QED BY <1>3, <1>6, <2>1, <3>1
  <2>4. ASSUME NEW h \in Goroutine, routine'[h].pc = "write"
        PROVE  h \in lock'[routine'[h].to].readers
    BY <1>1, <1>2, <1>6, <2>1, <2>4 DEF LockInv
  <2> QED BY <1>1, <1>6, <2>2, <2>3, <2>4 DEF LockInv
<1>12. ClosedInv'
  BY <1>1, <1>2 DEF ClosedInv
<1>13. WorkerInv'
  BY <1>2, <1>3, <1>6, <1>8 DEF WorkerInv
<1>14. TimerInv'
  BY <1>1, <1>8 DEF DeliveryInv, TimerInv, TimerOK
<1>15. SessionInv'
  BY <1>7, <1>8, Kinds DEF DeliveryInv, SessionInv
<1>16. walk[w].pc = "walk"
  BY <1>1, <1>2 DEF WalkInv
<1>17. WalkInv'
  <2>1. ASSUME NEW v \in Walk, walk'[v].pc # "walk"
        PROVE  walk'[v].slice = {} /\ \A d \in Client : routine'[<<v, d>>].pc = "idle"
    BY <1>2, <1>7, <1>8, <1>16, <2>1 DEF WalkInv
  <2>2. ASSUME NEW v \in Walk, v # "shutdown", NEW d \in walk'[v].slice
        PROVE  routine'[<<v, d>>].pc = "idle"
    <3>1. d \in walk[v].slice /\ d \in Client /\ (v # w \/ d # c)
      BY <1>5, <1>6, <1>7, <2>2
    <3> QED BY <1>2, <1>8, <2>2, <3>1 DEF WalkInv
  <2> QED BY <1>1, <1>2, <1>7, <2>1, <2>2, Kinds DEF WalkInv
<1>18. BusyInv'
  <2> SUFFICES ASSUME NEW v \in Walk
               PROVE  IsFiniteSet(Busy(v)') /\ Cardinality(Busy(v)') <= MaxBroadcastWorkers
    BY DEF BusyInv
  <2>1. /\ IsFiniteSet(Busy(v)) /\ Cardinality(Busy(v)) <= MaxBroadcastWorkers
        /\ Cardinality(Busy(v)) \in Nat
    BY <1>2, FS_CardinalityType DEF BusyInv
  <2>2. CASE v # w
    <3>1. Busy(v)' = Busy(v)
      BY <1>8, <2>2 DEF Busy, Worker
    <3> QED BY <2>1, <3>1
  <2>3. CASE v = w
    <3>1. Busy(v)' \subseteq Busy(v) \cup {g}
      BY <1>8, <2>3 DEF Busy, Worker
    <3>2. /\ IsFiniteSet(Busy(v) \cup {g})
          /\ Cardinality(Busy(v) \cup {g}) <= Cardinality(Busy(v)) + 1
      <4>1. /\ IsFiniteSet(Busy(v) \cup {g})
            /\ Cardinality(Busy(v) \cup {g}) =
                 IF g \in Busy(v) THEN Cardinality(Busy(v)) ELSE Cardinality(Busy(v)) + 1
        BY <2>1, FS_AddElement
      <4> HIDE DEF g
      <4> QED BY <2>1, <4>1
    <3>3. /\ IsFiniteSet(Busy(v)')
          /\ Cardinality(Busy(v)') <= Cardinality(Busy(v) \cup {g})
      BY <3>1, <3>2, FS_Subset
    <3>4. Cardinality(Busy(v)') \in Nat /\ Cardinality(Busy(v) \cup {g}) \in Nat
      BY <3>2, <3>3, FS_CardinalityType
    <3>5. Cardinality(Busy(v)) < MaxBroadcastWorkers
      BY <1>1, <2>3 DEF SlotFree
    <3> QED BY <2>1, <3>2, <3>3, <3>4, <3>5, DeliveryAssumption
  <2> QED BY <2>2, <2>3
<1>19. ShutdownInv'
  <2>1. ASSUME NEW d \in Client
        PROVE  /\ routine[<<"shutdown", d>>].pc = "mark" => routine'[<<"shutdown", d>>].pc = "mark"
               /\ routine[<<"shutdown", d>>].pc = "delete" =>
                    routine'[<<"shutdown", d>>].pc \in {"mark", "delete"}
               /\ d \in walk["shutdown"].slice =>
                    \/ d \in walk'["shutdown"].slice
                    \/ routine'[<<"shutdown", d>>].pc = "mark"
    <3>1. CASE w = "shutdown" /\ d = c
      BY <1>3, <1>6, <3>1
    <3>2. CASE w # "shutdown"
      BY <1>6, <1>8, <3>2, Kinds
    <3>3. CASE w = "shutdown" /\ d # c
      BY <1>5, <1>6, <1>8, <3>3, Kinds
    <3> QED BY <3>1, <3>2, <3>3
  <2>2. "shutdown" \in Walk /\ walk["shutdown"].slice \subseteq Client
    BY <1>7, Kinds
  <2>3. ShutdownIsComplete'
    BY <1>1, <1>2 DEF ShutdownInv, ShutdownIsComplete
  <2>4. shutdown' = "select" =>
          \A d \in due'["shutdown"] :
            \/ d \in walk'["shutdown"].slice
            \/ d \in Client /\ routine'[<<"shutdown", d>>].pc = "mark"
            \/ /\ d \in disconnect' /\ d \in Client
               /\ routine'[<<"shutdown", d>>].pc = "delete"
            \/ d \in disconnect' /\ d \notin clients'
    BY <1>1, <1>2, <2>1, <2>2 DEF ShutdownInv
  <2> QED BY <1>1, <1>2, <1>7, <2>2, <2>3, <2>4 DEF ShutdownInv
<1> QED BY <1>10, <1>11, <1>12, <1>13, <1>14, <1>15, <1>17, <1>18, <1>19 DEF DeliveryInv

\* The shutdown moves, its walk with it.
LEMMA ShutdownTurn ==
  ASSUME DeliveryInv, NEW new \in WalkRecord, walk' = [walk EXCEPT !["shutdown"] = new],
         DOMAIN due' = DOMAIN due,
         UNCHANGED <<clients, disconnect, closed, lock, routine>>,
         new.pc # "walk" =>
           new.slice = {} /\ \A c \in Client : routine[<<"shutdown", c>>].pc = "idle",
         pool' \subseteq {"shutdown"}, pool' # {} => new.pc = "walk",
         ShutdownInv'
  PROVE  DeliveryInv'
<1>0. /\ "shutdown" \in Walk /\ walk'["shutdown"] = new
      /\ \A v \in Walk \ {"shutdown"} : walk'[v] = walk[v]
      /\ \A c \in Client : c \in Walk \ {"shutdown"}
  BY Kinds DEF DeliveryInv, TypeInv
<1>1. TypeInv' /\ LockInv' /\ ClosedInv'
  BY <1>0, WalkAlone
<1>2. WorkerInv' /\ TimerInv' /\ BusyInv'
  <2>1. \A v \in Walk : Busy(v)' = Busy(v)
    BY DEF Busy
  <2> QED BY <2>1 DEF DeliveryInv, WorkerInv, TimerInv, TimerOK, BusyInv
<1>3. SessionInv'
  BY <1>0 DEF DeliveryInv, SessionInv
<1>4. WalkInv'
  BY <1>0 DEF DeliveryInv, WalkInv
<1> QED BY <1>1, <1>2, <1>3, <1>4 DEF DeliveryInv

\* A walk is over when its workers are.
LEMMA NobodyBusy ==
  ASSUME NEW w \in Walk, Busy(w) = {}
  PROVE  \A c \in Client : routine[<<w, c>>].pc = "idle"
  BY DEF Busy, Worker

\* A walk ends.
LEMMA WaitedStep ==
  ASSUME DeliveryInv, NEW w \in Walk, Waited(w)
  PROVE  DeliveryInv'
<1> DEFINE new == [Still EXCEPT !.pc = "end"]
<1>0. /\ TypeInv /\ LockInv /\ ClosedInv /\ SessionInv /\ WalkInv /\ ShutdownInv
      /\ walk[w].pc = "walk" /\ \A c \in Client : routine[<<w, c>>].pc = "idle"
      /\ walk' = [walk EXCEPT ![w] = new] /\ pool' = pool \ {w}
      /\ UNCHANGED <<clients, shuttingDown, disconnect, closed, lock, shutdown, due>>
  BY NobodyBusy DEF DeliveryInv, Waited
<1>1. new \in WalkRecord /\ new.pc = "end" /\ new.slice = {}
  BY DEF Still, WalkRecord, Filter
<1> HIDE DEF new
<1>2. CASE w = "shutdown"
  <2>1. walk[w].slice = {} /\ UNCHANGED routine /\ w \notin Client
    BY <1>2, Kinds DEF Waited, Skipped
  <2>2. walk'[w] = new /\ pool' = {}
    BY <1>0, <1>2 DEF TypeInv, WalkInv
  <2>3. ShutdownIsComplete'
    BY <1>0 DEF ShutdownInv, ShutdownIsComplete
  <2>4. shutdown' = "select" =>
          \A c \in due'["shutdown"] : c \in disconnect' /\ c \notin clients'
    BY <1>0, <1>2, <2>1 DEF ShutdownInv
  <2>5. ShutdownInv'
    BY <1>0, <1>1, <1>2, <2>2, <2>3, <2>4 DEF ShutdownInv
  <2> QED BY <1>0, <1>1, <1>2, <2>1, <2>2, <2>5, ShutdownTurn
<1>3. CASE w \in Message
  <2>1. w \notin Client /\ w # "shutdown" /\ UNCHANGED routine
    BY <1>3, Kinds DEF Waited
  <2>2. pool' = pool
    BY <1>0, <2>1 DEF WalkInv
  <2>3. TypeInv' /\ LockInv' /\ ClosedInv'
    BY <1>0, <1>1, <2>1, WalkAlone
  <2> QED BY <1>0, <1>1, <2>1, <2>2, <2>3, WalkTurn
<1>4. CASE w \in Client
  <2> DEFINE r == At("mark", w)
  <2>1. /\ w # "shutdown" /\ w \in Goroutine /\ routine[w] = Rest
        /\ routine' = [routine EXCEPT ![w] = r]
    BY <1>0, <1>4, Kinds DEF Waited, Do, At, SessionInv
  <2>2. pool' = pool
    BY <1>0, <2>1 DEF WalkInv
  <2>3. r \in Routine /\ r.pc = "mark" /\ r.to = w /\ ~r.fatal /\ routine[w].pc = "idle"
    BY <1>4, <2>1, RestFacts
  <2> HIDE DEF r
  <2>4. /\ walk' \in [Walk -> WalkRecord]
        /\ routine' \in [Goroutine -> Routine] /\ routine'[w] = r
        /\ \A h \in Goroutine \ {w} : routine'[h] = routine[h]
    BY <1>0, <1>1, <2>1, <2>3 DEF TypeInv, WalkRecord
  <2>5. \A h \in Goroutine :
          routine'[h].pc \in {"send", "write", "mark", "delete"} => routine'[h].to \in Client
    BY <1>0, <1>4, <2>3, <2>4 DEF TypeInv
  <2>6. TypeInv'
    BY <1>0, <2>4, <2>5 DEF TypeInv, WalkRecord
  <2>7. LockInv'
    BY <1>0, <2>3, <2>4, LockTurn
  <2>8. ClosedInv'
    BY <1>0 DEF ClosedInv
  <2> QED BY <1>0, <1>1, <1>4, <2>1, <2>2, <2>3, <2>4, <2>6, <2>7, <2>8, WalkTurn
<1> QED BY <1>2, <1>3, <1>4 DEF Walk

-----------------------------------------------------------------------------
(* The shutdown. *)

\* The shutdown begins.
LEMMA ShutdownStep ==
  ASSUME DeliveryInv, Shutdown
  PROVE  DeliveryInv'
<1>0. /\ ~shuttingDown /\ shuttingDown' /\ shutdown' = "snapshot"
      /\ UNCHANGED <<clients, disconnect, closed, lock, routine, walk, pool, due>>
      /\ TypeInv /\ WalkInv /\ ShutdownInv /\ "shutdown" \in Walk
  BY Kinds DEF Shutdown, DeliveryInv
<1> DEFINE new == walk["shutdown"]
<1>1. new \in WalkRecord /\ walk' = [walk EXCEPT !["shutdown"] = new]
  BY <1>0 DEF TypeInv, WalkRecord
<1>2. shutdown = "none"
  BY <1>0 DEF ShutdownInv
<1>3. ShutdownInv'
  BY <1>0, <1>2 DEF ShutdownInv, ShutdownIsComplete
<1>4. /\ new.pc # "walk" =>
           new.slice = {} /\ \A c \in Client : routine[<<"shutdown", c>>].pc = "idle"
      /\ pool' \subseteq {"shutdown"} /\ (pool' # {} => new.pc = "walk")
  BY <1>0 DEF WalkInv
<1> HIDE DEF new
<1> QED BY <1>0, <1>1, <1>3, <1>4, ShutdownTurn

\* Whom the shutdown is due to disconnect is all in the slice.
LEMMA ShutdownSnapshotStep ==
  ASSUME DeliveryInv, ShutdownSnapshot
  PROVE  DeliveryInv'
<1>0. /\ shutdown = "snapshot" /\ shutdown' = "select" /\ pool' = {}
      /\ walk' = [walk EXCEPT !["shutdown"] = GetClientSnapshot]
      /\ due' = [due EXCEPT !["shutdown"] = clients]
      /\ UNCHANGED <<clients, shuttingDown, disconnect, closed, lock, routine>>
      /\ TypeInv /\ ShutdownInv /\ "shutdown" \in Walk
  BY Kinds DEF ShutdownSnapshot, Pooled, DeliveryInv
<1>1. /\ GetClientSnapshot \in WalkRecord /\ GetClientSnapshot.pc = "walk"
      /\ GetClientSnapshot.slice = clients
  BY <1>0 DEF TypeInv, GetClientSnapshot, Still, WalkRecord, Filter
<1>2. walk'["shutdown"] = GetClientSnapshot /\ due'["shutdown"] = clients
  BY <1>0 DEF TypeInv
<1>3. ShutdownInv'
  BY <1>0, <1>1, <1>2 DEF ShutdownInv, ShutdownIsComplete
<1> QED BY <1>0, <1>1, <1>3, ShutdownTurn

\* Shutdown returns: all of the snapshot is done with, or the slice goes back
\* to the pool under the walk.
LEMMA ShutdownReturnsStep ==
  ASSUME DeliveryInv, ShutdownReturns
  PROVE  DeliveryInv'
<1>0. /\ shutdown = "select"
      /\ shutdown' = IF walk["shutdown"].pc = "end" THEN "done" ELSE "timeout"
      /\ pool' = IF walk["shutdown"].pc = "walk" THEN pool \cup {"shutdown"} ELSE pool
      /\ UNCHANGED <<clients, shuttingDown, disconnect, closed, lock, routine, walk, due>>
      /\ TypeInv /\ WalkInv /\ ShutdownInv /\ "shutdown" \in Walk
  BY Kinds DEF ShutdownReturns, PutSlice, DeliveryInv
<1> DEFINE new == walk["shutdown"]
<1>1. new \in WalkRecord /\ walk' = [walk EXCEPT !["shutdown"] = new]
  BY <1>0 DEF TypeInv, WalkRecord
<1>2. /\ new.pc # "walk" =>
           new.slice = {} /\ \A c \in Client : routine[<<"shutdown", c>>].pc = "idle"
      /\ pool' \subseteq {"shutdown"} /\ (pool' # {} => new.pc = "walk")
      /\ pool = {} /\ new.pc \in {"walk", "end"}
  BY <1>0 DEF WalkInv, ShutdownInv
<1>3. new.pc = "end" => \A c \in due["shutdown"] : c \in disconnect /\ c \notin clients
  BY <1>0, <1>2 DEF ShutdownInv
<1>4. ShutdownInv'
  BY <1>0, <1>2, <1>3 DEF ShutdownInv, ShutdownIsComplete
<1> HIDE DEF new
<1> QED BY <1>0, <1>1, <1>2, <1>4, ShutdownTurn

\* A request overwrites a slice that went back to the pool.
LEMMA OnlineStep ==
  ASSUME DeliveryInv, NEW h \in Web, getOnlineClient(h)
  PROVE  DeliveryInv'
<1>0. /\ TypeInv /\ WalkInv /\ ShutdownInv /\ "shutdown" \in Walk
      /\ UNCHANGED <<clients, shuttingDown, disconnect, closed, lock, routine, pool,
                     shutdown, due>>
  BY Kinds DEF DeliveryInv, getOnlineClient
<1>a. PICK w \in pool : \E slice \in Overwritten(w) : walk' = [walk EXCEPT ![w].slice = slice]
  BY DEF getOnlineClient
<1>1. PICK slice \in Overwritten(w) : walk' = [walk EXCEPT ![w].slice = slice]
  BY <1>a
<1>2. w = "shutdown" /\ walk[w].pc = "walk" /\ shutdown = "timeout" /\ walk[w] \in WalkRecord
  BY <1>0, <1>1 DEF WalkInv, ShutdownInv, TypeInv, WalkRecord
<1>3. slice \subseteq Client
  BY <1>0, <1>1, <1>2 DEF Overwritten, kSubset, TypeInv, WalkRecord
<1> DEFINE new == [walk[w] EXCEPT !.slice = slice]
<1>4. new \in WalkRecord /\ new.pc = "walk" /\ walk' = [walk EXCEPT !["shutdown"] = new]
  BY <1>1, <1>2, <1>3 DEF WalkRecord
<1> HIDE DEF new
<1>5. ShutdownInv'
  BY <1>0, <1>2 DEF ShutdownInv, ShutdownIsComplete
<1>6. pool' \subseteq {"shutdown"}
  BY <1>0 DEF WalkInv
<1> QED BY <1>0, <1>4, <1>5, <1>6, ShutdownTurn

-----------------------------------------------------------------------------
(* Commands and requests. *)

\* What every command and request leaves alone.
Kept == <<clients, disconnect, closed, lock, due, pool, shutdown, shuttingDown>>

\* The goroutine starts on a line, or there is nobody to write to.
LEMMA SendToStep ==
  ASSUME DeliveryInv, NEW g \in Client \cup Web, routine[g] = Rest,
         g \in Client => walk[g].pc = "idle",
         NEW to \in Client, NEW pc \in {"send", "mark"},
         routine' = Do(g, pc, to) \/ routine' = routine, UNCHANGED walk, UNCHANGED Kept
  PROVE  DeliveryInv'
<1>0. UNCHANGED <<clients, disconnect, closed, lock, due, walk, pool, shutdown, shuttingDown>>
  BY DEF Kept
<1>1. CASE routine' = Do(g, pc, to)
  <2>1. routine' = [routine EXCEPT ![g] = At(pc, to)]
    BY <1>1 DEF Do, At
  <2>2. At(pc, to) \in Routine /\ At(pc, to).pc = pc /\ At(pc, to).to = to
    BY RestFacts
  <2> QED BY <1>0, <2>1, <2>2, StartStep
<1>2. CASE routine' = routine
  BY <1>0, <1>2, SameStep
<1> QED BY <1>1, <1>2

\* A command ends with a broadcast, with a line or a disconnect of the
\* session itself, or with an error that ends the session.
LEMMA CommandKinds ==
  ASSUME NEW c \in Client, Command(c)
  PROVE  /\ routine[c] = Rest /\ walk[c].pc = "idle" /\ UNCHANGED Kept
         /\ \/ \E filter \in Filter : Go(c, filter)
            \/ /\ UNCHANGED walk
               /\ \E to \in Client, pc \in {"send", "mark"} :
                    routine' = Do(c, pc, to) \/ routine' = routine
            \/ /\ UNCHANGED walk
               /\ routine' = [Do(c, "send", c) EXCEPT ![c].fatal = TRUE]
<1> DEFINE Result == \/ \E filter \in Filter : Go(c, filter)
                     \/ /\ UNCHANGED walk
                        /\ \E to \in Client, pc \in {"send", "mark"} :
                             routine' = Do(c, pc, to) \/ routine' = routine
                     \/ /\ UNCHANGED walk
                        /\ routine' = [Do(c, "send", c) EXCEPT ![c].fatal = TRUE]
<1>1. routine[c] = Rest /\ walk[c].pc = "idle" /\ UNCHANGED Kept
  BY DEF Command, Reads, Request, Event, Kept
<1>2. {"range"} \in Filter /\ {"atc", "range"} \in Filter /\ {"sup"} \in Filter
  BY DEF Filter
<1>3. \A filter \in Filter : Go(c, filter) => Result
  OBVIOUS
<1>4. ASSUME NEW to \in Client, SendMessageTo(c, to) PROVE Result
  BY <1>4 DEF SendMessageTo
<1>5. ASSUME Reply(c) PROVE Result
  BY <1>5 DEF Reply
<1>6. ASSUME NEW to \in Client, routine' = Do(c, "mark", to), UNCHANGED walk PROVE Result
  BY <1>6
<1>7. ASSUME routine' = [Do(c, "send", c) EXCEPT ![c].fatal = TRUE], UNCHANGED walk
      PROVE  Result
  BY <1>7
<1> HIDE DEF Result
<1>8. ASSUME NEW to, sendFrequencyMessage(c, to) PROVE Result
  BY <1>2, <1>3, <1>5, <1>8 DEF sendFrequencyMessage
<1>9. ASSUME NEW to \in Station,
             \/ handleMessage(c, to) \/ handleClientQuery(c, to)
             \/ handleClientResponse(c, to) \/ handleRequest(c, to)
      PROVE  Result
  BY <1>2, <1>3, <1>4, <1>5, <1>8, <1>9
     DEF handleMessage, handleClientQuery, handleClientResponse, handleRequest
<1>10. ASSUME NEW to \in Station, handleSquawkBox(c, to) \/ handleKillClient(c, to)
       PROVE  Result
  BY <1>4, <1>5, <1>6, <1>10 DEF handleSquawkBox, handleKillClient
<1>11. ASSUME handlePilotPosUpdate(c) \/ handleAtcPosUpdate(c) \/ SendMotd(c) PROVE Result
  BY <1>2, <1>3, <1>5, <1>7, <1>11 DEF handlePilotPosUpdate, handleAtcPosUpdate, SendMotd
<1>12. Result
  BY <1>9, <1>10, <1>11 DEF Command
<1> QED BY <1>1, <1>12 DEF Result

\* A session handles a command.
LEMMA CommandStep ==
  ASSUME DeliveryInv, NEW c \in Client, Command(c)
  PROVE  DeliveryInv'
<1>0. routine[c] = Rest /\ walk[c].pc = "idle" /\ UNCHANGED Kept
  BY CommandKinds
<1>1. CASE \E filter \in Filter : Go(c, filter)
  <2>1. UNCHANGED <<clients, disconnect, closed, lock, due, pool, shutdown, shuttingDown>>
    BY <1>0 DEF Kept
  <2> QED BY <1>1, <2>1, GoStep
<1>2. CASE /\ UNCHANGED walk
           /\ \E to \in Client, pc \in {"send", "mark"} :
                routine' = Do(c, pc, to) \/ routine' = routine
  BY <1>0, <1>2, SendToStep
<1>3. CASE UNCHANGED walk /\ routine' = [Do(c, "send", c) EXCEPT ![c].fatal = TRUE]
  <2> DEFINE new == [At("send", c) EXCEPT !.fatal = TRUE]
  <2>1. routine \in [Goroutine -> Routine] /\ c \in Goroutine
    BY Kinds DEF DeliveryInv, TypeInv
  <2>2. routine' = [routine EXCEPT ![c] = new]
    BY <1>3, <2>1 DEF Do, At
  <2>3. new \in Routine /\ new.pc = "send" /\ new.to = c
    BY DEF At, Rest, Routine
  <2> HIDE DEF new
  <2>4. UNCHANGED <<clients, disconnect, closed, lock, due, walk, pool, shutdown, shuttingDown>>
    BY <1>0, <1>3 DEF Kept
  <2> QED BY <1>0, <2>2, <2>3, <2>4, StartStep
<1> QED BY <1>1, <1>2, <1>3, CommandKinds

\* A request of the web server for one client.
LEMMA WebStep ==
  ASSUME DeliveryInv, NEW h \in Web, SendMessageToClient(h) \/ KillClient(h)
  PROVE  DeliveryInv'
<1>0. /\ routine[h] = Rest /\ h \notin Client /\ UNCHANGED Kept /\ UNCHANGED walk
      /\ GetClient \subseteq Client
  BY DeliveryAssumption
     DEF SendMessageToClient, KillClient, Request, Event, Kept, SendRawMessageTo,
         SendMessageTo, GetClient, DeliveryInv, TypeInv
<1>1. \E to \in Client, pc \in {"send", "mark"} : routine' = Do(h, pc, to) \/ routine' = routine
  <2>1. CASE SendMessageToClient(h)
    BY <2>1 DEF SendMessageToClient, SendRawMessageTo, SendMessageTo
  <2>2. CASE KillClient(h)
    BY <1>0, <2>2 DEF KillClient
  <2> QED BY <2>1, <2>2
<1> QED BY <1>0, <1>1, SendToStep

-----------------------------------------------------------------------------
(* The invariant, and what follows from it. *)

\* Nobody does anything yet; some have left before.
LEMMA DeliveryInit ==
  ASSUME Init
  PROVE  DeliveryInv
<1> DEFINE Left == [Still EXCEPT !.pc = "end"]
<1>0. /\ Rest \in Routine /\ Rest.pc = "idle" /\ ~Rest.fatal
      /\ Still \in WalkRecord /\ Still.pc = "idle" /\ Still.slice = {}
      /\ Left \in WalkRecord /\ Left.pc = "end" /\ Left.slice = {}
  BY RestFacts DEF Still, WalkRecord, Filter
<1> HIDE DEF Left
<1>1. /\ \A g \in Goroutine : routine[g] = Rest
      /\ \A w \in Walk : walk[w] \in {Still, Left}
      /\ \A w \in Walk \ Client : walk[w] = Still
      /\ \A c \in Client : lock[c].readers = {} /\ lock[c].waiting = {}
  BY DEF Init, Left
<1>2. TypeInv
  <2>1. walk \in [Walk -> WalkRecord]
    BY <1>0, <1>1 DEF Init
  <2>2. clients \subseteq Client /\ disconnect \subseteq Client
    BY DeliveryAssumption DEF Init
  <2> QED BY <1>0, <1>1, <2>1, <2>2 DEF Init, TypeInv, WalkRecord
<1>3. LockInv /\ ClosedInv
  BY <1>0, <1>1, DeliveryAssumption DEF LockInv, ClosedInv, Init
<1>4. WorkerInv /\ TimerInv /\ SessionInv
  BY <1>0, <1>1, Kinds DEF WorkerInv, WorkerOK, TimerInv, TimerOK, SessionInv
<1>5. WalkInv
  BY <1>0, <1>1, Kinds DEF WalkInv, Init
<1>6. BusyInv
  <2>1. \A w \in Walk : Busy(w) = {}
    BY <1>0, <1>1, Kinds DEF Busy, Worker
  <2>2. IsFiniteSet({}) /\ Cardinality({}) = 0 /\ 0 <= MaxBroadcastWorkers
    BY FS_EmptySet, DeliveryAssumption
  <2> QED BY <2>1, <2>2, Zenon DEF BusyInv
<1>7. ShutdownInv
  BY <1>0, <1>1, Kinds DEF ShutdownInv, ShutdownIsComplete, Init
<1> QED BY <1>2, <1>3, <1>4, <1>5, <1>6, <1>7 DEF DeliveryInv

\* Every step of the program preserves the invariant.
LEMMA DeliveryStep ==
  ASSUME DeliveryInv, [Next]_vars
  PROVE  DeliveryInv'
<1>1. ASSUME NEW g \in Goroutine, Step(g) \/ Write(g)
      PROVE  DeliveryInv'
  BY <1>1, SendLineStep, AnnounceStep, MarkStep, DeleteStep, WriteStep DEF Step
<1>2. ASSUME NEW w \in Walk, Visit(w) \/ Waited(w)
      PROVE  DeliveryInv'
  BY <1>2, VisitStep, WaitedStep
<1>3. ASSUME NEW m \in Message, BroadcastBegins(m)
      PROVE  DeliveryInv'
  BY <1>3, BeginsStep
<1>4. ASSUME NEW c \in Client, Fatal(c) \/ HandleConnectionEnd(c) \/ Command(c)
      PROVE  DeliveryInv'
  BY <1>4, FatalStep, ConnectionEndStep, CommandStep
<1>5. ASSUME NEW c \in Client, PeerGone(c)
      PROVE  DeliveryInv'
  BY <1>5, SameStep DEF PeerGone
<1>6. ASSUME NEW h \in Web, SendMessageToClient(h) \/ KillClient(h) \/ getOnlineClient(h)
      PROVE  DeliveryInv'
  BY <1>6, WebStep, OnlineStep
<1>7. CASE Shutdown \/ ShutdownSnapshot \/ ShutdownReturns
  BY <1>7, ShutdownStep, ShutdownSnapshotStep, ShutdownReturnsStep
<1>8. CASE UNCHANGED vars
  BY <1>8, SameStep DEF vars
<1> QED BY <1>1, <1>2, <1>3, <1>4, <1>5, <1>6, <1>7, <1>8 DEF Next, Progress, StalledWrite, Running

\* Goroutines, locks, walks and the shutdown agree with one another, for any
\* number of clients, broadcasts, requests and workers.
THEOREM DeliveryInvariant == Spec => []DeliveryInv
<1>1. Init => DeliveryInv
  BY DeliveryInit
<1>2. DeliveryInv /\ [Next]_vars => DeliveryInv'
  BY DeliveryStep
<1> QED BY <1>1, <1>2, PTL DEF Spec

\* Locks are held by goroutines that use the client, walks stay within the
\* clients, and no walk has more workers than MaxBroadcastWorkers.
THEOREM DeliveryTyped == Spec => []TypeOK
<1>1. DeliveryInv => TypeOK
  <2> SUFFICES ASSUME DeliveryInv PROVE TypeOK
    OBVIOUS
  <2>1. disconnect \subseteq Client /\ clients \subseteq Client /\ pool \subseteq Walk
    BY Kinds DEF DeliveryInv, TypeInv, WalkInv
  <2>2. \A c \in Client : /\ \A g \in lock[c].readers : routine[g].to = c
                          /\ \A g \in lock[c].waiting : routine[g].to = c
    BY DEF DeliveryInv, LockInv
  <2>3. \A w \in Walk : walk[w].slice \subseteq Client
    BY DEF DeliveryInv, TypeInv
  <2>4. \A w \in Walk : Cardinality(Busy(w)) <= MaxBroadcastWorkers
    BY DEF DeliveryInv, BusyInv
  <2> QED BY <2>1, <2>2, <2>3, <2>4 DEF TypeOK
<1> QED BY <1>1, DeliveryInvariant, PTL

\* No line is being written to a connection that the server has closed: who
\* writes holds the lock for reading, and who closes has waited for the
\* readers (SendLine, MarkedDisconnect).
THEOREM ClosedStaysQuiet == Spec => []ClosedIsQuiet
<1>1. DeliveryInv => ClosedIsQuiet
  BY DEF DeliveryInv, LockInv, ClosedInv, ClosedIsQuiet
<1> QED BY <1>1, DeliveryInvariant, PTL

\* When Shutdown returns without an error, all of its snapshot is disconnected
\* and out of the table (Shutdown, disconnectClients).
THEOREM ShutdownCompletes == Spec => []ShutdownIsComplete
<1>1. DeliveryInv => ShutdownIsComplete
  BY DEF DeliveryInv, ShutdownInv
<1> QED BY <1>1, DeliveryInvariant, PTL
=============================================================================
