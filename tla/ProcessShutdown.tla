--------------------------- MODULE ProcessShutdown ---------------------------
(***************************************************************************)
(* The start and the end of the process.  main starts the parts of the     *)
(* program, each of which leaves a callback with the Cleaner.  An          *)
(* interrupt, or main returning early, runs Clean: the callbacks in        *)
(* reverse, then the logger.  Both can happen, so two goroutines can run   *)
(* Clean side by side.                                                     *)
(*                                                                         *)
(* The logger is a channel that a worker empties; a line sent after the    *)
(* channel was closed panics.  A panic ends the process, unless it is main *)
(* that panics: then main's deferred Clean runs, and a panic in there is   *)
(* recovered and main returns.                                             *)
(*                                                                         *)
(* Lines are counted, not kept.  Lines of level Debug are not sent at the  *)
(* default level and are left out; lines that follow each other are one.   *)
(* How the clients are disconnected is in Delivery; here Shutdown of the   *)
(* client manager succeeds, or fails after its five seconds.               *)
(***************************************************************************)
EXTENDS Naturals, Sequences, Functions

CONSTANTS Capacity,     \* lines the log channel holds
          HttpEnabled,  \* config.Server.HttpServer.Enabled
          MaxLines      \* bound: lines logged by the sessions and by Accept

ASSUME ProcessAssumption ==
  /\ Capacity \in Nat \ {0} /\ MaxLines \in Nat /\ HttpEnabled \in BOOLEAN

VARIABLES
  over,        \* how the process ended, or "no"
  pc,          \* main, the goroutine of the signal, the HTTP server
  cleaners,    \* Cleaner.cleaners
  cleaning,    \* Cleaner.cleaning
  todo,        \* Clean: callbacks not invoked yet, the next one last
  errs,        \* Clean: a callback has failed
  stopping,    \* FsdCloseCallback.Invoke: its goroutine that calls Shutdown
  shuttingDown, \* ClientManager.shuttingDown
  told,        \* history: callbacks whose Invoke has returned
  dbClosed,
  writer,      \* the log file could be opened
  queued,      \* lines in the channel
  writing,     \* the worker writes a line
  closed,      \* the channel is closed
  lines        \* lines the sessions and the loop of Accept have logged

cleanVars == <<cleaners, cleaning, todo, errs, stopping, shuttingDown, told, dbClosed>>
vars == <<over, pc, cleanVars, writer, queued, writing, closed, lines>>

Cleaning == {"main", "signal"}

Init ==
  /\ over = "no"
  /\ pc = [p \in {"main", "signal", "http"} |-> IF p = "main" THEN "init" ELSE "idle"]
  /\ cleaners = <<>> /\ cleaning = FALSE
  /\ todo = [p \in Cleaning |-> <<>>]
  /\ errs = [p \in Cleaning |-> FALSE]
  /\ stopping = [p \in Cleaning |-> "none"]
  /\ shuttingDown = FALSE
  /\ told = {} /\ dbClosed = FALSE
  /\ writer \in BOOLEAN
  /\ queued = 0 /\ writing = FALSE /\ closed = FALSE
  /\ lines = 0

-----------------------------------------------------------------------------
(* The logger. *)

Goto(p, label) == pc' = [pc EXCEPT ![p] = label]

\* The deferred Clean runs before main's recover; other goroutines have none.
Panic(p) ==
  IF p # "main" THEN over' = "crash" /\ UNCHANGED pc
  ELSE IF pc[p] \in {"config", "rating", "database", "listen", "serve"}
  THEN Goto(p, "copy") /\ UNCHANGED over
  ELSE over' = "return" /\ UNCHANGED pc

\* The line is sent when the channel has room, and p goes on at label.
Log(p, label) ==
  /\ \/ closed /\ Panic(p) /\ UNCHANGED queued
     \/ /\ ~closed /\ queued < Capacity
        /\ queued' = queued + 1
        /\ Goto(p, label)
        /\ UNCHANGED over
  /\ UNCHANGED <<writer, writing, closed>>

Quiet == UNCHANGED <<over, writer, queued, writing, closed>>

startWorker ==
  /\ \/ /\ ~writing /\ queued > 0
        /\ queued' = queued - 1 /\ writing' = TRUE
        /\ UNCHANGED over
     \/ /\ writing
        /\ writing' = FALSE
        /\ over' = IF writer THEN over ELSE "crash"
        /\ UNCHANGED queued
  /\ UNCHANGED <<pc, cleanVars, writer, closed, lines>>

\* A session logs; its goroutine has no recover.
SessionLogs ==
  /\ pc["main"] = "serve" /\ lines < MaxLines
  /\ lines' = lines + 1
  /\ \/ closed /\ over' = "crash" /\ UNCHANGED queued
     \/ ~closed /\ queued < Capacity /\ queued' = queued + 1 /\ UNCHANGED over
  /\ UNCHANGED <<pc, cleanVars, writer, writing, closed>>

-----------------------------------------------------------------------------
(* The start. *)

\* Variant: only the last callback is kept.
AddOverwrites(callable) == cleaners' = <<callable>>

Add(callable) == cleaners' = IF cleaning THEN cleaners ELSE Append(cleaners, callable)

\* p adds its callback and goes on at label.
Adds(p, callable, label) ==
  /\ Add(callable)
  /\ Goto(p, label)
  /\ UNCHANGED <<cleaning, todo, errs, stopping, shuttingDown, told, dbClosed, lines>>
  /\ Quiet

\* A step without effect on the Cleaner.
Plain(p, label) == Goto(p, label) /\ Quiet /\ UNCHANGED <<cleanVars, lines>>
Says(p, label) == Log(p, label) /\ UNCHANGED <<cleanVars, lines>>

\* A configuration that cannot be read or is not valid panics, after a line.
getConfig == Plain("main", "rating") \/ Says("main", "copy")

ConnectDatabase == \E label \in {"addDatabase", "copy"} : Says("main", label)

\* Configuration, ratings and database can fail; main then returns, or panics,
\* after a line on the error, and its deferred Clean runs.
main ==
  LET at == pc["main"] IN
  \/ at = "init" /\ Says("main", "config")
  \/ at = "config" /\ getConfig
  \/ at = "rating" /\ (Plain("main", "database") \/ Says("main", "copy"))
  \/ at = "database" /\ ConnectDatabase
  \/ at = "addDatabase" /\ Adds("main", "database", "http")
  \/ /\ at = "http"
     /\ pc' = [pc EXCEPT !["main"] = "listen",
                         !["http"] = IF HttpEnabled THEN "setup" ELSE "idle"]
     /\ Quiet /\ UNCHANGED <<cleanVars, lines>>

\* A connection that cannot be accepted is logged, and main goes on.
AcceptFails ==
  /\ pc["main"] = "serve" /\ lines < MaxLines
  /\ lines' = lines + 1
  /\ Log("main", "serve")
  /\ UNCHANGED cleanVars

StartFSDServer ==
  LET at == pc["main"] IN
  \/ at = "listen" /\ \E label \in {"addFsd", "copy"} : Says("main", label)
  \/ at = "addFsd" /\ Adds("main", "fsd", "serve")
  \/ AcceptFails

\* Settings that are not valid are replaced, after lines that say so.
SetUpHttp == Plain("http", "add") \/ Says("http", "add")

HttpStopped == "http" \in told \/ \E p \in Cleaning : pc[p] = "closeHttp"

\* The server ends with an error, or without a word once it is stopped.
StartHttpServer ==
  LET at == pc["http"] IN
  \/ at = "setup" /\ SetUpHttp
  \/ at = "add" /\ Adds("http", "http", "start")
  \/ at = "start" /\ Says("http", "serve")
  \/ at = "serve" /\ Says("http", "end")
  \/ at = "serve" /\ HttpStopped /\ Plain("http", "end")

-----------------------------------------------------------------------------
(* The end. *)

\* Cleaner.Init: once main has installed the handler, the first interrupt
\* starts Clean and the next one ends the process.
Interrupt ==
  \/ pc["main"] # "init" /\ pc["signal"] = "idle" /\ Plain("signal", "interrupted")
  \/ /\ pc["signal"] \notin {"idle", "interrupted"}
     /\ over' = "killed"
     /\ UNCHANGED <<pc, cleanVars, writer, queued, writing, closed, lines>>

\* Variant: a Clean that finds another under way leaves the callbacks to it.
CopyOnce(p) ==
  /\ pc[p] = "copy"
  /\ cleaning' = TRUE
  /\ todo' = [todo EXCEPT ![p] = IF cleaning THEN <<>> ELSE cleaners]
  /\ Goto(p, "walk")
  /\ Quiet /\ UNCHANGED <<cleaners, errs, stopping, shuttingDown, told, dbClosed, lines>>

Copy(p) ==
  /\ pc[p] = "copy"
  /\ cleaning' = TRUE
  /\ todo' = [todo EXCEPT ![p] = cleaners]
  /\ Goto(p, "walk")
  /\ Quiet /\ UNCHANGED <<cleaners, errs, stopping, shuttingDown, told, dbClosed, lines>>

\* Variant: the callbacks are invoked in the order they were added in.
CallbackForEach(p) == Head(todo[p])

\* ReverseForEach
Callback(p) == todo[p][Len(todo[p])]

\* An Invoke has returned; an error is logged before the next callback.
Return(p, callback, ok) ==
  /\ told' = told \cup {callback}
  /\ todo' = [todo EXCEPT ![p] = SubSeq(@, 1, Len(@) - 1)]
  /\ errs' = [errs EXCEPT ![p] = @ \/ ~ok]
  /\ Goto(p, IF ok THEN "walk" ELSE "failed")
  /\ Quiet /\ UNCHANGED <<cleaners, cleaning, lines>>

Walk(p) ==
  /\ pc[p] = "walk"
  /\ \/ todo[p] = <<>> /\ Plain(p, IF errs[p] THEN "errors" ELSE "finish")
     \/ /\ todo[p] # <<>>
        /\ \/ Callback(p) = "database" /\ Says(p, "closeDatabase")
           \/ Callback(p) = "http" /\ Plain(p, "closeHttp")
           \/ Callback(p) = "fsd" /\ Plain(p, "closeFsd")

\* DBCloseCallback
CloseDatabase(p) ==
  /\ pc[p] = "closeDatabase"
  /\ dbClosed' = TRUE
  /\ \E ok \in BOOLEAN : Return(p, "database", ok)
  /\ UNCHANGED <<stopping, shuttingDown>>

\* HttpServerShutdownCallback: requests end in time or not.
CloseHttp(p) ==
  /\ pc[p] = "closeHttp"
  /\ \E ok \in BOOLEAN : Return(p, "http", ok)
  /\ UNCHANGED <<stopping, shuttingDown, dbClosed>>

\* FsdCloseCallback: Shutdown runs in a goroutine of its own, which reports
\* success only.
CloseFsd(p) ==
  /\ pc[p] = "closeFsd" /\ stopping[p] = "none"
  /\ stopping' = [stopping EXCEPT ![p] = IF shuttingDown THEN "failed" ELSE "running"]
  /\ shuttingDown' = TRUE
  /\ Quiet /\ UNCHANGED <<pc, cleaners, cleaning, todo, errs, told, dbClosed, lines>>

Shutdown(p) ==
  /\ stopping[p] = "running"
  /\ \E end \in {"done", "failed"} : stopping' = [stopping EXCEPT ![p] = end]
  /\ Quiet /\ UNCHANGED <<pc, cleaners, cleaning, todo, errs, shuttingDown, told, dbClosed, lines>>

\* Variant: nothing but the success of Shutdown is waited for.
SelectDone(p) ==
  /\ pc[p] = "closeFsd" /\ stopping[p] = "done"
  /\ Return(p, "fsd", TRUE)
  /\ UNCHANGED <<stopping, shuttingDown, dbClosed>>

\* done, or the ten seconds are over; Shutdown returns within five.
Select(p) ==
  /\ pc[p] = "closeFsd" /\ stopping[p] \in {"done", "failed"}
  /\ Return(p, "fsd", stopping[p] = "done")
  /\ UNCHANGED <<stopping, shuttingDown, dbClosed>>

\* The second close of the channel panics.
Close(p) ==
  /\ pc[p] = "close"
  /\ \/ closed /\ Panic(p) /\ UNCHANGED closed
     \/ ~closed /\ closed' = TRUE /\ Goto(p, "wait") /\ UNCHANGED over
  /\ UNCHANGED <<cleanVars, writer, queued, writing, lines>>

\* The worker has returned, with the channel empty.
Exit(p) ==
  /\ pc[p] = "wait" /\ queued = 0 /\ ~writing
  /\ over' = "exit"
  /\ UNCHANGED <<pc, cleanVars, writer, queued, writing, closed, lines>>

Clean(p) ==
  \/ pc[p] = "interrupted" /\ Says(p, "copy")
  \/ Copy(p) \/ Walk(p)
  \/ CloseDatabase(p) \/ CloseHttp(p) \/ CloseFsd(p) \/ Select(p)
  \/ pc[p] = "failed" /\ Says(p, "walk")
  \/ pc[p] = "errors" /\ Says(p, "finish")
  \/ pc[p] = "finish" /\ Says(p, "close")
  \/ Close(p) \/ Exit(p)

Running == over = "no"

Next ==
  \/ Running /\ main
  \/ Running /\ StartFSDServer
  \/ Running /\ StartHttpServer
  \/ Running /\ startWorker
  \/ Running /\ SessionLogs
  \/ Running /\ Interrupt
  \/ \E p \in Cleaning : Running /\ Clean(p)
  \/ \E p \in Cleaning : Running /\ Shutdown(p)

\* The goroutines of the runtime run on; a sender that waits for room in the
\* channel is served in turn.
Fairness ==
  /\ WF_vars(Running /\ startWorker)
  /\ \A p \in Cleaning : SF_vars(Running /\ Clean(p)) /\ WF_vars(Running /\ Shutdown(p))

Spec == Init /\ [][Next]_vars /\ Fairness

-----------------------------------------------------------------------------
(* Properties. *)

\* The channel keeps within its capacity, and each callback is registered once.
TypeOK ==
  /\ over \in {"no", "exit", "crash", "return", "killed"}
  /\ queued \in 0..Capacity /\ lines \in 0..MaxLines
  /\ Range(cleaners) \subseteq {"database", "http", "fsd"} /\ IsInjective(cleaners)
  /\ told \subseteq Range(cleaners)

\* However the process ends - by the exit of Clean, by a panic of whoever logs
\* to a channel that one Clean has closed, or closes it again - every callback
\* that registered has returned before: of two Cleans the faster does not cut
\* short what the slower has yet to do.  Only a second interrupt and a log
\* file that cannot be opened end the process earlier (Cleaner.Clean,
\* AsyncHandler.Close).
EndsCleaned ==
  over \in {"exit", "crash", "return"} /\ writer => Range(cleaners) \subseteq told

\* The database is closed after every server that registered was told to stop:
\* nothing is registered behind the back of a Clean under way, and of two
\* Cleans neither overtakes the other (Cleaner.Add, Cleaner.Clean).
DatabaseClosesLast == dbClosed => Range(cleaners) \ {"database"} \subseteq told

\* An interrupt ends the process, whatever fails on the way: a Shutdown that
\* fails, or a second one, reports nothing to its Invoke (FsdCloseCallback).
InterruptEnds == pc["signal"] # "idle" ~> ~Running
=============================================================================
