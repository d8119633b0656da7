------------------------ MODULE ProcessShutdownProofs ------------------------
(***************************************************************************)
(* The end of the process, for any capacity of the log channel and any     *)
(* number of lines.                                                        *)
(*                                                                         *)
(* Two goroutines can walk through the callbacks at once, each with a copy *)
(* of the list of its own.  The inductive invariant says that nothing is   *)
(* added once one of them has its copy (CleaningOK), and that whatever a   *)
(* walk has passed by was told to stop (WalkOK).  The channel of the       *)
(* logger is closed after a whole walk only, so a panic on it, like the    *)
(* exit, comes when everybody was told (EndInv).                           *)
(***************************************************************************)
EXTENDS ProcessShutdown, SequenceTheorems, TLAPS

Callable == {"database", "http", "fsd"}

\* main before it has added a callback.
Early == {"init", "config", "rating", "database", "addDatabase"}
\* Clean inside a callback, and Clean with its copy of the list.
Closing == {"closeDatabase", "closeHttp", "closeFsd"}
Past == Closing \cup {"walk", "failed", "errors", "finish", "close", "wait"}
\* Clean after its walk.
Done == {"errors", "finish", "close", "wait"}

PcOK ==
  /\ DOMAIN pc = {"main", "signal", "http"}
  /\ pc["main"] \in Early \cup {"http", "listen", "addFsd", "serve", "copy"} \cup Past
  /\ pc["signal"] \in {"idle", "interrupted", "copy"} \cup Past
  /\ pc["http"] \in {"idle", "setup", "add", "start", "serve", "end"}

\* Each part adds its callback once, the database before the servers.
CleanersOK ==
  /\ cleaners \in Seq(Callable)
  /\ \A i, j \in 1..Len(cleaners) : cleaners[i] = cleaners[j] => i = j
  /\ \A i \in 1..Len(cleaners) : cleaners[i] = "database" => i = 1
  /\ pc["main"] \in Early => Len(cleaners) = 0
  /\ pc["main"] \in Early \cup {"http"} => pc["http"] = "idle"
  /\ pc["main"] \in Early \cup {"http", "listen", "addFsd"} =>
       \A i \in 1..Len(cleaners) : cleaners[i] # "fsd"
  /\ pc["http"] \in {"idle", "setup", "add"} =>
       \A i \in 1..Len(cleaners) : cleaners[i] # "http"

\* Nothing is told to stop before the list is frozen.
CleaningOK ==
  ~cleaning => told = {} /\ ~dbClosed /\ \A p \in Cleaning : pc[p] \notin Past

ToldOK ==
  /\ \A x \in told : \E i \in 1..Len(cleaners) : cleaners[i] = x
  /\ dbClosed => \A i \in 1..Len(cleaners) : cleaners[i] # "database" => cleaners[i] \in told

\* p walks down the list of the Cleaner, and has told the rest of it.
WalkOK(p) ==
  pc[p] \in Past =>
    /\ todo[p] \in Seq(Callable)
    /\ Len(todo[p]) <= Len(cleaners)
    /\ \A i \in 1..Len(todo[p]) : todo[p][i] = cleaners[i]
    /\ \A i \in (Len(todo[p]) + 1)..Len(cleaners) : cleaners[i] \in told
    /\ pc[p] \in Closing => Len(todo[p]) > 0
    /\ pc[p] \in Done => Len(todo[p]) = 0
    /\ pc[p] = "closeDatabase" => cleaners[Len(todo[p])] = "database"
    /\ pc[p] = "closeHttp" => cleaners[Len(todo[p])] = "http"
    /\ pc[p] = "closeFsd" => cleaners[Len(todo[p])] = "fsd"

CleanInv ==
  /\ DOMAIN todo = Cleaning
  /\ PcOK /\ CleanersOK /\ CleaningOK /\ ToldOK
  /\ \A p \in Cleaning : WalkOK(p)

LogInv ==
  /\ over \in {"no", "exit", "crash", "return", "killed"}
  /\ queued \in 0..Capacity /\ lines \in 0..MaxLines

\* Everybody on the list was told to stop.
AllTold == \A i \in 1..Len(cleaners) : cleaners[i] \in told

EndInv ==
  /\ closed => cleaning /\ AllTold
  /\ over \in {"exit", "crash", "return"} /\ writer => AllTold

ShutdownInv == CleanInv /\ LogInv /\ EndInv

-----------------------------------------------------------------------------
(* The log. *)

\* A line is sent or panics: either way the channel keeps within its capacity.
LEMMA LogKeeps ==
  ASSUME LogInv, Running, NEW p, NEW label, Log(p, label), lines' \in 0..MaxLines
  PROVE  LogInv'
<1>1. over' \in {"no", "crash", "return"}
  BY DEF Log, Panic, Running, Goto
<1>2. queued' \in 0..Capacity
  BY ProcessAssumption DEF LogInv, Log
<1> QED BY <1>1, <1>2 DEF LogInv

\* Other steps leave the channel alone.
LEMMA QuietKeeps ==
  ASSUME LogInv, Quiet, UNCHANGED lines
  PROVE  LogInv'
  BY DEF LogInv, Quiet

\* The start of the process.
LEMMA StartLog ==
  ASSUME LogInv, Running, main \/ StartFSDServer \/ StartHttpServer
  PROVE  LogInv'
<1>1. \/ Quiet /\ UNCHANGED lines
      \/ \E p, label : Log(p, label) /\ UNCHANGED lines
      \/ AcceptFails
  <2>1. CASE main
    BY <2>1, Zenon DEF main, Says, Plain, Adds, getConfig, ConnectDatabase
  <2>2. CASE StartFSDServer
    BY <2>2, Zenon DEF StartFSDServer, Says, Adds
  <2>3. CASE StartHttpServer
    BY <2>3, Zenon DEF StartHttpServer, SetUpHttp, Says, Plain, Adds
  <2> QED BY <2>1, <2>2, <2>3
<1>2. CASE AcceptFails
  <2>1. Log("main", "serve") /\ lines' \in 0..MaxLines
    BY <1>2, ProcessAssumption DEF AcceptFails, LogInv
  <2> QED BY <2>1, LogKeeps
<1>3. UNCHANGED lines => lines' \in 0..MaxLines
  BY DEF LogInv
<1> QED BY <1>1, <1>2, <1>3, LogKeeps, QuietKeeps

\* Clean.
LEMMA CleanLog ==
  ASSUME LogInv, Running, NEW p \in Cleaning, Clean(p) \/ Shutdown(p)
  PROVE  LogInv'
<1>1. CASE Close(p)
  <2>1. over' \in {"no", "crash", "return"} /\ UNCHANGED <<queued, writing, lines>>
    BY <1>1 DEF Close, Panic, Running, Goto
  <2> QED BY <2>1 DEF LogInv
<1>2. CASE Exit(p)
  BY <1>2 DEF Exit, LogInv
<1>3. CASE ~Close(p) /\ ~Exit(p)
  <2>1. \/ Quiet /\ UNCHANGED lines
        \/ \E label : Log(p, label) /\ UNCHANGED lines
    BY <1>3, Zenon DEF Clean, Copy, Walk, CloseDatabase, CloseHttp, CloseFsd, Select,
       Shutdown, Return, Says, Plain
  <2>2. UNCHANGED lines => lines' \in 0..MaxLines
    BY DEF LogInv
  <2> QED BY <2>1, <2>2, LogKeeps, QuietKeeps
<1> QED BY <1>1, <1>2, <1>3

\* The log keeps within its bounds.
LEMMA LogStep ==
  ASSUME LogInv, [Next]_vars
  PROVE  LogInv'
<1>1. CASE Running /\ startWorker
  <2>1. over' \in {"no", "crash"} /\ queued' \in 0..Capacity /\ UNCHANGED lines
    BY <1>1, ProcessAssumption DEF startWorker, LogInv, Running
  <2> QED BY <2>1 DEF LogInv
<1>2. CASE Running /\ SessionLogs
  <2>1. /\ over' \in {"no", "crash"} /\ queued' \in 0..Capacity
        /\ lines' \in 0..MaxLines
    BY <1>2, ProcessAssumption DEF SessionLogs, LogInv, Running
  <2> QED BY <2>1 DEF LogInv
<1>3. CASE Running /\ Interrupt
  <2>1. CASE Quiet /\ UNCHANGED lines
    BY <2>1, QuietKeeps
  <2>2. CASE over' = "killed" /\ UNCHANGED <<queued, lines>>
    BY <2>2 DEF LogInv
  <2> QED BY <1>3, <2>1, <2>2 DEF Interrupt, Plain
<1>4. CASE UNCHANGED vars
  BY <1>4 DEF vars, LogInv
<1> QED BY <1>1, <1>2, <1>3, <1>4, StartLog, CleanLog DEF Next

-----------------------------------------------------------------------------
(* The list of callbacks. *)

\* The moves between control points that nothing else depends on.
CanMove(p, label) ==
  \/ p = "main" /\ pc[p] \in Early /\ label \in Early \cup {"copy"}
  \/ p = "main" /\ pc[p] = "listen" /\ label \in {"addFsd", "copy"}
  \/ p = "main" /\ pc[p] = "serve" /\ label \in {"serve", "copy"}
  \/ p = "http" /\ pc[p] = "setup" /\ label = "add"
  \/ p = "http" /\ pc[p] \in {"start", "serve"} /\ label \in {"start", "serve", "end"}
  \/ p = "signal" /\ pc[p] = "idle" /\ label = "interrupted"
  \/ p \in Cleaning /\ pc[p] = "interrupted" /\ label = "copy"
  \/ /\ p \in Cleaning /\ pc[p] \in Past /\ label \in Past \ Closing
     /\ label \in Done => Len(todo[p]) = 0

CleanerSame == UNCHANGED <<cleaners, cleaning, todo, told, dbClosed>>

\* Nothing moves.
LEMMA StayKeeps ==
  ASSUME CleanInv, CleanerSame, UNCHANGED pc
  PROVE  CleanInv'
  BY DEF CleanInv, CleanerSame, PcOK, CleanersOK, CleaningOK, ToldOK, WalkOK

\* One goroutine moves.
LEMMA MoveKeeps ==
  ASSUME CleanInv, CleanerSame, NEW p, NEW label, CanMove(p, label),
         pc' = [pc EXCEPT ![p] = label]
  PROVE  CleanInv'
<1> USE DEF Cleaning
<1>0. /\ PcOK /\ p \in {"main", "signal", "http"}
      /\ pc'[p] = label /\ \A q \in {"main", "signal", "http"} \ {p} : pc'[q] = pc[q]
      /\ DOMAIN pc' = {"main", "signal", "http"}
  BY DEF CleanInv, PcOK, CanMove
<1>1. PcOK'
  BY <1>0 DEF PcOK, CanMove, Early, Past, Closing, Done
<1>2. CleanersOK'
  <2>1. UNCHANGED cleaners /\ CleanersOK
    BY DEF CleanerSame, CleanInv
  <2> QED BY <1>0, <2>1 DEF CleanersOK, PcOK, CanMove, Early, Past, Closing, Done
<1>3. CleaningOK' /\ ToldOK'
  BY <1>0 DEF CleanInv, CleanerSame, CleaningOK, ToldOK, PcOK, CanMove, Early, Past, Closing, Done
<1>4. \A q \in Cleaning : WalkOK(q)'
  BY <1>0 DEF CleanInv, CleanerSame, WalkOK, PcOK, CanMove, Early, Past, Closing, Done
<1> QED BY <1>1, <1>2, <1>3, <1>4 DEF CleanInv, CleanerSame

\* A line is sent and p goes on, or a panic sends main to Clean.
LEMMA SaysKeeps ==
  ASSUME CleanInv, NEW p, NEW label, CanMove(p, label), Says(p, label)
  PROVE  CleanInv'
<1>1. CleanerSame
  BY DEF Says, cleanVars, CleanerSame
<1>2. \/ pc' = [pc EXCEPT ![p] = label]
      \/ UNCHANGED pc
      \/ /\ p = "main" /\ pc[p] \in {"config", "rating", "database", "listen", "serve"}
         /\ pc' = [pc EXCEPT ![p] = "copy"]
  BY DEF Says, Log, Panic, Goto
<1>3. p = "main" /\ pc[p] \in {"config", "rating", "database", "listen", "serve"} => CanMove(p, "copy")
  BY DEF CanMove, Early
<1> QED BY <1>1, <1>2, <1>3, StayKeeps, MoveKeeps

\* A step without effect on Cleaner and log.
LEMMA PlainKeeps ==
  ASSUME CleanInv, NEW p, NEW label, CanMove(p, label), Plain(p, label)
  PROVE  CleanInv'
  BY MoveKeeps DEF Plain, Goto, cleanVars, CleanerSame

\* p adds a callback that is not in the list yet.
LEMMA AddKeeps ==
  ASSUME CleanInv, NEW p, NEW callable, NEW label, Adds(p, callable, label),
         \/ p = "main" /\ pc[p] = "addDatabase" /\ callable = "database" /\ label = "http"
         \/ p = "main" /\ pc[p] = "addFsd" /\ callable = "fsd" /\ label = "serve"
         \/ p = "http" /\ pc[p] = "add" /\ callable = "http" /\ label = "start"
  PROVE  CleanInv'
<1> USE DEF Cleaning
<1>0. /\ pc'[p] = label /\ \A q \in {"main", "signal", "http"} \ {p} : pc'[q] = pc[q]
      /\ DOMAIN pc' = {"main", "signal", "http"}
      /\ UNCHANGED <<cleaning, todo, told, dbClosed>>
      /\ cleaners' = IF cleaning THEN cleaners ELSE Append(cleaners, callable)
      /\ p \in {"main", "http"} /\ callable \in Callable
      /\ cleaners \in Seq(Callable)
  BY DEF CleanInv, PcOK, CleanersOK, Adds, Add, Goto, Callable
<1>1. PcOK'
  BY <1>0 DEF CleanInv, PcOK, Early, Past, Closing, Done
<1>2. CASE cleaning
  <2>0. UNCHANGED cleaners
    BY <1>0, <1>2
  <2>1. CleanersOK'
    BY <1>0, <2>0 DEF CleanInv, CleanersOK, PcOK, Early, Past, Closing, Done
  <2>2. CleaningOK' /\ ToldOK'
    BY <1>0, <1>2, <2>0 DEF CleanInv, CleaningOK, ToldOK
  <2>3. \A q \in Cleaning : WalkOK(q)'
    BY <1>0, <2>0 DEF CleanInv, WalkOK, Past, Closing, Done
  <2> QED BY <1>0, <1>1, <2>1, <2>2, <2>3 DEF CleanInv
<1>3. CASE ~cleaning
  <2>0. /\ cleaners' \in Seq(Callable) /\ Len(cleaners') = Len(cleaners) + 1
        /\ cleaners'[Len(cleaners) + 1] = callable
        /\ \A i \in 1..Len(cleaners) : cleaners'[i] = cleaners[i]
        /\ Len(cleaners) \in Nat
    BY <1>0, <1>3, AppendProperties, LenProperties
  <2>1. CleanersOK'
    <3>1. \A i \in 1..Len(cleaners) : cleaners[i] # callable
      BY DEF CleanInv, CleanersOK, Early
    <3>2. callable = "database" => Len(cleaners) = 0
      BY DEF CleanInv, CleanersOK, Early
    <3>3. \A i \in 1..Len(cleaners') : i \in 1..Len(cleaners) \/ i = Len(cleaners) + 1
      BY <2>0
    <3>4. /\ \A i, j \in 1..Len(cleaners) : cleaners[i] = cleaners[j] => i = j
          /\ \A i \in 1..Len(cleaners) : cleaners[i] = "database" => i = 1
      BY DEF CleanInv, CleanersOK
    <3>5. /\ \A i, j \in 1..Len(cleaners') : cleaners'[i] = cleaners'[j] => i = j
          /\ \A i \in 1..Len(cleaners') : cleaners'[i] = "database" => i = 1
      BY <2>0, <3>1, <3>2, <3>3, <3>4
    <3>6. /\ pc'["main"] \in Early => Len(cleaners') = 0
          /\ pc'["main"] \in Early \cup {"http"} => pc'["http"] = "idle"
      BY <1>0 DEF CleanInv, CleanersOK, PcOK, Early
    <3>7. /\ pc'["main"] \in Early \cup {"http", "listen", "addFsd"} =>
               \A i \in 1..Len(cleaners') : cleaners'[i] # "fsd"
          /\ pc'["http"] \in {"idle", "setup", "add"} =>
               \A i \in 1..Len(cleaners') : cleaners'[i] # "http"
      BY <1>0, <2>0, <3>3 DEF CleanInv, CleanersOK, PcOK, Early
    <3> QED BY <2>0, <3>5, <3>6, <3>7 DEF CleanersOK
  <2>2. told' = {} /\ ~dbClosed' /\ \A q \in Cleaning : pc'[q] \notin Past
    BY <1>0, <1>3 DEF CleanInv, CleaningOK, Past, Closing, Done
  <2>3. CleaningOK' /\ ToldOK' /\ \A q \in Cleaning : WalkOK(q)'
    BY <2>2 DEF CleaningOK, ToldOK, WalkOK
  <2> QED BY <1>0, <1>1, <2>1, <2>3 DEF CleanInv
<1> QED BY <1>2, <1>3

\* A Clean takes its copy of the list, which is final from now on.
LEMMA CopyKeeps ==
  ASSUME CleanInv, NEW p \in Cleaning, Copy(p)
  PROVE  CleanInv'
<1> USE DEF Cleaning
<1>0. /\ pc[p] = "copy" /\ pc'[p] = "walk"
      /\ \A q \in {"main", "signal", "http"} \ {p} : pc'[q] = pc[q]
      /\ DOMAIN pc' = {"main", "signal", "http"}
      /\ cleaning' /\ UNCHANGED <<cleaners, told, dbClosed>>
      /\ DOMAIN todo' = Cleaning /\ todo'[p] = cleaners
      /\ \A q \in Cleaning \ {p} : todo'[q] = todo[q]
      /\ cleaners \in Seq(Callable) /\ Len(cleaners) \in Nat
  BY LenProperties DEF CleanInv, PcOK, CleanersOK, Copy, Goto
<1>1. PcOK' /\ CleanersOK'
  BY <1>0 DEF CleanInv, PcOK, CleanersOK, Early, Past, Closing, Done
<1>2. CleaningOK' /\ ToldOK'
  BY <1>0 DEF CleanInv, CleaningOK, ToldOK
<1>3. WalkOK(p)'
  BY <1>0 DEF WalkOK, Closing, Done
<1>4. \A q \in Cleaning \ {p} : WalkOK(q)'
  BY <1>0 DEF CleanInv, WalkOK
<1> QED BY <1>0, <1>1, <1>2, <1>3, <1>4 DEF CleanInv

\* A Clean enters the last callback of its list.
LEMMA EnterKeeps ==
  ASSUME CleanInv, NEW p \in Cleaning, pc[p] = "walk", todo[p] # <<>>, CleanerSame,
         NEW label, pc' = [pc EXCEPT ![p] = label],
         \/ Callback(p) = "database" /\ label = "closeDatabase"
         \/ Callback(p) = "http" /\ label = "closeHttp"
         \/ Callback(p) = "fsd" /\ label = "closeFsd"
  PROVE  CleanInv'
<1> USE DEF Cleaning
<1>0. /\ pc'[p] = label /\ label \in Closing
      /\ \A q \in {"main", "signal", "http"} \ {p} : pc'[q] = pc[q]
      /\ DOMAIN pc' = {"main", "signal", "http"}
      /\ UNCHANGED <<cleaners, cleaning, todo, told, dbClosed>>
  BY DEF CleanInv, PcOK, CleanerSame, Closing
<1>1. PcOK' /\ CleanersOK'
  BY <1>0 DEF CleanInv, PcOK, CleanersOK, Early, Past, Closing, Done
<1>2. CleaningOK' /\ ToldOK'
  BY <1>0 DEF CleanInv, CleaningOK, ToldOK, Past
<1>3. WalkOK(p)'
  <2>1. WalkOK(p) /\ pc[p] \in Past /\ todo[p] \in Seq(Callable)
    BY DEF CleanInv, WalkOK, Past
  <2>2. Len(todo[p]) \in Nat /\ Len(todo[p]) > 0 /\ Callback(p) = cleaners[Len(todo[p])]
    BY <2>1, EmptySeq, LenProperties DEF WalkOK, Callback
  <2> QED BY <1>0, <2>1, <2>2 DEF WalkOK, Closing, Done
<1>4. \A q \in Cleaning \ {p} : WalkOK(q)'
  BY <1>0 DEF CleanInv, WalkOK
<1> QED BY <1>0, <1>1, <1>2, <1>3, <1>4 DEF CleanInv

\* A callback has returned: it was the last of the list of p, and p has told
\* it to stop.
LEMMA ReturnKeeps ==
  ASSUME CleanInv, NEW p \in Cleaning, NEW callback, NEW ok,
         Return(p, callback, ok),
         \/ pc[p] = "closeDatabase" /\ callback = "database" /\ dbClosed'
         \/ pc[p] = "closeHttp" /\ callback = "http" /\ UNCHANGED dbClosed
         \/ pc[p] = "closeFsd" /\ callback = "fsd" /\ UNCHANGED dbClosed
  PROVE  CleanInv'
<1> USE DEF Cleaning
<1> DEFINE n == Len(todo[p])
<1>0. /\ pc'[p] \in {"walk", "failed"} /\ pc[p] \in Past /\ pc[p] \in Closing
      /\ \A q \in {"main", "signal", "http"} \ {p} : pc'[q] = pc[q]
      /\ DOMAIN pc' = {"main", "signal", "http"}
      /\ UNCHANGED <<cleaners, cleaning>>
      /\ told' = told \cup {callback}
      /\ DOMAIN todo' = Cleaning /\ todo'[p] = SubSeq(todo[p], 1, n - 1)
      /\ \A q \in Cleaning \ {p} : todo'[q] = todo[q]
  BY DEF CleanInv, PcOK, Return, Goto, Past, Closing, Done
<1>1. /\ WalkOK(p) /\ cleaning
      /\ todo[p] \in Seq(Callable) /\ n \in Nat /\ n > 0
      /\ cleaners \in Seq(Callable) /\ Len(cleaners) \in Nat /\ n <= Len(cleaners)
      /\ cleaners[n] = callback
  BY <1>0, LenProperties DEF CleanInv, WalkOK, CleaningOK, CleanersOK
<1>2. /\ todo'[p] \in Seq(Callable) /\ Len(todo'[p]) = n - 1
      /\ \A i \in 1..(n - 1) : todo'[p][i] = todo[p][i]
  BY <1>0, <1>1, SubSeqProperties
<1>3. PcOK' /\ CleanersOK'
  BY <1>0 DEF CleanInv, PcOK, CleanersOK, Early, Past, Closing, Done
<1>4. CleaningOK'
  BY <1>0, <1>1 DEF CleaningOK
<1>5. ToldOK'
  <2>1. \A x \in told' : \E i \in 1..Len(cleaners') : cleaners'[i] = x
    BY <1>0, <1>1 DEF CleanInv, ToldOK
  <2>2. CASE pc[p] = "closeDatabase"
    <3>1. n = 1
      <4>1. n \in 1..Len(cleaners) /\ cleaners[n] = "database"
        BY <1>1, <2>2
      <4>2. \A i \in 1..Len(cleaners) : cleaners[i] = "database" => i = 1
        BY DEF CleanInv, CleanersOK
      <4> QED BY <4>1, <4>2
    <3>2. \A i \in 1..Len(cleaners) : cleaners[i] # "database" => cleaners[i] \in told
      BY <1>0, <1>1, <2>2, <3>1 DEF WalkOK
    <3> QED BY <1>0, <2>1, <3>2 DEF ToldOK
  <2>3. CASE pc[p] # "closeDatabase"
    BY <1>0, <2>1, <2>3 DEF CleanInv, ToldOK
  <2> QED BY <2>2, <2>3
<1>6. WalkOK(p)'
  BY <1>0, <1>1, <1>2 DEF WalkOK, Past, Closing, Done
<1>7. \A q \in Cleaning \ {p} : WalkOK(q)'
  BY <1>0 DEF CleanInv, WalkOK
<1> QED BY <1>0, <1>3, <1>4, <1>5, <1>6, <1>7 DEF CleanInv

-----------------------------------------------------------------------------
(* The steps. *)

\* main, from the logger to the HTTP server.
LEMMA MainStep ==
  ASSUME CleanInv, main
  PROVE  CleanInv'
<1>1. CASE pc["main"] = "init" /\ Says("main", "config")
  BY <1>1, SaysKeeps DEF CanMove, Early
<1>2. CASE pc["main"] = "config" /\ getConfig
  BY <1>2, SaysKeeps, PlainKeeps DEF CanMove, Early, getConfig
<1>3. CASE pc["main"] = "rating" /\ (Plain("main", "database") \/ Says("main", "copy"))
  BY <1>3, SaysKeeps, PlainKeeps DEF CanMove, Early
<1>4. CASE pc["main"] = "database" /\ ConnectDatabase
  BY <1>4, SaysKeeps DEF CanMove, Early, ConnectDatabase
<1>5. CASE pc["main"] = "addDatabase" /\ Adds("main", "database", "http")
  BY <1>5, AddKeeps
<1>6. CASE /\ pc["main"] = "http"
           /\ pc' = [pc EXCEPT !["main"] = "listen",
                               !["http"] = IF HttpEnabled THEN "setup" ELSE "idle"]
           /\ UNCHANGED <<cleanVars, lines>>
  <2>1. /\ DOMAIN pc' = {"main", "signal", "http"}
        /\ pc'["main"] = "listen" /\ pc'["signal"] = pc["signal"]
        /\ pc'["http"] \in {"idle", "setup"}
        /\ UNCHANGED <<cleaners, cleaning, todo, told, dbClosed>>
    BY <1>6 DEF CleanInv, PcOK, cleanVars
  <2>2. PcOK' /\ CleanersOK'
    BY <1>6, <2>1 DEF CleanInv, PcOK, CleanersOK, Early, Past, Closing, Done
  <2>3. CleaningOK' /\ ToldOK'
    BY <2>1 DEF CleanInv, CleaningOK, ToldOK, Cleaning, Past, Closing, Done
  <2>4. \A q \in Cleaning : WalkOK(q)'
    BY <2>1 DEF CleanInv, WalkOK, Cleaning, Past, Closing, Done
  <2> QED BY <2>1, <2>2, <2>3, <2>4 DEF CleanInv
<1> QED BY <1>1, <1>2, <1>3, <1>4, <1>5, <1>6 DEF main

\* The FSD and the HTTP server.
LEMMA ServerStep ==
  ASSUME CleanInv, StartFSDServer \/ StartHttpServer
  PROVE  CleanInv'
<1>1. ASSUME pc["main"] = "listen", NEW label \in {"addFsd", "copy"}, Says("main", label)
      PROVE  CleanInv'
  BY <1>1, SaysKeeps DEF CanMove
<1>2. CASE pc["main"] = "addFsd" /\ Adds("main", "fsd", "serve")
  BY <1>2, AddKeeps
<1>3. CASE pc["http"] = "add" /\ Adds("http", "http", "start")
  BY <1>3, AddKeeps
<1>a. CASE AcceptFails
  <2>1. CanMove("main", "serve") /\ CanMove("main", "copy") /\ CleanerSame
    BY <1>a DEF AcceptFails, CanMove, cleanVars, CleanerSame
  <2>2. \/ pc' = [pc EXCEPT !["main"] = "serve"] \/ UNCHANGED pc
        \/ pc' = [pc EXCEPT !["main"] = "copy"]
    BY <1>a DEF AcceptFails, Log, Panic, Goto
  <2> QED BY <2>1, <2>2, StayKeeps, MoveKeeps
<1>b. CASE pc["http"] = "setup" /\ SetUpHttp
  BY <1>b, SaysKeeps, PlainKeeps DEF CanMove, SetUpHttp
<1>4. CASE pc["http"] = "start" /\ Says("http", "serve")
  BY <1>4, SaysKeeps DEF CanMove
<1>5. CASE pc["http"] = "serve" /\ (Says("http", "end") \/ Plain("http", "end"))
  BY <1>5, SaysKeeps, PlainKeeps DEF CanMove
<1> QED BY <1>1, <1>2, <1>3, <1>4, <1>5, <1>a, <1>b DEF StartFSDServer, StartHttpServer

\* Clean, in main or in the goroutine of the signal.
LEMMA CleanStep ==
  ASSUME CleanInv, NEW p \in Cleaning, Clean(p) \/ Shutdown(p)
  PROVE  CleanInv'
<1>1. CASE pc[p] = "interrupted" /\ Says(p, "copy")
  BY <1>1, SaysKeeps DEF CanMove
<1>2. CASE Copy(p)
  BY <1>2, CopyKeeps
<1>3. CASE Walk(p)
  <2>1. CASE todo[p] = <<>>
    <3>1. Len(todo[p]) = 0
      BY <2>1
    <3> QED BY <1>3, <2>1, <3>1, PlainKeeps DEF Walk, CanMove, Past, Closing, Done
  <2>2. CASE todo[p] # <<>>
    <3>1. ASSUME Callback(p) = "database", Says(p, "closeDatabase") PROVE CleanInv'
      <4>1. CleanerSame /\ pc[p] = "walk"
        BY <1>3, <3>1 DEF Walk, Says, cleanVars, CleanerSame
      <4>2. UNCHANGED pc \/ pc' = [pc EXCEPT ![p] = "closeDatabase"]
        BY <3>1, <4>1 DEF Says, Log, Panic, Goto
      <4> QED BY <2>2, <3>1, <4>1, <4>2, StayKeeps, EnterKeeps
    <3>2. ASSUME Callback(p) = "http", Plain(p, "closeHttp") PROVE CleanInv'
      BY <1>3, <2>2, <3>2, EnterKeeps DEF Walk, Plain, Goto, cleanVars, CleanerSame
    <3>3. ASSUME Callback(p) = "fsd", Plain(p, "closeFsd") PROVE CleanInv'
      BY <1>3, <2>2, <3>3, EnterKeeps DEF Walk, Plain, Goto, cleanVars, CleanerSame
    <3> QED BY <1>3, <2>2, <3>1, <3>2, <3>3 DEF Walk
  <2> QED BY <2>1, <2>2
<1>4. CASE CloseDatabase(p)
  BY <1>4, ReturnKeeps DEF CloseDatabase
<1>5. CASE CloseHttp(p)
  BY <1>5, ReturnKeeps DEF CloseHttp
<1>6. CASE CloseFsd(p) \/ Shutdown(p)
  BY <1>6, StayKeeps DEF CloseFsd, Shutdown, CleanerSame
<1>7. CASE Select(p)
  BY <1>7, ReturnKeeps DEF Select
<1>8. CASE pc[p] = "failed" /\ Says(p, "walk")
  BY <1>8, SaysKeeps DEF CanMove, Past, Closing, Done
<1>d. pc[p] \in Done => pc[p] \in Past /\ Len(todo[p]) = 0
  BY DEF CleanInv, WalkOK, Past, Done
<1>9. CASE pc[p] = "errors" /\ Says(p, "finish")
  BY <1>9, <1>d, SaysKeeps DEF CanMove, Past, Closing, Done
<1>10. CASE pc[p] = "finish" /\ Says(p, "close")
  BY <1>10, <1>d, SaysKeeps DEF CanMove, Past, Closing, Done
<1>11. CASE Close(p)
  <2>1. CleanerSame /\ pc[p] = "close"
    BY <1>11 DEF Close, cleanVars, CleanerSame
  <2>2. UNCHANGED pc \/ pc' = [pc EXCEPT ![p] = "wait"]
    BY <1>11 DEF Close, Panic, Goto
  <2>3. CanMove(p, "wait")
    BY <1>d, <2>1 DEF CanMove, Past, Closing, Done
  <2> QED BY <2>1, <2>2, <2>3, StayKeeps, MoveKeeps
<1>12. CASE Exit(p)
  BY <1>12, StayKeeps DEF Exit, cleanVars, CleanerSame
<1> QED BY <1>1, <1>2, <1>3, <1>4, <1>5, <1>6, <1>7, <1>8, <1>9, <1>10, <1>11, <1>12 DEF Clean

-----------------------------------------------------------------------------
(* The ends. *)

\* The list is frozen once a Clean has begun, and what was told stays told.
LEMMA Frozen ==
  ASSUME CleanInv, [Next]_vars
  PROVE  /\ cleaning => cleaning' /\ UNCHANGED cleaners
         /\ told \subseteq told'
<1>1. ASSUME NEW p, NEW callable, NEW label, Adds(p, callable, label)
      PROVE  (cleaning => UNCHANGED cleaners) /\ UNCHANGED <<cleaning, told>>
  BY <1>1 DEF Adds, Add
<1>2. ASSUME UNCHANGED cleanVars PROVE UNCHANGED <<cleaners, cleaning, told>>
  BY <1>2 DEF cleanVars
<1>3. CASE main \/ StartFSDServer \/ StartHttpServer
  <2>1. UNCHANGED cleanVars \/ \E p, callable, label : Adds(p, callable, label)
    <3>1. CASE main
      BY <3>1, Zenon DEF main, Says, Plain, getConfig, ConnectDatabase
    <3>2. CASE StartFSDServer
      BY <3>2, Zenon DEF StartFSDServer, AcceptFails, Says
    <3>3. CASE StartHttpServer
      BY <3>3, Zenon DEF StartHttpServer, SetUpHttp, Says, Plain
    <3> QED BY <1>3, <3>1, <3>2, <3>3
  <2> QED BY <1>1, <1>2, <2>1
<1>4. CASE startWorker \/ SessionLogs \/ Interrupt \/ UNCHANGED vars
  <2>1. UNCHANGED cleanVars
    BY <1>4, Zenon DEF startWorker, SessionLogs, Interrupt, Plain, vars
  <2> QED BY <1>2, <2>1
<1>5. ASSUME NEW p \in Cleaning, Clean(p) \/ Shutdown(p)
      PROVE  UNCHANGED cleaners /\ (cleaning => cleaning') /\ told \subseteq told'
  <2>1. CASE Copy(p)
    BY <2>1 DEF Copy
  <2>2. CASE CloseDatabase(p) \/ CloseHttp(p) \/ Select(p)
    BY <2>2 DEF CloseDatabase, CloseHttp, Select, Return
  <2>3. CASE CloseFsd(p) \/ Shutdown(p)
    BY <2>3 DEF CloseFsd, Shutdown
  <2>4. CASE Walk(p) \/ Close(p) \/ Exit(p) \/ \E label : Says(p, label)
    <3>1. UNCHANGED cleanVars
      BY <2>4, Zenon DEF Walk, Close, Exit, Says, Plain
    <3> QED BY <1>2, <3>1
  <2> QED BY <1>5, <2>1, <2>2, <2>3, <2>4 DEF Clean
<1> QED BY <1>3, <1>4, <1>5 DEF Next

\* Who closes the channel, and how the process ends.
LEMMA Ends ==
  ASSUME LogInv, [Next]_vars
  PROVE  /\ closed' => closed \/ \E p \in Cleaning : pc[p] \in Done
         /\ over' = over \/ over' = "killed" \/ ~writer \/ closed
            \/ \E p \in Cleaning : pc[p] \in Done
         /\ UNCHANGED writer
         /\ over # "no" => UNCHANGED vars
<1>1. ASSUME NEW p, NEW label, Log(p, label)
      PROVE  (over' = over \/ closed) /\ UNCHANGED <<writer, closed>>
  BY <1>1 DEF Log
<1>2. ASSUME Quiet PROVE UNCHANGED <<over, writer, closed>>
  BY <1>2 DEF Quiet
<1>3. ASSUME main \/ StartFSDServer \/ StartHttpServer
      PROVE  (over' = over \/ over' = "killed" \/ ~writer \/ closed) /\ UNCHANGED <<writer, closed>>
  <2>1. Quiet \/ \E p, label : Log(p, label)
    <3>1. CASE main
      BY <3>1, Zenon DEF main, Says, Plain, Adds, getConfig, ConnectDatabase
    <3>2. CASE StartFSDServer
      BY <3>2, Zenon DEF StartFSDServer, AcceptFails, Says, Adds
    <3>3. CASE StartHttpServer
      BY <3>3, Zenon DEF StartHttpServer, SetUpHttp, Says, Plain, Adds
    <3> QED BY <1>3, <3>1, <3>2, <3>3
  <2>2. (over' = over \/ closed) /\ UNCHANGED <<writer, closed>>
    BY <1>1, <1>2, <2>1
  <2> QED BY <2>2
<1>4. ASSUME startWorker \/ SessionLogs
      PROVE  (over' = over \/ over' = "killed" \/ ~writer \/ closed) /\ UNCHANGED <<writer, closed>>
  <2>1. (over' = over \/ ~writer \/ closed) /\ UNCHANGED <<writer, closed>>
    BY <1>4 DEF startWorker, SessionLogs
  <2> QED BY <2>1
<1>5. ASSUME Interrupt
      PROVE  (over' = over \/ over' = "killed" \/ ~writer \/ closed) /\ UNCHANGED <<writer, closed>>
  <2>1. (over' = over \/ over' = "killed") /\ UNCHANGED <<writer, closed>>
    BY <1>5 DEF Interrupt, Plain, Quiet
  <2> QED BY <2>1
<1>6. ASSUME NEW p \in Cleaning, Clean(p) \/ Shutdown(p)
      PROVE  /\ closed' => closed \/ pc[p] \in Done
             /\ over' = over \/ closed \/ pc[p] \in Done
             /\ UNCHANGED writer
  <2>1. CASE Close(p) \/ Exit(p)
    BY <2>1 DEF Close, Exit, Done
  <2>2. CASE ~Close(p) /\ ~Exit(p)
    <3>1. Quiet \/ \E label : Log(p, label)
      BY <1>6, <2>2, Zenon DEF Clean, Copy, Walk, CloseDatabase, CloseHttp, CloseFsd, Select,
         Shutdown, Return, Says, Plain
    <3> QED BY <1>1, <1>2, <3>1
  <2> QED BY <2>1, <2>2
<1>7. ASSUME UNCHANGED vars
      PROVE  (over' = over \/ over' = "killed" \/ ~writer \/ closed) /\ UNCHANGED <<writer, closed>>
  BY <1>7 DEF vars
<1>8. \/ UNCHANGED vars
      \/ Running /\ (main \/ StartFSDServer \/ StartHttpServer)
      \/ Running /\ (startWorker \/ SessionLogs)
      \/ Running /\ Interrupt
      \/ \E p \in Cleaning : Running /\ (Clean(p) \/ Shutdown(p))
  BY DEF Next
<1>9. over # "no" => UNCHANGED vars
  BY <1>8 DEF Running
<1>10. /\ closed' => closed \/ \E p \in Cleaning : pc[p] \in Done
       /\ over' = over \/ over' = "killed" \/ ~writer \/ closed
          \/ \E p \in Cleaning : pc[p] \in Done
       /\ UNCHANGED writer
  BY <1>3, <1>4, <1>5, <1>6, <1>7, <1>8
<1> QED BY <1>9, <1>10

\* The process ends when everybody was told.
LEMMA EndStep ==
  ASSUME CleanInv, LogInv, EndInv, [Next]_vars
  PROVE  EndInv'
<1>1. ASSUME NEW p \in Cleaning, pc[p] \in Done PROVE cleaning /\ AllTold
  <2>1. pc[p] \in Past /\ WalkOK(p)
    BY <1>1 DEF CleanInv, Past, Done
  <2>2. Len(todo[p]) = 0
    BY <1>1, <2>1 DEF WalkOK
  <2>3. cleaning
    BY <2>1 DEF CleanInv, CleaningOK
  <2> QED BY <2>1, <2>2, <2>3 DEF WalkOK, AllTold
<1>2. ASSUME cleaning, AllTold PROVE cleaning' /\ AllTold'
  <2>1. cleaning' /\ UNCHANGED cleaners /\ told \subseteq told'
    BY <1>2, Frozen
  <2> QED BY <1>2, <2>1 DEF AllTold
<1>3. closed' => cleaning' /\ AllTold'
  BY <1>1, <1>2, Ends DEF EndInv
<1>4. ASSUME over' \in {"exit", "crash", "return"}, writer' PROVE AllTold'
  <2>1. CASE over' = over
    <3>1. AllTold /\ UNCHANGED vars
      BY <1>4, <2>1, Ends DEF EndInv
    <3> QED BY <3>1 DEF AllTold, vars, cleanVars
  <2>2. CASE over' # over
    BY <1>1, <1>2, <1>4, <2>2, Ends DEF EndInv
  <2> QED BY <2>1, <2>2
<1> QED BY <1>3, <1>4 DEF EndInv

-----------------------------------------------------------------------------
(* The theorems. *)

\* The inductive invariant: the list is frozen before the first callback is
\* invoked, and each Clean walks down a part of it.
THEOREM ShutdownInvariant == Spec => []ShutdownInv
<1>1. Init => ShutdownInv
  <2> SUFFICES ASSUME Init PROVE ShutdownInv
    OBVIOUS
  <2>1. cleaners \in Seq(Callable) /\ Len(cleaners) = 0
    BY EmptySeq DEF Init
  <2>2. PcOK /\ CleanersOK
    BY <2>1 DEF Init, PcOK, CleanersOK, Early
  <2>3. /\ DOMAIN todo = Cleaning /\ CleaningOK /\ ToldOK
        /\ \A p \in Cleaning : WalkOK(p)
    BY <2>1 DEF Init, CleaningOK, ToldOK, WalkOK, Cleaning, Past, Closing, Done
  <2>4. LogInv
    BY ProcessAssumption DEF Init, LogInv
  <2>5. EndInv
    BY DEF Init, EndInv
  <2> QED BY <2>2, <2>3, <2>4, <2>5 DEF ShutdownInv, CleanInv
<1>2. CleanInv /\ [Next]_vars => CleanInv'
  <2> SUFFICES ASSUME CleanInv, [Next]_vars PROVE CleanInv'
    OBVIOUS
  <2>1. CASE startWorker \/ SessionLogs
    BY <2>1, StayKeeps DEF startWorker, SessionLogs, cleanVars, CleanerSame
  <2>2. CASE Interrupt
    <3>1. CASE pc["signal"] = "idle" /\ Plain("signal", "interrupted")
      BY <3>1, PlainKeeps DEF CanMove
    <3>2. CASE UNCHANGED <<pc, cleanVars>>
      BY <3>2, StayKeeps DEF cleanVars, CleanerSame
    <3> QED BY <2>2, <3>1, <3>2 DEF Interrupt
  <2>3. CASE UNCHANGED vars
    BY <2>3, StayKeeps DEF vars, cleanVars, CleanerSame
  <2> QED BY <2>1, <2>2, <2>3, MainStep, ServerStep, CleanStep DEF Next
<1>3. ShutdownInv /\ [Next]_vars => ShutdownInv'
  BY <1>2, LogStep, EndStep DEF ShutdownInv
<1> QED BY <1>1, <1>3, PTL DEF Spec

\* The channel keeps within its capacity, and each callback is registered once.
THEOREM ShutdownTyped == Spec => []TypeOK
<1>1. ShutdownInv => TypeOK
  <2> SUFFICES ASSUME ShutdownInv PROVE TypeOK
    OBVIOUS
  <2>1. cleaners \in Seq(Callable) /\ DOMAIN cleaners = 1..Len(cleaners)
    BY LenProperties DEF ShutdownInv, CleanInv, CleanersOK
  <2>2. Range(cleaners) \subseteq Callable /\ IsInjective(cleaners)
    BY <2>1, ElementOfSeq DEF ShutdownInv, CleanInv, CleanersOK, Range, IsInjective
  <2>3. told \subseteq Range(cleaners)
    BY <2>1 DEF ShutdownInv, CleanInv, ToldOK, Range
  <2> QED BY <2>2, <2>3 DEF ShutdownInv, LogInv, TypeOK, Callable
<1> QED BY <1>1, ShutdownInvariant, PTL

\* However the process ends, but for a second interrupt and a missing log
\* file, every callback that registered has returned before.
THEOREM EndsAreClean == Spec => []EndsCleaned
<1>1. ShutdownInv => EndsCleaned
  <2> SUFFICES ASSUME ShutdownInv PROVE EndsCleaned
    OBVIOUS
  <2>1. DOMAIN cleaners = 1..Len(cleaners)
    BY LenProperties DEF ShutdownInv, CleanInv, CleanersOK
  <2> QED BY <2>1 DEF ShutdownInv, EndInv, AllTold, Range, EndsCleaned
<1> QED BY <1>1, ShutdownInvariant, PTL

\* The database is closed after every server that registered was told to
\* stop, even when two goroutines clean at once.
THEOREM DatabaseOutlivesServers == Spec => []DatabaseClosesLast
<1>1. ShutdownInv => DatabaseClosesLast
  <2> SUFFICES ASSUME ShutdownInv PROVE DatabaseClosesLast
    OBVIOUS
  <2>1. DOMAIN cleaners = 1..Len(cleaners)
    BY LenProperties DEF ShutdownInv, CleanInv, CleanersOK
  <2> QED BY <2>1 DEF ShutdownInv, CleanInv, ToldOK, Range, DatabaseClosesLast
<1> QED BY <1>1, ShutdownInvariant, PTL
=============================================================================
