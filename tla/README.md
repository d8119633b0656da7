# A TLA+ model of SimpleFSD

SimpleFSD is a flight-simulation server in Go: an FSD server to which pilots and
controllers connect over TCP, and a web API on the same data. This directory
models the parts of it whose correctness depends on the order in which
goroutines, timers, clients and database writes act. TLC checks the models on
small instances; TLAPS proves the most important results for every instance.

## 1. The system

| Part | State | Operations | Interaction | What makes it correct |
|---|---|---|---|---|
| Sessions (`packet/connection_handler.go`, `fsd_server/server.go`) | connection, `client`, `user`, `disconnected` | accept, read a line, fatal error, end | one goroutine each; calls handlers, the manager and its client | an ended connection leaves no client connected through it |
| Clients (`packet/client.go`) | socket, user, `disconnect`, `reconnectTimer`, position, plan, ATIS, path | create, reconnect, mark disconnected, delete, report an error, send | shared by sessions, timers, the API and shutdown; `client.lock` guards part of it | a lost connection can be resumed in its window, the callsign comes back after it |
| Client manager (`packet/client_manager.go`) | callsign table, `shuttingDown`, slice pool | add, get, delete, snapshot, broadcast, shutdown | everybody | one client per callsign; shutdown disconnects all |
| Command handlers (`packet/command_handler.go`) | none of their own | login, positions, messages, plans, kill | change sessions, clients, plans | refused commands change nothing |
| Flight plans (`database/flight_plan_operation.go`) | object in the client, row in the database | load, file, edit, assign a level, lock | pilot and controller sessions share the object without a lock | the lock protects the controller's edit; the row is the plan |
| Rate limiter (`http_server/middleware/limiter.go`) | times of accepted requests per key | allow, clean up | concurrent requests, a ticker | at most the limit in any window, no needless refusal |
| E-mail codes (`service/email.go`) | code and send time per address | issue, verify | concurrent requests | a code works once, in time, for its user |
| Accounts (`service/user.go`, `database/user_operation.go`) | users | register, edit one's own profile or another's | concurrent requests on rows | an address is proved, an edit changes what it names |
| Tokens, permissions (`service/user.go`, `interfaces/service/struct.go`) | claims in the browser, permission bits and rating in the row | log in, renew, change permissions and rating | the copy in a token outlives the row's value | a revoked permission ends in time, nobody grants what they lack |
| Activities (`service/activity.go`, `database/activity_operation.go`) | activities, facilities, sign-ups | create, edit, sign up, change status | concurrent requests on rows | one controller per facility, one facility per controller |
| Path trigger, cached values (`utils`) | counter; value and its time | tick; read | concurrent position reports; concurrent requests | every N-th report; no stale value |
| Process (`base/cleaner.go`, `base/logger.go`, `cmd/fsd`) | callbacks, log channel | start, shut down | runs the shutdown of all parts | everything is flushed and closed once |
| Rules (`packet_utils.go`, `interfaces/fsd`) | none | callsign and frequency tests, ratings, ranges, packing | pure | agree with the protocol document |

What is hard here: the flags `disconnect` and `disconnected` are atomics that
are read and written partly under `client.lock` and partly outside any lock;
lines are written to peers, without a deadline, while that lock is held;
two kinds of delayed calls delete clients *by callsign*; a login waits for the
database between looking a client up and using it; flight plans are shared
objects without a lock; writes to the database can fail after memory changed;
web handlers read rows in one statement and write them in another, and GORM
saves loaded associations again; main and a signal can both run the cleanup.
`PROJECT.json` lists each hazard at its line.

## 2. Modules

| Module | Contents |
|---|---|
| `ClientLifecycle`, `ClientLifecycleProofs` | sessions, clients, callsign table, timers, kill requests, shutdown |
| `CallsignTable` | the abstract table that `ClientLifecycle` implements |
| `FlightPlans`, `FlightPlansProofs` | plans in memory and in the database |
| `RateLimiter`, `RateLimiterProofs` | the limiter of the web API |
| `Delivery`, `DeliveryProofs` | lines to clients: locks, broadcasts, workers, pooled slices, shutdown |
| `Activities`, `ActivitiesProofs` | group flights: activities, facilities, sign-ups, on rows |
| `Accounts`, `AccountsProofs` | e-mail codes, registration, profile edits |
| `Tokens`, `TokensProofs` | access and refresh tokens, permissions and ratings |
| `ProcessShutdown`, `ProcessShutdownProofs` | start-up, interrupt, cleanup callbacks, log channel |
| `MCClientLifecycle`, `MCFlightPlans`, `MCRateLimiter`, `MCDelivery`, `MCActivities`, `MCAccounts`, `MCTokens` | instances and symmetry sets for TLC |

A module `XProofs` extends `X` and holds its theorems (section 4).

Definitions named `Variant: ...` in a comment are not part of a specification.
Each is a plausible mistake in the code; putting it in the place of the original
makes TLC report the property that `PROJECT.json` pairs it with.

### 2.1 ClientLifecycle

One action is one atomic stretch of the code: a body under `client.lock` or the
manager's lock, or one atomic load or store outside any lock. Where the code
looks at something, lets go and acts later, there are two actions:

* login: `Login` (line read, `GetClient`), then `Reconnect` or `CallsignInUse`,
  then `AuthFail` or `Verified` (the database has answered), then `NewClient`
  with the test of `shuttingDown`, then `AddClient`. Its error is ignored by
  the handlers, as in the code;
* deletion: `TimerFires` (a goroutine runs `client.Delete`), `DeleteCheck` (the
  test of `disconnect` before the lock), `Delete` (the body under the lock,
  which does not test again);
* fatal errors: `ClientSendError` and `ClientSendErrorMark` are the two stores
  of `client.SendError`, `FatalDelete` the call it delays;
* kill: `KillLookup` and `Kill`; shutdown: `Shutdown`, `ShutdownSnapshot`, and
  one `ShutdownMark` for each client of the snapshot;
* `Leave` is the end of `HandleConnection`; `Drop` is the network.

A session creates at most one client object, because `session.client` is nil
only before its first login; the object is named by that session. A session may
hold somebody else's client (`attached`), and a client's current connection is
`socket`. The number of saves of a client's history is `credited`.

Left out: positions, ratings, message contents and broadcasts, which change none
of this state; the blocking of writes is in `Delivery`. A kill handler holds at
most one client at a time per client.

### 2.2 CallsignTable

A callsign is free or belongs to one client, which is online or in its grace
period. Steps: `Register` a free callsign, `Lose`, `Resume`, `Release`. The
refinement maps `owner` to the manager's map and `grace` to the registered
clients whose `disconnect` is set. It says that no interleaving of the differently
locked pieces hands a callsign from one client directly to another, or registers
a client that is disconnected already.

### 2.3 FlightPlans

`Login` and `Logout` create and delete a client, `SetUser` is a reconnect by
another user, which keeps the plan. `plan[c]` is `client.flightPlan`, `row` the
table by its unique column `callsign`. `Delete` waits for nobody: the plan of a
client that is deleted moves to a name of `Deleted`, where controllers' handlers go
on editing and saving it while the callsign may stand for a new client with the
same row; `Forget` is the end of the last such handler. Pilot handlers (`$FP`) and controller handlers (`$AM`, and `FA` in
`$CQ`) are processes with a control point each; test of the lock, unlocking,
the writing of the airports, the writing of the other fields, the reading of
the object by the save, and the commit are separate actions. A database read
may fail (both callers treat that as "no row"), a write may fail after memory
was changed (`WriteFails`). A nil plan in a controller's edit ends the process
(`EditMissing`). `simulator` is a variable that is chosen initially and never
changes, so one run covers both kinds of server.

Two histories are not in the code. `contended` collects the rows that two objects
stood for (two clients of one account, or a deleted client and its successor), that
two handlers worked on at once, or that a write failed for: such a row may differ
from the plan in memory. `overlapped` holds the clients whose current command met a
controller's command on the same object, and nothing else: only that excuses a
write to a locked plan. The run that expects a violation shows such a write. A
client without a plan in memory files without any test of the lock its row may
have (`FileFirst`), for instance after the look at login failed.

### 2.4 RateLimiter

`Allow` and `Refuse` are the two results of `Allow` under the mutex, `Cleanup`
one round of the cleanup goroutine, `Tick` the clock. `accepted` remembers all
accepted requests, so that the limiter's forgetful `records` can be compared
with the full history.

### 2.5 Delivery

A goroutine is a session, a web request, a worker of a walk, or a timer;
`routine` says what it does and to which client. `SendLine` takes the read lock
and tests `disconnect`, `Write` is the write and the unlock; `MarkedDisconnect`
and `Delete` need all readers gone; `Announce` is the writer that waits, which
keeps later readers out (`sync.RWMutex`). A walk is the loop of a broadcast or
of `disconnectClients`: `Visit` is one turn, which waits for a free slot,
`Waited` is `wg.Wait`. A session that ends broadcasts its leave in its own
goroutine before it marks its client; messages and position reports are
broadcast in a goroutine of their own. A fatal error marks the client without
the lock (`SendError`), removes it from the table later (`DeleteClient`), and
the session closes the connection at its end.

Snapshots use arrays of a pool. When `Shutdown` times out its array goes back
while the workers still walk over it (`pool`); the next snapshot, here that of
the web page of clients (`getOnlineClient`), then changes what the walk sees
(`Overwritten`). Clients do not come back here, and do not move; distances and
visual ranges are constants. `Connected` lists the tables the server may have at
the start; clients that are not in it have left before.

### 2.6 Activities, Accounts, Tokens

Web requests run side by side in `Request` goroutines; `call` holds the locals of
each. One action is one statement or one transaction that nobody can look into.
In `Activities` the variable `db` chooses the database: on SQLite writing
transactions exclude each other and foreign keys are not enforced, on a server
the opposite. GORM saves the associations of a row with it (`SavedFacility`,
`Upserted`, marked external). The body of a publish request is a whole
`operation.Activity` (`interfaces/service/activity.go:64`): it may name an activity
that exists, move facilities and sign-ups of other activities by their ids, and bring
new sign-ups along (`Bodies`, `SaveActivity`). An edit (`UpdateActivityInfo`) loads
the activity with facilities and sign-ups, and they are saved again with the row, so
what was deleted or moved since comes back (`PutBack`). Sign-up rows have no ids in
the model; a loaded row and an equal one in another activity may or may not be the
same (`Elsewhere`). A sign-up looks first and inserts later; the error of the look is
ignored, so a sign-up whose look failed goes on (`signBlind`, `signPilotBlind`).
`named` remembers the facilities that the publish of another activity named.

`Accounts` has the two maps of the e-mail service, the users table and a restart
that keeps the table only. `VerifyCode` looks a code up and deletes it in two
steps, so two requests can pass with one code. The history `proved` has a mailbox
and a cid when the code in force for both was given back before it expired
(`Proves`), or staff entered the address; asking for a code proves nothing.

`Tokens` has a clock. A browser keeps its last access and refresh token; the
handlers of lists and profiles trust the permissions in the token, those that edit
permissions and ratings read the two rows, decide and write in three steps.
`seen` is the last time an account had the permission `Watched`. The row is read and
the token signed in one unit of time; the bound of `AnswersAuthorised` is exact under
that assumption, and grows by the time between the two otherwise.

### 2.7 ProcessShutdown

`main`, the HTTP goroutine and the goroutine of the signal are processes with a
control point each. Reading the configuration, the ratings, the database and the
listener may fail; main then returns into its deferred `Clean`. `Clean` copies the
callbacks, invokes them in reverse and closes the logger; both main and the
signal can be in it. A line needs room in the channel and panics once the channel is
closed; panics of main are recovered after its `Clean`, others end the process.
Sessions, failed calls of `Accept` (`AcceptFails`) and invalid HTTP settings
(`SetUpHttp`) log as well, before, during and after a `Clean`. Lines still in the
channel when a panic ends the process are lost; no property says otherwise.

## 3. Runs

Runs that pass:

| Run | Instance | Distinct states | Shows |
|---|---|---|---|
| `lifecycle` | 3 sessions, 1 callsign, 3 lines, symmetry | 1.5 million | `NoLeakedCallsign`; `WindowOnlyWhileDisconnected`; `EndedSessionReleased`; `TableRefinement` |
| `lifecycle_liveness` | 2 sessions, 1 callsign, 3 lines, fairness | 0.5 million | `DisconnectedIsReclaimed` |
| `flight_plans` | 2 callsigns, 1 deleted client, 2 accounts, 2 controllers, 3 commands, symmetry | 0.5 million | `PlanHasRow`; `UncontendedIsSaved`; `LockHoldsUnlessOverlapped`; `SimulatorStaysInMemory` |
| `rate_limiter` | 2 keys, limit 2, window 2, 7 ticks, symmetry | 60 thousand | `WindowNeverExceeded`; `RefusedOnlyWhenFull`; `EntriesCanBeCleaned` |
| `delivery` | 4 clients, one may stall, 2 workers, 2 events, fairness | 0.6 million | `ClosedIsQuiet`; `ShutdownIsComplete`; `OthersReached`; `LeaverReleased` |
| `activities` | 2 activities, 2 facilities, 2 accounts, 2 requests, both databases, symmetry | 1.9 million | `SignUpCanBeCancelled`; `LookedSignUpsDiffer`; `EditSparesUnseen`; `OnlyOwnerCancels` |
| `activity_pilots` | 2 activities, 1 callsign, 2 accounts, 2 requests, both databases, symmetry | 0.1 million | `LookedCallsignsDiffer` |
| `accounts` | 2 accounts, 1 mailbox in 2 spellings, 2 codes, 2 requests, symmetry | 0.9 million | `EmailProved`; `EditsKeepOtherColumns`; `PasswordProved` |
| `tokens` | 2 accounts, 1 browser, 2 requests, 4 ticks | 1.4 million | `RefreshOutlivesAccess`; `AnswersAuthorised`; `NoPermissionFromNowhere` |
| `process_shutdown` | channel of 2, 3 session lines, fairness | 71 thousand | `EndsCleaned`; `DatabaseClosesLast`; `InterruptEnds` |

Each run but `lifecycle_liveness` and `activity_pilots` also checks the `TypeOK`
of its module.

What the properties of the web modules say is bounded by what the code keeps.
On a database server two concurrent sign-ups of one account can both pass the
look (`SignFacilityController`), so `LookedSignUpsDiffer` is stated for SQLite, and
there for the steps that look: an edit puts sign-ups back, a publish carries some,
and a sign-up whose look failed goes on without. On SQLite a sign-up can be left
without its facility, so `SignUpCanBeCancelled` is stated for a server; a facility
that was moved by the publish of another activity still exists, but its sign-ups are
found under an activity they do not belong to. `EditsKeepOtherColumns` has one
exception, the password that staff with the right to set it clear (below).
`NoPermissionFromNowhere` allows lost updates: of two edits of one account the later
write wins.

Runs that expect a violation; each states what a document or comment of the
repository says, and the counterexample is what the code does:

| Run | Promise | Counterexample |
|---|---|---|
| `lifecycle_reconnect` | a client that reconnected in time keeps its place | fatal error, reconnect within the delay, then the delayed `DeleteClient` removes the connected client |
| `flight_plan_race` | plans can be locked | a pilot's plan passed the test before the controller locked, and is written after |

Other disagreements the models reach, without a run of their own: a session that
logs in again under the callsign of a disconnected client abandons its first
client, which then holds its callsign for ever (`command_handler.go:37`); a
connection that was replaced closes, at its end, the connection its client has
reconnected with (`connection_handler.go:117`); a slow verification sets the user
of a client that another connection holds by then (`command_handler.go:57`); the
second look before a plan is inserted does not prevent two plans of one account
(`flight_plan_operation.go:48`); editing a client without a plan dereferences nil,
because the test at `command_handler.go:353` compares a method with nil; a first
plan filed after the look for the row failed at login replaces a locked row
(`flight_plan_operation.go:48-57`); a sign-up goes on when its look fails
(`activity_operation.go:165`, `202`); a publish request moves facilities and sign-ups
of other activities (`activity_operation.go:104`); an edit brings back sign-ups
cancelled since it loaded the activity (`activity_operation.go:274`); staff who
may set passwords clear the password of an account with every edit that names
none, although `README.md:200-201` gives a minimum length (`service/user.go:271`);
after a reconnect the message of the day is an empty line, because
`motdBytes[:0]` is not nil (`client.go:206`, `client.go:335`).

**Bounds.** `MaxLines` bounds the login and fatal lines of all sessions together;
drops, timers, kills and shutdown are not bounded. Three lines are enough for
login, disconnection and reconnection by another session with a third one
interfering; three sessions let an old, a new and a late connection meet at one
client. `MaxCommands` 3 lets a
plan be filed, then handled by any two of its pilot and two controllers at once, or by a
controller while its client is deleted, comes back and files again; logins and
deletions are not counted. `MaxTime` 7
with a window of 2 covers three windows and two rounds of cleanup of one key.
In `Delivery` two events are a broadcast or a kill while a peer goes, a request
or the shutdown comes. A broadcast leaves out its sender, so four clients give it
three receivers for two workers: one holds the stalled peer's slot and the loop waits
for the other. A shutdown has three clients for its two workers (`MaxStopping`), one
of the tables of `Connected` or what is left after a client went. Two requests are
every pair of handlers; two activities with two facilities are one to hold, one to
sign up for as well, and one to move either to. A publish request adds one facility
(`FirstSeats`) and carries or names one row more (`MaxCarried`). Two codes are the
right one and a wrong or replaced one. In `Tokens` four ticks
are one more than the longest token lives (`Expires` 1 and `Refresh` 2), so that
a permission revoked at the start must be gone. A channel of two lines fills up
under the lines of the cleanup alone. Deadlock is checked in the limiter only:
elsewhere the system may stop when every connection has ended, the bounds are
used up or the process is over.

**Fairness.** `lifecycle_liveness` assumes weak fairness of `TimerFires`,
`DeleteCheck`, `Delete` and `FatalDelete` for each client: the Go runtime runs
due timers and runnable goroutines. `Delete` waits for `client.lock`, which a
sender may hold during a write; `MarkedDisconnect` has closed that connection,
so the write returns. Nothing is assumed about peers, the database or logins.
`delivery` assumes weak fairness of `Progress` as a whole, which is less than that
of each goroutine: some goroutine that can run, runs. Writes to a peer in
`Stalled` are not in it, because no write has a deadline; `LeaverReleased` is
stated for peers that take every line in the end, `OthersReached` without that.
`process_shutdown` assumes weak fairness of the log worker and of the goroutine that
calls `Shutdown` and strong fairness of a goroutine in `Clean`, which competes with
the sessions for room in the log channel; Go serves waiting senders in turn.
Timeouts are included: a step that waits for one is enabled.

## 4. Theorems

Every invariant and every action property that a passing run checks is also a
theorem; the refinement of `CallsignTable` is one too. The proofs hold for all
sets of sessions, clients, callsigns, users, requests, keys and rows and for all
bounds: TLC shows that the statements are not vacuous, the proofs that the bounds
hide nothing. Each module proves one inductive invariant and draws the properties
from it; TLC checked each such invariant before it was proved.

**Assumptions.** nil differs from all objects: sessions (`NoneAssumption`), plans
and the jobs of handlers (`PlanAssumption`), rows (`ActivityAssumption`,
`AccountsAssumption`). The configuration flags are Boolean (`ConfigAssumption`);
window and limit are positive, which `http_server/server.go` enforces
(`LimiterAssumption`); deleted clients have names of their own (`PlanAssumption`); the number of broadcast workers is positive, and sessions,
requests, workers and timers are different goroutines (`DeliveryAssumption`).
TLC evaluates them in every run.

**Life cycle** (`ClientLifecycleProofs`). `NoLeakedCallsign` and
`EndedSessionReleased` are not inductive: a client could be marked while
`AddClient` is still to come and would then enter the table with nobody to
remove it. That cannot happen because nobody else knows the object: `Published`
says that its creator has tried `AddClient`, and `Structure` says that the table,
the logins of others (`found`), kill handlers and the shutdown snapshot hold
published objects only, that unpublished ones are attached to their creator only,
and that only published ones are ever disconnected. `LifecycleInv` adds the three
safety invariants. From it follow `TypeCorrect`, `NoCallsignLeaks`,
`WindowsAreClosed`, `EndedSessionsRelease` and, step by step, the refinement
`TableImplemented`.

**Flight plans** (`FlightPlansProofs`). The properties speak of moments when no
handler is at work. `PlansInv` says what each handler may rely on at each of its
control points: that the object it works on exists and still stands for the same
row (`HandlerOK`, `BufferOK`), and, for an uncontended plan, that this handler is
the only one and how far it has taken the object from the row (`SavedOK`,
`Ahead`), for the objects of deleted clients as well. `LockOK` says that a pilot's
handler that has met no controller is past its test only with an unlocked plan. From
it follow `PlansTyped`, `PlansHaveRows`, `UncontendedAreSaved`, `SimulatorInMemory` and,
for the steps of the pilot, `LocksHoldUnlessOverlapped`.

**Limiter** (`RateLimiterProofs`). The invariant `LimiterInv` says that the
records of a key are a suffix of its accepted times, that the missing prefix is
out of the window (`Suffix`), and that accepted times are ordered. `Allow` drops
and `Cleanup` deletes only what is out of the window (`DropKeepsSuffix`), so the
records decide exactly like the full history: `LimiterTyped`, `LimitHolds`,
`RefusalsAreDue`, `EntriesAreCleanable`.

**Delivery** (`DeliveryProofs`). A goroutine is found in three places: its control
point, the lock of its client, the walk that started it. `LockInv` says that the
readers of a lock are exactly those who write, `ClosedInv` that a closed client is
marked and has no readers, so nobody writes to it (`ClosedStaysQuiet`).
`WorkerInv`, `TimerInv` and `SessionInv` give each kind of goroutine its own range
of control points, so that none is started while it runs. `BusyInv` counts the
workers. For `ShutdownCompletes`, `ShutdownInv` follows each client of the snapshot:
it is still in the slice, being marked, being deleted, or out of the table; and
the slice goes back to the pool only when `Shutdown` gave up waiting (`WalkInv`).

**Activities** (`ActivitiesProofs`). A request remembers which activity a facility
belongs to; before it writes, the row may be deleted, and put back by an edit that
remembers it too. `OwnerInv` says that the id of a facility somebody knows, a row or a
request, was given out before, and that all know the same activity of it unless a
publish of another activity has named it (`named`): rows without an id take new
ones, and nobody but a publish or an edit changes the activity of a row. With
`EditInv`, what an edit remembers is consistent, and `SignUpsKeepFacilities` follows:
a server refuses sign-ups for facilities that are not there, and deletes a facility's
sign-ups with it. The action properties `EditsSpareUnseen`, `OwnersCancel`,
`LookedSignUpsDoNotDouble` and `LookedCallsignsDoNotDouble` follow from it and from who
writes to which table (`WhoWrites`).

**Accounts** (`AccountsProofs`). A code or password is verified in one step and the
row written in a later one. `LocalsOK` keeps what was verified with the locals of the
handler; it survives the steps of others because rows stay, keep their cid, and
what was proved or held is never forgotten (`Grows`): `EmailsAreProved`,
`OtherColumnsKept`, `PasswordsAreProved`.

**Tokens** (`TokensProofs`). `Signed` says of every token in a browser that a
permission in it was in the row at most `Expires + Refresh` before the token
expires. Renewing copies the row, not the token, so the bound never moves:
`RevokedAnswersEnd`, `RefreshTokensOutliveAccess`. `PermissionsComeFromSomewhere`
needs only the locals of the edits under way.

**Process** (`ProcessShutdownProofs`). Two goroutines may walk over the callbacks,
each with its own copy. `CleaningOK` says that nothing is added once one has its
copy, `CleanersOK` that the database registered first, `WalkOK` that what a walk has
passed was told to stop. A walk reaches the database last, so both walks together
keep `DatabaseOutlivesServers`. `EndInv` says that the log channel is closed only when
everybody on the list was told; a panic needs a closed channel and the exit a finished
walk, so every end but a second interrupt, or a log file that could not be opened,
comes after all callbacks (`EndsAreClean`).

**Only model-checked**: the liveness properties `DisconnectedIsReclaimed`,
`OthersReached`, `LeaverReleased` and `InterruptEnds`, because liveness under fairness
is out of the prover's reach, and the two violations, which are counterexamples.

## 5. Not modelled

* Positions, ATIS lines and the recorded path of a client, and floating-point
  distances: nothing but the broadcast filter depends on them.
* The heartbeat: `HeartbeatSender.Start` is never called.
* The `max_workers` semaphore of the accept loop; `CachedValue` and
  `OverflowTrigger`, a value and a counter behind a lock.
* Pure rules: callsign and frequency tests, rating and facility tables, packing
  of pitch, bank and heading.
* Rotation and removal of log files: `rotateIfNeeded` runs once, at the start, and
  `cleanOldLogs` is never called.
* File and cloud stores, mail templates and SMTP, the audit log, lists and
  searches, which change nothing; generated gRPC code, whose server is disabled.

## 6. Plan

1. An abstract limiter that keeps the full history and decides by it, with
   `RateLimiter` shown to implement it; an abstract shutdown that `Delivery`
   implements (a client is registered, disconnected, out of the table, in that order).
2. The pure rules as operators against reference definitions: callsign lengths
   (the protocol document says 3 to 12, the code accepts 3 to 11), frequencies,
   rating and facility tables, packing.
