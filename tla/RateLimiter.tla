---------------------------- MODULE RateLimiter ----------------------------
(***************************************************************************)
(* The sliding-window limiter of the web API (SlidingWindowLimiter).  Each *)
(* operation runs under the limiter's mutex and reads the clock there, so  *)
(* it is one atomic action.  The clock is Go's monotonic clock, in ticks.  *)
(* The answers given are kept beside the limiter's own state, so that its  *)
(* decisions can be compared with every request it ever accepted.          *)
(***************************************************************************)
EXTENDS Integers, Sequences

CONSTANTS Key,         \* client address and path (CombinedKeyFunc)
          Window,      \* windowSize
          MaxRequests, \* maxRequests
          MaxTime      \* bound: the clock stops here

\* server.go replaces limits that are not positive by defaults.
ASSUME LimiterAssumption ==
  /\ Window \in Nat \ {0}
  /\ MaxRequests \in Nat \ {0}
  /\ MaxTime \in Nat

VARIABLES
  now,     \* the clock
  known,   \* keys requestRecords has an entry for
  records, \* requestRecords: the entry of each key, empty for no entry
  accepted \* every time at which a request of the key was let through

vars == <<now, known, records, accepted>>

Init ==
  /\ now = 0
  /\ known = {}
  /\ records = [k \in Key |-> <<>>]
  /\ accepted = [k \in Key |-> <<>>]

\* The clock advances.
Tick ==
  /\ now < MaxTime
  /\ now' = now + 1
  /\ UNCHANGED <<known, records, accepted>>

\* Variant: nothing ever leaves the window.
ExpiredNever(recs, n, start) == n = 0

\* n records at the head of recs are older than start and the next is not:
\* the loop of Allow drops exactly these.
Expired(recs, n, start) ==
  /\ \A i \in 1..n : recs[i] < start
  /\ n < Len(recs) => recs[n + 1] >= start

Live(recs, n) == SubSeq(recs, n + 1, Len(recs))

Full(recs) == Len(recs) >= MaxRequests

\* Variant: the start of the window is recorded instead of the time.
AllowRecordsStart(k) ==
  \E n \in 0..Len(records[k]) :
    LET live == Live(records[k], n) IN
    /\ Expired(records[k], n, now - Window)
    /\ ~Full(live)
    /\ known' = known \cup {k}
    /\ records' = [records EXCEPT ![k] = Append(live, now - Window)]
    /\ accepted' = [accepted EXCEPT ![k] = Append(@, now)]
    /\ UNCHANGED now

\* Variant: an accepted request is not recorded.
AllowUnrecorded(k) ==
  \E n \in 0..Len(records[k]) :
    LET live == Live(records[k], n) IN
    /\ Expired(records[k], n, now - Window)
    /\ ~Full(live)
    /\ known' = known \cup {k}
    /\ records' = [records EXCEPT ![k] = live]
    /\ accepted' = [accepted EXCEPT ![k] = Append(@, now)]
    /\ UNCHANGED now

\* Allow, and what RateLimitMiddleware makes of it: the request is served ...
Allow(k) ==
  \E n \in 0..Len(records[k]) :
    LET live == Live(records[k], n) IN
    /\ Expired(records[k], n, now - Window)
    /\ ~Full(live)
    /\ known' = known \cup {k}
    /\ records' = [records EXCEPT ![k] = Append(live, now)]
    /\ accepted' = [accepted EXCEPT ![k] = Append(@, now)]
    /\ UNCHANGED now

\* ... or answered with RATE_LIMIT_EXCEEDED.
Refuse(k) ==
  \E n \in 0..Len(records[k]) :
    LET live == Live(records[k], n) IN
    /\ Expired(records[k], n, now - Window)
    /\ Full(live)
    /\ known' = known \cup {k}
    /\ records' = [records EXCEPT ![k] = live]
    /\ UNCHANGED <<now, accepted>>

\* Variant: a key goes when its oldest record is out of the window.
IdleByOldest(k) ==
  /\ k \in known
  /\ Len(records[k]) > 0
  /\ records[k][1] < now - Window

\* cleanup removes a key whose latest record is two windows old.
Idle(k) ==
  /\ k \in known
  /\ Len(records[k]) > 0
  /\ records[k][Len(records[k])] < now - 2 * Window

\* One round of the cleanup goroutine.
Cleanup ==
  /\ \E k \in Key : Idle(k)
  /\ known' = {k \in known : ~Idle(k)}
  /\ records' = [k \in Key |-> IF Idle(k) THEN <<>> ELSE records[k]]
  /\ UNCHANGED <<now, accepted>>

Next ==
  \/ Tick
  \/ \E k \in Key : Allow(k) \/ Refuse(k)
  \/ Cleanup

Spec == Init /\ [][Next]_vars

-----------------------------------------------------------------------------
\* The clock and the recorded times are natural numbers, and only keys of the
\* API have entries.
TypeOK ==
  /\ now \in Nat
  /\ known \subseteq Key
  /\ records \in [Key -> Seq(Nat)]
  /\ accepted \in [Key -> Seq(Nat)]

\* Whatever cleanup and the loop of Allow threw away, MaxRequests + 1 accepted
\* requests of one key never fall into one window.
WindowNeverExceeded ==
  \A k \in Key : \A i \in 1..Len(accepted[k]) :
    i + MaxRequests <= Len(accepted[k]) =>
      accepted[k][i + MaxRequests] - accepted[k][i] > Window

\* A request is refused only while the last MaxRequests accepted requests of
\* its key all fall into the window that ends now.
RefusedOnlyWhenFull ==
  \A k \in Key : \A n \in 0..Len(records[k]) :
    Expired(records[k], n, now - Window) /\ Full(Live(records[k], n)) =>
      LET last == Len(accepted[k]) IN
      /\ last >= MaxRequests
      /\ accepted[k][last - MaxRequests + 1] >= now - Window

\* cleanup passes over a key whose entry is empty, so such an entry would stay
\* for ever: every entry the limiter leaves behind holds a record.
EntriesCanBeCleaned == \A k \in known : records[k] # <<>>
=============================================================================
