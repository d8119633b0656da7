---------------------------- MODULE CallsignTable ----------------------------
(***************************************************************************)
(* What the callsign table promises, without sessions, locks, timers or    *)
(* goroutines.  A callsign is free, or it belongs to one client that is    *)
(* online or in its grace period.  A callsign changes hands only by        *)
(* becoming free first, and nobody enters the table already disconnected.  *)
(***************************************************************************)
CONSTANTS Callsign, Client, None

VARIABLES owner,  \* the client a callsign belongs to, or None
          grace   \* the callsigns whose owner is disconnected

tableVars == <<owner, grace>>

TableInit ==
  /\ owner = [k \in Callsign |-> None]
  /\ grace = {}

\* A client logs in under a free callsign.
Register(k, c) ==
  /\ owner[k] = None
  /\ owner' = [owner EXCEPT ![k] = c]
  /\ UNCHANGED grace

\* The owner loses its connection and keeps the callsign.
Lose(k) ==
  /\ owner[k] # None
  /\ grace' = grace \cup {k}
  /\ UNCHANGED owner

\* The same client comes back.
Resume(k) ==
  /\ k \in grace
  /\ grace' = grace \ {k}
  /\ UNCHANGED owner

\* The callsign becomes free.
Release(k) ==
  /\ owner[k] # None
  /\ owner' = [owner EXCEPT ![k] = None]
  /\ grace' = grace \ {k}

TableNext ==
  \E k \in Callsign :
    \/ \E c \in Client : Register(k, c)
    \/ Lose(k)
    \/ Resume(k)
    \/ Release(k)

TableSpec == TableInit /\ [][TableNext]_tableVars
=============================================================================
