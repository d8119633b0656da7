---------------------------- MODULE MCActivities ----------------------------
EXTENDS Activities, TLC

CONSTANTS c1, c2,
          Rights    \* permissions of c1

\* c1 runs the activities; both may control and fly.
MCPermission == [c \in Cid |-> IF c = c1 THEN Rights ELSE {}]
MCRating == [c \in Cid |-> 3]
NoSeat == {<<>>}
OneSeat == {<<2>>}
UpToOneSeat == NoSeat \cup OneSeat
Symmetry == Permutations(Request) \cup Permutations(Activity)
=============================================================================
