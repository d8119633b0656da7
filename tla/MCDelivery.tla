----------------------------- MODULE MCDelivery -----------------------------
EXTENDS Delivery

CONSTANTS c1, c2, c3, c4

\* Everybody is as far from everybody as the supervisors see, and further
\* than the others.
MCDistance == [p \in Client \X Client |-> 2]
MCVisualRange == [c \in Client |-> IF c \in Sup THEN 2 ELSE 0]

\* A broadcast of the supervisor to the three others needs more workers than
\* there are; so does the shutdown of a server with three clients.
MCConnected == {{c1, c2, c3, c4}, {c1, c2, c3}}
=============================================================================
