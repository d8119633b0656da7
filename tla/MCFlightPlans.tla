---------------------------- MODULE MCFlightPlans ----------------------------
EXTENDS FlightPlans, TLC

Symmetry == Permutations(Client) \cup Permutations(Controller)
              \cup Permutations(Account) \cup Permutations(Leg)
              \cup Permutations(Level)
=============================================================================
