------------------------- MODULE MCClientLifecycle --------------------------
EXTENDS ClientLifecycle, TLC

\* Sessions and users are interchangeable.
Symmetry == Permutations(Session)
=============================================================================
