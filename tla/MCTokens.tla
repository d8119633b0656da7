------------------------------ MODULE MCTokens ------------------------------
EXTENDS Tokens, TLC

MCBan == -1

\* Hand over the right to edit for the right to list, and back.
MCChange == {[UserEditPermission |-> b, UserShowList |-> ~b] : b \in BOOLEAN}

Symmetry == Permutations(Request) \cup Permutations(Session)
=============================================================================
