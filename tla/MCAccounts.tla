----------------------------- MODULE MCAccounts -----------------------------
EXTENDS Accounts, FiniteSets, TLC

CONSTANTS m1, short

\* One mailbox spelled in two ways; one password that is too short.
MCLower == [e \in Email |-> m1]
MCLength == [t \in Text |-> IF t = Empty THEN 0 ELSE IF t = short THEN 1 ELSE 2]
MCMin == [f \in Field |-> IF f = "cid" THEN 1 ELSE 2]
MCMax == [f \in Field |-> 2]

\* One thing at a time: a name, an address or a password.
MCEdits ==
  {edit \in [username : Username \cup {Empty}, email : Email \cup {Empty},
             origin : Password \cup {Empty}, new : Password \cup {Empty}] :
     LET named == {c \in {"username", "email"} : edit[c] # Empty} IN
     \/ Cardinality(named) = 1 /\ edit.origin = Empty /\ edit.new = Empty
     \/ named = {} /\ edit.new # Empty}

\* Both spellings are of the same mailbox, so they are alike too.
Symmetry ==
  Permutations(Request) \cup Permutations(Username) \cup Permutations(Email)
    \cup Permutations(Code)
=============================================================================
