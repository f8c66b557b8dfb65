---------------------------- MODULE MCUserAccounts ----------------------------
(* Small instances of UserAccounts for TLC.                                 *)
EXTENDS UserAccounts, TLC

CONSTANTS id1, id2, id3

SomeIds == {id1, id2, id3}

\* Two spellings of Ann's address, one of Bob's, and one that is no address.
SomeEmails == {"ann", "Ann", "bob", "@"}
Lower == [e \in SomeEmails |-> IF e = "Ann" THEN "ann" ELSE e]

Symmetric == Permutations(SomeIds)
=============================================================================
