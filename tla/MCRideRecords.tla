---------------------------- MODULE MCRideRecords ----------------------------
(* Small instances of RideRecords for TLC.                                  *)
EXTENDS RideRecords, TLC

CONSTANTS id1, id2, r1, r2

TwoIds == {id1, id2}
TwoRides == {r1, r2}

\* Two spellings of Ann's address, one of Bob's, and one that is no address.
SomeEmails == {"ann", "Ann", "bob", "@"}
Lower == [e \in SomeEmails |-> IF e = "Ann" THEN "ann" ELSE e]

Symmetric == Permutations(TwoIds) \cup Permutations(TwoRides)
=============================================================================
