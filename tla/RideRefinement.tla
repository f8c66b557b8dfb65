----------------------------- MODULE RideRefinement -----------------------------
(* RideService implements RideLedger: the state of a ride in the ledger is  *)
(* read off the stored ride and the request that is returning it.           *)
EXTENDS RideService

ReturningAt(r, where) == \E t \in Tasks : pc[t] = where /\ req[t].ride = r

LedgerState(r) ==
  CASE ride[r].status = "none" -> "new"
    [] ride[r].status = "active" -> "riding"
    [] OTHER -> IF ReturningAt(r, "end.charge") THEN "owed"
                ELSE IF ReturningAt(r, "end.dock") THEN "paid"
                ELSE IF ride[r].fee = 0 THEN "free" ELSE "closed"

LedgerView == [r \in Rides |-> [state |-> LedgerState(r), user |-> ride[r].user,
                                vehicle |-> ride[r].vehicle]]

ParkedView == UNION {docked[s] : s \in Stations}

L == INSTANCE RideLedger WITH ledger <- LedgerView, parked <- ParkedView

\* Every step of the service is one step of the ledger or leaves it alone: the
\* handlers, interleaved at their awaits, act on rides and vehicles as if each
\* effect happened at once (README "async locks ... to prevent double-booking").
ImplementsLedger == L!Spec
=============================================================================
