---------------------------- MODULE SlotReservation ----------------------------
(***************************************************************************)
(* What the booking API promises of its calendar: a place (a service at a  *)
(* date and time) is held by at most one booking, is taken only while it   *)
(* is free, and a booking holds at most one place.  Bookings implements it.*)
(***************************************************************************)
CONSTANTS Places, Holders
VARIABLE held     \* held[p]: the bookings that hold place p

Free(p) == held[p] = {}

\* A calendar, empty or not, in which nothing is booked twice.
Init ==
    /\ held \in [Places -> {{}} \cup {{b} : b \in Holders}]
    /\ \A p, q \in Places : held[p] = held[q] => p = q \/ Free(p)

Take(p, b) ==
    /\ Free(p)
    /\ \A q \in Places : b \notin held[q]
    /\ held' = [held EXCEPT ![p] = {b}]

Release(p, b) ==
    /\ held[p] = {b}
    /\ held' = [held EXCEPT ![p] = {}]

Next == \E p \in Places, b \in Holders : Take(p, b) \/ Release(p, b)

Spec == Init /\ [][Next]_held
===============================================================================
