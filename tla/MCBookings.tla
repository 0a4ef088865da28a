------------------------------ MODULE MCBookings ------------------------------
(* Bookings on small instances. *)
EXTENDS Bookings, TLC

RequestSymmetry == Permutations(Requests)

\* A request that has ended before the run begins: it has booked a place of an
\* open listing, with a key or without.
First == CHOOSE r \in Requests : TRUE

BookedInit ==
    /\ services \in [Services -> [vendor : Vendors, active : {TRUE}, archived : {FALSE}]]
    /\ \E row \in Row :
         /\ row.status = "PENDING" /\ row.client \in Callers
         /\ bookings = [b \in Requests |-> IF b = First THEN row ELSE Null]
         /\ audit = [b \in Requests |-> IF b = First
                       THEN <<[by |-> row.client, from |-> Null, to |-> "PENDING"]>>
                       ELSE <<>>]
    /\ req = [r \in Requests |-> IF r = First THEN Done("create", "ok") ELSE Idle]

BookedSpec == BookedInit /\ [][Next]_vars /\ Fairness
===============================================================================
