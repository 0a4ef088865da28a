--------------------------- MODULE BookingLifecycle ---------------------------
(***************************************************************************)
(* The life of bookings and their audit trails as the transition table of  *)
(* booking-helper.ts tells it: a booking starts PENDING and follows        *)
(* AllowedTransitions, and the trail is its exact history.  Bookings       *)
(* implements it only while requests are handled one at a time.            *)
(***************************************************************************)
EXTENDS BookingRules, Naturals, Sequences

CONSTANT Ids
VARIABLES status,   \* status[b] of each booking, Null before it exists
          trail     \* trail[b]: the status changes <<from, to>> of b

vars == <<status, trail>>

Init ==
    /\ status = [b \in Ids |-> Null]
    /\ trail = [b \in Ids |-> <<>>]

Change(b, to) ==
    /\ status' = [status EXCEPT ![b] = to]
    /\ trail' = [trail EXCEPT ![b] = Append(@, <<status[b], to>>)]

Book(b) == status[b] = Null /\ Change(b, "PENDING")

Move(b, to) ==
    /\ status[b] # Null
    /\ to \in AllowedTransitions[status[b]]
    /\ Change(b, to)

Next == \E b \in Ids : Book(b) \/ \E to \in Statuses : Move(b, to)

Spec == Init /\ [][Next]_vars
-----------------------------------------------------------------------------
\* Whoever reads the trail of a booking reads its whole life: it opens with the
\* creation, every entry starts where the one before it ended, the last leads to
\* the status, and there are three at most.
TrailIsChain ==
    \A b \in Ids :
        /\ status[b] = Null <=> trail[b] = <<>>
        /\ status[b] # Null => /\ trail[b][1] = <<Null, "PENDING">>
                               /\ trail[b][Len(trail[b])][2] = status[b]
        /\ \A i \in 2 .. Len(trail[b]) : trail[b][i][1] = trail[b][i - 1][2]
        /\ Len(trail[b]) <= 3
===============================================================================
