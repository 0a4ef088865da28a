------------------------------- MODULE Platform -------------------------------
(***************************************************************************)
(* The catalogue and the bookings over one database: ServicesService owns  *)
(* the table services, BookingsService reads it, once to validate a create *)
(* and joined to every booking it loads.  A step is a step of one of them. *)
(***************************************************************************)
EXTENDS Catalog, Sequences

CONSTANTS Requests, Slots, Keys, Clients, Admins, Callers

VARIABLES bookings, audit, req

platformVars == <<listings, edit, bookings, audit, req>>

\* What BookingsService looks at in a listing; its price is not one of them.
Offer(l) == [vendor |-> l.vendor, active |-> l.active, archived |-> l.archived]

Offers == [s \in Edits |-> IF listings[s] = Null THEN Null ELSE Offer(listings[s])]

Booking == INSTANCE Bookings WITH Services <- Edits, services <- Offers

\* What Bookings assumes of its constants.
ASSUME PlatformAssumption ==
    /\ Clients \cap Vendors = {}
    /\ (Clients \cup Vendors) \cap Admins = {}
    /\ Null \notin Clients \cup Vendors \cup Admins
    /\ Null \notin Booking!Statuses
    /\ Callers \subseteq Clients \cup {Null}
    /\ Null \notin Keys \cup Requests
    /\ Null \notin Booking!Listing /\ Null \notin Booking!Row
    /\ Null \notin Booking!Answers

PlatformInit ==
    /\ CatalogInit
    /\ bookings = [b \in Requests |-> Null]
    /\ audit = [b \in Requests |-> <<>>]
    /\ req = [r \in Requests |-> Booking!Idle]

CatalogStep == CatalogNext /\ UNCHANGED <<bookings, audit, req>>
BookingStep == UNCHANGED catalogVars /\ Booking!RequestNext

PlatformNext == CatalogStep \/ BookingStep

PlatformSpec == PlatformInit /\ [][PlatformNext]_platformVars

-----------------------------------------------------------------------------
\* The catalogue is an environment the bookings were modelled for: whatever
\* vendors do to their listings, the bookings behave as Bookings specifies.
ImplementsBookings == Booking!Spec

\* Request r is to book listing s, which it has found listed.
BookingOf(r, s) == /\ Booking!InFlight(r)
                   /\ req[r].op = "create" /\ req[r].row.service = s

Withdrawn(s) == /\ IsArchived(s) /\ Untouched(s)
                /\ \A r \in Requests : ~BookingOf(r, s)

BookedOn(s) == {b \in Requests : bookings[b] # Null /\ bookings[b].service = s}

\* Once a listing is archived and the edits and creates that found it before have
\* ended, it takes no booking ever again, whatever its column isActive has become
\* by edits that overtook the removal.  A create that found the listing before may
\* still book it: create reads the listing before its transaction, and only once.
WithdrawnTakesNoBooking ==
    [][\A s \in Edits : Withdrawn(s) => Withdrawn(s)' /\ BookedOn(s)' = BookedOn(s)
      ]_platformVars
===============================================================================
