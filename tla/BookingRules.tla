----------------------------- MODULE BookingRules -----------------------------
(***************************************************************************)
(* The decisions of src/src/bookings/services/booking-helper.ts as pure    *)
(* operators: which booking may be created, which status change is allowed *)
(* and to whom, who may look at a booking.  A row that does not exist, a   *)
(* column that is NULL and a joined relation that is missing are Null.     *)
(***************************************************************************)
CONSTANTS Clients, Vendors, Admins,   \* the users, by role (UserRole)
          Null

ASSUME RolesAssumption ==
    /\ Clients \cap Vendors = {}
    /\ (Clients \cup Vendors) \cap Admins = {}
    /\ Null \notin Clients \cup Vendors \cup Admins

Users == Clients \cup Vendors \cup Admins

Statuses == {"PENDING", "CONFIRMED", "COMPLETED", "CANCELLED"}

ASSUME NullAssumption == Null \notin Statuses

\* The statuses hasDuplicateBooking looks for.
ActiveStatuses == {"PENDING", "CONFIRMED", "COMPLETED"}

\* Faulty variants, for the runs to tell from the code: a table that lets PENDING
\* be completed, and one that reopens cancelled bookings.
AllowedTransitionsSkip ==
    [s \in Statuses |-> CASE s = "PENDING"   -> {"CONFIRMED", "COMPLETED", "CANCELLED"}
                          [] s = "CONFIRMED" -> {"COMPLETED", "CANCELLED"}
                          [] OTHER           -> {}]
AllowedTransitionsReopen ==
    [s \in Statuses |-> CASE s = "PENDING"   -> {"CONFIRMED", "CANCELLED"}
                          [] s = "CONFIRMED" -> {"COMPLETED", "CANCELLED"}
                          [] s = "CANCELLED" -> {"CONFIRMED"}
                          [] OTHER           -> {}]

AllowedTransitions ==
    [s \in Statuses |-> CASE s = "PENDING"   -> {"CONFIRMED", "CANCELLED"}
                          [] s = "CONFIRMED" -> {"COMPLETED", "CANCELLED"}
                          [] OTHER           -> {}]

\* Faulty variant: isActive alone is looked at, which a removal clears as well.
CreationVerdictActive(listing, inFuture) ==
    IF listing = Null THEN "notFound"
    ELSE IF ~listing.active \/ ~inFuture THEN "invalid"
    ELSE "ok"

\* validateBookingCreation: listing is the row the repository returned,
\* inFuture whether the requested date and time parse and lie ahead.
CreationVerdict(listing, inFuture) ==
    IF listing = Null \/ listing.archived THEN "notFound"
    ELSE IF ~listing.active \/ ~inFuture THEN "invalid"
    ELSE "ok"

\* isClientOwner, isVendorOwner and isAdmin; vendor is booking.service?.vendorId.
IsClientOwner(booking, user) == booking.client # Null /\ booking.client = user
IsVendorOwner(vendor, user)  == vendor = user
HasAuthority(booking, vendor, user) ==
    IsClientOwner(booking, user) \/ IsVendorOwner(vendor, user) \/ user \in Admins

\* Faulty variant: clients are not confined to cancelling.
BeyondRoleVendorOnly(booking, vendor, user, to) ==
    /\ user \notin Admins
    /\ IsVendorOwner(vendor, user) /\ ~IsClientOwner(booking, user)
    /\ to = "PENDING"

\* Nobody but the vendor or an admin may do more than cancel, and a vendor
\* may not go back to PENDING.
BeyondRole(booking, vendor, user, to) ==
    /\ user \notin Admins
    /\ \/ /\ IsClientOwner(booking, user) /\ ~IsVendorOwner(vendor, user)
          /\ to # "CANCELLED"
       \/ /\ IsVendorOwner(vendor, user) /\ ~IsClientOwner(booking, user)
          /\ to = "PENDING"

\* validateStatusTransition, with the early return of updateStatus before it:
\* a booking that already has the requested status is returned as it is.
TransitionVerdict(booking, vendor, to, user) ==
    IF booking = Null THEN "notFound"
    ELSE IF booking.status = to THEN "unchanged"
    ELSE IF booking.status = "CANCELLED" /\ to = "COMPLETED" THEN "invalid"
    ELSE IF ~HasAuthority(booking, vendor, user) THEN "forbidden"
    ELSE IF BeyondRole(booking, vendor, user, to) THEN "forbidden"
    ELSE IF to \notin AllowedTransitions[booking.status] THEN "conflict"
    ELSE "ok"

\* validateBookingView
ViewVerdict(booking, vendor, user) ==
    IF booking = Null THEN "notFound"
    ELSE IF ~HasAuthority(booking, vendor, user) THEN "forbidden"
    ELSE "ok"
===============================================================================
