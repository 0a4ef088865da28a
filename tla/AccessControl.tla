----------------------------- MODULE AccessControl -----------------------------
(***************************************************************************)
(* What a request to the bookings passes before its handler calls          *)
(* BookingsService: JwtAuthGuard and JwtStrategy of every route, RolesGuard*)
(* of the vendors' routes, and the ValidationPipe of CreateBookingDto.  An *)
(* access token is known by its user; one that is absent, forged or expired*)
(* is Null.  Accounts are suspended and restored from outside.             *)
(***************************************************************************)
EXTENDS BookingRules, Sequences

CONSTANTS Requests, Services, Slots, Keys, Callers,
          UuidV4    \* the listings whose id is a version 4 UUID

ASSUME UuidAssumption == UuidV4 \subseteq Services

VARIABLES account,  \* account[u]: the status of user u
          http,     \* http[r]: the HTTP request that carries request r
          services, bookings, audit, req

bookingVars == <<services, bookings, audit, req>>
accessVars == <<account, http, services, bookings, audit, req>>

Booking == INSTANCE Bookings

\* What Bookings assumes of its constants.
ASSUME AccessAssumption ==
    /\ Callers \subseteq Clients \cup {Null}
    /\ Null \notin Keys \cup Requests
    /\ Null \notin Booking!Listing /\ Null \notin Booking!Row
    /\ Null \notin Booking!Answers

\* POST /bookings, PATCH /bookings/:id/status and POST /bookings/:id/cancel,
\* GET /bookings/:id, and POST /services, which ends here when it has passed.
Routes == {"book", "change", "view", "offer"}
PublicRoutes == {"book"}
RolesOf(route) == IF route = "offer" THEN Vendors ELSE Users

\* user is request.user; status what the request is refused with.
Http == [route : Routes \cup {Null}, bearer : Users \cup {Null},
         pc : {"new", "validate", "passed", "done"}, user : Users \cup {Null},
         answer : {Null, "unauthorized", "forbidden", "badRequest", "notFound", "ok"}]

NoHttp == [route |-> Null, bearer |-> Null, pc |-> "new", user |-> Null, answer |-> Null]

Answer(r, a) == http' = [http EXCEPT ![r].pc = "done", ![r].answer = a]

AccessInit ==
    /\ account \in [Users -> {"ACTIVE", "SUSPENDED"}]
    /\ http = [r \in Requests |-> NoHttp]
    /\ Booking!Init

\* Faulty variant: on a public route whoever has a token is the user, with no
\* look at the role: vendors and admins book too.
JwtAuthGuardAnyUser(r, route, bearer) ==
    /\ http[r] = NoHttp
    /\ http' = [http EXCEPT ![r] =
         LET arrived == [NoHttp EXCEPT !.route = route, !.bearer = bearer]
         IN  IF route \in PublicRoutes
             THEN [arrived EXCEPT !.pc = "passed", !.user = bearer]
             ELSE IF bearer = Null
                  THEN [arrived EXCEPT !.pc = "done", !.answer = "unauthorized"]
             ELSE [arrived EXCEPT !.pc = "validate"]]
    /\ UNCHANGED <<account, bookingVars>>

\* JwtAuthGuard.canActivate: a public route is passed without looking at the
\* token, so request.user stays undefined; else passport verifies the token.
JwtAuthGuard(r, route, bearer) ==
    /\ http[r] = NoHttp
    /\ http' = [http EXCEPT ![r] =
         LET arrived == [NoHttp EXCEPT !.route = route, !.bearer = bearer]
         IN  IF route \in PublicRoutes THEN [arrived EXCEPT !.pc = "passed"]
             ELSE IF bearer = Null
                  THEN [arrived EXCEPT !.pc = "done", !.answer = "unauthorized"]
             ELSE [arrived EXCEPT !.pc = "validate"]]
    /\ UNCHANGED <<account, bookingVars>>

\* Faulty variants: the user that was read is not attached to the request, and
\* the status of the account is not looked at.
ValidateDetached(r) ==
    /\ http[r].pc = "validate"
    /\ LET u == http[r].bearer
       IN  IF account[u] # "ACTIVE" THEN Answer(r, "unauthorized")
           ELSE IF u \notin RolesOf(http[r].route) THEN Answer(r, "forbidden")
           ELSE http' = [http EXCEPT ![r].pc = "passed"]
    /\ UNCHANGED <<account, bookingVars>>
ValidateAnyStatus(r) ==
    /\ http[r].pc = "validate"
    /\ http' = [http EXCEPT ![r].pc = "passed", ![r].user = http[r].bearer]
    /\ UNCHANGED <<account, bookingVars>>

\* RolesGuard.canActivate compares the user's role with those of the route, if any.
RolesGuard(r, u) ==
    IF u \notin RolesOf(http[r].route) THEN Answer(r, "forbidden")
    ELSE http' = [http EXCEPT ![r].pc = "passed", ![r].user = u]

\* JwtStrategy.validate reads the user of the token; RolesGuard is next.
Validate(r) ==
    /\ http[r].pc = "validate"
    /\ LET u == http[r].bearer
       IN  IF account[u] # "ACTIVE" THEN Answer(r, "unauthorized") ELSE RolesGuard(r, u)
    /\ UNCHANGED <<account, bookingVars>>

\* CreateBookingDto.serviceId: @IsUUID('4').
IsUuid4(s) == s \in UuidV4

\* BookingsController.create: the pipe wants a version 4 serviceId, and clientId
\* is request.user's.
Book(r, s, t, k, inFuture) ==
    /\ http[r].pc = "passed" /\ http[r].route = "book"
    /\ IF ~IsUuid4(s)
       THEN Answer(r, "badRequest") /\ UNCHANGED bookingVars
       ELSE /\ http' = [http EXCEPT ![r].pc = "done"]
            /\ Booking!Create(r, s, t, http[r].user, k, inFuture)
    /\ UNCHANGED account

\* BookingsController.updateStatus and cancel.
Change(r, b, to) ==
    /\ http[r].pc = "passed" /\ http[r].route = "change"
    /\ http' = [http EXCEPT ![r].pc = "done"]
    /\ Booking!UpdateStatus(r, b, to, http[r].user)
    /\ UNCHANGED account

\* BookingsController.findOne.
View(r, b) ==
    /\ http[r].pc = "passed" /\ http[r].route = "view"
    /\ Answer(r, ViewVerdict(bookings[b], Booking!JoinedVendor(bookings[b]), http[r].user))
    /\ UNCHANGED <<account, bookingVars>>

SetAccount(u) ==
    /\ account' = [account EXCEPT ![u] = IF @ = "ACTIVE" THEN "SUSPENDED" ELSE "ACTIVE"]
    /\ UNCHANGED <<http, bookingVars>>

\* The service goes on with the requests it has been handed.
ServiceStep ==
    /\ \/ \E r \in Requests : Booking!Progress(r) \/ Booking!Mishap(r)
       \/ \E s \in Services : Booking!ListingChanges(s)
    /\ UNCHANGED <<account, http>>

Handle(r) ==
    \/ \E s \in Services, t \in Slots, k \in Keys \cup {Null}, inFuture \in BOOLEAN :
         Book(r, s, t, k, inFuture)
    \/ \E b \in Requests : View(r, b) \/ \E to \in Statuses : Change(r, b, to)

AccessNext ==
    \/ \E r \in Requests :
         \/ \E route \in Routes, bearer \in Users \cup {Null} : JwtAuthGuard(r, route, bearer)
         \/ Validate(r) \/ Handle(r)
    \/ \E u \in Users : SetAccount(u)
    \/ ServiceStep

AccessSpec == AccessInit /\ [][AccessNext]_accessVars
-----------------------------------------------------------------------------
\* Every variable has its type; a handler behind the guards has a user, and no
\* handler has one but that of the token.
AccessTypeOK ==
    /\ account \in [Users -> {"ACTIVE", "SUSPENDED"}]
    /\ http \in [Requests -> Http]
    /\ \A r \in Requests :
         /\ http[r].user # Null => http[r].user = http[r].bearer
         /\ http[r].pc = "passed" /\ http[r].route \notin PublicRoutes => http[r].user # Null

\* The requests the guards and the pipe let through are requests the service was
\* modelled for: a booking is created for nobody or for a client, never for a
\* vendor or an admin, and its status is changed by a user who is known.
ImplementsBookings == Booking!Spec

\* u is suspended and no request that was authenticated before is in flight.
Silenced(u) ==
    /\ account[u] = "SUSPENDED"
    /\ \A r \in Requests : http[r].user = u => http[r].pc = "done" /\ ~Booking!InFlight(r)

LoggedBy(u, b) == {i \in DOMAIN audit[b] : audit[b][i].by = u}

\* An access token outlives a suspension and is worth nothing: once the requests
\* authenticated before have ended, a suspended user changes no booking until
\* the account is restored.
SuspendedChangesNothing ==
    [][\A u \in Users : Silenced(u) =>
          /\ Silenced(u)' \/ account'[u] = "ACTIVE"
          /\ \A b \in Requests : LoggedBy(u, b)' = LoggedBy(u, b)]_accessVars
-----------------------------------------------------------------------------
(* What the repository says of POST /bookings and the public route breaks *)

\* `POST /bookings (Bearer Token)', `Guard checks Client role & JWT validity': what
\* a client books with a token is that client's booking.
BookedByBearer ==
    \A r \in Requests :
        bookings[r] # Null /\ http[r].bearer \in Clients =>
            bookings[r].client = http[r].bearer
===============================================================================
