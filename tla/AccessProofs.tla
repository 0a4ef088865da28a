------------------------------ MODULE AccessProofs ------------------------------
(***************************************************************************)
(* What the guards guarantee for any users and requests: who a handler     *)
(* takes the caller for is the user of the token, and the requests that    *)
(* get through are requests the service was modelled for.                  *)
(***************************************************************************)
EXTENDS AccessControl, Integers, TLAPS

\* A request that waits for its user to be read has a token and a guarded route.
Waiting == \A r \in Requests : http[r].pc = "validate" =>
              http[r].bearer \in Users /\ http[r].route \in Routes \ PublicRoutes
                                       /\ http[r].user = Null

Fresh == \A r \in Requests : http[r].pc = "new" => http[r].user = Null

\* On a public route no handler knows its user.
Unknown == \A r \in Requests :
              http[r].pc = "passed" /\ http[r].route \in PublicRoutes => http[r].user = Null

AccessInv == AccessTypeOK /\ Waiting /\ Fresh /\ Unknown

LEMMA NullUser == Null \notin Users
BY RolesAssumption DEF Users

LEMMA InitAccess == AccessInit => AccessInv
<1> SUFFICES ASSUME AccessInit PROVE AccessInv
  OBVIOUS
<1>1. /\ NoHttp \in Http /\ NoHttp.pc = "new" /\ NoHttp.user = Null
  BY DEF NoHttp, Http
<1> QED BY <1>1 DEF AccessInit, AccessInv, AccessTypeOK, Waiting, Fresh, Unknown

\* One request goes on and is sound afterwards.
LEMMA HttpStep ==
    ASSUME AccessInv, NEW r \in Requests, NEW next \in Http, http' = [http EXCEPT ![r] = next],
           account' = account,
           next.user # Null => next.user = next.bearer,
           next.pc = "passed" => (next.user = Null <=> next.route \in PublicRoutes),
           next.pc = "validate" => next.bearer \in Users /\ next.route \in Routes \ PublicRoutes
                                                         /\ next.user = Null,
           next.pc # "new"
    PROVE  AccessInv'
<1>1. \A q \in Requests : http'[q] = IF q = r THEN next ELSE http[q]
  BY DEF AccessInv, AccessTypeOK
<1>2. AccessTypeOK'
  BY <1>1 DEF AccessInv, AccessTypeOK
<1>3. Waiting' /\ Fresh' /\ Unknown'
  BY <1>1 DEF AccessInv, Waiting, Fresh, Unknown
<1> QED BY <1>2, <1>3 DEF AccessInv

\* A request that ends keeps the user it has.
LEMMA EndStep ==
    ASSUME AccessInv, NEW r \in Requests, NEW next \in Http, http' = [http EXCEPT ![r] = next],
           account' = account, next.pc = "done", next.user = http[r].user,
           next.bearer = http[r].bearer
    PROVE  AccessInv'
<1>1. next.user # Null => next.user = next.bearer
  BY DEF AccessInv, AccessTypeOK
<1> QED BY <1>1, HttpStep

LEMMA GuardStep ==
    ASSUME AccessInv, NEW r \in Requests, NEW route \in Routes, NEW bearer \in Users \cup {Null},
           JwtAuthGuard(r, route, bearer)
    PROVE  AccessInv'
<1> DEFINE arrived == [NoHttp EXCEPT !.route = route, !.bearer = bearer]
<1> DEFINE next == IF route \in PublicRoutes THEN [arrived EXCEPT !.pc = "passed"]
                   ELSE IF bearer = Null
                        THEN [arrived EXCEPT !.pc = "done", !.answer = "unauthorized"]
                   ELSE [arrived EXCEPT !.pc = "validate"]
<1>1. http' = [http EXCEPT ![r] = next] /\ account' = account
  BY DEF JwtAuthGuard
<1>2. /\ next \in Http /\ next.user = Null /\ next.bearer = bearer /\ next.route = route
      /\ next.pc = IF route \in PublicRoutes THEN "passed"
                   ELSE IF bearer = Null THEN "done" ELSE "validate"
  BY DEF NoHttp, Http
<1> HIDE DEF next
<1> QED BY <1>1, <1>2, HttpStep

LEMMA AnswerStep ==
    ASSUME AccessInv, NEW r \in Requests, account' = account,
           NEW a, a \in {Null, "unauthorized", "forbidden", "badRequest", "notFound", "ok"},
           Answer(r, a)
    PROVE  AccessInv'
<1> DEFINE next == [http[r] EXCEPT !.pc = "done", !.answer = a]
<1>1. http' = [http EXCEPT ![r] = next] /\ http[r] \in Http
  BY DEF Answer, AccessInv, AccessTypeOK, Http
<1>2. /\ next \in Http /\ next.pc = "done" /\ next.user = http[r].user
      /\ next.bearer = http[r].bearer
  BY <1>1 DEF Http
<1> HIDE DEF next
<1> QED BY <1>1, <1>2, EndStep

LEMMA ValidateStep == ASSUME AccessInv, NEW r \in Requests, Validate(r) PROVE AccessInv'
<1> DEFINE u == http[r].bearer
<1> DEFINE next == [http[r] EXCEPT !.pc = "passed", !.user = u]
<1>1. /\ http[r].pc = "validate" /\ http[r] \in Http /\ account' = account
      /\ u \in Users /\ http[r].route \in Routes \ PublicRoutes
  BY DEF Validate, AccessInv, AccessTypeOK, Waiting
<1>2. CASE Answer(r, "unauthorized") \/ Answer(r, "forbidden")
  BY <1>1, <1>2, AnswerStep
<1>3. CASE http' = [http EXCEPT ![r].pc = "passed", ![r].user = u]
  <2>1. http' = [http EXCEPT ![r] = next]
    BY <1>3 DEF AccessInv, AccessTypeOK, Http
  <2>2. /\ next \in Http /\ next.pc = "passed" /\ next.user = u /\ next.bearer = u
        /\ next.route = http[r].route
    BY <1>1 DEF Http
  <2> HIDE DEF next
  <2> QED BY <1>1, <2>1, <2>2, NullUser, HttpStep
<1> QED BY <1>2, <1>3 DEF Validate, RolesGuard

\* A handler answers, or ends when it has called the service.
LEMMA HandleStep == ASSUME AccessInv, NEW r \in Requests, Handle(r) PROVE AccessInv'
<1>1. account' = account
  BY DEF Handle, Book, View, Change
<1>2. CASE \E a \in {"badRequest", "notFound", "forbidden", "ok"} : Answer(r, a)
  BY <1>1, <1>2, AnswerStep
<1>3. CASE http' = [http EXCEPT ![r].pc = "done"]
  <2> DEFINE next == [http[r] EXCEPT !.pc = "done"]
  <2>1. http' = [http EXCEPT ![r] = next] /\ http[r] \in Http
    BY <1>3 DEF AccessInv, AccessTypeOK
  <2>2. /\ next \in Http /\ next.pc = "done" /\ next.user = http[r].user
        /\ next.bearer = http[r].bearer
    BY <2>1 DEF Http
  <2> HIDE DEF next
  <2> QED BY <1>1, <2>1, <2>2, EndStep
<1>4. \A booking, vendor, user :
         ViewVerdict(booking, vendor, user) \in {"notFound", "forbidden", "ok"}
  BY DEF ViewVerdict
<1> QED BY <1>2, <1>3, <1>4 DEF Handle, Book, View, Change

LEMMA NextAccess == AccessInv /\ [AccessNext]_accessVars => AccessInv'
<1> SUFFICES ASSUME AccessInv, [AccessNext]_accessVars PROVE AccessInv'
  OBVIOUS
<1>1. CASE UNCHANGED <<account, http>>
  BY <1>1 DEF AccessInv, AccessTypeOK, Waiting, Fresh, Unknown
<1>2. CASE \E u \in Users : SetAccount(u)
  BY <1>2 DEF SetAccount, AccessInv, AccessTypeOK, Waiting, Fresh, Unknown
<1>3. CASE \E r \in Requests :
             \/ \E route \in Routes, bearer \in Users \cup {Null} : JwtAuthGuard(r, route, bearer)
             \/ Validate(r) \/ Handle(r)
  BY <1>3, GuardStep, ValidateStep, HandleStep
<1> QED BY <1>1, <1>2, <1>3 DEF AccessNext, ServiceStep, accessVars

\* In every reachable state a handler takes the caller for the user of the token
\* or for nobody, and behind the guards never for nobody.
THEOREM AccessTypeCorrect == AccessSpec => []AccessTypeOK
<1>1. AccessInv => AccessTypeOK
  BY DEF AccessInv
<1> QED BY <1>1, InitAccess, NextAccess, PTL DEF AccessSpec

-----------------------------------------------------------------------------
(* Refinement *)

\* Every step is a step of the service or none, if it expects creates of nobody.
LEMMA StepMaps ==
    ASSUME Null \in Callers, AccessInv, [AccessNext]_accessVars
    PROVE  Booking!Next \/ UNCHANGED Booking!vars
<1>1. CASE UNCHANGED bookingVars
  BY <1>1 DEF bookingVars, Booking!vars
<1>2. ASSUME NEW r \in Requests, NEW s \in Services, NEW t \in Slots, NEW k \in Keys \cup {Null},
             NEW f \in BOOLEAN, Book(r, s, t, k, f), ~UNCHANGED bookingVars
      PROVE  Booking!Next
  <2>1. http[r].pc = "passed" /\ http[r].route = "book"
        /\ Booking!Create(r, s, t, http[r].user, k, f)
    BY <1>2 DEF Book
  <2>2. http[r].user = Null
    BY <2>1 DEF AccessInv, Unknown, PublicRoutes
  <2>3. Booking!Arrival(r)
    BY <2>1, <2>2 DEF Booking!Arrival
  <2> QED BY <2>3 DEF Booking!Next, Booking!RequestNext
<1>3. ASSUME NEW r \in Requests, NEW b \in Requests, NEW to \in Statuses, Change(r, b, to)
      PROVE  Booking!Next
  <2>1. http[r].pc = "passed" /\ http[r].route = "change" /\ http[r] \in Http
        /\ Booking!UpdateStatus(r, b, to, http[r].user)
    BY <1>3 DEF Change, AccessInv, AccessTypeOK
  <2>2. http[r].user \in Users
    BY <2>1 DEF AccessInv, AccessTypeOK, PublicRoutes, Http
  <2>3. Booking!Arrival(r)
    BY <2>1, <2>2 DEF Booking!Arrival, Booking!Statuses, Booking!Users, Statuses, Users
  <2> QED BY <2>3 DEF Booking!Next, Booking!RequestNext
<1>4. CASE ServiceStep
  BY <1>4 DEF ServiceStep, Booking!Next, Booking!RequestNext
<1>5. \/ UNCHANGED bookingVars \/ ServiceStep
      \/ \E r \in Requests :
           \/ \E s \in Services, t \in Slots, k \in Keys \cup {Null}, f \in BOOLEAN :
                Book(r, s, t, k, f)
           \/ \E b \in Requests, to \in Statuses : Change(r, b, to)
  BY DEF AccessNext, accessVars, bookingVars, JwtAuthGuard, Validate, Handle, View, SetAccount
<1> QED BY <1>1, <1>2, <1>3, <1>4, <1>5

\* The requests the guards and the pipe let through are requests the service was
\* modelled for, whatever tokens, routes and suspensions come together.
THEOREM AccessImplementsBookings ==
    ASSUME Null \in Callers
    PROVE  AccessSpec => ImplementsBookings
<1>1. AccessInit => Booking!Init
  BY DEF AccessInit
<1>2. AccessInv /\ [AccessNext]_accessVars => [Booking!Next]_(Booking!vars)
  BY StepMaps
<1> QED BY <1>1, <1>2, InitAccess, NextAccess, PTL
       DEF AccessSpec, ImplementsBookings, Booking!Spec

-----------------------------------------------------------------------------
(* What is proved of the bookings holds behind the guards *)

Facts == INSTANCE BookingsTrailProofs

BookingsSafe ==
    /\ Booking!SlotExclusive
    /\ Booking!KeyUsedOnce
    /\ Booking!AnswerTellsOutcome
    /\ Booking!CreationIsLogged
    /\ Booking!TrailIsLegal
    /\ Booking!StatusIsAudited
    /\ Booking!CompletedWasConfirmed

\* Both instances spell out the same definitions.
LEMMA SameBookings ==
    /\ Booking!Init <=> Facts!Init
    /\ [Booking!Next]_(Booking!vars) <=> [Facts!Next]_(Facts!vars)
BY DEF Booking!Init, Facts!Init, Booking!Listing, Facts!Listing, Booking!Idle, Facts!Idle,
       Booking!Next, Facts!Next, Booking!RequestNext, Facts!RequestNext, Booking!Arrival,
       Facts!Arrival, Booking!Create, Facts!Create, Booking!CreationVerdict,
       Facts!CreationVerdict, Booking!Done, Facts!Done, Booking!Statuses, Facts!Statuses,
       Booking!Users, Facts!Users, Booking!UpdateStatus, Facts!UpdateStatus,
       Booking!TransitionVerdict, Facts!TransitionVerdict, Booking!HasAuthority,
       Facts!HasAuthority, Booking!IsClientOwner, Facts!IsClientOwner, Booking!IsVendorOwner,
       Facts!IsVendorOwner, Booking!BeyondRole, Facts!BeyondRole, Booking!AllowedTransitions,
       Facts!AllowedTransitions, Booking!JoinedVendor, Facts!JoinedVendor, Booking!Progress,
       Facts!Progress, Booking!CheckDuplicate, Facts!CheckDuplicate,
       Booking!HasDuplicateBooking, Facts!HasDuplicateBooking, Booking!Exists, Facts!Exists,
       Booking!SamePlace, Facts!SamePlace, Booking!ActiveStatuses, Facts!ActiveStatuses,
       Booking!InsertRow, Facts!InsertRow, Booking!Passes, Facts!Passes, Booking!Blockers,
       Facts!Blockers, Booking!HoldsRow, Facts!HoldsRow, Booking!Enters, Facts!Enters,
       Booking!Holds, Facts!Holds, Booking!Indexes, Facts!Indexes, Booking!Live, Facts!Live,
       Booking!At, Facts!At, Booking!Same, Facts!Same, Booking!SameKey, Facts!SameKey,
       Booking!Clash, Facts!Clash, Booking!KeyClash, Facts!KeyClash, Booking!SlotClash,
       Facts!SlotClash, Booking!FinishInsert, Facts!FinishInsert, Booking!RejectKey,
       Facts!RejectKey, Booking!Rejected, Facts!Rejected, Booking!RejectSlot, Facts!RejectSlot,
       Booking!RejectOrphan, Facts!RejectOrphan, Booking!Reload, Facts!Reload,
       Booking!UpdateRow, Facts!UpdateRow, Booking!FinishUpdate, Facts!FinishUpdate,
       Booking!RejectUpdate, Facts!RejectUpdate, Booking!Commit, Facts!Commit, Booking!Written,
       Facts!Written, Booking!Logged, Facts!Logged, Booking!Mishap, Facts!Mishap,
       Booking!Abort, Facts!Abort, Booking!InFlight, Facts!InFlight, Booking!InFlightPcs,
       Facts!InFlightPcs, Booking!ListingChanges, Facts!ListingChanges, Booking!vars,
       Facts!vars

LEMMA SameSafety ==
    BookingsSafe <=>
        /\ Facts!SlotExclusive
        /\ Facts!KeyUsedOnce
        /\ Facts!AnswerTellsOutcome
        /\ Facts!CreationIsLogged
        /\ Facts!TrailIsLegal
        /\ Facts!StatusIsAudited
        /\ Facts!CompletedWasConfirmed
BY DEF BookingsSafe, Booking!SlotExclusive, Facts!SlotExclusive, Booking!Live, Facts!Live, Booking!Exists,
       Facts!Exists, Booking!SamePlace, Facts!SamePlace, Booking!KeyUsedOnce, Facts!KeyUsedOnce,
       Booking!SameKey, Facts!SameKey, Booking!AnswerTellsOutcome, Facts!AnswerTellsOutcome,
       Booking!CreationIsLogged, Facts!CreationIsLogged, Booking!TrailIsLegal,
       Facts!TrailIsLegal, Booking!AllowedTransitions, Facts!AllowedTransitions,
       Booking!Statuses, Facts!Statuses, Booking!StatusIsAudited, Facts!StatusIsAudited,
       Booking!CompletedWasConfirmed, Facts!CompletedWasConfirmed, Booking!HasStatus,
       Facts!HasStatus

LEMMA SameActions ==
    /\ Booking!TerminalSettles <=> Facts!TerminalSettles
    /\ Booking!ConflictIsJustified <=> Facts!ConflictIsJustified
<1>1. Booking!TerminalSettles <=> Facts!TerminalSettles
      BY PTL DEF Booking!TerminalSettles, Facts!TerminalSettles, Booking!HasStatus,
             Facts!HasStatus, Booking!Exists, Facts!Exists, Booking!Quiet, Facts!Quiet,
             Booking!InFlight, Facts!InFlight, Booking!InFlightPcs, Facts!InFlightPcs,
             Booking!vars, Facts!vars
<1>2. Booking!ConflictIsJustified <=> Facts!ConflictIsJustified
      BY PTL DEF Booking!ConflictIsJustified, Facts!ConflictIsJustified, Booking!InFlight,
             Facts!InFlight, Booking!InFlightPcs, Facts!InFlightPcs, Booking!KeyClash,
             Facts!KeyClash, Booking!Exists, Facts!Exists, Booking!SameKey, Facts!SameKey,
             Booking!SlotClash, Facts!SlotClash, Booking!Live, Facts!Live, Booking!SamePlace,
             Facts!SamePlace, Booking!vars, Facts!vars
<1> QED BY <1>1, <1>2, PTL

LEMMA SameReservation == Booking!ImplementsReservation <=> Facts!ImplementsReservation
<1>1. /\ Booking!Reservation!Init <=> Facts!Reservation!Init
      /\ [Booking!Reservation!Next]_(Booking!HeldPlaces) <=>
             [Facts!Reservation!Next]_(Facts!HeldPlaces)
      BY DEF Booking!HeldPlaces, Facts!HeldPlaces, Booking!Place, Facts!Place, Booking!Live,
             Facts!Live, Booking!Exists, Facts!Exists, Booking!Reservation!Init,
             Facts!Reservation!Init, Booking!Reservation!Next, Facts!Reservation!Next,
             Booking!Reservation!Take, Facts!Reservation!Take, Booking!Reservation!Release,
             Facts!Reservation!Release, Booking!Reservation!Free, Facts!Reservation!Free
<1> QED BY <1>1, PTL
    DEF Booking!ImplementsReservation, Facts!ImplementsReservation,
        Booking!Reservation!Spec, Facts!Reservation!Spec

\* The assumptions those theorems rest on.
LEMMA Premises ==
    /\ /\ Clients \cap Vendors = {}
       /\ (Clients \cup Vendors) \cap Admins = {}
       /\ Null \notin Clients \cup Vendors \cup Admins
    /\ Null \notin Facts!Statuses
    /\ Callers \subseteq Clients \cup {Null}
    /\ Null \notin Keys \cup Requests
    /\ Null \notin Facts!Listing /\ Null \notin Facts!Row
    /\ Null \notin Facts!Answers
BY AccessAssumption, RolesAssumption, NullAssumption
   DEF Statuses, Booking!Listing, Facts!Listing, Booking!Row, Facts!Row, Booking!Statuses, Facts!Statuses,
       Booking!Answers, Facts!Answers

\* Whoever calls with whatever token, and accounts suspended at any step: what
\* PlatformKeepsBookings says of the platform holds behind the guards as well.
THEOREM GuardsKeepBookings ==
    ASSUME Null \in Callers
    PROVE  AccessSpec =>
               /\ []BookingsSafe
               /\ Booking!TerminalSettles
               /\ Booking!ConflictIsJustified
               /\ Booking!ImplementsReservation
<1>1. Facts!Spec => []Facts!SlotExclusive
      BY Premises, Facts!NoDoubleBooking, PTL
<1>2. Facts!Spec => []Facts!KeyUsedOnce
      BY Premises, Facts!KeysAreIdempotent, PTL
<1>3. Facts!Spec => []Facts!AnswerTellsOutcome
      BY Premises, Facts!AnswersAreTrue, PTL
<1>4. Facts!Spec => []Facts!CreationIsLogged
      BY Premises, Facts!TrailsOpen, PTL
<1>5. Facts!Spec => []Facts!TrailIsLegal
      BY Premises, Facts!TrailsAreLegal, PTL
<1>6. Facts!Spec => []Facts!StatusIsAudited
      BY Premises, Facts!StatusesAreAudited, PTL
<1>7. Facts!Spec => []Facts!CompletedWasConfirmed
      BY Premises, Facts!ConfirmationIsNeverSkipped, PTL
<1>8. Facts!Spec => Facts!TerminalSettles BY Premises, Facts!EndsAreFinal, PTL
<1>9. Facts!Spec => Facts!ConflictIsJustified
      BY Premises, Facts!ConflictsAreJustified, PTL
<1>10. Facts!Spec => Facts!ImplementsReservation BY Premises, Facts!Refinement, PTL
<1> QED BY <1>1, <1>2, <1>3, <1>4, <1>5, <1>6, <1>7, <1>8, <1>9, <1>10, SameBookings,
           SameSafety, SameActions, SameReservation, AccessImplementsBookings, PTL
       DEF ImplementsBookings, Booking!Spec, Facts!Spec

-----------------------------------------------------------------------------
(* Suspended users *)

\* What a request r with record c counts on, given the bookings B: its own booking
\* appears with its last step, and the one it updates is there.
Works(c, r, B) ==
    /\ B[r] # Null => c.pc = "done"
    /\ c.pc \in Booking!InFlightPcs =>
         /\ c.op \in {"create", "update"} /\ c.id \in Requests /\ c.row \in Booking!Row
         /\ c.op = "create" => c.id = r
         /\ c.op = "update" => B[c.id] # Null

\* A request at work in the service has left its handler, and works for the user
\* the handler took the caller for.
ServesCaller(c, h) == c.pc \in Booking!InFlightPcs => h.pc = "done" /\ c.by = h.user

WorkInv ==
    /\ bookings \in [Requests -> Booking!Row \cup {Null}]
    /\ audit \in [Requests -> Seq(Booking!Entry)]
    /\ req \in [Requests -> Booking!Request]
    /\ \A r \in Requests : Works(req[r], r, bookings)

ServeInv == AccessInv /\ WorkInv /\ \A r \in Requests : ServesCaller(req[r], http[r])

\* What r becomes in a step: sound, and at work for whom it was before or for user.
Moves(r, user, next) ==
    /\ next \in Booking!Request /\ Works(next, r, bookings)
    /\ req' = [req EXCEPT ![r] = next]
    /\ next.pc \in Booking!InFlightPcs =>
          \/ Booking!InFlight(r) /\ next.by = req[r].by
          \/ next.by = user

LEMMA DonePc == "done" \notin Booking!InFlightPcs /\ "new" \notin Booking!InFlightPcs
BY DEF Booking!InFlightPcs

LEMMA DoneRecord ==
    ASSUME NEW op, op \in {"create", "update", "none"}, NEW a, a \in Booking!Answers
    PROVE  Booking!Done(op, a) \in Booking!Request /\ Booking!Done(op, a).pc = "done"
BY DEF Booking!Done, Booking!Request

LEMMA DoneMoves ==
    ASSUME WorkInv, NEW r \in Requests, NEW user, NEW op, op \in {"create", "update", "none"},
           NEW a, a \in Booking!Answers, req' = [req EXCEPT ![r] = Booking!Done(op, a)]
    PROVE  \E next : Moves(r, user, next)
<1> DEFINE next == Booking!Done(op, a)
<1>1. next \in Booking!Request /\ next.pc = "done"
  BY DoneRecord
<1> HIDE DEF next
<1>2. Works(next, r, bookings)
  BY <1>1, DonePc DEF Works
<1>3. req' = [req EXCEPT ![r] = next]
  BY DEF next
<1> QED BY <1>1, <1>2, <1>3, DonePc DEF Moves

LEMMA InitWork == AccessInit => ServeInv
<1> SUFFICES ASSUME AccessInit PROVE ServeInv
  OBVIOUS
<1>1. Booking!Idle \in Booking!Request /\ Booking!Idle.pc = "new"
  BY DEF Booking!Idle, Booking!Request
<1>2. WorkInv
  BY <1>1, DonePc DEF AccessInit, Booking!Init, WorkInv, Works
<1> QED BY <1>1, <1>2, DonePc, InitAccess DEF AccessInit, Booking!Init, ServeInv, ServesCaller

LEMMA CreateMoves ==
    ASSUME WorkInv, NEW r \in Requests, NEW s \in Services, NEW t \in Slots,
           NEW k \in Keys \cup {Null}, NEW f \in BOOLEAN, Booking!Create(r, s, t, Null, k, f)
    PROVE  \E next : Moves(r, Null, next)
<1> DEFINE row == [service |-> s, slot |-> t, client |-> Null, status |-> "PENDING", key |-> k]
<1> DEFINE next == [op |-> "create", pc |-> "check", by |-> Null, id |-> r, row |-> row,
                    old |-> Null, answer |-> Null]
<1> DEFINE v == Booking!CreationVerdict(services[s], f)
<1>1. v \in {"ok", "notFound", "invalid"}
  BY DEF Booking!CreationVerdict
<1>2. /\ req' = [req EXCEPT ![r] = IF v # "ok" THEN Booking!Done("create", v) ELSE next]
      /\ req[r] = Booking!Idle
  BY DEF Booking!Create
<1> HIDE DEF v
<1>3. CASE v # "ok"
  <2>1. v \in Booking!Answers
    BY <1>1 DEF Booking!Answers
  <2> QED BY <1>2, <1>3, <2>1, DoneMoves
<1>4. CASE v = "ok"
  <2>1. row \in Booking!Row /\ row.service = s
    BY DEF Booking!Row, Booking!Statuses
  <2>2. bookings[r] = Null
    BY <1>2 DEF WorkInv, Works, Booking!Idle
  <2> HIDE DEF row
  <2>3. next \in Booking!Request /\ next.pc = "check" /\ next.op = "create" /\ next.id = r
        /\ next.row = row /\ next.by = Null
    BY <2>1 DEF Booking!Request, Booking!InFlightPcs, Booking!Users
  <2>4. req' = [req EXCEPT ![r] = next]
    BY <1>2, <1>4
  <2> HIDE DEF next
  <2>5. Works(next, r, bookings)
    BY <2>1, <2>2, <2>3 DEF Works
  <2> QED BY <1>1, <1>4, <2>1, <2>3, <2>4, <2>5 DEF Moves
<1> QED BY <1>3, <1>4

LEMMA UpdateMoves ==
    ASSUME WorkInv, NEW r \in Requests, NEW b \in Requests, NEW to \in Booking!Statuses,
           NEW u \in Booking!Users, Booking!UpdateStatus(r, b, to, u)
    PROVE  \E next : Moves(r, u, next)
<1> DEFINE vendor == Booking!JoinedVendor(bookings[b])
<1> DEFINE v == Booking!TransitionVerdict(bookings[b], vendor, to, u)
<1> DEFINE row == [bookings[b] EXCEPT !.status = to]
<1> DEFINE p == IF vendor = Null THEN "orphan" ELSE "reload"
<1> DEFINE next == [op |-> "update", by |-> u, id |-> b, pc |-> p, row |-> row,
                    old |-> bookings[b].status, answer |-> Null]
<1>1. /\ v \in {"ok", "unchanged", "notFound", "invalid", "forbidden", "conflict"}
      /\ v = "ok" => bookings[b] # Null
  BY DEF Booking!TransitionVerdict
<1>3. /\ req' = [req EXCEPT ![r] = IF v # "ok" THEN Booking!Done("update", v) ELSE next]
      /\ req[r] = Booking!Idle
  BY DEF Booking!UpdateStatus
<1> HIDE DEF v, vendor
<1>4. CASE v # "ok"
  <2>1. v \in Booking!Answers
    BY <1>1 DEF Booking!Answers
  <2> QED BY <1>3, <1>4, <2>1, DoneMoves
<1>5. CASE v = "ok"
  <2>1. bookings[b] # Null /\ bookings[b] \in Booking!Row
    BY <1>1, <1>5 DEF WorkInv
  <2>2. row \in Booking!Row /\ row.service = bookings[b].service
        /\ bookings[b].status \in Booking!Statuses
    BY <2>1 DEF Booking!Row
  <2>3. bookings[r] = Null
    BY <1>3 DEF WorkInv, Works, Booking!Idle
  <2>4. p \in {"orphan", "reload"} /\ (p # "orphan" => vendor # Null)
    OBVIOUS
  <2> HIDE DEF row, p
  <2>5. next \in Booking!Request /\ next.pc = p /\ next.op = "update" /\ next.id = b
        /\ next.row = row /\ next.by = u
    BY <2>2, <2>4 DEF Booking!Request, Booking!InFlightPcs
  <2>6. req' = [req EXCEPT ![r] = next]
    BY <1>3, <1>5
  <2> HIDE DEF next
  <2>7. Works(next, r, bookings)
    BY <2>1, <2>2, <2>3, <2>4, <2>5, DonePc DEF Works, Booking!InFlightPcs
  <2> QED BY <2>5, <2>6, <2>7 DEF Moves
<1> QED BY <1>4, <1>5

\* A request in flight takes its next step, and no booking changes.
LEMMA PcMoves ==
    ASSUME WorkInv, NEW r \in Requests, NEW user, Booking!InFlight(r), req[r].pc # "orphan",
           NEW p, p \in Booking!InFlightPcs, req' = [req EXCEPT ![r].pc = p]
    PROVE  \E next : Moves(r, user, next)
<1> DEFINE next == [req[r] EXCEPT !.pc = p]
<1>1. req[r] \in Booking!Request /\ Works(req[r], r, bookings)
  BY DEF WorkInv
<1>2. req' = [req EXCEPT ![r] = next]
  BY DEF WorkInv
<1>3. next \in Booking!Request /\ next.pc = p /\ next.op = req[r].op /\ next.id = req[r].id
      /\ next.row = req[r].row /\ next.by = req[r].by
  BY <1>1 DEF Booking!Request
<1> HIDE DEF next
<1>4. Works(next, r, bookings)
  BY <1>1, <1>3, DonePc DEF Works, Booking!InFlight
<1> QED BY <1>2, <1>3, <1>4 DEF Moves


\* A step of the service for r is a commit or takes r on.
LEMMA ServiceMoves ==
    ASSUME WorkInv, NEW r \in Requests, Booking!Progress(r) \/ Booking!Mishap(r)
    PROVE  \/ \E a \in {"ok", "lost"} : Booking!Commit(r, a)
           \/ UNCHANGED <<bookings, audit>> /\ Booking!InFlight(r) /\ \E next : Moves(r, req[r].by, next)
<1>1. CASE \/ Booking!CheckDuplicate(r) \/ Booking!InsertRow(r) \/ Booking!FinishInsert(r)
           \/ Booking!Reload(r) \/ Booking!UpdateRow(r) \/ Booking!FinishUpdate(r)
  <2>1. /\ req[r].pc \in {"check", "insert", "entered", "reload", "update", "locked"}
        /\ UNCHANGED <<bookings, audit>>
    BY <1>1 DEF Booking!CheckDuplicate, Booking!InsertRow, Booking!FinishInsert, Booking!Reload,
                Booking!UpdateRow, Booking!FinishUpdate
  <2>2. Booking!InFlight(r) /\ req[r].pc # "orphan"
    BY <2>1 DEF Booking!InFlight, Booking!InFlightPcs
  <2>3. \/ \E p \in {"insert", "entered", "written", "log", "update", "locked"} :
             req' = [req EXCEPT ![r].pc = p]
        \/ req' = [req EXCEPT ![r] = Booking!Done("create", "conflict")]
    BY <1>1 DEF Booking!CheckDuplicate, Booking!InsertRow, Booking!FinishInsert, Booking!Reload,
                Booking!UpdateRow, Booking!FinishUpdate
  <2>4. /\ {"insert", "entered", "written", "log", "update", "locked"} \subseteq Booking!InFlightPcs
        /\ "conflict" \in Booking!Answers
    BY DEF Booking!InFlightPcs, Booking!Answers
  <2> QED BY <2>1, <2>2, <2>3, <2>4, PcMoves, DoneMoves
<1>2. CASE Booking!RejectKey(r) \/ Booking!RejectSlot(r) \/ Booking!RejectOrphan(r)
           \/ Booking!RejectUpdate(r) \/ Booking!Abort(r)
  <2>1. req[r].op \in {"create", "update", "none"} /\ {"conflict", "error", "lost"} \subseteq Booking!Answers
    BY DEF WorkInv, Booking!Request, Booking!Answers
  <2>2. /\ UNCHANGED <<bookings, audit>>
        /\ \E op \in {"create", "update", req[r].op}, a \in {"conflict", "error", "lost"} :
             req' = [req EXCEPT ![r] = Booking!Done(op, a)]
    BY <1>2 DEF Booking!RejectKey, Booking!RejectSlot, Booking!RejectOrphan, Booking!RejectUpdate,
                Booking!Abort
  <2>3. Booking!InFlight(r)
    BY <1>2 DEF Booking!RejectKey, Booking!RejectSlot, Booking!RejectOrphan, Booking!RejectUpdate,
                Booking!Abort, Booking!InFlight, Booking!InFlightPcs
  <2> QED BY <2>1, <2>2, <2>3, DoneMoves
<1>3. CASE Booking!Commit(r, "ok") \/ Booking!Commit(r, "lost")
  BY <1>3
<1> QED BY <1>1, <1>2, <1>3 DEF Booking!Progress, Booking!Mishap

\* What a commit does: one booking gets a row, its trail an entry by whom the
\* request works for, and the request is done.
LEMMA CommitEffect ==
    ASSUME WorkInv, NEW r \in Requests, NEW a, a \in {"ok", "lost"}, Booking!Commit(r, a)
    PROVE  LET c == req[r]
           IN  /\ Booking!InFlight(r) /\ c.id \in Requests
               /\ bookings' \in [Requests -> Booking!Row \cup {Null}]
               /\ \A b \in Requests : b # c.id => bookings'[b] = bookings[b]
               /\ bookings[c.id] # Null => bookings'[c.id] # Null
               /\ c.id = r \/ bookings[c.id] # Null
               /\ \E e \in Booking!Entry :
                    e.by = c.by /\ audit' = [audit EXCEPT ![c.id] = Append(audit[c.id], e)]
               /\ req' = [req EXCEPT ![r] = Booking!Done(c.op, a)]
<1> DEFINE c == req[r]
<1> DEFINE row == Booking!Written(r)
<1> DEFINE e == Booking!Logged(r)
<1>1. /\ c.pc \in {"written", "log"}
      /\ bookings' = IF c.pc = "log" THEN bookings ELSE [bookings EXCEPT ![c.id] = row]
      /\ audit' = [audit EXCEPT ![c.id] = Append(audit[c.id], e)]
      /\ req' = [req EXCEPT ![r] = Booking!Done(c.op, a)]
  BY DEF Booking!Commit
<1>2. c.pc \in Booking!InFlightPcs /\ c.pc # "done" /\ Works(c, r, bookings) /\ c \in Booking!Request
  BY <1>1 DEF WorkInv, Booking!InFlightPcs
<1>3. /\ c.id \in Requests /\ c.row \in Booking!Row /\ c.op \in {"create", "update"}
      /\ c.op = "create" => c.id = r
      /\ c.op = "update" => bookings[c.id] # Null
  BY <1>2 DEF Works
<1>4. row \in Booking!Row
  <2>1. CASE c.op = "create"
    BY <1>3, <2>1 DEF Booking!Written
  <2>2. CASE c.op = "update"
    <3>1. bookings[c.id] \in Booking!Row /\ c.row.status \in Booking!Statuses
      BY <1>3, <2>2 DEF WorkInv, Booking!Row
    <3>2. row = [bookings[c.id] EXCEPT !.status = c.row.status]
      BY <2>2 DEF Booking!Written
    <3> QED BY <3>1, <3>2 DEF Booking!Row
  <2> QED BY <1>3, <2>1, <2>2
<1>5. e \in Booking!Entry /\ e.by = c.by
  BY <1>2, <1>3 DEF Booking!Logged, Booking!Entry, Booking!Request, Booking!Row
<1> HIDE DEF row, e
<1>6. row # Null
  BY <1>4, AccessAssumption
<1>7. bookings' \in [Requests -> Booking!Row \cup {Null}]
  BY <1>1, <1>3, <1>4 DEF WorkInv
<1>8. \A b \in Requests : b # c.id => bookings'[b] = bookings[b]
  BY <1>1, <1>3 DEF WorkInv
<1>9. bookings'[c.id] = IF c.pc = "log" THEN bookings[c.id] ELSE row
  BY <1>1, <1>3 DEF WorkInv
<1> QED BY <1>1, <1>2, <1>3, <1>5, <1>6, <1>7, <1>8, <1>9 DEF Booking!InFlight

LEMMA CommitWork ==
    ASSUME WorkInv, NEW r \in Requests, NEW a, a \in {"ok", "lost"}, Booking!Commit(r, a)
    PROVE  /\ WorkInv'
           /\ \A q \in Requests : req'[q].pc \in Booking!InFlightPcs => req'[q] = req[q]
<1> DEFINE c == req[r]
<1> DEFINE next == Booking!Done(c.op, a)
<1>1. next \in Booking!Request /\ next.pc = "done"
  <2>1. c.op \in {"none", "create", "update"} /\ a \in Booking!Answers
    BY DEF WorkInv, Booking!Request, Booking!Answers
  <2> QED BY <2>1, DoneRecord
<1> HIDE DEF next, c
<1>2. /\ c.id \in Requests /\ req' = [req EXCEPT ![r] = next]
      /\ bookings' \in [Requests -> Booking!Row \cup {Null}]
      /\ \A b \in Requests : b # c.id => bookings'[b] = bookings[b]
      /\ bookings[c.id] # Null => bookings'[c.id] # Null
      /\ c.id = r \/ bookings[c.id] # Null
  BY CommitEffect DEF c, next
<1>3. PICK e \in Booking!Entry : audit' = [audit EXCEPT ![c.id] = Append(audit[c.id], e)]
  BY CommitEffect DEF c
<1>4. audit' \in [Requests -> Seq(Booking!Entry)]
  BY <1>2, <1>3 DEF WorkInv
<1>5. \A q \in Requests : req'[q] = IF q = r THEN next ELSE req[q]
  BY <1>2 DEF WorkInv
<1>6. ASSUME NEW q \in Requests PROVE Works(req'[q], q, bookings')
  <2>1. CASE q = r
    BY <1>1, <1>5, <2>1, DonePc DEF Works
  <2>2. CASE q # r
    <3>1. req'[q] = req[q] /\ Works(req[q], q, bookings)
      BY <1>5, <2>2 DEF WorkInv
    <3>2. bookings'[q] # Null => bookings[q] # Null
      BY <1>2, <2>2
    <3>3. \A b \in Requests : bookings[b] # Null => bookings'[b] # Null
      BY <1>2
    <3> QED BY <3>1, <3>2, <3>3 DEF Works
  <2> QED BY <2>1, <2>2
<1> QED BY <1>1, <1>2, <1>4, <1>5, <1>6, DonePc DEF WorkInv

\* What a step does for r in the service: its handler, as it ends, hands r over
\* for its caller; r goes on; or r commits.
HandsOver(r) ==
    /\ UNCHANGED <<bookings, audit>>
    /\ http[r].pc = "passed" /\ http'[r] = [http[r] EXCEPT !.pc = "done"]
    /\ \E next : Moves(r, http[r].user, next)
GoesOn(r) ==
    /\ UNCHANGED <<bookings, audit, http>>
    /\ Booking!InFlight(r)
    /\ \E next : Moves(r, req[r].by, next)
Commits(r) ==
    /\ UNCHANGED http
    /\ \E a \in {"ok", "lost"} : Booking!Commit(r, a)

LEMMA ServiceSteps ==
    ASSUME ServeInv, [AccessNext]_accessVars
    PROVE  \/ UNCHANGED <<bookings, audit, req>>
           \/ \E r \in Requests : HandsOver(r) \/ GoesOn(r) \/ Commits(r)
<1>1. ASSUME NEW r \in Requests, NEW s \in Services, NEW t \in Slots, NEW k \in Keys \cup {Null},
             NEW f \in BOOLEAN, Book(r, s, t, k, f), ~UNCHANGED bookingVars
      PROVE  HandsOver(r)
  <2>1. /\ http[r].pc = "passed" /\ http[r].route = "book"
        /\ Booking!Create(r, s, t, http[r].user, k, f)
    BY <1>1 DEF Book
  <2>2. http[r].user = Null
    BY <2>1 DEF ServeInv, AccessInv, Unknown, PublicRoutes
  <2>3. \E next : Moves(r, Null, next)
    BY <2>1, <2>2, CreateMoves DEF ServeInv
  <2>4. UNCHANGED <<bookings, audit>>
    BY <2>1 DEF Booking!Create
  <2>5. http'[r] = [http[r] EXCEPT !.pc = "done"]
    BY <1>1 DEF Book, ServeInv, AccessInv, AccessTypeOK
  <2> QED BY <2>1, <2>2, <2>3, <2>4, <2>5 DEF HandsOver
<1>2. ASSUME NEW r \in Requests, NEW b \in Requests, NEW to \in Statuses, Change(r, b, to)
      PROVE  HandsOver(r)
  <2>1. /\ http[r].pc = "passed" /\ http[r].route = "change"
        /\ Booking!UpdateStatus(r, b, to, http[r].user)
    BY <1>2 DEF Change
  <2>2. http[r].user \in Booking!Users /\ to \in Booking!Statuses
    BY <2>1 DEF ServeInv, AccessInv, AccessTypeOK, PublicRoutes, Http, Users, Booking!Users,
                Statuses, Booking!Statuses
  <2>3. \E next : Moves(r, http[r].user, next)
    BY <2>1, <2>2, UpdateMoves DEF ServeInv
  <2>4. UNCHANGED <<bookings, audit>>
    BY <2>1 DEF Booking!UpdateStatus
  <2>5. http'[r] = [http[r] EXCEPT !.pc = "done"]
    BY <1>2 DEF Change, ServeInv, AccessInv, AccessTypeOK
  <2> QED BY <2>1, <2>3, <2>4, <2>5 DEF HandsOver
<1>3. ASSUME ServiceStep, NEW r \in Requests, Booking!Progress(r) \/ Booking!Mishap(r)
      PROVE  GoesOn(r) \/ Commits(r)
  BY <1>3, ServiceMoves DEF ServiceStep, ServeInv, GoesOn, Commits
<1>4. ASSUME NEW s \in Services, Booking!ListingChanges(s)
      PROVE  UNCHANGED <<bookings, audit, req>>
  BY <1>4 DEF Booking!ListingChanges
<1>5. CASE UNCHANGED bookingVars
  BY <1>5 DEF bookingVars
<1>6. CASE ServiceStep
  BY <1>3, <1>4, <1>6 DEF ServiceStep
<1>7. CASE \E r \in Requests :
             \/ \E s \in Services, t \in Slots, k \in Keys \cup {Null}, f \in BOOLEAN :
                  Book(r, s, t, k, f) /\ ~UNCHANGED bookingVars
             \/ \E b \in Requests, to \in Statuses : Change(r, b, to)
  BY <1>1, <1>2, <1>7
<1>8. \/ UNCHANGED bookingVars \/ ServiceStep
      \/ \E r \in Requests :
           \/ \E s \in Services, t \in Slots, k \in Keys \cup {Null}, f \in BOOLEAN :
                Book(r, s, t, k, f) /\ ~UNCHANGED bookingVars
           \/ \E b \in Requests, to \in Statuses : Change(r, b, to)
  BY DEF AccessNext, accessVars, bookingVars, JwtAuthGuard, Validate, Handle, View, SetAccount
<1> QED BY <1>5, <1>6, <1>7, <1>8

\* A request that has left its handler keeps its record, and only a user whose
\* account is active enters a record.
LEMMA HttpSteps ==
    ASSUME AccessInv, [AccessNext]_accessVars, NEW q \in Requests, http'[q] # http[q]
    PROVE  /\ http[q].pc # "done"
           /\ \/ http'[q].user = http[q].user \/ http'[q].user = Null
              \/ account[http'[q].user] = "ACTIVE"
<1>1. /\ NoHttp.pc = "new" /\ NoHttp.user = Null /\ http[q] \in Http
      /\ http \in [Requests -> Http]
  BY DEF NoHttp, AccessInv, AccessTypeOK
<1>2. ASSUME NEW r \in Requests, NEW a, Answer(r, a), http[r].pc # "done"
      PROVE  http[q].pc # "done" /\ http'[q].user = http[q].user
  BY <1>1, <1>2 DEF Answer, Http
<1>3. ASSUME NEW r \in Requests, http' = [http EXCEPT ![r].pc = "done"], http[r].pc # "done"
      PROVE  http[q].pc # "done" /\ http'[q].user = http[q].user
  BY <1>1, <1>3 DEF Http
<1>4. ASSUME NEW r \in Requests, NEW route \in Routes, NEW bearer \in Users \cup {Null},
             JwtAuthGuard(r, route, bearer)
      PROVE  http[q].pc # "done" /\ http'[q].user = Null
  <2>1. r = q
    BY <1>1, <1>4 DEF JwtAuthGuard
  <2>2. http[q].pc = "new"
    BY <1>1, <1>4, <2>1 DEF JwtAuthGuard
  <2>3. http'[q].user = Null
    BY <1>1, <1>4, <2>1 DEF JwtAuthGuard, NoHttp
  <2> QED BY <2>2, <2>3
<1>5. ASSUME NEW r \in Requests, Validate(r)
      PROVE  /\ http[q].pc # "done"
             /\ http'[q].user = http[q].user \/ account[http'[q].user] = "ACTIVE"
  <2>1. http[r].pc = "validate"
    BY <1>5 DEF Validate
  <2>2. CASE Answer(r, "unauthorized") \/ Answer(r, "forbidden")
    BY <1>2, <2>1, <2>2
  <2>3. CASE /\ http' = [http EXCEPT ![r].pc = "passed", ![r].user = http[r].bearer]
             /\ account[http[r].bearer] = "ACTIVE"
    BY <1>1, <2>1, <2>3 DEF Http
  <2> QED BY <1>5, <2>2, <2>3 DEF Validate, RolesGuard
<1>6. ASSUME NEW r \in Requests, Handle(r)
      PROVE  http[q].pc # "done" /\ http'[q].user = http[q].user
  <2>1. http[r].pc = "passed"
    BY <1>6 DEF Handle, Book, View, Change
  <2>2. (\E a : Answer(r, a)) \/ http' = [http EXCEPT ![r].pc = "done"]
    BY <1>6 DEF Handle, Book, View, Change
  <2> QED BY <1>2, <1>3, <2>1, <2>2
<1> QED BY <1>4, <1>5, <1>6 DEF AccessNext, accessVars, SetAccount, ServiceStep

\* A step that moves r leaves the service's data alone, and r sound.
LEMMA MovesServe ==
    ASSUME WorkInv, NEW r \in Requests, NEW user, NEW next, Moves(r, user, next),
           UNCHANGED <<bookings, audit>>
    PROVE  WorkInv' /\ \A q \in Requests : req'[q] = IF q = r THEN next ELSE req[q]
<1>1. \A q \in Requests : req'[q] = IF q = r THEN next ELSE req[q]
  BY DEF Moves, WorkInv
<1>2. req' \in [Requests -> Booking!Request]
  BY DEF Moves, WorkInv
<1>3. \A q \in Requests : Works(req'[q], q, bookings')
  BY <1>1 DEF Moves, WorkInv
<1> QED BY <1>1, <1>2, <1>3 DEF WorkInv

JustHandedOver(q) ==
    /\ http[q].pc = "passed" /\ http'[q] = [http[q] EXCEPT !.pc = "done"]
    /\ req'[q].by = http[q].user

\* Who is at work after a step was so before, for the same user and with the
\* handler behind it, or has just been handed over.
LEMMA StillServes ==
    ASSUME ServeInv, [AccessNext]_accessVars
    PROVE  /\ WorkInv'
           /\ \A q \in Requests : Booking!InFlight(q)' =>
                \/ Booking!InFlight(q) /\ req'[q].by = req[q].by
                \/ JustHandedOver(q)
<1>1. CASE UNCHANGED <<bookings, audit, req>>
  BY <1>1 DEF ServeInv, WorkInv, Works, Booking!InFlight
<1>2. ASSUME NEW r \in Requests, HandsOver(r) \/ GoesOn(r)
      PROVE  /\ WorkInv'
             /\ \A q \in Requests : Booking!InFlight(q)' =>
                  \/ Booking!InFlight(q) /\ req'[q].by = req[q].by
                  \/ JustHandedOver(q)
  <2>1. PICK user, next : /\ Moves(r, user, next) /\ UNCHANGED <<bookings, audit>>
                          /\ \/ /\ http[r].pc = "passed" /\ user = http[r].user
                                /\ http'[r] = [http[r] EXCEPT !.pc = "done"]
                             \/ Booking!InFlight(r) /\ user = req[r].by
    BY <1>2 DEF HandsOver, GoesOn
  <2>2. WorkInv' /\ \A q \in Requests : req'[q] = IF q = r THEN next ELSE req[q]
    BY <2>1, MovesServe DEF ServeInv
  <2>3. /\ next.pc \in Booking!InFlightPcs =>
             (Booking!InFlight(r) /\ next.by = req[r].by) \/ next.by = user
    BY <2>1 DEF Moves
  <2> QED BY <2>1, <2>2, <2>3 DEF Booking!InFlight, JustHandedOver
<1>3. ASSUME NEW r \in Requests, Commits(r)
      PROVE  /\ WorkInv'
             /\ \A q \in Requests : Booking!InFlight(q)' =>
                  Booking!InFlight(q) /\ req'[q].by = req[q].by
  <2>1. PICK a \in {"ok", "lost"} : Booking!Commit(r, a)
    BY <1>3 DEF Commits
  <2>2. WorkInv' /\ \A q \in Requests : req'[q].pc \in Booking!InFlightPcs => req'[q] = req[q]
    BY <2>1, CommitWork DEF ServeInv
  <2> QED BY <2>2 DEF Booking!InFlight
<1> QED BY <1>1, <1>2, <1>3, ServiceSteps

LEMMA NextServe == ServeInv /\ [AccessNext]_accessVars => ServeInv'
<1> SUFFICES ASSUME ServeInv, [AccessNext]_accessVars PROVE ServeInv'
  OBVIOUS
<1>1. AccessInv' /\ WorkInv'
  BY NextAccess, StillServes DEF ServeInv
<1>2. ASSUME NEW q \in Requests PROVE ServesCaller(req'[q], http'[q])
  <2> SUFFICES ASSUME req'[q].pc \in Booking!InFlightPcs
               PROVE  http'[q].pc = "done" /\ req'[q].by = http'[q].user
    BY DEF ServesCaller
  <2>1. CASE Booking!InFlight(q) /\ req'[q].by = req[q].by
    <3>1. http[q].pc = "done" /\ req[q].by = http[q].user
      BY <2>1 DEF ServeInv, ServesCaller, Booking!InFlight
    <3>2. http'[q] = http[q]
      BY <3>1, HttpSteps DEF ServeInv
    <3> QED BY <2>1, <3>1, <3>2
  <2>2. CASE JustHandedOver(q)
    BY <2>2 DEF JustHandedOver, ServeInv, AccessInv, AccessTypeOK, Http
  <2> QED BY <2>1, <2>2, StillServes DEF Booking!InFlight
<1> QED BY <1>1, <1>2 DEF ServeInv

\* In a step of the whole system a suspended user whose requests have ended stays
\* so, or is restored, and no entry of a trail is by that user.
LEMMA SilencedStep ==
    ASSUME ServeInv, [AccessNext]_accessVars, NEW u \in Users, Silenced(u)
    PROVE  /\ Silenced(u)' \/ account'[u] = "ACTIVE"
           /\ \A b \in Requests : LoggedBy(u, b)' = LoggedBy(u, b)
<1>1. ASSUME NEW q \in Requests, Booking!InFlight(q) PROVE req[q].by # u
  BY <1>1 DEF ServeInv, ServesCaller, Silenced, Booking!InFlight
<1>2. ASSUME account'[u] # "ACTIVE" PROVE Silenced(u)'
  <2>1. account'[u] = "SUSPENDED"
    BY <1>2, NextServe DEF ServeInv, AccessInv, AccessTypeOK
  <2>2. ASSUME NEW q \in Requests, http'[q].user = u
        PROVE  http'[q].pc = "done" /\ ~Booking!InFlight(q)'
    <3>1. http'[q] = http[q]
      BY <2>2, HttpSteps, NullUser DEF Silenced, ServeInv
    <3>2. http[q].pc = "done" /\ ~Booking!InFlight(q)
      BY <2>2, <3>1 DEF Silenced
    <3> QED BY <3>1, <3>2, StillServes DEF JustHandedOver
  <2> QED BY <2>1, <2>2 DEF Silenced
<1>3. ASSUME NEW b \in Requests PROVE LoggedBy(u, b)' = LoggedBy(u, b)
  <2>1. CASE UNCHANGED audit
    BY <2>1 DEF LoggedBy
  <2>2. ASSUME NEW r \in Requests, Commits(r) PROVE LoggedBy(u, b)' = LoggedBy(u, b)
    <3>1. PICK a \in {"ok", "lost"} : Booking!Commit(r, a)
      BY <2>2 DEF Commits
    <3>2. /\ Booking!InFlight(r) /\ req[r].id \in Requests
          /\ \E e \in Booking!Entry :
               /\ e.by = req[r].by
               /\ audit' = [audit EXCEPT ![req[r].id] = Append(audit[req[r].id], e)]
      BY <3>1, CommitEffect DEF ServeInv
    <3>3. PICK e \in Booking!Entry :
             e.by = req[r].by /\ audit' = [audit EXCEPT ![req[r].id] = Append(audit[req[r].id], e)]
      BY <3>2
    <3>4. e.by # u
      BY <1>1, <3>2, <3>3
    <3>5. audit[b] \in Seq(Booking!Entry) /\ audit \in [Requests -> Seq(Booking!Entry)]
      BY DEF ServeInv, WorkInv
    <3>6. CASE b # req[r].id
      <4>1. audit'[b] = audit[b]
        BY <3>2, <3>3, <3>5, <3>6
      <4> QED BY <4>1 DEF LoggedBy
    <3>7. CASE b = req[r].id
      <4>1. audit'[b] = Append(audit[b], e)
        BY <3>2, <3>3, <3>5, <3>7
      <4>2. /\ DOMAIN audit'[b] = DOMAIN audit[b] \cup {Len(audit[b]) + 1}
            /\ \A i \in DOMAIN audit[b] : audit'[b][i] = audit[b][i]
            /\ audit'[b][Len(audit[b]) + 1] = e
        BY <3>5, <4>1
      <4> QED BY <3>4, <4>2 DEF LoggedBy
    <3> QED BY <3>6, <3>7
  <2>3. UNCHANGED audit \/ \E r \in Requests : Commits(r)
    BY ServiceSteps DEF HandsOver, GoesOn
  <2> QED BY <2>1, <2>2, <2>3
<1> QED BY <1>2, <1>3

\* An access token outlives a suspension and is worth nothing: once the requests
\* authenticated before have ended, a suspended user changes no booking until the
\* account is restored, whatever the interleaving of guards and transactions.
THEOREM SuspensionHolds == AccessSpec => SuspendedChangesNothing
<1>1. ServeInv /\ [AccessNext]_accessVars
      => [\A u \in Users : Silenced(u) =>
            /\ Silenced(u)' \/ account'[u] = "ACTIVE"
            /\ \A b \in Requests : LoggedBy(u, b)' = LoggedBy(u, b)]_accessVars
  BY SilencedStep
<1> QED BY <1>1, InitWork, NextServe, PTL DEF AccessSpec, SuspendedChangesNothing
===============================================================================
