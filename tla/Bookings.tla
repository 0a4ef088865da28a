------------------------------- MODULE Bookings -------------------------------
(***************************************************************************)
(* BookingsService of src/src/bookings over the tables services, bookings  *)
(* and booking_audit_logs.  Every HTTP request is a process of its own: an *)
(* `await' of the code is the end of a step, and PostgreSQL runs at READ   *)
(* COMMITTED, so what one step read another request may change before the  *)
(* next.  A request does one operation and ends with an answer; a retry is *)
(* another request.  The UUID a create request generates for its booking   *)
(* is named after the request, so Requests are the booking ids too.        *)
(*                                                                         *)
(* A statement takes what it needs one after another, an INSERT its entry  *)
(* in each unique index ("entered" after the first, "written" after the    *)
(* last), an UPDATE the row ("locked") and then its entry in the index on  *)
(* the slot ("written").  What is taken is held until the transaction ends,*)
(* while the statement waits for the next thing too.  Foreign keys lock    *)
(* what they refer to with KEY SHARE, which no statement of the code meets.*)
(* The audit row is inserted by the same transaction, seen by nobody       *)
(* before the commit, and is part of Commit.  The listings belong to the   *)
(* catalogue: here they change at any time, to anything but another vendor *)
(* (see Platform).                                                         *)
(***************************************************************************)
EXTENDS BookingRules, Sequences

CONSTANTS Requests,   \* the requests, and the ids of the bookings they create
          Services,   \* ids of listings
          Slots,      \* pairs of bookingDate and bookingTime
          Keys,       \* idempotency keys
          Callers     \* the clientIds create is called with

ASSUME CallersAssumption == Callers \subseteq Clients \cup {Null}
ASSUME KeysAssumption == Null \notin Keys \cup Requests

VARIABLES services,   \* the listings: services[s] is a Listing or Null
          bookings,   \* the committed bookings: bookings[b] is a Row or Null
          audit,      \* audit[b]: the committed audit entries of b, in commit order
          req         \* the requests and what each holds in memory

vars == <<services, bookings, audit, req>>

Listing == [vendor : Vendors, active : BOOLEAN, archived : BOOLEAN]

Row == [service : Services, slot : Slots, client : Clients \cup {Null},
        status : Statuses, key : Keys \cup {Null}]

Entry == [by : Users \cup {Null}, from : Statuses \cup {Null}, to : Statuses]

ASSUME NullRowAssumption == Null \notin Listing /\ Null \notin Row

\* What the caller is told.  "ok" is 200 or 201, "unchanged" the idempotent
\* 200, "error" the 500 of a rejected statement, "lost" a request that fails
\* on its way (connection, timeout, process death) and learns nothing.
Answers == {"ok", "unchanged", "notFound", "invalid", "forbidden", "conflict",
            "error", "lost"}

ASSUME NullAnswerAssumption == Null \notin Answers

InFlightPcs == {"check", "insert", "entered", "orphan", "reload", "update", "locked",
                "written", "log"}

\* row is the entity in memory: the draft of a create, or the loaded booking
\* with its new status; old is previousStatus.
Request == [op : {"none", "create", "update"},
            pc : {"new", "done"} \cup InFlightPcs,
            by : Users \cup {Null}, id : Requests \cup {Null},
            row : Row \cup {Null}, old : Statuses \cup {Null},
            answer : Answers \cup {Null}]

Idle == [op |-> "none", pc |-> "new", by |-> Null, id |-> Null, row |-> Null,
         old |-> Null, answer |-> Null]

Done(op, answer) == [op |-> op, pc |-> "done", by |-> Null, id |-> Null,
                     row |-> Null, old |-> Null, answer |-> answer]

InFlight(r) == req[r].pc \in InFlightPcs

SamePlace(x, y) == x.service = y.service /\ x.slot = y.slot
SameKey(x, y)   == x.key # Null /\ x.key = y.key

Exists(b) == bookings[b] # Null
HasStatus(b, s) == Exists(b) /\ bookings[b].status = s
Live(b)   == Exists(b) /\ bookings[b].status # "CANCELLED"

-----------------------------------------------------------------------------
(* PostgreSQL, as the statements of the requests meet it. *)

\* Faulty variants: a key that is unique among bookings not cancelled only, and
\* a place that a booking holds from its confirmation on.
KeyClashLive(r)  == \E b \in Requests \ {req[r].id} :
                       Live(b) /\ SameKey(bookings[b], req[r].row)
SlotClashConfirmed(r) == \E b \in Requests \ {req[r].id} :
                       /\ HasStatus(b, "CONFIRMED") \/ HasStatus(b, "COMPLETED")
                       /\ SamePlace(bookings[b], req[r].row)

\* The unique indexes, in the order an INSERT enters them: the one of the column
\* idempotency_key is older than the partial one on service, date and time.
\* Faulty variant: the other way round.
IndexesSlotFirst == <<"slot", "key">>
Indexes == <<"key", "slot">>

Same(index, x, y) == IF index = "key" THEN SameKey(x, y) ELSE SamePlace(x, y)

\* q's transaction holds the row of booking b, or undecided entries in an index:
\* new ones, and those of the version its UPDATE replaces.
HoldsRow(q, b) == req[q].id = b /\ req[q].pc \in {"locked", "written"}
Holds(q, index) ==
    \/ req[q].pc = "entered" /\ index = Indexes[1]
    \/ req[q].pc = "written" /\ req[q].row.status # "CANCELLED"
    \/ req[q].pc \in {"locked", "written"} /\ (index = "key" \/ Live(req[q].id))

\* r's statement is about to enter index At(r).
Enters(r) == \/ req[r].pc \in {"insert", "entered"}
             \/ req[r].pc = "locked" /\ req[r].row.status # "CANCELLED"
At(r) == CASE req[r].pc = "insert"  -> Indexes[1]
           [] req[r].pc = "entered" -> Indexes[2]
           [] OTHER                 -> "slot"

\* The requests r's statement waits for: they hold the row it changes, or an
\* entry equal to the one it is about to make.
Blockers(r) ==
    {q \in Requests \ {r} :
        \/ req[r].pc = "update" /\ HoldsRow(q, req[r].id)
        \/ Enters(r) /\ Holds(q, At(r)) /\ Same(At(r), req[q].row, req[r].row)}

\* The indexes hold a committed entry that r's row would duplicate.
KeyClash(r)  == \E b \in Requests \ {req[r].id} :
                   Exists(b) /\ SameKey(bookings[b], req[r].row)
SlotClash(r) == \E b \in Requests \ {req[r].id} :
                   Live(b) /\ SamePlace(bookings[b], req[r].row)

\* The statement goes on, or is rejected, once it waits for nobody.
Clash(r)   == Enters(r) /\ IF At(r) = "key" THEN KeyClash(r) ELSE SlotClash(r)
Passes(r)  == Blockers(r) = {} /\ ~Clash(r)
Rejected(r) == Blockers(r) = {} /\ Clash(r)

-----------------------------------------------------------------------------
Init ==
    /\ services \in [Services -> Listing \cup {Null}]
    /\ bookings = [b \in Requests |-> Null]
    /\ audit = [b \in Requests |-> <<>>]
    /\ req = [r \in Requests |-> Idle]

\* create up to its first await: listing s is read and the request validated for
\* slot t, which lies in the future or does not; c is clientId.
Create(r, s, t, c, k, inFuture) ==
    /\ req[r] = Idle
    /\ LET verdict == CreationVerdict(services[s], inFuture)
       IN  req' = [req EXCEPT ![r] =
             IF verdict # "ok" THEN Done("create", verdict)
             ELSE [op |-> "create", pc |-> "check", by |-> c, id |-> r,
                   row |-> [service |-> s, slot |-> t, client |-> c,
                            status |-> "PENDING", key |-> k],
                   old |-> Null, answer |-> Null]]
    /\ UNCHANGED <<services, bookings, audit>>

\* Faulty variant: cancelled bookings count.
HasDuplicateBookingAny(row) ==
    \E b \in Requests : Exists(b) /\ SamePlace(bookings[b], row)

\* hasDuplicateBooking, before the transaction and without a lock.
HasDuplicateBooking(row) ==
    \E b \in Requests : /\ Exists(b)
                        /\ SamePlace(bookings[b], row)
                        /\ bookings[b].status \in ActiveStatuses

CheckDuplicate(r) ==
    /\ req[r].pc = "check"
    /\ req' = IF HasDuplicateBooking(req[r].row)
              THEN [req EXCEPT ![r] = Done("create", "conflict")]
              ELSE [req EXCEPT ![r].pc = "insert"]
    /\ UNCHANGED <<services, bookings, audit>>

\* em.save of the new booking: INSERT INTO bookings enters one index ...
InsertRow(r) ==
    /\ req[r].pc = "insert"
    /\ Passes(r)
    /\ req' = [req EXCEPT ![r].pc = "entered"]
    /\ UNCHANGED <<services, bookings, audit>>

\* Faulty variant: there is no index on the slot.
FinishInsertUnchecked(r) ==
    /\ req[r].pc = "entered"
    /\ req' = [req EXCEPT ![r].pc = "written"]
    /\ UNCHANGED <<services, bookings, audit>>

\* ... and the other.
FinishInsert(r) ==
    /\ req[r].pc = "entered"
    /\ Passes(r)
    /\ req' = [req EXCEPT ![r].pc = "written"]
    /\ UNCHANGED <<services, bookings, audit>>

\* The catch block turns a message with `idempotency', the violation of
\* bookings_idempotency_key_key, into a 409 ...
RejectKey(r) ==
    /\ req[r].pc \in {"insert", "entered"} /\ At(r) = "key"
    /\ Rejected(r)
    /\ req' = [req EXCEPT ![r] = Done("create", "conflict")]
    /\ UNCHANGED <<services, bookings, audit>>

\* ... and rethrows the violation of idx_bookings_service_date_time.
RejectSlot(r) ==
    /\ req[r].pc \in {"insert", "entered"} /\ At(r) = "slot"
    /\ Rejected(r)
    /\ req' = [req EXCEPT ![r] = Done("create", "error")]
    /\ UNCHANGED <<services, bookings, audit>>

\* vendorId of the listing findOneById joins; archived listings are not joined.
JoinedVendor(booking) ==
    IF booking = Null \/ services[booking.service] = Null THEN Null
    ELSE IF services[booking.service].archived THEN Null
    ELSE services[booking.service].vendor

\* updateStatus and cancel up to the transaction: the booking is loaded with
\* its listing, outside any transaction, and the change is validated.  A booking
\* loaded without its listing is an "orphan": its relation service is null.
UpdateStatus(r, b, to, u) ==
    /\ req[r] = Idle
    /\ LET row     == bookings[b]
           verdict == TransitionVerdict(row, JoinedVendor(row), to, u)
       IN  req' = [req EXCEPT ![r] =
             IF verdict # "ok" THEN Done("update", verdict)
             ELSE [op |-> "update", by |-> u, id |-> b,
                   pc |-> IF JoinedVendor(row) = Null THEN "orphan" ELSE "reload",
                   row |-> [row EXCEPT !.status = to],
                   old |-> row.status, answer |-> Null]]
    /\ UNCHANGED <<services, bookings, audit>>

\* em.save of an orphan writes the null relation to service_id, which is NOT NULL.
RejectOrphan(r) ==
    /\ req[r].pc = "orphan"
    /\ req' = [req EXCEPT ![r] = Done("update", "error")]
    /\ UNCHANGED <<services, bookings, audit>>

\* em.save of any other booking reads the row again and compares: it sends an
\* UPDATE only for columns that differ, and checks no version.
Reload(r) ==
    /\ req[r].pc = "reload"
    /\ req' = [req EXCEPT ![r].pc =
                 IF bookings[req[r].id].status = req[r].row.status
                 THEN "log" ELSE "update"]
    /\ UNCHANGED <<services, bookings, audit>>

\* UPDATE bookings SET status locks the row ...
UpdateRow(r) ==
    /\ req[r].pc = "update"
    /\ Passes(r)
    /\ req' = [req EXCEPT ![r].pc = "locked"]
    /\ UNCHANGED <<services, bookings, audit>>

\* ... and enters its new version in the index on the slot, unless CANCELLED.
FinishUpdate(r) ==
    /\ req[r].pc = "locked"
    /\ Passes(r)
    /\ req' = [req EXCEPT ![r].pc = "written"]
    /\ UNCHANGED <<services, bookings, audit>>

RejectUpdate(r) ==
    /\ req[r].pc = "locked"
    /\ Rejected(r)
    /\ req' = [req EXCEPT ![r] = Done("update", "error")]
    /\ UNCHANGED <<services, bookings, audit>>

\* The row a request has written, and the entry it has logged.
Written(r) == IF req[r].op = "create" THEN req[r].row
              ELSE [bookings[req[r].id] EXCEPT !.status = req[r].row.status]

\* Faulty variant: the entry is built the wrong way round.
LoggedSwapped(r) == [by |-> req[r].by, from |-> req[r].row.status, to |-> req[r].old]

Logged(r) == [by |-> req[r].by, from |-> req[r].old, to |-> req[r].row.status]

\* Faulty variants of the commit: every failure told as a 409, a create that
\* logs nothing, and an update that logs nothing.
CommitLostIsConflict(r, answer) ==
    /\ req[r].pc \in {"written", "log"}
    /\ bookings' = IF req[r].pc = "log" THEN bookings
                   ELSE [bookings EXCEPT ![req[r].id] = Written(r)]
    /\ audit' = [audit EXCEPT ![req[r].id] = Append(@, Logged(r))]
    /\ req' = [req EXCEPT ![r] = Done(req[r].op, IF answer = "lost" THEN "conflict" ELSE answer)]
    /\ UNCHANGED services
CommitUnlogged(r, answer, op) ==
    /\ req[r].pc \in {"written", "log"}
    /\ bookings' = IF req[r].pc = "log" THEN bookings
                   ELSE [bookings EXCEPT ![req[r].id] = Written(r)]
    /\ audit' = IF req[r].op = op THEN audit
                ELSE [audit EXCEPT ![req[r].id] = Append(@, Logged(r))]
    /\ req' = [req EXCEPT ![r] = Done(req[r].op, answer)]
    /\ UNCHANGED services
CommitCreateUnlogged(r, answer) == CommitUnlogged(r, answer, "create")
CommitUpdateUnlogged(r, answer) == CommitUnlogged(r, answer, "update")

\* The audit row is inserted and the transaction commits; the answer may be
\* lost although the commit is not.
Commit(r, answer) ==
    /\ req[r].pc \in {"written", "log"}
    /\ bookings' = IF req[r].pc = "log" THEN bookings
                   ELSE [bookings EXCEPT ![req[r].id] = Written(r)]
    /\ audit' = [audit EXCEPT ![req[r].id] = Append(@, Logged(r))]
    /\ req' = [req EXCEPT ![r] = Done(req[r].op, answer)]
    /\ UNCHANGED services

\* A query fails, a connection drops or the process dies: the transaction, if
\* one is open, is rolled back and its locks are released.
Abort(r) ==
    /\ InFlight(r)
    /\ req' = [req EXCEPT ![r] = Done(req[r].op, "lost")]
    /\ UNCHANGED <<services, bookings, audit>>

\* The catalogue commits a change of a listing; its vendor never changes.
ListingChanges(s) ==
    /\ \E l \in Listing :
         /\ services[s] # Null => l.vendor = services[s].vendor
         /\ services' = [services EXCEPT ![s] = l]
    /\ UNCHANGED <<bookings, audit, req>>

\* The steps a request takes once it has arrived.
Progress(r) ==
    \/ CheckDuplicate(r)
    \/ InsertRow(r) \/ FinishInsert(r) \/ RejectKey(r) \/ RejectSlot(r)
    \/ RejectOrphan(r) \/ Reload(r)
    \/ UpdateRow(r) \/ FinishUpdate(r) \/ RejectUpdate(r)
    \/ Commit(r, "ok")

Arrival(r) ==
    \/ \E s \in Services, t \in Slots, c \in Callers, k \in Keys \cup {Null},
          inFuture \in BOOLEAN : Create(r, s, t, c, k, inFuture)
    \/ \E b \in Requests, to \in Statuses, u \in Users : UpdateStatus(r, b, to, u)

\* ... and the ones that may come instead.
Mishap(r) == Commit(r, "lost") \/ Abort(r)

RequestNext == \E r \in Requests : Arrival(r) \/ Progress(r) \/ Mishap(r)

Next == RequestNext \/ \E s \in Services : ListingChanges(s)

Spec == Init /\ [][Next]_vars

\* The event loop runs every request whose query has returned, and PostgreSQL
\* finishes every statement that waits for nobody.
Fairness == \A r \in Requests : WF_vars(Progress(r))

FairSpec == Spec /\ Fairness

\* The service left to itself: a request arrives only while no other is handled.
OneAtATime ==
    \A r \in Requests : req[r] = Idle /\ req'[r] # Idle =>
                            \A q \in Requests : ~InFlight(q)

SerialSpec == Init /\ [][Next /\ OneAtATime]_vars
-----------------------------------------------------------------------------
(* Safety *)

\* Every variable has its type: rows, entries and requests are well formed.
TypeOK ==
    /\ services \in [Services -> Listing \cup {Null}]
    /\ bookings \in [Requests -> Row \cup {Null}]
    /\ audit \in [Requests -> Seq(Entry)]
    /\ req \in [Requests -> Request]

\* No double booking: two bookings of one service at one date and time are
\* never both active, whatever the order of checks, inserts, cancellations and
\* stale updates (create and updateStatus of bookings.service.ts).
SlotExclusive ==
    \A a, b \in Requests :
        Live(a) /\ Live(b) /\ SamePlace(bookings[a], bookings[b]) => a = b

\* However often a create is retried, alone or concurrently, an idempotency key
\* yields at most one booking (the UNIQUE column behind the catch of create).
KeyUsedOnce ==
    \A a, b \in Requests :
        Exists(a) /\ Exists(b) /\ SameKey(bookings[a], bookings[b]) => a = b

\* What a create request is answered is what it did: a success has booked, a
\* refusal or a rejected statement has left no row behind.  Only a lost answer
\* leaves the caller in doubt.
AnswerTellsOutcome ==
    \A r \in Requests :
        req[r].op = "create" =>
            /\ req[r].answer = "ok" => Exists(r)
            /\ Exists(r) => req[r].answer \in {"ok", "lost"}

\* The two inserts of create are one: a booking exists exactly with its trail,
\* which opens with its creation by its client, and the creation is logged once.
CreationIsLogged ==
    \A b \in Requests :
        /\ Exists(b) <=> audit[b] # <<>>
        /\ \A i \in DOMAIN audit[b] :
             i = 1 <=> audit[b][i].from = Null
        /\ Exists(b) => /\ audit[b][1].to = "PENDING"
                        /\ audit[b][1].by = bookings[b].client

\* Every later entry is a change the transition table allows, made by a user
\* with authority over this booking, and a client has done nothing but cancel -
\* although the row and the listing are read long before the entry is written.
TrailIsLegal ==
    \A b \in Requests : \A i \in DOMAIN audit[b] :
        LET e == audit[b][i]
        IN  e.from # Null =>
              /\ e.to \in AllowedTransitions[e.from]
              /\ e.by \in Clients => /\ e.to = "CANCELLED"
                                     /\ bookings[b].client = e.by
              /\ e.by \in Vendors =>
                    e.by = services[bookings[b].service].vendor

\* No status without a record: the status of a booking is one that its trail
\* has logged, even when updates overtake each other.
StatusIsAudited ==
    \A b \in Requests : Exists(b) =>
        \E i \in DOMAIN audit[b] : audit[b][i].to = bookings[b].status

\* A booking that is COMPLETED was CONFIRMED at some time: no interleaving of
\* stale updates skips the confirmation.
CompletedWasConfirmed ==
    \A b \in Requests : HasStatus(b, "COMPLETED") =>
        \E i \in DOMAIN audit[b] : audit[b][i].to = "CONFIRMED"

\* Requests never wait for one another in a circle, although each waits with the
\* row or the index entries it already holds: of any that could, one waits for
\* none of the others.  It is owed to creates entering the index on the key first:
\* a create that retries the key of a cancelled booking while a stale update
\* brings that booking back needs the same two entries as the update.
NoCircularWait ==
    \A S \in (SUBSET Requests) \ {{}} : \E r \in S : Blockers(r) \cap S = {}

\* A create is refused with 409 only for a reason that has been committed: an
\* active booking of the place or a booking with its key, never an undecided one.
ConflictIsJustified ==
    [][\A r \in Requests :
         InFlight(r) /\ req[r].op = "create" /\ req'[r].answer = "conflict" =>
             KeyClash(r) \/ SlotClash(r)]_vars

\* Nobody is at work on b with what it loaded earlier.
Quiet(b) == \A r \in Requests : InFlight(r) => req[r].id # b

\* A booking that is COMPLETED or CANCELLED when no request is at work on it
\* stays so for ever, out of every later request's reach: only a request that
\* loaded it before can change it still.
TerminalSettles ==
    [][\A b \in Requests, s \in {"COMPLETED", "CANCELLED"} :
         HasStatus(b, s) /\ Quiet(b) => HasStatus(b, s)' /\ Quiet(b)']_vars

(* Liveness *)

\* Every request that has arrived is answered, although a statement waits for
\* other transactions and may hold what others wait for: a create for the key of
\* a retry, a stale update and a create of the same place.
RequestsAnswered ==
    \A r \in Requests : InFlight(r) ~> req[r].pc = "done"

(* Refinement *)

Place == Services \X Slots

HeldPlaces ==
    [p \in Place |-> {b \in Requests : /\ Live(b)
                                       /\ bookings[b].service = p[1]
                                       /\ bookings[b].slot = p[2]}]

Reservation == INSTANCE SlotReservation
                   WITH Places <- Place, Holders <- Requests, held <- HeldPlaces

\* Every step of the service takes a free place, gives one back, or does not
\* touch the calendar: the bookings implement the reservation of places.
ImplementsReservation == Reservation!Spec

Lifecycle == INSTANCE BookingLifecycle
                 WITH Ids <- Requests,
                      status <- [b \in Requests |->
                                   IF Exists(b) THEN bookings[b].status ELSE Null],
                      trail <- [b \in Requests |->
                                   [i \in DOMAIN audit[b] |->
                                      <<audit[b][i].from, audit[b][i].to>>]]

\* With one request at a time a booking follows the transition table and its
\* trail is its exact history, entry by entry.
ImplementsLifecycle == Lifecycle!Spec

-----------------------------------------------------------------------------
(* What the repository says of the service and stale updates break *)

\* `Cancelled bookings cannot be marked as completed.'
CancelledNeverCompleted ==
    [][\A b \in Requests :
         HasStatus(b, "CANCELLED") => bookings'[b].status # "COMPLETED"]_vars
===============================================================================
