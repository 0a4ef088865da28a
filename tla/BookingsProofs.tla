---------------------------- MODULE BookingsProofs ----------------------------
(***************************************************************************)
(* What holds of Bookings for every set of requests, listings, slots, keys *)
(* and users: its types, that a slot and an idempotency key are used once, *)
(* that requests never wait in a circle, what a create is answered, and    *)
(* that Bookings implements SlotReservation.                               *)
(***************************************************************************)
EXTENDS Bookings, TLAPS

\* A create in flight drafts a PENDING booking that is not in the table yet.
Drafting(r) ==
    /\ req[r].pc \in {"check", "insert", "entered", "written"}
    /\ req[r].id = r
    /\ req[r].old = Null
    /\ req[r].row.status = "PENDING"
    /\ bookings[r] = Null

\* An update in flight holds an existing booking; place and key in memory are
\* those in the table, only the status may differ.
Updating(r) ==
    /\ req[r].pc \in {"orphan", "reload", "update", "locked", "written", "log"}
    /\ Exists(req[r].id)
    /\ SamePlace(bookings[req[r].id], req[r].row)
    /\ bookings[req[r].id].key = req[r].row.key

\* What a request holds in memory fits its operation and its step, and a
\* booking exists only once the request it is named after has ended.
WorkOK ==
    \A r \in Requests :
        /\ req[r].op = "none" => req[r].pc = "new"
        /\ Exists(r) => req[r].op = "create" /\ req[r].pc = "done"
        /\ InFlight(r) =>
             /\ req[r].op # "none"
             /\ req[r].id \in Requests
             /\ req[r].row \in Row
             /\ req[r].op = "create" => Drafting(r)
             /\ req[r].op = "update" => Updating(r)

\* r's transaction has written its row, holds a row, or is in the index on keys.
Writing(r) == req[r].pc = "written"
Locking(r) == req[r].pc \in {"locked", "written"}
Keyed(r)   == req[r].pc \in {"entered", "locked", "written"}
Occupies(r) == Writing(r) /\ req[r].row.status # "CANCELLED"

\* Row locks exclude one another, and a statement that has put an active row
\* into the slot index has met no other active row of the place.
SlotOK ==
    /\ \A r, q \in Requests : Locking(r) /\ Locking(q) /\ r # q => req[r].id # req[q].id
    /\ \A r, q \in Requests : Occupies(r) /\ Occupies(q) /\ r # q =>
                                 ~SamePlace(req[r].row, req[q].row)
    /\ \A r \in Requests : Occupies(r) => ~SlotClash(r)
    /\ SlotExclusive

\* The same for the index on idempotency keys.
KeyOK ==
    /\ \A r, q \in Requests : Keyed(r) /\ Keyed(q) /\ r # q =>
                                 ~SameKey(req[r].row, req[q].row)
    /\ \A r \in Requests : Keyed(r) => ~KeyClash(r)
    /\ KeyUsedOnce

-----------------------------------------------------------------------------
(* Types and requests *)

USE RolesAssumption, NullAssumption, CallersAssumption, KeysAssumption, NullRowAssumption

\* The tables are empty and no request is under way at first.
LEMMA InitWork == Init => TypeOK /\ WorkOK
  BY DEF Init, TypeOK, WorkOK, Request, Idle, Exists, InFlight, InFlightPcs, Entry

\* A create that has arrived is refused or drafts its booking.
LEMMA CreateWork ==
  ASSUME TypeOK, WorkOK, NEW r \in Requests, NEW s \in Services, NEW t \in Slots,
         NEW c \in Callers, NEW k \in Keys \cup {Null}, NEW inFuture,
         Create(r, s, t, c, k, inFuture)
  PROVE  TypeOK' /\ WorkOK'
<1> DEFINE row == [service |-> s, slot |-> t, client |-> c, status |-> "PENDING", key |-> k]
<1>1. PICK v \in {"ok", "notFound", "invalid"} :
            req' = [req EXCEPT ![r] =
               IF v # "ok" THEN Done("create", v)
               ELSE [op |-> "create", pc |-> "check", by |-> c, id |-> r, row |-> row,
                     old |-> Null, answer |-> Null]]
  BY DEF Create, CreationVerdict
<1>2. row \in Row
  BY DEF Row, Statuses
<1>3. UNCHANGED <<services, bookings, audit>> /\ req[r] = Idle
  BY DEF Create
<1>4. TypeOK'
  BY <1>1, <1>2, <1>3 DEF TypeOK, Request, Done, InFlightPcs, Answers, Users, Statuses
<1>5. ~Exists(r)
  BY <1>3 DEF WorkOK, Idle
<1>6. WorkOK'
  BY <1>1, <1>2, <1>3, <1>5
     DEF TypeOK, WorkOK, Done, Idle, Exists, InFlight, InFlightPcs, Drafting, Updating
<1> QED BY <1>4, <1>6

\* What a verdict of validateStatusTransition implies.
LEMMA TransitionVerdictOK ==
  ASSUME NEW booking, NEW vendor, NEW to \in Statuses, NEW u
  PROVE  LET v == TransitionVerdict(booking, vendor, to, u)
         IN  /\ v \in {"ok", "unchanged", "notFound", "invalid", "forbidden", "conflict"}
             /\ v = "ok" => /\ booking # Null
                            /\ to \in AllowedTransitions[booking.status]
                            /\ HasAuthority(booking, vendor, u)
                            /\ ~BeyondRole(booking, vendor, u, to)
  BY DEF TransitionVerdict

\* An update that has arrived is refused or holds its booking with the new status.
LEMMA UpdateStatusWork ==
  ASSUME TypeOK, WorkOK, NEW r \in Requests, NEW b \in Requests, NEW to \in Statuses,
         NEW u \in Users, UpdateStatus(r, b, to, u)
  PROVE  TypeOK' /\ WorkOK'
<1> DEFINE v == TransitionVerdict(bookings[b], JoinedVendor(bookings[b]), to, u)
           p == IF JoinedVendor(bookings[b]) = Null THEN "orphan" ELSE "reload"
<1>1. /\ v \in {"ok", "unchanged", "notFound", "invalid", "forbidden", "conflict"}
      /\ p \in {"orphan", "reload"}
      /\ v = "ok" => bookings[b] # Null
      /\ req' = [req EXCEPT ![r] =
            IF v # "ok" THEN Done("update", v)
            ELSE [op |-> "update", by |-> u, id |-> b, pc |-> p,
                  row |-> [bookings[b] EXCEPT !.status = to],
                  old |-> bookings[b].status, answer |-> Null]]
  BY TransitionVerdictOK DEF UpdateStatus
<1> HIDE DEF v, p
<1>2. UNCHANGED <<services, bookings, audit>> /\ req[r] = Idle
  BY DEF UpdateStatus
<1>3. v = "ok" => /\ bookings[b] \in Row
                  /\ bookings[b].status \in Statuses
                  /\ [bookings[b] EXCEPT !.status = to] \in Row
  <2>1. v = "ok" => bookings[b] \in Row
    BY <1>1 DEF TypeOK
  <2> QED BY <2>1 DEF Row
<1>4. TypeOK'
  <2>1. Done("update", v) \in Request
    BY <1>1 DEF Request, Done, Answers
  <2>2. v = "ok" => [op |-> "update", by |-> u, id |-> b, pc |-> p,
                     row |-> [bookings[b] EXCEPT !.status = to],
                     old |-> bookings[b].status, answer |-> Null] \in Request
    BY <1>1, <1>3 DEF Request, InFlightPcs
  <2> QED BY <1>1, <1>2, <2>1, <2>2 DEF TypeOK
<1>5. ~Exists(r)
  BY <1>2 DEF WorkOK, Idle
<1>6. v = "ok" => /\ SamePlace(bookings[b], [bookings[b] EXCEPT !.status = to])
                  /\ bookings[b].key = [bookings[b] EXCEPT !.status = to].key
  BY <1>3 DEF Row, SamePlace
<1>7. WorkOK'
  <2> SUFFICES ASSUME NEW q \in Requests
               PROVE  /\ req'[q].op = "none" => req'[q].pc = "new"
                      /\ Exists(q)' => req'[q].op = "create" /\ req'[q].pc = "done"
                      /\ InFlight(q)' =>
                           /\ req'[q].op # "none"
                           /\ req'[q].id \in Requests
                           /\ req'[q].row \in Row
                           /\ req'[q].op = "create" => Drafting(q)'
                           /\ req'[q].op = "update" => Updating(q)'
    BY DEF WorkOK
  <2>1. CASE q # r
    <3>1. req'[q] = req[q]
      BY <1>1, <2>1 DEF TypeOK
    <3> QED BY <1>2, <3>1 DEF WorkOK, Exists, InFlight, Drafting, Updating
  <2>2. CASE q = r /\ v # "ok"
    BY <1>1, <1>2, <1>5, <2>2 DEF TypeOK, Done, Exists, InFlight, InFlightPcs
  <2>3. CASE q = r /\ v = "ok"
    <3>1. req'[r] = [op |-> "update", by |-> u, id |-> b, pc |-> p,
                     row |-> [bookings[b] EXCEPT !.status = to],
                     old |-> bookings[b].status, answer |-> Null]
      BY <1>1, <2>3 DEF TypeOK
    <3>2. /\ req'[r].op = "update" /\ req'[r].pc = p /\ req'[r].id = b
          /\ req'[r].row = [bookings[b] EXCEPT !.status = to]
      BY <3>1
    <3> QED BY <1>1, <1>2, <1>3, <1>5, <1>6, <2>3, <3>2 DEF Exists, Updating, SamePlace
  <2> QED BY <2>1, <2>2, <2>3
<1> QED BY <1>4, <1>7

\* A request in flight takes its next step, the tables unchanged.
LEMMA StepWork ==
  ASSUME TypeOK, WorkOK, NEW r \in Requests, InFlight(r),
         NEW p \in InFlightPcs,
         req[r].op = "create" => p \in {"check", "insert", "entered", "written"},
         req[r].op = "update" =>
            p \in {"orphan", "reload", "update", "locked", "written", "log"},
         req' = [req EXCEPT ![r].pc = p],
         UNCHANGED <<services, bookings, audit>>
  PROVE  TypeOK' /\ WorkOK'
<1>1. TypeOK'
  <2>1. req[r] \in Request
    BY DEF TypeOK
  <2>2. [req[r] EXCEPT !.pc = p] \in Request
    BY <2>1 DEF Request
  <2> QED BY <2>2 DEF TypeOK
<1>2. req'[r] = [req[r] EXCEPT !.pc = p] /\ \A q \in Requests \ {r} : req'[q] = req[q]
  BY DEF TypeOK
<1>3. /\ req'[r].op = req[r].op /\ req'[r].pc = p /\ req'[r].id = req[r].id
      /\ req'[r].row = req[r].row /\ req'[r].old = req[r].old
  BY <1>2 DEF TypeOK, Request
<1>4. WorkOK'
  BY <1>2, <1>3 DEF WorkOK, Exists, InFlight, InFlightPcs, Drafting, Updating
<1> QED BY <1>1, <1>4

\* A request in flight ends with an answer, the tables unchanged.
LEMMA EndWork ==
  ASSUME TypeOK, WorkOK, NEW r \in Requests, InFlight(r), NEW a \in Answers,
         req' = [req EXCEPT ![r] = Done(req[r].op, a)],
         UNCHANGED <<services, bookings, audit>>
  PROVE  TypeOK' /\ WorkOK'
<1>1. req[r].op \in {"create", "update"}
  BY DEF TypeOK, WorkOK, Request
<1>2. TypeOK'
  BY <1>1 DEF TypeOK, Request, Done, Answers
<1>3. WorkOK'
  BY <1>1 DEF TypeOK, WorkOK, Exists, InFlight, InFlightPcs, Drafting, Updating, Done
<1> QED BY <1>2, <1>3

\* A commit, by a request that alone has the row locked, keeps types and requests in order:
\* the others at work on the booking still hold its place and key.
LEMMA CommitWork ==
  ASSUME TypeOK, WorkOK, NEW r \in Requests, NEW a \in Answers, Commit(r, a),
         \A q \in Requests \ {r} : Writing(r) /\ Writing(q) => req[q].id # req[r].id
  PROVE  TypeOK' /\ WorkOK'
<1> DEFINE id == req[r].id
<1>1. /\ InFlight(r) /\ id \in Requests /\ req[r].row \in Row
      /\ req[r].op \in {"create", "update"}
  BY DEF Commit, TypeOK, WorkOK, Request, InFlight, InFlightPcs
<1>2. Logged(r) \in Entry
  BY <1>1 DEF Logged, Entry, TypeOK, Request, Row
<1>3. Writing(r) => Written(r) \in Row
  <2>1. CASE req[r].op = "create"
    BY <1>1, <2>1 DEF Written
  <2>2. CASE req[r].op = "update"
    <3>1. bookings[id] \in Row
      BY <1>1, <2>2 DEF WorkOK, Updating, Exists, TypeOK
    <3>2. req[r].row.status \in Statuses
      BY <1>1 DEF Row
    <3> QED BY <2>2, <3>1, <3>2 DEF Written, Row
  <2> QED BY <1>1, <2>1, <2>2
<1>4. audit' \in [Requests -> Seq(Entry)]
  BY <1>1, <1>2 DEF Commit, TypeOK
<1>5. bookings' \in [Requests -> Row \cup {Null}]
  BY <1>1, <1>3 DEF Commit, TypeOK, Writing
<1>6. TypeOK'
  BY <1>1, <1>4, <1>5 DEF Commit, TypeOK, Request, Done, Answers
<1>7. WorkOK'
  <2>1. /\ req'[r] = Done(req[r].op, a)
        /\ \A q \in Requests \ {r} : req'[q] = req[q]
    BY DEF Commit, TypeOK
  <2>2. ~InFlight(r)' /\ req'[r].op = req[r].op /\ req'[r].pc = "done"
    BY <2>1 DEF Done, InFlight, InFlightPcs
  <2>3. \A b \in Requests \ {id} : bookings'[b] = bookings[b]
    BY <1>1 DEF Commit, TypeOK
  <2>4. /\ req[r].op = "create" => id = r
        /\ req[r].op = "update" => Exists(id) /\ bookings'[id] # Null
    <3>1. req[r].op = "update" => Exists(id)
      BY <1>1 DEF WorkOK, Updating
    <3>2. bookings'[id] = IF req[r].pc = "log" THEN bookings[id] ELSE Written(r)
      BY <1>1 DEF Commit, TypeOK
    <3>3. Exists(id) => bookings'[id] # Null
      BY <1>1, <1>3, <3>2, NullRowAssumption DEF Exists, Commit, Writing
    <3> QED BY <1>1, <3>1, <3>3 DEF WorkOK, Drafting
  <2>5. \A b \in Requests : Exists(b)' => req'[b].op = "create" /\ req'[b].pc = "done"
    BY <1>1, <2>1, <2>2, <2>3, <2>4 DEF WorkOK, Exists, InFlight
  <2>6. ASSUME NEW q \in Requests \ {r}, InFlight(q), req[q].op = "create"
        PROVE  Drafting(q)'
    <3>1. Drafting(q) /\ id # q
      BY <1>1, <2>4, <2>6 DEF WorkOK, Drafting, Exists, InFlight
    <3> QED BY <2>1, <2>3, <3>1 DEF Drafting
  <2>7. ASSUME NEW q \in Requests \ {r}, InFlight(q), req[q].op = "update"
        PROVE  Updating(q)'
    <3>1. Updating(q) /\ req[q].id \in Requests /\ req[q].row \in Row
      BY <2>7 DEF WorkOK
    <3>2. CASE req[q].id # id
      BY <2>1, <2>3, <3>1, <3>2 DEF Updating, Exists
    <3>3. CASE req[q].id = id /\ req[r].op = "update" /\ Writing(r)
      <4>1. bookings'[id] = [bookings[id] EXCEPT !.status = req[r].row.status]
        BY <1>1, <3>3 DEF Commit, Writing, Written, TypeOK
      <4>2. bookings[id] \in Row
        BY <3>1, <3>3 DEF Updating, Exists, TypeOK
      <4>3. SamePlace(bookings'[id], req[q].row) /\ bookings'[id].key = req[q].row.key
        BY <3>1, <3>3, <4>1, <4>2 DEF Updating, Row, SamePlace
      <4>4. bookings'[id] # Null
        BY <2>4, <3>3
      <4> QED BY <2>1, <3>1, <3>3, <4>3, <4>4 DEF Updating, Exists
    <3>4. CASE req[q].id = id /\ ~Writing(r)
      BY <1>1, <2>1, <3>1, <3>4 DEF Commit, Writing, Updating, Exists
    <3>5. req[r].op = "create" => req[q].id # id
      BY <1>1, <2>4, <3>1 DEF WorkOK, Updating, Exists, Drafting
    <3> QED BY <1>1, <3>2, <3>3, <3>4, <3>5
  <2>8. ASSUME NEW q \in Requests \ {r}
        PROVE  /\ req'[q].op = "none" => req'[q].pc = "new"
               /\ InFlight(q)' =>
                    /\ req'[q].op # "none"
                    /\ req'[q].id \in Requests
                    /\ req'[q].row \in Row
                    /\ req'[q].op = "create" => Drafting(q)'
                    /\ req'[q].op = "update" => Updating(q)'
    BY <2>1, <2>6, <2>7 DEF WorkOK, InFlight
  <2>9. req'[r].op # "none"
    BY <1>1, <2>2
  <2> QED BY <2>2, <2>5, <2>8, <2>9 DEF WorkOK
<1> QED BY <1>6, <1>7

-----------------------------------------------------------------------------
(* Slots and keys *)

\* No statement goes on and no row changes: locks and index entries can only go.
LEMMA ReleaseStep ==
  ASSUME SlotOK, KeyOK, UNCHANGED bookings,
         \A q \in Requests : Keyed(q)' => Keyed(q) /\ req'[q] = req[q]
  PROVE  SlotOK' /\ KeyOK'
<1>1. \A q \in Requests : /\ Locking(q)' => Locking(q) /\ req'[q] = req[q]
                          /\ Occupies(q)' => Occupies(q) /\ req'[q] = req[q]
  BY DEF Locking, Occupies, Writing, Keyed
<1>2. SlotOK'
  BY <1>1 DEF SlotOK, SlotClash, SlotExclusive, SamePlace, Live, Exists
<1>3. KeyOK'
  BY DEF KeyOK, KeyClash, KeyUsedOnce, SameKey, Exists
<1> QED BY <1>2, <1>3

\* A statement has met no entry in its way in the index it enters.
LEMMA FreeEntry ==
  ASSUME NEW r \in Requests, Enters(r), Passes(r)
  PROVE  /\ At(r) = "key" => /\ ~KeyClash(r)
                              /\ \A q \in Requests \ {r} :
                                   Keyed(q) => ~SameKey(req[q].row, req[r].row)
         /\ At(r) = "slot" => /\ ~SlotClash(r)
                               /\ \A q \in Requests \ {r} :
                                    Occupies(q) => ~SamePlace(req[q].row, req[r].row)
<1>1. \A q \in Requests \ {r} : ~(Holds(q, At(r)) /\ Same(At(r), req[q].row, req[r].row))
  BY DEF Passes, Blockers
<1>2. \A q \in Requests : Keyed(q) => Holds(q, "key")
  BY DEF Keyed, Holds, Indexes
<1>3. \A q \in Requests : Occupies(q) => Holds(q, "slot")
  BY DEF Occupies, Writing, Holds
<1>4. At(r) = "key" => ~KeyClash(r)
  BY DEF Passes, Clash
<1>5. At(r) = "slot" => ~SlotClash(r)
  BY DEF Passes, Clash
<1> QED BY <1>1, <1>2, <1>3, <1>4, <1>5 DEF Same

\* A statement goes on after it has met nothing in its way.
LEMMA EnterStep ==
  ASSUME TypeOK, SlotOK, KeyOK, NEW r \in Requests, NEW p \in {"entered", "locked", "written"},
         req' = [req EXCEPT ![r].pc = p], UNCHANGED bookings,
         p # "entered" => \A q \in Requests \ {r} : Locking(q) => req[q].id # req[r].id,
         p = "written" /\ req[r].row.status # "CANCELLED" =>
            /\ ~SlotClash(r)
            /\ \A q \in Requests \ {r} :
                 Occupies(q) => ~SamePlace(req[q].row, req[r].row),
         ~KeyClash(r),
         \A q \in Requests \ {r} : Keyed(q) => ~SameKey(req[q].row, req[r].row)
  PROVE  SlotOK' /\ KeyOK'
<1>1. /\ req'[r].id = req[r].id /\ req'[r].row = req[r].row /\ req'[r].pc = p
      /\ \A q \in Requests \ {r} : req'[q] = req[q]
  BY DEF TypeOK, Request
<1>2. \A q \in Requests : /\ req'[q].id = req[q].id /\ req'[q].row = req[q].row
                          /\ Locking(q)' => Locking(q) \/ (q = r /\ p # "entered")
                          /\ Keyed(q)' => Keyed(q) \/ q = r
                          /\ Occupies(q)' =>
                               \/ Occupies(q) /\ q # r
                               \/ /\ q = r /\ p = "written"
                                  /\ req[r].row.status # "CANCELLED"
  BY <1>1 DEF Writing, Locking, Keyed, Occupies
<1>3. \A x, y \in Requests : Locking(x)' /\ Locking(y)' /\ x # y => req'[x].id # req'[y].id
  BY <1>1, <1>2 DEF SlotOK, Locking
<1>4. \A x, y \in Requests : Occupies(x)' /\ Occupies(y)' /\ x # y =>
                                ~SamePlace(req'[x].row, req'[y].row)
  BY <1>2 DEF SlotOK, SamePlace
<1>5. \A q \in Requests : Occupies(q)' => ~SlotClash(q)'
  BY <1>2 DEF SlotOK, SlotClash, SamePlace, Live, Exists
<1>6. SlotExclusive'
  BY DEF SlotOK, SlotExclusive, SamePlace, Live, Exists
<1>7. KeyOK'
  BY <1>2 DEF KeyOK, KeyClash, KeyUsedOnce, SameKey, Exists
<1> QED BY <1>3, <1>4, <1>5, <1>6, <1>7 DEF SlotOK

\* The INSERT of a create, whose row nobody else can have locked.
LEMMA InsertSlot ==
  ASSUME TypeOK, WorkOK, SlotOK, KeyOK, NEW r \in Requests, InsertRow(r) \/ FinishInsert(r)
  PROVE  SlotOK' /\ KeyOK'
<1>1. /\ req[r].op = "create" /\ Drafting(r)
      /\ Enters(r) /\ Passes(r) /\ UNCHANGED bookings
  BY DEF InsertRow, FinishInsert, TypeOK, WorkOK, Request, InFlight, InFlightPcs, Updating, Enters
<1>2. CASE InsertRow(r)
  <2>1. At(r) = "key"
    BY <1>2 DEF InsertRow, At, Indexes
  <2> QED BY <1>1, <1>2, <2>1, FreeEntry, EnterStep DEF InsertRow
<1>3. CASE FinishInsert(r)
  <2>1. At(r) = "slot" /\ Keyed(r)
    BY <1>3 DEF FinishInsert, At, Indexes, Keyed
  <2>2. ASSUME NEW q \in Requests \ {r}, Locking(q)
        PROVE  req[q].id # req[r].id
    <3>1. CASE req[q].op = "create"
      BY <1>1, <2>2, <3>1 DEF WorkOK, InFlight, InFlightPcs, Drafting, Locking
    <3>2. CASE req[q].op = "update"
      BY <1>1, <2>2, <3>2 DEF WorkOK, InFlight, InFlightPcs, Drafting, Updating, Exists, Locking
    <3> QED BY <2>2, <3>1, <3>2 DEF TypeOK, WorkOK, Request, InFlight, InFlightPcs, Locking
  <2>3. /\ ~KeyClash(r)
        /\ \A q \in Requests \ {r} : Keyed(q) => ~SameKey(req[q].row, req[r].row)
    BY <2>1 DEF KeyOK
  <2> QED BY <1>1, <1>3, <2>1, <2>2, <2>3, FreeEntry, EnterStep DEF FinishInsert
<1> QED BY <1>2, <1>3

\* The UPDATE of a status, whose key is the one the booking has already.
LEMMA UpdateSlot ==
  ASSUME TypeOK, WorkOK, SlotOK, KeyOK, NEW r \in Requests, UpdateRow(r) \/ FinishUpdate(r)
  PROVE  SlotOK' /\ KeyOK'
<1>1. /\ req[r].op = "update" /\ Updating(r) /\ req[r].id \in Requests
      /\ Passes(r) /\ UNCHANGED bookings
  BY DEF UpdateRow, FinishUpdate, TypeOK, WorkOK, Request, InFlight, InFlightPcs, Drafting
<1>2. \A q \in Requests \ {r} : Locking(q) => req[q].id # req[r].id
  <2>1. CASE UpdateRow(r)
    BY <1>1, <2>1 DEF UpdateRow, Passes, Blockers, HoldsRow, Locking
  <2>2. CASE FinishUpdate(r)
    BY <2>2 DEF FinishUpdate, SlotOK, Locking
  <2> QED BY <2>1, <2>2
<1>3. ~KeyClash(r)
  BY <1>1 DEF KeyClash, KeyOK, KeyUsedOnce, SameKey, Updating, Exists
<1>4. ASSUME NEW q \in Requests \ {r}, Keyed(q)
      PROVE  ~SameKey(req[q].row, req[r].row)
  <2>1. req[q].id # req[r].id
    <3>1. CASE req[q].op = "create"
      BY <1>1, <1>4, <3>1 DEF WorkOK, InFlight, InFlightPcs, Drafting, Updating, Exists, Keyed
    <3>2. CASE req[q].op = "update"
      BY <1>2, <1>4, <3>2 DEF WorkOK, InFlight, InFlightPcs, Updating, Keyed, Locking
    <3> QED BY <1>4, <3>1, <3>2 DEF TypeOK, WorkOK, Request, InFlight, InFlightPcs, Keyed
  <2>2. ~KeyClash(q)
    BY <1>4 DEF KeyOK
  <2> QED BY <1>1, <2>1, <2>2 DEF KeyClash, Updating, SameKey
<1>5. CASE UpdateRow(r)
  BY <1>1, <1>2, <1>3, <1>4, <1>5, EnterStep DEF UpdateRow
<1>6. CASE FinishUpdate(r)
  <2>1. req[r].row.status # "CANCELLED" => Enters(r) /\ At(r) = "slot"
    BY <1>6 DEF FinishUpdate, Enters, At
  <2> QED BY <1>1, <1>2, <1>3, <1>4, <1>6, <2>1, FreeEntry, EnterStep DEF FinishUpdate
<1> QED BY <1>5, <1>6

\* A commit publishes the row that was undecided and releases its lock.
LEMMA CommitSlot ==
  ASSUME TypeOK, WorkOK, SlotOK, KeyOK, NEW r \in Requests, NEW a \in Answers, Commit(r, a)
  PROVE  SlotOK' /\ KeyOK'
<1>1. /\ req'[r].pc = "done"
      /\ \A q \in Requests \ {r} : req'[q] = req[q]
  BY DEF Commit, TypeOK, Done
<1>2. \A q \in Requests : Keyed(q)' => q # r /\ Keyed(q) /\ req'[q] = req[q]
  BY <1>1 DEF Keyed
<1>3. CASE req[r].pc = "log"
  BY <1>2, <1>3, ReleaseStep DEF Commit
<1>4. CASE req[r].pc = "written"
  <2>1. PICK id \in Requests, row \in Row : req[r].id = id /\ req[r].row = row
    BY <1>4 DEF WorkOK, InFlight, InFlightPcs
  <2>2. /\ SamePlace(Written(r), row) /\ Written(r).key = row.key
        /\ Written(r).status = row.status
    <3>1. CASE req[r].op = "create"
      BY <2>1, <3>1 DEF Written, SamePlace
    <3>2. CASE req[r].op = "update"
      <4>1. Updating(r) /\ bookings[id] \in Row
        BY <1>4, <2>1, <3>2 DEF WorkOK, InFlight, InFlightPcs, Updating, Exists, TypeOK
      <4> QED BY <2>1, <3>2, <4>1 DEF Written, SamePlace, Updating, Row
    <3> QED BY <1>4, <3>1, <3>2 DEF TypeOK, WorkOK, Request, InFlight, InFlightPcs
  <2>3. /\ bookings'[id] = Written(r)
        /\ \A b \in Requests \ {id} : bookings'[b] = bookings[b]
    BY <1>4, <2>1 DEF Commit, TypeOK
  <2>4. \A q \in Requests : Locking(q)' => q # r /\ Locking(q) /\ req'[q] = req[q]
    BY <1>1 DEF Locking
  <2>5. \A b \in Requests \ {id} : (Live(b)' <=> Live(b)) /\ (Exists(b)' <=> Exists(b))
    BY <2>3 DEF Live, Exists
  <2>6. Live(id)' => Occupies(r)
    BY <1>4, <2>1, <2>2, <2>3 DEF Live, Exists, Occupies, Writing
  <2>7. \A q \in Requests : Occupies(q)' => Occupies(q) /\ q # r /\ req'[q] = req[q]
    BY <1>1 DEF Occupies, Writing
  <2>8. \A q \in Requests : Occupies(q)' => ~SlotClash(q)'
    <3> SUFFICES ASSUME NEW q \in Requests, Occupies(q)', NEW b \in Requests \ {req'[q].id},
                        Live(b)', SamePlace(bookings'[b], req'[q].row)
                 PROVE  FALSE
      BY DEF SlotClash
    <3>1. CASE b # id
      BY <2>3, <2>5, <2>7, <3>1 DEF SlotOK, SlotClash
    <3>2. CASE b = id
      BY <2>1, <2>2, <2>3, <2>6, <2>7, <3>2 DEF SlotOK, SamePlace
    <3> QED BY <3>1, <3>2
  <2>9. SlotExclusive'
    <3> SUFFICES ASSUME NEW b \in Requests \ {id}, Live(b)', Live(id)',
                        SamePlace(bookings'[b], bookings'[id])
                 PROVE  FALSE
      BY <2>1, <2>3, <2>5 DEF SlotOK, SlotExclusive, SamePlace
    <3>1. Live(b) /\ SamePlace(bookings[b], row)
      BY <2>2, <2>3, <2>5 DEF SamePlace
    <3> QED BY <2>1, <2>6, <3>1 DEF SlotOK, SlotClash
  <2>10. SlotOK'
    BY <2>4, <2>7, <2>8, <2>9 DEF SlotOK
  <2>11. \A q \in Requests : Keyed(q)' => ~KeyClash(q)'
    <3> SUFFICES ASSUME NEW q \in Requests, Keyed(q)', NEW b \in Requests \ {req'[q].id},
                        Exists(b)', SameKey(bookings'[b], req'[q].row)
                 PROVE  FALSE
      BY DEF KeyClash
    <3>1. CASE b # id
      BY <1>2, <2>3, <2>5, <3>1 DEF KeyOK, KeyClash
    <3>2. CASE b = id
      BY <1>2, <1>4, <2>1, <2>2, <2>3, <3>2 DEF KeyOK, SameKey, Keyed
    <3> QED BY <3>1, <3>2
  <2>12. KeyUsedOnce'
    <3> SUFFICES ASSUME NEW b \in Requests \ {id}, Exists(b)',
                        SameKey(bookings'[b], bookings'[id])
                 PROVE  FALSE
      BY <2>1, <2>3, <2>5 DEF KeyOK, KeyUsedOnce, SameKey
    <3>1. Exists(b) /\ SameKey(bookings[b], row)
      BY <2>2, <2>3, <2>5 DEF SameKey
    <3> QED BY <1>4, <2>1, <3>1 DEF KeyOK, KeyClash, Keyed
  <2>13. KeyOK'
    BY <1>2, <2>11, <2>12 DEF KeyOK
  <2> QED BY <2>10, <2>13
<1> QED BY <1>3, <1>4 DEF Commit

-----------------------------------------------------------------------------
(* The inductive invariant *)

Inv == TypeOK /\ WorkOK /\ SlotOK /\ KeyOK

\* The invariant holds of every listing table before the first request.
LEMMA InitInv == Init => Inv
<1> SUFFICES ASSUME Init PROVE Inv
  OBVIOUS
<1>1. TypeOK /\ WorkOK
  BY InitWork
<1>2. SlotOK /\ KeyOK
  BY DEF Init, Idle, SlotOK, KeyOK, Writing, Locking, Keyed, Occupies, SlotClash, KeyClash,
         SlotExclusive, KeyUsedOnce, Live, Exists
<1> QED BY <1>1, <1>2 DEF Inv

\* A step that ends request r, or moves it to a step where it holds nothing.
LEMMA QuietStep ==
  ASSUME TypeOK, SlotOK, KeyOK, NEW r \in Requests, UNCHANGED bookings,
         NEW x, x.pc \notin {"entered", "locked", "written"}, req' = [req EXCEPT ![r] = x]
  PROVE  SlotOK' /\ KeyOK'
<1>1. \A q \in Requests : req'[q] = IF q = r THEN x ELSE req[q]
  BY DEF TypeOK
<1> QED BY <1>1, ReleaseStep DEF Keyed

\* Every step of a request, of the catalogue and of the network keeps the invariant.
LEMMA NextInv ==
  ASSUME Inv, [Next]_vars
  PROVE  Inv'
<1> USE DEF Inv
<1>1. CASE UNCHANGED vars
  BY <1>1 DEF vars, TypeOK, WorkOK, SlotOK, KeyOK, Writing, Locking, Keyed, Occupies, SlotClash,
              KeyClash, SlotExclusive, KeyUsedOnce, Live, Exists, InFlight, Drafting, Updating
<1>2. CASE \E s \in Services : ListingChanges(s)
  <2>1. PICK s \in Services : ListingChanges(s)
    BY <1>2
  <2>2. services' \in [Services -> Listing \cup {Null}]
    BY <2>1 DEF ListingChanges, TypeOK
  <2>3. UNCHANGED <<bookings, audit, req>>
    BY <2>1 DEF ListingChanges
  <2> QED BY <2>2, <2>3
          DEF TypeOK, WorkOK, SlotOK, KeyOK, Writing, Locking, Keyed, Occupies, SlotClash,
              KeyClash, SlotExclusive, KeyUsedOnce, Live, Exists, InFlight, Drafting, Updating
<1>3. ASSUME NEW r \in Requests, NEW s \in Services, NEW t \in Slots, NEW c \in Callers,
             NEW k \in Keys \cup {Null}, NEW inFuture, Create(r, s, t, c, k, inFuture)
      PROVE  Inv'
  <2> DEFINE v == CreationVerdict(services[s], inFuture)
             x == IF v # "ok" THEN Done("create", v)
                  ELSE [op |-> "create", pc |-> "check", by |-> c, id |-> r,
                        row |-> [service |-> s, slot |-> t, client |-> c,
                                 status |-> "PENDING", key |-> k],
                        old |-> Null, answer |-> Null]
  <2>1. req' = [req EXCEPT ![r] = x] /\ UNCHANGED bookings
    BY <1>3 DEF Create
  <2>2. x.pc \notin {"entered", "locked", "written"}
    BY DEF Done
  <2> HIDE DEF x
  <2>3. SlotOK' /\ KeyOK'
    BY <2>1, <2>2, QuietStep
  <2> QED BY <1>3, <2>3, CreateWork
<1>4. ASSUME NEW r \in Requests, NEW b \in Requests, NEW to \in Statuses, NEW u \in Users,
             UpdateStatus(r, b, to, u)
      PROVE  Inv'
  <2> DEFINE v == TransitionVerdict(bookings[b], JoinedVendor(bookings[b]), to, u)
             x == IF v # "ok" THEN Done("update", v)
                  ELSE [op |-> "update", by |-> u, id |-> b,
                        pc |-> IF JoinedVendor(bookings[b]) = Null THEN "orphan" ELSE "reload",
                        row |-> [bookings[b] EXCEPT !.status = to],
                        old |-> bookings[b].status, answer |-> Null]
  <2>1. req' = [req EXCEPT ![r] = x] /\ UNCHANGED bookings
    BY <1>4 DEF UpdateStatus
  <2>2. x.pc \notin {"entered", "locked", "written"}
    BY DEF Done
  <2> HIDE DEF x
  <2>3. SlotOK' /\ KeyOK'
    BY <2>1, <2>2, QuietStep
  <2> QED BY <1>4, <2>3, UpdateStatusWork
<1>5. ASSUME NEW r \in Requests, NEW a \in Answers, InFlight(r),
             req' = [req EXCEPT ![r] = Done(req[r].op, a)],
             UNCHANGED <<services, bookings, audit>>
      PROVE  Inv'
  <2>1. Done(req[r].op, a).pc \notin {"entered", "locked", "written"}
    BY DEF Done
  <2> QED BY <1>5, <2>1, EndWork, QuietStep
<1>6. ASSUME NEW r \in Requests, CheckDuplicate(r)
      PROVE  Inv'
  <2>1. req[r].op = "create" /\ InFlight(r)
    BY <1>6 DEF CheckDuplicate, TypeOK, WorkOK, Request, InFlight, InFlightPcs, Updating
  <2>2. CASE HasDuplicateBooking(req[r].row)
    BY <1>5, <1>6, <2>1, <2>2 DEF CheckDuplicate, Answers
  <2>3. CASE ~HasDuplicateBooking(req[r].row)
    <3>1. req' = [req EXCEPT ![r] = [req[r] EXCEPT !.pc = "insert"]]
      BY <1>6, <2>3 DEF CheckDuplicate
    <3>2. [req[r] EXCEPT !.pc = "insert"].pc \notin {"entered", "locked", "written"}
      BY DEF TypeOK, Request
    <3>3. SlotOK' /\ KeyOK'
      BY <1>6, <3>1, <3>2, QuietStep DEF CheckDuplicate
    <3> QED BY <1>6, <2>1, <2>3, <3>3, StepWork DEF CheckDuplicate, InFlightPcs
  <2> QED BY <2>2, <2>3
<1>7. ASSUME NEW r \in Requests, InsertRow(r) \/ FinishInsert(r)
      PROVE  Inv'
  <2>1. req[r].op = "create" /\ InFlight(r)
    BY <1>7 DEF InsertRow, FinishInsert, TypeOK, WorkOK, Request, InFlight, InFlightPcs, Updating
  <2> QED BY <1>7, <2>1, StepWork, InsertSlot DEF InsertRow, FinishInsert, InFlightPcs
<1>8. ASSUME NEW r \in Requests, RejectKey(r) \/ RejectSlot(r) \/ RejectOrphan(r) \/ RejectUpdate(r)
      PROVE  Inv'
  <2>1. InFlight(r)
    BY <1>8 DEF RejectKey, RejectSlot, RejectOrphan, RejectUpdate, InFlight, InFlightPcs
  <2>2. req[r].pc \in {"orphan", "locked"} => req[r].op = "update"
    BY <2>1 DEF TypeOK, WorkOK, Request, Drafting
  <2>3. req[r].pc \in {"insert", "entered"} => req[r].op = "create"
    BY <2>1 DEF TypeOK, WorkOK, Request, Updating
  <2> QED BY <1>5, <1>8, <2>1, <2>2, <2>3
          DEF RejectKey, RejectSlot, RejectOrphan, RejectUpdate, Answers
<1>9. ASSUME NEW r \in Requests, Reload(r)
      PROVE  Inv'
  <2>1. req[r].op = "update" /\ InFlight(r)
    BY <1>9 DEF Reload, TypeOK, WorkOK, Request, InFlight, InFlightPcs, Drafting
  <2>2. PICK p \in {"log", "update"} : req' = [req EXCEPT ![r].pc = p]
    BY <1>9 DEF Reload
  <2>3. [req[r] EXCEPT !.pc = p].pc \notin {"entered", "locked", "written"}
    BY DEF TypeOK, Request
  <2>4. req' = [req EXCEPT ![r] = [req[r] EXCEPT !.pc = p]]
    BY <2>2
  <2>5. SlotOK' /\ KeyOK'
    BY <1>9, <2>3, <2>4, QuietStep DEF Reload
  <2> QED BY <1>9, <2>1, <2>2, <2>5, StepWork DEF Reload, InFlightPcs
<1>10. ASSUME NEW r \in Requests, UpdateRow(r) \/ FinishUpdate(r)
       PROVE  Inv'
  <2>1. req[r].op = "update" /\ InFlight(r)
    BY <1>10 DEF UpdateRow, FinishUpdate, TypeOK, WorkOK, Request, InFlight, InFlightPcs, Drafting
  <2> QED BY <1>10, <2>1, StepWork, UpdateSlot DEF UpdateRow, FinishUpdate, InFlightPcs
<1>11. ASSUME NEW r \in Requests, NEW a \in {"ok", "lost"}, Commit(r, a)
       PROVE  Inv'
  <2>1. \A q \in Requests \ {r} : Writing(r) /\ Writing(q) => req[q].id # req[r].id
    BY DEF SlotOK, Locking, Writing
  <2> QED BY <1>11, <2>1, CommitWork, CommitSlot DEF Answers
<1>12. ASSUME NEW r \in Requests, Abort(r)
       PROVE  Inv'
  BY <1>5, <1>12 DEF Abort, Answers
<1> QED BY <1>1, <1>2, <1>3, <1>4, <1>6, <1>7, <1>8, <1>9, <1>10, <1>11, <1>12
        DEF Next, RequestNext, Arrival, Mishap, Progress

\* The invariant holds throughout: what create and updateStatus hold in memory fits
\* the tables, and locks and unique indexes keep undecided and committed rows apart.
THEOREM Invariant == Spec => []Inv
<1>1. Init => Inv
  BY InitInv
<1>2. Inv /\ [Next]_vars => Inv'
  BY NextInv
<1> QED BY <1>1, <1>2, PTL DEF Spec

\* Types: every variable keeps its type, for any number of requests.
THEOREM TypeCorrect == Spec => []TypeOK
  BY Invariant, PTL DEF Inv

\* No double booking: for any number of concurrent requests and any listings,
\* two active bookings of a service never share a date and time.
THEOREM NoDoubleBooking == Spec => []SlotExclusive
<1>1. Inv => SlotExclusive
  BY DEF Inv, SlotOK
<1> QED BY <1>1, Invariant, PTL

\* An idempotency key books at most once, however often the create is retried.
THEOREM KeysAreIdempotent == Spec => []KeyUsedOnce
<1>1. Inv => KeyUsedOnce
  BY DEF Inv, KeyOK
<1> QED BY <1>1, Invariant, PTL

-----------------------------------------------------------------------------
(* Waiting *)

\* Who is waited for is in the index on keys.
LEMMA BlockerKeyed ==
  ASSUME NEW r \in Requests, NEW q \in Blockers(r)
  PROVE  q \in Requests /\ Keyed(q)
  BY DEF Blockers, HoldsRow, Holds, Keyed

\* Who is in the index on keys waits for nothing but an entry of the slot index.
LEMMA KeyedWaitsForSlot ==
  ASSUME NEW r \in Requests, Keyed(r), NEW q \in Blockers(r)
  PROVE  Holds(q, "slot") /\ SamePlace(req[q].row, req[r].row) /\ q \in Requests \ {r}
<1>1. req[r].pc \in {"entered", "locked"} /\ At(r) = "slot"
  BY DEF Keyed, Blockers, Enters, At, Indexes
<1> QED BY <1>1 DEF Blockers, Same

\* Who holds an entry of the slot index waits for nobody: what is written has all
\* it needs, and an UPDATE of an active booking keeps a place that is its own.
LEMMA SlotHolderRuns ==
  ASSUME Inv, NEW r \in Requests, Holds(r, "slot")
  PROVE  Blockers(r) = {}
<1> USE DEF Inv
<1> SUFFICES ASSUME NEW q \in Blockers(r) PROVE FALSE
  OBVIOUS
<1>1. Locking(r) /\ Keyed(r)
  BY DEF Holds, Indexes, Locking, Keyed
<1>2. req[r].pc = "locked" /\ Live(req[r].id)
  BY <1>1 DEF Blockers, Enters, Locking, Holds, Indexes
<1>3. /\ Holds(q, "slot") /\ SamePlace(req[q].row, req[r].row) /\ q \in Requests \ {r}
      /\ Locking(q) /\ req[q].id # req[r].id
  <2>1. Holds(q, "slot") /\ SamePlace(req[q].row, req[r].row) /\ q \in Requests \ {r}
    BY <1>1, KeyedWaitsForSlot
  <2>2. Locking(q)
    BY <2>1 DEF Holds, Indexes, Locking
  <2> QED BY <1>1, <2>1, <2>2 DEF SlotOK
<1>4. SamePlace(bookings[req[r].id], req[r].row) /\ req[r].id \in Requests
  <2>1. InFlight(r) /\ req[r].op \in {"create", "update"}
    BY <1>2 DEF TypeOK, WorkOK, Request, InFlight, InFlightPcs
  <2> QED BY <1>2, <2>1 DEF WorkOK, Drafting, Updating
<1>5. CASE Occupies(q)
  <2>1. SamePlace(bookings[req[r].id], req[q].row)
    BY <1>3, <1>4 DEF SamePlace
  <2> QED BY <1>2, <1>3, <1>4, <1>5, <2>1 DEF SlotOK, SlotClash
<1>6. CASE Live(req[q].id)
  <2>1. InFlight(q) /\ req[q].op \in {"create", "update"}
    BY <1>3 DEF TypeOK, WorkOK, Request, InFlight, InFlightPcs, Locking
  <2>2. SamePlace(bookings[req[q].id], req[q].row) /\ req[q].id \in Requests
    BY <1>3, <1>6, <2>1 DEF WorkOK, Drafting, Updating, Live, Exists
  <2>3. SamePlace(bookings[req[q].id], bookings[req[r].id])
    BY <1>3, <1>4, <2>2 DEF SamePlace
  <2> QED BY <1>2, <1>3, <1>4, <1>6, <2>2, <2>3 DEF SlotOK, SlotExclusive
<1> QED BY <1>3, <1>5, <1>6 DEF Holds, Indexes, Occupies, Writing, Locking

\* No deadlock: for any number of requests, transactions that wait with row locks
\* and index entries in hand never wait for one another in a circle.
THEOREM NoDeadlock == Spec => []NoCircularWait
<1>1. Inv => NoCircularWait
  <2> SUFFICES ASSUME Inv, NEW S \in SUBSET Requests, S # {},
                      \A r \in S : Blockers(r) \cap S # {}
               PROVE  FALSE
    BY DEF NoCircularWait
  <2>1. PICK r \in S : TRUE
    OBVIOUS
  <2>2. PICK q \in S : q \in Blockers(r)
    BY <2>1
  <2>3. Keyed(q)
    BY <2>2, BlockerKeyed
  <2>4. PICK p \in S : p \in Blockers(q)
    BY <2>2
  <2>5. Holds(p, "slot")
    BY <2>3, <2>4, KeyedWaitsForSlot
  <2> QED BY <2>4, <2>5, SlotHolderRuns
<1> QED BY <1>1, Invariant, PTL

-----------------------------------------------------------------------------
(* Answers *)

\* An answer is given at the end, and tells what became of a create.
AnswerOK ==
    /\ AnswerTellsOutcome
    /\ \A r \in Requests : req[r].pc # "done" => req[r].answer = Null

\* A step that commits nothing: no create succeeds by it.
LEMMA AnswerStep ==
  ASSUME TypeOK, AnswerOK, NEW r \in Requests, UNCHANGED bookings,
         NEW x, req' = [req EXCEPT ![r] = x],
         x.pc # "done" => x.answer = Null,
         x.op = "create" => x.answer # "ok" /\ ~Exists(r)
  PROVE  AnswerOK'
<1>1. \A q \in Requests : req'[q] = IF q = r THEN x ELSE req[q]
  BY DEF TypeOK
<1> QED BY <1>1 DEF AnswerOK, AnswerTellsOutcome, Exists

\* A commit: a create that is answered has its row in the table, whether the
\* answer arrives or not, and an update leaves no booking and no gap behind.
LEMMA CommitAnswer ==
  ASSUME Inv, AnswerOK, NEW r \in Requests, NEW a \in {"ok", "lost"}, Commit(r, a)
  PROVE  AnswerOK'
<1> USE DEF Inv
<1>1. PICK id \in Requests :
         /\ req[r].id = id /\ InFlight(r) /\ req[r].row \in Row
         /\ req[r].op \in {"create", "update"}
  BY DEF Commit, TypeOK, WorkOK, Request, InFlight, InFlightPcs
<1>2. /\ req'[r] = Done(req[r].op, a)
      /\ \A q \in Requests \ {r} : req'[q] = req[q]
  BY DEF Commit, TypeOK
<1>3. \A b \in Requests \ {id} : bookings'[b] = bookings[b]
  BY <1>1 DEF Commit, TypeOK
<1>4. CASE req[r].op = "create"
  <2>1. id = r /\ req[r].pc = "written"
    BY <1>1, <1>4 DEF WorkOK, Drafting, Commit
  <2>2. bookings'[r] = req[r].row
    BY <1>1, <1>4, <2>1 DEF Commit, Written, TypeOK
  <2>3. Exists(r)'
    BY <1>1, <2>2, NullRowAssumption DEF Exists
  <2> QED BY <1>2, <1>3, <2>1, <2>3 DEF AnswerOK, AnswerTellsOutcome, Exists, Done
<1>5. CASE req[r].op = "update"
  <2>1. Exists(id)
    BY <1>1, <1>5 DEF WorkOK, Updating
  <2>2. \A b \in Requests : Exists(b)' => Exists(b)
    BY <1>3, <2>1 DEF Exists
  <2>3. \A b \in Requests : Exists(b) => Exists(b)'
    <3>1. Exists(id)'
      <4>1. bookings[id] \in Row /\ req[r].row.status \in Statuses
        BY <1>1, <2>1 DEF Exists, TypeOK, Row
      <4>2. Written(r) \in Row
        BY <1>1, <1>5, <4>1 DEF Written, Row
      <4>3. bookings'[id] \in Row
        BY <1>1, <4>1, <4>2 DEF Commit, TypeOK
      <4> QED BY <4>3, NullRowAssumption DEF Exists
    <3> QED BY <1>3, <3>1 DEF Exists
  <2> QED BY <1>2, <1>5, <2>2, <2>3 DEF AnswerOK, AnswerTellsOutcome, Done
<1> QED BY <1>1, <1>4, <1>5

\* Every step keeps the answers true.
LEMMA NextAnswer ==
  ASSUME Inv, AnswerOK, [Next]_vars
  PROVE  AnswerOK'
<1> USE DEF Inv
<1>1. CASE UNCHANGED <<bookings, req>>
  BY <1>1 DEF AnswerOK, AnswerTellsOutcome, Exists
<1>2. ASSUME NEW r \in Requests, NEW s \in Services, NEW t \in Slots, NEW c \in Callers,
             NEW k \in Keys \cup {Null}, NEW inFuture, Create(r, s, t, c, k, inFuture)
      PROVE  AnswerOK'
  <2> DEFINE v == CreationVerdict(services[s], inFuture)
             x == IF v # "ok" THEN Done("create", v)
                  ELSE [op |-> "create", pc |-> "check", by |-> c, id |-> r,
                        row |-> [service |-> s, slot |-> t, client |-> c,
                                 status |-> "PENDING", key |-> k],
                        old |-> Null, answer |-> Null]
  <2>1. req' = [req EXCEPT ![r] = x] /\ UNCHANGED bookings /\ req[r] = Idle
    BY <1>2 DEF Create
  <2>2. ~Exists(r)
    BY <2>1 DEF WorkOK, Idle
  <2>3. (x.pc # "done" => x.answer = Null) /\ x.answer # "ok"
    BY NullAnswerAssumption DEF Done, Answers
  <2> HIDE DEF x
  <2> QED BY <2>1, <2>2, <2>3, AnswerStep
<1>3. ASSUME NEW r \in Requests, NEW b \in Requests, NEW to \in Statuses, NEW u \in Users,
             UpdateStatus(r, b, to, u)
      PROVE  AnswerOK'
  <2> DEFINE v == TransitionVerdict(bookings[b], JoinedVendor(bookings[b]), to, u)
             x == IF v # "ok" THEN Done("update", v)
                  ELSE [op |-> "update", by |-> u, id |-> b,
                        pc |-> IF JoinedVendor(bookings[b]) = Null THEN "orphan" ELSE "reload",
                        row |-> [bookings[b] EXCEPT !.status = to],
                        old |-> bookings[b].status, answer |-> Null]
  <2>1. req' = [req EXCEPT ![r] = x] /\ UNCHANGED bookings
    BY <1>3 DEF UpdateStatus
  <2>2. (x.pc # "done" => x.answer = Null) /\ x.op = "update"
    BY DEF Done
  <2> HIDE DEF x
  <2> QED BY <2>1, <2>2, AnswerStep
<1>4. ASSUME NEW r \in Requests, InFlight(r), UNCHANGED bookings,
             \/ \E p \in InFlightPcs : req' = [req EXCEPT ![r].pc = p]
             \/ \E a \in Answers \ {"ok"} : req' = [req EXCEPT ![r] = Done(req[r].op, a)]
      PROVE  AnswerOK'
  <2>1. req[r].op = "create" => ~Exists(r)
    BY <1>4 DEF WorkOK, Drafting, Exists
  <2>2. ASSUME NEW p \in InFlightPcs, req' = [req EXCEPT ![r].pc = p]
        PROVE  AnswerOK'
    <3>1. req[r].answer = Null
      BY <1>4 DEF AnswerOK, InFlight, InFlightPcs
    <3> DEFINE x == [req[r] EXCEPT !.pc = p]
    <3>2. x.op = req[r].op /\ x.answer = Null
      BY <3>1 DEF TypeOK, Request
    <3>3. Null # "ok"
      BY NullAnswerAssumption DEF Answers
    <3>4. req' = [req EXCEPT ![r] = x]
      BY <2>2
    <3> HIDE DEF x
    <3> QED BY <1>4, <2>1, <3>2, <3>3, <3>4, AnswerStep
  <2>3. ASSUME NEW a \in Answers \ {"ok"}, req' = [req EXCEPT ![r] = Done(req[r].op, a)]
        PROVE  AnswerOK'
    <3> DEFINE x == Done(req[r].op, a)
    <3>1. x.pc = "done" /\ x.op = req[r].op /\ x.answer # "ok"
      BY DEF Done
    <3> HIDE DEF x
    <3> QED BY <1>4, <2>1, <2>3, <3>1, AnswerStep DEF Done
  <2> QED BY <1>4, <2>2, <2>3
<1>5. ASSUME NEW r \in Requests,
             \/ CheckDuplicate(r) \/ InsertRow(r) \/ FinishInsert(r)
             \/ RejectKey(r) \/ RejectSlot(r) \/ RejectOrphan(r) \/ Reload(r)
             \/ UpdateRow(r) \/ FinishUpdate(r) \/ RejectUpdate(r) \/ Abort(r)
      PROVE  AnswerOK'
  <2>1. InFlight(r)
    BY <1>5 DEF CheckDuplicate, InsertRow, FinishInsert, RejectKey, RejectSlot, RejectOrphan,
                Reload, UpdateRow, FinishUpdate, RejectUpdate, Abort, InFlight, InFlightPcs
  <2>2. /\ req[r].pc \in {"orphan", "locked"} => req[r].op = "update"
        /\ req[r].pc \in {"check", "insert", "entered"} => req[r].op = "create"
    BY <2>1 DEF TypeOK, WorkOK, Request, Drafting, Updating
  <2>3. CASE CheckDuplicate(r)
    BY <1>4, <2>1, <2>2, <2>3 DEF CheckDuplicate, InFlightPcs, Answers
  <2>4. CASE InsertRow(r) \/ FinishInsert(r) \/ UpdateRow(r) \/ FinishUpdate(r)
    BY <1>4, <2>1, <2>4 DEF InsertRow, FinishInsert, UpdateRow, FinishUpdate, InFlightPcs
  <2>5. CASE Reload(r)
    BY <1>4, <2>1, <2>5 DEF Reload, InFlightPcs
  <2>6. CASE RejectKey(r) \/ RejectSlot(r)
    BY <1>4, <2>1, <2>2, <2>6 DEF RejectKey, RejectSlot, Answers
  <2>7. CASE RejectOrphan(r) \/ RejectUpdate(r)
    BY <1>4, <2>1, <2>2, <2>7 DEF RejectOrphan, RejectUpdate, Answers
  <2>8. CASE Abort(r)
    BY <1>4, <2>8 DEF Abort, Answers
  <2> QED BY <1>5, <2>3, <2>4, <2>5, <2>6, <2>7, <2>8
<1> QED BY <1>1, <1>2, <1>3, <1>5, CommitAnswer
        DEF Next, RequestNext, Arrival, Mishap, Progress, ListingChanges, vars

\* A create is told what it did: for any number of requests, an answer of success
\* means a booking, and any answer but a lost one means none otherwise.
THEOREM AnswersAreTrue == Spec => []AnswerTellsOutcome
<1>1. Init => AnswerOK
  BY DEF Init, Idle, AnswerOK, AnswerTellsOutcome
<1>2. Inv /\ AnswerOK /\ [Next]_vars => AnswerOK'
  BY NextAnswer
<1>3. AnswerOK => AnswerTellsOutcome
  BY DEF AnswerOK
<1> QED BY <1>1, <1>2, <1>3, Invariant, PTL DEF Spec

-----------------------------------------------------------------------------
(* The calendar *)

\* The empty table is the free calendar.
LEMMA InitReservation == Init => Reservation!Init
  BY DEF Init, Reservation!Init, Reservation!Free, HeldPlaces, Live, Exists

\* What the commit of a written row does to the calendar: the place of the row
\* is taken, released or stays with its holder.
LEMMA CommitReservation ==
  ASSUME Inv, NEW r \in Requests, NEW a \in Answers, Commit(r, a), Writing(r)
  PROVE  [Reservation!Next]_HeldPlaces
<1> USE DEF Inv
<1>1. PICK id \in Requests, row \in Row : req[r].id = id /\ req[r].row = row
  BY DEF WorkOK, Writing, InFlight, InFlightPcs
<1>2. /\ bookings'[id] # Null
      /\ SamePlace(bookings'[id], row) /\ bookings'[id].status = row.status
      /\ Exists(id) => SamePlace(bookings[id], row)
  <2>1. bookings'[id] = Written(r)
    BY <1>1 DEF Commit, Writing, TypeOK
  <2>2. CASE req[r].op = "create"
    BY <1>1, <2>1, <2>2, NullRowAssumption
       DEF Written, SamePlace, WorkOK, Writing, InFlight, InFlightPcs, Drafting, Exists
  <2>3. CASE req[r].op = "update"
    <3>1. SamePlace(bookings[id], row) /\ bookings[id] \in Row
      BY <1>1, <2>3 DEF WorkOK, Writing, InFlight, InFlightPcs, Updating, Exists, TypeOK
    <3>2. Written(r) = [bookings[id] EXCEPT !.status = row.status]
      BY <1>1, <2>3 DEF Written
    <3>3. Written(r) \in Row
      BY <3>1, <3>2 DEF Row
    <3> QED BY <2>1, <3>1, <3>2, <3>3, NullRowAssumption DEF SamePlace, Row
  <2> QED BY <2>2, <2>3 DEF TypeOK, WorkOK, Request, Writing, InFlight, InFlightPcs
<1>3. \A b \in Requests \ {id} : bookings'[b] = bookings[b]
  BY <1>1 DEF Commit, Writing, TypeOK
<1> DEFINE p == <<row.service, row.slot>>
<1>4. p \in Place /\ p[1] = row.service /\ p[2] = row.slot
  BY DEF Place, Row
<1>5. \A q \in Place : q = p <=> q[1] = row.service /\ q[2] = row.slot
  BY DEF Place
<1> DEFINE HeldAt(q) == {b \in Requests : /\ Live(b)
                                          /\ bookings[b].service = q[1]
                                          /\ bookings[b].slot = q[2]}
           HeldNext(q) == {b \in Requests : /\ Live(b)'
                                            /\ bookings'[b].service = q[1]
                                            /\ bookings'[b].slot = q[2]}
<1>6. HeldPlaces = [q \in Place |-> HeldAt(q)] /\ HeldPlaces' = [q \in Place |-> HeldNext(q)]
  BY DEF HeldPlaces
<1> HIDE DEF p
<1>7. \A b \in Requests \ {id} : \A q \in Place : b \in HeldNext(q) <=> b \in HeldAt(q)
  BY <1>3 DEF Live, Exists
<1>8. \A q \in Place : /\ id \in HeldNext(q) <=> q = p /\ row.status # "CANCELLED"
                       /\ id \in HeldAt(q) <=> q = p /\ Live(id)
  BY <1>2, <1>5 DEF Live, Exists, SamePlace
<1>9. \A q \in Place \ {p} : HeldNext(q) = HeldAt(q)
  BY <1>7, <1>8
<1>10. Live(id) => HeldAt(p) = {id}
  BY <1>2, <1>4, <1>8 DEF SlotOK, SlotExclusive, SamePlace, Live, Exists
<1>11. CASE row.status # "CANCELLED" /\ ~Live(id)
  <2>1. HeldAt(p) = {}
    BY <1>1, <1>4, <1>8, <1>11 DEF SlotOK, SlotClash, SamePlace, Occupies, Writing
  <2>2. HeldNext(p) = {id}
    BY <1>4, <1>7, <1>8, <1>11, <2>1
  <2>3. HeldPlaces' = [HeldPlaces EXCEPT ![p] = {id}]
    <3> HIDE DEF HeldAt, HeldNext
    <3> QED BY <1>4, <1>6, <1>9, <2>2, Zenon
  <2>4. Reservation!Take(p, id)
    BY <1>4, <1>6, <1>8, <1>11, <2>1, <2>3 DEF Reservation!Take, Reservation!Free
  <2> QED BY <1>4, <2>4 DEF Reservation!Next
<1>12. CASE row.status = "CANCELLED" /\ Live(id)
  <2>1. HeldNext(p) = {}
    BY <1>4, <1>7, <1>8, <1>10, <1>12
  <2>2. HeldPlaces' = [HeldPlaces EXCEPT ![p] = {}]
    <3> HIDE DEF HeldAt, HeldNext
    <3> QED BY <1>4, <1>6, <1>9, <2>1, Zenon
  <2>3. Reservation!Release(p, id)
    BY <1>4, <1>6, <1>10, <1>12, <2>2 DEF Reservation!Release
  <2> QED BY <1>4, <2>3 DEF Reservation!Next
<1>13. CASE row.status # "CANCELLED" <=> Live(id)
  <2>1. HeldNext(p) = HeldAt(p)
    BY <1>4, <1>7, <1>8, <1>13
  <2> QED BY <1>6, <1>9, <2>1
<1> QED BY <1>11, <1>12, <1>13

\* Only a commit that wrote a row touches the calendar.
LEMMA NextReservation ==
  ASSUME Inv, [Next]_vars
  PROVE  [Reservation!Next]_HeldPlaces
<1>1. CASE UNCHANGED bookings
  BY <1>1 DEF HeldPlaces, Live, Exists
<1>2. ASSUME NEW r \in Requests, NEW a \in {"ok", "lost"}, Commit(r, a)
      PROVE  [Reservation!Next]_HeldPlaces
  <2>1. CASE Writing(r)
    BY <1>2, <2>1, CommitReservation DEF Answers
  <2>2. CASE ~Writing(r)
    BY <1>1, <1>2, <2>2 DEF Commit, Writing
  <2> QED BY <2>1, <2>2
<1> QED BY <1>1, <1>2
        DEF Next, RequestNext, Arrival, Mishap, Progress, vars, Create, UpdateStatus,
            CheckDuplicate, InsertRow, FinishInsert, RejectKey, RejectSlot, RejectOrphan,
            Reload, UpdateRow, FinishUpdate, RejectUpdate, Abort, ListingChanges

\* The service implements the reservation of places: seen through its calendar,
\* every behaviour takes free places, one booking each, and gives them back.
THEOREM Refinement == Spec => ImplementsReservation
<1>1. Init => Reservation!Init
  BY InitReservation
<1>2. Inv /\ [Next]_vars => [Reservation!Next]_HeldPlaces
  BY NextReservation
<1> QED BY <1>1, <1>2, Invariant, PTL DEF Spec, ImplementsReservation, Reservation!Spec

===============================================================================
