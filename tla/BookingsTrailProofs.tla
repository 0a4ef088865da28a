-------------------------- MODULE BookingsTrailProofs --------------------------
(***************************************************************************)
(* What the audit trails of Bookings say, for every set of requests,       *)
(* listings, slots, keys and users: a booking has a trail, it opens with   *)
(* the creation, every later entry is a permitted change by somebody with  *)
(* authority, and the status of a booking is one that was logged.          *)
(* Two properties of steps follow: why a create is refused, and that ends  *)
(* are final.  Requests handled one at a time leave trails that are exact. *)
(***************************************************************************)
EXTENDS BookingsProofs, Naturals

USE RolesAssumption, NullAssumption, NullRowAssumption

\* A trail has an entry that changes to status s.
Reached(trail, s) == \E i \in DOMAIN trail : trail[i].to = s

\* e is a change of a booking of a listing that the table of transitions and the role
\* of its author allow.
Permitted(booking, listing, e) ==
    /\ e.from \in Statuses
    /\ e.to \in AllowedTransitions[e.from]
    /\ e.by \in Clients => e.to = "CANCELLED" /\ booking.client = e.by
    /\ e.by \in Vendors => listing # Null /\ listing.vendor = e.by

Creation(booking) == [by |-> booking.client, from |-> Null, to |-> "PENDING"]

\* A trail opens with the creation and goes on with permitted changes; it has
\* logged the status of its booking, and confirms before it completes.
GoodTrail(booking, listing, trail) ==
    /\ trail # <<>>
    /\ \A i \in DOMAIN trail : IF i = 1 THEN trail[i] = Creation(booking)
                                        ELSE Permitted(booking, listing, trail[i])
    /\ Reached(trail, booking.status)
    /\ Reached(trail, "COMPLETED") => Reached(trail, "CONFIRMED")

ListingOf(b) == services[bookings[b].service]

TrailOK ==
    \A b \in Requests : IF Exists(b) THEN GoodTrail(bookings[b], ListingOf(b), audit[b])
                                     ELSE audit[b] = <<>>

\* What a request in flight is going to log fits the trail, however long ago it
\* was validated: its old status is in the trail by then, the change permitted.
IntentOK ==
    \A r \in Requests : InFlight(r) =>
        /\ req[r].op = "create" => req[r].by = req[r].row.client
        /\ req[r].op = "update" =>
             /\ Reached(audit[req[r].id], req[r].old)
             /\ Permitted(bookings[req[r].id], ListingOf(req[r].id), Logged(r))

TrailInv == TrailOK /\ IntentOK

-----------------------------------------------------------------------------
(* Trails *)

\* What appending an entry does to a trail.
LEMMA AppendTrail ==
  ASSUME NEW T, NEW q \in Seq(T), NEW e \in T
  PROVE  LET n == Len(q) + 1
         IN  /\ DOMAIN Append(q, e) = DOMAIN q \cup {n}
             /\ n \notin DOMAIN q /\ Append(q, e)[n] = e
             /\ \A i \in DOMAIN q : Append(q, e)[i] = q[i]
             /\ Append(q, e) # <<>>
             /\ q = <<>> => n = 1 /\ DOMAIN q = {}
             /\ q # <<>> => n # 1 /\ 1 \in DOMAIN q
  OBVIOUS

\* booking and listing are later states of a booking and its listing: the client and
\* the vendor are the same.
SameParties(booking, listing, booking2, listing2) ==
    /\ booking2.client = booking.client
    /\ listing # Null => listing2 # Null /\ listing2.vendor = listing.vendor

\* What was permitted stays so, and the creation was the same.
LEMMA PartiesKeep ==
  ASSUME NEW booking, NEW listing, NEW booking2, NEW listing2,
         SameParties(booking, listing, booking2, listing2)
  PROVE  /\ \A e : Permitted(booking, listing, e) => Permitted(booking2, listing2, e)
         /\ Creation(booking2) = Creation(booking)
  BY DEF SameParties, Permitted, Creation

\* A new trail is good once it has its first entry.
LEMMA OpenTrail ==
  ASSUME NEW booking, NEW listing, NEW e \in Entry, e = Creation(booking),
         booking.status = "PENDING"
  PROVE  GoodTrail(booking, listing, Append(<<>>, e))
<1> DEFINE trail == Append(<<>>, e)
<1>1. DOMAIN trail = {1} /\ trail[1] = e /\ trail # <<>>
  BY AppendTrail
<1>2. e.to = "PENDING"
  BY DEF Creation
<1> HIDE DEF trail
<1>3. Reached(trail, "PENDING") /\ ~Reached(trail, "COMPLETED")
  BY <1>1, <1>2 DEF Reached
<1> QED BY <1>1, <1>3 DEF GoodTrail, trail

\* A good trail stays good when a permitted change is added whose old status it
\* has logged, if the status of the booking is then the old one or the new one.
LEMMA ExtendTrail ==
  ASSUME NEW booking, NEW listing, NEW trail \in Seq(Entry), NEW booking2, NEW listing2,
         NEW e \in Entry, SameParties(booking, listing, booking2, listing2),
         GoodTrail(booking, listing, trail), Permitted(booking, listing, e),
         Reached(trail, e.from), booking2.status \in {booking.status, e.to}
  PROVE  GoodTrail(booking2, listing2, Append(trail, e))
<1> DEFINE longer == Append(trail, e)
           n == Len(trail) + 1
<1>1. /\ DOMAIN longer = DOMAIN trail \cup {n}
      /\ n # 1 /\ longer[n] = e
      /\ \A i \in DOMAIN trail : longer[i] = trail[i]
      /\ longer # <<>>
  BY AppendTrail DEF GoodTrail
<1> HIDE DEF longer, n
<1>2. \A s : Reached(longer, s) <=> Reached(trail, s) \/ s = e.to
  BY <1>1 DEF Reached
<1>3. \A i \in DOMAIN longer : IF i = 1 THEN longer[i] = Creation(booking2)
                                        ELSE Permitted(booking2, listing2, longer[i])
  BY <1>1, PartiesKeep DEF GoodTrail
<1>4. Reached(longer, booking2.status)
  BY <1>2 DEF GoodTrail
<1>5. e.to = "COMPLETED" => e.from = "CONFIRMED"
  BY DEF Permitted, AllowedTransitions, Statuses
<1>6. Reached(longer, "COMPLETED") => Reached(longer, "CONFIRMED")
  BY <1>2, <1>5 DEF GoodTrail
<1> QED BY <1>1, <1>3, <1>4, <1>6 DEF GoodTrail, longer

\* A good trail stays good while neither it nor the status of its booking changes.
LEMMA SameTrail ==
  ASSUME NEW booking, NEW listing, NEW trail, NEW booking2, NEW listing2,
         SameParties(booking, listing, booking2, listing2),
         GoodTrail(booking, listing, trail), booking2.status = booking.status
  PROVE  GoodTrail(booking2, listing2, trail)
  BY PartiesKeep DEF GoodTrail
-----------------------------------------------------------------------------
(* Requests *)

\* Bookings keep their client and their listing its vendor, and trails what they have.
Grows ==
    \A b \in Requests : Exists(b) =>
        /\ SameParties(bookings[b], ListingOf(b), bookings'[b], ListingOf(b)')
        /\ \A s : Reached(audit[b], s) => Reached(audit'[b], s)

\* A request that goes on while the tables grow intends what it intended.
LEMMA IntentKept ==
  ASSUME WorkOK, IntentOK, Grows,
         \A q \in Requests : InFlight(q)' =>
            /\ InFlight(q)
            /\ req'[q].op = req[q].op /\ req'[q].by = req[q].by /\ req'[q].id = req[q].id
            /\ req'[q].row = req[q].row /\ req'[q].old = req[q].old
  PROVE  IntentOK'
<1> SUFFICES ASSUME NEW q \in Requests, InFlight(q)'
             PROVE  /\ req'[q].op = "create" => req'[q].by = req'[q].row.client
                    /\ req'[q].op = "update" =>
                         /\ Reached(audit'[req'[q].id], req'[q].old)
                         /\ Permitted(bookings'[req'[q].id], ListingOf(req[q].id)', Logged(q)')
  BY DEF IntentOK
<1>1. CASE req[q].op = "update"
  <2>1. req[q].id \in Requests /\ Exists(req[q].id)
    BY <1>1 DEF WorkOK, Updating
  <2>2. Logged(q)' = Logged(q)
    BY DEF Logged
  <2>3. /\ Reached(audit[req[q].id], req[q].old)
        /\ Permitted(bookings[req[q].id], ListingOf(req[q].id), Logged(q))
    BY <1>1 DEF IntentOK
  <2>4. Permitted(bookings'[req[q].id], ListingOf(req[q].id)', Logged(q))
    BY <2>1, <2>3, PartiesKeep DEF Grows
  <2> QED BY <1>1, <2>1, <2>2, <2>3, <2>4 DEF Grows
<1>2. CASE req[q].op # "update"
  BY <1>2 DEF IntentOK
<1> QED BY <1>1, <1>2

\* A step that leaves the bookings and trails alone, and the vendors.
LEMMA QuietTrail ==
  ASSUME WorkOK, TrailInv, UNCHANGED <<bookings, audit>>,
         \A b \in Requests : Exists(b) =>
            SameParties(bookings[b], ListingOf(b), bookings[b], ListingOf(b)'),
         \A q \in Requests : InFlight(q)' =>
            /\ InFlight(q)
            /\ req'[q].op = req[q].op /\ req'[q].by = req[q].by /\ req'[q].id = req[q].id
            /\ req'[q].row = req[q].row /\ req'[q].old = req[q].old
  PROVE  TrailInv'
<1>1. TrailOK'
  BY SameTrail DEF TrailInv, TrailOK, Exists
<1>2. Grows
  BY DEF Grows
<1> QED BY <1>1, <1>2, IntentKept DEF TrailInv

\* A request arrives or ends: the others go on with what they had.
LEMMA ArrivalTrail ==
  ASSUME TypeOK, TrailInv, NEW r \in Requests, NEW x,
         req' = [req EXCEPT ![r] = x], UNCHANGED <<services, bookings, audit>>,
         x.pc \in InFlightPcs =>
            /\ x.op = "create" => x.by = x.row.client
            /\ x.op = "update" =>
                 /\ Reached(audit[x.id], x.old)
                 /\ Permitted(bookings[x.id], ListingOf(x.id),
                              [by |-> x.by, from |-> x.old, to |-> x.row.status])
  PROVE  TrailInv'
<1>1. \A q \in Requests : req'[q] = IF q = r THEN x ELSE req[q]
  BY DEF TypeOK
<1>2. TrailOK'
  BY DEF TrailInv, TrailOK, Exists, ListingOf
<1>3. IntentOK'
  BY <1>1 DEF TrailInv, IntentOK, InFlight, ListingOf, Logged
<1> QED BY <1>2, <1>3 DEF TrailInv

\* An update that validateStatusTransition lets pass is permitted to its author.
LEMMA VerdictPermits ==
  ASSUME TypeOK, TrailInv, NEW b \in Requests, NEW to \in Statuses, NEW u \in Users,
         TransitionVerdict(bookings[b], JoinedVendor(bookings[b]), to, u) = "ok"
  PROVE  /\ Reached(audit[b], bookings[b].status)
         /\ Permitted(bookings[b], ListingOf(b),
                      [by |-> u, from |-> bookings[b].status, to |-> to])
<1> DEFINE row == bookings[b]
           vendor == JoinedVendor(row)
<1>1. /\ row \in Row /\ Exists(b)
      /\ to \in AllowedTransitions[row.status]
      /\ HasAuthority(row, vendor, u) /\ ~BeyondRole(row, vendor, u, to)
  BY TransitionVerdictOK DEF TypeOK, Exists
<1>2. row.status \in Statuses /\ row.service \in Services /\ row.client \in Clients \cup {Null}
  BY <1>1 DEF Row
<1>3. vendor # Null => ListingOf(b) # Null /\ vendor = ListingOf(b).vendor
  BY DEF JoinedVendor, ListingOf
<1>4. vendor \in Vendors \cup {Null}
  <2>1. ListingOf(b) # Null => ListingOf(b).vendor \in Vendors
    BY <1>2 DEF TypeOK, Listing, ListingOf
  <2> QED BY <1>3, <2>1
<1> HIDE DEF vendor
<1>5. u \in Clients => to = "CANCELLED" /\ row.client = u
  BY <1>1, <1>4 DEF HasAuthority, BeyondRole, IsClientOwner, IsVendorOwner
<1>6. u \in Vendors => vendor = u
  BY <1>1, <1>2 DEF HasAuthority, IsClientOwner, IsVendorOwner
<1>7. u # Null
  BY DEF Users
<1>8. Reached(audit[b], row.status)
  BY <1>1 DEF TrailInv, TrailOK, GoodTrail
<1> QED BY <1>1, <1>2, <1>3, <1>5, <1>6, <1>7, <1>8 DEF Permitted
\* The commit of a create opens the trail of its booking.
LEMMA CommitCreateTrail ==
  ASSUME Inv, TrailInv, NEW r \in Requests, NEW a \in {"ok", "lost"}, Commit(r, a),
         req[r].op = "create"
  PROVE  TrailOK' /\ Grows
<1> USE DEF Inv
<1>1. /\ InFlight(r) /\ Writing(r) /\ req[r].id = r /\ req[r].row \in Row
      /\ req[r].old = Null /\ req[r].row.status = "PENDING" /\ ~Exists(r)
      /\ req[r].by = req[r].row.client
  BY DEF Commit, WorkOK, InFlight, InFlightPcs, Drafting, Writing, Exists, TrailInv, IntentOK
<1>2. bookings'[r] = req[r].row /\ \A b \in Requests \ {r} : bookings'[b] = bookings[b]
  BY <1>1 DEF Commit, Written, Writing, TypeOK
<1>3. /\ audit'[r] = Append(audit[r], Logged(r))
      /\ \A b \in Requests \ {r} : audit'[b] = audit[b]
  BY <1>1 DEF Commit, TypeOK
<1>4. Logged(r) \in Entry /\ Logged(r) = Creation(req[r].row)
  BY <1>1 DEF Logged, Entry, Creation, TypeOK, Request, Row, Statuses
<1>5. audit[r] = <<>>
  BY <1>1 DEF TrailInv, TrailOK
<1>6. GoodTrail(bookings'[r], ListingOf(r)', audit'[r])
  BY <1>1, <1>2, <1>3, <1>4, <1>5, OpenTrail
<1>7. \A b \in Requests \ {r} : ListingOf(b)' = ListingOf(b)
  BY <1>2 DEF ListingOf, Commit
<1>8. Exists(r)' /\ \A b \in Requests \ {r} : Exists(b)' <=> Exists(b)
  BY <1>1, <1>2 DEF Exists
<1>9. TrailOK'
  BY <1>2, <1>3, <1>6, <1>7, <1>8 DEF TrailInv, TrailOK
<1>10. Grows
  BY <1>1, <1>2, <1>3, <1>7 DEF Grows, SameParties
<1> QED BY <1>9, <1>10

\* The commit of an update adds a permitted change to the trail of its booking,
\* and the status it wrote is the one it logged.
LEMMA CommitUpdateTrail ==
  ASSUME Inv, TrailInv, NEW r \in Requests, NEW a \in {"ok", "lost"}, Commit(r, a),
         req[r].op = "update"
  PROVE  TrailOK' /\ Grows
<1> USE DEF Inv
<1>1. PICK id \in Requests : req[r].id = id /\ InFlight(r) /\ Exists(id)
  BY DEF Commit, WorkOK, InFlight, InFlightPcs, Updating
<1>2. bookings[id] \in Row /\ req[r].row \in Row /\ req[r].row.status \in Statuses
  BY <1>1 DEF Exists, TypeOK, WorkOK, Row
<1>3. /\ bookings'[id] \in Row
      /\ bookings'[id].client = bookings[id].client
      /\ bookings'[id].service = bookings[id].service
      /\ bookings'[id].status \in {bookings[id].status, req[r].row.status}
  <2>1. CASE Writing(r)
    <3>1. bookings'[id] = [bookings[id] EXCEPT !.status = req[r].row.status]
      BY <1>1, <2>1 DEF Commit, Written, Writing, TypeOK
    <3> QED BY <1>2, <3>1 DEF Row
  <2>2. CASE ~Writing(r)
    BY <1>2, <2>2 DEF Commit, Writing
  <2> QED BY <2>1, <2>2
<1>4. \A b \in Requests \ {id} : bookings'[b] = bookings[b]
  BY <1>1 DEF Commit, TypeOK
<1>5. Exists(id)' /\ \A b \in Requests \ {id} : Exists(b)' <=> Exists(b)
  BY <1>3, <1>4 DEF Exists
<1>6. \A b \in Requests : ListingOf(b)' = ListingOf(b)
  BY <1>3, <1>4 DEF ListingOf, Commit
<1>7. /\ audit'[id] = Append(audit[id], Logged(r))
      /\ \A b \in Requests \ {id} : audit'[b] = audit[b]
  BY <1>1 DEF Commit, TypeOK
<1>8. Logged(r) \in Entry /\ audit[id] \in Seq(Entry)
  BY <1>1, <1>2 DEF Logged, Entry, TypeOK, Request
<1>9. /\ Permitted(bookings[id], ListingOf(id), Logged(r))
      /\ Reached(audit[id], Logged(r).from)
      /\ Logged(r).to = req[r].row.status
  BY <1>1 DEF TrailInv, IntentOK, Logged
<1>10. SameParties(bookings[id], ListingOf(id), bookings'[id], ListingOf(id)')
  BY <1>3, <1>6 DEF SameParties
<1>11. GoodTrail(bookings[id], ListingOf(id), audit[id])
  BY <1>1 DEF TrailInv, TrailOK
<1>12. GoodTrail(bookings'[id], ListingOf(id)', audit'[id])
  BY <1>3, <1>7, <1>8, <1>9, <1>10, <1>11, ExtendTrail
<1>13. TrailOK'
  BY <1>4, <1>5, <1>6, <1>7, <1>12 DEF TrailInv, TrailOK
<1>14. \A s : Reached(audit[id], s) => Reached(audit'[id], s)
  BY <1>7, <1>8, AppendTrail DEF Reached
<1>15. Grows
  BY <1>4, <1>6, <1>7, <1>10, <1>14 DEF Grows, SameParties
<1> QED BY <1>13, <1>15

\* Every step keeps the trails good and what the requests intend permitted.
LEMMA NextTrail ==
  ASSUME Inv, TrailInv, [Next]_vars
  PROVE  TrailInv'
<1> USE DEF Inv
<1>1. CASE UNCHANGED vars
  BY <1>1, QuietTrail DEF vars, SameParties, ListingOf, InFlight
<1>2. ASSUME NEW s \in Services, ListingChanges(s)
      PROVE  TrailInv'
  <2>1. PICK l \in Listing : /\ services[s] # Null => l.vendor = services[s].vendor
                             /\ services' = [services EXCEPT ![s] = l]
    BY <1>2 DEF ListingChanges
  <2>2. UNCHANGED <<bookings, audit, req>>
    BY <1>2 DEF ListingChanges
  <2>3. ASSUME NEW b \in Requests, Exists(b)
        PROVE  SameParties(bookings[b], ListingOf(b), bookings[b], ListingOf(b)')
    <3>1. bookings[b].service \in Services
      BY <2>3 DEF TypeOK, Exists, Row
    <3> QED BY <2>1, <2>2, <3>1 DEF SameParties, ListingOf, TypeOK
  <2> QED BY <2>2, <2>3, QuietTrail DEF InFlight
<1>3. ASSUME NEW r \in Requests, NEW s \in Services, NEW t \in Slots, NEW c \in Callers,
             NEW k \in Keys \cup {Null}, NEW inFuture, Create(r, s, t, c, k, inFuture)
      PROVE  TrailInv'
  <2> DEFINE v == CreationVerdict(services[s], inFuture)
             x == IF v # "ok" THEN Done("create", v)
                  ELSE [op |-> "create", pc |-> "check", by |-> c, id |-> r,
                        row |-> [service |-> s, slot |-> t, client |-> c,
                                 status |-> "PENDING", key |-> k],
                        old |-> Null, answer |-> Null]
  <2>1. req' = [req EXCEPT ![r] = x] /\ UNCHANGED <<services, bookings, audit>>
    BY <1>3 DEF Create
  <2>2. x.op = "create" /\ (x.pc \in InFlightPcs => x.by = x.row.client)
    BY DEF Done, InFlightPcs
  <2> HIDE DEF x
  <2> QED BY <2>1, <2>2, ArrivalTrail
<1>4. ASSUME NEW r \in Requests, NEW b \in Requests, NEW to \in Statuses, NEW u \in Users,
             UpdateStatus(r, b, to, u)
      PROVE  TrailInv'
  <2> DEFINE v == TransitionVerdict(bookings[b], JoinedVendor(bookings[b]), to, u)
             y == [op |-> "update", by |-> u, id |-> b,
                   pc |-> IF JoinedVendor(bookings[b]) = Null THEN "orphan" ELSE "reload",
                   row |-> [bookings[b] EXCEPT !.status = to],
                   old |-> bookings[b].status, answer |-> Null]
             x == IF v # "ok" THEN Done("update", v) ELSE y
  <2>1. req' = [req EXCEPT ![r] = x] /\ UNCHANGED <<services, bookings, audit>>
    BY <1>4 DEF UpdateStatus
  <2>2. v # "ok" => x.pc \notin InFlightPcs
    BY DEF Done, InFlightPcs
  <2>3. ASSUME v = "ok"
        PROVE  /\ x.op = "update"
               /\ Reached(audit[x.id], x.old)
               /\ Permitted(bookings[x.id], ListingOf(x.id),
                            [by |-> x.by, from |-> x.old, to |-> x.row.status])
    <3>1. bookings[b] \in Row
      BY <2>3, TransitionVerdictOK DEF TypeOK
    <3>2. /\ x.op = "update" /\ x.id = b /\ x.by = u
          /\ x.old = bookings[b].status /\ x.row.status = to
      BY <2>3, <3>1 DEF Row
    <3> HIDE DEF x
    <3> QED BY <2>3, <3>2, VerdictPermits
  <2> HIDE DEF x
  <2> QED BY <2>1, <2>2, <2>3, ArrivalTrail
<1>5. ASSUME NEW r \in Requests, InFlight(r), UNCHANGED <<services, bookings, audit>>,
             \/ \E p \in InFlightPcs : req' = [req EXCEPT ![r].pc = p]
             \/ \E a : req' = [req EXCEPT ![r] = Done(req[r].op, a)]
      PROVE  TrailInv'
  <2>1. ASSUME NEW p \in InFlightPcs, req' = [req EXCEPT ![r].pc = p]
        PROVE  TrailInv'
    <3>1. ASSUME NEW q \in Requests
          PROVE  /\ InFlight(q)' => InFlight(q)
                 /\ req'[q].op = req[q].op /\ req'[q].by = req[q].by
                 /\ req'[q].id = req[q].id /\ req'[q].row = req[q].row
                 /\ req'[q].old = req[q].old
      BY <1>5, <2>1 DEF TypeOK, Request, InFlight
    <3> QED BY <1>5, <3>1, QuietTrail DEF SameParties, ListingOf
  <2>2. ASSUME NEW a, req' = [req EXCEPT ![r] = Done(req[r].op, a)]
        PROVE  TrailInv'
    <3> DEFINE x == Done(req[r].op, a)
    <3>1. x.pc \notin InFlightPcs
      BY DEF Done, InFlightPcs
    <3> HIDE DEF x
    <3> QED BY <1>5, <2>2, <3>1, ArrivalTrail DEF x
  <2> QED BY <1>5, <2>1, <2>2
<1>6. ASSUME NEW r \in Requests,
             \/ CheckDuplicate(r) \/ InsertRow(r) \/ FinishInsert(r)
             \/ RejectKey(r) \/ RejectSlot(r) \/ RejectOrphan(r) \/ Reload(r)
             \/ UpdateRow(r) \/ FinishUpdate(r) \/ RejectUpdate(r) \/ Abort(r)
      PROVE  TrailInv'
  <2>1. InFlight(r)
    BY <1>6 DEF CheckDuplicate, InsertRow, FinishInsert, RejectKey, RejectSlot,
                RejectOrphan, Reload, UpdateRow, FinishUpdate, RejectUpdate, Abort, InFlight, InFlightPcs
  <2>2. req[r].pc \in {"orphan", "locked"} => req[r].op = "update"
    BY <2>1 DEF TypeOK, WorkOK, Request, Drafting
  <2>3. req[r].pc \in {"check", "insert", "entered"} => req[r].op = "create"
    BY <2>1 DEF TypeOK, WorkOK, Request, Updating
  <2>4. CASE CheckDuplicate(r)
    BY <1>5, <2>1, <2>3, <2>4 DEF CheckDuplicate, InFlightPcs
  <2>5. CASE \/ InsertRow(r) \/ FinishInsert(r)
             \/ UpdateRow(r) \/ FinishUpdate(r) \/ Reload(r)
    BY <1>5, <2>1, <2>5
       DEF InsertRow, FinishInsert, UpdateRow, FinishUpdate, Reload, InFlightPcs
  <2>6. CASE RejectKey(r) \/ RejectSlot(r)
    BY <1>5, <2>1, <2>3, <2>6 DEF RejectKey, RejectSlot
  <2>7. CASE RejectOrphan(r) \/ RejectUpdate(r) \/ Abort(r)
    BY <1>5, <2>1, <2>2, <2>7 DEF RejectOrphan, RejectUpdate, Abort
  <2> QED BY <1>6, <2>4, <2>5, <2>6, <2>7
<1>7. ASSUME NEW r \in Requests, NEW a \in {"ok", "lost"}, Commit(r, a)
      PROVE  TrailInv'
  <2>1. req[r].op \in {"create", "update"}
    BY <1>7 DEF Commit, TypeOK, WorkOK, Request, InFlight, InFlightPcs
  <2>2. TrailOK' /\ Grows
    BY <1>7, <2>1, CommitCreateTrail, CommitUpdateTrail
  <2>3. \A q \in Requests : InFlight(q)' => InFlight(q) /\ req'[q] = req[q]
    BY <1>7 DEF Commit, TypeOK, InFlight, InFlightPcs, Done
  <2> QED BY <2>2, <2>3, IntentKept DEF TrailInv
<1> QED BY <1>1, <1>2, <1>3, <1>4, <1>6, <1>7
        DEF Next, RequestNext, Arrival, Mishap, Progress

-----------------------------------------------------------------------------
(* The trails *)

\* The invariant of the trails holds throughout, for any number of requests.
THEOREM TrailInvariant == Spec => []TrailInv
<1>1. Init => TrailInv
  BY DEF Init, Idle, TrailInv, TrailOK, IntentOK, Exists, InFlight, InFlightPcs
<1>2. Inv /\ TrailInv /\ [Next]_vars => TrailInv'
  BY NextTrail
<1> QED BY <1>1, <1>2, Invariant, PTL DEF Spec

\* A booking exists exactly with its trail, which opens with its creation by its
\* client, for any number of requests, stale updates and failures.
THEOREM TrailsOpen == Spec => []CreationIsLogged
<1>1. TypeOK /\ TrailInv => CreationIsLogged
  <2> SUFFICES ASSUME TypeOK, TrailInv, NEW b \in Requests
               PROVE  /\ Exists(b) <=> audit[b] # <<>>
                      /\ \A i \in DOMAIN audit[b] : i = 1 <=> audit[b][i].from = Null
                      /\ Exists(b) => /\ audit[b][1].to = "PENDING"
                                      /\ audit[b][1].by = bookings[b].client
    BY DEF CreationIsLogged
  <2>1. CASE ~Exists(b)
    BY <2>1 DEF TrailInv, TrailOK
  <2>2. CASE Exists(b)
    <3>1. GoodTrail(bookings[b], ListingOf(b), audit[b])
      BY <2>2 DEF TrailInv, TrailOK
    <3>2. audit[b] # <<>> /\ 1 \in DOMAIN audit[b]
      BY <3>1 DEF GoodTrail, TypeOK
    <3> QED BY <2>2, <3>1, <3>2 DEF GoodTrail, Creation, Permitted
  <2> QED BY <2>1, <2>2
<1> QED BY <1>1, TrailInvariant, TypeCorrect, PTL

\* Every later entry is a change of the table by somebody with authority over the
\* booking, although it was validated long before it is logged.
THEOREM TrailsAreLegal == Spec => []TrailIsLegal
<1>1. TypeOK /\ TrailInv => TrailIsLegal
  <2> SUFFICES ASSUME TypeOK, TrailInv, NEW b \in Requests, NEW i \in DOMAIN audit[b],
                      audit[b][i].from # Null
               PROVE  Permitted(bookings[b], ListingOf(b), audit[b][i])
    BY DEF TrailIsLegal, Permitted, ListingOf
  <2>1. Exists(b)
    <3>1. DOMAIN << >> = {}
      OBVIOUS
    <3> QED BY <3>1 DEF TrailInv, TrailOK
  <2>2. GoodTrail(bookings[b], ListingOf(b), audit[b])
    BY <2>1 DEF TrailInv, TrailOK
  <2>3. i # 1
    BY <2>2 DEF GoodTrail, Creation
  <2> QED BY <2>2, <2>3 DEF GoodTrail
<1> QED BY <1>1, TrailInvariant, TypeCorrect, PTL

\* The status of a booking is one that its trail has logged.
THEOREM StatusesAreAudited == Spec => []StatusIsAudited
<1>1. TrailInv => StatusIsAudited
  BY DEF TrailInv, TrailOK, GoodTrail, Reached, StatusIsAudited
<1> QED BY <1>1, TrailInvariant, PTL

\* A COMPLETED booking was CONFIRMED, in whatever order stale updates are saved.
THEOREM ConfirmationIsNeverSkipped == Spec => []CompletedWasConfirmed
<1>1. TrailInv => CompletedWasConfirmed
  BY DEF TrailInv, TrailOK, GoodTrail, Reached, CompletedWasConfirmed, HasStatus
<1> QED BY <1>1, TrailInvariant, PTL
-----------------------------------------------------------------------------
(* Steps *)

\* The action of ConflictIsJustified for one request.
Justified(r) ==
    InFlight(r) /\ req[r].op = "create" /\ req'[r].answer = "conflict" =>
        KeyClash(r) \/ SlotClash(r)

\* A step of the service refuses a create only for a committed reason.
LEMMA NextJustified ==
  ASSUME Inv, AnswerOK, Next, NEW r \in Requests
  PROVE  Justified(r)
<1> USE DEF Inv
<1> SUFFICES ASSUME InFlight(r), req[r].op = "create", req'[r].answer = "conflict"
             PROVE  KeyClash(r) \/ SlotClash(r)
  BY DEF Justified
<1>1. Drafting(r) /\ req[r].answer = Null /\ Null # "conflict"
  BY NullAnswerAssumption DEF WorkOK, AnswerOK, InFlight, InFlightPcs, Answers
<1>2. req'[r] # req[r]
  BY <1>1
<1>3. ASSUME NEW p, req' = [req EXCEPT ![r].pc = p]
      PROVE  FALSE
  BY <1>1, <1>3 DEF TypeOK, Request
<1>4. ASSUME NEW q \in Requests \ {r}, NEW x, req' = [req EXCEPT ![q] = x]
      PROVE  FALSE
  BY <1>2, <1>4 DEF TypeOK
<1>5. CASE CheckDuplicate(r)
  <2>1. CASE HasDuplicateBooking(req[r].row)
    <3>1. PICK b \in Requests : /\ Exists(b) /\ SamePlace(bookings[b], req[r].row)
                                /\ bookings[b].status \in ActiveStatuses
      BY <2>1 DEF HasDuplicateBooking
    <3>2. b # req[r].id
      BY <1>1, <3>1 DEF Drafting, Exists
    <3> QED BY <3>1, <3>2 DEF SlotClash, Live, ActiveStatuses
  <2> QED BY <1>3, <1>5, <2>1 DEF CheckDuplicate
<1>6. CASE RejectKey(r)
  BY <1>6 DEF RejectKey, Rejected, Clash
<1>7. CASE InsertRow(r) \/ FinishInsert(r) \/ Reload(r) \/ UpdateRow(r) \/ FinishUpdate(r)
  BY <1>3, <1>7 DEF InsertRow, FinishInsert, Reload, UpdateRow, FinishUpdate
<1>8. ASSUME NEW op, NEW a \in {"ok", "lost", "error"}, req' = [req EXCEPT ![r] = Done(op, a)]
      PROVE  FALSE
  BY <1>8 DEF TypeOK, Done
<1>9. CASE RejectSlot(r) \/ RejectOrphan(r) \/ RejectUpdate(r) \/ Abort(r)
           \/ Commit(r, "ok") \/ Commit(r, "lost")
  BY <1>8, <1>9 DEF RejectSlot, RejectOrphan, RejectUpdate, Abort, Commit
<1>10. ASSUME req[r] = Idle
       PROVE  FALSE
  BY <1>10 DEF Idle, InFlight, InFlightPcs
<1>11. CASE Arrival(r)
  BY <1>10, <1>11 DEF Arrival, Create, UpdateStatus
<1>12. CASE \E s \in Services : ListingChanges(s)
  BY <1>2, <1>12 DEF ListingChanges
<1>13. ASSUME NEW q \in Requests \ {r}, Arrival(q) \/ Progress(q) \/ Mishap(q)
       PROVE  FALSE
  <2>1. \E x : req' = [req EXCEPT ![q] = x]
    BY <1>13 DEF Arrival, Progress, Mishap, Create, UpdateStatus, CheckDuplicate, InsertRow,
                FinishInsert, RejectKey, RejectSlot, RejectOrphan, Reload, UpdateRow,
                FinishUpdate, RejectUpdate, Commit, Abort
  <2> QED BY <1>4, <2>1
<1> QED BY <1>5, <1>6, <1>7, <1>9, <1>11, <1>12, <1>13
        DEF Next, RequestNext, Progress, Mishap

\* Every 409 of a create has a committed reason, for any number of requests.
THEOREM ConflictsAreJustified == Spec => ConflictIsJustified
<1>1. Init => AnswerOK
  BY DEF Init, Idle, AnswerOK, AnswerTellsOutcome
<1>2. Inv /\ AnswerOK /\ [Next]_vars => AnswerOK'
  BY NextAnswer
<1>3. Inv /\ AnswerOK /\ [Next]_vars =>
        [\A r \in Requests :
           InFlight(r) /\ req[r].op = "create" /\ req'[r].answer = "conflict" =>
               KeyClash(r) \/ SlotClash(r)]_vars
  BY NextJustified DEF Justified
<1> QED BY <1>1, <1>2, <1>3, Invariant, PTL DEF Spec, ConflictIsJustified

\* A step leaves a booking that has ended, and that nobody is at work on, alone.
LEMMA NextSettles ==
  ASSUME Inv, Next, NEW b \in Requests, NEW s \in {"COMPLETED", "CANCELLED"},
         HasStatus(b, s), Quiet(b)
  PROVE  HasStatus(b, s)' /\ Quiet(b)'
<1> USE DEF Inv
<1>1. Exists(b) /\ bookings[b].status = s /\ ~InFlight(b) /\ req[b] # Idle
  BY DEF HasStatus, WorkOK, InFlight, InFlightPcs, Idle
<1>2. ASSUME UNCHANGED bookings
      PROVE  HasStatus(b, s)'
  BY <1>1, <1>2 DEF HasStatus, Exists
<1>3. ASSUME NEW r \in Requests, InFlight(r),
             \/ \E p : req' = [req EXCEPT ![r].pc = p]
             \/ \E a : req' = [req EXCEPT ![r] = Done(req[r].op, a)]
      PROVE  req[r].id # b /\ Quiet(b)'
  <2>1. req[r].id # b
    BY <1>3 DEF Quiet
  <2>2. \A q \in Requests \ {r} : req'[q] = req[q]
    BY <1>3 DEF TypeOK
  <2>3. InFlight(r)' => req'[r].id = req[r].id
    BY <1>3 DEF InFlight, InFlightPcs, Done, TypeOK, Request
  <2> QED BY <2>1, <2>2, <2>3 DEF Quiet, InFlight
<1>4. ASSUME NEW r \in Requests, NEW t \in Services, NEW d \in Slots, NEW c \in Callers,
             NEW k \in Keys \cup {Null}, NEW inFuture, Create(r, t, d, c, k, inFuture)
      PROVE  HasStatus(b, s)' /\ Quiet(b)'
  <2>1. UNCHANGED bookings /\ r # b
    BY <1>1, <1>4 DEF Create
  <2>2. \A q \in Requests \ {r} : req'[q] = req[q]
    BY <1>4 DEF Create, TypeOK
  <2>3. InFlight(r)' => req'[r].id = r
    BY <1>4 DEF Create, InFlight, InFlightPcs, Done, TypeOK
  <2> QED BY <1>2, <2>1, <2>2, <2>3 DEF Quiet, InFlight
<1>5. ASSUME NEW r \in Requests, NEW d \in Requests, NEW to \in Statuses, NEW u \in Users,
             UpdateStatus(r, d, to, u)
      PROVE  HasStatus(b, s)' /\ Quiet(b)'
  <2> DEFINE v == TransitionVerdict(bookings[d], JoinedVendor(bookings[d]), to, u)
  <2>1. UNCHANGED bookings /\ \A q \in Requests \ {r} : req'[q] = req[q]
    BY <1>5 DEF UpdateStatus, TypeOK
  <2>2. InFlight(r)' => v = "ok" /\ req'[r].id = d
    <3> HIDE DEF v
    <3>1. v # "ok" => req'[r] = Done("update", v)
      BY <1>5 DEF UpdateStatus, TypeOK, v
    <3>2. v = "ok" => req'[r].id = d
      BY <1>5 DEF UpdateStatus, TypeOK, v
    <3> QED BY <3>1, <3>2 DEF InFlight, InFlightPcs, Done
  <2>3. v = "ok" => d # b
    <3>1. AllowedTransitions[s] = {}
      BY DEF AllowedTransitions, Statuses
    <3> QED BY <1>1, <3>1, TransitionVerdictOK
  <2> QED BY <1>2, <2>1, <2>2, <2>3 DEF Quiet, InFlight
<1>6. ASSUME NEW r \in Requests,
             \/ CheckDuplicate(r) \/ InsertRow(r) \/ FinishInsert(r)
             \/ RejectKey(r) \/ RejectSlot(r) \/ RejectOrphan(r) \/ Reload(r)
             \/ UpdateRow(r) \/ FinishUpdate(r) \/ RejectUpdate(r) \/ Abort(r)
      PROVE  HasStatus(b, s)' /\ Quiet(b)'
  <2>1. InFlight(r)
    BY <1>6 DEF CheckDuplicate, InsertRow, FinishInsert, RejectKey, RejectSlot,
                RejectOrphan, Reload, UpdateRow, FinishUpdate, RejectUpdate, Abort, InFlight, InFlightPcs
  <2>2. /\ req[r].pc \in {"orphan", "locked"} => req[r].op = "update"
        /\ req[r].pc \in {"check", "insert", "entered"} => req[r].op = "create"
    BY <2>1 DEF TypeOK, WorkOK, Request, Drafting, Updating
  <2>3. \/ \E p : req' = [req EXCEPT ![r].pc = p]
        \/ \E a : req' = [req EXCEPT ![r] = Done(req[r].op, a)]
    BY <1>6, <2>2 DEF CheckDuplicate, InsertRow, FinishInsert, RejectKey, RejectSlot,
                      RejectOrphan, Reload, UpdateRow, FinishUpdate, RejectUpdate, Abort
  <2>4. UNCHANGED bookings
    BY <1>6 DEF CheckDuplicate, InsertRow, FinishInsert, RejectKey, RejectSlot,
                RejectOrphan, Reload, UpdateRow, FinishUpdate, RejectUpdate, Abort
  <2> QED BY <1>2, <1>3, <2>1, <2>3, <2>4
<1>7. ASSUME NEW r \in Requests, NEW a, Commit(r, a)
      PROVE  HasStatus(b, s)' /\ Quiet(b)'
  <2>1. InFlight(r) /\ req' = [req EXCEPT ![r] = Done(req[r].op, a)]
    BY <1>7 DEF Commit, InFlight, InFlightPcs
  <2>2. req[r].id # b /\ Quiet(b)'
    BY <1>3, <2>1
  <2>3. bookings'[b] = bookings[b]
    BY <1>7, <2>2 DEF Commit, TypeOK
  <2> QED BY <1>1, <2>2, <2>3 DEF HasStatus, Exists
<1>8. ASSUME NEW t \in Services, ListingChanges(t)
      PROVE  HasStatus(b, s)' /\ Quiet(b)'
  BY <1>2, <1>8 DEF ListingChanges, Quiet, InFlight
<1> QED BY <1>4, <1>5, <1>6, <1>7, <1>8
        DEF Next, RequestNext, Arrival, Progress, Mishap

\* A booking that has ended is out of reach of every request that has not loaded it
\* before: COMPLETED and CANCELLED are final but for updates already under way.
THEOREM EndsAreFinal == Spec => TerminalSettles
<1>1. Inv /\ [Next]_vars =>
        [\A b \in Requests, s \in {"COMPLETED", "CANCELLED"} :
           HasStatus(b, s) /\ Quiet(b) => HasStatus(b, s)' /\ Quiet(b)']_vars
  BY NextSettles
<1> QED BY <1>1, Invariant, PTL DEF Spec, TerminalSettles
-----------------------------------------------------------------------------
(* One request at a time *)

\* At most one request is under way, and an update under way still finds the
\* status it has loaded.
Alone ==
    /\ \A q, r \in Requests : InFlight(q) /\ InFlight(r) => q = r
    /\ \A r \in Requests : InFlight(r) /\ req[r].op = "update" =>
         /\ req[r].pc # "log"
         /\ bookings[req[r].id].status = req[r].old

\* A request arrives while no other is under way.
LEMMA ArrivesAlone ==
  ASSUME TypeOK, Alone, NEW r \in Requests, NEW x,
         \A q \in Requests : ~InFlight(q),
         req' = [req EXCEPT ![r] = x], UNCHANGED bookings,
         x.pc \in InFlightPcs /\ x.op = "update" =>
            x.pc # "log" /\ bookings[x.id].status = x.old
  PROVE  Alone'
<1>1. \A q \in Requests : req'[q] = IF q = r THEN x ELSE req[q]
  BY DEF TypeOK
<1>2. \A q \in Requests \ {r} : ~InFlight(q)'
  BY <1>1 DEF InFlight
<1> QED BY <1>1, <1>2 DEF Alone, InFlight

\* The request under way goes on.
LEMMA GoesOnAlone ==
  ASSUME TypeOK, Alone, NEW r \in Requests, InFlight(r), NEW p,
         req' = [req EXCEPT ![r].pc = p], UNCHANGED bookings,
         p = "log" => req[r].op # "update"
  PROVE  Alone'
<1>1. \A q \in Requests \ {r} : req'[q] = req[q] /\ ~InFlight(q)
  BY DEF TypeOK, Alone
<1>2. /\ req'[r].pc = p /\ req'[r].op = req[r].op /\ req'[r].id = req[r].id
      /\ req'[r].old = req[r].old
  BY DEF TypeOK, Request
<1> QED BY <1>1, <1>2 DEF Alone, InFlight

\* The request under way ends, and then none is, whatever it has changed.
LEMMA EndsAlone ==
  ASSUME TypeOK, Alone, NEW r \in Requests, InFlight(r), NEW op, NEW a,
         req' = [req EXCEPT ![r] = Done(op, a)]
  PROVE  Alone'
<1>1. \A q \in Requests \ {r} : req'[q] = req[q] /\ ~InFlight(q)
  BY DEF TypeOK, Alone
<1>2. req'[r].pc = "done"
  BY DEF TypeOK, Done
<1> QED BY <1>1, <1>2 DEF Alone, InFlight, InFlightPcs

\* Requests handled one at a time stay alone, and find what they have loaded.
LEMMA NextAlone ==
  ASSUME Inv, TrailInv, Alone, [Next /\ OneAtATime]_vars
  PROVE  Alone'
<1> USE DEF Inv
<1>1. CASE UNCHANGED <<bookings, req>>
  BY <1>1 DEF Alone, InFlight
<1>2. ASSUME NEW r \in Requests, NEW s \in Services, NEW t \in Slots, NEW c \in Callers,
             NEW k \in Keys \cup {Null}, NEW inFuture, Create(r, s, t, c, k, inFuture),
             OneAtATime
      PROVE  Alone'
  <2> DEFINE v == CreationVerdict(services[s], inFuture)
             x == IF v # "ok" THEN Done("create", v)
                  ELSE [op |-> "create", pc |-> "check", by |-> c, id |-> r,
                        row |-> [service |-> s, slot |-> t, client |-> c,
                                 status |-> "PENDING", key |-> k],
                        old |-> Null, answer |-> Null]
  <2>1. req' = [req EXCEPT ![r] = x] /\ UNCHANGED bookings /\ req[r] = Idle
    BY <1>2 DEF Create
  <2>2. x.op = "create"
    BY DEF Done
  <2> HIDE DEF x
  <2>3. \A q \in Requests : ~InFlight(q)
    BY <1>2, <2>1, <2>2 DEF OneAtATime, Idle, TypeOK
  <2> QED BY <2>1, <2>2, <2>3, ArrivesAlone
<1>3. ASSUME NEW r \in Requests, NEW b \in Requests, NEW to \in Statuses, NEW u \in Users,
             UpdateStatus(r, b, to, u), OneAtATime
      PROVE  Alone'
  <2> DEFINE v == TransitionVerdict(bookings[b], JoinedVendor(bookings[b]), to, u)
             x == IF v # "ok" THEN Done("update", v)
                  ELSE [op |-> "update", by |-> u, id |-> b,
                        pc |-> IF JoinedVendor(bookings[b]) = Null THEN "orphan" ELSE "reload",
                        row |-> [bookings[b] EXCEPT !.status = to],
                        old |-> bookings[b].status, answer |-> Null]
  <2>1. req' = [req EXCEPT ![r] = x] /\ UNCHANGED bookings /\ req[r] = Idle
    BY <1>3 DEF UpdateStatus
  <2>2. /\ x.op = "update"
        /\ x.pc \in InFlightPcs => x.pc # "log" /\ bookings[x.id].status = x.old
    BY DEF Done, InFlightPcs
  <2> HIDE DEF x
  <2>3. \A q \in Requests : ~InFlight(q)
    BY <1>3, <2>1, <2>2 DEF OneAtATime, Idle, TypeOK
  <2> QED BY <2>1, <2>2, <2>3, ArrivesAlone
<1>4. ASSUME NEW r \in Requests,
             \/ CheckDuplicate(r) \/ InsertRow(r) \/ FinishInsert(r)
             \/ RejectKey(r) \/ RejectSlot(r) \/ RejectOrphan(r) \/ Reload(r)
             \/ UpdateRow(r) \/ FinishUpdate(r) \/ RejectUpdate(r) \/ Abort(r)
      PROVE  Alone'
  <2>1. InFlight(r)
    BY <1>4 DEF CheckDuplicate, InsertRow, FinishInsert, RejectKey, RejectSlot,
                RejectOrphan, Reload, UpdateRow, FinishUpdate, RejectUpdate, Abort, InFlight, InFlightPcs
  <2>2. CASE Reload(r)
    <3>1. req[r].op = "update"
      BY <2>1, <2>2 DEF Reload, TypeOK, WorkOK, Request, Drafting
    <3>2. Permitted(bookings[req[r].id], ListingOf(req[r].id), Logged(r))
      BY <2>1, <3>1 DEF TrailInv, IntentOK
    <3>3. req[r].row.status # req[r].old
      BY <3>2 DEF Permitted, Logged, AllowedTransitions, Statuses
    <3>4. bookings[req[r].id].status # req[r].row.status
      BY <2>1, <3>1, <3>3 DEF Alone
    <3> QED BY <2>1, <2>2, <3>4, GoesOnAlone DEF Reload
  <2>3. CASE InsertRow(r) \/ FinishInsert(r) \/ UpdateRow(r) \/ FinishUpdate(r)
    BY <2>1, <2>3, GoesOnAlone DEF InsertRow, FinishInsert, UpdateRow, FinishUpdate
  <2>4. CASE CheckDuplicate(r)
    BY <2>1, <2>4, GoesOnAlone, EndsAlone DEF CheckDuplicate
  <2>5. CASE RejectKey(r) \/ RejectSlot(r) \/ RejectOrphan(r) \/ RejectUpdate(r) \/ Abort(r)
    BY <2>1, <2>5, EndsAlone DEF RejectKey, RejectSlot, RejectOrphan, RejectUpdate, Abort
  <2> QED BY <1>4, <2>2, <2>3, <2>4, <2>5
<1>5. ASSUME NEW r \in Requests, NEW a, Commit(r, a)
      PROVE  Alone'
  BY <1>5, EndsAlone DEF Commit, InFlight, InFlightPcs
<1> QED BY <1>1, <1>2, <1>3, <1>4, <1>5
        DEF Next, RequestNext, Arrival, Mishap, Progress, ListingChanges, vars

\* The changes of status a trail has logged.
Changes(trail) == [i \in DOMAIN trail |-> <<trail[i].from, trail[i].to>>]

LEMMA AppendChange ==
  ASSUME NEW q \in Seq(Entry), NEW e \in Entry
  PROVE  Changes(Append(q, e)) = Append(Changes(q), <<e.from, e.to>>)
<1> DEFINE T == (Statuses \cup {Null}) \X Statuses
           n == Len(q) + 1
           c == Changes(q)
           d == Append(c, <<e.from, e.to>>)
<1>1. /\ DOMAIN Append(q, e) = 1 .. n /\ DOMAIN q = 1 .. Len(q) /\ Len(q) \in Nat
      /\ Append(q, e)[n] = e
      /\ \A i \in 1 .. Len(q) : Append(q, e)[i] = q[i]
  OBVIOUS
<1>2. \A i \in 1 .. Len(q) : q[i] \in Entry
  OBVIOUS
<1>3. c \in Seq(T) /\ Len(c) = Len(q)
  BY <1>1, <1>2 DEF Changes, Entry
<1>4. <<e.from, e.to>> \in T
  BY DEF Entry
<1>5. /\ DOMAIN d = 1 .. n /\ d[n] = <<e.from, e.to>>
      /\ \A i \in 1 .. Len(q) : d[i] = c[i]
      /\ d = [i \in 1 .. n |-> d[i]]
  <2> HIDE DEF c, T
  <2> QED BY <1>1, <1>3, <1>4
<1>6. \A i \in 1 .. Len(q) : c[i] = <<q[i].from, q[i].to>>
  BY <1>1 DEF Changes
<1>7. \A i \in 1 .. n : d[i] = <<Append(q, e)[i].from, Append(q, e)[i].to>>
  BY <1>1, <1>5, <1>6
<1> HIDE DEF d, n
<1> QED BY <1>1, <1>5, <1>7 DEF Changes, d

LEMMA InitLifecycle == Init => Lifecycle!Init
<1> SUFFICES ASSUME Init PROVE Lifecycle!Init
  OBVIOUS
<1>1. Changes(<<>>) = <<>>
  BY DEF Changes
<1> QED BY <1>1 DEF Init, Lifecycle!Init, Exists, Changes

\* A commit is a step of the life of its booking.
LEMMA CommitLifecycle ==
  ASSUME Inv, TrailInv, Alone, NEW r \in Requests, NEW a \in {"ok", "lost"}, Commit(r, a)
  PROVE  Lifecycle!Next
<1> USE DEF Inv
<1>1. PICK id \in Requests :
         /\ req[r].id = id /\ InFlight(r) /\ req[r].row \in Row
         /\ req[r].op \in {"create", "update"}
  BY DEF Commit, TypeOK, WorkOK, Request, InFlight, InFlightPcs
<1>1a. PICK to \in Statuses : req[r].row.status = to
  BY <1>1 DEF Row
<1> DEFINE status == IF Exists(id) THEN bookings[id].status ELSE Null
<1>2. /\ Writing(r) /\ status = req[r].old
      /\ bookings'[id] # Null /\ bookings'[id].status = to
  <2>1. CASE req[r].op = "create"
    <3>1. id = r /\ Writing(r) /\ ~Exists(id) /\ req[r].old = Null
      BY <1>1, <2>1 DEF WorkOK, Drafting, Commit, Writing, Exists
    <3>2. bookings'[id] = req[r].row
      BY <1>1, <2>1, <3>1 DEF Commit, Written, Writing, TypeOK
    <3> QED BY <1>1a, <1>1, <3>1, <3>2
  <2>2. CASE req[r].op = "update"
    <3>1. Writing(r) /\ Exists(id) /\ bookings[id].status = req[r].old
      BY <1>1, <2>2 DEF Alone, Commit, Writing, WorkOK, Updating
    <3>2. bookings[id] \in Row
      BY <1>1, <3>1 DEF TypeOK, Exists, Row
    <3>3. bookings'[id] = [bookings[id] EXCEPT !.status = to]
      BY <1>1a, <1>1, <2>2, <3>1 DEF Commit, Written, Writing, TypeOK
    <3>4. bookings'[id] \in Row /\ bookings'[id].status = to
      BY <3>2, <3>3 DEF Row
    <3> QED BY <3>1, <3>4
  <2> QED BY <1>1, <2>1, <2>2
<1>3. \A b \in Requests \ {id} : bookings'[b] = bookings[b]
  BY <1>1 DEF Commit, TypeOK
<1>4. /\ audit'[id] = Append(audit[id], Logged(r))
      /\ \A b \in Requests \ {id} : audit'[b] = audit[b]
  BY <1>1 DEF Commit, TypeOK
<1>5. Logged(r) \in Entry /\ audit[id] \in Seq(Entry)
  BY <1>1 DEF Logged, Entry, TypeOK, Request, Row
<1>6. Changes(audit'[id]) = Append(Changes(audit[id]), <<status, to>>)
  BY <1>1a, <1>2, <1>4, <1>5, AppendChange DEF Logged
<1>7. IF status = Null THEN to = "PENDING"
      ELSE to \in AllowedTransitions[status]
  <2>1. CASE req[r].op = "create"
    BY <1>1a, <1>1, <1>2, <2>1 DEF WorkOK, Drafting
  <2>2. CASE req[r].op = "update"
    <3>1. Permitted(bookings[id], ListingOf(id), Logged(r))
      BY <1>1, <2>2 DEF TrailInv, IntentOK
    <3> QED BY <1>1a, <1>2, <3>1 DEF Permitted, Logged
  <2> QED BY <1>1, <2>1, <2>2
<1>8. \A b \in Requests : (IF Exists(b) THEN bookings[b].status ELSE Null)' =
        IF b = id THEN to ELSE IF Exists(b) THEN bookings[b].status ELSE Null
  BY <1>2, <1>3 DEF Exists
<1>9. \A b \in Requests : Changes(audit'[b]) =
        IF b = id THEN Append(Changes(audit[b]), <<status, to>>) ELSE Changes(audit[b])
  BY <1>4, <1>6
<1>10. Lifecycle!Change(id, to)
  BY <1>8, <1>9 DEF Lifecycle!Change, Changes
<1>11. Lifecycle!Book(id) \/ Lifecycle!Move(id, to)
  <2>1. AllowedTransitions = Lifecycle!AllowedTransitions
    BY DEF AllowedTransitions, Lifecycle!AllowedTransitions, Statuses, Lifecycle!Statuses
  <2>2. [b \in Requests |-> IF Exists(b) THEN bookings[b].status ELSE Null][id] = status
    OBVIOUS
  <2> HIDE DEF status
  <2>3. CASE status = Null
    <3>1. Lifecycle!Change(id, "PENDING")
      BY <1>7, <1>10, <2>3
    <3> QED BY <2>2, <2>3, <3>1 DEF Lifecycle!Book
  <2>4. CASE status # Null
    BY <1>7, <1>10, <2>1, <2>2, <2>4 DEF Lifecycle!Move
  <2> QED BY <2>3, <2>4
<1>12. to \in Lifecycle!Statuses
  BY DEF Statuses, Lifecycle!Statuses
<1> QED BY <1>11, <1>12 DEF Lifecycle!Next

\* Only a commit reaches a booking or its trail.
LEMMA NextLifecycle ==
  ASSUME Inv, TrailInv, Alone, [Next]_vars
  PROVE  [Lifecycle!Next]_(Lifecycle!vars)
<1>1. CASE UNCHANGED <<bookings, audit>>
  BY <1>1 DEF Lifecycle!vars, Exists
<1> QED BY <1>1, CommitLifecycle
        DEF Next, RequestNext, Arrival, Mishap, Progress, vars, Create, UpdateStatus,
            CheckDuplicate, InsertRow, FinishInsert, RejectKey, RejectSlot, RejectOrphan,
            Reload, UpdateRow, FinishUpdate, RejectUpdate, Abort, ListingChanges

\* Handled one at a time, the requests give every booking the life that the table of
\* transitions tells, and a trail that is its history, entry by entry.
THEOREM SerialHistories == SerialSpec => ImplementsLifecycle
<1>1. Init => Inv /\ TrailInv /\ Alone /\ Lifecycle!Init
  <2>1. Init => TrailInv /\ Alone
    BY DEF Init, Idle, TrailInv, TrailOK, IntentOK, Alone, Exists, InFlight, InFlightPcs
  <2> QED BY <2>1, InitInv, InitLifecycle
<1>2. Inv /\ TrailInv /\ Alone /\ [Next /\ OneAtATime]_vars => Inv' /\ TrailInv' /\ Alone'
  BY NextInv, NextTrail, NextAlone
<1>3. Inv /\ TrailInv /\ Alone /\ [Next /\ OneAtATime]_vars => [Lifecycle!Next]_(Lifecycle!vars)
  BY NextLifecycle
<1> QED BY <1>1, <1>2, <1>3, PTL DEF SerialSpec, ImplementsLifecycle, Lifecycle!Spec

LifeStatus == [b \in Requests |-> IF Exists(b) THEN bookings[b].status ELSE Null]
LifeTrail == [b \in Requests |-> Changes(audit[b])]

\* A trail tr that led to status st, and how long it can be.
Chain(st, tr) ==
    /\ st \in Statuses \cup {Null}
    /\ tr \in Seq((Statuses \cup {Null}) \X Statuses)
    /\ st = Null <=> tr = <<>>
    /\ st # Null => tr[1] = <<Null, "PENDING">> /\ tr[Len(tr)][2] = st
    /\ \A i \in 2 .. Len(tr) : tr[i][1] = tr[i - 1][2]
    /\ st = "PENDING" => Len(tr) = 1
    /\ st = "CONFIRMED" => Len(tr) = 2
    /\ Len(tr) <= 3

LEMMA ChainGrows ==
  ASSUME NEW st, NEW tr, NEW to \in Statuses, Chain(st, tr),
         IF st = Null THEN to = "PENDING" ELSE to \in AllowedTransitions[st]
  PROVE  Chain(to, Append(tr, <<st, to>>))
<1> DEFINE T == (Statuses \cup {Null}) \X Statuses
           d == Append(tr, <<st, to>>)
           n == Len(tr) + 1
<1>1. /\ st \in Statuses \cup {Null} /\ tr \in Seq(T) /\ <<st, to>> \in T
      /\ Len(tr) \in Nat
  BY DEF Chain
<1>2. /\ d \in Seq(T) /\ Len(d) = n /\ d[n] = <<st, to>>
      /\ \A i \in 1 .. Len(tr) : d[i] = tr[i]
  <2> HIDE DEF T
  <2> QED BY <1>1
<1>3. to # Null /\ d # <<>> /\ d[Len(d)][2] = to
  <2>1. Len(d) # 0 /\ d[Len(d)] = <<st, to>> BY <1>1, <1>2
  <2> HIDE DEF d
  <2> QED BY <2>1
<1>4. CASE st = Null
  <2>1. Len(tr) = 0 /\ to = "PENDING" BY <1>4 DEF Chain
  <2>2. n = 1 /\ Len(d) = 1 BY <1>2, <2>1
  <2>3. d[1] = <<Null, "PENDING">> BY <1>2, <1>4, <2>1, <2>2
  <2>4. Chain(to, d)
    <3> HIDE DEF d, n
    <3> QED BY <1>2, <1>3, <2>1, <2>2, <2>3 DEF Chain
  <2> QED BY <2>4
<1>5. CASE st # Null
  <2>1. Len(tr) \in 1 .. 2
    <3>1. tr # <<>> BY <1>5 DEF Chain
    <3>2. st \in {"PENDING", "CONFIRMED"} BY <1>1, <1>5 DEF AllowedTransitions, Statuses
    <3>3. Len(tr) = 1 \/ Len(tr) = 2 BY <3>2 DEF Chain
    <3> QED BY <1>1, <3>3
  <2>2. d[1] = <<Null, "PENDING">> BY <1>2, <1>5, <2>1 DEF Chain
  <2>3. \A i \in 2 .. Len(d) : d[i][1] = d[i - 1][2]
    <3> SUFFICES ASSUME NEW i \in 2 .. n PROVE d[i][1] = d[i - 1][2]
      BY <1>2
    <3>1. CASE i = n
      BY <1>2, <1>5, <2>1, <3>1 DEF Chain
    <3>2. CASE i # n
      BY <1>1, <1>2, <2>1, <3>2 DEF Chain
    <3> QED BY <3>1, <3>2
  <2>4. to # "PENDING" /\ (to = "CONFIRMED" => Len(d) = 2) /\ Len(d) <= 3
    <3>1. to # "PENDING" /\ (to = "CONFIRMED" => st = "PENDING")
      BY <1>1, <1>5 DEF AllowedTransitions, Statuses
    <3>2. st = "PENDING" => Len(tr) = 1 BY DEF Chain
    <3>3. Len(d) = Len(tr) + 1 BY <1>2
    <3>4. \A m, k : m \in 1 .. 2 /\ k = m + 1 => k <= 3 /\ (m = 1 => k = 2)
      OBVIOUS
    <3> HIDE DEF d
    <3> QED BY <2>1, <3>1, <3>2, <3>3, <3>4, Zenon
  <2>5. Chain(to, d)
    <3> HIDE DEF d, n
    <3> QED BY <1>2, <1>3, <2>2, <2>3, <2>4 DEF Chain
  <2> QED BY <2>5
<1> QED BY <1>4, <1>5

Chained == \A b \in Requests : Chain(LifeStatus[b], LifeTrail[b])

LEMMA NextChained == Chained /\ [Lifecycle!Next]_(Lifecycle!vars) => Chained'
<1> SUFFICES ASSUME Chained, [Lifecycle!Next]_(Lifecycle!vars) PROVE Chained'
  OBVIOUS
<1>1. CASE UNCHANGED Lifecycle!vars
  <2>1. LifeStatus' = LifeStatus /\ LifeTrail' = LifeTrail
    BY <1>1 DEF Lifecycle!vars, LifeStatus, LifeTrail, Changes
  <2> QED BY <2>1 DEF Chained
<1>2. CASE Lifecycle!Next
  <2>1. PICK b \in Requests, to \in Statuses :
          /\ IF LifeStatus[b] = Null THEN to = "PENDING"
                                     ELSE to \in AllowedTransitions[LifeStatus[b]]
          /\ LifeStatus' = [LifeStatus EXCEPT ![b] = to]
          /\ LifeTrail' = [LifeTrail EXCEPT ![b] = Append(LifeTrail[b], <<LifeStatus[b], to>>)]
    <3>1. Lifecycle!AllowedTransitions = AllowedTransitions /\ Lifecycle!Statuses = Statuses
      BY DEF Lifecycle!AllowedTransitions, Lifecycle!Statuses, AllowedTransitions, Statuses
    <3>2. ASSUME NEW b \in Requests, NEW to, Lifecycle!Change(b, to)
          PROVE  /\ LifeStatus' = [LifeStatus EXCEPT ![b] = to]
                 /\ LifeTrail' = [LifeTrail EXCEPT ![b] =
                                    Append(LifeTrail[b], <<LifeStatus[b], to>>)]
      BY <3>2 DEF Lifecycle!Change, LifeStatus, LifeTrail, Changes
    <3>3. PICK b \in Requests : Lifecycle!Book(b) \/ \E to \in Statuses : Lifecycle!Move(b, to)
      BY <1>2, <3>1 DEF Lifecycle!Next
    <3>4. CASE Lifecycle!Book(b)
      <4>1. LifeStatus[b] = Null /\ Lifecycle!Change(b, "PENDING")
        BY <3>4 DEF Lifecycle!Book, LifeStatus
      <4>2. "PENDING" \in Statuses BY DEF Statuses
      <4> QED BY <3>2, <4>1, <4>2
    <3>5. ASSUME NEW to \in Statuses, Lifecycle!Move(b, to)
          PROVE  /\ LifeStatus[b] # Null /\ to \in AllowedTransitions[LifeStatus[b]]
                 /\ Lifecycle!Change(b, to)
      BY <3>5, <3>1 DEF Lifecycle!Move, LifeStatus
    <3> QED BY <3>2, <3>3, <3>4, <3>5
  <2>2. Chain(LifeStatus[b], LifeTrail[b]) BY DEF Chained
  <2>3. Chain(to, Append(LifeTrail[b], <<LifeStatus[b], to>>))
    BY <2>1, <2>2, ChainGrows
  <2>4. \A q \in Requests :
          /\ LifeStatus'[q] = IF q = b THEN to ELSE LifeStatus[q]
          /\ LifeTrail'[q] = IF q = b THEN Append(LifeTrail[b], <<LifeStatus[b], to>>)
                                      ELSE LifeTrail[q]
    BY <2>1 DEF LifeStatus, LifeTrail
  <2> QED BY <2>3, <2>4 DEF Chained
<1> QED BY <1>1, <1>2

\* Handled one at a time, the requests leave every booking a trail that opens with
\* its creation, in which each entry starts where the one before it ended and the
\* last one leads to the status, and that has three entries at most.
THEOREM SerialTrails == SerialSpec => []Lifecycle!TrailIsChain
<1>1. Lifecycle!Init => Chained
  <2> SUFFICES ASSUME Lifecycle!Init PROVE Chained
    OBVIOUS
  <2>1. LifeStatus = [b \in Requests |-> Null] /\ LifeTrail = [b \in Requests |-> <<>>]
    BY DEF Lifecycle!Init, LifeStatus, LifeTrail, Changes
  <2>2. Chain(Null, <<>>)
    <3>1. <<>> \in Seq((Statuses \cup {Null}) \X Statuses) /\ Len(<<>>) = 0 OBVIOUS
    <3> QED BY <3>1 DEF Chain, Statuses
  <2> QED BY <2>1, <2>2 DEF Chained
<1>2. Chained => Lifecycle!TrailIsChain
  BY DEF Chained, Chain, LifeStatus, LifeTrail, Changes, Lifecycle!TrailIsChain
<1> QED BY <1>1, <1>2, NextChained, SerialHistories, PTL
       DEF ImplementsLifecycle, Lifecycle!Spec
===============================================================================
