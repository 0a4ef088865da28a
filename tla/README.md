# Verification of the SaaS booking platform

TLA+ specifications of the NestJS backend in this repository, the TLC
configurations that check them on small instances, and proofs of what holds for
every instance. Paths below are relative to the repository.

## 1. The system

NestJS processes (containers, or instances of a serverless function) serve HTTP
requests over one PostgreSQL database through TypeORM. All data are in the tables, and
what acts on them is the requests: each `await` of a handler lets every other request
run. What a process keeps in memory between requests is the application it has
created and the connections of its pool.

| component | state | operations | talks to |
|---|---|---|---|
| booking rules, `src/bookings/services/booking-helper.ts` | none | validate creation, status change, view | called by the bookings service |
| bookings service, `src/bookings/services/bookings.service.ts`, `repositories/booking.repository.ts` | `bookings`, `booking_audit_logs` | create, updateStatus, cancel, findOne, findAll | reads `services`, joins them to bookings |
| catalogue, `src/services/**` | `services` | create, update (PATCH), remove (archives), findOne, findAll | guard and service both read the row |
| sessions, `src/auth/**` | `users`, `user_sessions` | register, login, refresh (rotation), logout | issues the tokens the guards check |
| access control, `src/common/guards/**`, `src/auth/strategies` | none; reads `users` | JwtAuthGuard, JwtStrategy.validate, RolesGuard, ServiceOwnerGuard | runs before every handler |
| schema, `src/database/migrations` | unique indexes, foreign keys | | decides what races cannot |
| server and function, `src/main.ts`, `api/index.ts` | the variable `app`, Express and its routes | start, cold start, initialisation, shutdown | create the application and its pool |
| pool and health check, `src/database/database.module.ts`, `src/health/**` | free connections and who waits for one | borrow, run statements, give back; a query against a timer | every handler borrows |
| seeder, `src/database/seeds/**` | | four times a lookup and an insert | `users`, `services`, `bookings` |

What is hard:

* **check, then act.** Every operation reads, validates and writes in separate
  statements. `create` looks for a duplicate before its transaction; `updateStatus`
  validates a booking it loaded before its transaction; `update` of a listing, `refresh`
  and `register` have no transaction at all.
* **`save` is not a compare-and-set.** TypeORM's `save` of a loaded entity selects the
  row again, updates the columns that differ from the entity in memory, and checks no
  version.
* **the database decides.** A partial unique index on (service, date, time) of bookings
  that are not cancelled, a unique idempotency key, a unique lower-case email. Statements
  that meet undecided entries wait for the other transaction.
* **half done.** A query may fail or the process die between any two statements; an
  answer may be lost although the commit was not.
* **started half way.** Requests of a cold start share a server that is being set up, and
  the seeder is stopped between any two of its statements and run again.
* **one pool for all.** Nothing limits the wait for a connection; a query that a timer has
  given up keeps its connection.
* **soft deletion.** An archived listing keeps its row, but `findOneById` no longer joins
  it, so its bookings are loaded without it.

What makes each component correct, and where it says so:

* bookings: a slot is held once; a key books once; the caller's answer is true; the audit
  trail starts with the creation and is a sequence of permitted changes; a booking that has
  ended stays as it is; every request is answered;
* catalogue: only the owner changes a listing; archiving is final;
* sessions: an email registers once; a rotation revokes before it issues; a spent token
  stays spent; a suspended account gets nothing new;
* the parts together: the catalogue and the guards leave the bookings what they rely on, and a
  withdrawn listing takes no booking;
* paging: a result from which nothing leaves is shown whole, and clients are listed their own;
* a process: nobody runs into a server without routes but in a shared cold start, every
  request is answered when the database is, no connection is lost, a stop loses nothing;
* seeder: a run that reports success leaves the data there, another one adds nothing.

## 2. Modules

| module | models | abstract specification |
|---|---|---|
| `BookingRules` | booking-helper.ts as operators | |
| `Bookings` | BookingsService, its tables and the indexes | `SlotReservation` (always), `BookingLifecycle` (one request at a time) |
| `Catalog` | ServicesService with ServiceOwnerGuard | |
| `Platform` | Catalog and Bookings over one table of listings | `Bookings` |
| `AccessControl` | JwtAuthGuard, JwtStrategy, RolesGuard and the booking DTO before BookingsService | `Bookings` |
| `Sessions` | AuthService, `users`, `user_sessions` | |
| `Browsing` | findAll of both services, page by page | |
| `Bootstrap` | how requests come into a server or a function | |
| `Pool` | the connection pool, handlers that borrow from it, the health check | |
| `Instance` | Bootstrap and Pool as one process, and how it ends | |
| `Seeder` | runs of SeedService while the platform is in use | |
| `BookingsProofs`, `BookingsTrailProofs`, `PlatformProofs` (with the catalogue), `AccessProofs`, `SessionsProofs`, `BrowsingProofs`, `SeederProofs`, `InstanceProofs` | the theorems about them, see section 4 | |
| `MCBookings`, `MCCatalog`, `MCPlatform`, `MCAccessControl`, `MCSessions`, `MCBrowsing`, `MCSeeder` | instances: the values of the bounds and symmetry | |

### Bookings

A request is a process with a program counter `pc`, the entity in memory (`row`), the
`previousStatus` (`old`) and an answer. It does one operation; a client's retry is another
request. The ids of bookings are the requests that create them, so the set of requests
bounds both.

| action | code |
|---|---|
| `Create` | create to line 32: listing read, `validateBookingCreation` |
| `CheckDuplicate` | lines 34-43, `hasDuplicateBooking` |
| `InsertRow`, `FinishInsert` | line 61, the INSERT: its entry in the index of the keys, then that in the index of the slots |
| `RejectKey`, `RejectSlot` | the INSERT meets a committed entry in either; the catch block of lines 77-88 |
| `UpdateStatus` | lines 98-102: load, early return, `validateStatusTransition` |
| `RejectOrphan`, `Reload` | line 108, the SELECT of `save` and what it compares |
| `UpdateRow`, `FinishUpdate`, `RejectUpdate` | line 108, the UPDATE of `save`: the row lock, then the entry in the index of the slots |
| `Commit` | the audit row (63-70, 110-117), COMMIT, the answer |
| `Abort` | a failing query, a dropped connection, a dying process |
| `ListingChanges` | the catalogue, as far as Bookings can see it |

A statement takes what it needs one thing after another, and waits for the next one with the
others in hand: a create at `"entered"` has its entry in the index of the keys, an update at
`"locked"` the lock of its row, and at `"written"` both have all. `HoldsRow` and `Holds` say what a
transaction keeps from others until it ends, `At` where a statement is, `Blockers` for whom it waits
there. When it waits for nobody it goes on (`Passes`) or meets a committed entry and is rejected
(`Rejected`). `Indexes` is the order in which the indexes were created, which is the one PostgreSQL
enters them in: the column constraint of `idempotency_key`, then the partial index of the slots. The
audit row is inserted by the same transaction and nobody reads it before the commit, so its insert
is part of `Commit`. `cancel` is `UpdateStatus` with CANCELLED. An **orphan** is a booking whose
archived listing was not joined: its relation is `null`, `save` writes that to `service_id`,
and the NOT NULL constraint rejects the statement.

The deployed route always passes no client (it is public), the service and its unit tests
pass one; `Callers` says which are considered.

### Catalog, Platform, AccessControl, Sessions

`Catalog` splits `save` into `Diff` (reads the row, finds the columns to send) and
`WriteListing` (sends them). The columns a vendor edits are one, `price`, because nothing
distinguishes them here. `Patched` gives a PATCH without `isActive` the inherited default.

`Platform` instantiates `Bookings` with the listings mapped to what it looks at, and shows
that the catalogue does nothing `Bookings!ListingChanges` did not allow for.

`AccessControl` hands `Bookings` the requests that pass the guards: `JwtAuthGuard` lets a public
route pass without looking at the token, `Validate` is `JwtStrategy.validate`, which reads the
user of the token again, and then `RolesGuard`. `UuidV4` is the set of listings whose id is a
version 4 UUID: the code generates version 7 ids, which `Book` refuses, and the run is about
listings that can be booked.

In `Sessions` the clock counts seconds, since a token's `iat` does: tokens of one user from
one second are equal, and so are their hashes. `findOneActive` may return any match.

### Browsing

A page is the three statements of TypeORM's `getManyAndCount`: the distinct ids of the page
(`SelectIds`), their rows under the same WHERE (`SelectEntities`), and the total (`ShowPage`),
which TypeORM may take from a page that is not full (`Totals` allows both). A row is its place in
the order of a column that never changes, so a new one may appear anywhere: `created_at` is the
time its transaction began. Everything that may change is one column, `value`. The reader
turns pages while `page * limit < total`; writers do what `Bookings` and `Catalog` let them do,
as far as a page can tell.

### Bootstrap, Pool, Instance

`mode` says whether the process is a server (`main.ts`) or a function (`api/index.ts`). `boot` is
how far `Main` and every request have come; in a function a request that finds `app` unset is a
bootstrapper itself.

| action | code |
|---|---|
| `StartServer`, `Created`, `Initialised`, `Listening` | main.ts: `NestFactory.create`, the shutdown hooks, `listen` |
| `Enter` | `handler` and `if (!app)` of api/index.ts, or a connection to the server |
| `Created`, `Initialised`, `InitFails` | api/index.ts: `app` is set at line 15, `init` is awaited at line 45 |
| `Dispatch` | `server(req, res)`: Express has routes or it has none |
| `CreatedConnected`, `CreateFails`, `BootFails` | the DataSource is opened while the application is created, with ten attempts |
| `Terminate`, `Destroy`, `Exit` | the signal, TypeORM's `onApplicationShutdown`, the end of the process |
| `Crash`, `Die`, `Gone` | a process that is killed, or a function that is reclaimed |

In `Pool` a handler is its `Program`, the statements it runs on each connection it borrows: the
health check has one, `create` two lookups and a transaction of at least two. `Acquire`,
`FinishStatement`, `FailStatement` and `GiveBack` are what the pool does for a repository;
`Timeout` is the timer of `getHealthCheck`, which answers and leaves the query where it is. What
the statements do is in `Bookings`; the other handlers borrow as `create` does, one connection at
a time. `Instance` joins both: a request that is `"inside"` is handed to a handler. Overlapping
cold starts open a DataSource each; Express tries the routes of the first one registered first, so
one pool is in use and the others stay idle.

### Seeder

A run is at one of four stages, and at each of them finds a row or saves one. The rows it inserts
are named after it. An account is its address: `RegisterDto` trims what is typed and turns it into
lower case (`register.dto.ts:20-22`), the seeder spells its addresses so, hence the lookup sees
what the unique index sees. `settled` and `raced` are history: whether all was there when the run
began and nobody else has stored anything since, and whether somebody else has inserted the row
that the run has looked for in vain and is about to insert.

### What is assumed of the outside (external)

PostgreSQL at READ COMMITTED: a statement sees what is committed when it runs, a changed row
is locked to the end of its transaction, an INSERT or UPDATE waits for the transaction
behind a conflicting index entry and goes on when that has ended. TypeORM: `save` as
described above. The version column, timestamps, customer data, prices and notes of a booking
are left out; two trails' entries are ordered by commit. Accounts are suspended and restored
by an actor outside the code, and users are never deleted, since no code does it.

pg's pool hands connections to those who wait first come first served, without a limit on the
wait, since `database.module.ts` sets none. `NestFactory.create` ends the process when it fails.
On a signal Nest closes the HTTP server, which answers what it has taken, and then TypeORM
destroys the DataSource, which drops the waiting queries and waits for the running ones.

## 3. Runs

`pass` runs; the bounds are those of the cfg:

| run | instance | shows |
|---|---|---|
| BookingsRace | 4 requests, 1 slot, 1 key, 2 clients, of whom one books, 2 vendors | `TypeOK`, `SlotExclusive`, `KeyUsedOnce`, `AnswerTellsOutcome`, `CreationIsLogged`, `TrailIsLegal`, `StatusIsAudited`, `CompletedWasConfirmed`, `NoCircularWait` |
| BookingsSteps | 3 requests after a first that has booked (`BookedInit`), 1 slot, 1 key, a vendor, fair | `ConflictIsJustified`, `TerminalSettles`, `RequestsAnswered`, `ImplementsReservation` |
| Platform | 3 edits, 2 bookings requests, 2 vendors, an admin | `ImplementsBookings`, `WithdrawnTakesNoBooking`, and of the catalogue `OnlyOwnerChanges`, `ArchiveSettles` |
| Access | 2 requests, client, vendor, admin | `AccessTypeOK`, `ImplementsBookings`, `SuspendedChangesNothing` |
| Browsing | 3 rows, pages of 2, 2 clients, a vendor | `BrowsingTypeOK`, `NothingMissed`, `ClientsListTheirOwn` |
| SessionsRace | 4 calls, 3 seconds | `SessionTypeOK`, `RegisteredOnce`, `RotationRevokesFirst`, `SuspendedGetsNoSession`, `SpentStaysSpent` |
| Instance | 3 requests, 1 connection, server and function, fair | `NoRouteExplained`, `NoConnectionLeaks`, `HealthAnswered`, `RequestsServed`, `PoolRecovers`, `StopLosesNothing`, `StopCompletes` |
| Seeding | 3 runs, a guest | `SeedTypeOK`, `DoneMeansSeeded`, `ReseedAddsNothing`, `FailsOnlyOnRace` |

Why these bounds: a race needs two requests on one thing, and a third that created the thing; the
one long story, *cancel a booking, book its slot again, then save a stale update of the first*,
needs four, and BookingsRace has them. BookingsSteps begins after the first of the four, the
create of the booking, as liveness costs more to check; a circle of waits takes that booking,
cancelled, a stale update that brings it back and a create that retries its key, which both runs
have. One connection is the pool at its limit, with a request in the queue and one behind it; a
cold start needs one request that creates the application, one that joins it and one that comes
later. Two runs of the seeder overlap, and a third comes after them. Rotation needs a login and
two refreshes, and a fourth call to interfere. One slot suffices where two add no conflict; two
vendors or two clients where authority is the question: a client may ask for the other's bookings.
Three rows in pages of two are a page that is full and one that is not, and a row that others push
from one to the other. Requests are interchangeable, so symmetry is used except where liveness is
checked.

What the code guarantees when it is left alone, one request at a time (`SerialSpec`), is that
trails are exact histories (`ImplementsLifecycle`); that is proved and has no run. With
concurrency it fails, and `TrailIsLegal`, `StatusIsAudited`, `CompletedWasConfirmed` and
`TerminalSettles` are what remains of it.

`violation` runs check one sentence of the repository each and find that the code does not keep it:

| run | sentence | what happens |
|---|---|---|
| AccessAnonymous | "POST /bookings (Bearer Token)", "Guard checks Client role & JWT validity" | the route is public and the guard returns before it looks at the token, so whoever books, the booking is nobody's |
| BookingsLateComplete | "Cancelled bookings cannot be marked as completed." | a completion validated before a cancellation is saved after it |
| CatalogRevived | "Cannot update soft-deleted service catalog listings" | a stale save resets `deleted_at` |
| SessionsTwoPairs | "Validate session & revoke old token (RTR)" | two concurrent refreshes both succeed |

PROJECT.json quotes each with its line. Other differences between the text and the code that
the models show and that have no run of their own:

* `bookings.controller.ts:51` documents a 409 for "Duplicate booking conflicts"; the loser of two
  concurrent creates gets a 500 (`RejectSlot`), since only a message with "idempotency" is caught.
* `booking-helper.ts:25` "Cannot book a service that is currently inactive.": a listing
  deactivated or archived after `Create` has read it is booked all the same;
  `WithdrawnTakesNoBooking` says how long that may go on.
* `README.md:313` "PostgreSQL ranges checking prevents concurrent double bookings": the index of the
  migration compares start times (`SlotClash`) and takes no duration into account.
* `services.controller.ts:116` "Partially update an existing service listing": a PATCH without
  `isActive` activates the listing, by an inherited initializer (`Patched`).
* `bookings.controller.ts:118` "Update status of reservation (Owners/Admins only)", and `:150` for
  a cancellation: once the listing is archived, its owner gets a 403 and an admin a 500
  (`JoinedVendor`, `RejectOrphan`).
* `create-booking.dto.ts:14` "Target service identifier being reserved": `@IsUUID('4')` refuses the
  version 7 ids that `base.entity.ts:30` gives listings (`IsUuid4`, `Book`).
* `services.controller.ts:42` "Browse and query all active service catalog offerings": inactive ones
  are listed too unless the query asks for `isActive` (`Matches`).
* `query-booking.dto.ts:92` gives `scheduledAt` as an example of a sort field: it is not one of
  those allowed, and the result is sorted by `createdAt` (`ResolvedSortField`).
* `auth.controller.ts:36` documents a 409 "Email address collision"; the loser of two concurrent
  registrations gets a 500 (`SaveUser`).
* `auth.service.ts:223` "Calculate exact expiration Date matching jwtRefreshExpiresIn": it is always
  seven days (`SessionLife`).
* `auth.controller.ts:91` "Revoke and terminate the active refresh token session": two logins
  within a second share a token, and a logout revokes one of its two sessions (`FindSession`).
* `auth.controller.ts:93` "Session terminated successfully": logout swallows the failure of its
  queries (`FailCall`).

**Fairness.** Two runs assume some. `BookingsSteps` assumes weak fairness of `Progress(r)` for
each request: the event loop resumes every handler whose query has returned, and PostgreSQL
finishes every statement that waits for nobody. That is not enough if transactions wait for one
another in a circle, which they could, since each waits with a lock or an entry in hand. They do
not (`NoCircularWait`, `NoDeadlock`), because a create enters the index of the keys before that of
the slots: the faulty variant that enters them the other way round meets a stale update of the
booking whose key it retries, each waiting for what the other has, and breaks `NoCircularWait` and
`RequestsAnswered`. PostgreSQL would break such a circle by failing one of the two. `Instance`
assumes the same of handlers and of bootstraps, that timers fire, that a DataSource is connected
or given up after its ten attempts, and that PostgreSQL answers while it is up. What waits for the
database to return says so (`DatabaseReturns`); `HealthAnswered` does not, as the timer is all it
needs. Nothing is assumed of arrivals, of the catalogue, of failures, signals, crashes and
outages.

**Deadlock** is checked in the runs of `Bookings`, `AccessControl` and `Instance`, where the
surroundings can always act; the others use each request once and stop.

**Mutants.** Each module has faulty variants of its definitions (a missing index, a revocation
that is not saved, a status that is not looked at), marked as such; PROJECT.json names for each
property one that breaks it.

## 4. Proofs

Every property that the passing runs check and that is not liveness is a theorem, for any sets of
requests, listings, users, keys, rows, runs and connections. Each module of theorems extends the
module it is about:

| module | theorems, and what they state |
|---|---|
| `BookingsProofs` | `TypeCorrect`: `TypeOK`; `NoDoubleBooking`: `SlotExclusive`; `KeysAreIdempotent`: `KeyUsedOnce`; `AnswersAreTrue`: `AnswerTellsOutcome`; `NoDeadlock`: `NoCircularWait`; `Refinement`: `ImplementsReservation` |
| `BookingsTrailProofs` | `TrailsOpen`: `CreationIsLogged`; `TrailsAreLegal`: `TrailIsLegal`; `StatusesAreAudited`: `StatusIsAudited`; `ConfirmationIsNeverSkipped`: `CompletedWasConfirmed`; `ConflictsAreJustified`: `ConflictIsJustified`; `EndsAreFinal`: `TerminalSettles`; of requests one at a time `SerialHistories`: `ImplementsLifecycle`; `SerialTrails`: `TrailIsChain` of `BookingLifecycle` |
| `PlatformProofs` | of the catalogue `CatalogTypeCorrect`: `CatalogTypeOK`; `OwnersOnly`: `OnlyOwnerChanges`; `ArchivesSettle`: `ArchiveSettles`; of the platform `PlatformImplementsBookings`: `ImplementsBookings`; `WithdrawnUnbooked`: `WithdrawnTakesNoBooking`; `PlatformKeepsBookings`: what is proved of `Bookings` |
| `AccessProofs` | `AccessTypeCorrect`: `AccessTypeOK`; `AccessImplementsBookings`: `ImplementsBookings`; `SuspensionHolds`: `SuspendedChangesNothing`; `GuardsKeepBookings`: what is proved of `Bookings` |
| `SessionsProofs` | `SessionTypeCorrect`: `SessionTypeOK`; `RegisteredOnceHolds`: `RegisteredOnce`; `RotationsRevokeFirst`: `RotationRevokesFirst`; `SuspendedIsShutOut`: `SuspendedGetsNoSession`; `SpentForEver`: `SpentStaysSpent` |
| `BrowsingProofs` | `BrowsingTypeCorrect`: `BrowsingTypeOK`; `ClientsSeeTheirOwn`: `ClientsListTheirOwn`; `PagesMissNothing`: `NothingMissed`; `PagesPartition`: each row of a result is on exactly one page |
| `SeederProofs` | `SeedTypeCorrect`: `SeedTypeOK`; `SuccessMeansSeeded`: `DoneMeansSeeded`; `ReseedingAddsNothing`: `ReseedAddsNothing`; `FailuresAreRaces`: `FailsOnlyOnRace` |
| `InstanceProofs` | `InstanceTypeCorrect`: `InstanceTypeOK`; `ConnectionsConserved`: `NoConnectionLeaks`; `NoRouteOnlyInSharedColdStart`: `NoRouteExplained`; `StopKeepsAnswers`: `StopLosesNothing` |

Assumed are the named assumptions on constants (the `ASSUME`s of the modules): roles are disjoint,
callers are clients or nobody, `Null` is none of the values it stands in for, runs and guests of
the seeder are not the same, lifetimes are positive, the pool has a connection, and the requests
of a process, like the rows of a list, are finitely many. `AccessImplementsBookings` and
`GuardsKeepBookings` assume that `Bookings` considers creates of nobody, `Null \in Callers`, since
the guard of a public route never looks at the token.

### Bookings

`SlotExclusive` is not inductive, because a commit publishes a row that was
checked earlier. `Inv == TypeOK /\ WorkOK /\ SlotOK /\ KeyOK` is.

* `WorkOK`: what a request holds at each step. A create in flight drafts a PENDING row
  that is not in the table; an update holds an existing booking and agrees with its place and
  key, though perhaps not with its status.
* `SlotOK`: two transactions never hold the same row (`Locking`), two that occupy a place never
  the same place, and none meets a committed one there. A stale update that leaves CANCELLED
  is covered, since it passes the same index.
* `KeyOK`: the same for keys, from the moment a create has entered their index (`Keyed`).

`EnterStep`, `InsertSlot` and `UpdateSlot` show that a statement that goes on, having met no lock
and no entry, keeps the three, `CommitSlot` that a commit does, `ReleaseStep` and `QuietStep` that
nothing else matters.

`NoDeadlock` follows from the same invariant. Who is waited for has something, so it has passed
the index of the keys (`BlockerKeyed`), and if it waits itself, it waits at the index of the slots
(`KeyedWaitsForSlot`). Who has an entry there waits for nobody (`SlotHolderRuns`): a create has
all it needs, and an update of an active booking enters a place that is its own already. So no
chain of waits is longer than two. `CommitReservation` reads a commit as Take, Release or a
stutter of the calendar. `AnswerOK` adds that nobody is answered before the end.

The trails need an invariant of their own beside `Inv`: `TrailInv == TrailOK /\ IntentOK`. A
change is validated long before it is logged, so `IntentOK` says of a request in flight what
`validateStatusTransition` found: its change is permitted, and the status it starts from is in the
trail. Neither can be undone, whatever overtakes it: trails only grow, a booking keeps its client
and a listing its vendor (`Grows`, `IntentKept`). `ExtendTrail` shows that appending such a change
keeps a trail good: a completion starts from CONFIRMED, which is in the trail by then.
`NextJustified` and `NextSettles` go through the steps once more for the two action properties.

One request at a time, the trails are more than legal. `Alone` says that at most one request is
under way and that an update under way still finds the status it loaded: nobody else commits
before it ends. So `updateStatus` never finds its entity changed by another, each commit moves the
status from where the trail left it (`CommitLifecycle`), and the bookings implement
`BookingLifecycle`. `Chain` adds how long a trail is at each status, which bounds it by three
entries.

### The catalogue and the platform

The guard authorises, and three statements later `save` writes. `CatalogInv` carries the authority
over: a request under way edits a listing of its own vendor (`EditsSound`), the owner is never
among the columns `save` found to differ, and the entity of a removal is archived. `CreatedOnce`
gives a listing to the request that made it. `OutOfReach` and `ArchiveStep` show that an archived
listing is changed by nobody but requests that found it before its removal, and that those that
come later do not find it.

`PlatformImplementsBookings` rests on `OneListingChanges`: a step of the catalogue changes one
listing and never its vendor, which is all `Bookings!ListingChanges` asks.
`WithdrawnTakesNoBooking` needs `PlatformInv == CatalogInv /\ WorkInv`: a booking somebody works
at is a booking of the listing that its row names. So a commit books a listing only if it is that
of a create in flight, of which there are none by hypothesis, and an update leaves a booking with
its listing (`WithdrawnCommit`). New creates read the archived listing and refuse, and edits that
come later do not find it (`WithdrawnMove`, `ArchiveStep`).

The theorems of the two modules about `Bookings` assume nothing but its steps. So `PlatformProofs`
instantiates them (`Facts`) with the platform's tables, and a behaviour of the platform, being one
of `Bookings`, has their conclusions: no slot is booked twice and every trail is legal while
vendors edit and archive. `PlatformAssumption` and `AccessAssumption` are what `Bookings` assumes
of its constants; `Premises` says so.

### Access control

`AccessInv` says what a request has that waits for its user to be read, `ServeInv` that a request
under way in the service has left the guards and works for the user they found. A change of a
booking is a commit of such a request, so that one by a suspended user began while the account was
active, and `SuspendedChangesNothing` begins after those have ended. `GuardsKeepBookings`
instantiates the theorems of `Bookings` as the platform does.

### Sessions

`CallsSound` is what a call may count on at each point: the session it holds is stored, a refresh
about to issue has revoked it, who has registered has an account. Every clause speaks of a table
others change meanwhile, and survives because accounts and sessions move one way only: `Onward`,
and `SoundOnward` uses it once for all steps. Where an account may go back, from suspended to
active, there is no such clause, and `SuspendedGetsNoSession` waits for the calls that have read
it before.

### Browsing

`NothingMissed` compares a table that changes with pages counted from its beginning. `TurningOK`
is what makes it inductive: a matching row that the reader has neither seen nor got on the page in
hand has a `Position` beyond the pages turned so far. Inserts keep that, since they only raise
positions (`PositionRises`), and such a row proves the page in hand to be full and another to
follow, so that the reader does not stop (`LastPageComplete`, whatever `getManyAndCount` takes the
total from). The counting rests on `Precedes` being a strict total order (`OrderLinear`):
positions differ, and none before a row's is vacant (`PositionsFilled`), so the rows of a page and
its places are in bijection (`PageSize`).

`PresentOK` says that the rows of the beginning still match unless one has left, and that a
booking leaves a result only by its status. `OwnOK` follows the client's id through the three
statements.

### Seeder

`Behind` is what a run has behind it by its stage, and nobody takes it away: no row disappears
(`Grows`). `Unraced` is for a run that nobody has overtaken: what it did not find is still not
there, so that its insert cannot fail. `Reseeds` is for a run that began with all the data: while
they are settled it finds all of it. Any act of another is a `LoudStep`, after which the runs
under way are `Met`: their data are settled no longer, and one that is about to insert such a row
has been raced. `Only` says that an act adds no account and no booking but of its stage, so that
the runs it does not race keep what they know.

### A process and its pool

`Conserved` counts the free connections and those held as `PoolSize`; it is inductive with
`QueueRight` (who waits is in the queue, once; nobody waits while a connection is free), as giving
a connection back either frees it or hands it to the first in the queue. The counting uses the
finiteness of the requests. `BootRight` says how far a server or a function must be for a request
to be where it is; only a function has set `app` with the routes still to come.

### Only model-checked

Liveness under fairness is out of the prover's reach: `RequestsAnswered`, `HealthAnswered`,
`RequestsServed`, `PoolRecovers` and `StopCompletes` are checked by TLC on the instances of
section 3. The sentences of the `violation` runs are false, so there is nothing to prove of them.

## 5. Not modelled

* Ties of a sort column other than by the primary key, and full-text search beyond a filter that
  does or does not change.
* `BookingOwnerGuard`: no route uses it.
* The migration as a program: `up` and `down` run once, by hand; what it creates is in `Bookings`,
  `Catalog` and `Sessions`.
* Validation of formats, wording of answers, logging, configuration, password hashing.
* Bookings that the seeder writes: they have no audit entry, and `CreationIsLogged` is about a table
  without them.
* That a booking lasts: `bookings` compares start times only, see section 3.

## 6. Plan

Done, in this order: BookingRules, Bookings, its abstract specifications and proofs, Catalog,
Platform, Sessions, AccessControl, Browsing, Bootstrap, Pool, Instance, Seeder, the proofs about the
audit trails, those about every other module, `BookingLifecycle` for requests one at a time, and the
theorems of the bookings carried over to the platform and behind the guards.

To extend the model: Sessions composed with AccessControl, access tokens with an expiry beside their
sessions.

To prove more: what the catalogue and the guards do to each other's theorems, once the two are
composed, and bounds on how long a request waits in the queue of the pool, counted in the
statements of those before it.
