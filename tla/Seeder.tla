--------------------------------- MODULE Seeder ---------------------------------
(***************************************************************************)
(* npm run seed: SeedService.run over users, services and bookings.  Every *)
(* run is a process of its own that goes through four stages, in each of   *)
(* which it looks for a row and inserts it if it found none: two           *)
(* statements, no transaction.  Runs overlap, are stopped half way and are *)
(* repeated, while the platform is in use: somebody registers one of the   *)
(* addresses, a vendor renames or archives the listing, guests book the    *)
(* slot and cancel.                                                        *)
(***************************************************************************)
EXTENDS Naturals, FiniteSets

CONSTANTS Runs,      \* runs of the seeder, and the ids of the rows they insert
          Guests,    \* bookings made through the API, by their ids
          Null

VARIABLES accounts,   \* the seeded addresses that are in users, all in lower case
          catalog,    \* catalog[s]: the listing s, or Null
          slots,      \* slots[b]: the booking b of the seeded date and time, or Null
          seed        \* the runs

seedVars == <<accounts, catalog, slots, seed>>

Bookers == Runs \cup Guests

Stages == {"vendor", "client", "service", "booking"}
AccountStages == {"vendor", "client"}

ASSUME SeedNullAssumption == Null \notin Runs \cup Guests \cup Stages
ASSUME SeedIdsAssumption == Runs \cap Guests = {}

NextStage ==
    [vendor |-> "client", client |-> "service", service |-> "booking", booking |-> "end"]

SeedListing == [titled : BOOLEAN, archived : BOOLEAN]
SeedBooking == [service : Runs, cancelled : BOOLEAN]

ASSUME SeedRowAssumption == Null \notin SeedListing \cup SeedBooking

\* service is the listing in memory.  The last two are history: settled while all
\* the data were there when the run began and nobody else has stored anything since,
\* raced when somebody else has inserted the row that the run looked for in vain
\* and is about to insert.
SeedRun == [pc : {"new", "find", "save", "done", "failed", "stopped"},
            stage : Stages \cup {"end"}, service : Runs \cup {Null},
            added : SUBSET Stages, settled : BOOLEAN, raced : BOOLEAN]

NoRun == [pc |-> "new", stage |-> "vendor", service |-> Null, added |-> {},
          settled |-> FALSE, raced |-> FALSE]

Running(r) == seed[r].pc \in {"find", "save"}

-----------------------------------------------------------------------------
\* findOne by title: archived rows are not found.
Findable(s) == catalog[s] # Null /\ catalog[s].titled /\ ~catalog[s].archived

\* findOne of a booking by service, date and time, whatever its status.
BookedAt(s) == \E b \in Bookers : slots[b] # Null /\ slots[b].service = s

\* An entry of idx_bookings_service_date_time.
SlotTaken(s) == \E b \in Bookers : /\ slots[b] # Null /\ slots[b].service = s
                                   /\ ~slots[b].cancelled

Complete == /\ accounts = AccountStages
            /\ \E s \in Runs : Findable(s)
            /\ \A s \in Runs : Findable(s) => BookedAt(s)

\* Somebody stores something, a row of the stage if stage is one: for all runs but r
\* the data are not settled, and those between look-up and insert have raced.
Disturbed(runs, r, stage) ==
    [q \in Runs |->
        IF q = r \/ runs[q].pc \notin {"find", "save"} THEN runs[q]
        ELSE [runs[q] EXCEPT !.settled = FALSE,
                             !.raced = @ \/ /\ runs[q].pc = "save"
                                            /\ runs[q].stage = stage]]

SeedInit ==
    /\ accounts = {}
    /\ catalog = [s \in Runs |-> Null]
    /\ slots = [b \in Bookers |-> Null]
    /\ seed = [r \in Runs |-> NoRun]

Begin(r) ==
    /\ seed[r] = NoRun
    /\ seed' = [seed EXCEPT ![r] = [NoRun EXCEPT !.pc = "find", !.settled = Complete]]
    /\ UNCHANGED <<accounts, catalog, slots>>

\* r goes on to its next stage, or ends.
Advance(run) ==
    [run EXCEPT !.stage = NextStage[run.stage], !.raced = FALSE,
                !.pc = IF run.stage = "booking" THEN "done" ELSE "find"]

\* ... having inserted the row of its stage.
Inserted(run) == Advance([run EXCEPT !.added = @ \cup {run.stage}])

\* findOne of a user by the address, which the seeder and registrations spell in
\* lower case.
FindUser(r) ==
    /\ seed[r].pc = "find" /\ seed[r].stage \in AccountStages
    /\ seed' = [seed EXCEPT ![r] =
                  IF @.stage \in accounts THEN Advance(@) ELSE [@ EXCEPT !.pc = "save"]]
    /\ UNCHANGED <<accounts, catalog, slots>>

\* save of a user; idx_users_email_lower takes an address once.
SaveUser(r) ==
    /\ seed[r].pc = "save" /\ seed[r].stage \in AccountStages
    /\ IF seed[r].stage \notin accounts
       THEN /\ accounts' = accounts \cup {seed[r].stage}
            /\ seed' = Disturbed([seed EXCEPT ![r] = Inserted(@)], r, seed[r].stage)
       ELSE /\ seed' = [seed EXCEPT ![r].pc = "failed"]
            /\ UNCHANGED accounts
    /\ UNCHANGED <<catalog, slots>>

\* Faulty variant: the listing is not looked for.
FindServiceNever(r) ==
    /\ seed[r].pc = "find" /\ seed[r].stage = "service"
    /\ seed' = [seed EXCEPT ![r].pc = "save"]
    /\ UNCHANGED <<accounts, catalog, slots>>

\* findOne of the listing: any of those that match.
FindService(r) ==
    /\ seed[r].pc = "find" /\ seed[r].stage = "service"
    /\ \/ \E s \in Runs :
            /\ Findable(s)
            /\ seed' = [seed EXCEPT ![r] = [Advance(@) EXCEPT !.service = s]]
       \/ /\ \A s \in Runs : ~Findable(s)
          /\ seed' = [seed EXCEPT ![r].pc = "save"]
    /\ UNCHANGED <<accounts, catalog, slots>>

\* Faulty variant: the saved listing is not assigned.
SaveServiceForgotten(r) ==
    /\ seed[r].pc = "save" /\ seed[r].stage = "service"
    /\ catalog' = [catalog EXCEPT ![r] = [titled |-> TRUE, archived |-> FALSE]]
    /\ seed' = Disturbed([seed EXCEPT ![r] = Inserted(@)], r, "service")
    /\ UNCHANGED <<accounts, slots>>

\* save of the listing: nothing makes a title unique.
SaveService(r) ==
    /\ seed[r].pc = "save" /\ seed[r].stage = "service"
    /\ catalog' = [catalog EXCEPT ![r] = [titled |-> TRUE, archived |-> FALSE]]
    /\ seed' = Disturbed([seed EXCEPT ![r] = [Inserted(@) EXCEPT !.service = r]], r, "service")
    /\ UNCHANGED <<accounts, slots>>

\* Faulty variants: a booking is looked for by its inserter too, and not at all
\* for a listing that was there already.
FindBookingOther(r) ==
    /\ seed[r].pc = "find" /\ seed[r].stage = "booking"
    /\ seed' = [seed EXCEPT ![r] =
           IF \E b \in Runs : slots[b] # Null /\ slots[b].service = @.service
           THEN Advance(@) ELSE [@ EXCEPT !.pc = "save"]]
    /\ UNCHANGED <<accounts, catalog, slots>>
FindBookingOwn(r) ==
    /\ seed[r].pc = "find" /\ seed[r].stage = "booking"
    /\ seed' = [seed EXCEPT ![r] = IF "service" \notin @.added THEN Advance(@)
                                   ELSE [@ EXCEPT !.pc = "save"]]
    /\ UNCHANGED <<accounts, catalog, slots>>

FindBooking(r) ==
    /\ seed[r].pc = "find" /\ seed[r].stage = "booking"
    /\ seed' = [seed EXCEPT ![r] = IF BookedAt(@.service) THEN Advance(@)
                                   ELSE [@ EXCEPT !.pc = "save"]]
    /\ UNCHANGED <<accounts, catalog, slots>>

\* save of the booking, for the listing in memory, archived by now or not.
SaveBooking(r) ==
    /\ seed[r].pc = "save" /\ seed[r].stage = "booking"
    /\ IF SlotTaken(seed[r].service)
       THEN /\ seed' = [seed EXCEPT ![r].pc = "failed"]
            /\ UNCHANGED slots
       ELSE /\ slots' = [slots EXCEPT ![r] = [service |-> seed[r].service, cancelled |-> FALSE]]
            /\ seed' = Disturbed([seed EXCEPT ![r] = Inserted(@)], r, "booking")
    /\ UNCHANGED <<accounts, catalog>>

\* The process dies, or a query fails: what is saved stays.
Stop(r) ==
    /\ Running(r)
    /\ seed' = [seed EXCEPT ![r].pc = "stopped"]
    /\ UNCHANGED <<accounts, catalog, slots>>

SeederStep(r) ==
    \/ Begin(r) \/ FindUser(r) \/ SaveUser(r) \/ FindService(r) \/ SaveService(r)
    \/ FindBooking(r) \/ SaveBooking(r) \/ Stop(r)

-----------------------------------------------------------------------------
(* The platform in use. *)

Disturb(stage) == seed' = Disturbed(seed, Null, stage)

\* POST /auth/register with one of the addresses; RegisterDto trims it and turns it
\* into lower case, so however it is typed it is the address the seeder looks for.
RegisterAddress(a) ==
    /\ a \notin accounts
    /\ accounts' = accounts \cup {a}
    /\ Disturb(a) /\ UNCHANGED <<catalog, slots>>

\* PATCH and DELETE /services/:id by the vendor.
RenameListing(s) ==
    /\ Findable(s)
    /\ catalog' = [catalog EXCEPT ![s].titled = FALSE]
    /\ Disturb(Null) /\ UNCHANGED <<accounts, slots>>
ArchiveListing(s) ==
    /\ catalog[s] # Null /\ ~catalog[s].archived
    /\ catalog' = [catalog EXCEPT ![s].archived = TRUE]
    /\ Disturb(Null) /\ UNCHANGED <<accounts, slots>>

\* POST /bookings for the slot, as Bookings allows it.
BookSlot(g, s) ==
    /\ slots[g] = Null
    /\ catalog[s] # Null /\ ~catalog[s].archived /\ ~SlotTaken(s)
    /\ slots' = [slots EXCEPT ![g] = [service |-> s, cancelled |-> FALSE]]
    /\ Disturb("booking") /\ UNCHANGED <<accounts, catalog>>

CancelSlot(b) ==
    /\ slots[b] # Null /\ ~slots[b].cancelled
    /\ slots' = [slots EXCEPT ![b].cancelled = TRUE]
    /\ Disturb(Null) /\ UNCHANGED <<accounts, catalog>>

PlatformInUse ==
    \/ \E a \in AccountStages : RegisterAddress(a)
    \/ \E s \in Runs : RenameListing(s) \/ ArchiveListing(s)
    \/ \E g \in Guests, s \in Runs : BookSlot(g, s)
    \/ \E b \in Bookers : CancelSlot(b)

SeedNext == PlatformInUse \/ \E r \in Runs : SeederStep(r)

SeedSpec == SeedInit /\ [][SeedNext]_seedVars

-----------------------------------------------------------------------------
(* Properties *)

\* Everything has its type; a run holds a listing from the stage service on.
SeedTypeOK ==
    /\ accounts \subseteq AccountStages
    /\ catalog \in [Runs -> SeedListing \cup {Null}]
    /\ slots \in [Bookers -> SeedBooking \cup {Null}]
    /\ seed \in [Runs -> SeedRun]
    /\ \A r \in Runs : seed[r].stage \in {"booking", "end"} => seed[r].service # Null

\* A run that reports success leaves the data behind, whatever it found of
\* earlier runs that were stopped half way: both accounts, and a listing that has
\* a booking of the slot.
DoneMeansSeeded ==
    \A r \in Runs : seed[r].pc = "done" =>
        /\ accounts = AccountStages
        /\ seed[r].service # Null /\ catalog[seed[r].service] # Null
        /\ BookedAt(seed[r].service)

\* Seeding again adds nothing: a run that began with all the data there inserts
\* no row unless somebody else has stored something since, other runs included.
ReseedAddsNothing ==
    \A r \in Runs : seed[r].settled => seed[r].added = {}

\* What is looked for and what the unique indexes forbid agree: whatever runs and
\* guests did before and cancelled since, the insert of an account or a booking
\* fails only if somebody has inserted that row between the look-up and the insert.
\* So a run that is repeated when nobody interferes does not fail.
FailsOnlyOnRace == \A r \in Runs : seed[r].pc = "failed" => seed[r].raced
===============================================================================
