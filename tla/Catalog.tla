-------------------------------- MODULE Catalog --------------------------------
(***************************************************************************)
(* ServicesService of src/src/services over the table services, with the   *)
(* guards its routes run first.  Every request is a process; each await    *)
(* ends a step, and no step sees what another does between its awaits.     *)
(* The columns a vendor edits (title, description, price, duration and     *)
(* category) are told apart by nothing here and are one, price.            *)
(*                                                                         *)
(* repository.save of a loaded entity is a transaction of two statements:  *)
(* it reads the row again, deleted or not, and updates the columns in      *)
(* which the entity in memory differs from what it read (external:         *)
(* TypeORM).  That UPDATE is the only write of the transaction, so the wait*)
(* for the row lock and the commit are part of the step that runs it.      *)
(***************************************************************************)
EXTENDS FiniteSets

CONSTANTS Edits,      \* the requests, and the ids of the listings they create
          Vendors,    \* users with the role VENDOR
          Prices,
          Null

VARIABLES listings,   \* the table services: listings[s] is a Listing or Null
          edit        \* the requests to the catalogue

catalogVars == <<listings, edit>>

Columns == {"vendor", "price", "active", "archived"}

Listing == [vendor : Vendors, price : Prices, active : BOOLEAN, archived : BOOLEAN]

ASSUME EditNullAssumption ==
    Null \notin Edits \cup Vendors \cup Prices \cup BOOLEAN \cup Listing

\* UpdateServiceDto: what a PATCH mentions, Null for what it leaves out.
Patch == [price : Prices \cup {Null}, active : BOOLEAN \cup {Null}]

EditRequest ==
    [op : {"none", "create", "update", "remove"},
     pc : {"new", "load", "save", "write", "done"},
     by : Vendors \cup {Null}, id : Edits \cup {Null}, patch : Patch \cup {Null},
     entity : Listing \cup {Null}, dirty : SUBSET Columns,
     answer : {Null, "ok", "notFound", "forbidden", "lost"}]

NoEdit == [op |-> "none", pc |-> "new", by |-> Null, id |-> Null, patch |-> Null,
           entity |-> Null, dirty |-> {}, answer |-> Null]

EditDone(op, answer) == [NoEdit EXCEPT !.op = op, !.pc = "done", !.answer = answer]

Editing(r) == edit[r].pc \in {"load", "save", "write"}

\* Faulty variant: archived rows are found.
FoundArchived(s) == listings[s] # Null

\* findOneById: archived rows are not found.
Found(s) == listings[s] # Null /\ ~listings[s].archived

-----------------------------------------------------------------------------
CatalogInit ==
    /\ listings = [s \in Edits |-> Null]
    /\ edit = [r \in Edits |-> NoEdit]

\* ServicesService.create: one INSERT.
CreateListing(r) ==
    /\ edit[r] = NoEdit
    /\ \E v \in Vendors, p \in Prices, a \in BOOLEAN :
         listings' = [listings EXCEPT ![r] =
                        [vendor |-> v, price |-> p, active |-> a, archived |-> FALSE]]
    /\ edit' = [edit EXCEPT ![r] = EditDone("create", "ok")]

\* A PATCH or DELETE request of vendor v arrives and passes ServiceOwnerGuard.
Authorise(r, op, v, s, patch) ==
    /\ edit[r] = NoEdit
    /\ edit' = [edit EXCEPT ![r] =
         IF ~Found(s) THEN EditDone(op, "notFound")
         ELSE IF listings[s].vendor # v THEN EditDone(op, "forbidden")
         ELSE [NoEdit EXCEPT !.op = op, !.pc = "load", !.by = v, !.id = s, !.patch = patch]]
    /\ UNCHANGED listings

BeginUpdate(r) == \E v \in Vendors, s \in Edits, patch \in Patch :
                     Authorise(r, "update", v, s, patch)
BeginRemove(r) == \E v \in Vendors, s \in Edits : Authorise(r, "remove", v, s, Null)

\* Faulty variant: a PATCH may carry another vendor.
PatchedOwner(row, patch) ==
    [row EXCEPT !.price  = IF patch.price = Null THEN @ ELSE patch.price,
                !.vendor = CHOOSE v \in Vendors : v # @ \/ Vendors = {v}]

\* Object.assign(service, dto).  The initializer of CreateServiceDto.isActive
\* is inherited by UpdateServiceDto, so a PATCH without isActive carries true.
Patched(row, patch) ==
    [row EXCEPT !.price  = IF patch.price = Null THEN @ ELSE patch.price,
                !.active = IF patch.active = Null THEN TRUE ELSE patch.active]

Archived(row) == [row EXCEPT !.active = FALSE, !.archived = TRUE]

\* update and remove load the row themselves, check it again and change the entity.
Load(r) ==
    /\ edit[r].pc = "load"
    /\ LET e == edit[r]
           s == e.id
       IN  edit' = [edit EXCEPT ![r] =
             IF ~Found(s) THEN EditDone(e.op, "notFound")
             ELSE IF listings[s].vendor # e.by THEN EditDone(e.op, "forbidden")
             ELSE [e EXCEPT !.pc = "save",
                            !.entity = IF e.op = "update" THEN Patched(listings[s], e.patch)
                                                          ELSE Archived(listings[s])]]
    /\ UNCHANGED listings

\* save reads the row again and finds the columns to update.
Diff(r) ==
    /\ edit[r].pc = "save"
    /\ edit' = [edit EXCEPT
         ![r].pc = "write",
         ![r].dirty = {c \in Columns : edit[r].entity[c] # listings[edit[r].id][c]}]
    /\ UNCHANGED listings

\* Faulty variant: a removal deletes.
WriteListingDelete(r, answer) ==
    /\ edit[r].pc = "write"
    /\ listings' = [listings EXCEPT ![edit[r].id] =
                      IF edit[r].op = "remove" THEN Null ELSE edit[r].entity]
    /\ edit' = [edit EXCEPT ![r] = EditDone(@.op, answer)]

\* UPDATE services SET the differing columns, and COMMIT; no version is checked.
WriteListing(r, answer) ==
    /\ edit[r].pc = "write"
    /\ listings' = [listings EXCEPT ![edit[r].id] =
         [c \in Columns |-> IF c \in edit[r].dirty THEN edit[r].entity[c] ELSE @[c]]]
    /\ edit' = [edit EXCEPT ![r] = EditDone(@.op, answer)]

\* A query fails, a connection drops or the process dies.
Fail(r) ==
    /\ Editing(r)
    /\ edit' = [edit EXCEPT ![r] = EditDone(@.op, "lost")]
    /\ UNCHANGED listings

CatalogNext ==
    \E r \in Edits :
        \/ CreateListing(r) \/ BeginUpdate(r) \/ BeginRemove(r)
        \/ Load(r) \/ Diff(r) \/ WriteListing(r, "ok") \/ WriteListing(r, "lost")
        \/ Fail(r)

CatalogSpec == CatalogInit /\ [][CatalogNext]_catalogVars

-----------------------------------------------------------------------------
(* Properties *)

\* Every variable has its type; an entity is in memory exactly while it is saved.
CatalogTypeOK ==
    /\ listings \in [Edits -> Listing \cup {Null}]
    /\ edit \in [Edits -> EditRequest]

IsArchived(s) == listings[s] # Null /\ listings[s].archived

Untouched(s) == \A r \in Edits : Editing(r) => edit[r].id # s

\* Once a listing is archived and no request holds an older copy of it, that is
\* for good: it is out of every later request's reach and no column changes again.
ArchiveSettles ==
    [][\A s \in Edits : IsArchived(s) /\ Untouched(s) =>
          listings'[s] = listings[s] /\ Untouched(s)']_catalogVars

\* However updates and removals of several vendors interleave, a listing is only
\* ever changed by a request of the vendor who created it.
OnlyOwnerChanges ==
    [][\A s \in Edits :
         listings[s] # Null /\ listings'[s] # listings[s] =>
            /\ listings'[s].vendor = listings[s].vendor
            /\ \E r \in Edits : /\ Editing(r) /\ ~Editing(r)'
                                /\ edit[r].id = s
                                /\ edit[r].by = listings[s].vendor]_catalogVars

(* What the repository says and a stale update breaks *)

\* `Cannot update soft-deleted service catalog listings': an archived listing
\* stays archived.
ArchiveIsFinal == [][\A s \in Edits : IsArchived(s) => IsArchived(s)']_catalogVars
===============================================================================
