----------------------------- MODULE PlatformProofs -----------------------------
(***************************************************************************)
(* What holds of the catalogue and of the bookings that rest on it, for    *)
(* any number of requests, vendors and prices.  The action properties of   *)
(* the catalogue rest on one invariant: a request under way edits a        *)
(* listing of its own vendor, never touches the owner column, and, if it   *)
(* is a removal, holds an archived entity.                                 *)
(*                                                                         *)
(* The catalogue is then an environment the bookings were modelled for:    *)
(* every step of the platform is a step of Bookings, over what Offers      *)
(* shows of the listings.  A step of the catalogue changes one listing at  *)
(* most, and never its vendor: that is what its invariant is needed for.   *)
(***************************************************************************)
EXTENDS Platform, TLAPS

-----------------------------------------------------------------------------
(* The catalogue *)

\* What a request under way knows of the listings L: the listing it edits exists
\* and is its vendor's; the entity in memory is of the same owner, archived
\* exactly by a removal; the owner is not among the columns to update.
EditSound(e, L) ==
    /\ e.op \in {"update", "remove"}
    /\ e.id \in Edits /\ e.by \in Vendors
    /\ e.op = "update" => e.patch \in Patch
    /\ L[e.id] \in Listing /\ L[e.id].vendor = e.by
    /\ e.pc \in {"save", "write"} =>
         /\ e.entity \in Listing /\ e.entity.vendor = e.by
         /\ e.entity.archived <=> e.op = "remove"
    /\ e.pc = "write" => "vendor" \notin e.dirty

EditsSound ==
    \A r \in Edits : edit[r].pc \in {"load", "save", "write"} => EditSound(edit[r], listings)

\* A request's own listing exists only once the request is done.
CreatedOnce == \A s \in Edits : listings[s] # Null => edit[s].pc = "done"

CatalogInv == CatalogTypeOK /\ EditsSound /\ CreatedOnce

\* Null is not a listing, a request or a vendor.
LEMMA NullApart == Null \notin Edits /\ Null \notin Vendors
BY EditNullAssumption

LEMMA NullListing == Null \notin Listing
BY EditNullAssumption

LEMMA EditRecords ==
    NoEdit \in EditRequest /\ NoEdit.pc = "new"
BY DEF NoEdit, EditRequest, Listing, Patch

LEMMA EndRecords ==
    ASSUME NEW op \in {"none", "create", "update", "remove"},
           NEW a \in {Null, "ok", "notFound", "forbidden", "lost"}
    PROVE  EditDone(op, a) \in EditRequest /\ EditDone(op, a).pc = "done"
BY DEF NoEdit, EditDone, EditRequest, Listing, Patch

LEMMA InitSound == CatalogInit => CatalogInv
<1> SUFFICES ASSUME CatalogInit PROVE CatalogInv
  OBVIOUS
<1>1. CatalogTypeOK
  BY EditRecords DEF CatalogInit, CatalogTypeOK
<1>2. EditsSound
  BY EditRecords DEF CatalogInit, EditsSound
<1>3. CreatedOnce
  BY DEF CatalogInit, CreatedOnce
<1> QED BY <1>1, <1>2, <1>3 DEF CatalogInv

\* A row written column by column is a listing, with the owner of the row it
\* was unless the owner is among the columns.
LEMMA Written ==
    ASSUME NEW old \in Listing, NEW new \in Listing, NEW D \in SUBSET Columns,
           NEW row, row = [c \in Columns |-> IF c \in D THEN new[c] ELSE old[c]]
    PROVE  /\ row \in Listing
           /\ "vendor" \notin D => row.vendor = old.vendor
           /\ row.archived = IF "archived" \in D THEN new.archived ELSE old.archived
BY DEF Columns, Listing

\* Another request's soundness is untouched when the listings keep their owners.
LEMMA SoundKept ==
    ASSUME NEW e, NEW L, NEW M, EditSound(e, L), M[e.id] \in Listing,
           M[e.id].vendor = L[e.id].vendor
    PROVE  EditSound(e, M)
BY DEF EditSound

\* A request arrives.
LEMMA AuthoriseSound ==
    ASSUME CatalogInv, NEW r \in Edits, NEW op \in {"update", "remove"},
           NEW v \in Vendors, NEW s \in Edits, NEW patch \in Patch \cup {Null},
           op = "update" => patch \in Patch, Authorise(r, op, v, s, patch)
    PROVE  CatalogInv'
<1> DEFINE moved == [NoEdit EXCEPT !.op = op, !.pc = "load", !.by = v, !.id = s, !.patch = patch]
<1> DEFINE next == edit'[r]
<1>1. listings' = listings /\ edit' = [edit EXCEPT ![r] = next] /\ edit[r] = NoEdit
  BY DEF Authorise, CatalogInv, CatalogTypeOK
<1>2. \/ next \in EditRequest /\ next.pc = "done"
      \/ next = moved /\ Found(s) /\ listings[s].vendor = v
  BY DEF Authorise, CatalogInv, CatalogTypeOK, EditDone, EditRequest, NoEdit, Listing, Patch
<1>3. /\ moved \in EditRequest /\ moved.pc = "load" /\ moved.op = op /\ moved.id = s
      /\ moved.by = v /\ moved.patch = patch
  BY DEF NoEdit, EditRequest, Listing, Patch
<1>4. CatalogTypeOK'
  BY <1>1, <1>2, <1>3 DEF CatalogInv, CatalogTypeOK
<1>5. next = moved /\ Found(s) /\ listings[s].vendor = v => EditSound(next, listings)
  BY <1>3 DEF EditSound, Found, CatalogInv, CatalogTypeOK
<1>6. EditsSound'
  BY <1>1, <1>2, <1>5 DEF EditsSound, CatalogInv, CatalogTypeOK
<1>7. CreatedOnce'
  <2>1. listings[r] = Null
    BY <1>1, EditRecords DEF CreatedOnce, CatalogInv
  <2>2. \A q \in Edits : q # r => edit'[q] = edit[q]
    BY <1>1 DEF CatalogInv, CatalogTypeOK
  <2> QED BY <1>1, <2>1, <2>2 DEF CreatedOnce, CatalogInv
<1> QED BY <1>4, <1>6, <1>7 DEF CatalogInv

\* A request under way moves on, and no listing changes: it ends, or what it
\* knows is sound again.
LEMMA StepSound ==
    ASSUME CatalogInv, NEW r \in Edits, Editing(r), NEW next \in EditRequest,
           edit' = [edit EXCEPT ![r] = next], listings' = listings,
           next.pc = "done" \/ EditSound(next, listings)
    PROVE  CatalogInv'
<1>1. CatalogTypeOK'
  BY DEF CatalogInv, CatalogTypeOK
<1>2. \A q \in Edits : edit'[q] = IF q = r THEN next ELSE edit[q]
  BY DEF CatalogInv, CatalogTypeOK
<1>3. EditsSound'
  BY <1>2 DEF EditsSound, CatalogInv
<1>4. CreatedOnce'
  <2>1. listings[r] = Null
    BY DEF CreatedOnce, CatalogInv, Editing
  <2> QED BY <1>2, <2>1 DEF CreatedOnce, CatalogInv
<1> QED BY <1>1, <1>3, <1>4 DEF CatalogInv

LEMMA CreateSound == ASSUME CatalogInv, NEW r \in Edits, CreateListing(r) PROVE CatalogInv'
<1> PICK v \in Vendors, p \in Prices, a \in BOOLEAN :
        listings' = [listings EXCEPT ![r] =
                       [vendor |-> v, price |-> p, active |-> a, archived |-> FALSE]]
  BY DEF CreateListing
<1> DEFINE new == [vendor |-> v, price |-> p, active |-> a, archived |-> FALSE]
<1> DEFINE next == EditDone("create", "ok")
<1>1. new \in Listing /\ next \in EditRequest /\ next.pc = "done"
  BY DEF Listing, EditDone, NoEdit, EditRequest, Patch
<1>2. edit[r] = NoEdit /\ edit' = [edit EXCEPT ![r] = next] /\ listings' = [listings EXCEPT ![r] = new]
  BY DEF CreateListing
<1> HIDE DEF new, next
<1>3. /\ \A q \in Edits : edit'[q] = IF q = r THEN next ELSE edit[q]
      /\ \A q \in Edits : listings'[q] = IF q = r THEN new ELSE listings[q]
  BY <1>2 DEF CatalogInv, CatalogTypeOK
<1>4. listings[r] = Null
  BY <1>2, EditRecords DEF CreatedOnce, CatalogInv
<1>5. CatalogTypeOK'
  BY <1>1, <1>2 DEF CatalogInv, CatalogTypeOK
<1>6. CreatedOnce'
  BY <1>1, <1>3 DEF CreatedOnce, CatalogInv
<1>7. EditsSound'
  <2> SUFFICES ASSUME NEW q \in Edits, edit'[q].pc \in {"load", "save", "write"}
               PROVE  EditSound(edit'[q], listings')
    BY DEF EditsSound
  <2>1. q # r /\ edit'[q] = edit[q] /\ EditSound(edit[q], listings)
    BY <1>1, <1>3 DEF EditsSound, CatalogInv
  <2>2. edit[q].id \in Edits /\ edit[q].id # r
    BY <1>4, <2>1, NullListing DEF EditSound
  <2>3. listings'[edit[q].id] = listings[edit[q].id]
    BY <1>3, <2>2
  <2> QED BY <2>1, <2>3, SoundKept DEF EditSound
<1> QED BY <1>5, <1>6, <1>7 DEF CatalogInv

LEMMA LoadSound == ASSUME CatalogInv, NEW r \in Edits, Load(r) PROVE CatalogInv'
<1> DEFINE e == edit[r]
<1> DEFINE row == listings[e.id]
<1> DEFINE new == IF e.op = "update" THEN Patched(row, e.patch) ELSE Archived(row)
<1> DEFINE moved == [e EXCEPT !.pc = "save", !.entity = new]
<1>1. Editing(r) /\ EditSound(e, listings) /\ e \in EditRequest
  BY DEF Load, Editing, CatalogInv, CatalogTypeOK, EditsSound
<1>2. CASE ~Found(e.id) \/ row.vendor # e.by
  <2>1. PICK a \in {"notFound", "forbidden"} : edit' = [edit EXCEPT ![r] = EditDone(e.op, a)]
    BY <1>2 DEF Load
  <2>2. EditDone(e.op, a) \in EditRequest /\ EditDone(e.op, a).pc = "done"
    BY <1>1, EndRecords DEF EditRequest
  <2> QED BY <1>1, <2>1, <2>2, StepSound DEF Load
<1>3. CASE Found(e.id) /\ row.vendor = e.by
  <2>1. row \in Listing /\ row.vendor = e.by /\ ~row.archived
    BY <1>1, <1>3 DEF EditSound, Found
  <2>2. /\ new \in Listing /\ new.vendor = row.vendor
        /\ new.archived <=> e.op = "remove"
    BY <1>1, <2>1 DEF EditSound, Patched, Archived, Patch, Listing
  <2>3. edit' = [edit EXCEPT ![r] = moved] /\ listings' = listings
    BY <1>3 DEF Load
  <2> HIDE DEF new
  <2>4. moved \in EditRequest /\ moved.pc = "save" /\ moved.entity = new
        /\ moved.op = e.op /\ moved.id = e.id /\ moved.by = e.by /\ moved.patch = e.patch
    BY <1>1, <2>2 DEF EditRequest
  <2> HIDE DEF moved, e
  <2>5. EditSound(moved, listings)
    BY <1>1, <2>1, <2>2, <2>4 DEF EditSound
  <2> QED BY <1>1, <2>3, <2>4, <2>5, StepSound DEF e
<1> QED BY <1>2, <1>3

LEMMA DiffSound == ASSUME CatalogInv, NEW r \in Edits, Diff(r) PROVE CatalogInv'
<1> DEFINE e == edit[r]
<1> DEFINE D == {c \in Columns : e.entity[c] # listings[e.id][c]}
<1> DEFINE moved == [e EXCEPT !.pc = "write", !.dirty = D]
<1>1. Editing(r) /\ EditSound(e, listings) /\ e \in EditRequest /\ e.pc = "save"
  BY DEF Diff, Editing, CatalogInv, CatalogTypeOK, EditsSound
<1>2. edit' = [edit EXCEPT ![r] = moved] /\ listings' = listings
  BY DEF Diff
<1>3. D \in SUBSET Columns /\ "vendor" \notin D
  BY <1>1 DEF EditSound
<1> HIDE DEF D
<1>4. /\ moved \in EditRequest /\ moved.pc = "write" /\ moved.dirty = D
      /\ moved.op = e.op /\ moved.id = e.id /\ moved.by = e.by /\ moved.patch = e.patch
      /\ moved.entity = e.entity
  BY <1>1, <1>3 DEF EditRequest
<1> HIDE DEF moved, e
<1>5. EditSound(moved, listings)
  BY <1>1, <1>3, <1>4 DEF EditSound
<1> QED BY <1>1, <1>2, <1>4, <1>5, StepSound DEF e

\* What a write does to the listings: the one it edits stays a listing of its
\* vendor, and no other changes.
LEMMA WriteChanges ==
    ASSUME CatalogInv, NEW r \in Edits, NEW a \in {"ok", "lost"}, WriteListing(r, a)
    PROVE  LET e == edit[r]
           IN  /\ EditSound(e, listings) /\ e.pc = "write" /\ e \in EditRequest
               /\ listings'[e.id] \in Listing
               /\ listings'[e.id].vendor = listings[e.id].vendor
               /\ listings'[e.id].archived =
                    IF "archived" \in e.dirty THEN e.entity.archived ELSE listings[e.id].archived
               /\ \A s \in Edits : s # e.id => listings'[s] = listings[s]
<1> DEFINE e == edit[r]
<1> DEFINE row == [c \in Columns |-> IF c \in e.dirty THEN e.entity[c] ELSE listings[e.id][c]]
<1>1. EditSound(e, listings) /\ e.pc = "write" /\ e \in EditRequest
  BY DEF WriteListing, CatalogInv, CatalogTypeOK, EditsSound
<1>2. listings' = [listings EXCEPT ![e.id] = row]
  BY DEF WriteListing
<1>3. e.id \in Edits /\ e.entity \in Listing /\ listings[e.id] \in Listing
      /\ e.dirty \in SUBSET Columns /\ "vendor" \notin e.dirty
  BY <1>1 DEF EditSound, EditRequest
<1>4. /\ row \in Listing /\ row.vendor = listings[e.id].vendor
      /\ row.archived = IF "archived" \in e.dirty THEN e.entity.archived
                                                 ELSE listings[e.id].archived
  BY <1>3, Written
<1> HIDE DEF row
<1>5. listings'[e.id] = row /\ \A s \in Edits : s # e.id => listings'[s] = listings[s]
  BY <1>2, <1>3 DEF CatalogInv, CatalogTypeOK
<1> QED BY <1>1, <1>4, <1>5

LEMMA WriteSound ==
    ASSUME CatalogInv, NEW r \in Edits, NEW a \in {"ok", "lost"}, WriteListing(r, a)
    PROVE  CatalogInv'
<1> DEFINE e == edit[r]
<1> DEFINE next == EditDone(e.op, a)
<1>1. /\ EditSound(e, listings) /\ e.pc = "write" /\ e \in EditRequest
      /\ listings'[e.id] \in Listing
      /\ listings'[e.id].vendor = listings[e.id].vendor
      /\ \A s \in Edits : s # e.id => listings'[s] = listings[s]
  BY WriteChanges
<1>2. next \in EditRequest /\ next.pc = "done"
  <2>1. e.op \in {"none", "create", "update", "remove"}
    BY <1>1 DEF EditRequest
  <2> HIDE DEF e
  <2> QED BY <2>1, EndRecords
<1>3. edit' = [edit EXCEPT ![r] = next]
  BY DEF WriteListing
<1> HIDE DEF e, next
<1>4. \A q \in Edits : edit'[q] = IF q = r THEN next ELSE edit[q]
  BY <1>3 DEF CatalogInv, CatalogTypeOK
<1>5. \A s \in Edits : listings[s] \in Listing =>
         listings'[s] \in Listing /\ listings'[s].vendor = listings[s].vendor
  BY <1>1
<1>6. CatalogTypeOK'
  <2>1. \A s \in Edits : listings'[s] \in Listing \cup {Null}
    BY <1>1 DEF CatalogInv, CatalogTypeOK
  <2>2. listings' \in [Edits -> Listing \cup {Null}]
    BY <2>1 DEF WriteListing, CatalogInv, CatalogTypeOK
  <2> QED BY <1>2, <1>3, <2>2 DEF CatalogInv, CatalogTypeOK
<1>7. EditsSound'
  <2> SUFFICES ASSUME NEW q \in Edits, edit'[q].pc \in {"load", "save", "write"}
               PROVE  EditSound(edit'[q], listings')
    BY DEF EditsSound
  <2>1. edit'[q] = edit[q] /\ EditSound(edit[q], listings)
    BY <1>2, <1>4 DEF EditsSound, CatalogInv
  <2>2. /\ listings'[edit[q].id] \in Listing
        /\ listings'[edit[q].id].vendor = listings[edit[q].id].vendor
    BY <1>5, <2>1 DEF EditSound
  <2> QED BY <2>1, <2>2, SoundKept
<1>8. CreatedOnce'
  <2> SUFFICES ASSUME NEW s \in Edits, listings'[s] # Null PROVE edit'[s].pc = "done"
    BY DEF CreatedOnce
  <2>1. listings[s] # Null
    BY <1>1, NullListing DEF EditSound
  <2> QED BY <1>2, <1>4, <2>1 DEF CreatedOnce, CatalogInv
<1> QED BY <1>6, <1>7, <1>8 DEF CatalogInv

LEMMA FailSound == ASSUME CatalogInv, NEW r \in Edits, Fail(r) PROVE CatalogInv'
<1> DEFINE next == EditDone(edit[r].op, "lost")
<1>1. next \in EditRequest /\ next.pc = "done"
  BY EndRecords DEF CatalogInv, CatalogTypeOK, EditRequest
<1>2. edit' = [edit EXCEPT ![r] = next] /\ listings' = listings /\ Editing(r)
  BY DEF Fail
<1> HIDE DEF next
<1> QED BY <1>1, <1>2, StepSound

LEMMA NextSound == CatalogInv /\ [CatalogNext]_catalogVars => CatalogInv'
<1> SUFFICES ASSUME CatalogInv, [CatalogNext]_catalogVars PROVE CatalogInv'
  OBVIOUS
<1>1. CASE UNCHANGED catalogVars
  BY <1>1 DEF catalogVars, CatalogInv, CatalogTypeOK, EditsSound, EditSound, CreatedOnce
<1>2. CASE CatalogNext
  <2>1. PICK r \in Edits :
          \/ CreateListing(r) \/ BeginUpdate(r) \/ BeginRemove(r)
          \/ Load(r) \/ Diff(r) \/ WriteListing(r, "ok") \/ WriteListing(r, "lost")
          \/ Fail(r)
    BY <1>2 DEF CatalogNext
  <2>2. CASE CreateListing(r)
    BY <2>2, CreateSound
  <2>3. CASE BeginUpdate(r)
    BY <2>3, AuthoriseSound DEF BeginUpdate
  <2>4. CASE BeginRemove(r)
    BY <2>4, AuthoriseSound DEF BeginRemove
  <2>5. CASE Load(r)
    BY <2>5, LoadSound
  <2>6. CASE Diff(r)
    BY <2>6, DiffSound
  <2>7. CASE WriteListing(r, "ok") \/ WriteListing(r, "lost")
    BY <2>7, WriteSound
  <2>8. CASE Fail(r)
    BY <2>8, FailSound
  <2> QED BY <2>1, <2>2, <2>3, <2>4, <2>5, <2>6, <2>7, <2>8
<1> QED BY <1>1, <1>2

\* In every reachable state every request under way knows a listing of its own
\* vendor, and no listing exists before the request that creates it is done.
THEOREM CatalogInvariant == CatalogSpec => []CatalogInv
BY InitSound, NextSound, PTL DEF CatalogSpec

\* However the requests overlap and fail, every variable has its type.
THEOREM CatalogTypeCorrect == CatalogSpec => []CatalogTypeOK
<1>1. CatalogInv => CatalogTypeOK
  BY DEF CatalogInv
<1> QED BY <1>1, CatalogInvariant, PTL

-----------------------------------------------------------------------------
(* The action properties *)

\* Only a write changes a listing that exists, and only the one it edits.
LEMMA OnlyWritesChange ==
    ASSUME CatalogInv, CatalogNext, NEW s \in Edits, listings[s] # Null, listings'[s] # listings[s]
    PROVE  \E r \in Edits, a \in {"ok", "lost"} : WriteListing(r, a) /\ edit[r].id = s
<1>1. PICK r \in Edits :
        \/ CreateListing(r) \/ BeginUpdate(r) \/ BeginRemove(r)
        \/ Load(r) \/ Diff(r) \/ WriteListing(r, "ok") \/ WriteListing(r, "lost")
        \/ Fail(r)
  BY DEF CatalogNext
<1>2. ~CreateListing(r)
  <2> SUFFICES ASSUME CreateListing(r) PROVE FALSE
    OBVIOUS
  <2>1. edit[r] = NoEdit /\ \E new : listings' = [listings EXCEPT ![r] = new]
    BY DEF CreateListing
  <2>2. listings[r] = Null
    BY <2>1, EditRecords DEF CreatedOnce, CatalogInv
  <2> QED BY <2>1, <2>2 DEF CatalogInv, CatalogTypeOK
<1>3. ~(BeginUpdate(r) \/ BeginRemove(r) \/ Load(r) \/ Diff(r) \/ Fail(r))
  BY DEF BeginUpdate, BeginRemove, Authorise, Load, Diff, Fail
<1>4. PICK a \in {"ok", "lost"} : WriteListing(r, a)
  BY <1>1, <1>2, <1>3
<1>5. edit[r].id = s
  BY <1>4, WriteChanges
<1> QED BY <1>4, <1>5

\* However many vendors edit at once, a listing is only ever changed by a
\* request of the vendor who created it.
THEOREM OwnersOnly == CatalogSpec => OnlyOwnerChanges
<1>1. ASSUME CatalogInv, [CatalogNext]_catalogVars, NEW s \in Edits,
             listings[s] # Null, listings'[s] # listings[s]
      PROVE  /\ listings'[s].vendor = listings[s].vendor
             /\ \E r \in Edits : /\ Editing(r) /\ ~Editing(r)'
                                 /\ edit[r].id = s
                                 /\ edit[r].by = listings[s].vendor
  <2>1. CatalogNext
    BY <1>1 DEF catalogVars
  <2>2. PICK r \in Edits, a \in {"ok", "lost"} : WriteListing(r, a) /\ edit[r].id = s
    BY <1>1, <2>1, OnlyWritesChange
  <2>3. /\ EditSound(edit[r], listings) /\ edit[r].pc = "write" /\ edit[r] \in EditRequest
        /\ listings'[s].vendor = listings[s].vendor
    BY <1>1, <2>2, WriteChanges
  <2>4. EditDone(edit[r].op, a).pc = "done"
    BY DEF EditDone, NoEdit
  <2>5. edit' = [edit EXCEPT ![r] = EditDone(edit[r].op, a)]
    BY <2>2 DEF WriteListing
  <2>6. edit'[r].pc = "done"
    BY <1>1, <2>4, <2>5 DEF CatalogInv, CatalogTypeOK
  <2>7. Editing(r) /\ ~Editing(r)'
    BY <2>3, <2>6 DEF Editing
  <2> QED BY <2>2, <2>3, <2>7 DEF EditSound
<1>2. CatalogInv /\ [CatalogNext]_catalogVars =>
        [\A s \in Edits :
           listings[s] # Null /\ listings'[s] # listings[s] =>
             /\ listings'[s].vendor = listings[s].vendor
             /\ \E r \in Edits : /\ Editing(r) /\ ~Editing(r)'
                                 /\ edit[r].id = s
                                 /\ edit[r].by = listings[s].vendor]_catalogVars
  BY <1>1
<1> QED BY <1>2, CatalogInvariant, PTL DEF CatalogSpec, OnlyOwnerChanges

\* No step brings a request under way to a listing that is archived.
LEMMA OutOfReach ==
    ASSUME CatalogInv, CatalogNext, NEW s \in Edits, IsArchived(s), Untouched(s),
           NEW q \in Edits, Editing(q)'
    PROVE  edit'[q].id # s
<1>1. PICK r \in Edits :
        \/ CreateListing(r) \/ BeginUpdate(r) \/ BeginRemove(r)
        \/ Load(r) \/ Diff(r) \/ WriteListing(r, "ok") \/ WriteListing(r, "lost")
        \/ Fail(r)
  BY DEF CatalogNext
<1>2. \E next : edit' = [edit EXCEPT ![r] = next]
  BY <1>1 DEF CreateListing, BeginUpdate, BeginRemove, Authorise, Load, Diff, WriteListing, Fail
<1>3. CASE q # r
  BY <1>2, <1>3 DEF Untouched, Editing, CatalogInv, CatalogTypeOK
<1>4. CASE q = r /\ (BeginUpdate(r) \/ BeginRemove(r))
  <2>1. PICK op \in {"update", "remove"}, v \in Vendors, t \in Edits, patch \in Patch \cup {Null} :
           Authorise(r, op, v, t, patch)
    BY <1>4 DEF BeginUpdate, BeginRemove
  <2>2. edit'[r] = IF ~Found(t) THEN EditDone(op, "notFound")
                   ELSE IF listings[t].vendor # v THEN EditDone(op, "forbidden")
                   ELSE [NoEdit EXCEPT !.op = op, !.pc = "load", !.by = v, !.id = t,
                                       !.patch = patch]
    BY <2>1 DEF Authorise, CatalogInv, CatalogTypeOK
  <2>3. \A x \in {"notFound", "forbidden"} : EditDone(op, x).pc = "done"
    BY DEF EditDone, NoEdit
  <2>4. Found(t) /\ edit'[r].id = t
    BY <1>4, <2>2, <2>3 DEF Editing, NoEdit
  <2> QED BY <1>4, <2>4 DEF Found, IsArchived
<1>5. CASE q = r /\ (Load(r) \/ Diff(r) \/ Fail(r))
  <2>1. Editing(r) /\ edit[r].id # s /\ edit[r] \in EditRequest
    BY <1>5 DEF Load, Diff, Fail, Editing, Untouched, CatalogInv, CatalogTypeOK
  <2>2. \A x \in {"notFound", "forbidden", "lost"} : EditDone(edit[r].op, x).pc = "done"
    BY DEF EditDone, NoEdit
  <2>3. edit'[r].pc = "done" \/ edit'[r].id = edit[r].id
    <3>1. CASE Load(r)
      BY <3>1, <2>1, <2>2 DEF Load, CatalogInv, CatalogTypeOK, EditRequest
    <3>2. CASE Diff(r)
      BY <3>2, <2>1 DEF Diff, CatalogInv, CatalogTypeOK, EditRequest
    <3>3. CASE Fail(r)
      BY <3>3, <2>2 DEF Fail, CatalogInv, CatalogTypeOK
    <3> QED BY <1>5, <3>1, <3>2, <3>3
  <2> QED BY <1>5, <2>1, <2>3 DEF Editing
<1>6. CASE q = r /\ (CreateListing(r) \/ WriteListing(r, "ok") \/ WriteListing(r, "lost"))
  <2>1. PICK op, x : edit' = [edit EXCEPT ![r] = EditDone(op, x)]
    BY <1>6 DEF CreateListing, WriteListing
  <2>2. edit'[r].pc = "done"
    BY <2>1 DEF EditDone, NoEdit, CatalogInv, CatalogTypeOK
  <2> QED BY <1>6, <2>2 DEF Editing
<1> QED BY <1>1, <1>3, <1>4, <1>5, <1>6

\* An archived listing that no request edits stays as it is, and out of reach.
LEMMA ArchiveStep ==
    ASSUME CatalogInv, [CatalogNext]_catalogVars, NEW s \in Edits, IsArchived(s), Untouched(s)
    PROVE  listings'[s] = listings[s] /\ Untouched(s)'
<1>1. CASE UNCHANGED catalogVars
  BY <1>1 DEF catalogVars, Untouched, Editing
<1>2. CASE CatalogNext
  <2>1. listings'[s] = listings[s]
    <3> SUFFICES ASSUME listings'[s] # listings[s] PROVE FALSE
      OBVIOUS
    <3>1. PICK r \in Edits, a \in {"ok", "lost"} : WriteListing(r, a) /\ edit[r].id = s
      BY <1>2, OnlyWritesChange DEF IsArchived
    <3> QED BY <3>1 DEF WriteListing, Untouched, Editing
  <2>2. Untouched(s)'
    BY <1>2, OutOfReach DEF Untouched
  <2> QED BY <2>1, <2>2
<1> QED BY <1>1, <1>2

\* Once a listing is archived and no request under way edits it, no column of it
\* changes again and no request comes to edit it.
THEOREM ArchivesSettle == CatalogSpec => ArchiveSettles
<1>1. CatalogInv /\ [CatalogNext]_catalogVars =>
        [\A s \in Edits : IsArchived(s) /\ Untouched(s) =>
           listings'[s] = listings[s] /\ Untouched(s)']_catalogVars
  BY ArchiveStep
<1> QED BY <1>1, CatalogInvariant, PTL DEF CatalogSpec, ArchiveSettles

-----------------------------------------------------------------------------
(* The platform implements the bookings *)

\* What the bookings see of a listing is a listing of theirs.
LEMMA OfferOfListing ==
    ASSUME NEW l \in Listing
    PROVE  Offer(l) \in Booking!Listing /\ Offer(l).vendor = l.vendor
BY DEF Offer, Listing, Booking!Listing

LEMMA InitMaps == PlatformInit => Booking!Init
<1> SUFFICES ASSUME PlatformInit PROVE Booking!Init
  OBVIOUS
<1>1. Offers \in [Edits -> Booking!Listing \cup {Null}]
  BY DEF PlatformInit, CatalogInit, Offers
<1> QED BY <1>1 DEF PlatformInit, Booking!Init

\* Whatever a step of the catalogue does, at most one listing changes, to one of
\* the same vendor if there was one.
LEMMA OneListingChanges ==
    ASSUME CatalogInv, CatalogNext
    PROVE  \/ listings' = listings
           \/ \E s \in Edits, l \in Listing :
                /\ listings' = [listings EXCEPT ![s] = l]
                /\ listings[s] # Null => l.vendor = listings[s].vendor
<1>1. PICK r \in Edits :
        \/ CreateListing(r) \/ BeginUpdate(r) \/ BeginRemove(r)
        \/ Load(r) \/ Diff(r) \/ WriteListing(r, "ok") \/ WriteListing(r, "lost")
        \/ Fail(r)
  BY DEF CatalogNext
<1>2. CASE CreateListing(r)
  <2>1. PICK v \in Vendors, p \in Prices, a \in BOOLEAN :
          listings' = [listings EXCEPT ![r] =
                         [vendor |-> v, price |-> p, active |-> a, archived |-> FALSE]]
    BY <1>2 DEF CreateListing
  <2>2. [vendor |-> v, price |-> p, active |-> a, archived |-> FALSE] \in Listing
    BY DEF Listing
  <2>3. listings[r] = Null
    BY <1>2, EditRecords DEF CreateListing, CreatedOnce, CatalogInv
  <2> QED BY <2>1, <2>2, <2>3
<1>3. CASE WriteListing(r, "ok") \/ WriteListing(r, "lost")
  <2> DEFINE s == edit[r].id
  <2>1. PICK a \in {"ok", "lost"} : WriteListing(r, a)
    BY <1>3
  <2>2. /\ s \in Edits /\ listings'[s] \in Listing
        /\ listings'[s].vendor = listings[s].vendor
    BY <2>1, WriteChanges DEF EditSound
  <2>3. \E row : listings' = [listings EXCEPT ![s] = row]
    BY <2>1 DEF WriteListing
  <2>4. listings' = [listings EXCEPT ![s] = listings'[s]]
    BY <2>2, <2>3 DEF CatalogInv, CatalogTypeOK
  <2> QED BY <2>2, <2>4
<1>4. CASE BeginUpdate(r) \/ BeginRemove(r) \/ Load(r) \/ Diff(r) \/ Fail(r)
  BY <1>4 DEF BeginUpdate, BeginRemove, Authorise, Load, Diff, Fail
<1> QED BY <1>1, <1>2, <1>3, <1>4

\* The bookings see that as one of their listings changing, or as nothing.
LEMMA CatalogMaps ==
    ASSUME CatalogInv, CatalogStep
    PROVE  (\E s \in Edits : Booking!ListingChanges(s)) \/ UNCHANGED Booking!vars
<1>1. CatalogNext /\ UNCHANGED <<bookings, audit, req>>
  BY DEF CatalogStep
<1>2. CASE listings' = listings
  BY <1>1, <1>2 DEF Offers, Booking!vars
<1>3. ASSUME NEW s \in Edits, NEW l \in Listing,
             listings' = [listings EXCEPT ![s] = l],
             listings[s] # Null => l.vendor = listings[s].vendor
      PROVE  Booking!ListingChanges(s)
  <2>1. \A q \in Edits : listings'[q] = IF q = s THEN l ELSE listings[q]
    BY <1>3 DEF CatalogInv, CatalogTypeOK
  <2>2. l # Null
    BY NullListing
  <2>3. Offers' = [q \in Edits |-> IF listings'[q] = Null THEN Null ELSE Offer(listings'[q])]
    BY DEF Offers, Offer
  <2>4. Offers' = [Offers EXCEPT ![s] = Offer(l)]
    BY <2>1, <2>2, <2>3 DEF Offers
  <2>5. Offers[s] # Null => listings[s] # Null /\ Offers[s].vendor = listings[s].vendor
    BY DEF Offers, Offer
  <2>6. Offer(l) \in Booking!Listing /\ Offer(l).vendor = l.vendor
    BY OfferOfListing
  <2> QED BY <1>1, <1>3, <2>4, <2>5, <2>6 DEF Booking!ListingChanges
<1> QED BY <1>1, <1>2, <1>3, OneListingChanges

LEMMA BookingMaps == BookingStep => Booking!Next
BY DEF BookingStep, Booking!Next

LEMMA PlatformKeeps == CatalogInv /\ [PlatformNext]_platformVars => CatalogInv'
<1> SUFFICES ASSUME CatalogInv, [PlatformNext]_platformVars PROVE CatalogInv'
  OBVIOUS
<1>1. [CatalogNext]_catalogVars
  BY DEF PlatformNext, CatalogStep, BookingStep, platformVars, catalogVars
<1> QED BY <1>1, NextSound

LEMMA StepMaps == CatalogInv /\ [PlatformNext]_platformVars => [Booking!Next]_(Booking!vars)
<1> SUFFICES ASSUME CatalogInv, [PlatformNext]_platformVars
             PROVE  Booking!Next \/ UNCHANGED Booking!vars
  OBVIOUS
<1>1. CASE UNCHANGED platformVars
  BY <1>1 DEF platformVars, Booking!vars, Offers
<1>2. CASE CatalogStep
  BY <1>2, CatalogMaps DEF Booking!Next
<1>3. CASE BookingStep
  BY <1>3, BookingMaps
<1> QED BY <1>1, <1>2, <1>3 DEF PlatformNext

\* Whatever vendors do to their listings meanwhile, the bookings behave as
\* Bookings specifies; all that is proved of it holds of the platform.
THEOREM PlatformImplementsBookings == PlatformSpec => ImplementsBookings
<1>1. PlatformInit => CatalogInv
  BY InitSound DEF PlatformInit
<1> QED BY <1>1, InitMaps, PlatformKeeps, StepMaps, PTL
       DEF PlatformSpec, ImplementsBookings, Booking!Spec

-----------------------------------------------------------------------------
(* What is proved of the bookings holds of the platform *)

Facts == INSTANCE BookingsTrailProofs WITH Services <- Edits, services <- Offers

BookingsSafe ==
    /\ Booking!SlotExclusive
    /\ Booking!KeyUsedOnce
    /\ Booking!AnswerTellsOutcome
    /\ Booking!CreationIsLogged
    /\ Booking!TrailIsLegal
    /\ Booking!StatusIsAudited
    /\ Booking!CompletedWasConfirmed

\* Both instances spell out the same definitions.
LEMMA SameBookings ==
    /\ Booking!Init <=> Facts!Init
    /\ [Booking!Next]_(Booking!vars) <=> [Facts!Next]_(Facts!vars)
BY DEF Booking!Init, Facts!Init, Booking!Listing, Facts!Listing, Booking!Idle, Facts!Idle,
       Booking!Next, Facts!Next, Booking!RequestNext, Facts!RequestNext, Booking!Arrival,
       Facts!Arrival, Booking!Create, Facts!Create, Booking!CreationVerdict,
       Facts!CreationVerdict, Booking!Done, Facts!Done, Booking!Statuses, Facts!Statuses,
       Booking!Users, Facts!Users, Booking!UpdateStatus, Facts!UpdateStatus,
       Booking!TransitionVerdict, Facts!TransitionVerdict, Booking!HasAuthority,
       Facts!HasAuthority, Booking!IsClientOwner, Facts!IsClientOwner, Booking!IsVendorOwner,
       Facts!IsVendorOwner, Booking!BeyondRole, Facts!BeyondRole, Booking!AllowedTransitions,
       Facts!AllowedTransitions, Booking!JoinedVendor, Facts!JoinedVendor, Booking!Progress,
       Facts!Progress, Booking!CheckDuplicate, Facts!CheckDuplicate,
       Booking!HasDuplicateBooking, Facts!HasDuplicateBooking, Booking!Exists, Facts!Exists,
       Booking!SamePlace, Facts!SamePlace, Booking!ActiveStatuses, Facts!ActiveStatuses,
       Booking!InsertRow, Facts!InsertRow, Booking!Passes, Facts!Passes, Booking!Blockers,
       Facts!Blockers, Booking!HoldsRow, Facts!HoldsRow, Booking!Enters, Facts!Enters,
       Booking!Holds, Facts!Holds, Booking!Indexes, Facts!Indexes, Booking!Live, Facts!Live,
       Booking!At, Facts!At, Booking!Same, Facts!Same, Booking!SameKey, Facts!SameKey,
       Booking!Clash, Facts!Clash, Booking!KeyClash, Facts!KeyClash, Booking!SlotClash,
       Facts!SlotClash, Booking!FinishInsert, Facts!FinishInsert, Booking!RejectKey,
       Facts!RejectKey, Booking!Rejected, Facts!Rejected, Booking!RejectSlot, Facts!RejectSlot,
       Booking!RejectOrphan, Facts!RejectOrphan, Booking!Reload, Facts!Reload,
       Booking!UpdateRow, Facts!UpdateRow, Booking!FinishUpdate, Facts!FinishUpdate,
       Booking!RejectUpdate, Facts!RejectUpdate, Booking!Commit, Facts!Commit, Booking!Written,
       Facts!Written, Booking!Logged, Facts!Logged, Booking!Mishap, Facts!Mishap,
       Booking!Abort, Facts!Abort, Booking!InFlight, Facts!InFlight, Booking!InFlightPcs,
       Facts!InFlightPcs, Booking!ListingChanges, Facts!ListingChanges, Booking!vars,
       Facts!vars

LEMMA SameSafety ==
    BookingsSafe <=>
        /\ Facts!SlotExclusive
        /\ Facts!KeyUsedOnce
        /\ Facts!AnswerTellsOutcome
        /\ Facts!CreationIsLogged
        /\ Facts!TrailIsLegal
        /\ Facts!StatusIsAudited
        /\ Facts!CompletedWasConfirmed
BY DEF BookingsSafe, Booking!SlotExclusive, Facts!SlotExclusive, Booking!Live, Facts!Live, Booking!Exists,
       Facts!Exists, Booking!SamePlace, Facts!SamePlace, Booking!KeyUsedOnce, Facts!KeyUsedOnce,
       Booking!SameKey, Facts!SameKey, Booking!AnswerTellsOutcome, Facts!AnswerTellsOutcome,
       Booking!CreationIsLogged, Facts!CreationIsLogged, Booking!TrailIsLegal,
       Facts!TrailIsLegal, Booking!AllowedTransitions, Facts!AllowedTransitions,
       Booking!Statuses, Facts!Statuses, Booking!StatusIsAudited, Facts!StatusIsAudited,
       Booking!CompletedWasConfirmed, Facts!CompletedWasConfirmed, Booking!HasStatus,
       Facts!HasStatus

LEMMA SameActions ==
    /\ Booking!TerminalSettles <=> Facts!TerminalSettles
    /\ Booking!ConflictIsJustified <=> Facts!ConflictIsJustified
<1>1. Booking!TerminalSettles <=> Facts!TerminalSettles
      BY PTL DEF Booking!TerminalSettles, Facts!TerminalSettles, Booking!HasStatus,
             Facts!HasStatus, Booking!Exists, Facts!Exists, Booking!Quiet, Facts!Quiet,
             Booking!InFlight, Facts!InFlight, Booking!InFlightPcs, Facts!InFlightPcs,
             Booking!vars, Facts!vars
<1>2. Booking!ConflictIsJustified <=> Facts!ConflictIsJustified
      BY PTL DEF Booking!ConflictIsJustified, Facts!ConflictIsJustified, Booking!InFlight,
             Facts!InFlight, Booking!InFlightPcs, Facts!InFlightPcs, Booking!KeyClash,
             Facts!KeyClash, Booking!Exists, Facts!Exists, Booking!SameKey, Facts!SameKey,
             Booking!SlotClash, Facts!SlotClash, Booking!Live, Facts!Live, Booking!SamePlace,
             Facts!SamePlace, Booking!vars, Facts!vars
<1> QED BY <1>1, <1>2, PTL

LEMMA SameReservation == Booking!ImplementsReservation <=> Facts!ImplementsReservation
<1>1. /\ Booking!Reservation!Init <=> Facts!Reservation!Init
      /\ [Booking!Reservation!Next]_(Booking!HeldPlaces) <=>
             [Facts!Reservation!Next]_(Facts!HeldPlaces)
      BY DEF Booking!HeldPlaces, Facts!HeldPlaces, Booking!Place, Facts!Place, Booking!Live,
             Facts!Live, Booking!Exists, Facts!Exists, Booking!Reservation!Init,
             Facts!Reservation!Init, Booking!Reservation!Next, Facts!Reservation!Next,
             Booking!Reservation!Take, Facts!Reservation!Take, Booking!Reservation!Release,
             Facts!Reservation!Release, Booking!Reservation!Free, Facts!Reservation!Free
<1> QED BY <1>1, PTL
    DEF Booking!ImplementsReservation, Facts!ImplementsReservation,
        Booking!Reservation!Spec, Facts!Reservation!Spec

\* The assumptions those theorems rest on.
LEMMA Premises ==
    /\ /\ Clients \cap Vendors = {}
       /\ (Clients \cup Vendors) \cap Admins = {}
       /\ Null \notin Clients \cup Vendors \cup Admins
    /\ Null \notin Facts!Statuses
    /\ Callers \subseteq Clients \cup {Null}
    /\ Null \notin Keys \cup Requests
    /\ Null \notin Facts!Listing /\ Null \notin Facts!Row
    /\ Null \notin Facts!Answers
BY PlatformAssumption
   DEF Booking!Listing, Facts!Listing, Booking!Row, Facts!Row, Booking!Statuses, Facts!Statuses,
       Booking!Answers, Facts!Answers

\* Vendors may edit, archive and revive their listings at any step: no slot of a
\* listing is booked twice, no idempotency key is used twice, a create that is
\* answered tells the truth, and every booking has an audit trail that opens with
\* its creation, is legal, leads to its status and never skips the confirmation.
\* Refusals have committed reasons, ends are final once quiet, and the platform
\* implements the reservation of places.
THEOREM PlatformKeepsBookings == PlatformSpec =>
               /\ []BookingsSafe
               /\ Booking!TerminalSettles
               /\ Booking!ConflictIsJustified
               /\ Booking!ImplementsReservation
<1>1. Facts!Spec => []Facts!SlotExclusive
      BY Premises, Facts!NoDoubleBooking, PTL
<1>2. Facts!Spec => []Facts!KeyUsedOnce
      BY Premises, Facts!KeysAreIdempotent, PTL
<1>3. Facts!Spec => []Facts!AnswerTellsOutcome
      BY Premises, Facts!AnswersAreTrue, PTL
<1>4. Facts!Spec => []Facts!CreationIsLogged
      BY Premises, Facts!TrailsOpen, PTL
<1>5. Facts!Spec => []Facts!TrailIsLegal
      BY Premises, Facts!TrailsAreLegal, PTL
<1>6. Facts!Spec => []Facts!StatusIsAudited
      BY Premises, Facts!StatusesAreAudited, PTL
<1>7. Facts!Spec => []Facts!CompletedWasConfirmed
      BY Premises, Facts!ConfirmationIsNeverSkipped, PTL
<1>8. Facts!Spec => Facts!TerminalSettles BY Premises, Facts!EndsAreFinal, PTL
<1>9. Facts!Spec => Facts!ConflictIsJustified
      BY Premises, Facts!ConflictsAreJustified, PTL
<1>10. Facts!Spec => Facts!ImplementsReservation BY Premises, Facts!Refinement, PTL
<1> QED BY <1>1, <1>2, <1>3, <1>4, <1>5, <1>6, <1>7, <1>8, <1>9, <1>10, SameBookings,
           SameSafety, SameActions, SameReservation, PlatformImplementsBookings, PTL
       DEF ImplementsBookings, Booking!Spec, Facts!Spec

-----------------------------------------------------------------------------
(* Withdrawn listings *)

\* What a request r with record c counts on, given the bookings B: its own booking
\* appears with its last step, the one it updates is there, for the same listing.
Works(c, r, B) ==
    /\ B[r] # Null => c.pc = "done"
    /\ c.pc \in Booking!InFlightPcs =>
         /\ c.op \in {"create", "update"} /\ c.id \in Requests /\ c.row \in Booking!Row
         /\ c.op = "create" => c.id = r
         /\ c.op = "update" => B[c.id] # Null /\ c.row.service = B[c.id].service

WorkInv ==
    /\ bookings \in [Requests -> Booking!Row \cup {Null}]
    /\ req \in [Requests -> Booking!Request]
    /\ \A r \in Requests : Works(req[r], r, bookings)

PlatformInv == CatalogInv /\ WorkInv

\* What r becomes in a step: sound, about to book a listing only if it was before
\* or has just found it listed.
Moves(r, next) ==
    /\ next \in Booking!Request /\ Works(next, r, bookings)
    /\ req' = [req EXCEPT ![r] = next]
    /\ next.pc \in Booking!InFlightPcs /\ next.op = "create" =>
         \/ BookingOf(r, next.row.service)
         \/ ~IsArchived(next.row.service)

LEMMA DonePc == "done" \notin Booking!InFlightPcs /\ "new" \notin Booking!InFlightPcs
BY DEF Booking!InFlightPcs

LEMMA DoneRecord ==
    ASSUME NEW op, op \in {"create", "update", "none"}, NEW a, a \in Booking!Answers
    PROVE  Booking!Done(op, a) \in Booking!Request /\ Booking!Done(op, a).pc = "done"
BY DEF Booking!Done, Booking!Request

LEMMA DoneMoves ==
    ASSUME WorkInv, NEW r \in Requests, NEW op, op \in {"create", "update", "none"},
           NEW a, a \in Booking!Answers, req' = [req EXCEPT ![r] = Booking!Done(op, a)]
    PROVE  \E next : Moves(r, next)
<1> DEFINE next == Booking!Done(op, a)
<1>1. next \in Booking!Request /\ next.pc = "done"
  BY DoneRecord
<1> HIDE DEF next
<1>2. Works(next, r, bookings)
  BY <1>1, DonePc DEF Works
<1>3. req' = [req EXCEPT ![r] = next]
  BY DEF next
<1> QED BY <1>1, <1>2, <1>3, DonePc DEF Moves

LEMMA InitWork == PlatformInit => WorkInv
<1> SUFFICES ASSUME PlatformInit PROVE WorkInv
  OBVIOUS
<1>1. Booking!Idle \in Booking!Request /\ Booking!Idle.pc = "new"
  BY DEF Booking!Idle, Booking!Request
<1> QED BY <1>1, DonePc DEF PlatformInit, WorkInv, Works

LEMMA CreateMoves ==
    ASSUME WorkInv, NEW r \in Requests, NEW s \in Edits, NEW t \in Slots, NEW c \in Callers,
           NEW k \in Keys \cup {Null}, NEW f \in BOOLEAN, Booking!Create(r, s, t, c, k, f)
    PROVE  \E next : Moves(r, next)
<1> DEFINE row == [service |-> s, slot |-> t, client |-> c, status |-> "PENDING", key |-> k]
<1> DEFINE next == [op |-> "create", pc |-> "check", by |-> c, id |-> r, row |-> row,
                    old |-> Null, answer |-> Null]
<1> DEFINE v == Booking!CreationVerdict(Offers[s], f)
<1>1. /\ v \in {"ok", "notFound", "invalid"}
      /\ v = "ok" => ~IsArchived(s)
  BY DEF Booking!CreationVerdict, Offers, Offer, IsArchived
<1>2. /\ req' = [req EXCEPT ![r] = IF v # "ok" THEN Booking!Done("create", v) ELSE next]
      /\ req[r] = Booking!Idle
  BY DEF Booking!Create
<1> HIDE DEF v
<1>3. CASE v # "ok"
  <2>1. v \in Booking!Answers
    BY <1>1 DEF Booking!Answers
  <2> QED BY <1>2, <1>3, <2>1, DoneMoves
<1>4. CASE v = "ok"
  <2>1. row \in Booking!Row /\ row.service = s
    BY PlatformAssumption DEF Booking!Row, Booking!Statuses
  <2>2. bookings[r] = Null
    BY <1>2 DEF WorkInv, Works, Booking!Idle
  <2> HIDE DEF row
  <2>3. next \in Booking!Request /\ next.pc = "check" /\ next.op = "create" /\ next.id = r
        /\ next.row = row
    BY <2>1, PlatformAssumption DEF Booking!Request, Booking!InFlightPcs, Booking!Users
  <2>4. req' = [req EXCEPT ![r] = next]
    BY <1>2, <1>4
  <2> HIDE DEF next
  <2>5. Works(next, r, bookings)
    BY <2>1, <2>2, <2>3 DEF Works
  <2> QED BY <1>1, <1>4, <2>1, <2>3, <2>4, <2>5 DEF Moves
<1> QED BY <1>3, <1>4

LEMMA UpdateMoves ==
    ASSUME WorkInv, NEW r \in Requests, NEW b \in Requests, NEW to \in Booking!Statuses,
           NEW u \in Booking!Users, Booking!UpdateStatus(r, b, to, u)
    PROVE  \E next : Moves(r, next)
<1> DEFINE vendor == Booking!JoinedVendor(bookings[b])
<1> DEFINE v == Booking!TransitionVerdict(bookings[b], vendor, to, u)
<1> DEFINE row == [bookings[b] EXCEPT !.status = to]
<1> DEFINE p == IF vendor = Null THEN "orphan" ELSE "reload"
<1> DEFINE next == [op |-> "update", by |-> u, id |-> b, pc |-> p, row |-> row,
                    old |-> bookings[b].status, answer |-> Null]
<1>1. /\ v \in {"ok", "unchanged", "notFound", "invalid", "forbidden", "conflict"}
      /\ v = "ok" => bookings[b] # Null
  BY DEF Booking!TransitionVerdict
<1>2. /\ req' = [req EXCEPT ![r] = IF v # "ok" THEN Booking!Done("update", v) ELSE next]
      /\ req[r] = Booking!Idle
  BY DEF Booking!UpdateStatus
<1> HIDE DEF v, vendor
<1>3. CASE v # "ok"
  <2>1. v \in Booking!Answers
    BY <1>1 DEF Booking!Answers
  <2> QED BY <1>2, <1>3, <2>1, DoneMoves
<1>4. CASE v = "ok"
  <2>1. bookings[b] # Null /\ bookings[b] \in Booking!Row
    BY <1>1, <1>4 DEF WorkInv
  <2>2. row \in Booking!Row /\ row.service = bookings[b].service
        /\ bookings[b].status \in Booking!Statuses
    BY <2>1 DEF Booking!Row
  <2>3. bookings[r] = Null
    BY <1>2 DEF WorkInv, Works, Booking!Idle
  <2>4. p \in {"orphan", "reload"}
    OBVIOUS
  <2> HIDE DEF row, p
  <2>5. next \in Booking!Request /\ next.pc = p /\ next.op = "update" /\ next.id = b
        /\ next.row = row
    BY <2>2, <2>4 DEF Booking!Request, Booking!InFlightPcs
  <2>6. req' = [req EXCEPT ![r] = next]
    BY <1>2, <1>4
  <2> HIDE DEF next
  <2>7. Works(next, r, bookings)
    BY <2>1, <2>2, <2>3, <2>4, <2>5, DonePc DEF Works, Booking!InFlightPcs
  <2> QED BY <2>5, <2>6, <2>7 DEF Moves
<1> QED BY <1>3, <1>4

\* A request in flight takes its next step, and no booking changes.
LEMMA PcMoves ==
    ASSUME WorkInv, NEW r \in Requests, Booking!InFlight(r),
           NEW p, p \in Booking!InFlightPcs, req' = [req EXCEPT ![r].pc = p]
    PROVE  \E next : Moves(r, next)
<1> DEFINE next == [req[r] EXCEPT !.pc = p]
<1>1. req[r] \in Booking!Request /\ Works(req[r], r, bookings)
  BY DEF WorkInv
<1>2. req' = [req EXCEPT ![r] = next]
  BY DEF WorkInv
<1>3. next \in Booking!Request /\ next.pc = p /\ next.op = req[r].op /\ next.id = req[r].id
      /\ next.row = req[r].row
  BY <1>1 DEF Booking!Request
<1> HIDE DEF next
<1>4. Works(next, r, bookings)
  BY <1>1, <1>3, DonePc DEF Works, Booking!InFlight
<1> QED BY <1>2, <1>3, <1>4 DEF Moves, BookingOf

\* A request that goes on while no booking changes keeps the invariant.
LEMMA MovedWork ==
    ASSUME WorkInv, NEW r \in Requests, NEW next, Moves(r, next), UNCHANGED bookings
    PROVE  WorkInv'
<1>1. \A q \in Requests : req'[q] = IF q = r THEN next ELSE req[q]
  BY DEF WorkInv, Moves
<1>2. \A q \in Requests : Works(req'[q], q, bookings')
  BY <1>1 DEF WorkInv, Moves, Works
<1> QED BY <1>2 DEF WorkInv, Moves

\* What a commit does: the booking of the request becomes a row, of the listing
\* the request is at work on, which it was of before if it was there.
LEMMA CommitEffect ==
    ASSUME WorkInv, NEW r \in Requests, NEW a, a \in {"ok", "lost"}, Booking!Commit(r, a)
    PROVE  LET c == req[r]
           IN  /\ Booking!InFlight(r) /\ c.id \in Requests
               /\ bookings' \in [Requests -> Booking!Row \cup {Null}]
               /\ \A b \in Requests : b # c.id => bookings'[b] = bookings[b]
               /\ bookings[c.id] # Null => /\ bookings'[c.id] # Null
                                          /\ bookings[c.id].service = c.row.service
               /\ bookings'[c.id] # Null => bookings'[c.id].service = c.row.service
               /\ c.id = r \/ bookings[c.id] # Null
               /\ c.op = "create" \/ bookings[c.id] # Null
<1> DEFINE c == req[r]
<1> DEFINE row == Booking!Written(r)
<1>1. /\ c.pc \in {"written", "log"}
      /\ bookings' = IF c.pc = "log" THEN bookings ELSE [bookings EXCEPT ![c.id] = row]
  BY DEF Booking!Commit
<1>2. c.pc \in Booking!InFlightPcs /\ c.pc # "done" /\ Works(c, r, bookings)
  BY <1>1 DEF WorkInv, Booking!InFlightPcs
<1>3. /\ c.id \in Requests /\ c.row \in Booking!Row /\ c.op \in {"create", "update"}
      /\ c.op = "create" => c.id = r /\ bookings[r] = Null
      /\ c.op = "update" => bookings[c.id] # Null /\ c.row.service = bookings[c.id].service
  BY <1>2 DEF Works
<1>4. row \in Booking!Row /\ row.service = c.row.service
  <2>1. CASE c.op = "create"
    BY <1>3, <2>1 DEF Booking!Written
  <2>2. CASE c.op = "update"
    <3>1. bookings[c.id] \in Booking!Row
      BY <1>3, <2>2 DEF WorkInv
    <3>2. row = [bookings[c.id] EXCEPT !.status = c.row.status]
      BY <2>2 DEF Booking!Written
    <3> QED BY <1>3, <2>2, <3>1, <3>2 DEF Booking!Row
  <2> QED BY <1>3, <2>1, <2>2
<1> HIDE DEF row
<1>5. row # Null
  BY <1>4, PlatformAssumption
<1>6. bookings' \in [Requests -> Booking!Row \cup {Null}]
  BY <1>1, <1>3, <1>4 DEF WorkInv
<1>7. \A b \in Requests : b # c.id => bookings'[b] = bookings[b]
  BY <1>1, <1>3 DEF WorkInv
<1>8. bookings'[c.id] = IF c.pc = "log" THEN bookings[c.id] ELSE row
  BY <1>1, <1>3 DEF WorkInv
<1> QED BY <1>1, <1>2, <1>3, <1>4, <1>5, <1>6, <1>7, <1>8 DEF Booking!InFlight

LEMMA CommitWork ==
    ASSUME WorkInv, NEW r \in Requests, NEW a, a \in {"ok", "lost"}, Booking!Commit(r, a)
    PROVE  WorkInv'
<1> DEFINE c == req[r]
<1> DEFINE next == Booking!Done(c.op, a)
<1>1. req' = [req EXCEPT ![r] = next]
  BY DEF Booking!Commit
<1>2. next \in Booking!Request /\ next.pc = "done"
  <2>1. c.op \in {"none", "create", "update"}
    BY DEF WorkInv, Booking!Request
  <2>2. a \in Booking!Answers
    BY DEF Booking!Answers
  <2> QED BY <2>1, <2>2, DoneRecord
<1> HIDE DEF next, c
<1>3. /\ c.id \in Requests
      /\ bookings' \in [Requests -> Booking!Row \cup {Null}]
      /\ \A b \in Requests : b # c.id => bookings'[b] = bookings[b]
      /\ bookings[c.id] # Null => /\ bookings'[c.id] # Null
                                 /\ bookings'[c.id].service = bookings[c.id].service
      /\ c.id = r \/ bookings[c.id] # Null
  BY CommitEffect DEF c
<1>4. \A q \in Requests : req'[q] = IF q = r THEN next ELSE req[q]
  BY <1>1 DEF WorkInv
<1>5. ASSUME NEW q \in Requests PROVE Works(req'[q], q, bookings')
  <2>1. CASE q = r
    BY <1>2, <1>4, <2>1, DonePc DEF Works
  <2>2. CASE q # r
    <3>1. req'[q] = req[q] /\ Works(req[q], q, bookings)
      BY <1>4, <2>2 DEF WorkInv
    <3>2. bookings'[q] # Null => bookings[q] # Null
      BY <1>3, <2>2
    <3>3. \A b \in Requests : bookings[b] # Null =>
             bookings'[b] # Null /\ bookings'[b].service = bookings[b].service
      BY <1>3
    <3> QED BY <3>1, <3>2, <3>3 DEF Works
  <2> QED BY <2>1, <2>2
<1> QED BY <1>1, <1>2, <1>3, <1>5 DEF WorkInv

\* A step of the bookings is a commit or moves a request on.
LEMMA BookingSteps ==
    ASSUME WorkInv, BookingStep
    PROVE  \/ \E r \in Requests, a \in {"ok", "lost"} : Booking!Commit(r, a)
           \/ /\ UNCHANGED bookings
              /\ \E r \in Requests : \E next : Moves(r, next)
<1>1. PICK r \in Requests : Booking!Arrival(r) \/ Booking!Progress(r) \/ Booking!Mishap(r)
  BY DEF BookingStep, Booking!RequestNext
<1>2. CASE Booking!Arrival(r)
  <2>1. CASE \E s \in Edits, t \in Slots, c \in Callers, k \in Keys \cup {Null}, f \in BOOLEAN :
               Booking!Create(r, s, t, c, k, f)
    <3>1. PICK s \in Edits, t \in Slots, c \in Callers, k \in Keys \cup {Null}, f \in BOOLEAN :
            Booking!Create(r, s, t, c, k, f)
      BY <2>1
    <3>2. \E next : Moves(r, next)
      BY <3>1, CreateMoves
    <3>3. UNCHANGED bookings
      BY <3>1 DEF Booking!Create
    <3> QED BY <3>2, <3>3
  <2>2. CASE \E b \in Requests, to \in Booking!Statuses, u \in Booking!Users :
               Booking!UpdateStatus(r, b, to, u)
    BY <2>2, UpdateMoves DEF Booking!UpdateStatus
  <2> QED BY <1>2, <2>1, <2>2 DEF Booking!Arrival
<1>3. CASE \/ Booking!CheckDuplicate(r) \/ Booking!InsertRow(r) \/ Booking!FinishInsert(r)
           \/ Booking!Reload(r) \/ Booking!UpdateRow(r) \/ Booking!FinishUpdate(r)
  <2>1. /\ req[r].pc \in {"check", "insert", "entered", "reload", "update", "locked"}
        /\ UNCHANGED bookings
    BY <1>3 DEF Booking!CheckDuplicate, Booking!InsertRow, Booking!FinishInsert, Booking!Reload,
                Booking!UpdateRow, Booking!FinishUpdate
  <2>2. Booking!InFlight(r)
    BY <2>1 DEF Booking!InFlight, Booking!InFlightPcs
  <2>3. \/ \E p \in {"insert", "entered", "written", "log", "update", "locked"} :
             req' = [req EXCEPT ![r].pc = p]
        \/ req' = [req EXCEPT ![r] = Booking!Done("create", "conflict")]
    BY <1>3 DEF Booking!CheckDuplicate, Booking!InsertRow, Booking!FinishInsert, Booking!Reload,
                Booking!UpdateRow, Booking!FinishUpdate
  <2>4. /\ {"insert", "entered", "written", "log", "update", "locked"} \subseteq Booking!InFlightPcs
        /\ "conflict" \in Booking!Answers
    BY DEF Booking!InFlightPcs, Booking!Answers
  <2> QED BY <2>1, <2>2, <2>3, <2>4, PcMoves, DoneMoves
<1>4. CASE Booking!RejectKey(r) \/ Booking!RejectSlot(r) \/ Booking!RejectOrphan(r)
           \/ Booking!RejectUpdate(r) \/ Booking!Abort(r)
  <2>1. req[r].op \in {"create", "update", "none"} /\ {"conflict", "error", "lost"} \subseteq Booking!Answers
    BY DEF WorkInv, Booking!Request, Booking!Answers
  <2>2. /\ UNCHANGED bookings
        /\ \E op \in {"create", "update", req[r].op}, a \in {"conflict", "error", "lost"} :
             req' = [req EXCEPT ![r] = Booking!Done(op, a)]
    BY <1>4 DEF Booking!RejectKey, Booking!RejectSlot, Booking!RejectOrphan, Booking!RejectUpdate,
                Booking!Abort
  <2> QED BY <2>1, <2>2, DoneMoves
<1>5. CASE Booking!Commit(r, "ok") \/ Booking!Commit(r, "lost")
  BY <1>5
<1> QED BY <1>1, <1>2, <1>3, <1>4, <1>5 DEF Booking!Progress, Booking!Mishap

LEMMA NextPlatform == PlatformInv /\ [PlatformNext]_platformVars => PlatformInv'
<1> SUFFICES ASSUME PlatformInv, [PlatformNext]_platformVars PROVE PlatformInv'
  OBVIOUS
<1>1. CatalogInv'
  BY PlatformKeeps DEF PlatformInv
<1>2. CASE BookingStep
  BY <1>1, <1>2, BookingSteps, MovedWork, CommitWork DEF PlatformInv
<1>3. CASE CatalogStep \/ UNCHANGED platformVars
  <2>1. UNCHANGED <<bookings, req>>
    BY <1>3 DEF CatalogStep, platformVars
  <2> QED BY <1>1, <2>1 DEF PlatformInv, WorkInv, Works
<1> QED BY <1>2, <1>3 DEF PlatformNext

\* The step of a request when a listing is withdrawn: it is not about to book it.
LEMMA WithdrawnMove ==
    ASSUME PlatformInv, NEW s \in Edits, Withdrawn(s), NEW r \in Requests, NEW next,
           Moves(r, next), UNCHANGED catalogVars
    PROVE  Withdrawn(s)'
<1>1. \A q \in Requests : req'[q] = IF q = r THEN next ELSE req[q]
  BY DEF PlatformInv, WorkInv, Moves
<1>2. ~BookingOf(r, s)'
  BY <1>1 DEF BookingOf, Moves, Withdrawn, Booking!InFlight
<1>3. \A q \in Requests : ~BookingOf(q, s)'
  BY <1>1, <1>2 DEF BookingOf, Withdrawn, Booking!InFlight
<1> QED BY <1>3 DEF Withdrawn, IsArchived, Untouched, Editing, catalogVars

\* A commit books no withdrawn listing: a create in flight is for another one, and
\* an update leaves a booking with its listing.
LEMMA WithdrawnCommit ==
    ASSUME PlatformInv, NEW s \in Edits, Withdrawn(s), NEW r \in Requests,
           NEW a, a \in {"ok", "lost"}, Booking!Commit(r, a), UNCHANGED catalogVars
    PROVE  Withdrawn(s)' /\ BookedOn(s)' = BookedOn(s)
<1>1. req' = [req EXCEPT ![r] = Booking!Done(req[r].op, a)]
  BY DEF Booking!Commit
<1>2. Booking!Done(req[r].op, a).pc = "done"
  BY DEF Booking!Done
<1>3. \A q \in Requests : ~BookingOf(q, s)'
  BY <1>1, <1>2, DonePc DEF PlatformInv, WorkInv, BookingOf, Withdrawn, Booking!InFlight
<1>4. Withdrawn(s)'
  BY <1>3 DEF Withdrawn, IsArchived, Untouched, Editing, catalogVars
<1> DEFINE c == req[r]
<1>5. /\ Booking!InFlight(r) /\ c.id \in Requests
      /\ \A b \in Requests : b # c.id => bookings'[b] = bookings[b]
      /\ bookings[c.id] # Null => /\ bookings'[c.id] # Null
                                 /\ bookings[c.id].service = c.row.service
      /\ bookings'[c.id] # Null => bookings'[c.id].service = c.row.service
      /\ c.op = "create" \/ bookings[c.id] # Null
  BY CommitEffect DEF PlatformInv
<1>6. c.op = "create" => c.row.service # s
  BY <1>5 DEF Withdrawn, BookingOf
<1> HIDE DEF c
<1>7. c.id \in BookedOn(s)' <=> c.id \in BookedOn(s)
  BY <1>5, <1>6 DEF BookedOn
<1>8. \A b \in Requests : b \in BookedOn(s)' <=> b \in BookedOn(s)
  BY <1>5, <1>7 DEF BookedOn
<1>9. BookedOn(s)' = BookedOn(s)
  BY <1>8 DEF BookedOn
<1> QED BY <1>4, <1>9

\* Once a listing is archived and the edits and creates that found it before have
\* ended, no booking is ever made of it again.
THEOREM WithdrawnUnbooked == PlatformSpec => WithdrawnTakesNoBooking
<1>1. PlatformInit => PlatformInv
  BY InitSound, InitWork DEF PlatformInit, PlatformInv
<1>2. ASSUME PlatformInv, [PlatformNext]_platformVars, NEW s \in Edits, Withdrawn(s)
      PROVE  Withdrawn(s)' /\ BookedOn(s)' = BookedOn(s)
  <2>1. CASE UNCHANGED <<bookings, audit, req>> /\ [CatalogNext]_catalogVars
    <3>1. listings'[s] = listings[s] /\ Untouched(s)'
      BY <1>2, <2>1, ArchiveStep DEF PlatformInv, Withdrawn
    <3>2. Withdrawn(s)'
      BY <1>2, <2>1, <3>1 DEF Withdrawn, IsArchived, BookingOf, Booking!InFlight
    <3>3. BookedOn(s)' = BookedOn(s)
      BY <2>1 DEF BookedOn
    <3> QED BY <3>2, <3>3
  <2>2. CASE BookingStep
    <3>1. UNCHANGED catalogVars
      BY <2>2 DEF BookingStep
    <3>2. CASE \E r \in Requests, a \in {"ok", "lost"} : Booking!Commit(r, a)
      BY <1>2, <3>1, <3>2, WithdrawnCommit
    <3>3. CASE /\ UNCHANGED bookings
               /\ \E r \in Requests : \E next : Moves(r, next)
      <4>1. Withdrawn(s)'
        BY <1>2, <3>1, <3>3, WithdrawnMove
      <4>2. BookedOn(s)' = BookedOn(s)
        BY <3>3 DEF BookedOn
      <4> QED BY <4>1, <4>2
    <3> QED BY <1>2, <2>2, <3>2, <3>3, BookingSteps DEF PlatformInv
  <2> QED BY <1>2, <2>1, <2>2 DEF PlatformNext, CatalogStep, platformVars, catalogVars
<1>3. PlatformInv /\ [PlatformNext]_platformVars =>
        [\A s \in Edits : Withdrawn(s) => Withdrawn(s)' /\ BookedOn(s)' = BookedOn(s)
        ]_platformVars
  BY <1>2
<1> QED BY <1>1, <1>3, NextPlatform, PTL DEF PlatformSpec, WithdrawnTakesNoBooking
===============================================================================
