-------------------------------- MODULE Browsing --------------------------------
(***************************************************************************)
(* GET /bookings and GET /services: findAll of both services over          *)
(* findWithFilters of both repositories, page by page, while the table     *)
(* changes.  A page is three statements of TypeORM's getManyAndCount, each *)
(* of which sees what is committed when it runs: the ids of the page, the  *)
(* rows of these ids, the total.                                           *)
(*                                                                         *)
(* A row is known by its place in the order of the columns that never      *)
(* change (createdAt, and a booking's date, time and price, ties broken by *)
(* the primary key), so a new row may appear at any place: createdAt is    *)
(* the time its transaction began.  All columns that do change (a booking's*)
(* status; activity, category, price and texts of a listing) are one,      *)
(* `value'.  Only listings are archived.                                   *)
(***************************************************************************)
EXTENDS BookingRules, Naturals, FiniteSets

CONSTANTS Rows,    \* places in the order of a fixed column
          Values,  \* values of the changing column, in their sort order
          Limits   \* page sizes

ASSUME BrowsingAssumption ==
    /\ Rows \subseteq Nat /\ IsFiniteSet(Rows)
    /\ Values \subseteq Nat
    /\ Limits \subseteq 1..100
    /\ Null \notin Values

VARIABLES of,      \* the table and its route: "bookings" or "services"
          rows,    \* rows[i]: the committed row, or Null
          query,   \* the query the reader pages through, Null before it asks
          reader   \* the page in hand, and what the reader has been shown

browsingVars == <<of, rows, query, reader>>

BrowsedRow == IF of = "bookings"
              THEN [client : Clients \cup {Null}, value : Values, archived : {FALSE}]
              ELSE [client : {Null}, value : Values, archived : BOOLEAN]

\* by is the user of the request; client and value are filters, and client
\* stands for the filters on every other column of a booking that never changes.
\* The field sorted by is one that never changes, one that may, or unknown.
Query == [by : Users \cup {Null}, client : Clients \cup {Null},
          value : Values \cup {Null}, sort : {"fixed", "changing"},
          order : {"ASC", "DESC"}, limit : Limits]

ASSUME BrowsingNullAssumption ==
    /\ Null \notin Query
    /\ Null \notin [client : Clients \cup {Null}, value : Values, archived : BOOLEAN]

\* present are the rows that matched when the first page was asked for, left is
\* TRUE when a row has ceased to match since.
Reader == [pc : {"new", "ids", "entities", "count", "shown", "done", "failed"},
           page : Nat, ids : SUBSET Rows, data : SUBSET Rows,
           seen : SUBSET Rows, present : SUBSET Rows, left : BOOLEAN]

NewReader == [pc |-> "new", page |-> 0, ids |-> {}, data |-> {},
              seen |-> {}, present |-> {}, left |-> FALSE]

-----------------------------------------------------------------------------
(* The query builder *)

\* The WHERE of findWithFilters; deleted_at IS NULL is TypeORM's.
Matches(q, row) ==
    /\ row # Null
    /\ ~row.archived
    /\ q.value # Null => row.value = q.value
    /\ q.client # Null => row.client = q.client

Matching(q, table) == {i \in Rows : Matches(q, table[i])}

\* Sort columns are whitelisted, any other is createdAt.
ResolvedSortField(sort) == IF sort = "changing" THEN "changing" ELSE "fixed"

\* ORDER BY the field, then by the primary key.
Precedes(i, j) ==
    LET Key(k) == IF query.sort = "fixed" THEN k ELSE rows[k].value
    IN  \/ /\ Key(i) # Key(j)
           /\ IF query.order = "ASC" THEN Key(i) < Key(j) ELSE Key(j) < Key(i)
        \/ Key(i) = Key(j) /\ i < j

Position(i) == Cardinality({j \in Matching(query, rows) : Precedes(j, i)})

\* Faulty variants: pages counted from 0, and one row more to look ahead.
SkipFromZero(page) == page * query.limit
TakeAhead(page) == query.limit + 1

Skip(page) == (page - 1) * query.limit
Take(page) == query.limit

PageIds(page) == {i \in Matching(query, rows) :
                    Position(i) \in Skip(page) .. (Skip(page) + Take(page) - 1)}

-----------------------------------------------------------------------------
BrowsingInit ==
    /\ of \in {"bookings", "services"}
    /\ rows = [i \in Rows |-> Null]
    /\ query = Null
    /\ reader = NewReader

Ask(q) ==
    /\ reader.pc = "new"
    /\ query' = q
    /\ reader' = [reader EXCEPT !.pc = "ids", !.page = 1, !.present = Matching(q, rows)]
    /\ UNCHANGED <<of, rows>>

\* Faulty variant: clientId ?? userId, a default instead of a restriction.
EnforcedClientAsked(u, client) == IF client = Null /\ u \in Clients THEN u ELSE client

\* BookingsService.findAll: a client's clientId is overwritten with his own.
EnforcedClient(u, client) == IF u \in Clients THEN u ELSE client

AskBookings(u, client, value, sort, order, limit) ==
    /\ of = "bookings"
    /\ Ask([by |-> u, client |-> EnforcedClient(u, client), value |-> value,
            sort |-> ResolvedSortField(sort), order |-> order, limit |-> limit])

\* The catalogue is public and its listings have no client.
AskListings(value, sort, order, limit) ==
    /\ of = "services"
    /\ Ask([by |-> Null, client |-> Null, value |-> value,
            sort |-> ResolvedSortField(sort), order |-> order, limit |-> limit])

\* getManyAndCount, first statement: the distinct ids of the page.
SelectIds ==
    /\ reader.pc = "ids"
    /\ reader' = [reader EXCEPT !.pc = "entities", !.ids = PageIds(reader.page)]
    /\ UNCHANGED <<of, rows, query>>

\* Second: the rows of these ids, under the same WHERE.
SelectEntities ==
    /\ reader.pc = "entities"
    /\ reader' = [reader EXCEPT !.pc = "count",
                                !.data = reader.ids \cap Matching(query, rows)]
    /\ UNCHANGED <<of, rows, query>>

\* Third: the count, or none when a page that is not full shows the total itself.
Totals ==
    LET shown == Cardinality(reader.data)
    IN  {Cardinality(Matching(query, rows))} \cup
        {n \in {Skip(reader.page) + shown} :
            shown < query.limit /\ (shown > 0 \/ Skip(reader.page) = 0)}

\* The answer.  A reader who wants everything turns the page while its last
\* row, page * limit, lies before the total.
ShowPage ==
    /\ reader.pc = "count"
    /\ \E total \in Totals :
         reader' = [reader EXCEPT
           !.pc = IF reader.page * query.limit < total THEN "shown" ELSE "done",
           !.seen = @ \cup reader.data, !.ids = {}, !.data = {}]
    /\ UNCHANGED <<of, rows, query>>

TurnPage ==
    /\ reader.pc = "shown"
    /\ reader' = [reader EXCEPT !.pc = "ids", !.page = @ + 1]
    /\ UNCHANGED <<of, rows, query>>

\* A query fails: findAll catches nothing.
FailPage ==
    /\ reader.pc \in {"ids", "entities", "count"}
    /\ reader' = [NewReader EXCEPT !.pc = "failed"]
    /\ UNCHANGED <<of, rows, query>>

-----------------------------------------------------------------------------
(* The table, as the writers of Bookings and Catalog change it *)

\* Row i becomes row; what the reader has asked for may lose it.
Write(i, row) ==
    /\ rows' = [rows EXCEPT ![i] = row]
    /\ reader' = [reader EXCEPT
         !.left = \/ @
                  \/ /\ reader.pc \notin {"new", "failed"}
                     /\ Matches(query, rows[i]) /\ ~Matches(query, row)]
    /\ UNCHANGED <<of, query>>

InsertedRow(i, row) ==
    /\ rows[i] = Null /\ ~row.archived
    /\ Write(i, row)

ChangedRow(i, value) ==
    /\ rows[i] # Null
    /\ Write(i, [rows[i] EXCEPT !.value = value])

\* remove archives a listing, and a stale update may bring it back (see Catalog).
ArchivedRow(i) ==
    /\ of = "services" /\ rows[i] # Null
    /\ Write(i, [rows[i] EXCEPT !.archived = ~@])

WriterStep == \E i \in Rows :
    \/ \E row \in BrowsedRow : InsertedRow(i, row)
    \/ \E value \in Values : ChangedRow(i, value)
    \/ ArchivedRow(i)

ReaderStep ==
    \/ \E value \in Values \cup {Null}, sort \in {"fixed", "changing", "unknown"},
          order \in {"ASC", "DESC"}, limit \in Limits :
         \/ AskListings(value, sort, order, limit)
         \/ \E u \in Users, client \in Clients \cup {Null} :
              AskBookings(u, client, value, sort, order, limit)
    \/ SelectIds \/ SelectEntities \/ ShowPage \/ TurnPage \/ FailPage

BrowsingNext == ReaderStep \/ WriterStep

BrowsingSpec == BrowsingInit /\ [][BrowsingNext]_browsingVars
-----------------------------------------------------------------------------
\* Every variable has its type, a page is no longer than its limit and shows
\* rows of its ids only (findWithFilters of both repositories).
BrowsingTypeOK ==
    /\ of \in {"bookings", "services"}
    /\ rows \in [Rows -> BrowsedRow \cup {Null}]
    /\ query \in Query \cup {Null}
    /\ reader \in Reader
    /\ reader.data \subseteq reader.ids
    /\ query # Null => Cardinality(reader.ids) <= query.limit

\* A listing in the order of a column that never changes, from which no row has
\* dropped out, misses nothing: whoever turns the pages while page * limit lies
\* below the total has seen every row that matched at the beginning, wherever new
\* rows have pushed it.  No booking drops out of a query without a status.
NothingMissed ==
    /\ reader.pc = "done" /\ query.sort = "fixed" /\ ~reader.left =>
         reader.present \subseteq reader.seen
    /\ of = "bookings" /\ query # Null /\ query.value = Null => ~reader.left

\* Whatever filter a client asks with and whatever happens between the statements
\* of a page, he is listed bookings only that validateBookingView lets him open.
ClientsListTheirOwn ==
    query # Null /\ query.by \in Clients =>
        \A i \in reader.seen : ViewVerdict(rows[i], Null, query.by) = "ok"
===============================================================================
