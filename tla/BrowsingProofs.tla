---------------------------- MODULE BrowsingProofs ----------------------------
(***************************************************************************)
(* What holds of Browsing for every table, page size and query: its types, *)
(* whose bookings a client is shown, and that turning the pages of a list  *)
(* in a fixed order misses none of the rows that stay in it.               *)
(***************************************************************************)
EXTENDS Browsing, FiniteSetTheorems, TLAPS

\* A reader holds nothing before he asks and when he has failed, a page between
\* its first statement and its answer; a client asks for his own.
ReaderOK ==
    /\ query = Null <=> reader.pc = "new"
    /\ reader.pc \in {"new", "failed"} => reader = [NewReader EXCEPT !.pc = reader.pc]
    /\ reader.pc \notin {"entities", "count"} => reader.ids = {}
    /\ query # Null /\ query.by \in Clients => query.client = query.by

\* The client of a row never changes.
OwnOK ==
    query # Null /\ query.by \in Clients =>
        \A i \in reader.data \cup reader.seen :
            rows[i] # Null /\ rows[i].client = query.by

\* As long as no row has left, those that matched at the beginning still do.
\* A booking leaves a query by its status only.
PresentOK ==
    /\ query # Null /\ ~reader.left => reader.present \subseteq Matching(query, rows)
    /\ of = "bookings" /\ query # Null /\ query.value = Null => ~reader.left

\* The places of the pages turned so far.
Turned == IF reader.pc = "ids" THEN Skip(reader.page) ELSE reader.page * query.limit

\* A row that has not been shown and is not on the page in hand lies beyond the
\* pages turned so far, so that page is full and there is another one.
TurningOK ==
    query # Null /\ query.sort = "fixed" /\ ~reader.left =>
        /\ reader.ids \subseteq Matching(query, rows)
        /\ reader.pc = "count" => reader.data = reader.ids
        /\ reader.pc = "done" => reader.present \subseteq reader.seen
        /\ reader.pc \in {"ids", "entities", "count", "shown"} =>
             /\ reader.page >= 1
             /\ \A i \in reader.present \ (reader.seen \cup reader.ids) :
                   /\ Position(i) >= Turned
                   /\ reader.pc \in {"entities", "count"} =>
                        Cardinality(reader.ids) = query.limit

BrowsingInv == BrowsingTypeOK /\ ReaderOK /\ OwnOK /\ PresentOK /\ TurningOK

-----------------------------------------------------------------------------
(* The order of a page: each matching row has a position of its own, and no  *)
(* position before that of a row is vacant.                                  *)

\* ORDER BY a field, then by the primary key, is a strict total order.
LEMMA OrderLinear ==
    ASSUME BrowsingTypeOK, query # Null
    PROVE  \A i, j, k \in Matching(query, rows) :
               /\ ~Precedes(i, i)
               /\ Precedes(i, j) /\ Precedes(j, k) => Precedes(i, k)
               /\ i # j => Precedes(i, j) \/ Precedes(j, i)
<1> DEFINE Key(k) == IF query.sort = "fixed" THEN k ELSE rows[k].value
<1>1. \A k \in Matching(query, rows) : k \in Nat /\ Key(k) \in Nat
      BY BrowsingAssumption, BrowsingNullAssumption
      DEF BrowsingTypeOK, Matching, Matches, BrowsedRow
<1>2. \A i, j : Precedes(i, j) <=>
          \/ Key(i) # Key(j) /\ (IF query.order = "ASC" THEN Key(i) < Key(j)
                                                        ELSE Key(j) < Key(i))
          \/ Key(i) = Key(j) /\ i < j
      BY DEF Precedes
<1> HIDE DEF Key
<1> QED BY <1>1, <1>2

LEMMA MatchingFinite ==
    /\ IsFiniteSet(Matching(query, rows))
    /\ Matching(query, rows) \subseteq Rows
<1>1. Matching(query, rows) \in SUBSET Rows BY DEF Matching
<1>2. IsFiniteSet(Rows) BY BrowsingAssumption
<1> QED BY <1>1, <1>2, FS_Subset

Before(i) == {j \in Matching(query, rows) : Precedes(j, i)}

Counts == \A i : /\ IsFiniteSet(Before(i))
                 /\ Position(i) = Cardinality(Before(i))
                 /\ Position(i) \in Nat

LEMMA PositionCounts == Counts
<1> SUFFICES ASSUME NEW i
             PROVE  /\ IsFiniteSet(Before(i))
                    /\ Position(i) = Cardinality(Before(i))
                    /\ Position(i) \in Nat
    BY DEF Counts
<1>1. Before(i) \in SUBSET Matching(query, rows) BY DEF Before
<1>2. IsFiniteSet(Before(i)) BY <1>1, MatchingFinite, FS_Subset
<1>3. Cardinality(Before(i)) \in Nat BY <1>2, FS_CardinalityType
<1> QED BY <1>2, <1>3 DEF Position, Before

LEMMA PositionIsCount ==
    \A i : /\ IsFiniteSet(Before(i))
           /\ Position(i) = Cardinality(Before(i))
           /\ Position(i) \in Nat
BY PositionCounts DEF Counts

LEMMA PositionInOrder ==
    ASSUME BrowsingTypeOK, query # Null,
           NEW i \in Matching(query, rows), NEW j \in Matching(query, rows),
           Precedes(i, j)
    PROVE  Position(i) < Position(j)
<1>1. Before(i) \in SUBSET Before(j) BY OrderLinear DEF Before
<1>2. i \in Before(j) /\ i \notin Before(i) BY OrderLinear DEF Before
<1>3. /\ Cardinality(Before(i)) <= Cardinality(Before(j))
      /\ Cardinality(Before(j)) = Cardinality(Before(i)) => Before(j) = Before(i)
      BY <1>1, PositionIsCount, FS_Subset
<1> QED BY <1>2, <1>3, PositionIsCount

LEMMA PositionsDiffer ==
    ASSUME BrowsingTypeOK, query # Null,
           NEW i \in Matching(query, rows), NEW j \in Matching(query, rows), i # j
    PROVE  Position(i) # Position(j)
<1>1. Precedes(i, j) \/ Precedes(j, i) BY OrderLinear
<1>2. Precedes(i, j) => Position(i) < Position(j) BY PositionInOrder
<1>3. Precedes(j, i) => Position(j) < Position(i) BY PositionInOrder
<1> QED BY <1>1, <1>2, <1>3, PositionIsCount

LEMMA PositionBelowTotal ==
    ASSUME BrowsingTypeOK, query # Null, NEW i \in Matching(query, rows)
    PROVE  Position(i) < Cardinality(Matching(query, rows))
<1>1. Before(i) \in SUBSET Matching(query, rows) BY DEF Before
<1>2. i \notin Before(i) BY OrderLinear DEF Before
<1>3. /\ Cardinality(Before(i)) <= Cardinality(Matching(query, rows))
      /\ Cardinality(Matching(query, rows)) = Cardinality(Before(i)) =>
             Matching(query, rows) = Before(i)
      BY <1>1, MatchingFinite, FS_Subset
<1>4. Cardinality(Matching(query, rows)) \in Nat BY MatchingFinite, FS_CardinalityType
<1> QED BY <1>2, <1>3, <1>4, PositionIsCount

LEMMA IntervalSize ==
    ASSUME NEW m \in Int, NEW n \in Nat
    PROVE  /\ IsFiniteSet(m .. (m + n - 1))
           /\ Cardinality(m .. (m + n - 1)) = n
<1> DEFINE b == m + n - 1
<1>1. b \in Int /\ (IF m > b THEN 0 ELSE b - m + 1) = n OBVIOUS
<1> HIDE DEF b
<1>2. IsFiniteSet(m .. b) /\ Cardinality(m .. b) = n BY <1>1, FS_Interval
<1> QED BY <1>2 DEF b

\* The rows before i take the places 0 .. Position(i) - 1, one each.
LEMMA PositionsFilled ==
    ASSUME BrowsingTypeOK, query # Null,
           NEW i \in Matching(query, rows), NEW n \in Nat, n < Position(i)
    PROVE  \E j \in Matching(query, rows) : Position(j) = n
<1> DEFINE T == 0 .. (0 + Position(i) - 1)
           f == [j \in Before(i) |-> Position(j)]
<1>1. \A j \in Before(i) : j \in Matching(query, rows) /\ Position(j) \in T
  <2> SUFFICES ASSUME NEW j \in Before(i)
               PROVE  j \in Matching(query, rows) /\ Position(j) \in T
      OBVIOUS
  <2>1. j \in Matching(query, rows) /\ Precedes(j, i) BY DEF Before
  <2>2. Position(j) < Position(i) BY <2>1, PositionInOrder
  <2> QED BY <2>1, <2>2, PositionIsCount
<1>2. f \in Injection(Before(i), T)
  <2>1. f \in [Before(i) -> T] BY <1>1
  <2>2. \A j, k \in Before(i) : f[j] = f[k] => j = k BY <1>1, PositionsDiffer
  <2> QED BY <2>1, <2>2 DEF Injection, IsInjective
<1>3. IsFiniteSet(T) /\ Cardinality(T) = Position(i)
  <2>1. 0 \in Int /\ Position(i) \in Nat BY PositionIsCount
  <2> QED BY <2>1, IntervalSize, Zenon
<1>4. f \in Surjection(Before(i), T)
  <2> HIDE DEF f, T
  <2>1. Cardinality(Before(i)) = Cardinality(T) BY <1>3, PositionIsCount
  <2> QED BY <1>2, <1>3, <2>1, FS_Injection
<1>5. n \in T BY PositionIsCount
<1>6. \E j \in Before(i) : f[j] = n BY <1>4, <1>5 DEF Surjection
<1> QED BY <1>6, <1>1

LEMMA QueryLimit ==
    ASSUME BrowsingTypeOK, query # Null, NEW p \in Nat
    PROVE  /\ query.limit \in Nat \ {0}
           /\ Skip(p) \in Int
           /\ p >= 1 => Skip(p) \in Nat
           /\ Skip(p) + query.limit = p * query.limit
           /\ Skip(p + 1) = p * query.limit
<1>1. query.limit \in Limits BY DEF BrowsingTypeOK, Query
<1>2. query.limit \in Nat \ {0}
  <2>1. Limits \subseteq 1 .. 100 BY BrowsingAssumption
  <2>2. query.limit \in 1 .. 100 BY <1>1, <2>1
  <2> QED BY <2>2
<1>3. ASSUME NEW l \in Nat
      PROVE  /\ (p - 1) * l \in Int
             /\ p >= 1 => (p - 1) * l \in Nat
             /\ (p - 1) * l + l = p * l
             /\ (p + 1 - 1) * l = p * l
  <2>1. \A a, b \in Nat : a * b \in Nat OBVIOUS
  <2>2. p >= 1 => p - 1 \in Nat OBVIOUS
  <2> QED BY <2>1, <2>2
<1> QED BY <1>2, <1>3 DEF Skip

\* The rows of a page have the places of that page, one each.
LEMMA PageSize ==
    ASSUME BrowsingTypeOK, query # Null, NEW p \in Nat
    PROVE  /\ PageIds(p) \subseteq Matching(query, rows)
           /\ IsFiniteSet(PageIds(p))
           /\ Cardinality(PageIds(p)) <= query.limit
           /\ p >= 1 => \A i \in Matching(query, rows) :
                 Position(i) >= Skip(p) + query.limit =>
                     Cardinality(PageIds(p)) = query.limit
<1> DEFINE T == Skip(p) .. (Skip(p) + query.limit - 1)
           f == [j \in PageIds(p) |-> Position(j)]
<1>1. \A j : j \in PageIds(p) <=> j \in Matching(query, rows) /\ Position(j) \in T
      BY DEF PageIds, Take
<1>2. f \in Injection(PageIds(p), T)
  <2>1. f \in [PageIds(p) -> T] BY <1>1
  <2>2. \A j, k \in PageIds(p) : f[j] = f[k] => j = k BY <1>1, PositionsDiffer
  <2> QED BY <2>1, <2>2 DEF Injection, IsInjective
<1>3. IsFiniteSet(T) /\ Cardinality(T) = query.limit
      BY QueryLimit, IntervalSize
<1>4. ASSUME p >= 1, NEW i \in Matching(query, rows),
             Position(i) >= Skip(p) + query.limit
      PROVE  f \in Surjection(PageIds(p), T)
  <2>1. ASSUME NEW n \in T PROVE \E j \in PageIds(p) : f[j] = n
    <3>1. Skip(p) \in Nat /\ query.limit \in Nat BY <1>4, QueryLimit
    <3>2. Position(i) \in Nat BY PositionIsCount
    <3>3. n \in Nat /\ n < Position(i) BY <1>4, <3>1, <3>2
    <3>4. PICK j \in Matching(query, rows) : Position(j) = n BY <3>3, PositionsFilled
    <3> QED BY <3>4, <1>1
  <2> QED BY <2>1, <1>2 DEF Surjection, Injection
<1>5. /\ IsFiniteSet(PageIds(p))
      /\ Cardinality(PageIds(p)) <= Cardinality(T)
      /\ Cardinality(PageIds(p)) = Cardinality(T) <=> f \in Surjection(PageIds(p), T)
  <2> HIDE DEF f, T
  <2> QED BY <1>2, <1>3, FS_Injection
<1> HIDE DEF f, T
<1> QED BY <1>1, <1>3, <1>4, <1>5

\* In the order of a column that never changes, new rows only push others back.
LEMMA PositionRises ==
    ASSUME query' = query, query # Null, query.sort = "fixed",
           Matching(query, rows) \subseteq Matching(query, rows)', NEW i
    PROVE  Position(i)' >= Position(i)
<1>1. Before(i) \in SUBSET (Before(i)') BY DEF Before, Precedes
<1>2. Counts' BY PositionCounts, PTL
<1>3. /\ IsFiniteSet(Before(i)')
      /\ Position(i)' = Cardinality(Before(i)')
      /\ Position(i)' \in Nat
      BY <1>2 DEF Counts
<1>4. Cardinality(Before(i)) <= Cardinality(Before(i)') BY <1>1, <1>3, FS_Subset
<1> QED BY <1>3, <1>4, PositionIsCount

-----------------------------------------------------------------------------
(* Each step of a reader or a writer *)

LEMMA EmptySize == Cardinality({}) = 0
BY FS_EmptySet

LEMMA TableUnwritten ==
    ASSUME rows' = rows, query' = query
    PROVE  /\ Matching(query, rows)' = Matching(query, rows)
           /\ \A i : Position(i)' = Position(i)
<1>1. Matching(query, rows)' = Matching(query, rows) BY DEF Matching
<1>2. \A i, j : Precedes(i, j)' <=> Precedes(i, j) BY DEF Precedes
<1> QED BY <1>1, <1>2 DEF Position

LEMMA InitBrowsing == BrowsingInit => BrowsingInv
<1> SUFFICES ASSUME BrowsingInit PROVE BrowsingInv
    OBVIOUS
<1> USE DEF BrowsingInit, NewReader
<1>1. BrowsingTypeOK BY DEF BrowsingTypeOK, Reader
<1>2. ReaderOK /\ OwnOK /\ PresentOK /\ TurningOK
      BY DEF ReaderOK, OwnOK, PresentOK, TurningOK
<1> QED BY <1>1, <1>2 DEF BrowsingInv

LEMMA AskInv ==
    ASSUME BrowsingInv, NEW q \in Query, Ask(q), q.by \in Clients => q.client = q.by
    PROVE  BrowsingInv'
<1>1. query' = q /\ q # Null /\ of' = of /\ rows' = rows
      BY BrowsingNullAssumption DEF Ask
<1>2. reader = NewReader BY DEF BrowsingInv, BrowsingTypeOK, Reader, ReaderOK, NewReader, Ask
<1>3. reader' = [NewReader EXCEPT !.pc = "ids", !.page = 1, !.present = Matching(q, rows)]
      BY <1>2 DEF Ask
<1>4. Matching(q, rows) \subseteq Rows BY DEF Matching
<1>5. BrowsingTypeOK'
  <2>1. reader' \in Reader BY <1>3, <1>4 DEF Reader, NewReader
  <2>2. q.limit \in Limits BY DEF Query
  <2>3. Limits \subseteq 1 .. 100 BY BrowsingAssumption
  <2>4. q.limit \in 1 .. 100 BY <2>2, <2>3
  <2>5. 0 <= q.limit BY <2>4
  <2>6. reader'.ids = {} /\ reader'.data = {} BY <1>3 DEF NewReader
  <2> QED BY <1>1, <2>1, <2>5, <2>6, EmptySize DEF BrowsingInv, BrowsingTypeOK, BrowsedRow
<1>6. ReaderOK' /\ OwnOK' /\ PresentOK'
      BY <1>1, <1>3 DEF ReaderOK, OwnOK, PresentOK, NewReader
<1>7. TurningOK'
  <2>1. \A i : (Position(i) >= Turned)'
    <3>1. q.limit \in Nat
      <4>1. q.limit \in Limits BY DEF Query
      <4>2. Limits \subseteq 1 .. 100 BY BrowsingAssumption
      <4>3. q.limit \in 1 .. 100 BY <4>1, <4>2
      <4> QED BY <4>3
    <3>2. Turned' = (1 - 1) * q.limit BY <1>1, <1>3 DEF Turned, Skip, NewReader
    <3>3. Turned' = 0 BY <3>1, <3>2
    <3>4. Counts' BY PositionCounts, PTL
    <3> QED BY <3>3, <3>4 DEF Counts
  <2> QED BY <1>1, <1>3, <2>1 DEF TurningOK, NewReader
<1> QED BY <1>5, <1>6, <1>7 DEF BrowsingInv

LEMMA SelectIdsInv ==
    ASSUME BrowsingInv, SelectIds
    PROVE  BrowsingInv'
<1>1. /\ of' = of /\ rows' = rows /\ query' = query /\ query # Null
      /\ reader.pc = "ids" /\ reader.ids = {} /\ reader.data = {}
      /\ reader \in Reader /\ reader.page \in Nat
      BY DEF BrowsingInv, BrowsingTypeOK, ReaderOK, SelectIds, Reader
<1>2. reader' = [reader EXCEPT !.pc = "entities", !.ids = PageIds(reader.page)]
      BY DEF SelectIds
<1>3. BrowsingTypeOK BY DEF BrowsingInv
<1>4. /\ PageIds(reader.page) \subseteq Matching(query, rows)
      /\ Matching(query, rows) \subseteq Rows
      /\ Cardinality(PageIds(reader.page)) <= query.limit
      BY <1>1, <1>3, PageSize, MatchingFinite
<1>5. BrowsingTypeOK' BY <1>1, <1>2, <1>3, <1>4 DEF BrowsingTypeOK, BrowsedRow, Reader
<1>6. ReaderOK' /\ OwnOK' /\ PresentOK'
  <2> QED BY <1>1, <1>2, TableUnwritten DEF BrowsingInv, ReaderOK, OwnOK, PresentOK, Reader
<1>7. TurningOK'
  <2> SUFFICES ASSUME query.sort = "fixed", ~reader.left
               PROVE  /\ PageIds(reader.page) \subseteq Matching(query, rows)
                      /\ reader.page >= 1
                      /\ \A i \in reader.present \ (reader.seen \cup PageIds(reader.page)) :
                            /\ Position(i) >= reader.page * query.limit
                            /\ Cardinality(PageIds(reader.page)) = query.limit
      BY <1>1, <1>2, TableUnwritten DEF TurningOK, Turned
  <2>1. reader.page >= 1 BY <1>1 DEF BrowsingInv, TurningOK
  <2>2. ASSUME NEW i \in reader.present \ (reader.seen \cup PageIds(reader.page))
        PROVE  /\ Position(i) >= reader.page * query.limit
               /\ Cardinality(PageIds(reader.page)) = query.limit
    <3>1. i \in Matching(query, rows) BY <1>1 DEF BrowsingInv, PresentOK
    <3>2. Position(i) >= Skip(reader.page) BY <1>1 DEF BrowsingInv, TurningOK, Turned
    <3>3. Position(i) \in Nat BY PositionIsCount
    <3>4. /\ query.limit \in Nat /\ Skip(reader.page) \in Int
          /\ Skip(reader.page) + query.limit = reader.page * query.limit
          BY <1>1, <1>3, QueryLimit
    <3>5. Position(i) \notin Skip(reader.page) .. (Skip(reader.page) + query.limit - 1)
          BY <3>1 DEF PageIds, Take
    <3>6. Position(i) >= Skip(reader.page) + query.limit BY <3>2, <3>3, <3>4, <3>5
    <3>7. Cardinality(PageIds(reader.page)) = query.limit
          BY <1>1, <1>3, <2>1, <3>1, <3>6, PageSize
    <3> QED BY <3>4, <3>6, <3>7
  <2> QED BY <1>4, <2>1, <2>2
<1> QED BY <1>5, <1>6, <1>7 DEF BrowsingInv

LEMMA SelectEntitiesInv ==
    ASSUME BrowsingInv, SelectEntities
    PROVE  BrowsingInv'
<1>1. /\ of' = of /\ rows' = rows /\ query' = query /\ query # Null
      /\ reader.pc = "entities" /\ reader \in Reader /\ BrowsingTypeOK
      BY DEF BrowsingInv, BrowsingTypeOK, ReaderOK, SelectEntities
<1>2. reader' = [reader EXCEPT !.pc = "count",
                               !.data = reader.ids \cap Matching(query, rows)]
      BY DEF SelectEntities
<1>3. BrowsingTypeOK' BY <1>1, <1>2 DEF BrowsingTypeOK, BrowsedRow, Reader
<1>4. ReaderOK' /\ PresentOK'
      BY <1>1, <1>2, TableUnwritten DEF BrowsingInv, ReaderOK, PresentOK, Reader
<1>5. OwnOK'
  <2> SUFFICES ASSUME query.by \in Clients, NEW i \in reader'.data \cup reader'.seen
               PROVE  rows[i] # Null /\ rows[i].client = query.by
      BY <1>1 DEF OwnOK
  <2>1. CASE i \in reader'.data
    <3>1. Matches(query, rows[i]) BY <1>1, <1>2, <2>1 DEF Reader, Matching
    <3>2. query.client = query.by /\ query.client # Null
          BY <1>1, RolesAssumption DEF BrowsingInv, ReaderOK
    <3> QED BY <3>1, <3>2 DEF Matches
  <2>2. CASE i \in reader.seen BY <1>1, <2>2 DEF BrowsingInv, OwnOK
  <2>3. reader'.seen = reader.seen BY <1>1, <1>2 DEF Reader
  <2> QED BY <2>1, <2>2, <2>3
<1>6. TurningOK'
      BY <1>1, <1>2, TableUnwritten DEF BrowsingInv, TurningOK, Turned, Reader
<1> QED BY <1>3, <1>4, <1>5, <1>6 DEF BrowsingInv

\* A page that is the last leaves no row behind it: counted before it is shown,
\* the total lies beyond every row that matches, and a page that is not full is
\* in hand only when no row lies beyond it.
LEMMA LastPageComplete ==
    ASSUME BrowsingInv, reader.pc = "count", query.sort = "fixed", ~reader.left,
           NEW total \in Totals, ~(reader.page * query.limit < total)
    PROVE  reader.present \subseteq reader.seen \cup reader.data
<1>1. query # Null /\ BrowsingTypeOK /\ reader.page \in Nat
      BY DEF BrowsingInv, BrowsingTypeOK, ReaderOK, Reader
<1> SUFFICES ASSUME NEW i \in reader.present \ (reader.seen \cup reader.data)
             PROVE  FALSE
    OBVIOUS
<1>2. i \in Matching(query, rows) BY <1>1 DEF BrowsingInv, PresentOK
<1>3. /\ Position(i) >= reader.page * query.limit
      /\ Cardinality(reader.data) = query.limit
      BY <1>1 DEF BrowsingInv, TurningOK, Turned
<1>4. total = Cardinality(Matching(query, rows))
  <2>1. query.limit \in Nat BY <1>1, QueryLimit
  <2> QED BY <1>3, <2>1 DEF Totals
<1>5. Position(i) < total BY <1>1, <1>2, <1>4, PositionBelowTotal
<1>6. /\ Position(i) \in Nat /\ total \in Nat /\ reader.page * query.limit \in Int
  <2>1. Position(i) \in Nat BY PositionIsCount
  <2>2. total \in Nat BY <1>4, MatchingFinite, FS_CardinalityType
  <2>3. query.limit \in Nat BY <1>1, QueryLimit
  <2> QED BY <1>1, <2>1, <2>2, <2>3
<1> QED BY <1>3, <1>5, <1>6

LEMMA ShowPageInv ==
    ASSUME BrowsingInv, ShowPage
    PROVE  BrowsingInv'
<1>1. /\ of' = of /\ rows' = rows /\ query' = query /\ query # Null
      /\ reader.pc = "count" /\ reader \in Reader /\ BrowsingTypeOK
      BY DEF BrowsingInv, BrowsingTypeOK, ReaderOK, ShowPage
<1>2. PICK total \in Totals :
        reader' = [reader EXCEPT
           !.pc = IF reader.page * query.limit < total THEN "shown" ELSE "done",
           !.seen = reader.seen \cup reader.data, !.ids = {}, !.data = {}]
      BY DEF ShowPage
<1>3. query.limit \in Nat BY <1>1, QueryLimit DEF Reader
<1>4. BrowsingTypeOK'
  <2>1. reader' \in Reader /\ reader'.ids = {} /\ reader'.data = {}
        BY <1>1, <1>2 DEF Reader
  <2>2. Cardinality(reader'.ids) <= query.limit BY <1>3, <2>1, EmptySize
  <2> QED BY <1>1, <2>1, <2>2 DEF BrowsingTypeOK, BrowsedRow
<1>5. ReaderOK' /\ OwnOK' /\ PresentOK'
      BY <1>1, <1>2, TableUnwritten DEF BrowsingInv, ReaderOK, OwnOK, PresentOK, Reader
<1>6. TurningOK'
  <2> SUFFICES ASSUME query.sort = "fixed", ~reader.left
               PROVE  /\ reader'.pc = "done" => reader'.present \subseteq reader'.seen
                      /\ reader.page >= 1
                      /\ \A i \in reader.present \ (reader.seen \cup reader.data) :
                            Position(i) >= reader.page * query.limit
      BY <1>1, <1>2, TableUnwritten DEF TurningOK, Turned, Reader
  <2>1. reader'.pc = "done" => reader'.present \subseteq reader'.seen
        BY <1>1, <1>2, LastPageComplete DEF Reader
  <2>2. /\ reader.page >= 1
        /\ \A i \in reader.present \ (reader.seen \cup reader.data) :
              Position(i) >= reader.page * query.limit
        BY <1>1 DEF BrowsingInv, TurningOK, Turned
  <2> QED BY <2>1, <2>2
<1> QED BY <1>4, <1>5, <1>6 DEF BrowsingInv

LEMMA TurnPageInv ==
    ASSUME BrowsingInv, TurnPage
    PROVE  BrowsingInv'
<1>1. /\ of' = of /\ rows' = rows /\ query' = query /\ query # Null
      /\ reader.pc = "shown" /\ reader \in Reader /\ BrowsingTypeOK
      /\ reader' = [reader EXCEPT !.pc = "ids", !.page = reader.page + 1]
      BY DEF BrowsingInv, BrowsingTypeOK, ReaderOK, TurnPage
<1>2. BrowsingTypeOK'
  <2>1. reader.page + 1 \in Nat BY <1>1 DEF Reader
  <2>2. reader' \in Reader BY <1>1, <2>1 DEF Reader
  <2>3. reader'.ids = reader.ids /\ reader'.data = reader.data BY <1>1 DEF Reader
  <2> QED BY <1>1, <2>2, <2>3 DEF BrowsingTypeOK, BrowsedRow
<1>3. ReaderOK' /\ OwnOK' /\ PresentOK'
      BY <1>1, TableUnwritten DEF BrowsingInv, ReaderOK, OwnOK, PresentOK, Reader
<1>4. TurningOK'
  <2>1. reader.page \in Nat /\ reader'.page = reader.page + 1 BY <1>1 DEF Reader
  <2>2. Skip(reader.page + 1) = reader.page * query.limit BY <1>1, <2>1, QueryLimit
  <2>3. Turned' = reader.page * query.limit
        BY <1>1, <2>1, <2>2 DEF Turned, Skip, Reader
  <2>4. Turned = reader.page * query.limit BY <1>1 DEF Turned
  <2> HIDE DEF Turned
  <2> QED BY <1>1, <2>1, <2>3, <2>4, TableUnwritten DEF BrowsingInv, TurningOK, Reader
<1> QED BY <1>2, <1>3, <1>4 DEF BrowsingInv

LEMMA FailPageInv ==
    ASSUME BrowsingInv, FailPage
    PROVE  BrowsingInv'
<1>1. /\ of' = of /\ rows' = rows /\ query' = query /\ query # Null
      /\ reader' = [NewReader EXCEPT !.pc = "failed"] /\ BrowsingTypeOK
      BY DEF BrowsingInv, BrowsingTypeOK, ReaderOK, FailPage
<1>2. query.limit \in Nat BY <1>1, QueryLimit
<1>3. BrowsingTypeOK'
  <2>1. reader' \in Reader /\ reader'.ids = {} /\ reader'.data = {}
        BY <1>1 DEF Reader, NewReader
  <2>2. Cardinality(reader'.ids) <= query.limit BY <1>2, <2>1, EmptySize
  <2> QED BY <1>1, <2>1, <2>2 DEF BrowsingTypeOK, BrowsedRow
<1>4. ReaderOK' /\ OwnOK' /\ PresentOK' /\ TurningOK'
      BY <1>1 DEF BrowsingInv, ReaderOK, OwnOK, PresentOK, TurningOK, NewReader
<1> QED BY <1>3, <1>4 DEF BrowsingInv

LEMMA WriteInv ==
    ASSUME BrowsingInv, NEW i \in Rows, NEW row \in BrowsedRow, Write(i, row),
           rows[i] # Null => row.client = rows[i].client
    PROVE  BrowsingInv'
<1>1. /\ of' = of /\ query' = query /\ rows \in [Rows -> BrowsedRow \cup {Null}]
      /\ reader \in Reader /\ BrowsingTypeOK
      BY DEF BrowsingInv, BrowsingTypeOK, Write
<1>2. /\ rows' = [rows EXCEPT ![i] = row]
      /\ \A j \in Rows : rows'[j] = IF j = i THEN row ELSE rows[j]
      BY <1>1 DEF Write
<1>3. PICK left \in BOOLEAN :
        /\ reader' = [reader EXCEPT !.left = left]
        /\ left <=> \/ reader.left
                    \/ /\ reader.pc \notin {"new", "failed"}
                       /\ Matches(query, rows[i]) /\ ~Matches(query, row)
  <2> DEFINE l == \/ reader.left
                  \/ /\ reader.pc \notin {"new", "failed"}
                     /\ Matches(query, rows[i]) /\ ~Matches(query, row)
  <2>1. reader' = [reader EXCEPT !.left = l] BY DEF Write
  <2>2. l \in BOOLEAN BY Zenon
  <2> QED BY <2>1, <2>2, Zenon
<1>4. row # Null
  <2>1. row \in [client : Clients \cup {Null}, value : Values, archived : BOOLEAN]
        BY DEF BrowsedRow
  <2> QED BY <2>1, BrowsingNullAssumption
<1>5. /\ reader' \in Reader /\ reader'.pc = reader.pc /\ reader'.ids = reader.ids
      /\ reader'.data = reader.data /\ reader'.seen = reader.seen
      /\ reader'.present = reader.present /\ reader'.page = reader.page
      /\ reader'.left = left
      BY <1>1, <1>3 DEF Reader
<1>6. BrowsingTypeOK' BY <1>1, <1>2, <1>5 DEF BrowsingTypeOK, BrowsedRow
<1>7. ReaderOK'
  <2>1. reader.pc \in {"new", "failed"} => reader' = reader
        BY <1>1, <1>3 DEF Reader
  <2> QED BY <1>1, <1>5, <2>1 DEF BrowsingInv, ReaderOK
<1>8. OwnOK'
  <2> SUFFICES ASSUME query # Null, query.by \in Clients, NEW j \in reader.data \cup reader.seen
               PROVE  rows'[j] # Null /\ rows'[j].client = query.by
      BY <1>1, <1>5 DEF OwnOK
  <2>1. j \in Rows BY <1>1 DEF Reader
  <2>2. rows[j] # Null /\ rows[j].client = query.by BY DEF BrowsingInv, OwnOK
  <2> QED BY <1>2, <1>4, <2>1, <2>2
<1>9. query # Null /\ ~left /\ reader.pc # "failed" =>
          Matching(query, rows) \subseteq Matching(query, rows)'
  <2> SUFFICES ASSUME query # Null, ~left, reader.pc # "failed",
                      NEW j \in Rows, Matches(query, rows[j])
               PROVE  Matches(query, rows'[j])
      BY <1>1 DEF Matching
  <2>1. reader.pc # "new" BY DEF BrowsingInv, ReaderOK
  <2> QED BY <1>2, <1>3, <2>1
<1>10. reader.pc = "failed" => reader.present = {} /\ reader.ids = {} /\ ~reader.left
       BY DEF BrowsingInv, ReaderOK, NewReader
<1>11. PresentOK'
  <2>1. query # Null /\ ~left => reader.present \subseteq Matching(query, rows)'
        BY <1>3, <1>9, <1>10 DEF BrowsingInv, PresentOK
  <2>2. ASSUME of = "bookings", query # Null, query.value = Null PROVE ~left
    <3>1. ~reader.left BY <2>2 DEF BrowsingInv, PresentOK
    <3>2. Matches(query, rows[i]) => Matches(query, row)
          BY <1>4, <2>2 DEF Matches, BrowsedRow
    <3> QED BY <1>3, <3>1, <3>2
  <2> QED BY <1>1, <1>5, <2>1, <2>2 DEF PresentOK
<1>12. TurningOK'
  <2> SUFFICES ASSUME query # Null, query.sort = "fixed", ~left, reader.pc # "failed"
               PROVE  TurningOK'
      BY <1>1, <1>5, <1>10 DEF TurningOK
  <2>1. Matching(query, rows) \subseteq Matching(query, rows)' BY <1>9
  <2>2. \A j : Position(j)' >= Position(j) BY <1>1, <2>1, PositionRises
  <2>3. Turned' = Turned /\ Turned \in Int
    <3>1. reader.page \in Nat BY <1>1 DEF Reader
    <3>2. query.limit \in Nat /\ Skip(reader.page) \in Int BY <1>1, <3>1, QueryLimit
    <3>3. reader.page * query.limit \in Int BY <3>1, <3>2
    <3> QED BY <1>1, <1>5, <3>2, <3>3 DEF Turned, Skip
  <2>4. Counts' BY PositionCounts, PTL
  <2>5. \A j : Position(j) >= Turned => Position(j)' >= Turned
        BY <2>2, <2>3, <2>4, PositionIsCount DEF Counts
  <2>6. ~reader.left BY <1>3
  <2> QED BY <1>1, <1>5, <2>1, <2>3, <2>5, <2>6 DEF BrowsingInv, TurningOK
<1> QED BY <1>6, <1>7, <1>8, <1>11, <1>12 DEF BrowsingInv

LEMMA WriterInv ==
    ASSUME BrowsingInv, WriterStep
    PROVE  BrowsingInv'
<1>1. rows \in [Rows -> BrowsedRow \cup {Null}] BY DEF BrowsingInv, BrowsingTypeOK
<1>2. ASSUME NEW i \in Rows, NEW row \in BrowsedRow, InsertedRow(i, row)
      PROVE  BrowsingInv'
  <2>1. Write(i, row) /\ rows[i] = Null BY <1>2 DEF InsertedRow
  <2> QED BY <2>1, WriteInv
<1>3. ASSUME NEW i \in Rows, NEW value \in Values, ChangedRow(i, value)
      PROVE  BrowsingInv'
  <2>1. PICK row : row = [rows[i] EXCEPT !.value = value] OBVIOUS
  <2>2. Write(i, row) /\ rows[i] # Null BY <1>3, <2>1 DEF ChangedRow, Write
  <2>3. row \in BrowsedRow /\ row.client = rows[i].client
        BY <1>1, <2>1, <2>2 DEF BrowsedRow
  <2> QED BY <2>2, <2>3, WriteInv
<1>4. ASSUME NEW i \in Rows, ArchivedRow(i)
      PROVE  BrowsingInv'
  <2>1. PICK row : row = [rows[i] EXCEPT !.archived = ~rows[i].archived] OBVIOUS
  <2>2. Write(i, row) /\ rows[i] # Null /\ of = "services"
        BY <1>4, <2>1 DEF ArchivedRow, Write
  <2>3. row \in BrowsedRow /\ row.client = rows[i].client
        BY <1>1, <2>1, <2>2 DEF BrowsedRow
  <2> QED BY <2>2, <2>3, WriteInv
<1> QED BY <1>2, <1>3, <1>4 DEF WriterStep

LEMMA ReaderInv ==
    ASSUME BrowsingInv, ReaderStep
    PROVE  BrowsingInv'
<1>1. ASSUME NEW value \in Values \cup {Null}, NEW sort \in {"fixed", "changing", "unknown"},
             NEW order \in {"ASC", "DESC"}, NEW limit \in Limits,
             AskListings(value, sort, order, limit)
      PROVE  BrowsingInv'
  <2>1. PICK q : q = [by |-> Null, client |-> Null, value |-> value,
                      sort |-> ResolvedSortField(sort), order |-> order, limit |-> limit]
        OBVIOUS
  <2>2. q \in Query /\ q.by \notin Clients
        BY <2>1, RolesAssumption DEF Query, ResolvedSortField
  <2>3. Ask(q) BY <1>1, <2>1 DEF AskListings
  <2> QED BY <2>2, <2>3, AskInv
<1>2. ASSUME NEW value \in Values \cup {Null}, NEW sort \in {"fixed", "changing", "unknown"},
             NEW order \in {"ASC", "DESC"}, NEW limit \in Limits,
             NEW u \in Users, NEW client \in Clients \cup {Null},
             AskBookings(u, client, value, sort, order, limit)
      PROVE  BrowsingInv'
  <2>1. PICK q : q = [by |-> u, client |-> EnforcedClient(u, client), value |-> value,
                      sort |-> ResolvedSortField(sort), order |-> order, limit |-> limit]
        OBVIOUS
  <2>2. q \in Query /\ (q.by \in Clients => q.client = q.by)
        BY <2>1 DEF Query, ResolvedSortField, EnforcedClient
  <2>3. Ask(q) BY <1>2, <2>1 DEF AskBookings
  <2> QED BY <2>2, <2>3, AskInv
<1> QED
  BY <1>1, <1>2, SelectIdsInv, SelectEntitiesInv, ShowPageInv, TurnPageInv, FailPageInv
  DEF ReaderStep

LEMMA NextBrowsing == BrowsingInv /\ [BrowsingNext]_browsingVars => BrowsingInv'
<1> SUFFICES ASSUME BrowsingInv, [BrowsingNext]_browsingVars PROVE BrowsingInv'
    OBVIOUS
<1>1. CASE UNCHANGED browsingVars
  <2>1. of' = of /\ rows' = rows /\ query' = query /\ reader' = reader
        BY <1>1 DEF browsingVars
  <2>2. BrowsingTypeOK' BY <2>1 DEF BrowsingInv, BrowsingTypeOK, BrowsedRow
  <2>3. ReaderOK' /\ OwnOK' BY <2>1 DEF BrowsingInv, ReaderOK, OwnOK
  <2>4. PresentOK' BY <2>1, TableUnwritten DEF BrowsingInv, PresentOK
  <2>5. Turned' = Turned BY <2>1 DEF Turned, Skip
  <2>6. TurningOK' BY <2>1, <2>5, TableUnwritten DEF BrowsingInv, TurningOK
  <2> QED BY <2>2, <2>3, <2>4, <2>6 DEF BrowsingInv
<1>2. CASE ReaderStep BY <1>2, ReaderInv
<1>3. CASE WriterStep BY <1>3, WriterInv
<1> QED BY <1>1, <1>2, <1>3 DEF BrowsingNext

THEOREM BrowsingInvariant == BrowsingSpec => []BrowsingInv
BY InitBrowsing, NextBrowsing, PTL DEF BrowsingSpec

-----------------------------------------------------------------------------
(* What readers are shown *)

\* Every variable has its type whatever is asked and written, and no page is
\* longer than its limit (findWithFilters of both repositories).
THEOREM BrowsingTypeCorrect == BrowsingSpec => []BrowsingTypeOK
<1>1. BrowsingInv => BrowsingTypeOK BY DEF BrowsingInv
<1> QED BY <1>1, BrowsingInvariant, PTL

\* A client is listed his own bookings only, whatever filter he asks with and
\* whatever happens between the statements of a page (BookingsService.findAll).
THEOREM ClientsSeeTheirOwn == BrowsingSpec => []ClientsListTheirOwn
<1>1. ASSUME BrowsingInv, query # Null, query.by \in Clients, NEW i \in reader.seen
      PROVE  ViewVerdict(rows[i], Null, query.by) = "ok"
  <2>1. rows[i] # Null /\ rows[i].client = query.by BY <1>1 DEF BrowsingInv, OwnOK
  <2> QED BY <1>1, <2>1, RolesAssumption DEF ViewVerdict, HasAuthority, IsClientOwner
<1>2. BrowsingInv => ClientsListTheirOwn BY <1>1 DEF ClientsListTheirOwn
<1> QED BY <1>2, BrowsingInvariant, PTL

\* Whoever turns the pages of a list in a fixed order to the end has seen every
\* row that was in it from the beginning and has not left it, however many rows
\* have been inserted before it meanwhile.
THEOREM PagesMissNothing == BrowsingSpec => []NothingMissed
<1>1. ASSUME BrowsingInv PROVE NothingMissed
  <2>1. reader.pc = "done" => query # Null BY <1>1 DEF BrowsingInv, ReaderOK
  <2> QED BY <1>1, <2>1 DEF BrowsingInv, TurningOK, PresentOK, NothingMissed
<1> QED BY <1>1, BrowsingInvariant, PTL

-----------------------------------------------------------------------------
(* What a page is *)

\* Every place lies on a page ...
LEMMA PageOfPlace ==
    ASSUME NEW n \in Nat, NEW limit \in Nat \ {0}
    PROVE  \E p \in Nat \ {0} :
               (p - 1) * limit <= n /\ n <= (p - 1) * limit + limit - 1
<1> DEFINE quotient == n \div limit
<1>1. quotient \in Nat /\ quotient * limit <= n /\ n < quotient * limit + limit
      OBVIOUS
<1> HIDE DEF quotient
<1>2. PICK p \in Nat \ {0} : p - 1 = quotient BY <1>1
<1>3. (p - 1) * limit = quotient * limit BY <1>2
<1>4. PICK m \in Int : m = quotient * limit BY <1>1
<1>5. m <= n /\ n <= m + limit - 1 BY <1>1, <1>4
<1>6. (p - 1) * limit = m BY <1>3, <1>4, Zenon
<1> QED BY <1>5, <1>6, Zenon

\* ... and a page ends before any later one begins.
LEMMA PagesApart ==
    ASSUME NEW p \in Nat, NEW q \in Nat, NEW limit \in Nat, p < q
    PROVE  (p - 1) * limit + limit - 1 < (q - 1) * limit
<1>1. \A a, b \in Nat : a * b >= 0 OBVIOUS
<1>2. (q - 1 - p) * limit >= 0 BY <1>1
<1> QED BY <1>2

LEMMA PagesDisjoint ==
    ASSUME BrowsingTypeOK, query # Null,
           NEW p \in Nat \ {0}, NEW q \in Nat \ {0}, p < q
    PROVE  PageIds(p) \cap PageIds(q) = {}
<1> SUFFICES ASSUME NEW i \in PageIds(p), i \in PageIds(q) PROVE FALSE
    OBVIOUS
<1>1. query.limit \in Nat BY QueryLimit
<1>2. PICK a \in Int : a = (p - 1) * query.limit BY <1>1
<1>3. PICK b \in Int : b = (q - 1) * query.limit BY <1>1
<1>4. a + query.limit - 1 < b BY <1>1, <1>2, <1>3, PagesApart
<1>5. Position(i) \in a .. (a + query.limit - 1)
      BY <1>2, Zenon DEF PageIds, Skip, Take
<1>6. Position(i) \in b .. (b + query.limit - 1)
      BY <1>3, Zenon DEF PageIds, Skip, Take
<1> QED BY <1>1, <1>4, <1>5, <1>6

\* At any moment the pages of a query divide its rows: each row is on one page
\* and on no other (findWithFilters of both repositories, skip and take).
THEOREM PagesPartition ==
    ASSUME BrowsingTypeOK, query # Null
    PROVE  /\ \A i \in Matching(query, rows) : \E p \in Nat \ {0} : i \in PageIds(p)
           /\ \A p, q \in Nat \ {0} : p # q => PageIds(p) \cap PageIds(q) = {}
<1>1. query.limit \in Nat \ {0} BY QueryLimit
<1>2. ASSUME NEW i \in Matching(query, rows)
      PROVE  \E p \in Nat \ {0} : i \in PageIds(p)
  <2>1. Position(i) \in Nat BY PositionIsCount
  <2>2. PICK p \in Nat \ {0} :
            /\ (p - 1) * query.limit <= Position(i)
            /\ Position(i) <= (p - 1) * query.limit + query.limit - 1
        BY <1>1, <2>1, PageOfPlace
  <2>3. PICK a \in Int : a = (p - 1) * query.limit BY <1>1
  <2>4. a <= Position(i) /\ Position(i) <= a + query.limit - 1
        BY <2>2, <2>3, Zenon
  <2>5. Position(i) \in a .. (a + query.limit - 1) BY <1>1, <2>1, <2>4
  <2>6. i \in PageIds(p) BY <2>3, <2>5, Zenon DEF PageIds, Skip, Take
  <2> QED BY <2>6
<1>3. ASSUME NEW p \in Nat \ {0}, NEW q \in Nat \ {0}, p # q
      PROVE  PageIds(p) \cap PageIds(q) = {}
  <2>1. p < q \/ q < p BY <1>3
  <2>2. CASE p < q BY <2>2, PagesDisjoint
  <2>3. CASE q < p
    <3>1. PageIds(q) \cap PageIds(p) = {} BY <2>3, PagesDisjoint
    <3> QED BY <3>1
  <2> QED BY <2>1, <2>2, <2>3
<1> QED BY <1>2, <1>3
===============================================================================
