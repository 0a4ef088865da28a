----------------------------- MODULE SeederProofs -----------------------------
(***************************************************************************)
(* What the seeder guarantees for any number of runs, overlapping, stopped *)
(* half way and repeated, on a platform in use.                            *)
(***************************************************************************)
EXTENDS Seeder, TLAPS

\* What a run has behind it, by its stage.
Behind(r) ==
    /\ seed[r].stage # "vendor" => "vendor" \in accounts
    /\ seed[r].stage \in {"service", "booking", "end"} => "client" \in accounts
    /\ seed[r].stage \in {"booking", "end"} =>
         seed[r].service \in Runs /\ catalog[seed[r].service] # Null
    /\ seed[r].stage = "end" <=> seed[r].pc = "done"
    /\ seed[r].pc = "done" => BookedAt(seed[r].service)
    /\ slots[r] # Null => seed[r].pc = "done"

\* What a run that nobody has raced knows of the row it has looked for.
Unraced(r) ==
    ~seed[r].raced =>
      /\ seed[r].pc = "save" => /\ seed[r].stage \notin accounts
                                /\ seed[r].stage = "booking" => ~BookedAt(seed[r].service)
      /\ seed[r].pc # "failed"

\* What a run knows that began with all the data there, while they are settled.
Reseeds(r) ==
    seed[r].settled =>
      /\ seed[r].added = {}
      /\ Running(r) => /\ Complete /\ seed[r].pc = "find"
                       /\ seed[r].stage = "booking" => Findable(seed[r].service)

SeedTyped ==
    /\ accounts \in SUBSET AccountStages
    /\ catalog \in [Runs -> SeedListing \cup {Null}]
    /\ slots \in [Bookers -> SeedBooking \cup {Null}]
    /\ seed \in [Runs -> SeedRun]

SeedInv == SeedTyped /\ \A r \in Runs : Behind(r) /\ Unraced(r) /\ Reseeds(r)

\* What is stored stays, in one form or another.
Grows ==
    /\ accounts \subseteq accounts'
    /\ \A s \in Runs : catalog[s] # Null => catalog'[s] # Null
    /\ \A b \in Bookers : slots[b] # Null =>
         slots'[b] # Null /\ slots'[b].service = slots[b].service

\* No account or booking appears but rows of the stage.
Only(stage) ==
    /\ \A a \in Stages : a # stage /\ a \notin accounts => a \notin accounts'
    /\ stage # "booking" => \A s \in Runs : BookedAt(s)' => BookedAt(s)

\* For a run that another has met the data are settled no longer, and it may have
\* been raced.
Met(q, stage) ==
    /\ \/ seed'[q] = seed[q] /\ ~Running(q)
       \/ \E raced \in BOOLEAN :
            /\ seed'[q] = [seed[q] EXCEPT !.settled = FALSE, !.raced = raced]
            /\ ~raced => /\ ~seed[q].raced
                         /\ seed[q].pc # "save" \/ seed[q].stage # stage
    /\ slots'[q] # Null => slots[q] # Null

LEMMA SeedNulls ==
    /\ Null \notin Runs /\ Null \notin Guests /\ Null \notin Stages
    /\ Null \notin SeedListing /\ Null \notin SeedBooking
BY SeedNullAssumption, SeedRowAssumption

LEMMA InitSeed == SeedInit => SeedInv
<1> SUFFICES ASSUME SeedInit PROVE SeedInv
  OBVIOUS
<1>1. /\ NoRun \in SeedRun /\ NoRun.pc = "new" /\ NoRun.stage = "vendor" /\ ~NoRun.settled
  BY DEF NoRun, SeedRun, Stages
<1>2. SeedTyped
  BY <1>1 DEF SeedInit, SeedTyped, Bookers
<1>3. \A r \in Runs : Behind(r) /\ Unraced(r) /\ Reseeds(r)
  BY <1>1 DEF SeedInit, Behind, Unraced, Reseeds, Bookers, AccountStages
<1> QED BY <1>2, <1>3 DEF SeedInv

\* Whoever is met keeps what is behind, and what it looked for, unless it is raced.
LEMMA MetKeeps ==
    ASSUME SeedInv, Grows, NEW stage, Only(stage), NEW q \in Runs, Met(q, stage)
    PROVE  seed'[q] \in SeedRun /\ Behind(q)' /\ Unraced(q)' /\ Reseeds(q)'
<1>1. seed[q] \in SeedRun /\ Behind(q) /\ Unraced(q) /\ Reseeds(q)
  BY DEF SeedInv, SeedTyped
<1>2. /\ seed'[q] \in SeedRun /\ seed'[q].pc = seed[q].pc /\ seed'[q].stage = seed[q].stage
      /\ seed'[q].service = seed[q].service
      /\ seed'[q].settled => seed'[q] = seed[q] /\ ~Running(q)
      /\ ~seed'[q].raced => /\ ~seed[q].raced
                            /\ seed[q].pc # "save" \/ seed[q].stage # stage
  BY <1>1 DEF Met, SeedRun, Running
<1>3. BookedAt(seed[q].service) => BookedAt(seed[q].service)'
  BY <1>2 DEF BookedAt, Grows
<1>4. Behind(q)'
  BY <1>1, <1>2, <1>3 DEF Behind, Grows, Met
<1>5. Unraced(q)'
  <2> SUFFICES ASSUME ~seed'[q].raced
               PROVE  /\ seed'[q].pc = "save" =>
                           /\ seed'[q].stage \notin accounts'
                           /\ seed'[q].stage = "booking" => ~BookedAt(seed[q].service)'
                      /\ seed'[q].pc # "failed"
    BY <1>2 DEF Unraced, BookedAt
  <2>1. seed[q].pc # "failed" /\ (seed[q].pc = "save" => seed[q].stage # stage)
    BY <1>1, <1>2 DEF Unraced
  <2>2. ASSUME seed[q].pc = "save"
        PROVE  /\ seed[q].stage \notin accounts'
               /\ seed[q].stage = "booking" => ~BookedAt(seed[q].service)'
    <3>1. /\ seed[q].stage \in Stages /\ seed[q].stage \notin accounts
          /\ seed[q].stage = "booking" => seed[q].service \in Runs /\ ~BookedAt(seed[q].service)
      BY <1>1, <1>2, <2>2 DEF Unraced, Behind, SeedRun
    <3>2. seed[q].stage \notin accounts'
      BY <2>1, <2>2, <3>1 DEF Only
    <3>3. ASSUME seed[q].stage = "booking" PROVE ~BookedAt(seed[q].service)'
      <4>1. \A s \in Runs : BookedAt(s)' => BookedAt(s)
        BY <2>1, <2>2, <3>3 DEF Only
      <4> QED BY <1>2, <3>1, <3>3, <4>1 DEF BookedAt
    <3> QED BY <3>2, <3>3
  <2> QED BY <1>2, <2>1, <2>2
<1>6. Reseeds(q)'
  BY <1>1, <1>2 DEF Reseeds, Running
<1> QED BY <1>2, <1>4, <1>5, <1>6

\* A step of r that stores nothing leaves all other runs as they are.
LEMMA QuietStep ==
    ASSUME SeedInv, NEW r \in Runs, NEW next \in SeedRun, seed' = [seed EXCEPT ![r] = next],
           UNCHANGED <<accounts, catalog, slots>>, Behind(r)' /\ Unraced(r)' /\ Reseeds(r)'
    PROVE  SeedInv'
<1>1. \A q \in Runs \ {r} : seed'[q] = seed[q]
  BY DEF SeedInv, SeedTyped
<1>2. SeedTyped'
  BY DEF SeedInv, SeedTyped
<1>3. ASSUME NEW q \in Runs \ {r} PROVE Behind(q)' /\ Unraced(q)' /\ Reseeds(q)'
  <2>1. seed'[q] = seed[q] /\ Behind(q) /\ Unraced(q) /\ Reseeds(q)
    BY <1>1 DEF SeedInv
  <2> QED BY <2>1 DEF Behind, Unraced, Reseeds, BookedAt, Running, Complete, Findable
<1> QED BY <1>2, <1>3 DEF SeedInv

\* A step of r, or of the platform in use, that stores something meets all others.
LEMMA LoudStep ==
    ASSUME SeedInv, NEW R, NEW stage, NEW runs \in [Runs -> SeedRun],
           seed' = Disturbed(runs, R, stage), Only(stage),
           \A q \in Runs : q # R => runs[q] = seed[q],
           accounts' \in SUBSET AccountStages,
           catalog' \in [Runs -> SeedListing \cup {Null}],
           slots' \in [Bookers -> SeedBooking \cup {Null}],
           Grows, \A q \in Runs : q # R => (slots'[q] # Null => slots[q] # Null),
           R \in Runs => Behind(R)' /\ Unraced(R)' /\ Reseeds(R)'
    PROVE  SeedInv'
<1>1. ASSUME NEW q \in Runs, q # R PROVE Met(q, stage)
  <2>1. seed[q] \in SeedRun /\ runs[q] = seed[q]
    BY <1>1 DEF SeedInv, SeedTyped
  <2>2. CASE ~Running(q)
    BY <1>1, <2>1, <2>2 DEF Met, Disturbed, Running
  <2>3. CASE Running(q)
    <3>1. PICK raced : raced = (seed[q].raced \/ (seed[q].pc = "save" /\ seed[q].stage = stage))
      OBVIOUS
    <3>2. seed'[q] = [seed[q] EXCEPT !.settled = FALSE, !.raced = raced]
      BY <1>1, <2>1, <2>3, <3>1 DEF Disturbed, Running
    <3>3. raced \in BOOLEAN
      BY <2>1, <3>1 DEF SeedRun
    <3> QED BY <1>1, <3>1, <3>2, <3>3 DEF Met
  <2> QED BY <2>2, <2>3
<1>2. \A q \in Runs : q # R => seed'[q] \in SeedRun /\ Behind(q)' /\ Unraced(q)' /\ Reseeds(q)'
  BY <1>1, MetKeeps
<1>3. R \in Runs => seed'[R] = runs[R]
  BY DEF Disturbed
<1>4. seed' \in [Runs -> SeedRun]
  <2>1. \A q \in Runs : seed'[q] \in SeedRun
    BY <1>2, <1>3
  <2>2. seed' = [q \in Runs |-> seed'[q]]
    BY DEF Disturbed
  <2> QED BY <2>1, <2>2
<1> QED BY <1>2, <1>4 DEF SeedInv, SeedTyped

LEMMA AdvanceType ==
    ASSUME NEW run \in SeedRun, run.stage # "end"
    PROVE  /\ Advance(run) \in SeedRun
           /\ Advance(run).stage = NextStage[run.stage]
           /\ Advance(run).pc = IF run.stage = "booking" THEN "done" ELSE "find"
           /\ Advance(run).service = run.service /\ Advance(run).added = run.added
           /\ Advance(run).settled = run.settled
           /\ ~Advance(run).raced
<1>1. NextStage[run.stage] \in Stages \cup {"end"}
  BY DEF SeedRun, Stages, NextStage
<1> QED BY <1>1 DEF Advance, SeedRun

LEMMA InsertedType ==
    ASSUME NEW run \in SeedRun, run.stage # "end"
    PROVE  /\ Inserted(run) \in SeedRun
           /\ Inserted(run).stage = NextStage[run.stage]
           /\ Inserted(run).pc = IF run.stage = "booking" THEN "done" ELSE "find"
           /\ Inserted(run).service = run.service
           /\ Inserted(run).settled = run.settled
           /\ ~Inserted(run).raced
<1> DEFINE added == [run EXCEPT !.added = run.added \cup {run.stage}]
<1>1. run.added \cup {run.stage} \in SUBSET Stages
  BY DEF SeedRun, Stages
<1>2. /\ added \in SeedRun /\ added.stage = run.stage /\ added.service = run.service
      /\ added.settled = run.settled
  BY <1>1 DEF SeedRun
<1>3. Inserted(run) = Advance(added)
  BY DEF Inserted
<1> HIDE DEF added
<1> QED BY <1>2, <1>3, AdvanceType

LEMMA Stage ==
    /\ NextStage["vendor"] = "client" /\ NextStage["client"] = "service"
    /\ NextStage["service"] = "booking" /\ NextStage["booking"] = "end"
BY DEF NextStage

LEMMA FindUserStep == ASSUME SeedInv, NEW r \in Runs, FindUser(r) PROVE SeedInv'
<1> DEFINE found == seed[r].stage \in accounts
<1>1. /\ seed[r] \in SeedRun /\ Behind(r) /\ Unraced(r) /\ Reseeds(r) /\ seed \in [Runs -> SeedRun]
      /\ seed[r].pc = "find" /\ seed[r].stage \in {"vendor", "client"}
      /\ UNCHANGED <<accounts, catalog, slots>>
  BY DEF SeedInv, SeedTyped, FindUser, AccountStages
<1>2. PICK next : next = IF found THEN Advance(seed[r]) ELSE [seed[r] EXCEPT !.pc = "save"]
  OBVIOUS
<1>3. seed' = [seed EXCEPT ![r] = next]
  BY <1>1, <1>2 DEF FindUser
<1>4. next \in SeedRun /\ seed'[r] = next
  BY <1>1, <1>2, <1>3, AdvanceType DEF SeedRun
<1>5. /\ next.service = seed[r].service /\ next.added = seed[r].added
      /\ next.settled = seed[r].settled
      /\ found => next.pc = "find" /\ next.stage = NextStage[seed[r].stage]
      /\ ~found => next.pc = "save" /\ next.stage = seed[r].stage
  BY <1>1, <1>2, AdvanceType DEF SeedRun
<1> HIDE DEF found
<1>6. Behind(r)'
  BY <1>1, <1>4, <1>5, Stage DEF Behind, found
<1>7. Unraced(r)' /\ Reseeds(r)'
  BY <1>1, <1>4, <1>5, Stage DEF Unraced, Reseeds, found, Running, Complete, AccountStages, BookedAt,
                                 Findable
<1> QED BY <1>1, <1>3, <1>4, <1>6, <1>7, QuietStep

LEMMA SaveUserStep == ASSUME SeedInv, NEW r \in Runs, SaveUser(r) PROVE SeedInv'
<1> DEFINE a == seed[r].stage
<1>1. /\ seed[r] \in SeedRun /\ Behind(r) /\ Unraced(r) /\ Reseeds(r) /\ seed \in [Runs -> SeedRun]
      /\ seed[r].pc = "save" /\ a \in {"vendor", "client"} /\ a \in AccountStages
      /\ UNCHANGED <<catalog, slots>> /\ accounts \in SUBSET AccountStages
  BY DEF SeedInv, SeedTyped, SaveUser, AccountStages
<1>2. CASE a \notin accounts
  <2>1. PICK next : next = Inserted(seed[r])
    OBVIOUS
  <2>2. /\ accounts' = accounts \cup {a}
        /\ seed' = Disturbed([seed EXCEPT ![r] = next], r, a)
    BY <1>1, <1>2, <2>1 DEF SaveUser
  <2>3. /\ next \in SeedRun /\ next.pc = "find" /\ next.stage = NextStage[a]
        /\ next.service = seed[r].service /\ next.settled = seed[r].settled
    BY <1>1, <2>1, InsertedType, Stage
  <2>4. seed'[r] = next
    BY <1>1, <2>2 DEF Disturbed
  <2> HIDE DEF a
  <2>5. accounts' \in SUBSET AccountStages /\ a \in accounts' /\ accounts \subseteq accounts'
    BY <1>1, <2>2
  <2>6. Grows /\ Only(a)
    BY <1>1, <2>2, <2>5 DEF Grows, Only, BookedAt
  <2>7. Behind(r)'
    BY <1>1, <2>3, <2>4, <2>5, Stage DEF Behind, a
  <2>8. Unraced(r)' /\ Reseeds(r)'
    BY <1>1, <2>3, <2>4 DEF Unraced, Reseeds, Running
  <2>9. /\ [seed EXCEPT ![r] = next] \in [Runs -> SeedRun]
        /\ \A q \in Runs : q # r => [seed EXCEPT ![r] = next][q] = seed[q]
    BY <1>1, <2>3
  <2> QED BY <1>1, <2>2, <2>5, <2>6, <2>7, <2>8, <2>9, LoudStep DEF SeedInv, SeedTyped
<1>3. CASE a \in accounts
  <2>1. PICK next : next = [seed[r] EXCEPT !.pc = "failed"]
    OBVIOUS
  <2>2. seed' = [seed EXCEPT ![r] = next] /\ UNCHANGED <<accounts, catalog, slots>>
    BY <1>1, <1>3, <2>1 DEF SaveUser
  <2>3. /\ next \in SeedRun /\ next.pc = "failed" /\ next.stage = a /\ next.raced = seed[r].raced
        /\ next.service = seed[r].service /\ next.settled = seed[r].settled
        /\ next.added = seed[r].added /\ seed'[r] = next
    BY <1>1, <2>1, <2>2 DEF SeedRun
  <2>4. Behind(r)'
    BY <1>1, <2>2, <2>3 DEF Behind
  <2>5. seed[r].raced
    BY <1>1, <1>3 DEF Unraced
  <2>6. Unraced(r)' /\ Reseeds(r)'
    BY <1>1, <2>2, <2>3, <2>5 DEF Unraced, Reseeds, Running
  <2> QED BY <2>2, <2>3, <2>4, <2>6, QuietStep
<1> QED BY <1>2, <1>3

LEMMA FindServiceStep == ASSUME SeedInv, NEW r \in Runs, FindService(r) PROVE SeedInv'
<1>1. /\ seed[r] \in SeedRun /\ Behind(r) /\ Unraced(r) /\ Reseeds(r) /\ seed \in [Runs -> SeedRun]
      /\ seed[r].pc = "find" /\ seed[r].stage = "service"
      /\ UNCHANGED <<accounts, catalog, slots>>
  BY DEF SeedInv, SeedTyped, FindService
<1>2. ASSUME NEW s \in Runs, Findable(s),
             seed' = [seed EXCEPT ![r] = [Advance(seed[r]) EXCEPT !.service = s]]
      PROVE  SeedInv'
  <2>1. PICK next : next = [Advance(seed[r]) EXCEPT !.service = s]
    OBVIOUS
  <2>2. /\ next \in SeedRun /\ next.pc = "find" /\ next.stage = "booking" /\ next.service = s
        /\ next.settled = seed[r].settled
        /\ next.added = seed[r].added /\ seed'[r] = next
    BY <1>1, <1>2, <2>1, AdvanceType, Stage DEF SeedRun
  <2>3. Behind(r)'
    BY <1>1, <1>2, <2>2 DEF Behind, Findable
  <2>4. Unraced(r)' /\ Reseeds(r)'
    BY <1>1, <1>2, <2>2 DEF Unraced, Reseeds, Running, Complete, Findable, BookedAt
  <2> QED BY <1>1, <1>2, <2>1, <2>2, <2>3, <2>4, QuietStep
<1>3. CASE (\A s \in Runs : ~Findable(s)) /\ seed' = [seed EXCEPT ![r].pc = "save"]
  <2>1. PICK next : next = [seed[r] EXCEPT !.pc = "save"]
    OBVIOUS
  <2>2. /\ next \in SeedRun /\ next.pc = "save" /\ next.stage = "service"
        /\ next.settled = seed[r].settled
        /\ next.added = seed[r].added /\ seed'[r] = next
    BY <1>1, <1>3, <2>1 DEF SeedRun
  <2>3. Behind(r)'
    BY <1>1, <2>2 DEF Behind
  <2>4. ~Complete
    BY <1>3 DEF Complete
  <2>5. "service" \notin accounts
    BY DEF SeedInv, SeedTyped, AccountStages
  <2>6. Unraced(r)' /\ Reseeds(r)'
    BY <1>1, <2>2, <2>4, <2>5 DEF Unraced, Reseeds, Running
  <2> QED BY <1>1, <1>3, <2>1, <2>2, <2>3, <2>6, QuietStep
<1> QED BY <1>2, <1>3 DEF FindService

LEMMA SaveServiceStep == ASSUME SeedInv, NEW r \in Runs, SaveService(r) PROVE SeedInv'
<1> DEFINE listing == [titled |-> TRUE, archived |-> FALSE]
<1>1. /\ seed[r] \in SeedRun /\ Behind(r) /\ Unraced(r) /\ Reseeds(r) /\ seed \in [Runs -> SeedRun]
      /\ seed[r].pc = "save" /\ seed[r].stage = "service"
      /\ catalog' = [catalog EXCEPT ![r] = listing]
      /\ UNCHANGED <<accounts, slots>>
  BY DEF SeedInv, SeedTyped, SaveService
<1>2. listing \in SeedListing
  BY DEF SeedListing
<1> HIDE DEF listing
<1>3. PICK next : next = [Inserted(seed[r]) EXCEPT !.service = r]
  OBVIOUS
<1>4. seed' = Disturbed([seed EXCEPT ![r] = next], r, "service")
  BY <1>1, <1>3 DEF SaveService
<1>5. /\ next \in SeedRun /\ next.pc = "find" /\ next.stage = "booking" /\ next.service = r
      /\ next.settled = seed[r].settled
  BY <1>1, <1>3, InsertedType, Stage DEF SeedRun
<1>6. seed'[r] = next
  BY <1>1, <1>4 DEF Disturbed
<1>7. /\ catalog' \in [Runs -> SeedListing \cup {Null}]
      /\ catalog'[r] # Null /\ \A s \in Runs : catalog[s] # Null => catalog'[s] # Null
  BY <1>1, <1>2, SeedNulls DEF SeedInv, SeedTyped
<1>8. Grows /\ Only("service")
  BY <1>1, <1>7 DEF Grows, Only, BookedAt
<1>9. Behind(r)'
  BY <1>1, <1>5, <1>6, <1>7 DEF Behind
<1>10. Unraced(r)' /\ Reseeds(r)'
  BY <1>1, <1>5, <1>6 DEF Unraced, Reseeds, Running
<1>11. /\ [seed EXCEPT ![r] = next] \in [Runs -> SeedRun]
       /\ \A q \in Runs : q # r => [seed EXCEPT ![r] = next][q] = seed[q]
  BY <1>1, <1>5
<1> QED BY <1>1, <1>4, <1>7, <1>8, <1>9, <1>10, <1>11, LoudStep DEF SeedInv, SeedTyped

LEMMA FindBookingStep == ASSUME SeedInv, NEW r \in Runs, FindBooking(r) PROVE SeedInv'
<1> DEFINE found == BookedAt(seed[r].service)
<1>1. /\ seed[r] \in SeedRun /\ Behind(r) /\ Unraced(r) /\ Reseeds(r) /\ seed \in [Runs -> SeedRun]
      /\ seed[r].pc = "find" /\ seed[r].stage = "booking"
      /\ UNCHANGED <<accounts, catalog, slots>>
  BY DEF SeedInv, SeedTyped, FindBooking
<1>2. PICK next : next = IF found THEN Advance(seed[r]) ELSE [seed[r] EXCEPT !.pc = "save"]
  OBVIOUS
<1>3. seed' = [seed EXCEPT ![r] = next]
  BY <1>1, <1>2 DEF FindBooking
<1>4. /\ next \in SeedRun /\ next.service = seed[r].service /\ next.added = seed[r].added
      /\ next.settled = seed[r].settled
      /\ found => next.pc = "done" /\ next.stage = "end"
      /\ ~found => next.pc = "save" /\ next.stage = "booking"
      /\ seed'[r] = next
  BY <1>1, <1>2, <1>3, AdvanceType, Stage DEF SeedRun
<1>5. BookedAt(seed[r].service)' <=> found
  BY <1>1, <1>4 DEF BookedAt
<1>6. Behind(r)'
  <2>1. "vendor" \in accounts /\ "client" \in accounts
        /\ seed[r].service \in Runs /\ catalog[seed[r].service] # Null
    BY <1>1 DEF Behind
  <2> HIDE DEF found
  <2> QED BY <1>1, <1>4, <1>5, <2>1 DEF Behind
<1>7. Unraced(r)'
  <2>1. "booking" \notin accounts
    BY DEF SeedInv, SeedTyped, AccountStages
  <2> HIDE DEF found
  <2> QED BY <1>1, <1>4, <1>5, <2>1 DEF Unraced
<1>8. Reseeds(r)'
  <2>1. seed[r].settled => seed[r].added = {} /\ found
    BY <1>1 DEF Reseeds, Running, Complete, Behind
  <2> HIDE DEF found
  <2> QED BY <1>1, <1>4, <1>5, <2>1 DEF Reseeds, Running
<1> QED BY <1>1, <1>3, <1>4, <1>6, <1>7, <1>8, QuietStep

LEMMA SaveBookingStep == ASSUME SeedInv, NEW r \in Runs, SaveBooking(r) PROVE SeedInv'
<1> DEFINE s == seed[r].service
<1> DEFINE booking == [service |-> s, cancelled |-> FALSE]
<1>1. /\ seed[r] \in SeedRun /\ Behind(r) /\ Unraced(r) /\ Reseeds(r) /\ seed \in [Runs -> SeedRun]
      /\ seed[r].pc = "save" /\ seed[r].stage = "booking" /\ s \in Runs
      /\ UNCHANGED <<accounts, catalog>> /\ r \in Bookers
      /\ slots \in [Bookers -> SeedBooking \cup {Null}]
  BY DEF SeedInv, SeedTyped, SaveBooking, Behind, Bookers
<1>2. CASE ~SlotTaken(s)
  <2>1. PICK next : next = Inserted(seed[r])
    OBVIOUS
  <2>2. /\ slots' = [slots EXCEPT ![r] = booking]
        /\ seed' = Disturbed([seed EXCEPT ![r] = next], r, "booking")
    BY <1>1, <1>2, <2>1 DEF SaveBooking
  <2>3. /\ next \in SeedRun /\ next.pc = "done" /\ next.stage = "end" /\ next.service = s
        /\ next.settled = seed[r].settled
    BY <1>1, <2>1, InsertedType, Stage
  <2>4. booking \in SeedBooking /\ booking.service = s /\ slots[r] = Null
    BY <1>1 DEF SeedBooking, Behind
  <2> HIDE DEF booking
  <2>5. seed'[r] = next
    BY <1>1, <2>2 DEF Disturbed
  <2>6. /\ slots' \in [Bookers -> SeedBooking \cup {Null}]
        /\ slots'[r] # Null /\ slots'[r].service = s
        /\ \A b \in Bookers : b # r => slots'[b] = slots[b]
    BY <1>1, <2>2, <2>4, SeedNulls
  <2>7. Grows /\ Only("booking")
    BY <1>1, <2>4, <2>6 DEF Grows, Only
  <2>8. Behind(r)'
    <3>1. BookedAt(s)'
      BY <1>1, <2>3, <2>5, <2>6 DEF BookedAt
    <3> QED BY <1>1, <2>3, <2>5, <3>1 DEF Behind
  <2>9. Unraced(r)' /\ Reseeds(r)'
    BY <1>1, <2>3, <2>5 DEF Unraced, Reseeds, Running
  <2>10. /\ [seed EXCEPT ![r] = next] \in [Runs -> SeedRun]
         /\ \A q \in Runs : q # r => [seed EXCEPT ![r] = next][q] = seed[q]
    BY <1>1, <2>3
  <2>11. \A q \in Runs : q # r => (slots'[q] # Null => slots[q] # Null)
    BY <2>6 DEF Bookers
  <2>12. /\ accounts' \in SUBSET AccountStages
         /\ catalog' \in [Runs -> SeedListing \cup {Null}]
    BY <1>1 DEF SeedInv, SeedTyped
  <2>13. PICK runs : runs = [seed EXCEPT ![r] = next]
    OBVIOUS
  <2>14. /\ runs \in [Runs -> SeedRun] /\ seed' = Disturbed(runs, r, "booking")
         /\ \A q \in Runs : q # r => runs[q] = seed[q]
    BY <2>2, <2>10, <2>13
  <2> QED BY <2>6, <2>7, <2>8, <2>9, <2>11, <2>12, <2>14, LoudStep
<1>3. CASE SlotTaken(s)
  <2>1. PICK next : next = [seed[r] EXCEPT !.pc = "failed"]
    OBVIOUS
  <2>2. seed' = [seed EXCEPT ![r] = next] /\ UNCHANGED <<accounts, catalog, slots>>
    BY <1>1, <1>3, <2>1 DEF SaveBooking
  <2>3. /\ next \in SeedRun /\ next.pc = "failed" /\ next.stage = "booking"
        /\ next.service = s /\ next.settled = seed[r].settled /\ next.raced = seed[r].raced
         /\ next.added = seed[r].added /\ seed'[r] = next
    BY <1>1, <2>1, <2>2 DEF SeedRun
  <2>4. seed[r].raced
    BY <1>1, <1>3 DEF Unraced, SlotTaken, BookedAt
  <2>5. Behind(r)' /\ Unraced(r)' /\ Reseeds(r)'
    BY <1>1, <2>2, <2>3, <2>4 DEF Behind, Unraced, Reseeds, Running
  <2> QED BY <2>2, <2>3, <2>5, QuietStep
<1> QED BY <1>2, <1>3

LEMMA StopStep == ASSUME SeedInv, NEW r \in Runs, Stop(r) PROVE SeedInv'
<1>1. /\ seed[r] \in SeedRun /\ Behind(r) /\ Unraced(r) /\ Reseeds(r) /\ seed \in [Runs -> SeedRun]
      /\ seed[r].pc \in {"find", "save"} /\ UNCHANGED <<accounts, catalog, slots>>
  BY DEF SeedInv, SeedTyped, Stop, Running
<1>2. PICK next : next = [seed[r] EXCEPT !.pc = "stopped"]
  OBVIOUS
<1>3. seed' = [seed EXCEPT ![r] = next]
  BY <1>1, <1>2 DEF Stop
<1>4. /\ next \in SeedRun /\ next.pc = "stopped" /\ next.stage = seed[r].stage
      /\ next.service = seed[r].service /\ next.settled = seed[r].settled
      /\ next.added = seed[r].added /\ next.raced = seed[r].raced
      /\ seed'[r] = next
  BY <1>1, <1>2, <1>3 DEF SeedRun
<1>5. Behind(r)' /\ Unraced(r)' /\ Reseeds(r)'
  BY <1>1, <1>4 DEF Behind, Unraced, Reseeds, Running
<1> QED BY <1>1, <1>3, <1>4, <1>5, QuietStep

LEMMA BeginStep == ASSUME SeedInv, NEW r \in Runs, Begin(r) PROVE SeedInv'
<1>1. /\ seed \in [Runs -> SeedRun] /\ seed[r] = NoRun /\ Behind(r)
      /\ UNCHANGED <<accounts, catalog, slots>>
  BY DEF SeedInv, SeedTyped, Begin
<1>2. PICK next : next = [NoRun EXCEPT !.pc = "find", !.settled = Complete]
  OBVIOUS
<1>3. seed' = [seed EXCEPT ![r] = next]
  BY <1>2 DEF Begin
<1>4. Complete \in BOOLEAN
  BY DEF Complete
<1>5. /\ next \in SeedRun /\ next.pc = "find" /\ next.stage = "vendor" /\ next.added = {}
      /\ next.settled = Complete
  BY <1>2, <1>4 DEF NoRun, SeedRun, Stages
<1>6. seed'[r] = next
  BY <1>1, <1>3
<1>7. Behind(r)'
  BY <1>1, <1>5, <1>6 DEF Behind, NoRun
<1>8. Unraced(r)' /\ Reseeds(r)'
  BY <1>1, <1>5, <1>6 DEF Unraced, Reseeds, Complete, Findable, BookedAt
<1> QED BY <1>1, <1>3, <1>5, <1>7, <1>8, QuietStep

\* What others store leaves everything there that a run counts on.
LEMMA PlatformStep == ASSUME SeedInv, PlatformInUse PROVE SeedInv'
<1>1. /\ Null \notin Runs /\ seed \in [Runs -> SeedRun]
      /\ accounts \in SUBSET AccountStages
      /\ catalog \in [Runs -> SeedListing \cup {Null}]
      /\ slots \in [Bookers -> SeedBooking \cup {Null}]
  BY SeedNulls DEF SeedInv, SeedTyped
<1> DEFINE Stored(stage) ==
      /\ seed' = Disturbed(seed, Null, stage) /\ Only(stage)
      /\ accounts' \in SUBSET AccountStages
      /\ catalog' \in [Runs -> SeedListing \cup {Null}]
      /\ slots' \in [Bookers -> SeedBooking \cup {Null}]
      /\ Grows /\ \A q \in Runs : slots'[q] # Null => slots[q] # Null
<1>2. ASSUME NEW a \in AccountStages, RegisterAddress(a) PROVE Stored(a)
  BY <1>1, <1>2 DEF RegisterAddress, Disturb, Grows, Only, BookedAt
<1>3. ASSUME NEW s \in Runs, RenameListing(s) \/ ArchiveListing(s) PROVE Stored(Null)
  <2>1. /\ catalog[s] \in SeedListing /\ UNCHANGED <<accounts, slots>>
        /\ seed' = Disturbed(seed, Null, Null)
        /\ \/ catalog' = [catalog EXCEPT ![s].titled = FALSE]
           \/ catalog' = [catalog EXCEPT ![s].archived = TRUE]
    BY <1>1, <1>3 DEF RenameListing, ArchiveListing, Findable, Disturb
  <2>2. \E l \in SeedListing : catalog' = [catalog EXCEPT ![s] = l]
    <3>1. /\ [catalog[s] EXCEPT !.titled = FALSE] \in SeedListing
          /\ [catalog[s] EXCEPT !.archived = TRUE] \in SeedListing
      BY <2>1 DEF SeedListing
    <3>2. \/ catalog' = [catalog EXCEPT ![s] = [catalog[s] EXCEPT !.titled = FALSE]]
          \/ catalog' = [catalog EXCEPT ![s] = [catalog[s] EXCEPT !.archived = TRUE]]
      BY <2>1
    <3> QED BY <3>1, <3>2
  <2> QED BY <1>1, <2>1, <2>2, SeedNulls DEF Grows, Only, BookedAt
<1>4. ASSUME NEW g \in Guests, NEW s \in Runs, BookSlot(g, s) PROVE Stored("booking")
  <2>1. PICK booking : booking = [service |-> s, cancelled |-> FALSE]
    OBVIOUS
  <2>2. booking \in SeedBooking
    BY <2>1 DEF SeedBooking
  <2>3. /\ slots[g] = Null /\ UNCHANGED <<accounts, catalog>> /\ g \in Bookers /\ g \notin Runs
        /\ slots' = [slots EXCEPT ![g] = booking] /\ seed' = Disturbed(seed, Null, "booking")
    BY <1>4, <2>1, SeedIdsAssumption DEF BookSlot, Bookers, Disturb
  <2> QED BY <1>1, <2>2, <2>3 DEF Grows, Only, Bookers
<1>5. ASSUME NEW b \in Bookers, CancelSlot(b) PROVE Stored(Null)
  <2>1. PICK booking : booking = [slots[b] EXCEPT !.cancelled = TRUE]
    OBVIOUS
  <2>2. /\ slots[b] \in SeedBooking /\ UNCHANGED <<accounts, catalog>>
        /\ slots' = [slots EXCEPT ![b] = booking] /\ seed' = Disturbed(seed, Null, Null)
    BY <1>1, <1>5, <2>1 DEF CancelSlot, Disturb
  <2>3. booking \in SeedBooking /\ booking.service = slots[b].service /\ booking # Null
    BY <2>1, <2>2, SeedNulls DEF SeedBooking
  <2> QED BY <1>1, <2>2, <2>3, SeedNulls DEF Grows, Only, Bookers, BookedAt
<1>6. PICK stage : Stored(stage)
  BY <1>2, <1>3, <1>4, <1>5 DEF PlatformInUse
<1> QED BY <1>1, <1>6, LoudStep

LEMMA NextSeed == SeedInv /\ [SeedNext]_seedVars => SeedInv'
<1> SUFFICES ASSUME SeedInv, [SeedNext]_seedVars PROVE SeedInv'
  OBVIOUS
<1>1. CASE UNCHANGED seedVars
  BY <1>1 DEF seedVars, SeedInv, SeedTyped, Behind, Unraced, Reseeds, Running, Complete,
             Findable, BookedAt
<1>2. ASSUME NEW r \in Runs, SeederStep(r) PROVE SeedInv'
  BY <1>2, BeginStep, FindUserStep, SaveUserStep, FindServiceStep, SaveServiceStep,
     FindBookingStep, SaveBookingStep, StopStep DEF SeederStep
<1> QED BY <1>1, <1>2, PlatformStep DEF SeedNext

\* However the runs overlap, stop and meet the platform in use, every variable has
\* its type and a run past the stage service holds a listing.
THEOREM SeedTypeCorrect == SeedSpec => []SeedTypeOK
<1>1. SeedInv => SeedTypeOK
  BY SeedNulls DEF SeedInv, SeedTyped, SeedTypeOK, Behind
<1> QED BY <1>1, InitSeed, NextSeed, PTL DEF SeedSpec

\* A run that reports success leaves the data behind, whatever it found of earlier
\* runs and whoever ran beside it.
THEOREM SuccessMeansSeeded == SeedSpec => []DoneMeansSeeded
<1>1. SeedInv => DoneMeansSeeded
  <2> SUFFICES ASSUME SeedInv, NEW r \in Runs, seed[r].pc = "done"
               PROVE  /\ accounts = AccountStages
                      /\ seed[r].service # Null /\ catalog[seed[r].service] # Null
                      /\ BookedAt(seed[r].service)
    BY DEF DoneMeansSeeded
  <2>1. Behind(r) /\ seed[r].stage = "end"
    BY DEF SeedInv, Behind
  <2> QED BY <2>1, SeedNulls DEF Behind, AccountStages, SeedInv, SeedTyped
<1> QED BY <1>1, InitSeed, NextSeed, PTL DEF SeedSpec

\* A run that began with all the data there inserts no row unless somebody else has
\* stored something since.
THEOREM ReseedingAddsNothing == SeedSpec => []ReseedAddsNothing
<1>1. SeedInv => ReseedAddsNothing
  BY DEF SeedInv, Reseeds, ReseedAddsNothing
<1> QED BY <1>1, InitSeed, NextSeed, PTL DEF SeedSpec

\* A run fails only if somebody has inserted the row it is about to insert since it
\* looked for it.
THEOREM FailuresAreRaces == SeedSpec => []FailsOnlyOnRace
<1>1. SeedInv => FailsOnlyOnRace
  BY DEF SeedInv, Unraced, FailsOnlyOnRace
<1> QED BY <1>1, InitSeed, NextSeed, PTL DEF SeedSpec
===============================================================================
