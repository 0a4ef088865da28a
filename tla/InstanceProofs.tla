---------------------------- MODULE InstanceProofs ----------------------------
(***************************************************************************)
(* What a process keeps for any number of requests and connections: no     *)
(* connection is lost or given out twice, whatever fails, stops or starts  *)
(* again, and an orderly stop costs no answer.                             *)
(***************************************************************************)
EXTENDS Instance, Sequences, FiniteSetTheorems, TLAPS

(* The pool *)

Holders == {r \in Requests : P!Using(r)}

PoolTyped ==
    /\ db \in {"up", "stalled"}
    /\ free \in Nat
    /\ queue \in Seq(Requests)
    /\ work \in [Requests -> P!Work]

Conserved == free + Cardinality(Holders) = PoolSize

QueueRight ==
    /\ queue # <<>> => free = 0
    /\ \A i, j \in DOMAIN queue : queue[i] = queue[j] => i = j
    /\ \A r \in Requests : work[r].pc = "queued" <=> \E i \in DOMAIN queue : queue[i] = r

\* Whoever has a connection, or wants one, has a statement left for it.
PoolInv ==
    /\ PoolTyped
    /\ \A r \in Requests : P!Busy(r) => work[r].rest # <<>>
    /\ Conserved
    /\ QueueRight

LEMMA Leaks == NoConnectionLeaks <=> Conserved /\ QueueRight
BY DEF NoConnectionLeaks, Conserved, QueueRight, Holders

LEMMA HoldersFinite == IsFiniteSet(Holders) /\ Cardinality(Holders) \in Nat
<1>1. Holders \subseteq Requests
  BY DEF Holders
<1> QED BY <1>1, RequestsAssumption, FS_Subset, FS_CardinalityType

LEMMA NoMoreType ==
    /\ P!NoMore \in P!Work /\ P!NoMore.pc = "done"
    /\ P!NoWork \in P!Work /\ P!NoWork.pc = "new"
BY DEF P!NoMore, P!NoWork, P!Work

LEMMA PoolInitial == P!PoolInit => PoolInv
<1> SUFFICES ASSUME P!PoolInit PROVE PoolInv
  OBVIOUS
<1>1. PoolTyped /\ queue = <<>> /\ free = PoolSize /\ \A r \in Requests : work[r].pc = "new"
  BY NoMoreType, PoolSizeAssumption DEF P!PoolInit, PoolTyped
<1>2. Holders = {}
  BY <1>1 DEF Holders, P!Using
<1>3. Conserved
  BY <1>1, <1>2, FS_EmptySet, PoolSizeAssumption DEF Conserved
<1>4. DOMAIN queue = {}
  BY <1>1
<1>5. QueueRight
  BY <1>1, <1>4 DEF QueueRight
<1> QED BY <1>1, <1>3, <1>5 DEF PoolInv, P!Busy

\* A step that changes no phase and no connection.
LEMMA SamePhases ==
    ASSUME PoolInv, PoolTyped', UNCHANGED <<free, queue>>,
           \A r \in Requests : /\ work'[r].pc = work[r].pc
                               /\ work[r].rest # <<>> => work'[r].rest # <<>>
    PROVE  PoolInv'
<1>1. Holders' = Holders
  BY DEF Holders, P!Using
<1>2. Conserved' /\ QueueRight'
  BY <1>1 DEF PoolInv, Conserved, QueueRight
<1> QED BY <1>2 DEF PoolInv, P!Busy

\* r's phase changes between ones in which it has no connection and waits for none.
LEMMA AsidePhase ==
    ASSUME PoolInv, NEW r \in Requests, NEW next \in P!Work, UNCHANGED <<db, free, queue>>,
           work' = [work EXCEPT ![r] = next], work[r].pc \in {"new", "ready", "done"},
           next.pc \in {"ready", "done"}, next.pc = "ready" => next.rest # <<>>
    PROVE  PoolInv'
<1>1. \A q \in Requests : work'[q] = IF q = r THEN next ELSE work[q]
  BY DEF PoolInv, PoolTyped
<1>2. PoolTyped'
  BY DEF PoolInv, PoolTyped
<1>3. Holders' = Holders
  BY <1>1 DEF Holders, P!Using
<1>4. Conserved' /\ QueueRight'
  BY <1>1, <1>3 DEF PoolInv, Conserved, QueueRight
<1> QED BY <1>1, <1>2, <1>4 DEF PoolInv, P!Busy

LEMMA AcquireFree ==
    ASSUME PoolInv, NEW r \in Requests, work[r].pc = "ready", free > 0, free' = free - 1,
           work' = [work EXCEPT ![r].pc = "using"], UNCHANGED <<db, queue>>
    PROVE  PoolInv'
<1>1. \A q \in Requests : work'[q] = IF q = r THEN [work[r] EXCEPT !.pc = "using"] ELSE work[q]
  BY DEF PoolInv, PoolTyped
<1>2. work[r] \in P!Work /\ free \in Nat /\ free - 1 \in Nat
  BY DEF PoolInv, PoolTyped
<1>3. [work[r] EXCEPT !.pc = "using"] \in P!Work
  BY <1>2 DEF P!Work
<1>4. PoolTyped'
  BY <1>2, <1>3 DEF PoolInv, PoolTyped
<1>5. /\ work'[r].pc = "using" /\ work'[r].rest = work[r].rest
  BY <1>1, <1>2 DEF P!Work
<1>6. r \notin Holders /\ Holders' = Holders \cup {r}
  BY <1>1, <1>5 DEF Holders, P!Using
<1>7. Cardinality(Holders') = Cardinality(Holders) + 1
  BY <1>6, HoldersFinite, FS_AddElement
<1>8. Conserved'
  BY <1>2, <1>7, HoldersFinite DEF PoolInv, Conserved
<1>9. QueueRight'
  <2>1. queue = <<>>
    BY <1>2 DEF PoolInv, QueueRight
  <2>2. \A q \in Requests : work'[q].pc # "queued"
    BY <1>1, <1>5, <2>1 DEF PoolInv, QueueRight
  <2> QED BY <2>1, <2>2 DEF QueueRight
<1> QED BY <1>1, <1>4, <1>5, <1>8, <1>9 DEF PoolInv, P!Busy

LEMMA AcquireQueue ==
    ASSUME PoolInv, NEW r \in Requests, work[r].pc = "ready", free = 0, UNCHANGED <<db, free>>,
           work' = [work EXCEPT ![r].pc = "queued"], queue' = Append(queue, r)
    PROVE  PoolInv'
<1>1. \A q \in Requests : work'[q] = IF q = r THEN [work[r] EXCEPT !.pc = "queued"] ELSE work[q]
  BY DEF PoolInv, PoolTyped
<1>2. work[r] \in P!Work /\ queue \in Seq(Requests)
  BY DEF PoolInv, PoolTyped
<1>3. [work[r] EXCEPT !.pc = "queued"] \in P!Work
  BY <1>2 DEF P!Work
<1>4. PoolTyped'
  BY <1>2, <1>3 DEF PoolInv, PoolTyped
<1>5. work'[r].pc = "queued" /\ work'[r].rest = work[r].rest
  BY <1>1, <1>2 DEF P!Work
<1>6. Holders' = Holders
  BY <1>1, <1>5 DEF Holders, P!Using
<1>7. \A i \in DOMAIN queue : queue[i] # r
  BY DEF PoolInv, QueueRight
<1>8. /\ DOMAIN queue' = DOMAIN queue \cup {Len(queue) + 1}
      /\ \A i \in DOMAIN queue : queue'[i] = queue[i]
      /\ queue'[Len(queue) + 1] = r
  BY <1>2
<1>9. Conserved' /\ QueueRight'
  <2>1. \A i, j \in DOMAIN queue' : queue'[i] = queue'[j] => i = j
    BY <1>7, <1>8 DEF PoolInv, QueueRight
  <2>2. \A q \in Requests : work'[q].pc = "queued" <=> \E i \in DOMAIN queue' : queue'[i] = q
    BY <1>1, <1>5, <1>8 DEF PoolInv, QueueRight
  <2> QED BY <1>6, <2>1, <2>2 DEF PoolInv, Conserved, QueueRight
<1> QED BY <1>1, <1>4, <1>5, <1>9 DEF PoolInv, P!Busy

\* Giving a connection back frees it or hands it to the first that waits.
LEMMA GiveBackStep ==
    ASSUME PoolInv, NEW r \in Requests, P!Using(r), NEW then \in P!Work,
           then.pc \in {"ready", "done"}, then.pc = "ready" => then.rest # <<>>,
           P!GiveBack(r, then), UNCHANGED db
    PROVE  PoolInv'
<1>1. /\ free \in Nat /\ queue \in Seq(Requests) /\ work \in [Requests -> P!Work]
      /\ work[r].pc = "using"
  BY DEF PoolInv, PoolTyped, P!Using
<1>2. CASE queue = <<>>
  <2>1. free' = free + 1 /\ work' = [work EXCEPT ![r] = then] /\ queue' = queue
    BY <1>2 DEF P!GiveBack
  <2>2. \A q \in Requests : work'[q] = IF q = r THEN then ELSE work[q]
    BY <1>1, <2>1
  <2>3. PoolTyped'
    BY <1>1, <2>1 DEF PoolInv, PoolTyped
  <2>4. r \in Holders /\ Holders' = Holders \ {r}
    BY <2>2 DEF Holders, P!Using
  <2>5. Cardinality(Holders') = Cardinality(Holders) - 1
    BY <2>4, HoldersFinite, FS_RemoveElement
  <2>6. Conserved'
    BY <1>1, <2>1, <2>5, HoldersFinite DEF PoolInv, Conserved
  <2>7. QueueRight'
    BY <1>2, <2>1, <2>2 DEF PoolInv, QueueRight
  <2> QED BY <2>2, <2>3, <2>6, <2>7 DEF PoolInv, P!Busy
<1>3. CASE queue # <<>>
  <2>1. PICK h : h = Head(queue)
    OBVIOUS
  <2>2. /\ h = queue[1] /\ 1 \in DOMAIN queue /\ h \in Requests
    BY <1>1, <1>3, <2>1
  <2>3. work[h].pc = "queued" /\ h # r
    BY <1>1, <2>2 DEF PoolInv, QueueRight
  <2>4. /\ work' = [[work EXCEPT ![r] = then] EXCEPT ![h].pc = "using"]
        /\ queue' = Tail(queue) /\ free' = free
    BY <1>3, <2>1 DEF P!GiveBack
  <2>5. \A q \in Requests : work'[q] = IF q = h THEN [work[h] EXCEPT !.pc = "using"]
                                       ELSE IF q = r THEN then ELSE work[q]
    BY <1>1, <2>2, <2>3, <2>4
  <2>6. work[h] \in P!Work /\ work'[h].pc = "using" /\ work'[h].rest = work[h].rest
    BY <1>1, <2>2, <2>5 DEF P!Work
  <2>7. PoolTyped'
    <3>1. [work[h] EXCEPT !.pc = "using"] \in P!Work
      BY <2>6 DEF P!Work
    <3>2. work' \in [Requests -> P!Work]
      BY <1>1, <2>4, <2>5, <3>1
    <3> QED BY <1>1, <1>3, <2>4, <3>2 DEF PoolInv, PoolTyped
  <2>8. /\ r \in Holders /\ h \notin Holders \ {r}
        /\ Holders' = (Holders \ {r}) \cup {h}
    BY <2>2, <2>3, <2>5, <2>6 DEF Holders, P!Using
  <2>9. Cardinality(Holders') = Cardinality(Holders)
    <3>1. /\ Cardinality(Holders \ {r}) = Cardinality(Holders) - 1
          /\ IsFiniteSet(Holders \ {r})
      BY <2>8, HoldersFinite, FS_RemoveElement
    <3>2. Cardinality((Holders \ {r}) \cup {h}) = Cardinality(Holders \ {r}) + 1
      BY <2>8, <3>1, FS_AddElement
    <3> QED BY <2>8, <3>1, <3>2, HoldersFinite
  <2>10. /\ DOMAIN queue' = 1 .. Len(queue) - 1 /\ DOMAIN queue = 1 .. Len(queue)
         /\ Len(queue) \in Nat
         /\ \A i \in DOMAIN queue' : i + 1 \in DOMAIN queue /\ queue'[i] = queue[i + 1]
    BY <1>1, <1>3, <2>4
  <2>11. \A i, j \in DOMAIN queue' : queue'[i] = queue'[j] => i = j
    BY <2>10 DEF PoolInv, QueueRight
  <2>12. ASSUME NEW q \in Requests
         PROVE  work'[q].pc = "queued" <=> \E i \in DOMAIN queue' : queue'[i] = q
    <3>1. work[q].pc = "queued" <=> \E i \in DOMAIN queue : queue[i] = q
      BY DEF PoolInv, QueueRight
    <3>2. (\E i \in DOMAIN queue' : queue'[i] = q) <=>
             \E i \in DOMAIN queue : i # 1 /\ queue[i] = q
      <4>1. \A i \in DOMAIN queue : i # 1 => i - 1 \in DOMAIN queue' /\ queue'[i - 1] = queue[i]
        BY <2>10
      <4> QED BY <2>10, <4>1
    <3>3. \A i \in DOMAIN queue : queue[i] = h => i = 1
      BY <2>2 DEF PoolInv, QueueRight
    <3>4. CASE q = h
      BY <2>6, <3>2, <3>3, <3>4
    <3>5. CASE q # h
      <4>1. work'[q].pc = "queued" <=> work[q].pc = "queued"
        BY <1>1, <2>5, <3>5
      <4> QED BY <2>2, <3>1, <3>2, <3>5, <4>1
    <3> QED BY <3>4, <3>5
  <2>13. Conserved' /\ QueueRight'
    BY <1>3, <2>4, <2>9, <2>11, <2>12 DEF PoolInv, Conserved, QueueRight
  <2>14. \A q \in Requests : P!Busy(q)' => work'[q].rest # <<>>
    BY <2>2, <2>3, <2>5, <2>6 DEF PoolInv, P!Busy
  <2> QED BY <2>7, <2>13, <2>14 DEF PoolInv
<1> QED BY <1>2, <1>3

LEMMA ServeStep ==
    ASSUME PoolInv, NEW r \in Requests, NEW kind \in P!Kinds, P!Serve(r, kind)
    PROVE  PoolInv'
<1>1. PICK next : next = [kind |-> kind, pc |-> "ready", rest |-> P!Program[kind]]
  OBVIOUS
<1>2. P!Program[kind] \in Seq(1 .. 2) /\ P!Program[kind] # <<>>
  <2>1. kind = "health" \/ kind = "create"
    BY DEF P!Kinds, P!Program
  <2>2. P!Program["health"] = <<1>> /\ P!Program["create"] = <<1, 1, 2>>
    BY DEF P!Program
  <2>3. <<1>> \in Seq(1 .. 2) /\ <<1, 1, 2>> \in Seq(1 .. 2) /\ <<1>> # <<>> /\ <<1, 1, 2>> # <<>>
    OBVIOUS
  <2> QED BY <2>1, <2>2, <2>3
<1>3. next \in P!Work /\ next.pc = "ready" /\ next.rest # <<>>
  BY <1>1, <1>2 DEF P!Work
<1>4. /\ work' = [work EXCEPT ![r] = next] /\ work[r].pc = "new"
      /\ UNCHANGED <<db, free, queue>>
  BY <1>1, NoMoreType DEF P!Serve
<1> QED BY <1>3, <1>4, AsidePhase

LEMMA AcquireStep ==
    ASSUME PoolInv, NEW r \in Requests, P!Acquire(r)
    PROVE  PoolInv'
BY AcquireFree, AcquireQueue DEF P!Acquire

LEMMA FinishStep ==
    ASSUME PoolInv, NEW r \in Requests, P!FinishStatement(r)
    PROVE  PoolInv'
<1> DEFINE rest == work[r].rest
<1>1. /\ P!Using(r) /\ UNCHANGED db /\ work \in [Requests -> P!Work] /\ work[r] \in P!Work
      /\ rest \in Seq(1 .. 2) /\ rest # <<>>
  BY DEF P!FinishStatement, PoolInv, PoolTyped, P!Work, P!Busy, P!Using
<1>2. CASE Head(rest) > 1 /\ work' = [work EXCEPT ![r].rest[1] = @ - 1] /\ UNCHANGED <<free, queue>>
  <2>1. PICK shorter : shorter = [rest EXCEPT ![1] = rest[1] - 1]
    OBVIOUS
  <2>2. shorter \in Seq(1 .. 2) /\ shorter # <<>>
    BY <1>1, <1>2, <2>1
  <2>3. PICK next : next = [work[r] EXCEPT !.rest = shorter]
    OBVIOUS
  <2>4. next \in P!Work /\ next.pc = work[r].pc /\ next.rest = shorter
    BY <1>1, <2>2, <2>3 DEF P!Work
  <2>5. work' = [work EXCEPT ![r] = next]
    BY <1>1, <1>2, <2>1, <2>3
  <2>6. \A q \in Requests : work'[q] = IF q = r THEN next ELSE work[q]
    BY <1>1, <2>5
  <2>7. PoolTyped'
    BY <1>1, <1>2, <2>4, <2>5 DEF PoolInv, PoolTyped
  <2> QED BY <1>2, <2>2, <2>4, <2>6, <2>7, SamePhases
<1>3. CASE /\ Tail(rest) # <<>>
           /\ P!GiveBack(r, [work[r] EXCEPT !.pc = "ready", !.rest = Tail(rest)])
  <2>1. PICK then : then = [work[r] EXCEPT !.pc = "ready", !.rest = Tail(rest)]
    OBVIOUS
  <2>2. Tail(rest) \in Seq(1 .. 2)
    BY <1>1
  <2>3. then \in P!Work /\ then.pc = "ready" /\ then.rest # <<>>
    BY <1>1, <1>3, <2>1, <2>2 DEF P!Work
  <2>4. P!GiveBack(r, then)
    BY <1>3, <2>1
  <2> QED BY <1>1, <2>3, <2>4, GiveBackStep
<1>4. CASE P!GiveBack(r, P!NoMore)
  <2>1. PICK then : then = P!NoMore
    OBVIOUS
  <2> QED BY <1>1, <1>4, <2>1, NoMoreType, GiveBackStep
<1> QED BY <1>2, <1>3, <1>4 DEF P!FinishStatement

LEMMA FailStep ==
    ASSUME PoolInv, NEW r \in Requests, P!FailStatement(r)
    PROVE  PoolInv'
<1>1. PICK then : then = P!NoMore
  OBVIOUS
<1> QED BY <1>1, NoMoreType, GiveBackStep DEF P!FailStatement

LEMMA PoolNextStep == ASSUME PoolInv, P!PoolNext PROVE PoolInv'
<1>1. ASSUME UNCHANGED <<free, queue, work>>, db' \in {"up", "stalled"} PROVE PoolInv'
  <2>1. PoolTyped'
    BY <1>1 DEF PoolInv, PoolTyped
  <2> QED BY <1>1, <2>1, SamePhases
<1>2. CASE P!Stall \/ P!Recover
  BY <1>1, <1>2 DEF P!Stall, P!Recover
<1>3. ASSUME NEW r \in Requests, P!Timeout(r) PROVE PoolInv'
  BY <1>1, <1>3 DEF P!Timeout, P!poolVars, PoolInv, PoolTyped
<1>4. ASSUME NEW r \in Requests, P!HandlerStep(r) \/ P!FailStatement(r) PROVE PoolInv'
  BY <1>4, AcquireStep, FinishStep, FailStep DEF P!HandlerStep
<1> QED BY <1>2, <1>3, <1>4 DEF P!PoolNext

\* A shutdown sends away who waits, and leaves the connections where they are.
LEMMA DestroyStep == ASSUME PoolInv, Destroy PROVE PoolInv'
<1>1. /\ queue' = <<>> /\ UNCHANGED <<db, free>> /\ work \in [Requests -> P!Work]
      /\ work' = [r \in Requests |-> IF work[r].pc = "queued" THEN P!NoMore ELSE work[r]]
  BY DEF Destroy, PoolInv, PoolTyped
<1>2. \A r \in Requests : /\ work'[r] = IF work[r].pc = "queued" THEN P!NoMore ELSE work[r]
                          /\ work'[r].pc # "queued"
  BY <1>1, NoMoreType
<1>3. PoolTyped'
  BY <1>1, NoMoreType DEF PoolInv, PoolTyped
<1>4. Holders' = Holders
  BY <1>2, NoMoreType DEF Holders, P!Using
<1>5. DOMAIN queue' = {}
  BY <1>1
<1>6. Conserved' /\ QueueRight'
  BY <1>1, <1>2, <1>4, <1>5 DEF PoolInv, Conserved, QueueRight
<1> QED BY <1>2, <1>3, <1>6, NoMoreType DEF PoolInv, P!Busy

\* When the process is gone PostgreSQL has all its connections back.
LEMMA GoneStep == ASSUME PoolInv, Gone PROVE PoolInv'
<1>1. /\ queue' = <<>> /\ free' = PoolSize /\ UNCHANGED db /\ work \in [Requests -> P!Work]
      /\ work' = [r \in Requests |-> IF P!Busy(r) THEN P!NoMore ELSE work[r]]
  BY DEF Gone, PoolInv, PoolTyped
<1>2. \A r \in Requests : /\ work'[r] = IF P!Busy(r) THEN P!NoMore ELSE work[r]
                          /\ work'[r].pc \notin {"ready", "queued", "using"}
  BY <1>1, NoMoreType DEF P!Busy
<1>3. PoolTyped'
  BY <1>1, NoMoreType, PoolSizeAssumption DEF PoolInv, PoolTyped
<1>4. Holders' = {} /\ DOMAIN queue' = {}
  BY <1>1, <1>2 DEF Holders, P!Using
<1>5. Conserved' /\ QueueRight'
  BY <1>1, <1>2, <1>4, FS_EmptySet, PoolSizeAssumption DEF Conserved, QueueRight
<1> QED BY <1>2, <1>3, <1>5 DEF PoolInv, P!Busy

LEMMA NextPool == PoolInv /\ [InstanceNext]_instanceVars => PoolInv'
<1> SUFFICES ASSUME PoolInv, [InstanceNext]_instanceVars PROVE PoolInv'
  OBVIOUS
<1>1. CASE UNCHANGED poolVars
  BY <1>1 DEF poolVars, PoolInv, PoolTyped, Holders, P!Using, P!Busy, Conserved, QueueRight
<1>2. CASE Gone \/ Destroy \/ P!PoolNext
  BY <1>2, GoneStep, DestroyStep, PoolNextStep
<1>3. ASSUME NEW r \in Requests, Handle(r) PROVE PoolInv'
  BY <1>3, ServeStep DEF Handle
<1>4. \/ UNCHANGED poolVars \/ Gone \/ Destroy \/ P!PoolNext
      \/ \E r \in Requests : Handle(r)
  BY DEF InstanceNext, instanceVars, poolVars, BootStep, PoolStep, Exit, BootFails, Crash,
         CreatedConnected
<1> QED BY <1>1, <1>2, <1>3, <1>4

LEMMA InitPool == InstanceInit => PoolInv
BY PoolInitial DEF InstanceInit

\* Whatever fails, is abandoned or is cut off by a restart, every connection of a
\* pool of any size is free or held by one request, a request waits in the queue
\* once and only while none is free.
THEOREM ConnectionsConserved == InstanceSpec => []NoConnectionLeaks
<1>1. PoolInv => NoConnectionLeaks
  BY Leaks DEF PoolInv
<1> QED BY <1>1, InitPool, NextPool, PTL DEF InstanceSpec

-----------------------------------------------------------------------------
(* Starting and stopping *)

BootTyped ==
    /\ mode \in {"server", "function"}
    /\ app \in BOOLEAN
    /\ routed \in BOOLEAN
    /\ boot \in [Bootstrappers -> Phases]
    /\ answer \in [Requests -> Answers \cup {Null}]

\* Who bootstraps, by the mode; and which traces it has left in the process.
BootRight ==
    /\ mode = "function" => boot[Main] = "outside"
    /\ routed => app
    /\ \A x \in Bootstrappers : boot[x] = "initialising" => app
    /\ boot[Main] \in {"inside", "stopping", "destroying"} => routed
    /\ app /\ ~routed => \E x \in Bootstrappers : \/ boot[x] = "initialising"
                                                  \/ /\ x \in Requests /\ boot[x] = "inside"
                                                     /\ answer[x] = "failed"
    /\ boot[Main] = "destroying" => Answered

BootInv == BootTyped /\ BootRight

LEMMA InitBoot == InstanceInit => BootInv
BY NullAnswerAssumption
   DEF InstanceInit, BootInit, BootInv, BootTyped, BootRight, Bootstrappers, Phases

\* The process ends: nothing is left of it.
LEMMA DieBoot == ASSUME BootInv, Die PROVE BootInv'
<1>1. /\ app' = FALSE /\ routed' = FALSE /\ mode' = mode
      /\ \A x \in Bootstrappers : boot'[x] \in {"gone", "outside"}
      /\ boot' = [x \in Bootstrappers |-> IF x # Main /\ Present(x) THEN "gone" ELSE "outside"]
      /\ boot'[Main] = "outside"
  BY DEF Die, Bootstrappers
<1>2. BootTyped'
  BY <1>1 DEF Die, BootInv, BootTyped, Phases, Answers
<1>3. BootRight'
  BY <1>1 DEF BootRight
<1> QED BY <1>2, <1>3 DEF BootInv

\* The handlers give answers to those who have none.
LEMMA PoolAnswers ==
    ASSUME answer \in [Requests -> Answers \cup {Null}], P!PoolNext
    PROVE  /\ answer' \in [Requests -> Answers \cup {Null}]
           /\ \A r \in Requests : \/ answer'[r] = answer[r]
                                  \/ answer[r] = Null /\ answer'[r] \in {"ok", "error"}
<1> DEFINE Told ==
      /\ answer' \in [Requests -> Answers \cup {Null}]
      /\ \A r \in Requests : \/ answer'[r] = answer[r]
                             \/ answer[r] = Null /\ answer'[r] \in {"ok", "error"}
<1>1. CASE UNCHANGED answer
  BY <1>1
<1>2. ASSUME NEW r \in Requests, NEW told \in {"ok", "error"}, P!Tell(r, told) PROVE Told
  BY <1>2 DEF P!Tell, Answers
<1>3. ASSUME NEW r \in Requests, P!HandlerStep(r) \/ P!FailStatement(r) \/ P!Timeout(r)
      PROVE  UNCHANGED answer \/ \E told \in {"ok", "error"} : P!Tell(r, told)
  BY <1>3 DEF P!HandlerStep, P!Acquire, P!FinishStatement, P!FailStatement, P!Timeout
<1> HIDE DEF Told
<1>4. Told
  BY <1>1, <1>2, <1>3 DEF P!PoolNext, P!Stall, P!Recover, Told
<1> QED BY <1>4 DEF Told

\* Handlers change nothing of how the process came up.
LEMMA AnswersBoot ==
    ASSUME BootInv, UNCHANGED bootVars,
           answer' \in [Requests -> Answers \cup {Null}],
           \A r \in Requests : answer[r] # Null => answer'[r] = answer[r]
    PROVE  BootInv'
<1>1. BootTyped'
  BY DEF bootVars, BootInv, BootTyped
<1>2. ASSUME NEW x \in Requests, answer[x] = "failed" PROVE answer'[x] = "failed"
  BY <1>2, NullAnswerAssumption DEF Answers
<1>3. Answered => Answered'
  BY DEF Answered, Present, bootVars
<1>4. app /\ ~routed => \E x \in Bootstrappers : \/ boot[x] = "initialising"
                                                 \/ /\ x \in Requests /\ boot[x] = "inside"
                                                    /\ answer'[x] = "failed"
  BY <1>2 DEF BootInv, BootRight
<1>5. BootRight'
  BY <1>3, <1>4 DEF bootVars, BootInv, BootRight
<1> QED BY <1>1, <1>5 DEF BootInv

LEMMA EnterBoot == ASSUME BootInv, NEW r \in Requests, Enter(r) PROVE BootInv'
<1>1. /\ UNCHANGED <<mode, app, routed>> /\ boot[r] = "outside" /\ r # Main
      /\ boot \in [Bootstrappers -> Phases] /\ r \in Bootstrappers
      /\ answer \in [Requests -> Answers \cup {Null}]
  BY MainAssumption DEF Enter, BootInv, BootTyped, Bootstrappers
<1>2. \/ boot' = [boot EXCEPT ![r] = "inside"]
      \/ boot' = [boot EXCEPT ![r] = "creating"]
  BY DEF Enter, Dispatch
<1>3. UNCHANGED answer \/ answer' = [answer EXCEPT ![r] = "noRoute"]
  BY DEF Enter, Dispatch
<1>4. \A x \in Bootstrappers : x # r => boot'[x] = boot[x]
  BY <1>1, <1>2
<1>5. \A q \in Requests : q # r => answer'[q] = answer[q]
  BY <1>1, <1>3
<1>6. boot[Main] # "destroying" /\ boot'[Main] = boot[Main]
  BY <1>1, <1>4 DEF Enter, Listening, BootInv, BootRight, Bootstrappers
<1>7. BootTyped'
  BY <1>1, <1>2, <1>3 DEF BootInv, BootTyped, Phases, Answers
<1>8. app /\ ~routed => \E x \in Bootstrappers : \/ boot'[x] = "initialising"
                                                 \/ /\ x \in Requests /\ boot'[x] = "inside"
                                                    /\ answer'[x] = "failed"
  BY <1>1, <1>4, <1>5 DEF BootInv, BootRight
<1>9. \A x \in Bootstrappers : boot'[x] = "initialising" => app
  BY <1>1, <1>2, <1>4 DEF BootInv, BootRight
<1>10. BootRight'
  BY <1>1, <1>6, <1>8, <1>9 DEF BootInv, BootRight
<1> QED BY <1>7, <1>10 DEF BootInv

\* An application has been created, or initialised, or not.
LEMMA BootstrapBoot ==
    ASSUME BootInv, NEW x \in Bootstrappers, Created(x) \/ Initialised(x) \/ InitFails(x)
    PROVE  BootInv'
<1>1. /\ boot \in [Bootstrappers -> Phases] /\ UNCHANGED mode
      /\ answer \in [Requests -> Answers \cup {Null}]
      /\ boot[x] \in {"creating", "initialising"}
      /\ \A y \in Bootstrappers : y # x => boot'[y] = boot[y]
  BY DEF BootInv, BootTyped, Created, Initialised, InitFails
<1>2. mode = "function" => x # Main /\ boot'[Main] = "outside"
  BY <1>1 DEF BootInv, BootRight, Bootstrappers
<1>3. CASE Created(x)
  <2>1. boot'[x] = "initialising" /\ app' = TRUE /\ UNCHANGED <<routed, answer>>
    BY <1>1, <1>3 DEF Created
  <2>2. BootTyped'
    BY <1>1, <1>3 DEF Created, BootInv, BootTyped, Phases
  <2>3. boot'[Main] \in {"inside", "stopping", "destroying"} => routed /\ boot'[Main] = boot[Main]
    BY <1>1, <2>1 DEF BootInv, BootRight, Bootstrappers
  <2>4. boot'[Main] = "destroying" => Answered'
    BY <1>1, <2>1, <2>3 DEF BootInv, BootRight, Answered, Present, Bootstrappers
  <2> QED BY <1>1, <1>2, <2>1, <2>2, <2>3, <2>4 DEF BootInv, BootRight
<1>4. CASE Initialised(x)
  <2>1. boot'[x] = "inside" /\ routed' = TRUE /\ UNCHANGED <<app, answer>> /\ app
    BY <1>1, <1>4 DEF Initialised, BootInv, BootRight
  <2>2. BootTyped'
    BY <1>1, <1>4 DEF Initialised, BootInv, BootTyped, Phases
  <2>3. boot'[Main] = "destroying" => boot[Main] = "destroying"
    BY <1>1, <2>1 DEF Bootstrappers
  <2>4. boot'[Main] = "destroying" => Answered'
    BY <1>1, <2>1, <2>3 DEF Initialised, BootInv, BootRight, Answered, Present, Bootstrappers
  <2> QED BY <1>1, <1>2, <2>1, <2>2, <2>4 DEF BootInv, BootRight
<1>5. CASE InitFails(x)
  <2>1. /\ x \in Requests /\ x # Main /\ boot'[x] = "inside" /\ UNCHANGED <<app, routed>> /\ app
        /\ answer' = [answer EXCEPT ![x] = "failed"]
    BY <1>1, <1>5, MainAssumption DEF InitFails, BootInv, BootRight
  <2>2. BootTyped'
    BY <1>1, <1>5, <2>1 DEF InitFails, BootInv, BootTyped, Phases, Answers
  <2>3. boot'[Main] = boot[Main] /\ answer'[x] = "failed"
    BY <1>1, <2>1 DEF Bootstrappers
  <2>4. boot'[Main] = "destroying" => Answered'
    BY <1>1, <2>1, <2>3, NullAnswerAssumption
       DEF BootInv, BootRight, Answered, Present, Bootstrappers, Answers
  <2> QED BY <1>1, <1>2, <2>1, <2>2, <2>3, <2>4 DEF BootInv, BootRight
<1> QED BY <1>3, <1>4, <1>5

\* main.ts starts, is told to stop, and stops.
LEMMA ServerBoot ==
    ASSUME BootInv, StartServer \/ Terminate \/ Destroy
    PROVE  BootInv'
<1>1. /\ boot \in [Bootstrappers -> Phases] /\ UNCHANGED <<mode, app, routed, answer>>
      /\ \A r \in Requests : boot'[r] = boot[r]
      /\ \/ boot[Main] = "outside" /\ boot'[Main] = "creating" /\ mode = "server"
         \/ boot[Main] = "inside" /\ boot'[Main] = "stopping"
         \/ boot[Main] = "stopping" /\ boot'[Main] = "destroying" /\ Answered
      /\ boot' \in [Bootstrappers -> Phases]
  BY MainAssumption DEF StartServer, Terminate, Listening, Destroy, BootInv, BootTyped,
                        Bootstrappers, Phases
<1>2. Answered => Answered'
  BY <1>1 DEF Answered, Present
<1>3. BootTyped'
  BY <1>1 DEF BootInv, BootTyped
<1>4. \A x \in Bootstrappers : boot'[x] = "initialising" <=> boot[x] = "initialising"
  BY <1>1 DEF Bootstrappers
<1>5. app /\ ~routed => \E x \in Bootstrappers : \/ boot'[x] = "initialising"
                                                 \/ /\ x \in Requests /\ boot'[x] = "inside"
                                                    /\ answer'[x] = "failed"
  BY <1>1, <1>4 DEF BootInv, BootRight
<1> QED BY <1>1, <1>2, <1>3, <1>4, <1>5 DEF BootInv, BootRight

LEMMA NextBoot == BootInv /\ [InstanceNext]_instanceVars => BootInv'
<1> SUFFICES ASSUME BootInv, [InstanceNext]_instanceVars PROVE BootInv'
  OBVIOUS
<1>1. CASE UNCHANGED <<bootVars, answer>>
  BY <1>1, AnswersBoot DEF bootVars, BootInv, BootTyped
<1>2. CASE PoolStep
  BY <1>2, PoolAnswers, AnswersBoot DEF PoolStep, BootInv, BootTyped
<1>3. CASE BootStep
  BY <1>3, ServerBoot, EnterBoot, BootstrapBoot DEF BootStep, Bootstrappers
<1>4. CASE Destroy
  BY <1>4, ServerBoot
<1>5. CASE Exit \/ BootFails \/ Crash
  BY <1>5, DieBoot DEF Exit, BootFails, Crash, Gone
<1>6. ASSUME NEW x \in Bootstrappers, CreatedConnected(x) PROVE BootInv'
  BY <1>6, BootstrapBoot DEF CreatedConnected
<1>7. ASSUME NEW r \in Requests, Handle(r) PROVE BootInv'
  BY <1>1, <1>7 DEF Handle, P!Serve
<1>8. UNCHANGED instanceVars => UNCHANGED <<bootVars, answer>>
  BY DEF instanceVars, bootVars
<1> QED BY <1>1, <1>2, <1>3, <1>4, <1>5, <1>6, <1>7, <1>8 DEF InstanceNext

\* However often the process is started, stopped, crashes or fails to come up,
\* every variable has its type.
THEOREM InstanceTypeCorrect == InstanceSpec => []InstanceTypeOK
<1>1. PoolInv /\ BootInv => InstanceTypeOK
  <2> SUFFICES ASSUME PoolInv, BootInv PROVE InstanceTypeOK
    OBVIOUS
  <2>1. free \in 0 .. PoolSize
    BY HoldersFinite, PoolSizeAssumption DEF PoolInv, PoolTyped, Conserved
  <2>2. P!PoolTypeOK
    BY <2>1 DEF P!PoolTypeOK, PoolInv, PoolTyped
  <2>3. BootTypeOK
    BY DEF BootTypeOK, BootInv, BootTyped, BootRight
  <2> QED BY <2>2, <2>3 DEF InstanceTypeOK
<1> QED BY <1>1, InitPool, NextPool, InitBoot, NextBoot, PTL DEF InstanceSpec

\* A request runs into a process without routes only in a serverless cold start
\* that another request shares, whatever the number of requests that start it.
THEOREM NoRouteOnlyInSharedColdStart == InstanceSpec => NoRouteExplained
<1>1. ASSUME BootInv, [InstanceNext]_instanceVars, NEW r \in Requests,
             answer[r] = Null, answer'[r] = "noRoute"
      PROVE  /\ mode = "function"
             /\ \E q \in Requests \ {r} : \/ boot[q] = "initialising"
                                          \/ boot[q] = "inside" /\ answer[q] = "failed"
  <2>1. Null # "noRoute" /\ answer \in [Requests -> Answers \cup {Null}]
    BY <1>1, NullAnswerAssumption DEF Answers, BootInv, BootTyped
  <2>2. ~UNCHANGED answer /\ answer'[r] # answer[r]
    BY <1>1, <2>1
  <2>3. PICK q \in Requests : Enter(q)
    <3>1. ~PoolStep
      BY <1>1, <2>1, PoolAnswers DEF PoolStep
    <3>2. ~Die
      BY <1>1, <2>1 DEF Die
    <3>3. \A q \in Requests : ~InitFails(q)
      BY <1>1, <2>1 DEF InitFails
    <3> QED BY <1>1, <2>2, <3>1, <3>2, <3>3
            DEF InstanceNext, instanceVars, BootStep, StartServer, Terminate, Initialised,
                Created, CreatedConnected, Handle, P!Serve, Destroy, Exit, BootFails, Crash, Gone
  <2>4. boot[q] = "outside" /\ q = r /\ ~routed /\ Dispatch(q)
    BY <1>1, <2>1, <2>2, <2>3 DEF Enter, Dispatch
  <2>5. mode = "function" /\ app
    BY <1>1, <2>3, <2>4 DEF Enter, Listening, Cold, BootInv, BootRight, Dispatch, BootTyped,
                            Bootstrappers
  <2>6. PICK x \in Bootstrappers : \/ boot[x] = "initialising"
                                   \/ x \in Requests /\ boot[x] = "inside" /\ answer[x] = "failed"
    BY <1>1, <2>4, <2>5 DEF BootInv, BootRight
  <2>7. x \in Requests /\ x # r
    BY <1>1, <2>4, <2>5, <2>6 DEF BootInv, BootRight, Bootstrappers
  <2> QED BY <2>5, <2>6, <2>7
<1>2. BootInv /\ [InstanceNext]_instanceVars
      => [\A r \in Requests :
            answer[r] = Null /\ answer'[r] = "noRoute" =>
               /\ mode = "function"
               /\ \E q \in Requests \ {r} :
                    \/ boot[q] = "initialising"
                    \/ boot[q] = "inside" /\ answer[q] = "failed"]_<<bootVars, answer>>
  BY <1>1
<1> QED BY <1>2, InitBoot, NextBoot, PTL DEF InstanceSpec, NoRouteExplained

\* An orderly stop costs nobody the answer: what the server has taken is answered
\* before its pool is destroyed, also if it crashes on the way out.
THEOREM StopKeepsAnswers == InstanceSpec => StopLosesNothing
<1>1. ASSUME BootInv, [InstanceNext]_instanceVars, NEW r \in Requests, answer'[r] = "lost",
             boot'[Main] \in {"stopping", "destroying"} \/ boot[Main] = "destroying"
      PROVE  answer[r] = "lost"
  <2>1. answer \in [Requests -> Answers \cup {Null}]
    BY <1>1 DEF BootInv, BootTyped
  <2>2. CASE UNCHANGED answer
    BY <1>1, <2>2
  <2>3. CASE Die
    <3>1. boot'[Main] = "outside"
      BY <2>3 DEF Die, Bootstrappers
    <3>2. Answered
      BY <1>1, <3>1 DEF BootInv, BootRight
    <3> QED BY <1>1, <2>1, <2>3, <3>2 DEF Die, Answered
  <2>4. CASE PoolStep
    BY <1>1, <2>1, <2>4, PoolAnswers DEF PoolStep
  <2>5. ASSUME NEW q \in Requests, Enter(q) \/ InitFails(q) PROVE answer[r] = "lost"
    BY <1>1, <2>1, <2>5 DEF Enter, Dispatch, InitFails
  <2> QED BY <1>1, <2>2, <2>3, <2>4, <2>5
          DEF InstanceNext, instanceVars, BootStep, StartServer, Terminate, Initialised, Created,
              CreatedConnected, Handle, P!Serve, Destroy, Exit, BootFails, Crash, Gone
<1>2. BootInv /\ [InstanceNext]_instanceVars
      => [boot'[Main] \in {"stopping", "destroying"} \/ boot[Main] = "destroying" =>
            \A r \in Requests : answer'[r] = "lost" => answer[r] = "lost"]_instanceVars
  BY <1>1
<1> QED BY <1>2, InitBoot, NextBoot, PTL DEF InstanceSpec, StopLosesNothing
===============================================================================
