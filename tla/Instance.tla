-------------------------------- MODULE Instance --------------------------------
(***************************************************************************)
(* One process of the platform: Bootstrap brings requests in, the routes   *)
(* hand them to the handlers of Pool.  All are served by the application   *)
(* whose routes Express tries first, so one pool is in use; those that     *)
(* overlapping cold starts open besides stay idle.                         *)
(***************************************************************************)
EXTENDS Bootstrap, Naturals, FiniteSets

CONSTANT PoolSize

ASSUME PoolSizeAssumption == PoolSize \in Nat \ {0}
ASSUME RequestsAssumption == IsFiniteSet(Requests)

VARIABLES db, free, queue, work

P == INSTANCE Pool

poolVars == <<db, free, queue, work>>

instanceVars == <<mode, app, routed, boot, answer, db, free, queue, work>>

InstanceInit == BootInit /\ P!PoolInit

\* NestFactory.create waits for the DataSource, which tries again ten times ...
CreatedConnected(x) == Created(x) /\ db = "up" /\ UNCHANGED poolVars

\* ... and then fails, which ends the process.
CreateFails(x) == boot[x] = "creating" /\ db = "stalled"

\* An initialised application hands the request to its handler.
Handle(r) ==
    /\ boot[r] = "inside" /\ answer[r] = Null
    /\ \E kind \in P!Kinds : P!Serve(r, kind)
    /\ UNCHANGED bootVars

Answered == \A r \in Requests : Present(r) => answer[r] # Null

\* Nest's shutdown: once the HTTP server has answered all it had taken, TypeORM
\* destroys the DataSource.  The pool drops who waits and waits for who holds a
\* connection: queries of health checks that have been answered.
Destroy ==
    /\ boot[Main] = "stopping" /\ Answered
    /\ boot' = [boot EXCEPT ![Main] = "destroying"]
    /\ queue' = <<>>
    /\ work' = [r \in Requests |->
                  IF work[r].pc = "queued" THEN P!NoMore
                                           ELSE work[r]]
    /\ UNCHANGED <<mode, app, routed, answer, db, free>>

\* The process is gone; PostgreSQL rolls back and closes its connections.
Gone ==
    /\ Die
    /\ free' = PoolSize /\ queue' = <<>>
    /\ work' = [r \in Requests |->
                  IF P!Busy(r) THEN P!NoMore
                               ELSE work[r]]
    /\ UNCHANGED db

Exit == boot[Main] = "destroying" /\ (\A r \in Requests : ~P!Using(r)) /\ Gone

\* process.exit(1) of a bootstrap that fails, in main.ts or in NestFactory.create.
BootFails ==
    /\ \/ \E x \in Bootstrappers : CreateFails(x)
       \/ boot[Main] = "initialising"
    /\ Gone

\* SIGKILL, an uncaught error, or the platform reclaims the function.
Crash == Gone

BootStep ==
    /\ \/ StartServer \/ Terminate
       \/ \E r \in Requests : Enter(r) \/ InitFails(r)
       \/ \E x \in Bootstrappers : Initialised(x)
    /\ UNCHANGED poolVars

PoolStep == P!PoolNext /\ UNCHANGED bootVars

InstanceNext ==
    \/ BootStep \/ PoolStep \/ Destroy \/ Exit \/ BootFails \/ Crash
    \/ \E x \in Bootstrappers : CreatedConnected(x)
    \/ \E r \in Requests : Handle(r)

InstanceSpec == InstanceInit /\ [][InstanceNext]_instanceVars

\* The event loop resumes every handler and bootstrap it can and fires its timers,
\* a DataSource is connected or given up, and PostgreSQL, while it is up, answers.
\* Nothing is assumed of arrivals, signals, crashes and outages.
Fairness ==
    /\ \A x \in Bootstrappers :
         /\ WF_instanceVars(CreatedConnected(x))
         /\ WF_instanceVars(Initialised(x) /\ UNCHANGED poolVars)
    /\ \A r \in Requests :
         /\ WF_instanceVars(Handle(r))
         /\ WF_instanceVars(P!HandlerStep(r) /\ UNCHANGED bootVars)
         /\ WF_instanceVars(P!Timeout(r) /\ UNCHANGED bootVars)
    /\ WF_instanceVars(BootFails)
    /\ WF_instanceVars(Destroy)
    /\ WF_instanceVars(Exit)

FairInstanceSpec == InstanceSpec /\ Fairness

-----------------------------------------------------------------------------
(* Properties *)

InstanceTypeOK == BootTypeOK /\ P!PoolTypeOK

\* Whatever fails, is abandoned or is cut off by a restart, every connection is
\* free or held by one request, a request waits in the queue once and only while
\* none is free.
NoConnectionLeaks ==
    /\ free + Cardinality({r \in Requests : P!Using(r)}) = PoolSize
    /\ queue # <<>> => free = 0
    /\ \A i, j \in DOMAIN queue : queue[i] = queue[j] => i = j
    /\ \A r \in Requests : work[r].pc = "queued" <=> \E i \in DOMAIN queue : queue[i] = r

\* A server that is asked to stop answers what it has taken: neither the signal
\* nor the end of its orderly shutdown, nor a crash during the last part of it,
\* costs anybody the answer.
StopLosesNothing ==
    [][boot'[Main] \in {"stopping", "destroying"} \/ boot[Main] = "destroying" =>
          \A r \in Requests : answer'[r] = "lost" => answer[r] = "lost"]_instanceVars

DatabaseReturns == <>[](db = "up")

\* The health check answers within its timer, whether or not PostgreSQL does and
\* however many requests are waiting for a connection before it.
HealthAnswered ==
    \A r \in Requests : work[r].kind = "health" ~> answer[r] # Null

\* Every request that has reached the process is answered once the database is
\* back: the waits for a connection form no cycle, since no handler asks for a
\* second connection while it holds one.
RequestsServed ==
    DatabaseReturns => \A r \in Requests : Present(r) ~> answer[r] # Null

\* After an outage the pool recovers: the queries that timed out health checks
\* have left in it drain, and all its connections are free again.
PoolRecovers ==
    DatabaseReturns => <>[](free = PoolSize /\ \A r \in Requests : ~P!Busy(r))

\* A server that is asked to stop does stop, although a query nobody waits for
\* any more may still hold a connection.
StopCompletes ==
    DatabaseReturns => (boot[Main] = "stopping" ~> boot[Main] = "outside")
===============================================================================
