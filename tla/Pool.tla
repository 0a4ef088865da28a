---------------------------------- MODULE Pool ----------------------------------
(***************************************************************************)
(* The connection pool of a DataSource and the handlers that borrow from   *)
(* it: database.module.ts sets no limit on the wait for a connection and   *)
(* none on a statement, so a handler waits for as long as others hold all  *)
(* of them.  health.service.ts is the exception: it races its query        *)
(* against a timer and goes without the result, while the query keeps its  *)
(* place in the queue, then its connection.                                *)
(*                                                                         *)
(* The pool (external: pg) serves waiting handlers first come first served.*)
(***************************************************************************)
EXTENDS Naturals, Sequences

CONSTANTS Requests, PoolSize, Null

VARIABLES db,       \* whether PostgreSQL answers: "up" or "stalled"
          free,     \* connections nobody holds
          queue,    \* the requests that wait for one
          work,     \* what each request has left to do
          answer    \* what each request was answered

poolVars == <<db, free, queue, work>>

\* What a handler asks of the database: the statements of each connection it
\* borrows in turn.  create finds the listing, looks for a duplicate and runs its
\* transaction, of at least two statements, on one connection.
Program == [health |-> <<1>>, create |-> <<1, 1, 2>>]

Kinds == DOMAIN Program

NoWork == [kind |-> Null, pc |-> "new", rest |-> <<>>]
NoMore == [kind |-> Null, pc |-> "done", rest |-> <<>>]

Using(r) == work[r].pc = "using"
Busy(r)  == work[r].pc \in {"ready", "queued", "using"}

PoolInit ==
    /\ db = "up"
    /\ free = PoolSize
    /\ queue = <<>>
    /\ work = [r \in Requests |-> NoWork]

\* The handler of a route starts.
Serve(r, kind) ==
    /\ work[r] = NoWork
    /\ work' = [work EXCEPT ![r] = [kind |-> kind, pc |-> "ready", rest |-> Program[kind]]]
    /\ UNCHANGED <<db, free, queue, answer>>

\* A repository asks the DataSource for a connection.
Acquire(r) ==
    /\ work[r].pc = "ready"
    /\ \/ /\ free > 0
          /\ free' = free - 1
          /\ work' = [work EXCEPT ![r].pc = "using"]
          /\ UNCHANGED queue
       \/ /\ free = 0
          /\ queue' = Append(queue, r)
          /\ work' = [work EXCEPT ![r].pc = "queued"]
          /\ UNCHANGED free
    /\ UNCHANGED <<db, answer>>

\* Faulty variant: the connection is given back twice.
GiveBackTwice(r, then) ==
    free' = free + 2 /\ work' = [work EXCEPT ![r] = then] /\ UNCHANGED queue

\* r releases its connection, to the first that waits, and has then still to do.
GiveBack(r, then) ==
    LET after == [work EXCEPT ![r] = then]
    IN  IF queue = <<>>
        THEN free' = free + 1 /\ work' = after /\ UNCHANGED queue
        ELSE /\ work' = [after EXCEPT ![Head(queue)].pc = "using"]
             /\ queue' = Tail(queue)
             /\ UNCHANGED free

\* The answer of r, unless it has one.
Tell(r, told) == answer' = [answer EXCEPT ![r] = IF @ = Null THEN told ELSE @]

\* Faulty variant: the connection of one step is kept for the next.
FinishStatementKeeping(r) ==
    /\ Using(r) /\ db = "up"
    /\ LET rest == work[r].rest
       IN  \/ /\ Head(rest) > 1
              /\ work' = [work EXCEPT ![r].rest[1] = @ - 1]
              /\ UNCHANGED <<free, queue, answer>>
           \/ /\ Head(rest) = 1 /\ Tail(rest) # <<>>
              /\ work' = [work EXCEPT ![r].pc = "ready", ![r].rest = Tail(rest)]
              /\ UNCHANGED <<free, queue, answer>>
           \/ /\ Head(rest) = 1 /\ Tail(rest) = <<>>
              /\ GiveBack(r, NoMore)
              /\ Tell(r, "ok")
    /\ UNCHANGED db

\* PostgreSQL answers a statement; after the last one of its kind the connection
\* is released, after the last one of all the handler answers.
FinishStatement(r) ==
    /\ Using(r) /\ db = "up"
    /\ LET rest == work[r].rest
       IN  \/ /\ Head(rest) > 1
              /\ work' = [work EXCEPT ![r].rest[1] = @ - 1]
              /\ UNCHANGED <<free, queue, answer>>
           \/ /\ Head(rest) = 1 /\ Tail(rest) # <<>>
              /\ GiveBack(r, [work[r] EXCEPT !.pc = "ready", !.rest = Tail(rest)])
              /\ UNCHANGED answer
           \/ /\ Head(rest) = 1 /\ Tail(rest) = <<>>
              /\ GiveBack(r, NoMore)
              /\ Tell(r, "ok")
    /\ UNCHANGED db

\* Faulty variant: the connection of a failed statement is not released.
FailStatementLeaks(r) ==
    /\ Using(r)
    /\ work' = [work EXCEPT ![r] = NoMore]
    /\ Tell(r, "error")
    /\ UNCHANGED <<db, free, queue>>

\* A statement is rejected or its connection breaks; a transaction is rolled
\* back, the connection released, and the handler's catch or the filter answers.
FailStatement(r) ==
    /\ Using(r)
    /\ GiveBack(r, NoMore)
    /\ Tell(r, "error")
    /\ UNCHANGED db

\* Faulty variant: the timer is never set.
TimeoutNever(r) == FALSE /\ UNCHANGED <<db, free, queue, work, answer>>

\* The timer of the health check fires first.  Its query is left as it is.
Timeout(r) ==
    /\ work[r].kind = "health" /\ work[r].pc \in {"queued", "using"}
    /\ answer[r] = Null
    /\ Tell(r, "error")
    /\ UNCHANGED poolVars

\* PostgreSQL, or the network before it, stops answering and answers again.
Stall   == db = "up"      /\ db' = "stalled" /\ UNCHANGED <<free, queue, work, answer>>
Recover == db = "stalled" /\ db' = "up"      /\ UNCHANGED <<free, queue, work, answer>>

HandlerStep(r) == Acquire(r) \/ FinishStatement(r)

PoolNext ==
    \/ Stall \/ Recover
    \/ \E r \in Requests : HandlerStep(r) \/ FailStatement(r) \/ Timeout(r)

-----------------------------------------------------------------------------
(* Properties *)

Work == [kind : Kinds \cup {Null}, pc : {"new", "ready", "queued", "using", "done"},
         rest : Seq(1 .. 2)]

\* Everything has its type; there are never more free connections than there are.
PoolTypeOK ==
    /\ db \in {"up", "stalled"}
    /\ free \in 0 .. PoolSize
    /\ queue \in Seq(Requests)
    /\ work \in [Requests -> Work]
===============================================================================
