------------------------------- MODULE Bootstrap -------------------------------
(***************************************************************************)
(* How a process comes to serve requests.  As a container (src/src/main.ts)*)
(* it creates the application, initialises and listens, and only then      *)
(* takes requests.  As a serverless function (src/api/index.ts) a request  *)
(* that finds the module variable `app' unset creates the application      *)
(* itself, on the Express server all of them share, and sets `app' before  *)
(* it waits for the initialisation.                                        *)
(*                                                                         *)
(* Creating an application opens a DataSource, the connection pool of its  *)
(* own; see Pool and Instance.                                             *)
(***************************************************************************)
CONSTANTS Requests,   \* HTTP requests; each is sent once
          Main,       \* the bootstrap of main.ts
          Null

ASSUME MainAssumption == Main \notin Requests

VARIABLES mode,       \* "server" (main.ts) or "function" (api/index.ts)
          app,        \* an application has been created: the variable app is set
          routed,     \* Express knows the routes of an application
          boot,       \* how far Main and every request have come
          answer      \* what each request was answered

bootVars == <<mode, app, routed, boot>>

Bootstrappers == Requests \cup {Main}

Phases == {"outside", "creating", "initialising", "inside", "stopping", "destroying", "gone"}

\* The routes answer "ok" (200 or 201) or "error" (500, or 503 of the health check);
\* "noRoute" is Express's own 404, "failed" a rejected handler of the function and
\* "lost" a request whose process died.
Answers == {"ok", "error", "noRoute", "failed", "lost"}

ASSUME NullAnswerAssumption == Null \notin Answers

BootInit ==
    /\ mode \in {"server", "function"}
    /\ app = FALSE
    /\ routed = FALSE
    /\ boot = [x \in Bootstrappers |-> "outside"]
    /\ answer = [r \in Requests |-> Null]

-----------------------------------------------------------------------------
\* node dist/main.js
StartServer ==
    /\ mode = "server" /\ boot[Main] = "outside"
    /\ boot' = [boot EXCEPT ![Main] = "creating"]
    /\ UNCHANGED <<mode, app, routed, answer>>

Listening == mode = "server" /\ boot[Main] = "inside"

\* Faulty variant: app is set before the creation.
ColdOnce   == \A x \in Requests : boot[x] = "outside"

\* `if (!app)'
Cold == ~app

\* Express finds the first route that matches, or none at all.
Dispatch(r) ==
    /\ boot' = [boot EXCEPT ![r] = "inside"]
    /\ answer' = IF routed THEN answer ELSE [answer EXCEPT ![r] = "noRoute"]

\* A request reaches the process: the server, or bootstrap() of the function.
Enter(r) ==
    /\ boot[r] = "outside"
    /\ \/ Listening /\ Dispatch(r)
       \/ mode = "function" /\ ~Cold /\ Dispatch(r)
       \/ /\ mode = "function" /\ Cold
          /\ boot' = [boot EXCEPT ![r] = "creating"]
          /\ UNCHANGED answer
    /\ UNCHANGED <<mode, app, routed>>

\* NestFactory.create returns: app is set, whoever else has set it already.
Created(x) ==
    /\ boot[x] = "creating"
    /\ boot' = [boot EXCEPT ![x] = "initialising"]
    /\ app' = TRUE
    /\ UNCHANGED <<mode, routed, answer>>

\* init has registered the routes, behind those of an earlier application if there
\* is one; the server listens, the request of the function goes on to Express.
Initialised(x) ==
    /\ boot[x] = "initialising"
    /\ boot' = [boot EXCEPT ![x] = "inside"]
    /\ routed' = TRUE
    /\ UNCHANGED <<mode, app, answer>>

\* init rejects: the handler of the function does, and app stays set.
InitFails(r) ==
    /\ r \in Requests /\ boot[r] = "initialising"
    /\ boot' = [boot EXCEPT ![r] = "inside"]
    /\ answer' = [answer EXCEPT ![r] = "failed"]
    /\ UNCHANGED <<mode, app, routed>>

Present(x) == boot[x] # "outside"

\* Faulty variant: no shutdown hook, the signal ends the process.
TerminateAtOnce ==
    /\ Listening
    /\ boot' = [boot EXCEPT ![Main] = "stopping"]
    /\ answer' = [r \in Requests |-> IF Present(r) /\ answer[r] = Null
                                     THEN "lost" ELSE answer[r]]
    /\ UNCHANGED <<mode, app, routed>>

\* SIGTERM reaches a server whose shutdown hooks are enabled: it closes its port.
Terminate ==
    /\ Listening
    /\ boot' = [boot EXCEPT ![Main] = "stopping"]
    /\ UNCHANGED <<mode, app, routed, answer>>

\* The process ends, and with it all it has in memory.
Die ==
    /\ app' = FALSE /\ routed' = FALSE
    /\ boot' = [x \in Bootstrappers |->
                   IF x # Main /\ Present(x) THEN "gone" ELSE "outside"]
    /\ answer' = [r \in Requests |-> IF Present(r) /\ answer[r] = Null
                                     THEN "lost" ELSE answer[r]]
    /\ UNCHANGED mode

-----------------------------------------------------------------------------
(* Properties *)

\* Everything has its type; only a process with an application has routes.
BootTypeOK ==
    /\ mode \in {"server", "function"}
    /\ app \in BOOLEAN
    /\ routed \in {FALSE, app}
    /\ boot \in [Bootstrappers -> Phases]
    /\ answer \in [Requests -> Answers \cup {Null}]

\* A request runs into a process without routes only in a serverless cold start
\* shared with another request, which is initialising the application it found
\* set or has failed to: never in a server, never in a lone cold start.
NoRouteExplained ==
    [][\A r \in Requests :
         answer[r] = Null /\ answer'[r] = "noRoute" =>
            /\ mode = "function"
            /\ \E q \in Requests \ {r} :
                 \/ boot[q] = "initialising"
                 \/ boot[q] = "inside" /\ answer[q] = "failed"
      ]_<<bootVars, answer>>
===============================================================================
