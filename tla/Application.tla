----------------------------- MODULE Application -----------------------------
(* One process of the application: the lifespan that builds, checks and      *)
(* releases the engine and the Redis client, the email worker as a task of   *)
(* it, and the requests that are answered in between.  PostgreSQL and Redis  *)
(* come and go.                                                              *)
EXTENDS Middleware

CONSTANTS
  Requests,   \* connections that bring one request after another
  Inputs      \* what a request may be: path, origin, preflight, id

InputsAssumption ==
  Inputs \subseteq [path      : {"ready", "live", "api", "missing"},
                    origin    : {"none", "allowed", "foreign"},
                    preflight : {"none", "permitted", "unknown"},
                    id        : {"boring", "odd"}]
ASSUME InputsAssumption

VARIABLES
  phase,     \* where lifespan stands
  up,        \* the services that can be reached
  engine,    \* "none", "open", "closed" or, when closing it failed, "failed"
  redis,     \* likewise
  attached,  \* are the resources on app.state?
  worker,    \* where the email worker waits; "ended" when its task is done
  cancel,    \* is its CancelledError yet to be raised?
  clean,     \* is_shutdown_completed
  req        \* the request of each connection, and its last answer

vars == <<phase, up, engine, redis, attached, worker, cancel, clean, req>>
lifespan == <<phase, engine, redis, attached, clean>>

Services == {"postgresql", "redis"}
Awaits   == {"sleep", "sweep", "send", "send_next", "rollback", "hung"}
Running  == worker \in Awaits
NoRequest == [stage |-> "none"]

TypeOK ==
  /\ phase \in {"stopped", "check_database", "check_redis", "serving",
                "draining", "gathering", "close_redis", "dispose_engine"}
  /\ up \subseteq Services
  /\ {engine, redis} \subseteq {"none", "open", "closed", "failed"}
  /\ worker \in {"none", "ended"} \cup Awaits
  /\ {attached, cancel, clean} \subseteq BOOLEAN
  /\ DOMAIN req = Requests
  /\ \A r \in Requests : req[r].stage \in {"none", "received", "answered"}

Init ==
  /\ phase = "stopped"
  /\ up = Services
  /\ engine = "none"
  /\ redis = "none"
  /\ attached = FALSE
  /\ worker = "none"
  /\ cancel = FALSE
  /\ clean = TRUE
  /\ req = [r \in Requests |-> NoRequest]

---------------------------------------------------------------------------
\* Startup.  A new process has lost whatever the last one had.
Start ==
  /\ phase = "stopped"
  /\ phase' = "check_database"
  /\ engine' = "open"
  /\ redis' = "open"
  /\ attached' = FALSE
  /\ worker' = "none"
  /\ cancel' = FALSE
  /\ clean' = TRUE
  /\ req' = [r \in Requests |-> NoRequest]
  /\ UNCHANGED up

\* With no task to wait for, gather returns at once.
CheckDatabase ==
  /\ phase = "check_database"
  /\ phase' = IF "postgresql" \in up THEN "check_redis" ELSE "close_redis"
  /\ UNCHANGED <<up, engine, redis, attached, worker, cancel, clean, req>>

\* After the ping there is no await up to the yield.
CheckRedis ==
  /\ phase = "check_redis"
  /\ \/ /\ "redis" \in up
        /\ phase' = "serving"
        /\ attached' = TRUE
        /\ worker' = "sleep"
     \/ /\ "redis" \notin up
        /\ phase' = "close_redis"
        /\ UNCHANGED <<attached, worker>>
  /\ UNCHANGED <<up, engine, redis, cancel, clean, req>>

---------------------------------------------------------------------------
\* The email worker: what it waits for decides how a cancellation reaches it.
\* The SELECT of a batch opens a transaction, which the commit after the first
\* email ends.  EmailWorker has what the worker does to the rows.
WorkerStep ==
  /\ worker \in {"sleep", "sweep", "send", "send_next"}
  /\ ~ cancel
  /\ worker' \in CASE worker = "sleep"     -> {"sweep"}
                   [] worker = "sweep"     -> {"send", "sleep"}
                   [] worker \in {"send", "send_next"} ->
                        {"send_next", "sweep", "sleep"}
  /\ UNCHANGED <<lifespan, up, cancel, req>>

\* CancelledError is raised at the await.  While an email is sent the handler
\* awaits a rollback first; after the first email there is nothing to roll back.
RaiseCancelled ==
  /\ Running
  /\ cancel
  /\ cancel' = FALSE
  /\ worker' = IF worker = "send" THEN "rollback" ELSE "ended"
  /\ UNCHANGED <<lifespan, up, req>>

\* On a connection that is broken, now or since the SELECT, the rollback raises:
\* its exception takes the place of the CancelledError, run_email_worker logs it
\* and sleeps.  On one that is dead in silence nothing comes back.
Rollback ==
  /\ worker = "rollback"
  /\ \/ "postgresql" \in up /\ worker' = "ended"
     \/ worker' \in {"sleep", "hung"}
  /\ UNCHANGED <<lifespan, up, cancel, req>>

---------------------------------------------------------------------------
\* Requests.  uvicorn accepts them between the yield and the stop signal.
Receive(r, q) ==
  /\ phase = "serving"
  /\ req[r].stage # "received"
  /\ req' = [req EXCEPT ![r] = [stage |-> "received", input |-> q]]
  /\ UNCHANGED <<lifespan, up, worker, cancel>>

\* Both checks run at once, each with its timeout.
Readiness == IF up = Services THEN Answer(200, "body") ELSE Answer(503, "body")

\* An endpoint of the API counts the request in Redis, authenticates by it and
\* then needs PostgreSQL; login needs PostgreSQL only.  What it does in detail is
\* in Login, SessionAuth, Registration and Idempotency.
Results(q) ==
  CASE q.path = "missing" -> {Raise("HTTPException")}
    [] q.path = "live"    -> {Answer(200, "body")}
    [] q.path = "ready"   -> {Readiness}
    [] q.path = "api"     ->
         {Raise(e) : e \in {"RequestValidationError", "AppException",
                            "Unexpected"}}
         \cup (IF "postgresql" \in up THEN {Answer(200, "body")} ELSE {})
         \cup (IF "redis" \in up
               THEN {Raise("CachedResponseSignal"), Raise("RateLimitExceeded")}
               ELSE {Raise("RedisError")})

AnswerRequest(r) ==
  /\ req[r].stage = "received"
  /\ \E result \in Results(req[r].input) :
       req' = [req EXCEPT ![r] = [stage  |-> "answered",
                                  input  |-> @.input,
                                  result |-> result,
                                  answer |-> Respond(@.input, result)]]
  /\ UNCHANGED <<lifespan, up, worker, cancel>>

---------------------------------------------------------------------------
\* Shutdown: uvicorn lets the requests in flight end, then resumes lifespan.
StopSignal ==
  /\ phase = "serving"
  /\ phase' = "draining"
  /\ UNCHANGED <<up, engine, redis, attached, worker, cancel, clean, req>>

CancelWorkers ==
  /\ phase = "draining"
  /\ \A r \in Requests : req[r].stage # "received"
  /\ cancel' = (worker # "ended")
  /\ phase' = "gathering"
  /\ UNCHANGED <<up, engine, redis, attached, worker, clean, req>>

BugGathered == \* the tasks are cancelled and not waited for
  TRUE

Gathered == worker = "ended"

Gather ==
  /\ phase = "gathering"
  /\ Gathered
  /\ phase' = "close_redis"
  /\ UNCHANGED <<up, engine, redis, attached, worker, cancel, clean, req>>

BugAfterRedis(outcome) == \* both steps in one try
  IF outcome = "failed" THEN "stopped" ELSE "dispose_engine"

AfterRedis(outcome) == "dispose_engine"

CloseRedis ==
  /\ phase = "close_redis"
  /\ \E outcome \in {"closed", "failed"} :
       /\ redis' = outcome
       /\ clean' = (clean /\ outcome = "closed")
       /\ phase' = AfterRedis(outcome)
  /\ UNCHANGED <<up, engine, attached, worker, cancel, req>>

DisposeEngine ==
  /\ phase = "dispose_engine"
  /\ \E outcome \in {"closed", "failed"} :
       /\ engine' = outcome
       /\ clean' = (clean /\ outcome = "closed")
  /\ phase' = "stopped"
  /\ UNCHANGED <<up, redis, attached, worker, cancel, req>>

ServiceChange ==
  /\ \E s \in Services : up' \in {up \cup {s}, up \ {s}}
  /\ UNCHANGED <<lifespan, worker, cancel, req>>

Progress ==
  \/ CheckDatabase \/ CheckRedis
  \/ CancelWorkers \/ Gather \/ CloseRedis \/ DisposeEngine

Next ==
  \/ Start \/ StopSignal \/ Progress
  \/ WorkerStep \/ RaiseCancelled \/ Rollback
  \/ \E r \in Requests : AnswerRequest(r) \/ \E q \in Inputs : Receive(r, q)
  \/ ServiceChange

\* That the awaits of lifespan and of a handler return or raise is assumed:
\* connecting, Redis and SMTP have timeouts, an SQL statement that was sent has
\* none.  Nobody has to stop the process or start it.
Fairness ==
  /\ WF_vars(Progress)
  /\ WF_vars(RaiseCancelled) /\ WF_vars(Rollback)
  /\ \A r \in Requests : WF_vars(AnswerRequest(r))

Spec == Init /\ [][Next]_vars
FairSpec == Spec /\ Fairness

---------------------------------------------------------------------------
(* Whoever uses the engine or the Redis client finds them open: the worker   *)
(* until its task is done, a request until it is answered; and both see them *)
(* only after the startup checks have passed (ADR-0001, "a half-started app  *)
(* never exposes them").                                                     *)
UsersHaveResources ==
  (Running
     \/ \E r \in Requests : req[r].stage = "received")
  => attached /\ engine = "open" /\ redis = "open"

(* Whatever ends a request, its answer passes every layer: it carries the    *)
(* request id, the security headers and, for a permitted origin, the CORS    *)
(* headers; an exception arrives as an error in the standard shape; and what *)
(* RequestLogging wrote is the status and the id that the client got.        *)
AnswersComplete ==
  \A r \in Requests : req[r].stage = "answered" =>
    LET q == req[r].input
        a == req[r].answer
    IN /\ SecurityHeaders \cup {"X-Request-ID"} \subseteq a.headers
       /\ ("Access-Control-Allow-Origin" \in a.headers) <=> (q.origin = "allowed")
       /\ ~ IsPreflight(q) /\ req[r].result.raised \notin {"none", "CachedResponseSignal"}
            => a.shape = "standard" /\ a.status >= 400
       /\ a.logged = a.status
       /\ a.loggedId = a.requestId
       /\ (a.requestId = "theirs") <=> (q.id = "boring")

\* Both resources have been released, or the failure to do so is on record.
Released ==
  /\ phase = "stopped"
  /\ {engine, redis} \subseteq {"closed", "failed"}
  /\ clean => engine = "closed" /\ redis = "closed"

\* The worker's only cancellation is gone and it runs on, or hangs.
CancellationLost ==
  phase = "gathering" /\ ~ cancel /\ Running /\ worker # "rollback"

(* A start that fails and a shutdown that begins both end with the resources *)
(* released, whatever step fails on the way, unless the cancellation of the  *)
(* worker is lost (lifespan, finally).                                       *)
ShutdownReleases ==
  phase \notin {"stopped", "serving"} ~>
    phase = "serving" \/ Released \/ CancellationLost

(* "Guaranteed cleanup: engine.dispose() runs in finally" (ADR-0001): a      *)
(* shutdown that has begun disposes the engine, if every statement returns.  *)
GuaranteedCleanup ==
  phase = "gathering" ~> engine \in {"closed", "failed"} \/ worker = "hung"
=============================================================================
