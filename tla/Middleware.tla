----------------------------- MODULE Middleware -----------------------------
(* The way of a request through the layers that create_app stacks up, and of *)
(* its answer, or of the exception that nobody has handled yet, back out.    *)
(*                                                                           *)
(* A request has a path, an Origin header ("none", "allowed", "foreign"), may *)
(* be a CORS preflight, for a "permitted" method or for an "unknown" one, and *)
(* brings an X-Request-ID that is taken over ("boring") or not.  A result is *)
(* an answer, or an exception on its way.                                    *)
EXTENDS Naturals, Sequences

Answer(status, shape) ==
  [raised |-> "none", status |-> status, shape |-> shape, headers |-> {},
   requestId |-> "none", logged |-> 0, loggedId |-> "none"]
Raise(exception) == [Answer(0, "none") EXCEPT !.raised = exception]
IsAnswer(result) == result.raised = "none"

\* Status codes stand for their class where the application has many.
ErrorAnswer(status) == Answer(status, "standard")

---------------------------------------------------------------------------
\* The handlers registered on the application.  Starlette calls those for
\* concrete classes around the router, inside of all the middleware; the one
\* for Exception is the last resort, outside of it.
Registered ==
  [AppException           |-> ErrorAnswer(400),
   HTTPException          |-> ErrorAnswer(404),
   RequestValidationError |-> ErrorAnswer(422),
   RateLimitExceeded      |-> ErrorAnswer(429),
   RedisError             |-> ErrorAnswer(503),
   CachedResponseSignal   |-> Answer(201, "body")]

Routed(result) ==
  IF result.raised \in DOMAIN Registered THEN Registered[result.raised]
                                         ELSE result

LastResort(result) == IF IsAnswer(result) THEN result ELSE ErrorAnswer(500)

---------------------------------------------------------------------------
SecurityHeaders ==
  {"X-Content-Type-Options", "X-Frame-Options", "Referrer-Policy",
   "Cache-Control"}

With(result, headers) ==
  [result EXCEPT !.headers = @ \cup headers]

ResolveRequestId(q) == IF q.id = "boring" THEN "theirs" ELSE "ours"

ExceptionHandler(result) ==
  CASE IsAnswer(result)                -> result
    [] result.raised = "RedisError"    -> ErrorAnswer(503)
    [] OTHER                           -> ErrorAnswer(500)

IsPreflight(q) == q.preflight # "none" /\ q.origin # "none"

\* Refused for its origin, or for the method it asks for.
PreflightAnswer(q) ==
  IF q.origin = "allowed" /\ q.preflight = "permitted"
  THEN Answer(200, "body") ELSE Answer(400, "body")

\* Starlette's CORSMiddleware: it answers a preflight itself.
CORS(q, result) ==
  LET answer == IF IsPreflight(q) THEN PreflightAnswer(q) ELSE result
  IN IF IsAnswer(answer) /\ q.origin = "allowed"
     THEN With(answer, {"Access-Control-Allow-Origin"})
     ELSE answer

\* The logging context is bound by CorrelationID for all that it encloses.
RequestLogging(result, context) ==
  [result EXCEPT !.logged   = IF IsAnswer(result) THEN result.status ELSE 500,
                 !.loggedId = context]

CorrelationID(q, result) ==
  IF IsAnswer(result)
  THEN [With(result, {"X-Request-ID"}) EXCEPT !.requestId = ResolveRequestId(q)]
  ELSE result

\* Outside of everything that could fail, so that it catches all of it.
BugMiddlewareOrder ==
  <<"SlowAPI", "CORS", "SecurityHeaders", "RequestLogging", "CorrelationID",
    "ExceptionHandler">>

\* In the order of add_middleware: innermost first.
MiddlewareOrder ==
  <<"SlowAPI", "ExceptionHandler", "CORS", "SecurityHeaders", "RequestLogging",
    "CorrelationID">>

Encloses(outer, inner) ==
  \E i, j \in DOMAIN MiddlewareOrder :
    i > j /\ MiddlewareOrder[i] = outer /\ MiddlewareOrder[j] = inner

Through(layer, q, result) ==
  CASE layer = "SlowAPI"          -> result
    [] layer = "ExceptionHandler" -> ExceptionHandler(result)
    [] layer = "CORS"             -> CORS(q, result)
    [] layer = "SecurityHeaders"  ->
         IF IsAnswer(result) THEN With(result, SecurityHeaders) ELSE result
    [] layer = "RequestLogging"   ->
         RequestLogging(result, IF Encloses("CorrelationID", "RequestLogging")
                                THEN ResolveRequestId(q) ELSE "none")
    [] layer = "CorrelationID"    -> CorrelationID(q, result)

\* What comes out of each layer, from the router (0) to the outermost one.
OutOf(q, result) ==
  LET out[n \in 0..Len(MiddlewareOrder)] ==
        IF n = 0 THEN Routed(result) ELSE Through(MiddlewareOrder[n], q, out[n - 1])
  IN out

\* What the client receives when the route has ended in this result.
Respond(q, result) == LastResort(OutOf(q, result)[Len(MiddlewareOrder)])
=============================================================================
