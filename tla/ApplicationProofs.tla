-------------------------- MODULE ApplicationProofs --------------------------
(* Proofs about Application, for any number of connections and any requests. *)
EXTENDS Application, TLAPS

USE InputsAssumption

---------------------------------------------------------------------------
\* What the layers do to a result.

Fields ==
  {"raised", "status", "shape", "headers", "requestId", "logged", "loggedId"}

Exceptions ==
  {"AppException", "HTTPException", "RequestValidationError",
   "RateLimitExceeded", "RedisError", "CachedResponseSignal", "Unexpected"}

\* What a route may end in.
RouteResults ==
  {Answer(200, "body"), Answer(503, "body")} \cup {Raise(e) : e \in Exceptions}

\* Is the client to get an error in the standard shape?
Failed(result) == result.raised \notin {"none", "CachedResponseSignal"}
StandardError(a) == a.shape = "standard" /\ a.status >= 400

LEMMA AnswerFields ==
  ASSUME NEW status, NEW shape
  PROVE  /\ DOMAIN Answer(status, shape) = Fields
         /\ Answer(status, shape).raised = "none"
         /\ Answer(status, shape).status = status
         /\ Answer(status, shape).shape = shape
         /\ Answer(status, shape).headers = {}
  BY DEF Answer, Fields

LEMMA RaiseFields ==
  ASSUME NEW e
  PROVE  /\ DOMAIN Raise(e) = Fields
         /\ Raise(e).raised = e
         /\ Raise(e).headers = {}
  BY AnswerFields DEF Raise, Fields

LEMMA WithFields ==
  ASSUME NEW result, DOMAIN result = Fields, NEW headers
  PROVE  /\ DOMAIN With(result, headers) = Fields
         /\ With(result, headers).headers = result.headers \cup headers
         /\ With(result, headers).raised = result.raised
         /\ With(result, headers).status = result.status
         /\ With(result, headers).shape = result.shape
         /\ With(result, headers).requestId = result.requestId
         /\ With(result, headers).logged = result.logged
         /\ With(result, headers).loggedId = result.loggedId
  BY DEF With, Fields

LEMMA RegisteredAnswers ==
  /\ DOMAIN Registered = Exceptions \ {"Unexpected"}
  /\ Registered["CachedResponseSignal"] = Answer(201, "body")
  /\ \A e \in Exceptions \ {"Unexpected", "CachedResponseSignal"} :
       \E status \in 400..599 : Registered[e] = Answer(status, "standard")
  <1>1. /\ DOMAIN Registered = Exceptions \ {"Unexpected"}
        /\ Registered["CachedResponseSignal"] = Answer(201, "body")
    BY DEF Registered, Exceptions
  <1>2. /\ Registered["AppException"] = Answer(400, "standard")
        /\ Registered["HTTPException"] = Answer(404, "standard")
        /\ Registered["RequestValidationError"] = Answer(422, "standard")
        /\ Registered["RateLimitExceeded"] = Answer(429, "standard")
        /\ Registered["RedisError"] = Answer(503, "standard")
    BY DEF Registered, ErrorAnswer
  <1> QED
    BY <1>1, <1>2 DEF Exceptions

(* The handlers leave an answer, or the exception that none is registered    *)
(* for.                                                                      *)
LEMMA AfterRouter ==
  ASSUME NEW result \in RouteResults
  PROVE  /\ DOMAIN Routed(result) = Fields
         /\ Routed(result).headers = {}
         /\ IsAnswer(Routed(result)) \/ Routed(result).raised = "Unexpected"
         /\ Failed(result) /\ IsAnswer(Routed(result)) => StandardError(Routed(result))
  <1>1. ASSUME NEW status, result = Answer(status, "body")
        PROVE  Routed(result) = result /\ result.raised = "none"
    <2>1. result.raised = "none"
      BY <1>1, AnswerFields
    <2>2. "none" \notin DOMAIN Registered
      BY RegisteredAnswers DEF Exceptions
    <2> QED
      BY <2>1, <2>2 DEF Routed
  <1>2. CASE result \in {Answer(200, "body"), Answer(503, "body")}
    BY <1>1, <1>2, AnswerFields DEF IsAnswer, Failed
  <1>3. CASE result = Raise("Unexpected")
    <2>1. result.raised = "Unexpected" /\ result.raised \notin DOMAIN Registered
      BY <1>3, RaiseFields, RegisteredAnswers
    <2>2. Routed(result) = result
      BY <2>1 DEF Routed
    <2> QED
      BY <1>3, <2>1, <2>2, RaiseFields DEF IsAnswer
  <1>4. ASSUME NEW e \in Exceptions \ {"Unexpected"}, result = Raise(e)
        PROVE  result.raised = e /\ Routed(result) = Registered[e]
    BY <1>4, RaiseFields, RegisteredAnswers DEF Routed
  <1>5. CASE result = Raise("CachedResponseSignal")
    <2>1. result.raised = "CachedResponseSignal" /\ Routed(result) = Answer(201, "body")
      BY <1>4, <1>5, RegisteredAnswers DEF Exceptions
    <2> QED
      BY <2>1, AnswerFields DEF IsAnswer, Failed
  <1>6. ASSUME NEW e \in Exceptions \ {"Unexpected", "CachedResponseSignal"},
               result = Raise(e)
        PROVE  /\ DOMAIN Routed(result) = Fields
               /\ Routed(result).headers = {}
               /\ IsAnswer(Routed(result))
               /\ StandardError(Routed(result))
    <2>1. PICK status \in 400..599 : Routed(result) = Answer(status, "standard")
      BY <1>4, <1>6, RegisteredAnswers
    <2>2. Routed(result).status = status
      BY <2>1, AnswerFields
    <2> QED
      BY <2>1, <2>2, AnswerFields DEF IsAnswer, StandardError
  <1> QED
    BY <1>2, <1>3, <1>5, <1>6 DEF RouteResults

LEMMA AfterExceptionHandler ==
  ASSUME NEW result, DOMAIN result = Fields, result.headers = {},
         IsAnswer(result) \/ result.raised = "Unexpected"
  PROVE  /\ DOMAIN ExceptionHandler(result) = Fields
         /\ ExceptionHandler(result).headers = {}
         /\ IsAnswer(ExceptionHandler(result))
         /\ \/ IsAnswer(result) /\ ExceptionHandler(result) = result
            \/ StandardError(ExceptionHandler(result))
  <1>1. CASE IsAnswer(result)
    <2>1. ExceptionHandler(result) = result
      BY <1>1 DEF ExceptionHandler, IsAnswer
    <2> QED
      BY <1>1, <2>1
  <1>2. CASE ~ IsAnswer(result)
    <2>1. ExceptionHandler(result) = Answer(500, "standard")
      BY <1>2 DEF ExceptionHandler, ErrorAnswer, IsAnswer
    <2> QED
      BY <2>1, AnswerFields DEF IsAnswer, StandardError
  <1> QED
    BY <1>1, <1>2

LEMMA AfterCORS ==
  ASSUME NEW q, NEW result, DOMAIN result = Fields, result.headers = {},
         IsAnswer(result)
  PROVE  /\ DOMAIN CORS(q, result) = Fields
         /\ IsAnswer(CORS(q, result))
         /\ "Access-Control-Allow-Origin" \in CORS(q, result).headers
              <=> q.origin = "allowed"
         /\ ~ IsPreflight(q) =>
              /\ CORS(q, result).status = result.status
              /\ CORS(q, result).shape = result.shape
  <1> DEFINE answer == IF IsPreflight(q) THEN PreflightAnswer(q) ELSE result
  <1>1. /\ DOMAIN answer = Fields /\ IsAnswer(answer) /\ answer.headers = {}
        /\ ~ IsPreflight(q) => answer = result
    BY AnswerFields DEF PreflightAnswer, IsAnswer
  <1>2. CORS(q, result) = IF IsAnswer(answer) /\ q.origin = "allowed"
                          THEN With(answer, {"Access-Control-Allow-Origin"})
                          ELSE answer
    BY DEF CORS
  <1> HIDE DEF answer
  <1>3. CASE q.origin = "allowed"
    <2>1. CORS(q, result) = With(answer, {"Access-Control-Allow-Origin"})
      BY <1>1, <1>2, <1>3
    <2> QED
      BY <1>1, <1>3, <2>1, WithFields DEF IsAnswer
  <1>4. CASE q.origin # "allowed"
    <2>1. CORS(q, result) = answer
      BY <1>2, <1>4
    <2> QED
      BY <1>1, <1>4, <2>1
  <1> QED
    BY <1>3, <1>4

LEMMA AfterRequestLogging ==
  ASSUME NEW result, DOMAIN result = Fields, IsAnswer(result), NEW context
  PROVE  /\ DOMAIN RequestLogging(result, context) = Fields
         /\ IsAnswer(RequestLogging(result, context))
         /\ RequestLogging(result, context).logged = result.status
         /\ RequestLogging(result, context).loggedId = context
         /\ RequestLogging(result, context).status = result.status
         /\ RequestLogging(result, context).shape = result.shape
         /\ RequestLogging(result, context).headers = result.headers
  BY DEF RequestLogging, IsAnswer, Fields

LEMMA AfterCorrelationID ==
  ASSUME NEW q, NEW result, DOMAIN result = Fields, IsAnswer(result)
  PROVE  /\ IsAnswer(CorrelationID(q, result))
         /\ CorrelationID(q, result).headers = result.headers \cup {"X-Request-ID"}
         /\ CorrelationID(q, result).requestId = ResolveRequestId(q)
         /\ CorrelationID(q, result).status = result.status
         /\ CorrelationID(q, result).shape = result.shape
         /\ CorrelationID(q, result).logged = result.logged
         /\ CorrelationID(q, result).loggedId = result.loggedId
  <1> DEFINE with == With(result, {"X-Request-ID"})
  <1>1. /\ DOMAIN with = Fields
        /\ with.headers = result.headers \cup {"X-Request-ID"}
        /\ with.raised = result.raised /\ with.status = result.status
        /\ with.shape = result.shape
        /\ with.logged = result.logged /\ with.loggedId = result.loggedId
    BY WithFields
  <1>2. CorrelationID(q, result) = [with EXCEPT !.requestId = ResolveRequestId(q)]
    BY DEF CorrelationID
  <1> HIDE DEF with
  <1> QED
    BY <1>1, <1>2 DEF IsAnswer, Fields

LEMMA LayerCount == Len(MiddlewareOrder) = 6
  BY DEF MiddlewareOrder
(* What comes out of a layer is what it makes of what comes out of the one   *)
(* before: OutOf is the function that its recursive definition asks for.     *)
LEMMA OutOfIs ==
  ASSUME NEW q, NEW result
  PROVE  /\ OutOf(q, result)[0] = Routed(result)
         /\ \A n \in 1..6 :
              OutOf(q, result)[n] =
                Through(MiddlewareOrder[n], q, OutOf(q, result)[n - 1])
  <1> DEFINE Step(f, n) ==
               IF n = 0 THEN Routed(result)
                        ELSE Through(MiddlewareOrder[n], q, f[n - 1])
  <1>1. OutOf(q, result) = CHOOSE f : f = [n \in 0..Len(MiddlewareOrder) |-> Step(f, n)]
    BY DEF OutOf
  <1>2. \E f : f = [n \in 0..6 |-> Step(f, n)]
    <2> DEFINE T(n, x) == Through(MiddlewareOrder[n], q, x)
               s0 == Routed(result)
               s1 == T(1, s0)
               s2 == T(2, s1)
               s3 == T(3, s2)
               s4 == T(4, s3)
               s5 == T(5, s4)
               s6 == T(6, s5)
               at(n) ==
                 CASE n = 0 -> s0 [] n = 1 -> s1 [] n = 2 -> s2
                   [] n = 3 -> s3 [] n = 4 -> s4 [] n = 5 -> s5
                   [] n = 6 -> s6
               s == [n \in 0..6 |-> at(n)]
    <2> HIDE DEF T, s0, s1, s2, s3, s4, s5, s6
    <2>1. \A n \in 0..6 : at(n) = Step(s, n)
      <3> TAKE n \in 0..6
      <3> QED
        BY DEF s0, s1, s2, s3, s4, s5, s6, T
    <2> HIDE DEF at
    <2>2. s = [n \in 0..6 |-> Step(s, n)]
      BY <2>1
    <2> QED
      BY <2>2
  <1>3. OutOf(q, result) = [n \in 0..6 |-> Step(OutOf(q, result), n)]
    <2> HIDE DEF Step
    <2> QED BY <1>1, <1>2, LayerCount
  <1>4. \A n \in 0..6 : OutOf(q, result)[n] = Step(OutOf(q, result), n)
    <2> HIDE DEF Step
    <2> QED BY <1>3
  <1> QED
    BY <1>4

---------------------------------------------------------------------------
\* From the router to the client.

(* Of an error that no handler is registered for, ExceptionHandler makes an  *)
(* answer before anything is added to it, so that nothing that follows can   *)
(* miss it.                                                                  *)
LEMMA RespondComplete ==
  ASSUME NEW q \in Inputs, NEW result \in RouteResults
  PROVE  /\ SecurityHeaders \cup {"X-Request-ID"} \subseteq Respond(q, result).headers
         /\ "Access-Control-Allow-Origin" \in Respond(q, result).headers
              <=> q.origin = "allowed"
         /\ ~ IsPreflight(q) /\ Failed(result)
              => StandardError(Respond(q, result))
         /\ Respond(q, result).logged = Respond(q, result).status
         /\ Respond(q, result).loggedId = Respond(q, result).requestId
         /\ Respond(q, result).requestId = ResolveRequestId(q)
  <1> DEFINE out(n) == OutOf(q, result)[n]
             context == IF Encloses("CorrelationID", "RequestLogging")
                        THEN ResolveRequestId(q) ELSE "none"
  <1>1. context = ResolveRequestId(q)
    BY DEF Encloses, MiddlewareOrder
  <1>2. out(0) = Routed(result)
    BY OutOfIs
  <1>3. out(1) = out(0)
    BY OutOfIs DEF Through, MiddlewareOrder
  <1>4. out(2) = ExceptionHandler(out(1))
    BY OutOfIs DEF Through, MiddlewareOrder
  <1>5. out(3) = CORS(q, out(2))
    BY OutOfIs DEF Through, MiddlewareOrder
  <1>6. out(4) = IF IsAnswer(out(3)) THEN With(out(3), SecurityHeaders) ELSE out(3)
    BY OutOfIs DEF Through, MiddlewareOrder
  <1>7. out(5) = RequestLogging(out(4), context)
    BY OutOfIs DEF Through, MiddlewareOrder
  <1>8. out(6) = CorrelationID(q, out(5))
    BY OutOfIs DEF Through, MiddlewareOrder
  <1>9. Respond(q, result) = LastResort(out(6))
    BY LayerCount DEF Respond
  <1> HIDE DEF out, context
  <1>10. /\ DOMAIN out(2) = Fields /\ out(2).headers = {} /\ IsAnswer(out(2))
         /\ Failed(result) => StandardError(out(2))
    BY <1>2, <1>3, <1>4, AfterRouter, AfterExceptionHandler
  <1>11. /\ DOMAIN out(3) = Fields /\ IsAnswer(out(3))
         /\ "Access-Control-Allow-Origin" \in out(3).headers <=> q.origin = "allowed"
         /\ ~ IsPreflight(q) /\ Failed(result)
              => StandardError(out(3))
    BY <1>5, <1>10, AfterCORS DEF StandardError
  <1>12. /\ DOMAIN out(4) = Fields /\ IsAnswer(out(4))
         /\ out(4).headers = out(3).headers \cup SecurityHeaders
         /\ out(4).status = out(3).status /\ out(4).shape = out(3).shape
    BY <1>6, <1>11, WithFields DEF IsAnswer
  <1>13. /\ DOMAIN out(5) = Fields /\ IsAnswer(out(5))
         /\ out(5).headers = out(4).headers
         /\ out(5).status = out(4).status /\ out(5).shape = out(4).shape
         /\ out(5).logged = out(4).status /\ out(5).loggedId = ResolveRequestId(q)
    BY <1>1, <1>7, <1>12, AfterRequestLogging
  <1>14. /\ IsAnswer(out(6))
         /\ out(6).headers = out(5).headers \cup {"X-Request-ID"}
         /\ out(6).requestId = ResolveRequestId(q)
         /\ out(6).status = out(5).status /\ out(6).shape = out(5).shape
         /\ out(6).logged = out(5).logged /\ out(6).loggedId = out(5).loggedId
    BY <1>8, <1>13, AfterCorrelationID
  <1>15. Respond(q, result) = out(6)
    BY <1>9, <1>14 DEF LastResort
  <1>16. "Access-Control-Allow-Origin" \notin SecurityHeaders \cup {"X-Request-ID"}
    BY DEF SecurityHeaders
  <1>17. "Access-Control-Allow-Origin" \in out(6).headers <=> q.origin = "allowed"
    BY <1>11, <1>12, <1>13, <1>14, <1>16
  <1>18. SecurityHeaders \cup {"X-Request-ID"} \subseteq out(6).headers
    BY <1>12, <1>13, <1>14
  <1>19. ~ IsPreflight(q) /\ Failed(result)
           => StandardError(out(6))
    BY <1>11, <1>12, <1>13, <1>14 DEF StandardError
  <1> QED
    BY <1>12, <1>13, <1>14, <1>15, <1>17, <1>18, <1>19

LEMMA ResultsAre == \A q \in Inputs : Results(q) \subseteq RouteResults
  <1> SUFFICES ASSUME NEW q \in Inputs PROVE Results(q) \subseteq RouteResults
    OBVIOUS
  <1>1. q.path \in {"ready", "live", "api", "missing"}
    BY InputsAssumption DEF InputsAssumption
  <1>2. CASE q.path = "missing"
    BY <1>2 DEF Results, RouteResults, Exceptions
  <1>3. CASE q.path = "live"
    BY <1>3 DEF Results, RouteResults
  <1>4. CASE q.path = "ready"
    BY <1>4 DEF Results, RouteResults, Readiness
  <1>5. CASE q.path = "api"
    BY <1>5 DEF Results, RouteResults, Exceptions
  <1> QED
    BY <1>1, <1>2, <1>3, <1>4, <1>5

---------------------------------------------------------------------------
\* The lifespan.

(* Where lifespan stands decides who may be at work: nobody before the       *)
(* checks have passed, no request once the drain is over, and no worker once *)
(* gather has returned.  The resources are open all that time.               *)
PhaseInv ==
  /\ phase \in {"check_database", "check_redis", "serving", "draining", "gathering"}
       => engine = "open" /\ redis = "open"
  /\ phase \in {"serving", "draining", "gathering"} => attached
  /\ Running => phase \in {"serving", "draining", "gathering"}
  /\ \A r \in Requests :
       req[r].stage = "received" => phase \in {"serving", "draining"}

(* A process that has stopped has released what it built, and its report of  *)
(* a clean shutdown is true.                                                 *)
ReleasedInv ==
  /\ phase \in {"dispose_engine", "stopped"} =>
       redis # "open" /\ (clean => redis # "failed")
  /\ phase = "stopped" => engine # "open" /\ (clean => engine # "failed")

(* Every answer is what Respond makes of something the route may end in.     *)
AnswerInv ==
  \A r \in Requests :
    /\ req[r].stage \in {"received", "answered"} => req[r].input \in Inputs
    /\ req[r].stage = "answered" =>
         /\ req[r].result \in RouteResults
         /\ req[r].answer = Respond(req[r].input, req[r].result)

IInv == TypeOK /\ PhaseInv /\ ReleasedInv /\ AnswerInv

LEMMA InitIInv == Init => IInv
  <1> SUFFICES ASSUME Init PROVE IInv
    OBVIOUS
  <1>1. TypeOK
    BY DEF Init, TypeOK, Awaits, Services, NoRequest
  <1>2. PhaseInv
    BY DEF Init, PhaseInv, Running, Awaits, NoRequest
  <1>3. ReleasedInv
    BY DEF Init, ReleasedInv
  <1>4. AnswerInv
    BY DEF Init, AnswerInv, NoRequest
  <1> QED
    BY <1>1, <1>2, <1>3, <1>4 DEF IInv

LEMMA TypeStep == TypeOK /\ [Next]_vars => TypeOK'
  <1> SUFFICES ASSUME TypeOK, [Next]_vars PROVE TypeOK'
    OBVIOUS
  <1> USE DEF TypeOK, lifespan
  <1>1. CASE Start
    BY <1>1 DEF Start, NoRequest
  <1>2. CASE CheckDatabase
    BY <1>2 DEF CheckDatabase
  <1>3. CASE CheckRedis
    BY <1>3 DEF CheckRedis, Awaits
  <1>4. CASE WorkerStep
    BY <1>4 DEF WorkerStep, Running, Awaits
  <1>5. CASE RaiseCancelled \/ Rollback
    BY <1>5 DEF RaiseCancelled, Rollback, Awaits
  <1>6. ASSUME NEW r \in Requests, NEW q \in Inputs, Receive(r, q) PROVE TypeOK'
    BY <1>6 DEF Receive
  <1>7. ASSUME NEW r \in Requests, AnswerRequest(r) PROVE TypeOK'
    <2>1. PICK result \in Results(req[r].input) :
            req' = [req EXCEPT ![r] = [stage  |-> "answered",
                                       input  |-> req[r].input,
                                       result |-> result,
                                       answer |-> Respond(req[r].input, result)]]
      BY <1>7 DEF AnswerRequest
    <2> QED
      BY <1>7, <2>1 DEF AnswerRequest
  <1>8. CASE StopSignal \/ CancelWorkers \/ Gather
    BY <1>8 DEF StopSignal, CancelWorkers, Gather
  <1>9. CASE CloseRedis \/ DisposeEngine
    BY <1>9 DEF CloseRedis, DisposeEngine, AfterRedis
  <1>10. CASE ServiceChange
    BY <1>10 DEF ServiceChange
  <1>11. CASE UNCHANGED vars
    BY <1>11 DEF vars
  <1> QED
    BY <1>1, <1>2, <1>3, <1>4, <1>5, <1>6, <1>7, <1>8, <1>9, <1>10, <1>11
       DEF Next, Progress

LEMMA PhaseStep == IInv /\ [Next]_vars => PhaseInv'
  <1> SUFFICES ASSUME IInv, [Next]_vars PROVE PhaseInv'
    OBVIOUS
  <1> USE DEF PhaseInv, lifespan
  <1>0. TypeOK /\ PhaseInv
    BY DEF IInv
  <1>1. CASE Start
    BY <1>1 DEF Start, NoRequest, Running, Awaits
  <1>2. CASE CheckDatabase
    BY <1>0, <1>2 DEF CheckDatabase, Running
  <1>3. CASE CheckRedis
    BY <1>0, <1>3 DEF CheckRedis, Running, TypeOK
  <1>4. CASE WorkerStep \/ RaiseCancelled \/ Rollback
    BY <1>0, <1>4 DEF WorkerStep, RaiseCancelled, Rollback, Running, Awaits
  <1>5. ASSUME NEW r \in Requests, NEW q \in Inputs, Receive(r, q) PROVE PhaseInv'
    BY <1>0, <1>5 DEF Receive, Running, TypeOK
  <1>6. ASSUME NEW r \in Requests, AnswerRequest(r) PROVE PhaseInv'
    <2>1. \A s \in Requests : req'[s].stage = "received" => req[s].stage = "received"
      BY <1>0, <1>6 DEF AnswerRequest, TypeOK
    <2> QED
      BY <1>0, <1>6, <2>1 DEF AnswerRequest, Running
  <1>7. CASE StopSignal \/ CancelWorkers
    BY <1>0, <1>7 DEF StopSignal, CancelWorkers, Running
  <1>8. CASE Gather
    BY <1>0, <1>8 DEF Gather, Gathered, Running, Awaits
  <1>9. CASE CloseRedis \/ DisposeEngine
    BY <1>0, <1>9 DEF CloseRedis, DisposeEngine, AfterRedis, Running
  <1>10. CASE ServiceChange \/ UNCHANGED vars
    BY <1>0, <1>10 DEF ServiceChange, vars, Running
  <1> QED
    BY <1>1, <1>2, <1>3, <1>4, <1>5, <1>6, <1>7, <1>8, <1>9, <1>10 DEF Next,
       Progress

LEMMA ReleasedStep == IInv /\ [Next]_vars => ReleasedInv'
  <1> SUFFICES ASSUME IInv, [Next]_vars PROVE ReleasedInv'
    OBVIOUS
  <1> USE DEF ReleasedInv, lifespan
  <1>0. ReleasedInv
    BY DEF IInv
  <1>1. CASE CloseRedis
    BY <1>0, <1>1 DEF CloseRedis, AfterRedis, IInv, TypeOK
  <1>2. CASE DisposeEngine
    BY <1>0, <1>2 DEF DisposeEngine, IInv, TypeOK
  <1>3. CASE UNCHANGED <<phase, engine, redis, clean>>
    BY <1>0, <1>3
  <1> QED
    BY <1>0, <1>1, <1>2, <1>3 DEF Next, Progress, Start, CheckDatabase,
       CheckRedis, WorkerStep,
       RaiseCancelled, Rollback, Receive, AnswerRequest, StopSignal, CancelWorkers, Gather,
       ServiceChange, vars

LEMMA AnswerStep == IInv /\ [Next]_vars => AnswerInv'
  <1> SUFFICES ASSUME IInv, [Next]_vars PROVE AnswerInv'
    OBVIOUS
  <1>0. AnswerInv /\ DOMAIN req = Requests
    BY DEF IInv, TypeOK
  <1>1. CASE Start
    BY <1>1 DEF Start, AnswerInv, NoRequest
  <1>2. ASSUME NEW r \in Requests, NEW q \in Inputs, Receive(r, q) PROVE AnswerInv'
    <2> SUFFICES ASSUME NEW s \in Requests
                 PROVE  /\ req'[s].stage \in {"received", "answered"}
                             => req'[s].input \in Inputs
                        /\ req'[s].stage = "answered" =>
                             /\ req'[s].result \in RouteResults
                             /\ req'[s].answer = Respond(req'[s].input, req'[s].result)
      BY DEF AnswerInv
    <2>1. CASE s = r
      <3>1. req'[s] = [stage |-> "received", input |-> q]
        BY <1>0, <1>2, <2>1 DEF Receive
      <3> QED
        BY <3>1
    <2>2. CASE s # r
      <3>1. req'[s] = req[s]
        BY <1>0, <1>2, <2>2 DEF Receive
      <3> QED
        BY <1>0, <3>1 DEF AnswerInv
    <2> QED
      BY <2>1, <2>2
  <1>3. ASSUME NEW r \in Requests, AnswerRequest(r) PROVE AnswerInv'
    <2>1. PICK result \in Results(req[r].input) :
            req' = [req EXCEPT ![r] = [stage  |-> "answered",
                                       input  |-> req[r].input,
                                       result |-> result,
                                       answer |-> Respond(req[r].input, result)]]
      BY <1>3 DEF AnswerRequest
    <2>2. req[r].input \in Inputs /\ result \in RouteResults
      BY <1>0, <1>3, <2>1, ResultsAre DEF AnswerRequest, AnswerInv
    <2> SUFFICES ASSUME NEW s \in Requests
                 PROVE  /\ req'[s].stage \in {"received", "answered"}
                             => req'[s].input \in Inputs
                        /\ req'[s].stage = "answered" =>
                             /\ req'[s].result \in RouteResults
                             /\ req'[s].answer = Respond(req'[s].input, req'[s].result)
      BY DEF AnswerInv
    <2>3. CASE s = r
      <3>1. req'[s] = [stage |-> "answered", input |-> req[r].input,
                       result |-> result, answer |-> Respond(req[r].input, result)]
        BY <1>0, <2>1, <2>3
      <3> QED
        BY <2>2, <3>1
    <2>4. CASE s # r
      <3>1. req'[s] = req[s]
        BY <1>0, <2>1, <2>4
      <3> QED
        BY <1>0, <3>1 DEF AnswerInv
    <2> QED
      BY <2>3, <2>4
  <1>4. CASE UNCHANGED req
    BY <1>0, <1>4 DEF AnswerInv
  <1> QED
    BY <1>1, <1>2, <1>3, <1>4 DEF Next, Progress, CheckDatabase, CheckRedis,
       WorkerStep,
       RaiseCancelled, Rollback, StopSignal, CancelWorkers, Gather, CloseRedis, DisposeEngine,
       ServiceChange, vars

LEMMA InvariantHolds == Spec => []IInv
  <1>1. IInv /\ [Next]_vars => IInv'
    BY TypeStep, PhaseStep, ReleasedStep, AnswerStep DEF IInv
  <1> QED
    BY InitIInv, <1>1, PTL DEF Spec

(* Every reachable state of lifespan, worker and requests has the right      *)
(* types.                                                                    *)
THEOREM TypeCorrect == Spec => []TypeOK
  <1>1. IInv => TypeOK
    BY DEF IInv
  <1> QED
    BY InvariantHolds, <1>1, PTL

(* Worker and requests, of any number, find the engine and the Redis client  *)
(* open and attached.                                                        *)
THEOREM ResourcesOpen == Spec => []UsersHaveResources
  <1>1. IInv => UsersHaveResources
    BY DEF IInv, PhaseInv, UsersHaveResources
  <1> QED
    BY InvariantHolds, <1>1, PTL

(* Whatever fails in a start or a shutdown, a process that gets to its end   *)
(* has left nothing open, and "application_stopped" is only logged when both *)
(* resources were really closed.                                             *)
THEOREM NothingLeftOpen == Spec => []ReleasedInv
  <1>1. IInv => ReleasedInv
    BY DEF IInv
  <1> QED
    BY InvariantHolds, <1>1, PTL

(* Whatever a request is and however its route ends, its answer carries the  *)
(* request id and the headers, an error has the standard shape, and the log  *)
(* line tells the status and the id that the client got.                     *)
THEOREM AnswersAreComplete == Spec => []AnswersComplete
  <1>1. ASSUME IInv PROVE AnswersComplete
    <2> SUFFICES ASSUME NEW r \in Requests, req[r].stage = "answered"
                 PROVE
          LET q == req[r].input
              a == req[r].answer
          IN /\ SecurityHeaders \cup {"X-Request-ID"} \subseteq a.headers
             /\ ("Access-Control-Allow-Origin" \in a.headers) <=> (q.origin = "allowed")
             /\ ~ IsPreflight(q) /\ req[r].result.raised \notin {"none", "CachedResponseSignal"}
                  => a.shape = "standard" /\ a.status >= 400
             /\ a.logged = a.status
             /\ a.loggedId = a.requestId
             /\ (a.requestId = "theirs") <=> (q.id = "boring")
      BY DEF AnswersComplete
    <2>1. /\ req[r].input \in Inputs /\ req[r].result \in RouteResults
          /\ req[r].answer = Respond(req[r].input, req[r].result)
      BY <1>1 DEF IInv, AnswerInv
    <2>2. ResolveRequestId(req[r].input) = "theirs" <=> req[r].input.id = "boring"
      BY DEF ResolveRequestId
    <2> QED
      BY <2>1, <2>2, RespondComplete DEF Failed, StandardError
  <1> QED
    BY <1>1, InvariantHolds, PTL
=============================================================================
