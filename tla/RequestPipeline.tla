--------------------------- MODULE RequestPipeline ---------------------------
(***************************************************************************)
(* What surrounds a handler: the logger's genReqId, CorrelationIdMiddleware,  *)
(* HttpMetricsMiddleware, the guards, and GlobalExceptionFilter with its      *)
(* ErrorReporter.  Requests overlap wherever one of them awaits, the client  *)
(* may hang up under a running handler, and a handler may fail with its      *)
(* response half sent.                                                       *)
(***************************************************************************)
EXTENDS Integers, FiniteSets, Sequences

CONSTANTS
  Request,      \* requests in flight at one time
  Id,           \* correlation ids a client may send, or a UUID be
  None,         \* no id at all, or one that is blank or too long
  Tenant,
  exposeInternalErrors

ASSUME PipelineAssumption ==
  /\ IsFiniteSet(Request)
  /\ None \notin Id /\ None \notin Tenant
  /\ exposeInternalErrors \in BOOLEAN

VARIABLES
  service,      \* how the service is set up
  stage,        \* how far each request has come in this process
  route,        \* what kind of route it asks for
  header,       \* its x-correlation-id
  requestId, context, shown, quoted,
                \* its id in the log lines, in the ambient context, on the
                \* response, and in the error body, the error's log line and report
  tenant,       \* request[REQUEST_CONTEXT_PROPERTY].tenantId
  thrown,       \* the exception under way
  statusCode, headersSent, body,
                \* the response: its status, and the error body if it has one
  socket,       \* open, finished (all was sent) or closed
  listening, recorded, inFlight, observed,
                \* HttpMetricsMiddleware: listeners and flag; the gauge; and the
                \* statuses counted for the request
  reports       \* what the error tracker received of the request

ids      == <<header, requestId, context, shown, quoted>>
response == <<statusCode, headersSent, body>>
metrics  == <<listening, recorded, inFlight, observed>>
vars     == <<service, stage, route, ids, tenant, thrown, response, socket, metrics, reports>>

Stage == {"none", "arrived", "logged", "opened", "guarded", "handled",
          "thrown", "answered", "broken"}
Event == {"finish", "close"}

\* What can be thrown.  A DomainException has its own status (500 is
\* InternalException), an HttpException may carry a list of violations, any
\* other value is a driver's constraint error, an Error, or not even that.
Exception ==
  [class : {"DomainException"}, status : {401, 500}]
    \union [class : {"HttpException"}, status : {404, 503}, violations : BOOLEAN]
    \union [class : {"constraint", "Error", "value"}]

\* A normalized error, as far as the properties tell them apart.
Error == [status : {400, 401, 404, 409, 500, 503}, message : {"own", "fixed", "generic"}]

ASSUME NoneAssumption == None \notin Error

Status == {200, 400, 401, 404, 409, 500, 503}
Report == [id : Id, tenant : Tenant \union {None}, status : {500, 503}]

\* What has been counted, or reported, at most once.
Once(S) == {<<>>} \union {<<x>> : x \in S}

TypeOK ==
  /\ service \in [logger : BOOLEAN, middleware : BOOLEAN, reporter : BOOLEAN]
  /\ stage \in [Request -> Stage]
  /\ route \in [Request -> {"business", "infrastructure"}]
  /\ \A id \in {header, requestId, context, shown, quoted} : id \in [Request -> Id \union {None}]
  /\ tenant \in [Request -> Tenant \union {None}]
  /\ thrown \in [Request -> Exception \union {None}]
  /\ statusCode \in [Request -> Status]
  /\ headersSent \in [Request -> BOOLEAN]
  /\ body \in [Request -> Error \union {None}]
  /\ socket \in [Request -> {"open", "finished", "closed"}]
  /\ listening \in [Request -> SUBSET Event]
  /\ recorded \in [Request -> BOOLEAN]
  /\ inFlight \in 0..Cardinality(Request)
  /\ observed \in [Request -> Once(Status)]
  /\ reports \in [Request -> Once(Report)]

Init ==
  /\ service \in [logger : BOOLEAN, middleware : BOOLEAN, reporter : BOOLEAN]
  /\ stage = [r \in Request |-> "none"]
  /\ route = [r \in Request |-> "business"]
  /\ header = [r \in Request |-> None]
  /\ requestId = [r \in Request |-> None]
  /\ context = [r \in Request |-> None]
  /\ shown = [r \in Request |-> None]
  /\ quoted = [r \in Request |-> None]
  /\ tenant = [r \in Request |-> None]
  /\ thrown = [r \in Request |-> None]
  /\ statusCode = [r \in Request |-> 200]
  /\ headersSent = [r \in Request |-> FALSE]
  /\ body = [r \in Request |-> None]
  /\ socket = [r \in Request |-> "open"]
  /\ listening = [r \in Request |-> {}]
  /\ recorded = [r \in Request |-> FALSE]
  /\ inFlight = 0
  /\ observed = [r \in Request |-> <<>>]
  /\ reports = [r \in Request |-> <<>>]

Goes(r, next) == stage' = [stage EXCEPT ![r] = next]

Throw(r, e) == Goes(r, "thrown") /\ thrown' = [thrown EXCEPT ![r] = e]

-----------------------------------------------------------------------------
(* The correlation id                                                       *)

\* A UUID is one nobody else has.
Minted == Id \ {header[r] : r \in Request}

\* Slip: the id is not written back, the next to ask mints another.
Slip_NotWrittenBack(r, id) ==
  /\ IF header[r] \in Id THEN id = header[r] ELSE id \in Minted
  /\ UNCHANGED header

\* The one rule: the caller's id if it is usable, else a fresh one, written back.
assignCorrelationId(r, id) ==
  /\ IF header[r] \in Id THEN id = header[r] ELSE id \in Minted
  /\ header' = [header EXCEPT ![r] = id]

Arrives(r) ==
  /\ stage[r] = "none"
  /\ Goes(r, "arrived")
  /\ \E h \in Id \union {None} : header' = [header EXCEPT ![r] = h]
  /\ \E kind \in {"business", "infrastructure"} : route' = [route EXCEPT ![r] = kind]
  /\ UNCHANGED <<service, requestId, context, shown, quoted, tenant, thrown, response,
                 socket, metrics, reports>>

\* The body parser refuses the request before anything below has run.
BodyRejected(r) ==
  /\ stage[r] = "arrived"
  /\ \E e \in Exception : Throw(r, e)
  /\ UNCHANGED <<service, route, ids, tenant, response, socket, metrics, reports>>

\* The logger settles the id if the service passes it assignCorrelationId; else
\* it numbers its lines by itself.
Logs(r) ==
  /\ stage[r] = "arrived"
  /\ Goes(r, "logged")
  /\ \/ /\ service.logger
        /\ \E id \in Id : /\ assignCorrelationId(r, id)
                          /\ requestId' = [requestId EXCEPT ![r] = id]
     \/ ~service.logger /\ UNCHANGED <<header, requestId>>
  /\ UNCHANGED <<service, route, context, shown, quoted, tenant, thrown, response,
                 socket, metrics, reports>>

\* AsyncLocalStorage.run: all that this request starts sees this context.
runWith(r, id) == context' = [context EXCEPT ![r] = id]

\* CorrelationIdMiddleware, in services that register it.
Opens(r) ==
  /\ stage[r] = "logged"
  /\ Goes(r, "opened")
  /\ \/ /\ service.middleware
        /\ \E id \in Id : /\ assignCorrelationId(r, id)
                          /\ shown' = [shown EXCEPT ![r] = id]
                          /\ runWith(r, id)
     \/ ~service.middleware /\ UNCHANGED <<header, shown, context>>
  /\ UNCHANGED <<service, route, requestId, quoted, tenant, thrown, response,
                 socket, metrics, reports>>

-----------------------------------------------------------------------------
(* HttpMetricsMiddleware                                                    *)

\* Slip: a response that finishes is all there is.
Slip_FinishOnly(r) == {"finish"}

Listeners(r) == Event

\* use(), up to next().
Meters(r) ==
  /\ stage[r] = "opened"
  /\ Goes(r, "guarded")
  /\ \/ route[r] = "infrastructure" /\ UNCHANGED <<listening, inFlight>>
     \/ /\ route[r] = "business"
        /\ listening' = [listening EXCEPT ![r] = Listeners(r)]
        /\ inFlight' = inFlight + 1
  /\ UNCHANGED <<service, route, ids, tenant, thrown, response, socket, recorded, observed, reports>>

\* Slip: the labels are those the request came with.
Slip_StatusAtStart(r) ==
  \/ recorded[r] /\ UNCHANGED <<recorded, inFlight, observed>>
  \/ /\ ~recorded[r]
     /\ recorded' = [recorded EXCEPT ![r] = TRUE]
     /\ inFlight' = inFlight - 1
     /\ observed' = [observed EXCEPT ![r] = Append(@, 200)]

\* record(): the first event counts, the second finds the flag set.
record(r) ==
  \/ recorded[r] /\ UNCHANGED <<recorded, inFlight, observed>>
  \/ /\ ~recorded[r]
     /\ recorded' = [recorded EXCEPT ![r] = TRUE]
     /\ inFlight' = inFlight - 1
     /\ observed' = [observed EXCEPT ![r] = Append(@, statusCode[r])]

\* The response emits an event; once() drops the listener.
Emits(r, event) ==
  /\ listening' = [listening EXCEPT ![r] = @ \ {event}]
  /\ \/ event \in listening[r] /\ record(r)
     \/ event \notin listening[r] /\ UNCHANGED <<recorded, inFlight, observed>>

-----------------------------------------------------------------------------
(* The guards and the handler                                               *)

\* The guards let the request through, in a tenant or (a public route) in none.
GuardsPass(r) ==
  /\ stage[r] = "guarded"
  /\ Goes(r, "handled")
  /\ \E t \in Tenant \union {None} : tenant' = [tenant EXCEPT ![r] = t]
  /\ UNCHANGED <<service, route, ids, thrown, response, socket, metrics, reports>>

\* A guard refuses it, before or after the tenant is known, or the handler fails.
Fails(r) ==
  /\ stage[r] \in {"guarded", "handled"}
  /\ \E e \in Exception : Throw(r, e)
  /\ UNCHANGED <<service, route, ids, tenant, response, socket, metrics, reports>>

\* The handler streams: the head of a 200 is on its way.
SendsHead(r) ==
  /\ stage[r] = "handled" /\ ~headersSent[r]
  /\ headersSent' = [headersSent EXCEPT ![r] = TRUE]
  /\ UNCHANGED <<service, stage, route, ids, tenant, thrown, statusCode, body, socket, metrics, reports>>

Succeeds(r) ==
  /\ stage[r] = "handled"
  /\ Goes(r, "answered")
  /\ headersSent' = [headersSent EXCEPT ![r] = TRUE]
  /\ UNCHANGED <<service, route, ids, tenant, thrown, statusCode, body, socket, metrics, reports>>

-----------------------------------------------------------------------------
(* GlobalExceptionFilter                                                    *)

\* A list of violations is a 400, whatever the exception's own status.
fromHttpException(e) ==
  IF e.violations THEN [status |-> 400, message |-> "fixed"]
                  ELSE [status |-> e.status, message |-> "own"]

normalize(e) ==
  CASE e.class = "DomainException" -> [status |-> e.status, message |-> "own"]
    [] e.class = "HttpException"   -> fromHttpException(e)
    [] e.class = "constraint"      -> [status |-> 409, message |-> "fixed"]
    [] e.class \in {"Error", "value"} ->
         [status |-> 500,
          message |-> IF exposeInternalErrors /\ e.class = "Error" THEN "own" ELSE "generic"]

\* Slip: only what is worse than a 500.
Slip_AboveServerError(r, error) == service.reporter /\ error.status > 500

IsReported(r, error) ==
  service.reporter /\ error.status >= 500 /\ route[r] # "infrastructure"

\* ErrorReporterService.capture: the event leaves with its tags.
capture(r, error, id) ==
  reports' = [reports EXCEPT ![r] =
                Append(@, [id |-> id, tenant |-> tenant[r], status |-> error.status])]

report(r, error, id) ==
  \/ IsReported(r, error) /\ capture(r, error, id)
  \/ ~IsReported(r, error) /\ UNCHANGED reports

\* The answer is written; if part of one had been already, json() throws and
\* Express destroys the connection, the status set but never sent.
Respond(r, error) ==
  /\ statusCode' = [statusCode EXCEPT ![r] = error.status]
  /\ \/ /\ ~headersSent[r]
        /\ headersSent' = [headersSent EXCEPT ![r] = TRUE]
        /\ body' = [body EXCEPT ![r] = error]
        /\ Goes(r, "answered")
     \/ /\ headersSent[r]
        /\ Goes(r, "broken")
        /\ UNCHANGED <<headersSent, body>>

\* The id of the error, on the response too if that can still be.
resolveCorrelationId(r, id) ==
  /\ assignCorrelationId(r, id)
  /\ quoted' = [quoted EXCEPT ![r] = id]
  /\ shown' = IF headersSent[r] THEN shown ELSE [shown EXCEPT ![r] = id]

catch(r) ==
  /\ stage[r] = "thrown"
  /\ \E id \in Id :
       /\ resolveCorrelationId(r, id)
       /\ report(r, normalize(thrown[r]), id)
  /\ Respond(r, normalize(thrown[r]))
  /\ thrown' = [thrown EXCEPT ![r] = None]
  /\ UNCHANGED <<service, route, requestId, context, tenant, socket, metrics>>

-----------------------------------------------------------------------------
(* The response's events, and the client                                    *)

Finishes(r) ==
  /\ stage[r] = "answered" /\ socket[r] = "open"
  /\ socket' = [socket EXCEPT ![r] = "finished"]
  /\ Emits(r, "finish")
  /\ UNCHANGED <<service, stage, route, ids, tenant, thrown, response, reports>>

\* After "finish"; or the client hung up, at any await; or Express destroyed it.
Closes(r) ==
  /\ \/ socket[r] = "finished"
     \/ socket[r] = "open" /\ stage[r] \in {"guarded", "handled", "thrown", "answered", "broken"}
  /\ socket' = [socket EXCEPT ![r] = "closed"]
  /\ Emits(r, "close")
  /\ UNCHANGED <<service, stage, route, ids, tenant, thrown, response, reports>>

\* Nothing is left of the request, and another one takes its name.
Leaves(r) ==
  /\ socket[r] = "closed" /\ stage[r] \in {"answered", "broken"}
  /\ Goes(r, "none")
  /\ route' = [route EXCEPT ![r] = "business"]
  /\ header' = [header EXCEPT ![r] = None]
  /\ requestId' = [requestId EXCEPT ![r] = None]
  /\ context' = [context EXCEPT ![r] = None]
  /\ shown' = [shown EXCEPT ![r] = None]
  /\ quoted' = [quoted EXCEPT ![r] = None]
  /\ tenant' = [tenant EXCEPT ![r] = None]
  /\ statusCode' = [statusCode EXCEPT ![r] = 200]
  /\ headersSent' = [headersSent EXCEPT ![r] = FALSE]
  /\ body' = [body EXCEPT ![r] = None]
  /\ socket' = [socket EXCEPT ![r] = "open"]
  /\ recorded' = [recorded EXCEPT ![r] = FALSE]
  /\ listening' = [listening EXCEPT ![r] = {}]
  /\ observed' = [observed EXCEPT ![r] = <<>>]
  /\ reports' = [reports EXCEPT ![r] = <<>>]
  /\ UNCHANGED <<service, thrown, inFlight>>

Next == \E r \in Request :
  \/ Arrives(r) \/ BodyRejected(r) \/ Logs(r) \/ Opens(r) \/ Meters(r)
  \/ GuardsPass(r) \/ Fails(r) \/ SendsHead(r) \/ Succeeds(r) \/ catch(r)
  \/ Finishes(r) \/ Closes(r) \/ Leaves(r)

Spec == Init /\ [][Next]_vars

-----------------------------------------------------------------------------
(* Properties                                                               *)

\* Wherever a request's id appears, it is the same one: in its log lines, in the
\* ambient context of its handler, on the response, in an error body, in the
\* error's log line and report, however many requests overlap; and every error
\* body has one, also on the response if the error could still set it ("so the
\* body, the response header and this filter's own log line agree").
OneIdPerRequest ==
  \A r \in Request :
    /\ Cardinality({requestId[r], context[r], shown[r], quoted[r]} \ {None}) <= 1
    /\ body[r] # None => quoted[r] # None /\ shown[r] = quoted[r]

\* The gauge is the number of business requests past the middleware whose
\* response has not ended, whichever way each of the others ended, however it
\* went wrong (record: "finish and close both fire").
InFlightIsExact ==
  inFlight = Cardinality({r \in Request : socket[r] = "open" /\ listening[r] # {}})

\* A metered request that has ended was counted once, hung up on or not, and one
\* whose answer was sent in full under the status of that answer.
CountedAsAnswered ==
  \A r \in Request : recorded[r] =>
    /\ Len(observed[r]) = 1
    /\ socket[r] = "finished" => observed[r][1] = (IF body[r] = None THEN 200 ELSE body[r].status)

\* The tracker and the counter tell the same story: a 5xx that was counted was
\* reported, once, with the id its caller can quote and the tenant it acted in;
\* what was reported was a server error on a business route.
ReportsMatchCounts ==
  \A r \in Request :
    /\ (service.reporter /\ observed[r] # <<>> /\ observed[r][1] >= 500) => Len(reports[r]) = 1
    /\ reports[r] # <<>> =>
         /\ reports[r][1].id = quoted[r] /\ reports[r][1].tenant = tenant[r]
         /\ statusCode[r] >= 500 /\ route[r] = "business"

\* The message of an InternalException stays inside: "replaced with a generic one
\* in the response, so it is safe to be specific here" (internal.exception.ts).
InternalStaysInternal ==
  \A r \in Request : (body[r] # None /\ body[r].status = 500) =>
    body[r].message = "generic" \/ exposeInternalErrors
=============================================================================
