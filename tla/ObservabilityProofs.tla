------------------------ MODULE ObservabilityProofs ------------------------
(***************************************************************************)
(* The pipeline, for any number of requests, ids and tenants: one id each, an  *)
(* exact gauge, and counts and reports that agree.  An id, wherever it is      *)
(* seen, is the one written back to the request's header; and the listeners    *)
(* of an open response are both there or neither, so that the first event      *)
(* counts, under the status the response has by then, and the second does not. *)
(*                                                                         *)
(* The metrics, for any number of scrapes and series: whatever any running     *)
(* scrape may yet set, every scrape that runs beside it has seen to be true    *)
(* at some moment since one of them began.                                   *)
(***************************************************************************)
EXTENDS MCObservability, FiniteSetTheorems, TLAPS

-----------------------------------------------------------------------------
(* RequestPipeline                                                          *)

Before == {"none", "arrived", "logged", "opened"}

\* How far a request has come bounds what has become of it.
StageInv(r) ==
  /\ stage[r] = "none" => {requestId[r], context[r], shown[r], quoted[r]} \subseteq {None}
  /\ stage[r] \in Before => socket[r] = "open" /\ listening[r] = {}
  /\ stage[r] = "thrown" => thrown[r] \in Exception
  /\ stage[r] \notin {"answered", "broken"} =>
       statusCode[r] = 200 /\ body[r] = None /\ reports[r] = <<>>

\* An id, wherever it appears, is the one written back to the request's header.
IdInv(r) ==
  /\ {requestId[r], context[r], shown[r], quoted[r]} \subseteq {None, header[r]}
  /\ body[r] # None => quoted[r] # None /\ shown[r] = quoted[r]

\* The listeners of a response, while it is open, are both there or neither, and
\* the first event takes the count.
SocketInv(r) ==
  /\ socket[r] = "open" => listening[r] \in {{}, Event} /\ ~recorded[r]
  /\ socket[r] = "finished" =>
       /\ stage[r] = "answered"
       /\ listening[r] \in {{}, {"close"}}
       /\ listening[r] # {} => recorded[r]
  /\ listening[r] # {} \/ recorded[r] => route[r] = "business"
  /\ observed[r] # <<>> <=> recorded[r]

\* The status on the response is that of its body.
AnswerInv(r) ==
  /\ stage[r] = "answered" => statusCode[r] = (IF body[r] = None THEN 200 ELSE body[r].status)
  /\ body[r] # None => stage[r] = "answered"
  /\ recorded[r] /\ socket[r] = "finished" => observed[r][1] = statusCode[r]

ReportInv(r) ==
  /\ observed[r] # <<>> /\ observed[r][1] >= 500 => statusCode[r] = observed[r][1]
  /\ service.reporter /\ statusCode[r] >= 500 /\ route[r] = "business" => reports[r] # <<>>
  /\ reports[r] # <<>> =>
       /\ reports[r][1].id = quoted[r] /\ reports[r][1].tenant = tenant[r]
       /\ statusCode[r] >= 500 /\ route[r] = "business"

RequestInv(r) == StageInv(r) /\ IdInv(r) /\ SocketInv(r) /\ AnswerInv(r) /\ ReportInv(r)

Metered == {r \in Request : socket[r] = "open" /\ listening[r] # {}}

IInv == TypeOK /\ (\A r \in Request : RequestInv(r)) /\ inFlight = Cardinality(Metered)

-----------------------------------------------------------------------------

\* What an action of another request leaves alone.
Same(q) ==
  /\ stage'[q] = stage[q] /\ route'[q] = route[q] /\ header'[q] = header[q]
  /\ requestId'[q] = requestId[q] /\ context'[q] = context[q]
  /\ shown'[q] = shown[q] /\ quoted'[q] = quoted[q]
  /\ tenant'[q] = tenant[q] /\ thrown'[q] = thrown[q]
  /\ statusCode'[q] = statusCode[q] /\ headersSent'[q] = headersSent[q] /\ body'[q] = body[q]
  /\ socket'[q] = socket[q] /\ listening'[q] = listening[q]
  /\ recorded'[q] = recorded[q] /\ observed'[q] = observed[q] /\ reports'[q] = reports[q]

Keeps(r) ==
  /\ inFlight' \in 0..Cardinality(Request) => TypeOK'
  /\ service' = service
  /\ RequestInv(r)'
  /\ \A q \in Request \ {r} : Same(q)

LEMMA ArrivesKeeps ==
  ASSUME IInv, NEW r \in Request, Arrives(r)
  PROVE  Keeps(r)
<1>1. TypeOK'
  BY DEF IInv, TypeOK, Stage, Arrives, Goes, Throw, response, metrics, ids
<1>2. RequestInv(r)'
  BY DEF IInv, TypeOK, Arrives, Goes, Throw, response, metrics, ids, Before,
         RequestInv, StageInv, IdInv, SocketInv, AnswerInv, ReportInv
<1>3. \A q \in Request \ {r} : Same(q)
  BY DEF Same, IInv, TypeOK, Arrives, Goes, Throw, response, metrics, ids
<1> QED
  BY <1>1, <1>2, <1>3 DEF Keeps, Arrives

LEMMA BodyRejectedKeeps ==
  ASSUME IInv, NEW r \in Request, BodyRejected(r)
  PROVE  Keeps(r)
<1>1. TypeOK'
  BY DEF IInv, TypeOK, Stage, BodyRejected, Goes, Throw, response, metrics, ids
<1>2. RequestInv(r)'
  BY DEF IInv, TypeOK, BodyRejected, Goes, Throw, response, metrics, ids, Before,
         RequestInv, StageInv, IdInv, SocketInv, AnswerInv, ReportInv
<1>3. \A q \in Request \ {r} : Same(q)
  BY DEF Same, IInv, TypeOK, BodyRejected, Goes, Throw, response, metrics, ids
<1> QED
  BY <1>1, <1>2, <1>3 DEF Keeps, BodyRejected

LEMMA GuardsPassKeeps ==
  ASSUME IInv, NEW r \in Request, GuardsPass(r)
  PROVE  Keeps(r)
<1>1. TypeOK'
  BY DEF IInv, TypeOK, Stage, GuardsPass, Goes, Throw, response, metrics, ids
<1>2. RequestInv(r)'
  BY DEF IInv, TypeOK, GuardsPass, Goes, Throw, response, metrics, ids, Before,
         RequestInv, StageInv, IdInv, SocketInv, AnswerInv, ReportInv
<1>3. \A q \in Request \ {r} : Same(q)
  BY DEF Same, IInv, TypeOK, GuardsPass, Goes, Throw, response, metrics, ids
<1> QED
  BY <1>1, <1>2, <1>3 DEF Keeps, GuardsPass

LEMMA FailsKeeps ==
  ASSUME IInv, NEW r \in Request, Fails(r)
  PROVE  Keeps(r)
<1>1. TypeOK'
  BY DEF IInv, TypeOK, Stage, Fails, Goes, Throw, response, metrics, ids
<1>2. RequestInv(r)'
  BY DEF IInv, TypeOK, Fails, Goes, Throw, response, metrics, ids, Before,
         RequestInv, StageInv, IdInv, SocketInv, AnswerInv, ReportInv
<1>3. \A q \in Request \ {r} : Same(q)
  BY DEF Same, IInv, TypeOK, Fails, Goes, Throw, response, metrics, ids
<1> QED
  BY <1>1, <1>2, <1>3 DEF Keeps, Fails

LEMMA SendsHeadKeeps ==
  ASSUME IInv, NEW r \in Request, SendsHead(r)
  PROVE  Keeps(r)
<1>1. TypeOK'
  BY DEF IInv, TypeOK, Stage, SendsHead, Goes, Throw, response, metrics, ids
<1>2. RequestInv(r)'
  BY DEF IInv, TypeOK, SendsHead, Goes, Throw, response, metrics, ids, Before,
         RequestInv, StageInv, IdInv, SocketInv, AnswerInv, ReportInv
<1>3. \A q \in Request \ {r} : Same(q)
  BY DEF Same, IInv, TypeOK, SendsHead, Goes, Throw, response, metrics, ids
<1> QED
  BY <1>1, <1>2, <1>3 DEF Keeps, SendsHead

LEMMA SucceedsKeeps ==
  ASSUME IInv, NEW r \in Request, Succeeds(r)
  PROVE  Keeps(r)
<1>1. TypeOK'
  BY DEF IInv, TypeOK, Stage, Succeeds, Goes, Throw, response, metrics, ids
<1>2. RequestInv(r)'
  BY DEF IInv, TypeOK, Succeeds, Goes, Throw, response, metrics, ids, Before,
         RequestInv, StageInv, IdInv, SocketInv, AnswerInv, ReportInv
<1>3. \A q \in Request \ {r} : Same(q)
  BY DEF Same, IInv, TypeOK, Succeeds, Goes, Throw, response, metrics, ids
<1> QED
  BY <1>1, <1>2, <1>3 DEF Keeps, Succeeds

LEMMA LogsKeeps ==
  ASSUME IInv, NEW r \in Request, Logs(r)
  PROVE  Keeps(r)
<1>1. TypeOK'
  BY PipelineAssumption
    DEF IInv, TypeOK, Stage, Logs, assignCorrelationId, Minted, Goes, response, metrics,
        ids
<1>2. RequestInv(r)'
  BY PipelineAssumption
    DEF IInv, TypeOK, Logs, assignCorrelationId, Minted, Goes, response, metrics, ids,
        Before, RequestInv, StageInv, IdInv, SocketInv, AnswerInv, ReportInv
<1>3. \A q \in Request \ {r} : Same(q)
  BY DEF Same, IInv, TypeOK, Logs, assignCorrelationId, Minted, Goes, response, metrics, ids
<1> QED
  BY <1>1, <1>2, <1>3 DEF Keeps, Logs

LEMMA OpensKeeps ==
  ASSUME IInv, NEW r \in Request, Opens(r)
  PROVE  Keeps(r)
<1>1. TypeOK'
  BY PipelineAssumption
    DEF IInv, TypeOK, Stage, Opens, assignCorrelationId, Minted, runWith, Goes, response,
        metrics, ids
<1>2. RequestInv(r)'
  BY PipelineAssumption
    DEF IInv, TypeOK, Opens, assignCorrelationId, Minted, runWith, Goes, response,
        metrics, ids, Before,
         RequestInv, StageInv, IdInv, SocketInv, AnswerInv, ReportInv
<1>3. \A q \in Request \ {r} : Same(q)
  BY
    DEF Same, IInv, TypeOK, Opens, assignCorrelationId, Minted, runWith, Goes, response,
        metrics, ids
<1> QED
  BY <1>1, <1>2, <1>3 DEF Keeps, Opens

LEMMA MetersKeeps ==
  ASSUME IInv, NEW r \in Request, Meters(r)
  PROVE  Keeps(r)
<1>1. inFlight' \in 0..Cardinality(Request) => TypeOK'
  BY DEF IInv, TypeOK, Stage, Meters, Listeners, Event, Goes, response, metrics, ids
<1>2. RequestInv(r)'
  BY DEF IInv, TypeOK, Meters, Listeners, Event, Goes, response, metrics, ids, Before,
         RequestInv, StageInv, IdInv, SocketInv, AnswerInv, ReportInv
<1>3. \A q \in Request \ {r} : Same(q)
  BY DEF Same, IInv, TypeOK, Meters, Listeners, Event, Goes, response, metrics, ids
<1> QED
  BY <1>1, <1>2, <1>3 DEF Keeps, Meters

\* record() finds that its request was counted, or counts it under one status.
LEMMA EmitsOnce ==
  ASSUME IInv, NEW r \in Request, NEW event, Emits(r, event)
  PROVE  \/ /\ event \in listening[r] /\ ~recorded[r]
            /\ recorded' = [recorded EXCEPT ![r] = TRUE]
            /\ inFlight' = inFlight - 1
            /\ observed' = [observed EXCEPT ![r] = <<statusCode[r]>>]
         \/ /\ event \notin listening[r] \/ recorded[r]
            /\ UNCHANGED <<recorded, inFlight, observed>>
<1>1. ~recorded[r] => observed[r] = <<>>
  BY DEF IInv, RequestInv, SocketInv
<1>2. Append(<<>>, statusCode[r]) = <<statusCode[r]>>
  OBVIOUS
<1>3. CASE event \in listening[r] /\ ~recorded[r]
  <2>1. observed' = [observed EXCEPT ![r] = Append(observed[r], statusCode[r])]
    BY <1>3 DEF Emits, record
  <2>2. observed' = [observed EXCEPT ![r] = <<statusCode[r]>>]
    BY <1>1, <1>2, <1>3, <2>1
  <2> QED
    BY <1>3, <2>2 DEF Emits, record
<1> QED
  BY <1>3 DEF Emits, record

LEMMA FinishesKeeps ==
  ASSUME IInv, NEW r \in Request, Finishes(r)
  PROVE  Keeps(r)
<1>1. inFlight' \in 0..Cardinality(Request) => TypeOK'
  <2>1. /\ observed' \in [Request -> Once(Status)]
        /\ recorded' \in [Request -> BOOLEAN]
    <3>1. <<statusCode[r]>> \in Once(Status)
      BY DEF IInv, TypeOK, Once
    <3>2. \/ /\ observed' = [observed EXCEPT ![r] = <<statusCode[r]>>]
             /\ recorded' = [recorded EXCEPT ![r] = TRUE]
          \/ UNCHANGED <<recorded, observed>>
      <4>1. Emits(r, "finish")
        BY DEF Finishes
      <4> QED
        BY <4>1, EmitsOnce
    <3>3. observed \in [Request -> Once(Status)] /\ recorded \in [Request -> BOOLEAN]
      BY DEF IInv, TypeOK
    <3>4. observed' \in [Request -> Once(Status)]
      BY <3>1, <3>2, <3>3
    <3>5. recorded' \in [Request -> BOOLEAN]
      BY <3>2, <3>3
    <3> QED
      BY <3>4, <3>5
  <2>2. listening' \in [Request -> SUBSET Event]
    BY DEF Finishes, Emits, IInv, TypeOK
  <2> QED
    BY <2>1, <2>2 DEF IInv, TypeOK, Finishes, response, ids
<1>2. RequestInv(r)'
  BY DEF IInv, TypeOK, Finishes, Emits, record, Event, Once, Goes, response, metrics, ids, Before,
         RequestInv, StageInv, IdInv, SocketInv, AnswerInv, ReportInv
<1>3. \A q \in Request \ {r} : Same(q)
  BY DEF Same, IInv, TypeOK, Finishes, Emits, record, Event, Once, Goes, response, metrics, ids
<1> QED
  BY <1>1, <1>2, <1>3 DEF Keeps, Finishes

LEMMA ClosesKeeps ==
  ASSUME IInv, NEW r \in Request, Closes(r)
  PROVE  Keeps(r)
<1>1. inFlight' \in 0..Cardinality(Request) => TypeOK'
  <2>1. /\ observed' \in [Request -> Once(Status)]
        /\ recorded' \in [Request -> BOOLEAN]
    <3>1. <<statusCode[r]>> \in Once(Status)
      BY DEF IInv, TypeOK, Once
    <3>2. \/ /\ observed' = [observed EXCEPT ![r] = <<statusCode[r]>>]
             /\ recorded' = [recorded EXCEPT ![r] = TRUE]
          \/ UNCHANGED <<recorded, observed>>
      <4>1. Emits(r, "close")
        BY DEF Closes
      <4> QED
        BY <4>1, EmitsOnce
    <3>3. observed \in [Request -> Once(Status)] /\ recorded \in [Request -> BOOLEAN]
      BY DEF IInv, TypeOK
    <3>4. observed' \in [Request -> Once(Status)]
      BY <3>1, <3>2, <3>3
    <3>5. recorded' \in [Request -> BOOLEAN]
      BY <3>2, <3>3
    <3> QED
      BY <3>4, <3>5
  <2>2. listening' \in [Request -> SUBSET Event]
    BY DEF Closes, Emits, IInv, TypeOK
  <2> QED
    BY <2>1, <2>2 DEF IInv, TypeOK, Closes, response, ids
<1>2. RequestInv(r)'
  BY DEF IInv, TypeOK, Closes, Emits, record, Event, Once, Goes, response, metrics, ids, Before,
         RequestInv, StageInv, IdInv, SocketInv, AnswerInv, ReportInv
<1>3. \A q \in Request \ {r} : Same(q)
  BY DEF Same, IInv, TypeOK, Closes, Emits, record, Event, Once, Goes, response, metrics, ids
<1> QED
  BY <1>1, <1>2, <1>3 DEF Keeps, Closes

LEMMA LeavesKeeps ==
  ASSUME IInv, NEW r \in Request, Leaves(r)
  PROVE  Keeps(r)
<1>1. TypeOK'
  BY DEF IInv, TypeOK, Stage, Leaves, Goes, Once, Status
<1>2. RequestInv(r)'
  BY DEF IInv, TypeOK, Leaves, Goes, Once, Status, Before,
         RequestInv, StageInv, IdInv, SocketInv, AnswerInv, ReportInv
<1>3. \A q \in Request \ {r} : Same(q)
  BY DEF Same, IInv, TypeOK, Leaves, Goes, Once, Status
<1> QED
  BY <1>1, <1>2, <1>3 DEF Keeps, Leaves

\* Whatever is thrown becomes an error of the API.
LEMMA normalizeIsError ==
  ASSUME NEW e \in Exception
  PROVE  normalize(e) \in Error
<1>1. CASE e \in [class : {"DomainException"}, status : {401, 500}]
  BY <1>1 DEF normalize, Error
<1>2. CASE e \in [class : {"HttpException"}, status : {404, 503}, violations : BOOLEAN]
  BY <1>2 DEF normalize, fromHttpException, Error
<1>3. CASE e \in [class : {"constraint", "Error", "value"}]
  BY <1>3 DEF normalize, Error
<1> QED
  BY <1>1, <1>2, <1>3 DEF Exception

LEMMA catchKeeps ==
  ASSUME IInv, NEW r \in Request, catch(r)
  PROVE  Keeps(r)
<1> DEFINE error == normalize(thrown[r])
<1>1. /\ stage[r] = "thrown"
      /\ Respond(r, error)
      /\ thrown' = [thrown EXCEPT ![r] = None]
      /\ UNCHANGED <<service, route, requestId, context, tenant, socket, metrics>>
  BY DEF catch
<1>2. PICK id \in Id : resolveCorrelationId(r, id) /\ report(r, error, id)
  BY DEF catch
<1>3. error \in Error /\ error # None
  BY <1>1, normalizeIsError, NoneAssumption DEF IInv, RequestInv, StageInv
<1> HIDE DEF error
<1>4. error.status \in Status \ {200}
  BY <1>3 DEF Error, Status
<1>5. /\ id # None
      /\ header' = [header EXCEPT ![r] = id]
      /\ header[r] \in {id, None}
      /\ quoted' = [quoted EXCEPT ![r] = id]
      /\ shown' = IF headersSent[r] THEN shown ELSE [shown EXCEPT ![r] = id]
  BY <1>2, PipelineAssumption DEF resolveCorrelationId, assignCorrelationId, IInv, TypeOK
<1>6. /\ statusCode' = [statusCode EXCEPT ![r] = error.status]
      /\ headersSent' = [headersSent EXCEPT ![r] = TRUE]
      /\ body' = IF headersSent[r] THEN body ELSE [body EXCEPT ![r] = error]
      /\ stage' = [stage EXCEPT ![r] = IF headersSent[r] THEN "broken" ELSE "answered"]
  BY <1>1 DEF Respond, Goes, IInv, TypeOK
<1>7. /\ reports[r] = <<>>
      /\ \/ /\ service.reporter /\ error.status >= 500 /\ route[r] = "business"
            /\ reports' = [reports EXCEPT ![r] =
                  <<[id |-> id, tenant |-> tenant[r], status |-> error.status]>>]
         \/ ~(service.reporter /\ error.status >= 500 /\ route[r] = "business") /\ reports' = reports
  <2>1. reports[r] = <<>>
    BY <1>1 DEF IInv, RequestInv, StageInv
  <2>2. route[r] \in {"business", "infrastructure"}
    BY DEF IInv, TypeOK
  <2> QED
    BY <1>2, <2>1, <2>2 DEF report, IsReported, capture
<1>8. TypeOK'
  <2>1. reports' \in [Request -> Once(Report)]
    <3>1. tenant[r] \in Tenant \union {None}
      BY DEF IInv, TypeOK
    <3>2. error.status >= 500 => error.status \in {500, 503}
      BY <1>4 DEF Status
    <3> QED
      BY <1>7, <3>1, <3>2 DEF IInv, TypeOK, Once, Report
  <2>2. /\ statusCode' \in [Request -> Status]
        /\ body' \in [Request -> Error \union {None}]
        /\ stage' \in [Request -> Stage]
    BY <1>3, <1>4, <1>6 DEF IInv, TypeOK, Stage
  <2>3. \A ids_ \in {header', requestId', context', shown', quoted'} :
          ids_ \in [Request -> Id \union {None}]
    BY <1>1, <1>5 DEF IInv, TypeOK
  <2> QED
    BY <1>1, <1>6, <2>1, <2>2, <2>3 DEF IInv, TypeOK, metrics
<1>9. RequestInv(r)'
  <2>1. StageInv(r)'
    BY <1>1, <1>6 DEF IInv, TypeOK, RequestInv, StageInv, Before
  <2>2. IdInv(r)'
    BY <1>1, <1>5, <1>6 DEF IInv, TypeOK, RequestInv, StageInv, IdInv
  <2>3. SocketInv(r)'
    BY <1>1, <1>6 DEF IInv, TypeOK, RequestInv, SocketInv, metrics
  <2>4. AnswerInv(r)'
    BY <1>1, <1>3, <1>6 DEF IInv, TypeOK, RequestInv, StageInv, SocketInv, AnswerInv, metrics
  <2>5. ReportInv(r)'
    BY <1>1, <1>4, <1>5, <1>6, <1>7
    DEF IInv, TypeOK, RequestInv, StageInv, ReportInv, Status, metrics
  <2> QED
    BY <2>1, <2>2, <2>3, <2>4, <2>5 DEF RequestInv
<1>10. \A q \in Request \ {r} : Same(q)
  BY <1>1, <1>5, <1>6, <1>7 DEF Same, IInv, TypeOK, metrics
<1> QED
  BY <1>1, <1>8, <1>9, <1>10 DEF Keeps

-----------------------------------------------------------------------------

\* The gauge is a count of requests.
LEMMA MeteredIsFinite ==
  /\ IsFiniteSet(Metered) /\ Cardinality(Metered) \in Nat
  /\ IsFiniteSet(Metered') /\ Cardinality(Metered') \in Nat
  /\ Cardinality(Metered') <= Cardinality(Request) /\ Cardinality(Request) \in Nat
<1>1. IsFiniteSet(Request) /\ Metered \subseteq Request /\ Metered' \subseteq Request
  BY PipelineAssumption DEF Metered
<1> QED
  BY <1>1, FS_Subset, FS_CardinalityType

LEMMA MetersCount ==
  ASSUME IInv, NEW r \in Request, Meters(r), Keeps(r)
  PROVE  inFlight' = Cardinality(Metered')
<1>1. socket[r] = "open" /\ listening[r] = {} /\ socket' = socket
  BY DEF Meters, IInv, RequestInv, StageInv, Before
<1>2. CASE route[r] = "infrastructure" /\ UNCHANGED <<listening, inFlight>>
  BY <1>1, <1>2 DEF IInv, Metered
<1>3. CASE listening' = [listening EXCEPT ![r] = Listeners(r)] /\ inFlight' = inFlight + 1
  <2>1. Metered' = Metered \union {r} /\ r \notin Metered
    BY <1>1, <1>3 DEF Metered, Listeners, Event, IInv, TypeOK
  <2> QED
    BY <1>3, <2>1, MeteredIsFinite, FS_AddElement DEF IInv
<1> QED
  BY <1>2, <1>3 DEF Meters

\* Whichever event comes first ends the count of a request that was counted in.
LEMMA EventCounts ==
  ASSUME IInv, NEW r \in Request, NEW event \in Event, Emits(r, event),
         socket[r] = "open" \/ (socket[r] = "finished" /\ event = "close"),
         NEW ended \in {"finished", "closed"}, socket' = [socket EXCEPT ![r] = ended]
  PROVE  inFlight' = Cardinality(Metered')
<1>1. Metered' = Metered \ {r}
  BY DEF Metered, Emits, IInv, TypeOK
<1>2. CASE r \in Metered
  <2>1. socket[r] = "open" /\ event \in listening[r] /\ ~recorded[r]
    BY <1>2 DEF Metered, IInv, RequestInv, SocketInv
  <2>2. inFlight' = inFlight - 1
    BY <2>1, EmitsOnce
  <2> QED
    BY <1>1, <1>2, <2>2, MeteredIsFinite, FS_RemoveElement DEF IInv
<1>3. CASE r \notin Metered
  <2>1. event \notin listening[r] \/ recorded[r]
    BY <1>3 DEF Metered, IInv, RequestInv, SocketInv
  <2>2. inFlight' = inFlight /\ Metered' = Metered
    BY <1>1, <1>3, <2>1, EmitsOnce
  <2> QED
    BY <2>2 DEF IInv
<1> QED
  BY <1>2, <1>3

LEMMA LeavesCounts ==
  ASSUME IInv, NEW r \in Request, Leaves(r)
  PROVE  inFlight' = Cardinality(Metered')
<1>1. Metered' = Metered
  BY DEF Leaves, Metered, IInv, TypeOK
<1> QED
  BY <1>1 DEF Leaves, IInv

\* An action of one request leaves the invariant of the others.
LEMMA OthersKeep ==
  ASSUME NEW q \in Request, RequestInv(q), Same(q), service' = service
  PROVE  RequestInv(q)'
BY DEF RequestInv, StageInv, IdInv, SocketInv, AnswerInv, ReportInv, Same

LEMMA StepIInv ==
  ASSUME IInv, NEW r \in Request, Keeps(r), inFlight' = Cardinality(Metered')
  PROVE  IInv'
<1>1. inFlight' \in 0..Cardinality(Request)
  BY MeteredIsFinite
<1>2. \A q \in Request : RequestInv(q)'
  BY OthersKeep DEF Keeps, IInv
<1> QED
  BY <1>1, <1>2 DEF Keeps, IInv

LEMMA InitIInv == Init => IInv
<1> SUFFICES ASSUME Init PROVE IInv
  OBVIOUS
<1>1. TypeOK
  BY FS_CardinalityType, PipelineAssumption DEF Init, TypeOK, Stage, Status, Once
<1>2. ASSUME NEW r \in Request PROVE RequestInv(r)
  BY DEF Init, RequestInv, StageInv, IdInv, SocketInv, AnswerInv, ReportInv, Before
<1>3. Metered = {}
  BY DEF Init, Metered
<1> QED
  BY <1>1, <1>2, <1>3, FS_EmptySet DEF Init, IInv

LEMMA NextIInv == IInv /\ [Next]_vars => IInv'
<1> SUFFICES ASSUME IInv, [Next]_vars PROVE IInv'
  OBVIOUS
<1>1. CASE UNCHANGED vars
  BY <1>1 DEF vars, ids, response, metrics, IInv, TypeOK, RequestInv, StageInv, IdInv,
              SocketInv, AnswerInv, ReportInv, Metered
<1>2. ASSUME NEW r \in Request,
             Arrives(r) \/ BodyRejected(r) \/ Logs(r) \/ Opens(r) \/ GuardsPass(r)
               \/ Fails(r) \/ SendsHead(r) \/ Succeeds(r) \/ catch(r)
      PROVE  IInv'
  <2>1. Keeps(r)
    BY <1>2, ArrivesKeeps, BodyRejectedKeeps, LogsKeeps, OpensKeeps, GuardsPassKeeps,
       FailsKeeps, SendsHeadKeeps, SucceedsKeeps, catchKeeps
  <2>2. UNCHANGED <<socket, listening, inFlight>>
    BY <1>2 DEF Arrives, BodyRejected, Logs, Opens, GuardsPass, Fails, SendsHead, Succeeds,
                catch, metrics
  <2>3. inFlight' = Cardinality(Metered')
    BY <2>2 DEF IInv, Metered
  <2> QED
    BY <2>1, <2>3, StepIInv
<1>3. ASSUME NEW r \in Request, Meters(r) PROVE IInv'
  BY <1>3, MetersKeeps, MetersCount, StepIInv
<1>4. ASSUME NEW r \in Request, Finishes(r) PROVE IInv'
  <2>1. inFlight' = Cardinality(Metered')
    BY <1>4, EventCounts DEF Finishes, Event
  <2> QED
    BY <1>4, <2>1, FinishesKeeps, StepIInv
<1>5. ASSUME NEW r \in Request, Closes(r) PROVE IInv'
  <2>1. inFlight' = Cardinality(Metered')
    BY <1>5, EventCounts DEF Closes, Event
  <2> QED
    BY <1>5, <2>1, ClosesKeeps, StepIInv
<1>6. ASSUME NEW r \in Request, Leaves(r) PROVE IInv'
  BY <1>6, LeavesKeeps, LeavesCounts, StepIInv
<1> QED
  BY <1>1, <1>2, <1>3, <1>4, <1>5, <1>6 DEF Next

\* The strengthened invariant of the requests under way.
THEOREM Invariance == Spec => []IInv
BY InitIInv, NextIInv, PTL DEF Spec

-----------------------------------------------------------------------------

\* The pipeline's state is well-formed; in particular the gauge is a natural
\* number, and no request is counted or reported twice.
THEOREM TypeCorrect == Spec => []TypeOK
<1>1. IInv => TypeOK
  BY DEF IInv
<1> QED
  BY <1>1, Invariance, PTL

\* assignCorrelationId: the logger, the middleware and the filter give a request
\* one id, however many requests overlap.
THEOREM OneIdEach == Spec => []OneIdPerRequest
<1>1. IInv => OneIdPerRequest
  <2> SUFFICES ASSUME IInv, NEW r \in Request
               PROVE  /\ Cardinality({requestId[r], context[r], shown[r], quoted[r]} \ {None}) <= 1
                      /\ body[r] # None => quoted[r] # None /\ shown[r] = quoted[r]
    BY DEF OneIdPerRequest
  <2>1. IdInv(r)
    BY DEF IInv, RequestInv
  <2>2. {requestId[r], context[r], shown[r], quoted[r]} \ {None} \subseteq {header[r]}
    BY <2>1 DEF IdInv
  <2>3. IsFiniteSet({header[r]}) /\ Cardinality({header[r]}) = 1
    BY FS_Singleton
  <2>4. Cardinality({requestId[r], context[r], shown[r], quoted[r]} \ {None}) <= 1
    BY <2>2, <2>3, FS_Subset
  <2> QED
    BY <2>1, <2>4 DEF IdInv
<1> QED
  BY <1>1, Invariance, PTL

\* HttpMetricsMiddleware: the gauge is exactly the requests whose response has
\* not ended.
THEOREM GaugeIsExact == Spec => []InFlightIsExact
<1>1. IInv => InFlightIsExact
  BY DEF IInv, InFlightIsExact, Metered
<1> QED
  BY <1>1, Invariance, PTL

\* HttpMetricsMiddleware.record: once, under the status that was sent in full.
THEOREM CountsAreAnswers == Spec => []CountedAsAnswered
<1>1. IInv => CountedAsAnswered
  <2> SUFFICES ASSUME IInv, NEW r \in Request, recorded[r]
               PROVE  /\ Len(observed[r]) = 1
                      /\ socket[r] = "finished" =>
                           observed[r][1] = (IF body[r] = None THEN 200 ELSE body[r].status)
    BY DEF CountedAsAnswered
  <2>1. SocketInv(r) /\ AnswerInv(r)
    BY DEF IInv, RequestInv
  <2>2. PICK s \in Status : observed[r] = <<s>>
    BY <2>1 DEF SocketInv, IInv, TypeOK, Once
  <2> QED
    BY <2>1, <2>2 DEF SocketInv, AnswerInv
<1> QED
  BY <1>1, Invariance, PTL

\* GlobalExceptionFilter.report beside the counter: every server error that was
\* counted was reported, once, and every report is of one on a business route.
THEOREM ReportsAgree == Spec => []ReportsMatchCounts
<1>1. IInv => ReportsMatchCounts
  <2> SUFFICES ASSUME IInv, NEW r \in Request
               PROVE  /\ (service.reporter /\ observed[r] # <<>> /\ observed[r][1] >= 500)
                           => Len(reports[r]) = 1
                      /\ reports[r] # <<>> =>
                           /\ reports[r][1].id = quoted[r] /\ reports[r][1].tenant = tenant[r]
                           /\ statusCode[r] >= 500 /\ route[r] = "business"
    BY DEF ReportsMatchCounts
  <2>1. SocketInv(r) /\ ReportInv(r)
    BY DEF IInv, RequestInv
  <2>2. reports[r] # <<>> => Len(reports[r]) = 1
    <3>1. ASSUME NEW x \in Report PROVE Len(<<x>>) = 1
      OBVIOUS
    <3> QED
      BY <3>1 DEF IInv, TypeOK, Once
  <2>3. (service.reporter /\ observed[r] # <<>> /\ observed[r][1] >= 500) => reports[r] # <<>>
    BY <2>1 DEF SocketInv, ReportInv
  <2> QED
    BY <2>1, <2>2, <2>3 DEF ReportInv
<1> QED
  BY <1>1, Invariance, PTL

-----------------------------------------------------------------------------
(* Metrics                                                                  *)

\* Only a running scrape reads or sets, and it has begun on every series.
WorkInv ==
  \A s \in Scrape, x \in Metrics!Series :
    IF s \in Metrics!Running THEN work[s][x] # "none" ELSE work[s][x] \notin {"waiting", "read"}

\* What a running scrape has read was true since it began.
SinceInv ==
  \A s \in Metrics!Running, x \in Metrics!Series :
    /\ truth[x] \in since[s][x]
    /\ work[s][x] = "read" => value[s][x] \in since[s][x]

\* What any running scrape may yet set, another that overlaps it has seen; and so
\* it has seen every depth in the registry.
SeenInv ==
  \A s \in Metrics!Running :
    /\ \A t \in Metrics!Running, x \in Metrics!Series : since[t][x] \subseteq seen[s][x]
    /\ \A q \in Queue : gauge[q] \in seen[s][q] \union {Absent}

\* The registry holds what a scrape nobody overlaps has set, and no other depth.
LoneInv ==
  \A s \in Metrics!Running : lone[s] =>
    /\ Metrics!Running = {s}
    /\ \A q \in Queue :
         IF work[s][q] = "done" THEN gauge[q] \in since[s][q] ELSE gauge[q] = Absent
    /\ \A x \in Source : work[s][x] = "done" => gauge[x] \in since[s][x] \union {Absent}

MetricsInv ==
  /\ Metrics!TypeOK
  /\ WorkInv /\ SinceInv /\ SeenInv /\ LoneInv
  /\ RenderedWasTrue /\ LoneScrapeIsExact

-----------------------------------------------------------------------------

LEMMA SeriesFacts ==
  /\ Absent \notin Depth
  /\ Queue \subseteq Metrics!Series /\ Source \subseteq Metrics!Series
  /\ Queue \intersect Source = {}
  /\ Metrics!Series = Queue \union Source
BY MetricsConstants DEF Metrics!MetricsAssumption, Metrics!Series

LEMMA InitMetricsInv == Metrics!Init => MetricsInv
<1> SUFFICES ASSUME Metrics!Init PROVE MetricsInv
  OBVIOUS
<1>1. Metrics!Nothing \in [Metrics!Series -> Depth \union {Absent}]
  BY DEF Metrics!Nothing
<1>2. Metrics!TypeOK
  BY <1>1 DEF Metrics!Init, Metrics!TypeOK
<1>3. \A s \in Scrape : scraping[s] = "idle" /\ \A x \in Metrics!Series : work[s][x] = "none"
  BY DEF Metrics!Init
<1> QED
  BY <1>2, <1>3 DEF MetricsInv, WorkInv, SinceInv, SeenInv, LoneInv, Metrics!Running,
     RenderedWasTrue, Metrics!RenderedWasTrue, Metrics!Answered, LoneScrapeIsExact,
     Metrics!LoneScrapeIsExact

\* A change of the truth is noted by every running scrape.
LEMMA TruthMetricsInv ==
  ASSUME MetricsInv, NEW y \in Metrics!Series, Metrics!TruthChanges(y)
  PROVE  MetricsInv'
<1> USE DEF MetricsInv
<1>1. PICK d \in Depth : truth' = [truth EXCEPT ![y] = d]
  BY DEF Metrics!TruthChanges
<1>2. UNCHANGED <<gauge, scraping, work, value, output, lone>>
  BY DEF Metrics!TruthChanges, Metrics!scrapes
<1>3. truth'[y] = d
  BY <1>1 DEF Metrics!TypeOK
<1>4. /\ since' = [s \in Scrape |-> IF s \in Metrics!Running
                                   THEN [since[s] EXCEPT ![y] = @ \union {d}] ELSE since[s]]
      /\ seen' = [s \in Scrape |-> IF s \in Metrics!Running
                                   THEN [seen[s] EXCEPT ![y] = @ \union {d}] ELSE seen[s]]
  BY <1>3 DEF Metrics!TruthChanges, Metrics!Noted
<1>5. Metrics!Running' = Metrics!Running
  BY <1>2 DEF Metrics!Running
<1>6. Metrics!TypeOK'
  <2>1. since' \in [Scrape -> [Metrics!Series -> SUBSET Depth]]
    BY <1>4 DEF Metrics!TypeOK
  <2>2. seen' \in [Scrape -> [Metrics!Series -> SUBSET Depth]]
    BY <1>4 DEF Metrics!TypeOK
  <2> QED
    BY <1>1, <1>2, <2>1, <2>2 DEF Metrics!TypeOK
<1>7. \A s \in Scrape, x \in Metrics!Series :
        /\ since[s][x] \subseteq since'[s][x] /\ seen[s][x] \subseteq seen'[s][x]
        /\ s \in Metrics!Running =>
             /\ since'[s][x] = IF x = y THEN since[s][x] \union {d} ELSE since[s][x]
             /\ seen'[s][x] = IF x = y THEN seen[s][x] \union {d} ELSE seen[s][x]
        /\ s \notin Metrics!Running => since'[s] = since[s] /\ seen'[s] = seen[s]
  BY <1>4 DEF Metrics!TypeOK
<1>8. WorkInv'
  BY <1>2, <1>5 DEF WorkInv
<1>9. SinceInv'
  <2> SUFFICES ASSUME NEW s \in Metrics!Running, NEW x \in Metrics!Series
               PROVE  /\ truth'[x] \in since'[s][x]
                      /\ work[s][x] = "read" => value[s][x] \in since'[s][x]
    BY <1>2, <1>5 DEF SinceInv
  <2>1. s \in Scrape
    BY DEF Metrics!Running
  <2>2. truth'[x] = IF x = y THEN d ELSE truth[x]
    BY <1>1 DEF Metrics!TypeOK
  <2> QED
    BY <1>7, <2>1, <2>2 DEF SinceInv
<1>10. SeenInv'
  <2> SUFFICES ASSUME NEW s \in Metrics!Running
               PROVE  /\ \A t \in Metrics!Running, x \in Metrics!Series :
                           since'[t][x] \subseteq seen'[s][x]
                      /\ \A q \in Queue : gauge[q] \in seen'[s][q] \union {Absent}
    BY <1>2, <1>5 DEF SeenInv
  <2>1. Metrics!Running \subseteq Scrape
    BY DEF Metrics!Running
  <2>2. ASSUME NEW t \in Metrics!Running, NEW x \in Metrics!Series
        PROVE  since'[t][x] \subseteq seen'[s][x]
    <3>1. since[t][x] \subseteq seen[s][x]
      BY DEF SeenInv
    <3>2. /\ since'[t][x] = IF x = y THEN since[t][x] \union {d} ELSE since[t][x]
          /\ seen'[s][x] = IF x = y THEN seen[s][x] \union {d} ELSE seen[s][x]
      BY <1>7, <2>1
    <3> QED
      BY <3>1, <3>2
  <2>3. ASSUME NEW q \in Queue PROVE gauge[q] \in seen'[s][q] \union {Absent}
    BY <1>7, <2>1, SeriesFacts DEF SeenInv
  <2> QED
    BY <2>2, <2>3
<1>11. LoneInv'
  <2> SUFFICES ASSUME NEW s \in Metrics!Running, lone[s]
               PROVE  /\ Metrics!Running = {s}
                      /\ \A q \in Queue : IF work[s][q] = "done" THEN gauge[q] \in since'[s][q]
                                                                 ELSE gauge[q] = Absent
                      /\ \A x \in Source : work[s][x] = "done" =>
                           gauge[x] \in since'[s][x] \union {Absent}
    BY <1>2, <1>5 DEF LoneInv
  <2>1. \A x \in Metrics!Series : since[s][x] \subseteq since'[s][x]
    BY <1>7 DEF Metrics!Running
  <2>2. ASSUME NEW q \in Queue
        PROVE  IF work[s][q] = "done" THEN gauge[q] \in since'[s][q] ELSE gauge[q] = Absent
    BY <2>1, SeriesFacts DEF LoneInv
  <2>3. ASSUME NEW x \in Source, work[s][x] = "done"
        PROVE  gauge[x] \in since'[s][x] \union {Absent}
    BY <2>1, <2>3, SeriesFacts DEF LoneInv
  <2> QED
    BY <2>2, <2>3 DEF LoneInv
<1>12. RenderedWasTrue' /\ LoneScrapeIsExact'
  BY <1>2, <1>7, SeriesFacts
  DEF RenderedWasTrue, Metrics!RenderedWasTrue, Metrics!Answered, LoneScrapeIsExact,
      Metrics!LoneScrapeIsExact
<1> QED
  BY <1>6, <1>8, <1>9, <1>10, <1>11, <1>12

\* A scrape that begins finds no depth in the registry, and has seen what the
\* scrapes it finds running have.
LEMMA renderMetricsInv ==
  ASSUME MetricsInv, NEW s \in Scrape, Metrics!render(s)
  PROVE  MetricsInv'
<1> USE DEF MetricsInv
<1>1. /\ scraping[s] = "idle" /\ scraping' = [scraping EXCEPT ![s] = "refreshing"]
      /\ UNCHANGED <<truth, value, output>>
      /\ gauge' = [x \in Metrics!Series |-> IF x \in Queue THEN Absent ELSE gauge[x]]
      /\ work' = [work EXCEPT ![s] = [x \in Metrics!Series |-> "waiting"]]
      /\ since' = [since EXCEPT ![s] = [x \in Metrics!Series |-> {truth[x]}]]
      /\ seen' = [seen EXCEPT ![s] = [x \in Metrics!Series |->
                     {truth[x]} \union UNION {since[t][x] : t \in Metrics!Running}]]
      /\ lone' = [t \in Scrape |-> IF t = s THEN Metrics!Running = {}
                                            ELSE lone[t] /\ t \notin Metrics!Running]
  BY DEF Metrics!render, Metrics!ResetQueueDepth
<1>2. Metrics!Running' = Metrics!Running \union {s} /\ s \notin Metrics!Running
  BY <1>1 DEF Metrics!Running, Metrics!TypeOK
<1>3. /\ \A x \in Metrics!Series : work'[s][x] = "waiting" /\ since'[s][x] = {truth[x]}
      /\ \A t \in Scrape \ {s} : work'[t] = work[t] /\ since'[t] = since[t] /\ seen'[t] = seen[t]
      /\ \A q \in Queue : gauge'[q] = Absent
      /\ \A x \in Metrics!Series : /\ truth[x] \in seen'[s][x]
                                  /\ \A t \in Metrics!Running : since[t][x] \subseteq seen'[s][x]
  BY <1>1, SeriesFacts DEF Metrics!TypeOK
<1>4. Metrics!TypeOK'
  <2>1. gauge' \in [Metrics!Series -> Depth \union {Absent}]
    BY <1>1 DEF Metrics!TypeOK
  <2>2. since' \in [Scrape -> [Metrics!Series -> SUBSET Depth]]
    BY <1>1 DEF Metrics!TypeOK
  <2>3. seen' \in [Scrape -> [Metrics!Series -> SUBSET Depth]]
    <3>1. \A x \in Metrics!Series :
            {truth[x]} \union UNION {since[t][x] : t \in Metrics!Running} \subseteq Depth
      BY DEF Metrics!TypeOK, Metrics!Running
    <3> QED
      BY <1>1, <3>1 DEF Metrics!TypeOK
  <2>4. work' \in [Scrape -> [Metrics!Series -> {"none", "waiting", "read", "done", "failed"}]]
    BY <1>1 DEF Metrics!TypeOK
  <2> QED
    BY <1>1, <2>1, <2>2, <2>3, <2>4 DEF Metrics!TypeOK
<1>5. WorkInv'
  BY <1>2, <1>3 DEF WorkInv
<1>6. SinceInv'
  BY <1>1, <1>2, <1>3 DEF SinceInv, Metrics!Running
<1>7. SeenInv'
  <2>1. \A t \in Metrics!Running, x \in Metrics!Series : truth[x] \in seen[t][x]
    BY DEF SinceInv, SeenInv
  <2> QED
    BY <1>2, <1>3, <2>1 DEF SeenInv, Metrics!Running
<1>8. LoneInv'
  <2>1. \A t \in Metrics!Running' : lone'[t] => t = s /\ Metrics!Running = {}
    BY <1>1, <1>2 DEF Metrics!Running
  <2> QED
    BY <1>2, <1>3, <2>1, SeriesFacts DEF LoneInv
<1>9. RenderedWasTrue' /\ LoneScrapeIsExact'
  <2>1. \A t \in Scrape : scraping'[t] = "rendered" =>
          t # s /\ scraping[t] = "rendered" /\ (lone'[t] => lone[t])
    BY <1>1 DEF Metrics!TypeOK
  <2> QED
    BY <1>1, <1>3, <2>1
    DEF RenderedWasTrue, Metrics!RenderedWasTrue, Metrics!Answered, LoneScrapeIsExact,
        Metrics!LoneScrapeIsExact
<1> QED
  BY <1>4, <1>5, <1>6, <1>7, <1>8, <1>9

-----------------------------------------------------------------------------

\* One step of a refresh: one series of a running scrape moves on, and no gauge
\* but that series' own is set, to what was true while the scrape ran.
LEMMA RefreshStep ==
  ASSUME MetricsInv, NEW s \in Metrics!Running, NEW y \in Metrics!Series,
         UNCHANGED <<truth, scraping, output, since, seen, lone>>,
         NEW stands \in {"read", "done", "failed"}, work' = [work EXCEPT ![s][y] = stands],
         NEW v \in Depth \union {Absent}, value' = [value EXCEPT ![s][y] = v],
         stands = "read" => v = truth[y],
         NEW g, gauge' = [gauge EXCEPT ![y] = g],
         \/ stands = "done" /\ g \in since[s][y]
         \/ stands = "done" /\ g = Absent /\ y \in Source
         \/ stands # "done" /\ g = gauge[y] /\ work[s][y] # "done"
  PROVE  MetricsInv'
<1> USE DEF MetricsInv
<1>1. s \in Scrape /\ Metrics!Running' = Metrics!Running
  BY DEF Metrics!Running
<1>2. /\ \A t \in Scrape, x \in Metrics!Series :
           /\ work'[t][x] = IF t = s /\ x = y THEN stands ELSE work[t][x]
           /\ value'[t][x] = IF t = s /\ x = y THEN v ELSE value[t][x]
      /\ \A x \in Metrics!Series : gauge'[x] = IF x = y THEN g ELSE gauge[x]
  BY <1>1 DEF Metrics!TypeOK
<1>3. Metrics!TypeOK'
  <2>1. g \in Depth \union {Absent}
    BY <1>1 DEF Metrics!TypeOK
  <2> QED
    BY <1>1, <2>1 DEF Metrics!TypeOK
<1>4. WorkInv'
  BY <1>1, <1>2 DEF WorkInv
<1>5. SinceInv'
  <2> SUFFICES ASSUME NEW t \in Metrics!Running, NEW x \in Metrics!Series
               PROVE  /\ truth[x] \in since[t][x]
                      /\ work'[t][x] = "read" => value'[t][x] \in since[t][x]
    BY <1>1 DEF SinceInv
  <2>1. t \in Scrape
    BY DEF Metrics!Running
  <2> QED
    BY <1>2, <2>1 DEF SinceInv
<1>6. SeenInv'
  <2> SUFFICES ASSUME NEW t \in Metrics!Running, NEW q \in Queue
               PROVE  gauge'[q] \in seen[t][q] \union {Absent}
    BY <1>1 DEF SeenInv
  <2> QED
    BY <1>2, SeriesFacts DEF SeenInv
<1>7. LoneInv'
  <2> SUFFICES ASSUME NEW t \in Metrics!Running, lone[t]
               PROVE  /\ Metrics!Running = {t}
                      /\ \A q \in Queue : IF work'[t][q] = "done" THEN gauge'[q] \in since[t][q]
                                                                  ELSE gauge'[q] = Absent
                      /\ \A x \in Source : work'[t][x] = "done" =>
                           gauge'[x] \in since[t][x] \union {Absent}
    BY <1>1 DEF LoneInv
  <2>1. t = s /\ Metrics!Running = {t}
    BY DEF LoneInv
  <2>2. ASSUME NEW q \in Queue
        PROVE  IF work'[t][q] = "done" THEN gauge'[q] \in since[t][q] ELSE gauge'[q] = Absent
    BY <1>1, <1>2, <2>1, SeriesFacts DEF LoneInv
  <2>3. ASSUME NEW x \in Source, work'[t][x] = "done"
        PROVE  gauge'[x] \in since[t][x] \union {Absent}
    BY <1>1, <1>2, <2>1, <2>3, SeriesFacts DEF LoneInv
  <2> QED
    BY <2>1, <2>2, <2>3
<1>8. RenderedWasTrue' /\ LoneScrapeIsExact'
  <2>1. \A t \in Scrape : scraping[t] = "rendered" => t # s
    BY DEF Metrics!Running
  <2> QED
    BY <1>2, <2>1, SeriesFacts
    DEF RenderedWasTrue, Metrics!RenderedWasTrue, Metrics!Answered, LoneScrapeIsExact,
        Metrics!LoneScrapeIsExact
<1> QED
  BY <1>3, <1>4, <1>5, <1>6, <1>7, <1>8

LEMMA RefreshMetricsInv ==
  ASSUME MetricsInv, NEW s \in Scrape, NEW y \in Metrics!Series,
         \/ Metrics!Reads(s, y) \/ Metrics!SetsGauge(s, y)
         \/ Metrics!refresh(s, y) \/ Metrics!Throws(s, y)
  PROVE  MetricsInv'
<1>1. s \in Metrics!Running
  BY DEF Metrics!Reads, Metrics!SetsGauge, Metrics!refresh, Metrics!Throws, MetricsInv, WorkInv,
         Metrics!Running
<1>2. /\ truth[y] \in Depth /\ truth[y] \in since[s][y] /\ value[s][y] \in Depth \union {Absent}
      /\ work[s][y] = "read" => value[s][y] \in since[s][y]
      /\ gauge = [gauge EXCEPT ![y] = gauge[y]]
      /\ value = [value EXCEPT ![s][y] = value[s][y]]
  BY <1>1 DEF MetricsInv, SinceInv, Metrics!TypeOK
<1>3. CASE Metrics!Reads(s, y)
  <2>1. /\ work' = [work EXCEPT ![s][y] = "read"]
        /\ value' = [value EXCEPT ![s][y] = truth[y]]
        /\ gauge' = [gauge EXCEPT ![y] = gauge[y]] /\ work[s][y] # "done"
        /\ UNCHANGED <<truth, scraping, output, since, seen, lone>>
    BY <1>2, <1>3 DEF Metrics!Reads, Metrics!history
  <2> QED
    BY <1>1, <1>2, <2>1, RefreshStep
<1>4. CASE Metrics!SetsGauge(s, y)
  <2>1. /\ work[s][y] = "read" /\ work' = [work EXCEPT ![s][y] = "done"]
        /\ value' = [value EXCEPT ![s][y] = Absent]
        /\ gauge' = [gauge EXCEPT ![y] = value[s][y]]
        /\ UNCHANGED <<truth, scraping, output, since, seen, lone>>
    BY <1>4 DEF Metrics!SetsGauge, Metrics!history
  <2> QED
    BY <1>1, <1>2, <2>1, RefreshStep
<1>5. CASE Metrics!refresh(s, y)
  <2>1. PICK counts \in {truth[y], Absent} : gauge' = [gauge EXCEPT ![y] = counts]
    BY <1>5 DEF Metrics!refresh
  <2>2. /\ y \in Source /\ work' = [work EXCEPT ![s][y] = "done"]
        /\ value' = [value EXCEPT ![s][y] = value[s][y]]
        /\ UNCHANGED <<truth, scraping, output, since, seen, lone>>
    BY <1>2, <1>5 DEF Metrics!refresh, Metrics!history
  <2> QED
    BY <1>1, <1>2, <2>1, <2>2, RefreshStep
<1>6. CASE Metrics!Throws(s, y)
  <2>1. /\ work' = [work EXCEPT ![s][y] = "failed"]
        /\ value' = [value EXCEPT ![s][y] = Absent]
        /\ gauge' = [gauge EXCEPT ![y] = gauge[y]] /\ work[s][y] # "done"
        /\ UNCHANGED <<truth, scraping, output, since, seen, lone>>
    BY <1>2, <1>6 DEF Metrics!Throws, Metrics!history
  <2> QED
    BY <1>1, <1>2, <2>1, RefreshStep
<1> QED
  BY <1>3, <1>4, <1>5, <1>6

-----------------------------------------------------------------------------

\* What is rendered is the registry, when every series is done or has failed.
LEMMA RendersMetricsInv ==
  ASSUME MetricsInv, NEW s \in Scrape, Metrics!Renders(s)
  PROVE  MetricsInv'
<1> USE DEF MetricsInv
<1>1. /\ s \in Metrics!Running /\ scraping' = [scraping EXCEPT ![s] = "rendered"]
      /\ output' = [output EXCEPT ![s] = gauge]
      /\ \A x \in Metrics!Series : work[s][x] \in {"done", "failed"}
      /\ UNCHANGED <<truth, gauge, work, value, since, seen, lone>>
  BY DEF Metrics!Renders, Metrics!Running, Metrics!Refreshed, Metrics!history
<1>2. Metrics!Running' = Metrics!Running \ {s}
  BY <1>1 DEF Metrics!Running, Metrics!TypeOK
<1>3. Metrics!TypeOK'
  BY <1>1 DEF Metrics!TypeOK
<1>4. WorkInv' /\ SinceInv' /\ SeenInv'
  BY <1>1, <1>2 DEF WorkInv, SinceInv, SeenInv
<1>5. LoneInv'
  BY <1>1, <1>2 DEF LoneInv
<1>6. /\ \A q \in Queue : gauge[q] \in seen[s][q] \union {Absent}
      /\ lone[s] => /\ \A q \in Queue : work[s][q] = "failed" <=> gauge[q] = Absent
                    /\ \A x \in Metrics!Series : work[s][x] = "done" =>
                         gauge[x] \in since[s][x] \union {Absent}
  <2>1. \A x \in Metrics!Series : Absent \notin since[s][x]
    BY SeriesFacts DEF Metrics!TypeOK
  <2> QED
    BY <1>1, <2>1, SeriesFacts DEF SeenInv, LoneInv
<1>7. \A t \in Scrape : /\ t = s => output'[t] = gauge
                        /\ t # s => output'[t] = output[t] /\ scraping'[t] = scraping[t]
  BY <1>1 DEF Metrics!TypeOK
<1>8. RenderedWasTrue'
  BY <1>1, <1>6, <1>7 DEF RenderedWasTrue, Metrics!RenderedWasTrue, Metrics!Answered
<1>9. LoneScrapeIsExact'
  BY <1>1, <1>6, <1>7 DEF LoneScrapeIsExact, Metrics!LoneScrapeIsExact
<1> QED
  BY <1>3, <1>4, <1>5, <1>8, <1>9

LEMMA RespondMetricsInv ==
  ASSUME MetricsInv, NEW s \in Scrape, Metrics!Respond(s)
  PROVE  MetricsInv'
<1> USE DEF MetricsInv
<1>1. /\ scraping[s] = "rendered" /\ scraping' = [scraping EXCEPT ![s] = "idle"]
      /\ UNCHANGED <<truth, gauge, value>>
      /\ \A t \in Scrape \ {s} :
           /\ work'[t] = work[t] /\ output'[t] = output[t] /\ since'[t] = since[t]
           /\ seen'[t] = seen[t] /\ lone'[t] = lone[t] /\ scraping'[t] = scraping[t]
      /\ \A x \in Metrics!Series : work'[s][x] = "none"
      /\ scraping'[s] = "idle"
  BY DEF Metrics!Respond, Metrics!TypeOK
<1>2. Metrics!Running' = Metrics!Running /\ s \notin Metrics!Running
  BY <1>1 DEF Metrics!Running
<1>3. Metrics!TypeOK'
  <2>1. Metrics!Nothing \in [Metrics!Series -> Depth \union {Absent}]
    BY DEF Metrics!Nothing
  <2> QED
    BY <2>1 DEF Metrics!Respond, Metrics!TypeOK
<1>4. WorkInv' /\ SinceInv' /\ SeenInv'
  BY <1>1, <1>2 DEF WorkInv, SinceInv, SeenInv, Metrics!Running
<1>5. LoneInv'
  BY <1>1, <1>2 DEF LoneInv, Metrics!Running
<1>6. RenderedWasTrue' /\ LoneScrapeIsExact'
  BY <1>1 DEF RenderedWasTrue, Metrics!RenderedWasTrue, Metrics!Answered, LoneScrapeIsExact,
      Metrics!LoneScrapeIsExact
<1> QED
  BY <1>3, <1>4, <1>5, <1>6

LEMMA NextMetricsInv == MetricsInv /\ [Metrics!Next]_Metrics!vars => MetricsInv'
<1> SUFFICES ASSUME MetricsInv, [Metrics!Next]_Metrics!vars PROVE MetricsInv'
  OBVIOUS
<1>1. CASE UNCHANGED Metrics!vars
  BY <1>1 DEF Metrics!vars, Metrics!scrapes, Metrics!history, MetricsInv, Metrics!TypeOK,
     WorkInv, SinceInv, SeenInv, LoneInv, Metrics!Running, RenderedWasTrue,
     Metrics!RenderedWasTrue, Metrics!Answered, LoneScrapeIsExact, Metrics!LoneScrapeIsExact
<1>2. CASE Metrics!Next
  BY <1>2, TruthMetricsInv, renderMetricsInv, RefreshMetricsInv, RendersMetricsInv,
     RespondMetricsInv DEF Metrics!Next, Metrics!Refresh
<1> QED
  BY <1>1, <1>2

\* The strengthened invariant of the registry and the scrapes that overlap on it.
THEOREM MetricsInvariance == Metrics!Spec => []MetricsInv
BY InitMetricsInv, NextMetricsInv, PTL DEF Metrics!Spec

\* The run's specification is that of Metrics, the requests at rest.
THEOREM ScrapesAreMetrics == ScrapesSpec => Metrics!Spec
<1>1. ScrapesInit => Metrics!Init
  BY DEF ScrapesInit
<1>2. [Metrics!Next /\ UNCHANGED vars]_<<vars, Metrics!vars>> => [Metrics!Next]_Metrics!vars
  OBVIOUS
<1> QED
  BY <1>1, <1>2, PTL DEF ScrapesSpec, Metrics!Spec

\* MetricsService.render: no depth from before the scrapes that overlap is rendered.
THEOREM DepthsWereTrue == Metrics!Spec => []RenderedWasTrue
<1>1. MetricsInv => RenderedWasTrue
  BY DEF MetricsInv
<1> QED
  BY <1>1, MetricsInvariance, PTL

\* refreshQueueDepth: a scrape that runs alone lacks only what failed, and every
\* value in it was true while it ran.
THEOREM LoneScrapesAreExact == Metrics!Spec => []LoneScrapeIsExact
<1>1. MetricsInv => LoneScrapeIsExact
  BY DEF MetricsInv
<1> QED
  BY <1>1, MetricsInvariance, PTL
=============================================================================
