------------------------------ MODULE Metrics -------------------------------
(***************************************************************************)
(* MetricsService.render: scrapes that overlap, each refreshing the shared    *)
(* registry and then rendering it.  A queue's depth is read by its collector *)
(* (OutboxEventRepository.collect is one) into a gauge that the scrape has    *)
(* reset; any other sampled series by its MetricSource.                      *)
(***************************************************************************)
EXTENDS FiniteSets

CONSTANTS
  Scrape,       \* scrapes in flight at one time
  Queue, Source,
  Depth,        \* the values a series can truly have
  Absent        \* no series

Series == Queue \union Source

MetricsAssumption == Absent \notin Depth /\ Queue \intersect Source = {}

VARIABLES
  truth,        \* what each series would read right now
  gauge,        \* the registry
  pc,           \* each scrape
  work,         \* each scrape: where the refresh of a series stands
  value,        \* each scrape: what a collector has read and not yet set
  output,       \* each scrape: what it rendered
  since,        \* history: the values a series has had since the scrape began
  seen,         \* history: since, and since any scrape it found running began
  lone          \* history: no other scrape has overlapped it

scrapes == <<pc, work, value, output>>
history == <<since, seen, lone>>
vars    == <<truth, gauge, scrapes, history>>

TypeOK ==
  /\ truth \in [Series -> Depth]
  /\ gauge \in [Series -> Depth \union {Absent}]
  /\ pc \in [Scrape -> {"idle", "refreshing", "rendered"}]
  /\ work \in [Scrape -> [Series -> {"none", "waiting", "read", "done", "failed"}]]
  /\ value \in [Scrape -> [Series -> Depth \union {Absent}]]
  /\ output \in [Scrape -> [Series -> Depth \union {Absent}]]
  /\ since \in [Scrape -> [Series -> SUBSET Depth]]
  /\ seen \in [Scrape -> [Series -> SUBSET Depth]]
  /\ lone \in [Scrape -> BOOLEAN]

Nothing == [x \in Series |-> Absent]

Init ==
  /\ truth \in [Series -> Depth]
  /\ gauge = Nothing
  /\ pc = [s \in Scrape |-> "idle"]
  /\ work = [s \in Scrape |-> [x \in Series |-> "none"]]
  /\ value = [s \in Scrape |-> Nothing]
  /\ output = [s \in Scrape |-> Nothing]
  /\ since = [s \in Scrape |-> [x \in Series |-> {}]]
  /\ seen = since
  /\ lone = [s \in Scrape |-> FALSE]

Running == {s \in Scrape : pc[s] = "refreshing"}

-----------------------------------------------------------------------------

Noted(values, x, d) ==
  [s \in Scrape |-> IF s \in Running THEN [values[s] EXCEPT ![x] = @ \union {d}] ELSE values[s]]

\* Work arrives at a queue or leaves it; a pool fills or drains.
TruthChanges(x) ==
  /\ \E d \in Depth \ {truth[x]} : truth' = [truth EXCEPT ![x] = d]
  /\ since' = Noted(since, x, truth'[x])
  /\ seen' = Noted(seen, x, truth'[x])
  /\ UNCHANGED <<gauge, scrapes, lone>>

\* Slip: the gauge is not reset.
Slip_NoReset == UNCHANGED gauge

\* queueDepth.reset(): the queues' series go, the sources' stay.
ResetQueueDepth == gauge' = [x \in Series |-> IF x \in Queue THEN Absent ELSE gauge[x]]

\* render() up to its await: reset, and every collector and source is called.
render(s) ==
  /\ pc[s] = "idle"
  /\ ResetQueueDepth
  /\ pc' = [pc EXCEPT ![s] = "refreshing"]
  /\ work' = [work EXCEPT ![s] = [x \in Series |-> "waiting"]]
  /\ since' = [since EXCEPT ![s] = [x \in Series |-> {truth[x]}]]
  /\ seen' = [seen EXCEPT ![s] =
       [x \in Series |-> {truth[x]} \union UNION {since[t][x] : t \in Running}]]
  /\ lone' = [t \in Scrape |-> IF t = s THEN Running = {} ELSE lone[t] /\ t \notin Running]
  /\ UNCHANGED <<truth, value, output>>

\* The collector's query, or the source's reading, sees the truth of one moment.
Reads(s, x) ==
  /\ pc[s] = "refreshing" /\ work[s][x] = "waiting"
  /\ work' = [work EXCEPT ![s][x] = "read"]
  /\ value' = [value EXCEPT ![s][x] = truth[x]]
  /\ UNCHANGED <<truth, gauge, pc, output, history>>

\* refreshOne after its await (or a source's own write): the reading is set.
SetsGauge(s, x) ==
  /\ work[s][x] = "read"
  /\ gauge' = [gauge EXCEPT ![x] = value[s][x]]
  /\ work' = [work EXCEPT ![s][x] = "done"]
  /\ value' = [value EXCEPT ![s][x] = Absent]
  /\ UNCHANGED <<truth, pc, output, history>>

\* collect() or refresh() throws: it is logged, and nothing else happens.
Throws(s, x) ==
  /\ work[s][x] \in {"waiting", "read"}
  /\ work' = [work EXCEPT ![s][x] = "failed"]
  /\ value' = [value EXCEPT ![s][x] = Absent]
  /\ UNCHANGED <<truth, gauge, pc, output, history>>

\* DatabasePoolMetricSource.refresh, which has no await: the pool's counts of this
\* moment, or, where the driver's pool cannot be read, no series at all.
refresh(s, x) ==
  /\ x \in Source
  /\ pc[s] = "refreshing" /\ work[s][x] = "waiting"
  /\ \E counts \in {truth[x], Absent} : gauge' = [gauge EXCEPT ![x] = counts]
  /\ work' = [work EXCEPT ![s][x] = "done"]
  /\ UNCHANGED <<truth, pc, value, output, history>>

\* Slip: the queues are not waited for.
Slip_SourcesOnly(s) == \A x \in Source : work[s][x] \in {"done", "failed"}

Refreshed(s) == \A x \in Series : work[s][x] \in {"done", "failed"}

\* registry.metrics(): whatever the registry holds by now.
Renders(s) ==
  /\ pc[s] = "refreshing"
  /\ Refreshed(s)
  /\ pc' = [pc EXCEPT ![s] = "rendered"]
  /\ output' = [output EXCEPT ![s] = gauge]
  /\ UNCHANGED <<truth, gauge, work, value, history>>

\* The response is sent.
Respond(s) ==
  /\ pc[s] = "rendered"
  /\ pc' = [pc EXCEPT ![s] = "idle"]
  /\ work' = [work EXCEPT ![s] = [x \in Series |-> "none"]]
  /\ output' = [output EXCEPT ![s] = Nothing]
  /\ since' = [since EXCEPT ![s] = [x \in Series |-> {}]]
  /\ seen' = [seen EXCEPT ![s] = [x \in Series |-> {}]]
  /\ lone' = [lone EXCEPT ![s] = FALSE]
  /\ UNCHANGED <<truth, gauge, value>>

Refresh(s) ==
  \E x \in Series : Reads(s, x) \/ SetsGauge(s, x) \/ refresh(s, x) \/ Throws(s, x)

Next ==
  \/ \E x \in Series : TruthChanges(x)
  \/ \E s \in Scrape : render(s) \/ Refresh(s) \/ Renders(s) \/ Respond(s)

Spec == Init /\ [][Next]_vars

-----------------------------------------------------------------------------
(* Properties                                                               *)

Answered(s, x) == pc[s] = "rendered" /\ output[s][x] # Absent

\* A depth in a scrape was true at some moment since the scrape began, or since
\* one it overlapped began: nothing survives from an earlier scrape, although
\* all of them write to one registry ("there is no way to render a stale gauge").
RenderedWasTrue ==
  \A s \in Scrape, q \in Queue : Answered(s, q) => output[s][q] \in seen[s][q]

\* A scrape no other overlaps is exact: it lacks the queues whose collector threw
\* and no others, every depth it has was true while it ran, and so was every other
\* sampled series whose source did not throw (refreshQueueDepth: "One collector
\* failing never fails the scrape").
LoneScrapeIsExact ==
  \A s \in Scrape : pc[s] = "rendered" /\ lone[s] =>
    /\ \A q \in Queue : work[s][q] = "failed" <=> output[s][q] = Absent
    /\ \A x \in Series : work[s][x] = "done" => output[s][x] \in since[s][x] \union {Absent}

\* "A source that throws never fails the scrape, and never leaves a stale value
\* behind" (MetricSource): its series are absent from the scrape it failed.
FailedSourceIsAbsent ==
  \A s \in Scrape, x \in Source :
    pc[s] = "rendered" /\ lone[s] /\ work[s][x] = "failed" => output[s][x] = Absent
=============================================================================
