------------------------------- MODULE Health -------------------------------
(***************************************************************************)
(* HealthController: readiness and startup probes that overlap, over checks  *)
(* that settle one by one, or never, while their dependencies come and go.   *)
(* (The liveness probe reads and writes nothing.)                            *)
(***************************************************************************)
EXTENDS FiniteSets

CONSTANTS
  Probe,            \* requests in flight at one time
  Check,
  ReadinessChecks,  \* the two injected lists of checks, which may share some
  StartupChecks

VARIABLES
  up,       \* the dependencies a check would find healthy right now
  started,  \* the latch
  asks, pc, \* each probe: what it asks, and where it stands
  result,   \* each probe: the outcomes of its checks so far
  seenUp, seenDown,
            \* history: what each check could have found since the probe began
  late,     \* history: the startup probe began after the latch was set
  answered  \* history: some startup probe has been answered 200

service == <<started, asks, pc, result>>
vars    == <<up, service, seenUp, seenDown, late, answered>>

Outcome  == {"none", "up", "down", "hung"}
Asking   == {"ready", "startup"}

TypeOK ==
  /\ up \subseteq Check
  /\ started \in BOOLEAN
  /\ asks \in [Probe -> Asking]
  /\ pc \in [Probe -> {"idle", "running", "200", "503"}]
  /\ result \in [Probe -> [Check -> Outcome]]
  /\ seenUp \in [Probe -> SUBSET Check]
  /\ seenDown \in [Probe -> SUBSET Check]
  /\ late \in [Probe -> BOOLEAN]
  /\ answered \in BOOLEAN

Unasked == [c \in Check |-> "none"]

Init ==
  /\ up \in SUBSET Check
  /\ started = FALSE
  /\ asks = [p \in Probe |-> "ready"]
  /\ pc = [p \in Probe |-> "idle"]
  /\ result = [p \in Probe |-> Unasked]
  /\ seenUp = [p \in Probe |-> {}]
  /\ seenDown = [p \in Probe |-> {}]
  /\ late = [p \in Probe |-> FALSE]
  /\ answered = FALSE

List(ask) == IF ask = "ready" THEN ReadinessChecks ELSE StartupChecks

Booting(p) == asks[p] = "startup"

-----------------------------------------------------------------------------

\* A dependency is lost or comes back.
DependencyChanges(c) ==
  /\ up' = IF c \in up THEN up \ {c} ELSE up \union {c}
  /\ seenUp' = [p \in Probe |-> IF pc[p] = "running" THEN seenUp[p] \union up' ELSE seenUp[p]]
  /\ seenDown' = [p \in Probe |->
       IF pc[p] = "running" THEN seenDown[p] \union (Check \ up') ELSE seenDown[p]]
  /\ UNCHANGED <<service, late, answered>>

\* run: every check of the list is called, none has settled.
run(p, ask) ==
  /\ pc' = [pc EXCEPT ![p] = "running"]
  /\ seenUp' = [seenUp EXCEPT ![p] = up]
  /\ seenDown' = [seenDown EXCEPT ![p] = Check \ up]
  /\ late' = [late EXCEPT ![p] = started /\ ask = "startup"]

\* Slip: readiness is latched as well.
Slip_ReadyLatched(ask) == started

Latched(ask) == ask = "startup" /\ started

\* A probe arrives; a latched startup probe is answered at once.
Arrives(p, ask) ==
  /\ pc[p] = "idle"
  /\ asks' = [asks EXCEPT ![p] = ask]
  /\ \/ /\ ~Latched(ask)
        /\ run(p, ask)
        /\ UNCHANGED answered
     \/ /\ Latched(ask)
        /\ pc' = [pc EXCEPT ![p] = "200"]
        /\ late' = [late EXCEPT ![p] = ask = "startup"]
        /\ answered' = (answered \/ ask = "startup")
        /\ UNCHANGED <<seenUp, seenDown>>
  /\ UNCHANGED <<up, started, result>>

\* runOne: one check resolves or throws, as its dependency is at that moment.
runOne(p, c) ==
  /\ pc[p] = "running"
  /\ c \in List(asks[p]) /\ result[p][c] = "none"
  /\ result' = [result EXCEPT ![p][c] = IF c \in up THEN "up" ELSE "down"]
  /\ UNCHANGED <<up, started, asks, pc, seenUp, seenDown, late, answered>>

\* check() has no timeout: its promise may stay pending for ever.
Hangs(p, c) ==
  /\ pc[p] = "running"
  /\ c \in List(asks[p]) /\ result[p][c] = "none"
  /\ result' = [result EXCEPT ![p][c] = "hung"]
  /\ UNCHANGED <<up, started, asks, pc, seenUp, seenDown, late, answered>>

Stuck(p) == \E c \in List(asks[p]) : result[p][c] = "hung"

allUp(p) == \A c \in List(asks[p]) : result[p][c] = "up"

\* Slip: probes share one run of the checks.
Slip_Together(p) ==
  \A q \in Probe, c \in Check :
    pc[q] = "running" /\ c \in List(asks[q]) => result[q][c] \in {"up", "down"}

\* Promise.all over promises that never reject: all have settled.
AllSettled(p) == \A c \in List(asks[p]) : result[p][c] \in {"up", "down"}

\* Slip: the latch is not set.
Slip_NoLatch(p) == UNCHANGED started

Latch(p) == started' = (started \/ (Booting(p) /\ allUp(p)))

\* The probe's continuation: ready() and startup() differ in the latch only.
Conclude(p) ==
  /\ pc[p] = "running"
  /\ AllSettled(p)
  /\ Latch(p)
  /\ pc' = [pc EXCEPT ![p] = IF allUp(p) THEN "200" ELSE "503"]
  /\ answered' = (answered \/ (Booting(p) /\ allUp(p)))
  /\ result' = [result EXCEPT ![p] = Unasked]
  /\ UNCHANGED <<up, asks, seenUp, seenDown, late>>

Over(p) ==
  /\ asks' = [asks EXCEPT ![p] = "ready"]
  /\ pc' = [pc EXCEPT ![p] = "idle"]
  /\ result' = [result EXCEPT ![p] = Unasked]
  /\ seenUp' = [seenUp EXCEPT ![p] = {}]
  /\ seenDown' = [seenDown EXCEPT ![p] = {}]
  /\ late' = [late EXCEPT ![p] = FALSE]
  /\ UNCHANGED <<up, started, answered>>

\* The response is sent and the request is over.
Respond(p) == pc[p] \in {"200", "503"} /\ Over(p)

\* The orchestrator hangs up on a probe whose continuation will never run.
GivesUp(p) == pc[p] = "running" /\ Stuck(p) /\ Over(p)

Next ==
  \/ \E c \in Check : DependencyChanges(c)
  \/ \E p \in Probe :
       \/ \E ask \in Asking : Arrives(p, ask)
       \/ \E c \in Check : runOne(p, c) \/ Hangs(p, c)
       \/ Conclude(p)
       \/ Respond(p)
       \/ GivesUp(p)

Spec == Init /\ [][Next]_vars

\* A check settles or hangs, and dependencies that flap do not hold a probe up.
Fairness ==
  \A p \in Probe : WF_vars((\E c \in Check : runOne(p, c)) \/ Conclude(p) \/ Respond(p))

FairSpec == Spec /\ Fairness

-----------------------------------------------------------------------------
(* Properties                                                               *)

\* An answer is never older than its question: a 200 that was not latched means
\* that each check of the list had its dependency up at some moment since the
\* probe arrived, a 503 that one of them was down (run, runOne, allUp; a
\* readiness probe is never answered from the latch).
AnswersAreFresh ==
  \A p \in Probe :
    /\ pc[p] = "200" /\ ~late[p] => List(asks[p]) \subseteq seenUp[p]
    /\ pc[p] = "503" => List(asks[p]) \intersect seenDown[p] # {}

\* A startup probe that arrives after another was answered 200 is answered 200
\* whatever became of the dependencies: after boot "a dependency failure should
\* drain traffic, not restart the container".
LatchHolds ==
  /\ answered => started
  /\ \A p \in Probe : Booting(p) /\ pc[p] = "503" => ~late[p]

\* Every probe is answered unless a check of its own hangs, although others
\* overlap it, dependencies keep changing, and other probes of the same list are
\* stuck for ever in a check that does (run: each request calls its checks anew).
ProbesAreAnswered ==
  \A p \in Probe : pc[p] = "running" ~> pc[p] = "idle" \/ Stuck(p)
=============================================================================
