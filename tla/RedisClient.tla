---------------------------- MODULE RedisClient ----------------------------
(***************************************************************************)
(* RedisService: the one connection a process holds, the calls the rate      *)
(* limiter makes through it, the throttle of its error log and its shutdown. *)
(* The client library is modelled by what the options RedisService passes    *)
(* make of it: no offline queue, one retry of a call cut off in flight, a     *)
(* timeout on every command, an `error` event for every failed attempt.       *)
(***************************************************************************)
EXTENDS Integers

CONSTANTS
  Call,         \* the calls under way at once
  Interval,     \* REDIS_ERROR_LOG_INTERVAL_MS, in ticks
  Reach,        \* bound: how far the clock is set back
  Absent,       \* no line logged yet
  MaxFaults,    \* bound: changes of the server and lost connections
  MaxJumps,     \* bound: times the clock is set
  MaxSuppressed \* counts of suppressed errors are not told apart past it

ASSUME RedisClientAssumption ==
  /\ Interval \in Nat \ {0} /\ Reach \in Nat
  /\ MaxFaults \in Nat /\ MaxJumps \in Nat /\ MaxSuppressed \in Nat
  /\ Absent \notin Int

VARIABLES
  configured,   \* a URL was given: client is not null
  link,         \* the client's status; "broken" while it waits to reconnect
  server,
  call,         \* each call: "waiting" is cut off and to be sent again
  closing,      \* onApplicationShutdown
  ahead,        \* the calls sent before QUIT was
  sinceLog,     \* Date.now() - lastErrorLoggedAt, at most Interval
  suppressed,   \* suppressedErrorCount
  faults, jumps,
  realSince,    \* history: the time since the last line, at most Interval
  setForward,   \* history: the clock was set forward since that line
  unlogged,     \* history: errors since that line
  excused       \* history: calls that Redis could not be asked, or was cut off from

throttle == <<sinceLog, suppressed, realSince, setForward, unlogged>>
bounds   == <<faults, jumps>>
vars     == <<configured, link, server, call, closing, ahead, throttle, bounds, excused>>

InFlight == {c \in Call : call[c] = "sent"}
Pending  == {c \in Call : call[c] \in {"sent", "waiting"}}
Count    == 0..MaxSuppressed

TypeOK ==
  /\ configured \in BOOLEAN
  /\ link \in {"connecting", "ready", "broken", "ended"}
  /\ server \in {"up", "wedged", "down"}
  /\ call \in [Call -> {"idle", "sent", "waiting", "enforced", "unenforced"}]
  /\ closing \in {"no", "quitting", "severed", "closed"}
  /\ ahead \in SUBSET Call
  /\ sinceLog \in (-Reach)..Interval
  /\ suppressed \in Count /\ unlogged \in Count
  /\ faults \in 0..MaxFaults /\ jumps \in 0..MaxJumps
  /\ realSince \in (0..Interval) \union {Absent}
  /\ setForward \in BOOLEAN
  /\ excused \in SUBSET Call

\* lastErrorLoggedAt starts at the epoch: longer ago than any interval.
Init ==
  /\ configured \in BOOLEAN
  /\ link = (IF configured THEN "connecting" ELSE "ended")
  /\ server \in {"up", "down"}
  /\ call = [c \in Call |-> "idle"]
  /\ closing = "no"
  /\ ahead = {}
  /\ sinceLog = Interval /\ suppressed = 0
  /\ faults = 0 /\ jumps = 0
  /\ realSince = Absent /\ setForward = FALSE /\ unlogged = 0
  /\ excused = {}

-----------------------------------------------------------------------------
(* The throttle                                                             *)

Succ(n) == IF n = MaxSuppressed THEN n ELSE n + 1

\* Slip: the count is not reset with the line that carried it.
Slip_KeepCount ==
  /\ sinceLog >= Interval
  /\ sinceLog' = 0
  /\ realSince' = 0 /\ setForward' = FALSE /\ unlogged' = 0
  /\ UNCHANGED suppressed

LogLine ==
  /\ sinceLog >= Interval
  /\ sinceLog' = 0 /\ suppressed' = 0
  /\ realSince' = 0 /\ setForward' = FALSE /\ unlogged' = 0

\* Slip: a suppressed error restarts the interval too.
Slip_Restart ==
  /\ sinceLog < Interval
  /\ sinceLog' = 0
  /\ suppressed' = Succ(suppressed) /\ unlogged' = Succ(unlogged)
  /\ UNCHANGED <<realSince, setForward>>

Suppress ==
  /\ sinceLog < Interval
  /\ suppressed' = Succ(suppressed) /\ unlogged' = Succ(unlogged)
  /\ UNCHANGED <<sinceLog, realSince, setForward>>

\* The listener on the client's `error` event.
logConnectionError == LogLine \/ Suppress

Older(age) == IF age \in {Absent, Interval} THEN age ELSE age + 1

Tick ==
  /\ sinceLog' = Older(sinceLog)
  /\ realSince' = Older(realSince)
  /\ UNCHANGED <<configured, link, server, call, closing, ahead, suppressed,
                 setForward, unlogged, bounds, excused>>

\* The wall clock is set.  Before the first line no clock is near the epoch.
ClockSet(since) ==
  /\ jumps < MaxJumps /\ realSince # Absent
  /\ jumps' = jumps + 1
  /\ since # sinceLog /\ sinceLog' = since
  /\ setForward' = (setForward \/ since > sinceLog)
  /\ UNCHANGED <<configured, link, server, call, closing, ahead, suppressed,
                 realSince, unlogged, faults, excused>>

-----------------------------------------------------------------------------
(* Calls                                                                    *)

Fail(calls) ==
  call' = [c \in Call |-> IF c \in calls THEN "unenforced" ELSE call[c]]

\* Rejected at once without a connection: there is no offline queue.
Unreachable(c) == link # "ready"

\* consume(): its catch, and its return without a client, allow the request
\* unlimited.
consume(c) ==
  /\ call[c] \in {"idle", "enforced", "unenforced"}
  /\ call' = [call EXCEPT ![c] = IF Unreachable(c) THEN "unenforced" ELSE "sent"]
  /\ ahead' = ahead \ {c}
  /\ excused' = IF link # "ready" \/ server # "up" \/ closing # "no"
                THEN excused \union {c} ELSE excused \ {c}
  /\ UNCHANGED <<configured, link, server, closing, throttle, bounds>>

ServerAnswers(c) ==
  /\ link = "ready" /\ server = "up" /\ call[c] = "sent"
  /\ call' = [call EXCEPT ![c] = "enforced"]
  /\ UNCHANGED <<configured, link, server, closing, ahead, throttle, bounds,
                 excused>>

\* Slip: commandTimeout is not set.
Slip_NoTimeout(c) == FALSE

\* commandTimeout; a server that is up answers within it.
OverTime(c) ==
  \/ call[c] = "waiting"
  \/ call[c] = "sent" /\ server # "up"

CommandTimesOut(c) ==
  /\ OverTime(c)
  /\ Fail({c})
  /\ UNCHANGED <<configured, link, server, closing, ahead, throttle, bounds,
                 excused>>

-----------------------------------------------------------------------------
(* The connection                                                           *)

\* The client has been closed on purpose: it does not reconnect.
ManuallyClosing == closing # "no"

\* The connection is lost, with an `error` event (a reset) or without (a FIN).
\* The calls in flight are kept to be sent again.
LinkDrops ==
  /\ link = "ready" /\ faults < MaxFaults
  /\ faults' = faults + 1
  /\ excused' = excused \union InFlight
  /\ \/ /\ ManuallyClosing
        /\ link' = "ended" /\ Fail(Pending)
        /\ UNCHANGED throttle
     \/ /\ ~ManuallyClosing
        /\ link' = "broken"
        /\ call' = [c \in Call |-> IF c \in InFlight THEN "waiting" ELSE call[c]]
        /\ logConnectionError \/ UNCHANGED throttle
  /\ UNCHANGED <<configured, server, closing, ahead, jumps>>

\* retryStrategy never gives up.
Reconnects ==
  /\ link = "broken" /\ ~ManuallyClosing
  /\ link' = "connecting"
  /\ UNCHANGED <<configured, server, call, closing, ahead, throttle, bounds,
                 excused>>

\* connectTimeout, a refusal, or a ready check no one answers; with
\* maxRetriesPerRequest = 1 the calls kept for a second attempt are rejected.
ConnectFails ==
  /\ link = "connecting" /\ server # "up" /\ ~ManuallyClosing
  /\ link' = "broken"
  /\ Fail(Pending)
  /\ logConnectionError
  /\ UNCHANGED <<configured, server, closing, ahead, bounds, excused>>

Ready ==
  /\ link = "connecting" /\ server = "up" /\ ~ManuallyClosing
  /\ link' = "ready"
  /\ call' = [c \in Call |-> IF call[c] = "waiting" THEN "sent" ELSE call[c]]
  /\ UNCHANGED <<configured, server, closing, ahead, throttle, bounds, excused>>

ServerChanges(status) ==
  /\ faults < MaxFaults /\ status # server
  /\ faults' = faults + 1
  /\ server' = status
  /\ excused' = IF status = "up" THEN excused ELSE excused \union InFlight
  /\ UNCHANGED <<configured, link, call, closing, ahead, throttle, jumps>>

-----------------------------------------------------------------------------
(* Shutdown                                                                 *)

\* Slip: the socket is severed at once.
Slip_Disconnect == closing' = "severed" /\ UNCHANGED ahead

\* quit() goes out behind the calls in flight; without a connection it is
\* rejected as any command is, and the catch disconnects.
quit ==
  IF link = "ready"
  THEN closing' = "quitting" /\ ahead' = InFlight
  ELSE closing' = "severed" /\ UNCHANGED ahead

onApplicationShutdown ==
  /\ configured /\ closing = "no"
  /\ quit
  /\ UNCHANGED <<configured, link, server, call, throttle, bounds, excused>>

\* The server has answered every call ahead of QUIT; it closes the connection,
\* and the calls behind are rejected.
QuitAnswered ==
  /\ closing = "quitting" /\ link = "ready" /\ server = "up"
  /\ ahead \intersect InFlight = {}
  /\ closing' = "closed" /\ link' = "ended"
  /\ Fail(Pending)
  /\ UNCHANGED <<configured, server, ahead, throttle, bounds, excused>>

\* Slip: the error is swallowed and nothing disconnects.
Slip_Swallow == FALSE

\* QUIT times out as any command does, or its connection is lost: the catch
\* calls disconnect().
Rejected == closing = "quitting" /\ (server # "up" \/ link = "ended")

QuitFails ==
  /\ Rejected
  /\ closing' = "severed"
  /\ UNCHANGED <<configured, link, server, call, ahead, throttle, bounds,
                 excused>>

\* disconnect(): the socket is closed and whatever was pending is rejected.
Severed ==
  /\ closing = "severed"
  /\ closing' = "closed" /\ link' = "ended"
  /\ Fail(Pending)
  /\ UNCHANGED <<configured, server, ahead, throttle, bounds, excused>>

-----------------------------------------------------------------------------

Settles(c) == ServerAnswers(c) \/ CommandTimesOut(c)
Connects   == Reconnects \/ ConnectFails \/ Ready
ShutsDown  == QuitAnswered \/ QuitFails \/ Severed

Next ==
  \/ Tick
  \/ \E since \in (-Reach)..Interval : ClockSet(since)
  \/ \E c \in Call : consume(c) \/ Settles(c)
  \/ LinkDrops \/ Connects
  \/ \E status \in {"up", "wedged", "down"} : ServerChanges(status)
  \/ onApplicationShutdown \/ ShutsDown

Spec == Init /\ [][Next]_vars

\* Time passes, and the library's timers and the server's answers come; nothing
\* is assumed of callers, of faults or of the shutdown's start.
Fairness ==
  /\ WF_vars(Tick) /\ WF_vars(Connects) /\ WF_vars(ShutsDown)
  /\ \A c \in Call : WF_vars(Settles(c))

FairSpec == Spec /\ Fairness

-----------------------------------------------------------------------------
(* Properties                                                               *)

\* A line is logged at most once per interval unless the clock was set forward,
\* and it stands for exactly the errors swallowed since the last: "the throttle
\* hides volume and not the fact" (logConnectionError).
LinesAreTrue ==
  [][realSince' = 0 /\ realSince # 0 =>
       /\ realSince \in {Absent, Interval} \/ setForward
       /\ suppressed = unlogged]_vars

\* A decision goes unenforced only when Redis could not be asked or was cut off:
\* a call in flight when the process is told to stop is answered by a server
\* that is up (onApplicationShutdown: "quit finishes in-flight commands").
UnenforcedWithCause == \A c \in Call : call[c] = "unenforced" => c \in excused

\* No call hangs, whatever the server and the connection do: "A Redis that is
\* down must never become a service that is down".
EveryCallAnswers ==
  \A c \in Call : call[c] \in {"sent", "waiting"} ~> call[c] \in {"enforced", "unenforced"}

\* An outage that lasts is logged again and again, however often the clock was
\* set back in it.
LastingOutageIsLogged ==
  <>[](link \in {"broken", "connecting"} /\ closing = "no") => []<>(realSince = 0)

\* The shutdown hook ends, against a server that never answers QUIT too.
ShutdownEnds == closing = "quitting" ~> closing = "closed"

Unenforced == \E c \in Call : call[c] = "unenforced"

\* "The failure is never silent: ... RedisService logs the connection error
\* behind it" (RateLimitService): when a server that has wedged leaves decisions
\* unenforced for good, a line says so.
UnenforcedIsExplained ==
  configured /\ <>[](closing = "no") /\ <>[](server = "wedged") /\ []<>Unenforced
    => <>(realSince # Absent)
=============================================================================
