---------------------------- MODULE RedisProofs ----------------------------
(***************************************************************************)
(* RedisService for any number of calls, faults and clock changes, and any    *)
(* interval: a decision goes unenforced only with a cause, and the error log  *)
(* tells the truth.  A call is in flight on a ready connection only.  If its   *)
(* server is not up, or a shutdown has passed it by, it has been excused       *)
(* already; so whatever rejects it, a timeout, a lost connection, QUIT or      *)
(* disconnect(), does so with a cause.                                       *)
(*                                                                         *)
(* The token bucket for any burst, cost, number of requests, and any clocks    *)
(* whose spread (with the commands' travel time) is within the TTL's slack:    *)
(* it grants and refuses within the spread of an ideal one.  Two ideal buckets *)
(* accompany the real one, which stays between them.                         *)
(***************************************************************************)
EXTENDS MCRedis, TLAPS

-----------------------------------------------------------------------------
(* RedisClient                                                              *)

SentInv ==
  \A c \in Call : call[c] = "sent" =>
    /\ link = "ready"
    /\ server # "up" => c \in excused
    /\ closing = "quitting" => c \in ahead \union excused
    /\ closing = "severed" => c \in excused

WaitingInv == \A c \in Call : call[c] = "waiting" => c \in excused

\* Without the clock set forward no interval is over before its time.
ThrottleInv ==
  /\ suppressed = unlogged
  /\ realSince # Absent /\ ~setForward => sinceLog <= realSince

CallInv == SentInv /\ WaitingInv /\ UnenforcedWithCause

IInv == TypeOK /\ CallInv /\ ThrottleInv

-----------------------------------------------------------------------------
(* The throttle                                                             *)

\* An error is counted or logged, and its line is in time.
LEMMA LogInv ==
  ASSUME TypeOK, ThrottleInv, logConnectionError
  PROVE  /\ ThrottleInv'
         /\ sinceLog' \in (-Reach)..Interval
         /\ suppressed' \in Count /\ unlogged' \in Count
         /\ realSince' \in (0..Interval) \union {Absent}
         /\ setForward' \in BOOLEAN
<1> USE RedisClientAssumption
<1>1. CASE LogLine
  <2>1. 0 \in (-Reach)..Interval /\ 0 \in Count /\ 0 \in 0..Interval
    BY DEF Count
  <2>2. sinceLog' = 0 /\ suppressed' = 0 /\ realSince' = 0 /\ unlogged' = 0 /\ setForward' = FALSE
    BY <1>1 DEF LogLine
  <2>3. ThrottleInv'
    BY <2>2 DEF ThrottleInv
  <2>4. QED
    BY <2>1, <2>2, <2>3
<1>2. CASE Suppress
  BY <1>2 DEF Suppress, TypeOK, ThrottleInv, Count, Succ
<1>3. QED
  BY <1>1, <1>2 DEF logConnectionError

LEMMA QuietInv ==
  ASSUME TypeOK, ThrottleInv, UNCHANGED throttle
  PROVE  /\ ThrottleInv'
         /\ sinceLog' \in (-Reach)..Interval
         /\ suppressed' \in Count /\ unlogged' \in Count
         /\ realSince' \in (0..Interval) \union {Absent}
         /\ setForward' \in BOOLEAN
BY DEF throttle, TypeOK, ThrottleInv

LEMMA TickInv == IInv /\ Tick => IInv'
<1> SUFFICES ASSUME IInv, Tick PROVE IInv'
  OBVIOUS
<1>1. /\ sinceLog' \in (-Reach)..Interval
      /\ realSince' \in (0..Interval) \union {Absent}
      /\ realSince' # Absent /\ ~setForward => sinceLog' <= realSince'
  BY RedisClientAssumption DEF Tick, Older, IInv, TypeOK, ThrottleInv
<1>2. TypeOK'
  BY <1>1 DEF Tick, bounds, IInv, TypeOK
<1>3. ThrottleInv'
  BY <1>1 DEF Tick, IInv, ThrottleInv
<1>4. CallInv'
  BY DEF Tick, IInv, CallInv, SentInv, WaitingInv, UnenforcedWithCause
<1>5. QED
  BY <1>2, <1>3, <1>4 DEF IInv

LEMMA ClockSetInv ==
  ASSUME IInv, NEW since \in (-Reach)..Interval, ClockSet(since)
  PROVE  IInv'
<1>1. ThrottleInv'
  <2>1. /\ sinceLog' = since /\ setForward' = (setForward \/ since > sinceLog)
        /\ UNCHANGED <<realSince, suppressed, unlogged>>
    BY DEF ClockSet
  <2>2. CASE setForward \/ since > sinceLog
    <3>1. setForward'
      BY <2>1, <2>2
    <3>2. QED
      BY <2>1, <3>1 DEF IInv, ThrottleInv
  <2>3. CASE ~(setForward \/ since > sinceLog)
    <3>1. realSince # Absent => since <= sinceLog /\ sinceLog <= realSince /\ realSince \in Int
      BY <2>3, RedisClientAssumption DEF IInv, TypeOK, ThrottleInv
    <3>2. realSince # Absent => since <= realSince
      BY <3>1, RedisClientAssumption DEF IInv, TypeOK
    <3>3. QED
      BY <2>1, <3>2 DEF IInv, ThrottleInv
  <2>4. QED
    BY <2>2, <2>3
<1>2. TypeOK'
  BY RedisClientAssumption DEF ClockSet, IInv, TypeOK
<1>3. CallInv'
  BY DEF ClockSet, IInv, CallInv, SentInv, WaitingInv, UnenforcedWithCause
<1>4. QED
  BY <1>1, <1>2, <1>3 DEF IInv

-----------------------------------------------------------------------------
(* Calls                                                                    *)

LEMMA ConsumeInv ==
  ASSUME IInv, NEW c \in Call, consume(c)
  PROVE  IInv'
<1>1. TypeOK' /\ ThrottleInv'
  BY QuietInv DEF consume, Unreachable, bounds, IInv, TypeOK
<1>2. CallInv'
  <2>1. ASSUME NEW d \in Call
        PROVE  /\ d # c => /\ call'[d] = call[d]
                           /\ d \in ahead' <=> d \in ahead
                           /\ d \in excused' <=> d \in excused
               /\ UNCHANGED <<link, server, closing>>
    BY DEF consume, IInv, TypeOK
  <2>2. /\ call'[c] \in {"sent", "unenforced"}
        /\ call'[c] = "sent" <=> link = "ready"
        /\ link # "ready" \/ server # "up" \/ closing # "no" => c \in excused'
    BY DEF consume, Unreachable, IInv, TypeOK
  <2>3. QED
    BY <2>1, <2>2 DEF IInv, CallInv, SentInv, WaitingInv, UnenforcedWithCause
<1>3. QED
  BY <1>1, <1>2 DEF IInv

LEMMA SettlesInv ==
  ASSUME IInv, NEW c \in Call, Settles(c)
  PROVE  IInv'
<1>1. CASE ServerAnswers(c)
  <2>1. TypeOK' /\ ThrottleInv'
    BY <1>1, QuietInv DEF ServerAnswers, bounds, IInv, TypeOK
  <2>2. CallInv'
    BY <1>1 DEF ServerAnswers, IInv, TypeOK, CallInv, SentInv, WaitingInv, UnenforcedWithCause
  <2>3. QED
    BY <2>1, <2>2 DEF IInv
<1>2. CASE CommandTimesOut(c)
  <2>1. TypeOK' /\ ThrottleInv'
    BY <1>2, QuietInv DEF CommandTimesOut, Fail, bounds, IInv, TypeOK
  <2>2. CallInv'
    BY <1>2 DEF CommandTimesOut, OverTime, Fail, IInv, TypeOK, CallInv, SentInv, WaitingInv,
                UnenforcedWithCause
  <2>3. QED
    BY <2>1, <2>2 DEF IInv
<1>3. QED
  BY <1>1, <1>2 DEF Settles

\* Whatever rejects the calls that are pending does so with a cause, once those
\* still in flight are excused.
LEMMA FailInv ==
  ASSUME IInv, Fail(Pending), excused \subseteq excused',
         \A c \in Call : call[c] = "sent" => c \in excused'
  PROVE  /\ CallInv'
         /\ call' \in [Call -> {"idle", "sent", "waiting", "enforced", "unenforced"}]
<1>1. \A c \in Call : call'[c] = IF call[c] \in {"sent", "waiting"} THEN "unenforced" ELSE call[c]
  BY DEF Fail, Pending
<1>2. QED
  BY <1>1 DEF Fail, Pending, IInv, TypeOK, CallInv, SentInv, WaitingInv, UnenforcedWithCause

-----------------------------------------------------------------------------
(* The connection                                                           *)

LEMMA LinkDropsInv == IInv /\ LinkDrops => IInv'
<1> SUFFICES ASSUME IInv, LinkDrops PROVE IInv'
  OBVIOUS
<1>1. \A c \in Call : call[c] = "sent" => c \in excused'
  BY DEF LinkDrops, InFlight
<1>2. /\ faults' \in 0..MaxFaults /\ excused' \in SUBSET Call /\ excused \subseteq excused'
      /\ UNCHANGED <<configured, server, closing, ahead, jumps>>
  BY RedisClientAssumption DEF LinkDrops, InFlight, IInv, TypeOK
<1>3. CASE ManuallyClosing
  <2>1. link' = "ended" /\ Fail(Pending) /\ UNCHANGED throttle
    BY <1>3 DEF LinkDrops
  <2>2. QED
    BY <1>1, <1>2, <2>1, FailInv, QuietInv DEF IInv, TypeOK
<1>4. CASE ~ManuallyClosing
  <2>1. /\ link' = "broken"
        /\ call' = [c \in Call |-> IF c \in InFlight THEN "waiting" ELSE call[c]]
        /\ logConnectionError \/ UNCHANGED throttle
    BY <1>4 DEF LinkDrops
  <2>2. TypeOK' /\ ThrottleInv'
    BY <1>2, <2>1, LogInv, QuietInv DEF IInv, TypeOK
  <2>3. CallInv'
    BY <1>1, <1>2, <2>1
      DEF InFlight, IInv, TypeOK, CallInv, SentInv, WaitingInv, UnenforcedWithCause
  <2>4. QED
    BY <2>2, <2>3 DEF IInv
<1>5. QED
  BY <1>3, <1>4

LEMMA ConnectsInv == IInv /\ Connects => IInv'
<1> SUFFICES ASSUME IInv, Connects PROVE IInv'
  OBVIOUS
<1>1. CASE Reconnects
  <2>1. TypeOK' /\ ThrottleInv'
    BY <1>1, QuietInv DEF Reconnects, bounds, IInv, TypeOK
  <2>2. CallInv'
    BY <1>1 DEF Reconnects, IInv, CallInv, SentInv, WaitingInv, UnenforcedWithCause
  <2>3. QED
    BY <2>1, <2>2 DEF IInv
<1>2. CASE ConnectFails
  <2>1. /\ link' = "broken" /\ Fail(Pending) /\ logConnectionError
        /\ UNCHANGED <<configured, server, closing, ahead, faults, jumps, excused>>
    BY <1>2 DEF ConnectFails, bounds
  <2>2. \A c \in Call : call[c] # "sent"
    BY <1>2 DEF ConnectFails, IInv, CallInv, SentInv
  <2>3. QED
    BY <2>1, <2>2, FailInv, LogInv DEF IInv, TypeOK
<1>3. CASE Ready
  <2>1. TypeOK' /\ ThrottleInv'
    BY <1>3, QuietInv DEF Ready, bounds, IInv, TypeOK
  <2>2. CallInv'
    BY <1>3
      DEF Ready, ManuallyClosing, IInv, TypeOK, CallInv, SentInv, WaitingInv,
          UnenforcedWithCause
  <2>3. QED
    BY <2>1, <2>2 DEF IInv
<1>4. QED
  BY <1>1, <1>2, <1>3 DEF Connects

LEMMA ServerChangesInv ==
  ASSUME IInv, NEW status \in {"up", "wedged", "down"}, ServerChanges(status)
  PROVE  IInv'
<1>1. TypeOK' /\ ThrottleInv'
  BY QuietInv, RedisClientAssumption DEF ServerChanges, InFlight, IInv, TypeOK
<1>2. CallInv'
  BY DEF ServerChanges, InFlight, IInv, CallInv, SentInv, WaitingInv, UnenforcedWithCause
<1>3. QED
  BY <1>1, <1>2 DEF IInv

-----------------------------------------------------------------------------
(* Shutdown                                                                 *)

LEMMA ShutdownInv == IInv /\ onApplicationShutdown => IInv'
<1> SUFFICES ASSUME IInv, onApplicationShutdown PROVE IInv'
  OBVIOUS
<1>1. TypeOK' /\ ThrottleInv'
  BY QuietInv DEF onApplicationShutdown, quit, InFlight, bounds, IInv, TypeOK
<1>2. CallInv'
  BY
    DEF onApplicationShutdown, quit, InFlight, IInv, CallInv, SentInv, WaitingInv,
        UnenforcedWithCause
<1>3. QED
  BY <1>1, <1>2 DEF IInv

LEMMA ShutsDownInv == IInv /\ ShutsDown => IInv'
<1> SUFFICES ASSUME IInv, ShutsDown PROVE IInv'
  OBVIOUS
<1>1. CASE QuitAnswered
  <2>1. /\ closing' = "closed" /\ link' = "ended" /\ Fail(Pending) /\ UNCHANGED throttle
        /\ UNCHANGED <<configured, server, ahead, faults, jumps, excused>>
    BY <1>1 DEF QuitAnswered, bounds
  <2>2. \A c \in Call : call[c] = "sent" => c \in excused'
    BY <1>1, <2>1 DEF QuitAnswered, InFlight, IInv, CallInv, SentInv
  <2>3. QED
    BY <2>1, <2>2, FailInv, QuietInv DEF IInv, TypeOK
<1>2. CASE QuitFails
  <2>1. TypeOK' /\ ThrottleInv'
    BY <1>2, QuietInv DEF QuitFails, bounds, IInv, TypeOK
  <2>2. CallInv'
    BY <1>2 DEF QuitFails, Rejected, IInv, CallInv, SentInv, WaitingInv, UnenforcedWithCause
  <2>3. QED
    BY <2>1, <2>2 DEF IInv
<1>3. CASE Severed
  <2>1. /\ closing' = "closed" /\ link' = "ended" /\ Fail(Pending) /\ UNCHANGED throttle
        /\ UNCHANGED <<configured, server, ahead, faults, jumps, excused>>
    BY <1>3 DEF Severed, bounds
  <2>2. \A c \in Call : call[c] = "sent" => c \in excused'
    BY <1>3, <2>1 DEF Severed, IInv, CallInv, SentInv
  <2>3. QED
    BY <2>1, <2>2, FailInv, QuietInv DEF IInv, TypeOK
<1>4. QED
  BY <1>1, <1>2, <1>3 DEF ShutsDown

-----------------------------------------------------------------------------

\* A process starts without a call and without a line.
THEOREM InitIInv == Init => IInv
<1> SUFFICES ASSUME Init PROVE IInv
  OBVIOUS
<1>1. TypeOK
  <2>1. Interval \in (-Reach)..Interval /\ 0 \in Count /\ 0 \in 0..MaxFaults /\ 0 \in 0..MaxJumps
    BY RedisClientAssumption DEF Count
  <2>2. /\ call \in [Call -> {"idle", "sent", "waiting", "enforced", "unenforced"}]
        /\ link \in {"connecting", "ready", "broken", "ended"}
    BY DEF Init
  <2>3. QED
    BY <2>1, <2>2 DEF Init, TypeOK
<1>2. CallInv /\ ThrottleInv
  BY DEF Init, CallInv, SentInv, WaitingInv, UnenforcedWithCause, ThrottleInv
<1>3. QED
  BY <1>1, <1>2 DEF IInv

\* Every event of the connection, of a call and of the shutdown keeps the invariant.
THEOREM NextIInv == IInv /\ [Next]_vars => IInv'
<1> SUFFICES ASSUME IInv, [Next]_vars PROVE IInv'
  OBVIOUS
<1>1. CASE UNCHANGED vars
  BY <1>1 DEF vars, throttle, bounds, IInv, TypeOK, CallInv, SentInv, WaitingInv,
              UnenforcedWithCause, ThrottleInv
<1>2. CASE Next
  BY <1>2, TickInv, ClockSetInv, ConsumeInv, SettlesInv, LinkDropsInv, ConnectsInv,
     ServerChangesInv, ShutdownInv, ShutsDownInv DEF Next
<1>3. QED
  BY <1>1, <1>2

\* IInv holds of every reachable state.
THEOREM IInvHolds == Spec => []IInv
BY InitIInv, NextIInv, PTL DEF Spec

\* Every variable keeps its type, the throttle's difference of clocks included
\* (RedisService.logConnectionError).
THEOREM TypeCorrect == Spec => []TypeOK
<1>1. IInv => TypeOK
  BY DEF IInv
<1>2. QED
  BY <1>1, IInvHolds, PTL

\* A decision goes unenforced only when Redis could not be asked or was cut off
\* (RateLimitService.consume, RedisService.onApplicationShutdown).
THEOREM UnenforcedHasCause == Spec => []UnenforcedWithCause
<1>1. IInv => UnenforcedWithCause
  BY DEF IInv, CallInv
<1>2. QED
  BY <1>1, IInvHolds, PTL

\* The error log's lines come at most one per interval and count what they hide
\* (RedisService.logConnectionError).
THEOREM LinesTellTheTruth == Spec => LinesAreTrue
<1>1. ASSUME IInv, [Next]_vars, realSince' = 0, realSince # 0
      PROVE  /\ realSince \in {Absent, Interval} \/ setForward
             /\ suppressed = unlogged
  <2>1. suppressed = unlogged
    BY <1>1 DEF IInv, ThrottleInv
  <2>2. realSince' # realSince
    BY <1>1
  <2>3. CASE logConnectionError
    BY <1>1, <2>2, <2>3, RedisClientAssumption
    DEF logConnectionError, LogLine, Suppress, IInv, TypeOK, ThrottleInv
  <2>4. CASE Tick
    BY <1>1, <2>4, RedisClientAssumption DEF Tick, Older, IInv, TypeOK
  <2>5. CASE UNCHANGED realSince
    BY <2>2, <2>5
  <2>6. logConnectionError \/ Tick \/ UNCHANGED realSince
    <3>1. CASE UNCHANGED vars
      BY <3>1 DEF vars, throttle
    <3>2. ASSUME NEW since \in (-Reach)..Interval, ClockSet(since) PROVE UNCHANGED realSince
      BY <3>2 DEF ClockSet
    <3>3. ASSUME NEW c \in Call, consume(c) \/ Settles(c) PROVE UNCHANGED realSince
      BY <3>3 DEF consume, Settles, ServerAnswers, CommandTimesOut, throttle
    <3>4. CASE LinkDrops \/ Connects
      BY <3>4 DEF LinkDrops, Connects, Reconnects, ConnectFails, Ready, throttle
    <3>5. ASSUME NEW status \in {"up", "wedged", "down"}, ServerChanges(status)
          PROVE  UNCHANGED realSince
      BY <3>5 DEF ServerChanges, throttle
    <3>6. CASE onApplicationShutdown \/ ShutsDown
      BY <3>6 DEF onApplicationShutdown, ShutsDown, QuitAnswered, QuitFails, Severed, throttle
    <3>7. QED
      BY <1>1, <3>1, <3>2, <3>3, <3>4, <3>5, <3>6 DEF Next
  <2>7. QED
    BY <2>1, <2>3, <2>4, <2>5, <2>6
<1>2. IInv /\ [Next]_vars =>
        [realSince' = 0 /\ realSince # 0 =>
           /\ realSince \in {Absent, Interval} \/ setForward
           /\ suppressed = unlogged]_vars
  BY <1>1
<1>3. QED
  BY <1>2, IInvHolds, PTL DEF Spec, LinesAreTrue

-----------------------------------------------------------------------------
(* What a call and a shutdown still have ahead of them                       *)

\* Only a shutdown gives the connection up, QUIT goes out on a ready one, and a
\* connection that has ended has taken its calls with it.
ClosingInv ==
  /\ closing # "no" => configured
  /\ closing = "no" => (link = "ended" <=> ~configured)
  /\ closing = "quitting" => link \in {"ready", "ended"}
  /\ closing = "closed" => link = "ended"
  /\ link = "ended" => Pending = {}

\* A call under way is over its time, or in the hands of a server that is up; QUIT
\* has been rejected, or is; a closed client holds no call; and one that was not
\* told to close goes on reconnecting.  ("A Redis that is down must never become a
\* service that is down"; retryStrategy; onApplicationShutdown.)
NothingWaitsForNothing ==
  /\ \A c \in Pending : OverTime(c) \/ (call[c] = "sent" /\ link = "ready" /\ server = "up")
  /\ closing = "quitting" => Rejected \/ (link = "ready" /\ server = "up")
  /\ closing = "closed" => link = "ended" /\ Pending = {}
  /\ configured /\ closing = "no" => link # "ended"

\* A step that leaves the connection alone, and sends nothing without one.
LEMMA KeepsClosing ==
  ASSUME ClosingInv, UNCHANGED <<configured, link, closing>>,
         \A c \in Call : call'[c] \in {"sent", "waiting"} =>
           link # "ended" \/ call[c] \in {"sent", "waiting"}
  PROVE  ClosingInv'
BY DEF ClosingInv, Pending

LEMMA NextClosing == IInv /\ ClosingInv /\ [Next]_vars => ClosingInv'
<1> SUFFICES ASSUME IInv, ClosingInv, [Next]_vars PROVE ClosingInv'
  OBVIOUS
<1>2. Fail(Pending) => Pending' = {}
  BY DEF Fail, Pending
<1>3. CASE Tick \/ UNCHANGED vars \/ \E since \in (-Reach)..Interval : ClockSet(since)
  BY <1>3, KeepsClosing DEF Tick, vars, ClockSet
<1>4. ASSUME NEW c \in Call, consume(c) \/ Settles(c)  PROVE ClosingInv'
  BY <1>4, KeepsClosing DEF consume, Unreachable, Settles, ServerAnswers, CommandTimesOut, Fail, IInv, TypeOK
<1>5. CASE LinkDrops
  <2>1. CASE ManuallyClosing /\ link' = "ended" /\ Fail(Pending) /\ UNCHANGED <<configured, closing>>
    BY <1>2, <2>1 DEF ClosingInv, ManuallyClosing
  <2>2. CASE ~ManuallyClosing /\ link' = "broken" /\ UNCHANGED <<configured, closing>>
    BY <1>5, <2>2 DEF LinkDrops, ClosingInv, ManuallyClosing
  <2> QED BY <1>5, <2>1, <2>2 DEF LinkDrops
<1>6. CASE Connects
  BY <1>6 DEF Connects, Reconnects, ConnectFails, Ready, ManuallyClosing, ClosingInv
<1>7. ASSUME NEW status \in {"up", "wedged", "down"}, ServerChanges(status)  PROVE ClosingInv'
  BY <1>7, KeepsClosing DEF ServerChanges
<1>8. CASE onApplicationShutdown
  BY <1>8 DEF onApplicationShutdown, quit, ClosingInv, Pending
<1>9. CASE QuitAnswered \/ Severed
  BY <1>2, <1>9 DEF QuitAnswered, Severed, ClosingInv
<1>10. CASE QuitFails
  BY <1>10 DEF QuitFails, Rejected, ClosingInv, Pending
<1> QED BY <1>3, <1>4, <1>5, <1>6, <1>7, <1>8, <1>9, <1>10 DEF Next, ShutsDown

\* Every call, and the shutdown, has its next step ahead of it in every reachable
\* state: the library's timer, the server's answer, or the end of the connection.
THEOREM NobodyWaitsInVain == Spec => []NothingWaitsForNothing
<1>1. Init => ClosingInv
  BY DEF Init, ClosingInv, Pending
<1>2. IInv /\ ClosingInv => NothingWaitsForNothing
  BY DEF IInv, TypeOK, CallInv, SentInv, ClosingInv, NothingWaitsForNothing, OverTime, Rejected, Pending
<1> QED BY <1>1, <1>2, NextClosing, IInvHolds, PTL DEF Spec

-----------------------------------------------------------------------------
(* RateLimit                                                                *)

\* What the bucket holds in the eyes of the clock that is furthest ahead.
BucketSeen == bucket.tokens + (Lead - bucket.updatedAt)

\* A bucket's instant is one some clock has shown, and its TTL outlives its refill.
BucketInv ==
  bucket # Null =>
    /\ bucket.tokens <= Capacity
    /\ bucket.updatedAt <= Lead
    /\ bucket.ttl + bucket.tokens - bucket.updatedAt + Lead >= Capacity + Slack

NowInv == \A r \in Request : now[r] \in -Lag..Lead \/ pc[r] = "idle"

\* The ideal bucket with Spread units more never holds less than the real one
\* can be seen to hold; an absent key stands for a full bucket.
CeilingInv ==
  /\ 0 <= ceiling /\ ceiling <= Capacity + RateLimit!Spread
  /\ bucket = Null => ceiling = Capacity + RateLimit!Spread
  /\ bucket # Null => ceiling >= RateLimit!AtMost(BucketSeen, Capacity + RateLimit!Spread)

\* The ideal bucket of Capacity never holds more.
AllowanceInv ==
  /\ allowance <= Capacity
  /\ bucket # Null => allowance <= BucketSeen

BucketIInv == RateLimit!TypeOK /\ BucketInv /\ NowInv /\ CeilingInv /\ AllowanceInv

-----------------------------------------------------------------------------

LEMMA BucketSizes ==
  /\ Capacity \in Nat /\ Cost \in Nat /\ Cost > 0 /\ Lead \in Nat /\ Lag \in Nat
  /\ Slack \in Nat /\ Slack > 0 /\ Slack >= Lead + Lag /\ RateLimit!Spread = Lead + Lag
BY BucketConstants DEF RateLimit!BucketAssumption, RateLimit!Spread

LEMMA NullIsNoBucket == Null \notin RateLimit!Bucket
BY BucketConstants DEF RateLimit!NullAssumption

LEMMA InitBucketIInv == RateLimit!Init => BucketIInv
BY BucketSizes DEF RateLimit!Init, BucketIInv, RateLimit!TypeOK, BucketInv, NowInv, CeilingInv,
   AllowanceInv

LEMMA TickBucketIInv == BucketIInv /\ RateLimit!Tick => BucketIInv'
<1> SUFFICES ASSUME BucketIInv, RateLimit!Tick PROVE BucketIInv'
  OBVIOUS
<1> USE DEF BucketIInv
<1>1. pc' = pc /\ resent' = resent
  BY DEF RateLimit!Tick
<1>2. NowInv' /\ now' \in [Request -> Int]
  BY BucketSizes DEF RateLimit!Tick, NowInv, RateLimit!TypeOK
<1>3. CASE bucket = Null \/ bucket.ttl <= 1
  <2>1. bucket' = Null
    BY <1>3 DEF RateLimit!Tick
  <2>2. ceiling' = Capacity + RateLimit!Spread
    BY <1>3, BucketSizes DEF RateLimit!Tick, RateLimit!AtMost, CeilingInv, BucketInv, BucketSeen,
       RateLimit!TypeOK, RateLimit!Bucket
  <2>3. allowance' \in Int /\ allowance' <= Capacity
    BY BucketSizes DEF RateLimit!Tick, RateLimit!AtMost, RateLimit!TypeOK
  <2> QED BY <1>1, <1>2, <2>1, <2>2, <2>3, BucketSizes
          DEF RateLimit!TypeOK, BucketInv, CeilingInv, AllowanceInv
<1>4. CASE bucket # Null /\ bucket.ttl > 1
  <2>1. bucket \in RateLimit!Bucket
    BY <1>4 DEF RateLimit!TypeOK
  <2>2. bucket' = [tokens |-> bucket.tokens, updatedAt |-> bucket.updatedAt - 1,
                   ttl |-> bucket.ttl - 1]
    BY <1>4, <2>1 DEF RateLimit!Tick, RateLimit!Bucket
  <2>3. bucket' \in RateLimit!Bucket /\ bucket' # Null
    BY <1>4, <2>1, <2>2, NullIsNoBucket DEF RateLimit!Bucket
  <2>4. BucketInv'
    BY <1>4, <2>1, <2>2, BucketSizes DEF BucketInv, RateLimit!Bucket
  <2>5. BucketSeen \in Int /\ BucketSeen' = BucketSeen + 1
    BY <2>1, <2>2, BucketSizes DEF BucketSeen, RateLimit!Bucket
  <2>6. ceiling' = RateLimit!AtMost(ceiling + 1,
     Capacity + RateLimit!Spread) /\ allowance' = RateLimit!AtMost(allowance + 1, Capacity)
    BY DEF RateLimit!Tick
  <2>7. CeilingInv' /\ AllowanceInv' /\ ceiling' \in Int /\ allowance' \in Int
    BY <1>4, <2>3, <2>5, <2>6, BucketSizes DEF CeilingInv, AllowanceInv, RateLimit!AtMost,
       RateLimit!TypeOK
  <2> QED BY <1>1, <1>2, <2>3, <2>4, <2>7 DEF RateLimit!TypeOK
<1> QED
  <2>1. bucket # Null => bucket.ttl \in Nat
    BY DEF RateLimit!TypeOK, RateLimit!Bucket
  <2> QED BY <1>3, <1>4, <2>1

\* What the script reads: a bucket within its capacity that is no worth more, and
\* no less, than the books allow.
LEMMA RefilledFacts ==
  ASSUME BucketIInv, NEW n \in -Lag..Lead
  PROVE  LET b == RateLimit!Refilled(n) IN
         /\ b.tokens \in Nat /\ b.updatedAt \in Int
         /\ b.tokens <= Capacity
         /\ n <= b.updatedAt /\ b.updatedAt <= Lead
         /\ b.tokens + (Lead - b.updatedAt) <= ceiling
         /\ allowance <= b.tokens + (Lead - b.updatedAt)
<1> USE DEF BucketIInv
<1>1. CASE bucket = Null
  BY <1>1, BucketSizes DEF RateLimit!Refilled, CeilingInv, AllowanceInv, RateLimit!TypeOK
<1>2. CASE bucket # Null
  <2>1. bucket \in RateLimit!Bucket
    BY <1>2 DEF RateLimit!TypeOK
  <2>2. CASE n > bucket.updatedAt
    BY <1>2, <2>1, <2>2, BucketSizes
    DEF RateLimit!Refilled, RateLimit!AtMost, CeilingInv, AllowanceInv, BucketInv, BucketSeen,
       RateLimit!TypeOK, RateLimit!Bucket
  <2>3. CASE ~(n > bucket.updatedAt)
    BY <1>2, <2>1, <2>3, BucketSizes
    DEF RateLimit!Refilled, RateLimit!AtMost, CeilingInv, AllowanceInv, BucketInv, BucketSeen,
       RateLimit!TypeOK, RateLimit!Bucket
  <2> QED BY <2>2, <2>3
<1> QED BY <1>1, <1>2

LEMMA ScriptBucketIInv ==
  ASSUME BucketIInv, NEW r \in Request, RateLimit!iveriTokenBucket(r)  PROVE BucketIInv'
<1> DEFINE b == RateLimit!Refilled(now[r])
<1> USE DEF BucketIInv
<1>1. now[r] \in -Lag..Lead
  BY DEF NowInv, RateLimit!iveriTokenBucket
<1>2. /\ b.tokens \in Nat /\ b.updatedAt \in Int
      /\ b.tokens <= Capacity
      /\ now[r] <= b.updatedAt /\ b.updatedAt <= Lead
      /\ b.tokens + (Lead - b.updatedAt) <= ceiling
      /\ allowance <= b.tokens + (Lead - b.updatedAt)
  BY <1>1, RefilledFacts
<1>3. PICK spent \in {0, Cost} :
        /\ spent <= b.tokens
        /\ RateLimit!Store(b.tokens - spent, b.updatedAt)
        /\ ceiling' = ceiling - spent
        /\ allowance' = allowance - spent
  BY <1>2, BucketSizes DEF RateLimit!iveriTokenBucket, RateLimit!Affordable, RateLimit!TypeOK
<1> HIDE DEF b
<1>4. bucket' = [tokens |-> b.tokens - spent, updatedAt |-> b.updatedAt,
                 ttl |-> (Capacity - (b.tokens - spent)) + Slack]
  BY <1>3 DEF RateLimit!Store, RateLimit!TimeToLive
<1>5. bucket' \in RateLimit!Bucket /\ bucket' # Null
  BY <1>2, <1>3, <1>4, BucketSizes, NullIsNoBucket DEF RateLimit!Bucket
<1>6. BucketInv'
  BY <1>2, <1>3, <1>4, BucketSizes DEF BucketInv
<1>7. NowInv'
  BY DEF RateLimit!iveriTokenBucket, NowInv, RateLimit!TypeOK
<1>8. BucketSeen' = b.tokens - spent + (Lead - b.updatedAt)
  BY <1>4 DEF BucketSeen
<1>9. CeilingInv' /\ AllowanceInv' /\ ceiling' \in Int /\ allowance' \in Int
  BY <1>2, <1>3, <1>5, <1>8, BucketSizes DEF CeilingInv, AllowanceInv, RateLimit!AtMost,
     RateLimit!TypeOK
<1>10. RateLimit!TypeOK'
  BY <1>5, <1>9 DEF RateLimit!TypeOK, RateLimit!iveriTokenBucket
<1> QED BY <1>6, <1>7, <1>9, <1>10

LEMMA NextBucketIInv == BucketIInv /\ [RateLimit!Next]_RateLimit!vars => BucketIInv'
<1> SUFFICES ASSUME BucketIInv, [RateLimit!Next]_RateLimit!vars PROVE BucketIInv'
  OBVIOUS
<1>1. CASE RateLimit!Tick
  BY <1>1, TickBucketIInv
<1>2. CASE RateLimit!DataLost
  BY <1>2, BucketSizes DEF BucketIInv, RateLimit!DataLost, RateLimit!TypeOK, BucketInv, NowInv,
     CeilingInv, AllowanceInv
<1>3. ASSUME NEW r \in Request,
   RateLimit!consume(r) \/ RateLimit!Resend(r) \/ RateLimit!Returns(r)  PROVE BucketIInv'
  <2>1. UNCHANGED <<bucket, ceiling, allowance>>
    BY <1>3 DEF RateLimit!consume, RateLimit!Resend, RateLimit!Returns
  <2>2. CASE RateLimit!consume(r)
    <3>1. PICK n \in -Lag..Lead : now' = [now EXCEPT ![r] = n]
      BY <2>2 DEF RateLimit!consume
    <3>2. n \in Int
      BY <3>1, BucketSizes
    <3> QED BY <2>1, <2>2, <3>1, <3>2 DEF BucketIInv, RateLimit!consume, RateLimit!TypeOK,
       NowInv, BucketInv,
             CeilingInv, AllowanceInv, BucketSeen
  <2>3. CASE RateLimit!Resend(r)
    BY <2>1, <2>3 DEF BucketIInv, RateLimit!Resend, RateLimit!TypeOK, NowInv, BucketInv,
       CeilingInv, AllowanceInv, BucketSeen
  <2>4. CASE RateLimit!Returns(r)
    BY <2>1, <2>4 DEF BucketIInv, RateLimit!Returns, RateLimit!TypeOK, NowInv, BucketInv,
       CeilingInv, AllowanceInv, BucketSeen
  <2> QED BY <1>3, <2>2, <2>3, <2>4
<1>4. ASSUME NEW r \in Request, RateLimit!iveriTokenBucket(r)  PROVE BucketIInv'
  BY <1>4, ScriptBucketIInv
<1>5. CASE UNCHANGED RateLimit!vars
  BY <1>5 DEF BucketIInv, RateLimit!vars, RateLimit!TypeOK, BucketInv, NowInv, CeilingInv,
     AllowanceInv, BucketSeen
<1> QED BY <1>1, <1>2, <1>3, <1>4, <1>5 DEF RateLimit!Next

\* The strengthened invariant of the bucket and its two ideal companions.
THEOREM BucketInvariance == RateLimit!Spec => []BucketIInv
BY InitBucketIInv, NextBucketIInv, PTL DEF RateLimit!Spec

-----------------------------------------------------------------------------

\* The bucket and the requests are well-formed in every reachable state.
THEOREM BucketTypeCorrect == RateLimit!Spec => []RateLimit!TypeOK
<1>1. BucketIInv => RateLimit!TypeOK
  BY DEF BucketIInv
<1> QED BY <1>1, BucketInvariance, PTL

\* The script never grants more than the policy and the clocks' spread allow,
\* over any interval.
THEOREM BoundedRate == RateLimit!Spec => []RateIsBounded
<1>1. BucketIInv => RateIsBounded
  BY DEF BucketIInv, CeilingInv, RateIsBounded, RateLimit!RateIsBounded
<1> QED BY <1>1, BucketInvariance, PTL

\* The script refuses only a caller who has spent its tokens, up to the spread.
THEOREM RefusesOnlySpenders == RateLimit!Spec => NeverStricter
<1>1. BucketIInv /\ [RateLimit!Next]_RateLimit!vars =>
        [\A r \in Request : (pc[r] = "sent" /\ pc'[r] = "refused") =>
           allowance < Cost + RateLimit!Spread]_RateLimit!vars
  <2> SUFFICES ASSUME BucketIInv, RateLimit!Next, NEW r \in Request, pc[r] = "sent",
     pc'[r] = "refused"
               PROVE allowance < Cost + RateLimit!Spread
    BY DEF RateLimit!vars
  <2> DEFINE b == RateLimit!Refilled(now[r])
  <2>1. RateLimit!iveriTokenBucket(r)
    BY DEF RateLimit!Next, RateLimit!Tick, RateLimit!DataLost, RateLimit!consume,
       RateLimit!iveriTokenBucket, RateLimit!Resend, RateLimit!Returns, BucketIInv, RateLimit!TypeOK
  <2>2. now[r] \in -Lag..Lead
    BY DEF BucketIInv, NowInv
  <2>3. /\ b.tokens \in Nat /\ b.updatedAt \in Int /\ now[r] <= b.updatedAt
        /\ allowance <= b.tokens + (Lead - b.updatedAt)
    BY <2>2, RefilledFacts
  <2>4. ~RateLimit!Affordable(b.tokens)
    BY <2>1 DEF RateLimit!iveriTokenBucket, BucketIInv, RateLimit!TypeOK
  <2> HIDE DEF b
  <2> QED BY <2>2, <2>3, <2>4, BucketSizes DEF RateLimit!Affordable, BucketIInv, RateLimit!TypeOK
<1> QED BY <1>1, BucketInvariance, PTL DEF RateLimit!Spec, NeverStricter, RateLimit!NeverStricter

\* The run's specification is that of RateLimit, the client at rest.
THEOREM BucketRunIsRateLimit == BucketSpec => RateLimit!Spec
<1>1. BucketInit => RateLimit!Init
  BY DEF BucketInit
<1>2. [RateLimit!Next /\ UNCHANGED vars]_<<vars, RateLimit!vars>> => [RateLimit!Next]_RateLimit!vars
  OBVIOUS
<1> QED
  BY <1>1, <1>2, PTL DEF BucketSpec, RateLimit!Spec
=============================================================================
