----------------------------- MODULE RateLimit ------------------------------
(***************************************************************************)
(* One caller's token bucket: RateLimitService.consume on every replica and   *)
(* the script Redis evaluates for it.                                        *)
(*                                                                         *)
(* The unit of tokens is what one tick refills, so a request's token costs   *)
(* Cost units and fractions need no rounding.  Redis's clock drives time;    *)
(* instants are kept as distances from it.  A request carries the instant    *)
(* its replica read before the call: by the time the script runs, that is    *)
(* up to Lead ahead of Redis's clock (skew) or Lag behind it (skew, plus the *)
(* time the command travelled, which commandTimeout bounds).                 *)
(***************************************************************************)
EXTENDS Integers

CONSTANTS
  Request,      \* the caller's requests in flight, on any replica
  Null,
  Capacity,     \* policy.burst, in units
  Cost,         \* RATE_LIMIT_DEFAULT_COST, in units
  Lead, Lag,
  Slack         \* the extra second of the key's TTL

Spread == Lead + Lag

BucketAssumption ==
  /\ {Capacity, Lead, Lag} \subseteq Nat
  /\ {Cost, Slack} \subseteq Nat \ {0}
  /\ Slack >= Spread            \* clocks and travel time agree within a second

VARIABLES
  bucket,       \* Null (the key is absent), or tokens, updatedAt and the TTL
  pc, now,      \* each request: its await, and the instant it carries
  resent,       \* the client has sent the command once more
  ceiling,      \* history: what an ideal bucket with Spread units more would hold
  allowance     \* history: what an ideal bucket of Capacity would hold

vars == <<bucket, pc, now, resent, ceiling, allowance>>

Bucket == [tokens : Nat, updatedAt : Int, ttl : Nat]

NullAssumption == Null \notin Bucket

TypeOK ==
  /\ bucket \in Bucket \union {Null}
  /\ pc \in [Request -> {"idle", "sent", "allowed", "refused"}]
  /\ now \in [Request -> Int]
  /\ resent \in [Request -> BOOLEAN]
  /\ ceiling \in Int
  /\ allowance \in Int

Init ==
  /\ bucket = Null
  /\ pc = [r \in Request |-> "idle"]
  /\ now = [r \in Request |-> 0]
  /\ resent = [r \in Request |-> FALSE]
  /\ ceiling = Capacity + Spread
  /\ allowance = Capacity

AtMost(n, max) == IF n < max THEN n ELSE max

\* A tick of Redis's clock.  The key expires at the end of its TTL; a command
\* that has travelled as long as it may has arrived or failed by then.
Tick ==
  /\ \A r \in Request : pc[r] = "sent" => now[r] > -Lag
  /\ bucket' =
       IF bucket = Null \/ bucket.ttl <= 1 THEN Null
       ELSE [tokens |-> bucket.tokens, updatedAt |-> bucket.updatedAt - 1, ttl |-> bucket.ttl - 1]
  /\ now' = [r \in Request |-> IF pc[r] # "idle" /\ now[r] > -Lag THEN now[r] - 1 ELSE now[r]]
  /\ ceiling' = AtMost(ceiling + 1, Capacity + Spread)
  /\ allowance' = AtMost(allowance + 1, Capacity)
  /\ UNCHANGED <<pc, resent>>

\* Redis loses the key (a restart, an eviction): the books start afresh.
DataLost ==
  /\ bucket' = Null
  /\ ceiling' = Capacity + Spread
  /\ allowance' = Capacity
  /\ UNCHANGED <<pc, now, resent>>

-----------------------------------------------------------------------------
(* consume                                                                  *)

\* The call with the replica's clock, up to its await.  (Without a client it
\* answers "unenforced" at once and leaves no trace.)
consume(r) ==
  /\ pc[r] = "idle"
  /\ pc' = [pc EXCEPT ![r] = "sent"]
  /\ \E n \in -Lag..Lead : now' = [now EXCEPT ![r] = n]
  /\ UNCHANGED <<bucket, resent, ceiling, allowance>>

\* Slips: the replica's clock may rewind the bucket; the refill is forgotten.
Slip_Rewind(n) ==
  IF bucket = Null THEN [tokens |-> Capacity, updatedAt |-> n]
  ELSE [tokens |-> IF n > bucket.updatedAt
                     THEN AtMost(bucket.tokens + (n - bucket.updatedAt), Capacity)
                     ELSE bucket.tokens,
        updatedAt |-> n]
Slip_NotRefilled(n) ==
  IF bucket = Null THEN [tokens |-> Capacity, updatedAt |-> n]
  ELSE [tokens |-> bucket.tokens, updatedAt |-> n]

\* The script up to the decision: an absent bucket is a full one, and only a
\* later instant refills it.
Refilled(n) ==
  IF bucket = Null THEN [tokens |-> Capacity, updatedAt |-> n]
  ELSE IF n > bucket.updatedAt
    THEN [tokens |-> AtMost(bucket.tokens + (n - bucket.updatedAt), Capacity), updatedAt |-> n]
  ELSE [tokens |-> bucket.tokens, updatedAt |-> bucket.updatedAt]

TimeToLive(tokens) == (Capacity - tokens) + Slack

\* HSET and PEXPIRE.
Store(tokens, updatedAt) ==
  bucket' = [tokens |-> tokens, updatedAt |-> updatedAt, ttl |-> TimeToLive(tokens)]

Affordable(tokens) == tokens >= Cost

\* The script, one atomic step in Redis.
iveriTokenBucket(r) ==
  LET b == Refilled(now[r]) IN
  /\ pc[r] = "sent"
  /\ \/ /\ Affordable(b.tokens)
        /\ Store(b.tokens - Cost, b.updatedAt)
        /\ pc' = [pc EXCEPT ![r] = "allowed"]
        /\ ceiling' = ceiling - Cost
        /\ allowance' = allowance - Cost
     \/ /\ ~Affordable(b.tokens)
        /\ Store(b.tokens, b.updatedAt)
        /\ pc' = [pc EXCEPT ![r] = "refused"]
        /\ UNCHANGED <<ceiling, allowance>>
  /\ UNCHANGED <<now, resent>>

\* The connection broke before the reply came: ioredis sends the command once
\* more (maxRetriesPerRequest: 1), whether or not it ran.
Resend(r) ==
  /\ pc[r] \in {"allowed", "refused"} /\ ~resent[r]
  /\ now[r] > -Lag
  /\ pc' = [pc EXCEPT ![r] = "sent"]
  /\ resent' = [resent EXCEPT ![r] = TRUE]
  /\ UNCHANGED <<bucket, now, ceiling, allowance>>

\* consume returns: the script's decision, or after a rejection (not connected,
\* timed out, retried in vain) the unenforced one.
Returns(r) ==
  /\ pc[r] # "idle"
  /\ pc' = [pc EXCEPT ![r] = "idle"]
  /\ now' = [now EXCEPT ![r] = 0]
  /\ resent' = [resent EXCEPT ![r] = FALSE]
  /\ UNCHANGED <<bucket, ceiling, allowance>>

Next ==
  \/ Tick \/ DataLost
  \/ \E r \in Request :
       consume(r) \/ iveriTokenBucket(r) \/ Resend(r) \/ Returns(r)

Spec == Init /\ [][Next]_vars

-----------------------------------------------------------------------------
(* Properties                                                               *)

\* In every interval, however it is cut, the script allows at most the burst
\* plus the refill of the interval, plus the refill of the clocks' spread: late
\* and early clocks, repeated commands and expired keys add nothing to that
\* (the script: "Only ever move forward", "Expiring earlier would forgive ...").
RateIsBounded == ceiling >= 0

\* A request is refused only to a caller who has spent: an ideal bucket that lost
\* a token at every execution would hold less than a token and the clocks'
\* spread (the script: "a limit quietly stricter than the one configured").
NeverStricter ==
  [][\A r \in Request :
       (pc[r] = "sent" /\ pc'[r] = "refused") => allowance < Cost + Spread]_vars
=============================================================================
