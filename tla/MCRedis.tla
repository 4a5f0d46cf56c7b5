------------------------------ MODULE MCRedis -------------------------------
(* RateLimit beside RedisClient, for TLC.  What the connection does to a call  *)
(* is in RateLimit's own steps (a command sent again, a reply that never       *)
(* comes), so the bucket is checked while the client is at rest; RedisClient   *)
(* has its own runs.                                                         *)
EXTENDS RedisClient, TLC

CONSTANTS Request, Null, Capacity, Cost, Lead, Lag, Slack

VARIABLES bucket, pc, now, resent, ceiling, allowance

RateLimit == INSTANCE RateLimit

ASSUME BucketConstants == RateLimit!BucketAssumption /\ RateLimit!NullAssumption

BucketInit ==
  /\ Init
  /\ ~configured
  /\ server = "down"
  /\ RateLimit!Init

BucketSpec ==
  /\ BucketInit
  /\ [][RateLimit!Next /\ UNCHANGED vars]_<<vars, RateLimit!vars>>

\* Requests are interchangeable.
Symmetry == Permutations(Request)

\* The properties of RateLimit, stated there of the script and its callers.
RateIsBounded == RateLimit!RateIsBounded
NeverStricter == RateLimit!NeverStricter
=============================================================================
