# TLA+ models of @iveri/nest-sdk

`@iveri/nest-sdk` is the shared library of a fleet of NestJS services: every service
embeds it, so its components run in several replicas of several services at once, over a
shared Postgres and Redis. This directory models the parts of it that keep state across
awaits, processes or clocks, checks them with TLC, and proves the most important results
with TLAPS. Source paths below are relative to the library's `src/` unless they start with
`src/src/`; `PROJECT.json` maps each definition to the lines it stands for.

## Inventory

| Component | State it keeps | Operations | Hard behaviour | What makes it correct |
|---|---|---|---|---|
| **Outbox** `outbox` | one row per publish intent (status, attempts, due time, claim age, claim token); per replica the cycle in progress | poll, claim a batch, publish, record success or failure, stop, crash, soft delete | replicas race on rows; a claim expires under a running attempt; the outcome of a write is unknown; clocks differ | one holder per row; outcomes true and final; bounded attempts; every row settles |
| **Service token** `service-token` | cached token and expiry, exchange in flight | getAccessToken, invalidate | callers await one shared exchange; invalidation races it; the expiry is measured at receipt | one exchange at a time; no token past its expiry; no failure remembered |
| **Rate limit** `rate-limit` | one bucket per key in Redis | consume | replicas with their own clocks; key expiry; commands sent twice; fail-open | no interval grants more than burst and refill; none is stricter |
| **Redis client** `redis` | connection, log throttle | connect, commands, errors, shutdown | connections lost under commands; a server that accepts and never answers; clocks set back; shutdown with commands in flight | no call hangs; a decision goes unenforced only with a cause; one log line per interval, and it counts what it hides |
| **Health** `health` | startup latch | live, ready, startup | probes overlap; checks flap and hang | the latch holds; answers match what was to be seen |
| **Metrics** `observability/metrics` | registry | render, collectors, sources, HTTP hooks | scrapes overlap; a collector throws | no stale or missing series |
| **Request pipeline** `context`, `exception`, `observability` | correlation context, in-flight gauge, listeners | id assignment, metering, filter, report | hang-ups, errors after the head was sent, errors before the middleware | one id per request; counted once; counts and reports agree |
| **Authentication and permissions** `auth`, `testing` | request context | AuthGuard, PermissionGuard, route walk | guards in either order; permissions that age in a token; metadata on handler and class | no handler runs without its permissions, except within the revocation window |
| **Tenant repository** `repository` | rows of a table | find, save, update, soft delete, restore, query builder | where and values from a request body; stale entities | no tenant sees or changes another's rows |
| **Object storage, retention metrics** `storage`, `observability/metrics` | objects; gauge and counter per sweep | put, remove; register, recordSuccess | a request given up on takes effect later; a sweep fails or dies half-way; a cron that was never registered | a purged row has no object, a live one has its own; success is reported only for work done; a stalled sweep shows |
| **Encryption** `encryption` | the master key | encrypt, decrypt | damaged and spliced columns; replicas with different keys | decrypt returns what was encrypted, or refuses |
| **Scrubbing** `observability/error` | none | scrubEvent | shared and cyclic objects, names in any case | nothing sensitive leaves, nothing else is lost without a trace |
| **Socket origins, rate limit keys, configuration, entities, DTOs, Swagger theme, e2e harness** | none | pure functions, declarations | — | — |

How they interact: a service's `onModuleInit` starts the outbox processor, whose `publish`
calls another service with a bearer from the service token cache. A request passes the
logger, the correlation middleware, the metrics middleware, the guards and the handler; the
exception filter takes what any of these throws and hands it to the error reporter, which scrubs it. Handlers
reach rows through the tenant repository, store secrets in them as envelopes and bytes beside them
as objects, and may call the rate limiter, the only user of the Redis client. A cron of the service
sweeps expired rows and their objects and reports to the metrics. A scrape reads the outbox's depths and the database pool; a probe
asks the dependencies.

## The modules

Every module is written from the source; a step is what runs between two awaits. Operators
named `Slip_...` stand next to the definition they falsify: each is a plausible bug, and the property
it was written for is known to fail when the slip takes the definition's place.

| Module | Models | Checked by | Proofs |
|---|---|---|---|
| `Outbox` | `outbox/*`: the table, `OutboxProcessor`, `OutboxEventRepository` | `outbox_safety`, `outbox_recovery`, `outbox_deadletter_report` | `OutboxProofs` |
| `OutboxContract` | what the outbox promises (abstract) | `FulfilsContract` in `outbox_recovery` | `OutboxProofs` |
| `ServiceToken` | `service-token.service.ts` | `token_cache` | `ServiceTokenProofs` |
| `RateLimit` | `rate-limit.service.ts`, `token-bucket.constant.ts`, the command options of `redis.service.ts` | `bucket` | `RedisProofs` |
| `RedisClient` | `redis.service.ts`, and `consume` as its caller | `redis` | `RedisProofs` |
| `Retention` | `object-storage.service.ts`, `retention-sweep.metrics.ts`, with the sweep they are documented for | `retention` | `RetentionProofs` |
| `Encryption` | `encryption.service.ts` | `process` | `ProcessProofs` |
| `Scrub` | `scrub-event.util.ts` and its constants | `process` | `ProcessProofs` |
| `Health` | `health.controller.ts` | `process` | `ProcessProofs` |
| `Metrics` | `metrics.service.ts`, `collect()` of the outbox, `database-pool.metric-source.ts`, the scrape route | `metrics_scrapes` | `ObservabilityProofs` |
| `RequestPipeline` | `assign-correlation-id.util.ts`, the two middlewares, `global-exception.filter.ts`, `error-reporter.service.ts` | `pipeline_requests` | `ObservabilityProofs` |
| `Auth` | the guards, `access-token.service.ts`, `testing/registered-route.ts` | `auth_guards` | `AuthProofs` |
| `TenantRepository` | `base.repository.ts`, `tenant-scope.util.ts` | `tenant_rows` | `TenantRepositoryProofs` |

`MC*` modules give TLC its symmetries and the constants that are not sets of model values. Three of them also put
modules side by side that share no state, so that one run, or one proof module, is about several: no step of one is
visible to another, and each is checked while the others are at rest.

* `MCProcess`: the vault, the health endpoints and the scrubber; a behaviour is one of any one of the three.
* `MCRedis`: the bucket beside the Redis client. What a connection does to a command, a second sending or a reply that
  never comes, is in `RateLimit`'s own steps already.
* `MCObservability`: the scrapes beside the request pipeline, which does not count them.

### Outbox

`status` … `deleted` are the columns; `lockedBy` is the row lock of an open claim transaction;
`armed` the poll timer; `pc`, `lease`, `batch`, `current`, `seen` are `runCycle`'s position, the
claim token, the rows not yet finished, the row in hand and the attempt counts as they were read.
`runCycle` opens the claim transaction (the `SELECT … FOR UPDATE SKIP LOCKED`, oldest due first),
`ClaimCommits` stamps and commits, `Deliver` / `PublishResolves` / `PublishRejects` are one
`publish()`, `markPublished` and `recordFailure` the terminal UPDATEs with their token predicate.
`ClaimThrows`, `markPublishedThrows`, `recordFailureThrows` are the same calls rejecting, the
write applied or not; what happens next follows the code (a rejected `markPublished` falls into
the catch and is recorded as a failure; a rejected `recordFailure` ends the cycle). `Crash`,
`Stop`, `Exit`, `start` are the process's life. A batch larger than one is processed in any order.

Time is relative to the database clock and saturates, so it is unbounded and the states are
finite; a replica's instants are off by a member of `Skew`. The history variables record
deliveries, expired claims, lost leases and logged dead letters; no step reads them. `Steady` names the
replicas whose `publish()` calls settle; another's may stay pending for ever, and with it its cycle,
its `isRunning` flag and its shutdown.

`OutboxContract` is the promise in three variables: outcome, failures recorded, delivered.
`Outbox` implements it under `outcome <- open / status`, `failures <- attemptCount`.

### ServiceToken

`cached`, `inFlight` are the fields; `stage`, `minted`, `age` describe each promise of
`fetchToken`; callers are `idle`, `waiting` on an exchange, or `holding` a token. `Finally` is the
`finally()` that clears the field before the callers resume. A token carries its *era*: a change of
permissions or keys makes older tokens refusable. `left` is what identity would say of the
token's life, `believed` what `expiresAt` says. `PromisesRun` keeps replies, which are callbacks of
the event loop, behind promise callbacks.

### RateLimit

One bucket; the script is one atomic step. The unit is one tick's refill, so fractions need no
rounding. Requests carry `now`, read before the command travels: up to `Lead` ahead of Redis's
clock or `Lag` behind it. `Resend` is ioredis sending a command again after a broken connection;
`Returns` is the decision, or the unenforced one after any rejection. The history variables
`ceiling` and `allowance` are ideal buckets, an upper and a lower bound.

### RedisClient

`link` is ioredis's status, `server` what is at the other end: up, down, or *wedged* (it accepts
connections and answers nothing). `call` are the rate limiter's commands: `LinkDrops` keeps those in
flight to send them again (`waiting`), and the next failed attempt to connect rejects them, which is what
`maxRetriesPerRequest: 1` comes to; without `ready` a command is rejected at once (no offline queue); `commandTimeout`
ends the rest. `logConnectionError` is the throttle: `sinceLog` is `Date.now() - lastErrorLoggedAt`, which
setting the wall clock moves either way (`ClockSet`). `onApplicationShutdown` sends QUIT behind the commands in
flight, and its catch severs the connection. `realSince`, `setForward`, `unlogged`
and `excused` are history: what the log should have said, and which calls had a reason to fail.
`RateLimit` keeps what a command sent twice or late does to the bucket; this module keeps which commands fail.

### Retention

`row`, `object` and `upload` describe each row, its object and the upload under way; a row goes from none
through live and due to purged, and may be overwritten while live. A request that timed out goes into `late` and may take effect at any
later time, or never (`LateLands`, `LateIsLost`). `pc`, `todo`, `current`, `removed` are a replica's sweep;
`lastSuccess`, `rows` its gauge's age and its counter; `start` is the boot, which seeds the gauge whether the cron is
registered or not (`Scheduled`). `SweepThrows` is a rejected database write, applied or not; `Crash` may leave a DELETE under way.

### Encryption

AES-256-GCM is ideal: a sealed value is the triple of its key, nonce and text, and opens under that key
and nonce with its own tag or not at all. A call's number stands for the random data key and nonces it draws.
`Damage` replaces a field of a stored envelope by junk or by the same field of another row's; `boot` gives a
replica another master key, as in a rollout. Serialization and base64 are abstracted to the seven fields; a
wrong count of fields is a wrong version.

### Scrub

The event's structured parts are nodes of a heap of records and arrays, any of them shared or
cyclic; leaves are tagged records. `Scrubbed` is one level of the traversal, `scrubValue` a recursive function of depth and
reference; `scrubParts` and `scrubEvent` assemble the report. `ScrubbedPathByPath` does not mention the traversal: it
compares what each path of property names and indices leads to before and after.

### Health, Metrics

`Health`: probes ask one of the two lists, checks settle one at a time, or never (`Hangs`), while dependencies flap,
`Conclude` is the continuation after `Promise.all`, with the latch; `GivesUp` is the orchestrator hanging
up on a probe that cannot conclude. `Metrics`: `render` resets the
queue gauge and calls everything; a collector reads (`Reads`) and sets (`SetsGauge`) in two steps,
the database pool in one (`refresh`); `Throws` is a rejection, which leaves the registry alone;
`Renders` reads the shared registry.

### RequestPipeline

A request arrives, may be rejected by the body parser, is logged, opened by the correlation
middleware, metered, guarded and handled; anything thrown on the way reaches `catch`. `service`
says which of the logger's `genReqId`, the middleware and the reporter the service set up, as
all three are optional. The socket may close at any await; a handler may fail after sending its
head, in which case Express destroys the connection. Exceptions are reduced to what `normalize`
tells apart.

### Auth

The guards run in either order of registration; anything can happen between them. Identity
grants, revokes and mints; tokens carry the permissions of their moment and any of four shapes of
claims. `lostAt` and `entitled` are history: when a principal last lost a permission, and what it could
rightly claim when its token was verified. The second half transcribes the route walk.

### TenantRepository

Handlers of several tenants await between the repository's calls. A `where` is missing, a clause,
an OR, or the empty array, with a `tenantId` of the caller's choice among its columns. TypeORM's
`save` is two statements, modelled as it is used (external): a load by id, then an INSERT, or an
UPDATE of the columns that differ. *Assumption on the services*: a handler saves what it built
without an id or has read through the repository. Without it `saveOne` with an id from elsewhere
could move another tenant's row, because `save` loads and updates by id alone.

## Runs, and what they show

| Run | Shows | Bounds |
|---|---|---|
| `outbox_safety` | leases and outcomes are right with batches of two | 2 rows, 2 replicas, 4 tokens, 2 attempts, 1 fault, one clock |
| `outbox_recovery` | redeliveries have a cause; refinement of `OutboxContract`; every row settles although one replica may hang in `publish()` | 1 row, 2 replicas, one of them steady, 3 tokens, 2 attempts, 2 faults, clocks ±1 |
| `outbox_deadletter_report` | the divergence below | 1 row, 2 replicas, 3 tokens, 2 attempts, no fault, one clock |
| `token_cache` | one exchange, live tokens, fresh retries, tokens again after failures | 2 callers, 2 promises, 1 change of era, 2 failures, lifetimes 1 and 3 around the skew |
| `bucket` | no interval grants too much, none too little | 3 requests, burst 5 units at 2 a request, spread 3 |
| `process` | health: answers, latch, progress past hanging checks; encryption: every read exact; scrubbing: every path | 2 probes, 2 checks, one of them in both lists; 2 rows, 2 replicas, 2 keys, 2 texts, 2 calls, 2 damaged fields; every heap of 2 objects, 2 property names, arrays of 1, depth 3 |
| `redis` | why decisions go unenforced, the truth of the error log, no call and no shutdown hangs | 2 calls, 2 faults, 2 clock changes of up to 2 ticks, intervals of 2 ticks |
| `retention` | rows and objects consistent, sweeps' reports earned, due rows purged, stalls alerted | 2 rows, 3 replicas (2 scheduled), 1 fault, alert after 1 tick |
| `metrics_scrapes` | overlapping scrapes render what was true | 2 scrapes, 1 queue, 1 source, 2 depths |
| `pipeline_requests` | ids, gauge, counts and reports | 2 requests, 3 ids, all 8 set-ups, every exception |
| `auth_guards` | the revocation window, true contexts, true refusals | 1 request, a user and an API key in two tenants, 2 permissions, 7 routes, both orders, skew 1 |
| `tenant_rows` | isolation of reads and writes, stale saves included | 2 tenants, 2 ids, 2 values, 2 handlers |

Why the bounds are enough. In the outbox two replicas are the race: a third can only take over
a row that two already fought over, and `expired`/`superseded` do not count. Three tokens are needed for a
claim, its takeover and the takeover's takeover; two rows make batches in which one row outlives
another; two attempts reach both branches of the retry; two faults reach "reply lost, then crash".
`ClaimTimeout = 1` and saturation make every order of expiry, backoff and outcome happen. In the
token cache the lifetimes straddle the skew, and two callers are a joiner and a starter; a third would
join too. In the bucket three requests can hold three different instants, before, at and after
`updatedAt`, with burst for two and a half of them. In the pipeline requests share only the gauge
and the id space. In `auth_guards` requests share nothing but identity, so one is enough, and it
may meet any token of two principals. Two tenants, two rows and two handlers of any tenant make every
pair of "mine" and "theirs". In `redis` two calls are one ahead of QUIT and one behind it, or one cut off and one sent
afterwards; a fault brings the server down and a second breaks the connection or changes it again; the interval is longer
than a tick so that a clock can be set into it and past it. In `retention` two sweeps meet on one row while a third replica stays
silent, and a second row separates "some failed" from "all failed"; one fault is any one lost reply, late
request, throwing sweep or crash, and its late effect, which costs none, can come at any later time. Two of everything in
the vault make every splice, two calls with different keys included. In the scrubber depth 3 leaves room for
a cycle through two objects on both sides of the cut; the source's depth differs in the number only. The bounds are
gone in the theorems.

Deadlock is checked everywhere but in `process`, where a scrubbed report is the end. Action coverage is complete: every action of every next-state
relation fires in some passing run.
Every type invariant and every safety property of the runs is a theorem, or a conjunct of an invariant that is one.

## Fairness

* `Outbox!Fairness`: the clock runs; each replica's own next step (a poll, a call that returns) and the exit and
  restart of a stopped process eventually happen (`setInterval`, the orchestrator). Nothing is
  assumed of steps that fail, and faults are finite. `publish()` is assumed to settle for the `Steady` replicas only; the code has no
  timeout of its own around it, and a row a hanging replica holds is taken over when its claim expires. `EveryRowSettles` holds only if attempts come to outlive their
  claims no more: if publishing always takes longer than `claimTimeoutMs`, two replicas take a row
  from each other for ever and no attempt counts against `maxAttempts`.
* `ServiceToken!Fairness`: exchanges settle (`timeoutMs`), promise callbacks run, callers go on.
* `Health!Fairness`: a check settles or hangs, continuations run. Nothing in the code bounds a check that hangs, so
  `ProbesAreAnswered` is about the others: no probe waits for another's checks.
* `RedisClient!Fairness`: time passes, the library's timers fire (reconnect, `connectTimeout`, `commandTimeout`), a
  server that is up answers. Nothing is assumed of callers, of the server coming back, or of a shutdown being asked for.
* `Retention!Fairness`: time passes, a dead replica is started again, the cron fires, each call of a sweep returns.
  Nothing is assumed of uploads, and faults are finite.

The other modules state safety only.

## Assumptions

* `ServiceToken`: `Timeout <= Skew` (5 s and 30 s by default). With a larger timeout a token would
  be handed out past its expiry.
* `RateLimit`: `Slack >= Spread`: the second of slack in the key's TTL covers clock skew and the time
  a command travels, which `commandTimeout` (1 s by default) bounds. `DataLost` (a restart or
  eviction in Redis) resets the books: the limiter promises nothing across it. Unenforced decisions are
  outside the bound, by the documented choice to fail open.
* `RedisClient`: a server that is up answers within `commandTimeout`; the process does not boot within an interval of the epoch.
* `Health`: the two lists name known checks. `RequestPipeline`: finitely many requests over the life of a process, so
  that the gauge can be compared with a cardinality; an error body differs from the absence of one.
* `Retention`: the rows and the sweep are the consuming service's, in the order the two services' comments
  prescribe. A key is not used again once its row is due, and a row comes due long after its last upload has been
  answered or lost; without the second a late PUT could bring back the object of a purged row.
* `Encryption`: AES-GCM is ideal, random keys and nonces never repeat. An envelope copied whole to another row
  opens there: nothing binds it to its row.
* `Scrub`: depth and array width are naturals; a sensitive name is a property name, no name is an array index, and an
  object is not one of its leaves.
* `Auth`: identity signs what it means; `KindOf` is total.
* Library behaviour (TypeORM's `save`, express's events, ioredis's retry and shutdown, S3's DELETE of an absent key, Postgres's row locks) is
  modelled from how the code uses it and marked external in the map.

## Theorems

TLAPS checks these for all values of the constants, from the assumptions above. In each module
the invariant is shown to hold initially and to be kept by every action (one step per action, one
lemma per conjunct where an action disturbs several), and `PTL` lifts it to the specification.

* `OutboxProofs`: `TypeCorrect`, `LeaseIsIntact`, `PublishedIsTrue`, `HolderSettles`, `KeepsContract`, `DuplicatesHaveACause`,
  `FalseReportsHaveACause`, `NoRowIsStranded`.
  `LeaseIntact` alone is not inductive: the strengthening says which tokens can be where. A token in a
  row belongs to at most one running cycle, two cycles never share one, a row a claim transaction
  locks is as that transaction read it, and a batch row whose token is gone is in `superseded`. `KeepsContract` is the
  refinement (safety): initial states map to initial states, each step to a step of the contract or a
  stutter; recording a failure needs `attemptCount = seen`, which the lease gives. `DuplicatesHaveACause` needs `CauseInv`
  beside it: a row that was delivered although a cycle has it still ahead, that two cycles work on, or that is pending
  after its delivery or while a cycle works on it, has a recorded failure or a claim that timed out; and a claim takes
  over what is processing only once its age is past the timeout. `FalseReportsHaveACause` bounds the divergence below: an
  event that was logged as a dead letter is one, or a claim of it timed out, or it was published after all and something
  had failed. Its invariant follows the failed attempt: a cycle that is to record a failure still has the row's token unless
  it lost it to a takeover, which was late. `NoRowIsStranded` is the safety half of `EveryRowSettles`: an open row has an
  attempt left and waits for an instant of the clock at most, and a lock on it is that of a claim under way.
* `ServiceTokenProofs`: `TypeCorrect`, `OneExchangeAtATime`, `CacheIsSafe`, `TheRetryIsFresh`, `EveryWaiterIsServed`. The invariant has four
  parts: an exchange that has not finished is the shared one; a minted token has aged no more than
  its request; a cached token's belief exceeds the truth by at most `Timeout`; a waiting caller
  has an exchange to wait on, and a holding one has a token. For the retry it is not enough to follow the caller's own
  token: after an `invalidate()` that met no exchange, no token of an era before the refusal is left in the cache or in
  any exchange, and nothing older comes back. `EveryWaiterIsServed` is the safety half of `TokenAgain`: what is remembered as
  in flight is still to run its `finally()`, so no settled promise is ever joined, and an exchange is in memory
  exactly as long as a caller is to resume from it.
* `RedisProofs`, the bucket: `BucketTypeCorrect`, `BoundedRate`, `RefusesOnlySpenders`. The stored bucket lies
  between the two ideal ones, corrected by how far `updatedAt` is from now; an absent key is covered by
  a TTL long enough for the ideal bucket to be full. `BucketRunIsRateLimit`: what the `bucket` run explores are behaviours
  of `RateLimit`.
* `RedisProofs`, the client: `TypeCorrect`, `UnenforcedHasCause`, `LinesTellTheTruth`, `NobodyWaitsInVain`. A sent call is on a ready connection, and is excused
  already if the server is not up, the socket is to be severed, or QUIT went out before it; the throttle's count is the number of errors since the
  line, and without the clock set forward its difference of clocks never exceeds the time passed. `NobodyWaitsInVain` is the
  safety half of `EveryCallAnswers` and `ShutdownEnds`: a pending call is over time or in the hands of a server that is
  up, so is QUIT, and only a shutdown gives the connection up, taking its calls with it.
* `AuthProofs`: `TypeCorrect`, `RevocationIsBounded`, `PrincipalIsTrue`, `NothingAnonymousIsUnlisted`, `RefusalsTellTheTruth`,
  `AuditsAreTrue`.
  A token in hand or presented was minted less than a life ago with permissions its subject had then, so each is held
  now or was lost within the window; a context is that of the credential; what passed `PermissionGuard` is either ungated or
  holds every permission the route asks for. `Verdicts` adds that `AuthGuard` lets a request it judges through with a context or
  not at all, and what each refusal presupposes, in either order of the guards; the first, with the walk's reading of the same
  metadata, makes every route answered without a context one the walk lists. `AuditsAreTrue` draws the line around a
  divergence below: what the walk lists was satisfied whenever a handler ran, on every route but those whose handler's
  permissions replace some of its class's.
* `TenantRepositoryProofs`: `TypeCorrect`, `HeldStaysOwn`, `TenantsStayApart`, `OnlyOwnShows`. An
  entity held by id, and the row a save has loaded, belong to the handler's tenant; rows never change
  tenant, so they still do when the UPDATE runs.
* `RetentionProofs`: `TypeCorrect`, `PurgedIsGone`, `LiveRowsAreWhole`, `ReportedIsDone`, `NoFalseFreshness`. The invariant is a line drawn at the end of a
  row's retention: uploads, pending and late ones too, stay on one side of it and removals on the other, so once a
  sweep has seen its DELETE answered nothing brings the object back, and before that nothing takes it away. For
  `ReportedIsDone` the rows a sweep began with are split into those to come, in hand, refused and done; the done ones are purged, stay
  purged whatever the other replicas do, and the counter is their number. `NoFalseFreshness` is the safety half of
  `StalledSweepAlerts`: a replica has its series for as long as it runs, and only `recordSuccess` makes the gauge younger.
* `ProcessProofs`, the vault: `TypeCorrect`, `ExactReads`. A tag in a column is junk or some call's, and no two calls share a data
  key: so the key a wrap opens to names a call, the payload it opens is that call's, and the envelope is whole.
* `ProcessProofs`, the probes: `FreshAnswers`, `LatchIsKept`. A running probe was not begun under the latch, and whatever a check of it has
  found was so at some moment since the probe began; a check that has hung has found nothing. `ProcessHasItsParts`: a
  behaviour of the process is one of the vault and one of the health endpoints at once.
* `ProcessProofs`, the scrubber: `ScrubbedReports`, `ScrubTypeCorrect`, for any heap, any depth of cut and paths of any
  length. `ScrubInvariance` says that the report is what `scrubEvent` makes of the event; the rest is about that
  function. `scrubValue` and the two walks along a path exist by well-founded recursion over the depth or the
  prefix (`LevelsExist`, `FollowExists`, `EnterExists`), and `AgreeAlong` shows by induction along a path that what it leads to before and
  after is in step: the same data below the same names, the placeholder at a sensitive one or at the cut. The library's
  induction theorems take operators, which no installed prover instantiates; `SetInduction` is the same principle for
  a set of naturals, from the library's theorem that a non-empty set of them has a least member.
* `ObservabilityProofs`, the pipeline: `TypeCorrect`, `OneIdEach`, `GaugeIsExact`, `CountsAreAnswers`, `ReportsAgree`, over any number of
  requests. None is inductive alone. An id, wherever it appears, is the one written back to the request's header; while the
  response is open its two listeners are both there or neither, so that the first event takes the count and the second finds
  it taken; the gauge is the cardinality of the open responses with listeners, each step moving one request in or out;
  the status on the response is that of its body by the time `finish` is emitted.
* `ObservabilityProofs`, the scrapes: `DepthsWereTrue`, `LoneScrapesAreExact`. A scrape renders what another may have set, so the invariant is about
  pairs: whatever a scrape has read or may yet set, every scrape running beside it has seen true since one of the two began.
  `ScrapesAreMetrics`: the `metrics_scrapes` run explores behaviours of `Metrics`.

Only model-checked: the eight liveness properties (`EveryRowSettles`, `TokenAgain`, `ProbesAreAnswered`, `DueRowsArePurged`,
`StalledSweepAlerts`, `EveryCallAnswers`, `LastingOutageIsLogged`, `ShutdownEnds`), because fairness and ENABLED are beyond the
prover. Where the safety half of one says something by itself, it is a theorem, as noted above.

## Where the code and its documentation disagree

Shown by a run that ends in a counterexample:

* `outbox_deadletter_report`: `process()` ignores what `recordFailure` returns and logs a dead
  letter that the row never became; another replica then publishes it (`outbox.processor.ts:156`). A row whose
  `markPublished` was applied but whose reply was lost is the other case: on its last attempt it is published and logged as dead.
  `FalseReportsHaveACause` proves that without a claim timed out and without a fault every reported dead letter is one.

Refuted by TLC with a configuration that is kept beside the runs, to be started by hand:

* `RequestPipeline_internal.cfg` (`InternalStaysInternal`, module `RequestPipeline`): the message of an
  `InternalException` reaches the client (`global-exception.filter.ts:143`), which `internal.exception.ts:10` says it does not.
* `Auth_matrix.cfg` (`MatrixIsEnforced`, module `MCAuth`): the walk adds the class's permissions to the handler's, the guard lets the
  handler's replace them, so the pinned matrix can promise more than is enforced (`testing/registered-route.ts:75`).
  `AuditsAreTrue` proves that, among the routes not listed as public, those are the only ones it is wrong about.
* `Metrics_source.cfg` (`FailedSourceIsAbsent`, module `MCObservability`): a source that throws keeps its old series in the scrape
  (`metrics.service.ts:237`), against `metric-source.interface.ts:13-14`.
* `RedisClient_silence.cfg` (`UnenforcedIsExplained`): a server that wedges under an open connection makes every command time
  out and no `error` event follows, so nothing is logged (`redis.service.ts:70`), against "the failure is
  never silent" (`rate-limit.service.ts:74-75`).

Met while modelling, visible in the modules:

* `invalidate()` leaves an exchange in flight alone, so the one retry may get a token older than the
  refusal (`service-token.service.ts:76-86`). `RetryIsFresh` excepts exactly that case.
* A stale `saveOne` restores a row soft-deleted meanwhile (`base.repository.ts:119-131`).
* "Every startup check has passed at least once" (`health.controller.ts:69`) means in one and the same
  run; "keeps returning 200 thereafter" (`:126`) does not cover a probe already running when the latch is set.
* A throwing collector "leaves no series for its queue this scrape" (`metrics.service.ts:215`) unless an
  overlapping scrape sets it.
* A route both public and gated answers 401 always, although the walk lists it as public.
* The body of a 503 probe loses its `status` and `checks` in the exception filter; an unmapped 4xx gets the
  code `INTERNAL_ERROR`; an `HttpException` whose message is an array becomes a 400 whatever its status.
* A sweep in which every `remove()` answers false still reports success, as `AnswersFalse` shows: an outage
  of the bucket alone keeps the gauge fresh, and only the counter stands still.
* `MAX_SCRUB_DEPTH`'s comment says what is nested deeper is dropped; the code leaves the placeholder.

## Not modelled, and the plan

Not modelled because there is no behaviour over time to check: socket origins, key formatting, `secretsMatch`,
configuration, DTOs, Swagger CSS, the e2e harness. Inside modelled
components, wording, locale, labels and log formats are left out; so are the response headers
other than the correlation id.

Two hazards no property covers: a policy of no requests per minute, which makes the bucket's script divide by zero, is
outside the model's units (nothing validates it); the stale series of a throwing source is a
divergence, refuted above.

What is left, in this order:

1. The claim timeout against the length of a batch: under which timing of `publish()` no attempt outlives
   its claim, which is the premise of `EveryRowSettles`.
2. A composition of `RateLimit` with `RedisClient`: which unenforced decisions took a token all the same.
3. The remaining liveness properties have no safety half worth a theorem: `DueRowsArePurged` and `ProbesAreAnswered` would need
   the proof rules for fairness, which wait for a prover that handles ENABLED.
