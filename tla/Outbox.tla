------------------------------- MODULE Outbox -------------------------------
(***************************************************************************)
(* The transactional outbox: one table of durable publish intents, drained  *)
(* by the OutboxProcessor of every replica through OutboxEventRepository.   *)
(* A step is what runs between two awaits: the claim transaction's locking  *)
(* SELECT, its commit, the publish call, each terminal UPDATE.              *)
(*                                                                         *)
(* Time is relative to the database clock: nextAttemptAt[r] is how far      *)
(* ahead a row's next attempt lies (<= 0: due) and claimAge[r] how long ago *)
(* it was claimed, both saturating, so time is unbounded and the states are *)
(* finite.  Claim and retry instants are read from a replica's own clock,   *)
(* which is off by some member of Skew.                                     *)
(***************************************************************************)
EXTENDS Integers, FiniteSets

CONSTANTS
  Row,          \* the outbox rows
  Proc,         \* the replicas, each with one OutboxProcessor
  Enabled,      \* those whose configuration has isEnabled
  Steady,       \* those whose publish() calls all settle; the others' may hang
  Token,        \* claim tokens; a UUID no live reference holds counts as fresh
  Null,         \* SQL NULL, and "none" in a replica's memory
  BatchSize, ClaimTimeout, MaxAttempts, BackoffBase, BackoffMax,
  Skew,         \* replica clock minus database clock, in ticks
  Horizon,      \* rows overdue by more than this are not told apart
  MaxFaults     \* bound: crashes, shutdowns, database errors, soft deletions
                \* and restores in a behaviour

ASSUME OutboxAssumption ==
  /\ Enabled \subseteq Proc /\ Steady \subseteq Proc
  /\ {BatchSize, MaxAttempts} \subseteq Nat \ {0}
  /\ {ClaimTimeout, BackoffBase, BackoffMax, Horizon, MaxFaults} \subseteq Nat
  /\ Skew \subseteq Int
  /\ Null \notin Token
  /\ Null \notin Row
  /\ Null \notin Proc
  /\ Null \notin Int

VARIABLES
  status, attemptCount, nextAttemptAt, claimAge, claimToken, deleted,
                \* the columns of each row
  lockedBy,     \* the open claim transaction that holds the row's lock
  pc,           \* where each replica's cycle stands
  armed,        \* the poll interval is set
  lease, batch, current, seen,
                \* the cycle's token, unfinished rows, row in hand, and the
                \* attempt counts as they were when the batch was claimed
  faults,
  delivered,    \* history: the event has reached its consumer
  expired,      \* history: some claim of the row was taken over after its timeout
  superseded,   \* history: rows of a replica's batch that a later claim took
  deadReported  \* history: "dead-lettered" has been logged for the row

columns  == <<status, attemptCount, nextAttemptAt, claimAge, claimToken>>
memory   == <<armed, lease, batch, current, seen>>
vars     == <<columns, deleted, lockedBy, pc, memory, faults,
              delivered, expired, superseded, deadReported>>

Status   == {"pending", "processing", "published", "dead_letter"}
Open     == {"pending", "processing"}
Working  == {"publishing", "delivered", "marking", "failing", "failing_permanently"}
PC       == {"down", "idle", "claiming"} \union Working
Ticks  == Int \union {Null}

TypeOK ==
  /\ status \in [Row -> Status]
  /\ attemptCount \in [Row -> Nat]
  /\ nextAttemptAt \in [Row -> Ticks]
  /\ claimAge \in [Row -> Ticks]
  /\ claimToken \in [Row -> Token \union {Null}]
  /\ deleted \in [Row -> BOOLEAN]
  /\ lockedBy \in [Row -> Proc \union {Null}]
  /\ pc \in [Proc -> PC]
  /\ armed \in [Proc -> BOOLEAN]
  /\ lease \in [Proc -> Token \union {Null}]
  /\ batch \in [Proc -> SUBSET Row]
  /\ current \in [Proc -> Row \union {Null}]
  /\ seen \in [Proc -> [Row -> Nat]]
  /\ faults \in 0..MaxFaults
  /\ delivered \in [Row -> BOOLEAN]
  /\ expired \in [Row -> BOOLEAN]
  /\ superseded \in [Proc -> SUBSET Row]
  /\ deadReported \in [Row -> BOOLEAN]

\* Rows as a service inserts them: due at once, unclaimed.
Init ==
  /\ status = [r \in Row |-> "pending"]
  /\ attemptCount = [r \in Row |-> 0]
  /\ nextAttemptAt = [r \in Row |-> 0]
  /\ claimAge = [r \in Row |-> Null]
  /\ claimToken = [r \in Row |-> Null]
  /\ deleted = [r \in Row |-> FALSE]
  /\ lockedBy = [r \in Row |-> Null]
  /\ pc = [p \in Proc |-> "idle"]
  /\ armed = [p \in Proc |-> p \in Enabled]
  /\ lease = [p \in Proc |-> Null]
  /\ batch = [p \in Proc |-> {}]
  /\ current = [p \in Proc |-> Null]
  /\ seen = [p \in Proc |-> [r \in Row |-> 0]]
  /\ faults = 0
  /\ delivered = [r \in Row |-> FALSE]
  /\ expired = [r \in Row |-> FALSE]
  /\ superseded = [p \in Proc |-> {}]
  /\ deadReported = [r \in Row |-> FALSE]

-----------------------------------------------------------------------------
(* Time, faults and the replica's life                                      *)

\* The database clock advances by one tick.
Tick ==
  /\ nextAttemptAt' = [r \in Row |->
       IF nextAttemptAt[r] = Null \/ nextAttemptAt[r] <= -Horizon
         THEN nextAttemptAt[r] ELSE nextAttemptAt[r] - 1]
  /\ claimAge' = [r \in Row |->
       IF claimAge[r] = Null \/ claimAge[r] > ClaimTimeout
         THEN claimAge[r] ELSE claimAge[r] + 1]
  /\ UNCHANGED <<status, attemptCount, claimToken, deleted, lockedBy, pc, memory,
                 faults, delivered, expired, superseded, deadReported>>

Fault == faults < MaxFaults /\ faults' = faults + 1

\* What the replica holds in memory for a cycle is gone, whatever ends it.
ForgetCycle(p, next) ==
  /\ pc' = [pc EXCEPT ![p] = next]
  /\ lease' = [lease EXCEPT ![p] = Null]
  /\ batch' = [batch EXCEPT ![p] = {}]
  /\ current' = [current EXCEPT ![p] = Null]
  /\ seen' = [seen EXCEPT ![p] = [r \in Row |-> 0]]
  /\ superseded' = [superseded EXCEPT ![p] = {}]

\* The claim transaction is over, committed or rolled back.
ReleaseLocks(p) ==
  lockedBy' = [r \in Row |-> IF lockedBy[r] = p THEN Null ELSE lockedBy[r]]

\* The process dies wherever it stands; an open transaction rolls back.
Crash(p) ==
  /\ pc[p] # "down"
  /\ Fault
  /\ ForgetCycle(p, "down")
  /\ ReleaseLocks(p)
  /\ armed' = [armed EXCEPT ![p] = FALSE]
  /\ UNCHANGED <<columns, deleted, delivered, expired, deadReported>>

\* stop(): no further polls, and a cycle in progress is not waited for.
Stop(p) ==
  /\ armed[p]
  /\ Fault
  /\ armed' = [armed EXCEPT ![p] = FALSE]
  /\ UNCHANGED <<columns, deleted, lockedBy, pc, lease, batch, current, seen,
                 delivered, expired, superseded, deadReported>>

\* The stopped process exits, its cycle finished or not.
Exit(p) ==
  /\ p \in Enabled /\ ~armed[p] /\ pc[p] # "down"
  /\ ForgetCycle(p, "down")
  /\ ReleaseLocks(p)
  /\ UNCHANGED <<columns, deleted, armed, faults, delivered, expired, deadReported>>

start(p) ==
  /\ pc[p] = "down"
  /\ pc' = [pc EXCEPT ![p] = "idle"]
  /\ armed' = [armed EXCEPT ![p] = p \in Enabled]
  /\ UNCHANGED <<columns, deleted, lockedBy, lease, batch, current, seen, faults,
                 delivered, expired, superseded, deadReported>>

\* softDeleteOneById and restoreOneById, inherited by every outbox repository;
\* an UPDATE waits for the row lock.
SoftDeleteOrRestore(r) ==
  /\ lockedBy[r] = Null
  /\ Fault
  /\ deleted' = [deleted EXCEPT ![r] = ~deleted[r]]
  /\ UNCHANGED <<columns, lockedBy, pc, memory,
                 delivered, expired, superseded, deadReported>>

-----------------------------------------------------------------------------
(* Claiming a batch                                                         *)

\* Slip: only pending rows are claimed, a crashed replica's rows never again.
Slip_ClaimPending(r) ==
  ~deleted[r] /\ status[r] = "pending" /\ nextAttemptAt[r] # Null /\ nextAttemptAt[r] <= 0

\* The predicate of claimDueBatch's SELECT.
Claimable(r) ==
  /\ ~deleted[r]
  /\ status[r] \in Open
  /\ nextAttemptAt[r] # Null /\ nextAttemptAt[r] <= 0
  /\ \/ status[r] = "pending"
     \/ claimAge[r] = Null
     \/ claimAge[r] > ClaimTimeout

\* Slip: a plain SELECT, no lock asked for.
Slip_NoLock(r) == TRUE

\* FOR UPDATE SKIP LOCKED: a row another transaction holds is passed over.
NotSkipped(r) == lockedBy[r] = Null

\* ORDER BY next_attempt_at LIMIT batchSize.  Rows due equally long are told
\* apart by created_at, which is left open.
OldestDue(B, S) ==
  /\ B # {} /\ B \subseteq S
  /\ Cardinality(B) <= BatchSize
  /\ Cardinality(B) < BatchSize => B = S
  /\ \A r \in B, o \in S \ B : nextAttemptAt[r] <= nextAttemptAt[o]

TokensInUse == {claimToken[r] : r \in Row} \union {lease[p] : p \in Proc}

\* A poll (or a call by hand) while no cycle of this processor is running: open
\* the transaction, lock the batch, read its rows.  An empty batch ends the
\* cycle at once and changes nothing.
runCycle(p) ==
  /\ pc[p] = "idle" /\ armed[p]
  /\ \E B \in SUBSET Row, t \in Token \ TokensInUse :
       /\ OldestDue(B, {r \in Row : Claimable(r) /\ NotSkipped(r)})
       /\ lockedBy' = [r \in Row |-> IF r \in B THEN p ELSE lockedBy[r]]
       /\ lease' = [lease EXCEPT ![p] = t]
       /\ batch' = [batch EXCEPT ![p] = B]
       /\ seen' = [seen EXCEPT ![p] =
                     [r \in Row |-> IF r \in B THEN attemptCount[r] ELSE 0]]
  /\ pc' = [pc EXCEPT ![p] = "claiming"]
  /\ UNCHANGED <<columns, deleted, armed, current, faults,
                 delivered, expired, superseded, deadReported>>

\* The rows of the batch as the claim saves them: stamped, and otherwise as they were.
Stamp(p, s) ==
  /\ status' = [r \in Row |-> IF r \in batch[p] THEN "processing" ELSE status[r]]
  /\ claimAge' = [r \in Row |-> IF r \in batch[p] THEN -s ELSE claimAge[r]]
  /\ claimToken' = [r \in Row |-> IF r \in batch[p] THEN lease[p] ELSE claimToken[r]]
  /\ expired' = [r \in Row |->
       \/ expired[r]
       \/ /\ r \in batch[p] /\ status[r] = "processing"
          /\ claimAge[r] # Null /\ claimAge[r] > ClaimTimeout]
  /\ UNCHANGED <<attemptCount, nextAttemptAt>>

\* Every other attempt at these rows has lost them.
Supersede(p, own) ==
  [q \in Proc |-> IF q = p THEN own ELSE superseded[q] \union (batch[q] \intersect batch[p])]

\* The claim commits and the first row of the batch is published.
ClaimCommits(p) ==
  /\ pc[p] = "claiming"
  /\ \E s \in Skew : Stamp(p, s)
  /\ superseded' = Supersede(p, {})
  /\ ReleaseLocks(p)
  /\ \E r \in batch[p] : current' = [current EXCEPT ![p] = r]
  /\ pc' = [pc EXCEPT ![p] = "publishing"]
  /\ UNCHANGED <<deleted, armed, lease, batch, seen, faults, delivered, deadReported>>

\* The claim throws: rolled back, or committed with its reply lost.  The cycle ends.
ClaimThrows(p) ==
  /\ pc[p] = "claiming"
  /\ Fault
  /\ ReleaseLocks(p)
  /\ pc' = [pc EXCEPT ![p] = "idle"]
  /\ lease' = [lease EXCEPT ![p] = Null]
  /\ batch' = [batch EXCEPT ![p] = {}]
  /\ seen' = [seen EXCEPT ![p] = [r \in Row |-> 0]]
  /\ \/ /\ superseded' = [superseded EXCEPT ![p] = {}]
        /\ UNCHANGED <<columns, expired>>
     \/ /\ superseded' = Supersede(p, {})
        /\ \E s \in Skew : Stamp(p, s)
  /\ UNCHANGED <<deleted, armed, current, delivered, deadReported>>

-----------------------------------------------------------------------------
(* Processing one row                                                       *)

\* for (const event of batch): on to another row, or the cycle is over.
NextEvent(p) ==
  LET rest == batch[p] \ {current[p]} IN
  \/ /\ rest = {}
     /\ ForgetCycle(p, "idle")
  \/ \E r \in rest :
       /\ pc' = [pc EXCEPT ![p] = "publishing"]
       /\ current' = [current EXCEPT ![p] = r]
       /\ batch' = [batch EXCEPT ![p] = rest]
       /\ superseded' = [superseded EXCEPT ![p] = @ \intersect rest]
       /\ UNCHANGED <<lease, seen>>

\* The event reaches its consumer while publish() is in flight.
Deliver(p) ==
  /\ pc[p] = "publishing"
  /\ pc' = [pc EXCEPT ![p] = "delivered"]
  /\ delivered' = [delivered EXCEPT ![current[p]] = TRUE]
  /\ UNCHANGED <<columns, deleted, lockedBy, memory, faults,
                 expired, superseded, deadReported>>

\* Slip: publish() is not awaited.
Slip_NoAwait(p) ==
  /\ pc[p] \in {"publishing", "delivered"}
  /\ pc' = [pc EXCEPT ![p] = "marking"]
  /\ UNCHANGED <<columns, deleted, lockedBy, memory, faults,
                 delivered, expired, superseded, deadReported>>

\* publish() resolves only for an event that was delivered.
PublishResolves(p) ==
  /\ pc[p] = "delivered"
  /\ pc' = [pc EXCEPT ![p] = "marking"]
  /\ UNCHANGED <<columns, deleted, lockedBy, memory, faults,
                 delivered, expired, superseded, deadReported>>

\* publish() rejects, delivered or not; isPermanentFailure judges the error.
PublishRejects(p) ==
  /\ pc[p] \in {"publishing", "delivered"}
  /\ \E outcome \in {"failing", "failing_permanently"} : pc' = [pc EXCEPT ![p] = outcome]
  /\ UNCHANGED <<columns, deleted, lockedBy, memory, faults,
                 delivered, expired, superseded, deadReported>>

\* Slips: the token, or the id, is left out of the predicate.
Slip_AnyToken(p, r) == r = current[p]
Slip_WholeBatch(p, r) == claimToken[r] = lease[p]

\* WHERE id, tenant_id and claim_token match.
Claimed(p, r) == r = current[p] /\ claimToken[r] = lease[p]

\* updateClaimed: the row the attempt still holds takes the patch, any other
\* affects nothing.  The UPDATE waits for the row's lock.
updateClaimed(p, newStatus, attempts, due) ==
  /\ lockedBy[current[p]] = Null
  /\ status' = [r \in Row |-> IF Claimed(p, r) THEN newStatus ELSE status[r]]
  /\ attemptCount' = [r \in Row |-> IF Claimed(p, r) THEN attempts ELSE attemptCount[r]]
  /\ nextAttemptAt' = [r \in Row |-> IF Claimed(p, r) THEN due ELSE nextAttemptAt[r]]
  /\ claimAge' = [r \in Row |-> IF Claimed(p, r) THEN Null ELSE claimAge[r]]
  /\ claimToken' = [r \in Row |-> IF Claimed(p, r) THEN Null ELSE claimToken[r]]

UpdatePublished(p) == updateClaimed(p, "published", attemptCount[current[p]], Null)

markPublished(p) ==
  /\ pc[p] = "marking"
  /\ UpdatePublished(p)
  /\ NextEvent(p)
  /\ UNCHANGED <<deleted, lockedBy, armed, faults, delivered, expired, deadReported>>

\* markPublished throws inside the try, its write applied (the reply was lost)
\* or not: the attempt goes on as a failed one.
markPublishedThrows(p) ==
  /\ pc[p] = "marking"
  /\ Fault
  /\ UpdatePublished(p) \/ UNCHANGED columns
  /\ \E outcome \in {"failing", "failing_permanently"} : pc' = [pc EXCEPT ![p] = outcome]
  /\ UNCHANGED <<deleted, lockedBy, memory, delivered, expired, superseded, deadReported>>

\* nextOutboxAttemptAt: full jitter over an exponential ceiling, on the replica's clock.
Ceiling(attempts) ==
  LET exponent == IF attempts <= 1 THEN 0 ELSE IF attempts > 21 THEN 20 ELSE attempts - 1
      uncapped == BackoffBase * 2 ^ exponent
  IN IF uncapped < BackoffMax THEN uncapped ELSE BackoffMax

nextOutboxAttemptAt(attempts) ==
  {s + d : s \in Skew, d \in {d \in 0..Ceiling(attempts) : d < Ceiling(attempts) \/ d = 0}}

Attempt(p) == seen[p][current[p]] + 1

\* Slip: one attempt too many.
Slip_OneMore(p) == pc[p] = "failing_permanently" \/ Attempt(p) > MaxAttempts

IsDeadLetter(p) == pc[p] = "failing_permanently" \/ Attempt(p) >= MaxAttempts

UpdateFailed(p) ==
  \/ /\ IsDeadLetter(p)
     /\ updateClaimed(p, "dead_letter", Attempt(p), Null)
  \/ /\ ~IsDeadLetter(p)
     /\ \E due \in nextOutboxAttemptAt(Attempt(p)) :
          updateClaimed(p, "pending", Attempt(p), due)

\* recordFailure returns, and a dead letter is logged whether or not the write landed.
recordFailure(p) ==
  /\ pc[p] \in {"failing", "failing_permanently"}
  /\ UpdateFailed(p)
  /\ NextEvent(p)
  /\ deadReported' = [deadReported EXCEPT ![current[p]] = @ \/ IsDeadLetter(p)]
  /\ UNCHANGED <<deleted, lockedBy, armed, faults, delivered, expired>>

\* recordFailure throws, applied or not: nothing catches it, and the cycle ends
\* with the rest of its batch still claimed.
recordFailureThrows(p) ==
  /\ pc[p] \in {"failing", "failing_permanently"}
  /\ Fault
  /\ UpdateFailed(p) \/ UNCHANGED columns
  /\ ForgetCycle(p, "idle")
  /\ UNCHANGED <<deleted, lockedBy, armed, delivered, expired, deadReported>>

-----------------------------------------------------------------------------

\* What a replica does of itself, in the order the code awaits it.
Publishes(p) == Deliver(p) \/ PublishResolves(p) \/ PublishRejects(p)
Records(p)   == runCycle(p) \/ ClaimCommits(p) \/ markPublished(p) \/ recordFailure(p)
Cycle(p)     == Publishes(p) \/ Records(p)

Failing(p) ==
  \/ Crash(p) \/ Stop(p)
  \/ ClaimThrows(p) \/ markPublishedThrows(p) \/ recordFailureThrows(p)

Next ==
  \/ Tick
  \/ \E p \in Proc : Cycle(p) \/ Failing(p) \/ Exit(p) \/ start(p)
  \/ \E r \in Row : SoftDeleteOrRestore(r)

Spec == Init /\ [][Next]_vars

\* The clock runs, every awaited call returns but a publish() that hangs, a
\* stopped process exits and a new one is started.  Nothing is assumed of the
\* steps that fail.
Fairness ==
  /\ WF_vars(Tick)
  /\ \A p \in Proc : WF_vars(Records(p)) /\ WF_vars(Exit(p)) /\ WF_vars(start(p))
  /\ \A p \in Steady : WF_vars(Publishes(p))

FairSpec == Spec /\ Fairness

-----------------------------------------------------------------------------
(* Properties                                                               *)

\* While no other claim has taken a row of a running batch, the row is exactly
\* as claimed: it still carries this cycle's token and the attempt count the
\* cycle read, so its terminal write will land and will count correctly.  (The
\* row in hand is excepted once its outcome is being written.)  What the row
\* locks of claimDueBatch and the token predicate of updateClaimed are for.
LeaseIntact ==
  \A p \in Proc : pc[p] \in Working =>
    \A r \in batch[p] \ superseded[p] :
      (r = current[p] => pc[p] \in {"publishing", "delivered", "marking"}) =>
        /\ status[r] = "processing"
        /\ claimToken[r] = lease[p]
        /\ attemptCount[r] = seen[p][r]

\* A row is recorded published only after its event reached the consumer
\* (process: publish, then markPublished).
PublishedWasDelivered == \A r \in Row : status[r] = "published" => delivered[r]

\* A row is published, dead-lettered or rescheduled only by the step of a
\* replica that is writing that row's outcome and whose claim no other has taken
\* over: "a stale attempt ... updates nothing" (updateClaimed).
OnlyTheHolderSettles ==
  [][\A r \in Row :
       (status'[r] # "processing" /\ <<status[r], attemptCount[r]>>' # <<status[r], attemptCount[r]>>)
         => \E p \in Proc :
              /\ current[p] = r /\ r \notin superseded[p]
              /\ pc[p] \in {"marking", "failing", "failing_permanently"}
              /\ <<pc[p], current[p]>>' # <<pc[p], current[p]>>]_vars

\* An event is delivered again only after a failed attempt was recorded for it
\* or a claim of it outlived claimTimeoutMs: the only two doors to a duplicate
\* (claimDueBatch: "which is where at-least-once becomes visible").
RedeliveryHasACause ==
  [][\A p \in Proc :
       (pc[p] = "publishing" /\ pc'[p] = "delivered" /\ delivered[current[p]])
         => attemptCount[current[p]] > 0 \/ expired[current[p]]]_vars

\* An event logged as dead-lettered is not one that was published
\* (OutboxLogger: "to report a lost lease and a dead letter").
DeadLetterReportIsTrue == \A r \in Row : deadReported[r] => status[r] # "published"

\* The outbox keeps the promise OutboxContract states: pending and processing
\* rows are its open events, attemptCount the failures it has recorded.
Contract == INSTANCE OutboxContract WITH
  Event <- Row,
  outcome <- [r \in Row |-> IF status[r] \in Open THEN "open" ELSE status[r]],
  failures <- attemptCount

FulfilsContract == Contract!Spec

\* Every row is published or dead-lettered in the end, or was soft-deleted on
\* the way, whatever crashed, whatever reply was lost and whichever replica hangs
\* in a publish() for ever (runCycle then returns 0 on every poll), provided the
\* attempts of the others come to outlive their claims no more.  (If publishing
\* keeps taking longer than claimTimeoutMs, replicas take the row from each other
\* for ever: an attempt that lost its lease neither settles the row nor counts
\* against maxAttempts.)
EveryRowSettles ==
  <>[](\A p \in Steady : superseded[p] = {})
    => \A r \in Row : <>(deleted[r] \/ status[r] \in {"published", "dead_letter"})
=============================================================================
